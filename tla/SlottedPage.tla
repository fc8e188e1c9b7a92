--------------------------- MODULE SlottedPage ---------------------------
(***************************************************************************)
(* One slotted page (src/storage/on_disk/page/page_format.cpp), plain or    *)
(* with the two page pointers heap_page::InitPage reserves at its end       *)
(* (src/storage/on_disk/heap/heap_page.cpp).                                *)
(*                                                                          *)
(* The header fields and the slot directory are variables; `bytes` is the   *)
(* rest.  That records stay clear of the header and the directory is a      *)
(* property (Layout).  A record is the value its client wrote: byte i of    *)
(* value v is <<v, i>>.                                                     *)
(*                                                                          *)
(* Callers hold the page's lock, so calls do not interleave.  VacuumPage is *)
(* a loop of moves inside the page: one step per move, and no other call    *)
(* until it has ended.                                                      *)
(***************************************************************************)
EXTENDS Integers, FiniteSets

CONSTANTS
  PageSize, HeaderSize, SlotSize,
  PointerBytes,   \* bytes of the two page pointers of a heap page
  Sizes,          \* the record sizes asked for; a row has at least one column
  Values,         \* what a record may contain
  CountMod,       \* 2^16: num_tuples is a uint16_t
  DoubleDelete,   \* a caller may delete a slot it has deleted already
  VacuumHeap,     \* VacuumPage may be called on a heap page
  None            \* no record written; an undefined byte

MaxSlots == (PageSize - HeaderSize) \div SlotSize
Slots == 0 .. MaxSlots - 1
Offsets == 0 .. PageSize

ASSUME PageAssumption ==
  /\ HeaderSize \in Nat /\ SlotSize \in Nat \ {0} /\ PointerBytes \in Nat
  /\ PageSize \in Nat /\ HeaderSize + PointerBytes <= PageSize
  /\ Sizes \in SUBSET (Nat \ {0})
  /\ CountMod \in Nat /\ MaxSlots < CountMod
  /\ DoubleDelete \in BOOLEAN /\ VacuumHeap \in BOOLEAN
  /\ None \notin Values

VARIABLES
  reserved,          \* bytes kept for page pointers at the end: a heap page or not
  num_tuples, start_free_space, end_free_space,   \* header fields
  is_deleted, slot_offset, slot_size,             \* the slot directory
  bytes,             \* bytes[o]: the byte at offset o
  written,           \* written[s]: what the client of slot s wrote last, or None
  pq, freespace_end, \* VacuumPage's locals: the slots still to move, where the last
                     \* one went (PageSize when it does not run)
  vacuuming

headerVars == <<reserved, num_tuples, start_free_space>>
slotVars == <<is_deleted, slot_offset, slot_size>>
vacuumVars == <<pq, freespace_end, vacuuming>>
vars == <<headerVars, end_free_space, slotVars, bytes, written, vacuumVars>>

Byte == (Values \X Nat) \cup {None}

TypeOK ==
  /\ reserved \in {0, PointerBytes}
  /\ num_tuples \in 0 .. CountMod - 1
  /\ start_free_space \in Offsets /\ end_free_space \in Offsets
  /\ is_deleted \in [Slots -> BOOLEAN]
  /\ slot_offset \in [Slots -> Offsets]
  /\ slot_size \in [Slots -> Nat]
  /\ bytes \in [0 .. PageSize - 1 -> Byte]
  /\ written \in [Slots -> Values \cup {None}]
  /\ pq \in SUBSET Slots
  /\ freespace_end \in Int
  /\ vacuuming \in BOOLEAN

GetPageCapacity == (start_free_space - HeaderSize) \div SlotSize

\* The slots in the directory, deleted or not.
Directory == 0 .. GetPageCapacity - 1
Live == {s \in Directory : ~is_deleted[s]}
GetFreeSpaceSize == end_free_space - start_free_space

\* Mutant: heap_page::InitPage does not lower the end of the free space.
InitialEndAtPageEnd(r) == PageSize

InitialEnd(r) == PageSize - r

\* page::InitPage, and heap_page::InitPage for a page with pointers.
Init ==
  /\ reserved \in {0, PointerBytes}
  /\ num_tuples = 0
  /\ start_free_space = HeaderSize
  /\ end_free_space = InitialEnd(reserved)
  /\ is_deleted = [s \in Slots |-> FALSE]
  /\ slot_offset = [s \in Slots |-> 0]
  /\ slot_size = [s \in Slots |-> 0]
  /\ bytes = [o \in 0 .. PageSize - 1 |-> None]
  /\ written = [s \in Slots |-> None]
  /\ pq = {} /\ freespace_end = PageSize /\ vacuuming = FALSE

-----------------------------------------------------------------------------
(* Slots. *)

\* Slot s now points to `size` bytes at `offset` and is in use.
Occupy(s, offset, size) ==
  /\ slot_offset' = [slot_offset EXCEPT ![s] = offset]
  /\ slot_size' = [slot_size EXCEPT ![s] = size]
  /\ is_deleted' = [is_deleted EXCEPT ![s] = FALSE]
  /\ written' = [written EXCEPT ![s] = None]
  /\ num_tuples' = (num_tuples + 1) % CountMod
  /\ UNCHANGED <<reserved, bytes, vacuumVars>>

\* There is room for a record of this size and its slot entry.
HasRoom(size) == SlotSize + size <= GetFreeSpaceSize

\* AllocateSlot; without room it returns nothing and changes nothing.
AllocateSlot(size) ==
  /\ ~vacuuming
  /\ HasRoom(size)
  /\ start_free_space' = start_free_space + SlotSize
  /\ end_free_space' = end_free_space - size
  /\ Occupy(GetPageCapacity, end_free_space - size, size)

\* A deleted slot AllocateSlotOrReuseSlot can take: its old record is large
\* enough, or the free space is.
Reusable(s, size) ==
  /\ s \in Directory /\ is_deleted[s]
  /\ size <= slot_size[s] \/ size <= GetFreeSpaceSize

\* Mutant: the record allocation of the deleted slot is reused whatever its size.
ReuseSlotInPlace(s, size) ==
  /\ UNCHANGED <<start_free_space, end_free_space>>
  /\ Occupy(s, slot_offset[s], size)

\* The slot is reused, with its old record allocation if that is large enough.
ReuseSlot(s, size) ==
  /\ UNCHANGED start_free_space
  /\ \/ /\ size <= slot_size[s]
        /\ UNCHANGED end_free_space
        /\ Occupy(s, slot_offset[s], size)
     \/ /\ size > slot_size[s]
        /\ end_free_space' = end_free_space - size
        /\ Occupy(s, end_free_space - size, size)

\* The first deleted slot that can be reused, or else a new one.
AllocateSlotOrReuseSlot(size) ==
  /\ ~vacuuming
  /\ \/ \E s \in Slots :
          /\ Reusable(s, size)
          /\ \A t \in Slots : Reusable(t, size) => s <= t
          /\ ReuseSlot(s, size)
     \/ (\A s \in Slots : ~Reusable(s, size)) /\ AllocateSlot(size)

\* Mutant: DeleteSlot forgets the header.
DeleteSlotUncounted(s) ==
  /\ ~vacuuming
  /\ s \in Live
  /\ is_deleted' = [is_deleted EXCEPT ![s] = TRUE]
  /\ written' = [written EXCEPT ![s] = None]
  /\ UNCHANGED <<headerVars, end_free_space, slot_offset, slot_size, bytes, vacuumVars>>

\* DeleteSlot does not ask whether the slot is deleted already.
DeleteSlot(s) ==
  /\ ~vacuuming
  /\ s \in Directory /\ (is_deleted[s] => DoubleDelete)
  /\ num_tuples' = (num_tuples - 1) % CountMod
  /\ is_deleted' = [is_deleted EXCEPT ![s] = TRUE]
  /\ written' = [written EXCEPT ![s] = None]
  /\ UNCHANGED <<reserved, start_free_space, end_free_space, slot_offset, slot_size,
                 bytes, vacuumVars>>

\* The span of slot s.
Span(s) == slot_offset[s] .. slot_offset[s] + slot_size[s] - 1

\* The client copies value v into the span WriteRecord returns.
WriteRecord(s, v) ==
  /\ ~vacuuming
  /\ s \in Live
  /\ bytes' = [o \in 0 .. PageSize - 1 |->
                 IF o \in Span(s) THEN <<v, o - slot_offset[s]>> ELSE bytes[o]]
  /\ written' = [written EXCEPT ![s] = v]
  /\ UNCHANGED <<headerVars, end_free_space, slotVars, vacuumVars>>

\* Byte i of what ReadRecord returns for slot s.
ReadRecord(s, i) == bytes[slot_offset[s] + i]

-----------------------------------------------------------------------------
(* VacuumPage. *)

\* Deleted slots give up their records; the live ones are queued.
BeginVacuum ==
  /\ ~vacuuming
  /\ reserved > 0 => VacuumHeap
  /\ slot_size' = [s \in Slots |-> IF s \in Directory \ Live THEN 0 ELSE slot_size[s]]
  /\ pq' = Live
  /\ freespace_end' = PageSize
  /\ vacuuming' = TRUE
  /\ UNCHANGED <<headerVars, end_free_space, is_deleted, slot_offset, bytes, written>>

\* Mutant: the queue is ordered the other way round.
LowestFirst(s) == s \in pq /\ \A t \in pq : slot_offset[s] <= slot_offset[t]

\* s is at the top of the queue: its record is the last one in the page.
Top(s) == s \in pq /\ \A t \in pq : slot_offset[t] <= slot_offset[s]

\* The record of the top slot is moved up against the one moved before.
MoveRecord(s) ==
  /\ vacuuming
  /\ Top(s)
  /\ LET to == freespace_end - slot_size[s] IN
       /\ bytes' = [o \in 0 .. PageSize - 1 |->
                      IF o \in to .. to + slot_size[s] - 1
                      THEN bytes[slot_offset[s] + (o - to)] ELSE bytes[o]]
       /\ slot_offset' = [slot_offset EXCEPT ![s] = to]
       /\ freespace_end' = to
  /\ pq' = pq \ {s}
  /\ UNCHANGED <<headerVars, end_free_space, is_deleted, slot_size, written, vacuuming>>

EndVacuum ==
  /\ vacuuming
  /\ pq = {}
  /\ end_free_space' = freespace_end
  /\ freespace_end' = PageSize
  /\ vacuuming' = FALSE
  /\ UNCHANGED <<headerVars, slotVars, bytes, written, pq>>

Next ==
  \/ \E size \in Sizes : AllocateSlot(size) \/ AllocateSlotOrReuseSlot(size)
  \/ \E s \in Slots : DeleteSlot(s) \/ MoveRecord(s) \/ \E v \in Values : WriteRecord(s, v)
  \/ BeginVacuum
  \/ EndVacuum

Spec == Init /\ [][Next]_vars

-----------------------------------------------------------------------------
(* Properties. *)

\* Header, directory, free space and records follow one another as the diagram
\* in page_format.h draws them, and no two allocations overlap, those of deleted
\* slots (which may be reused) included.
Layout ==
  /\ start_free_space <= end_free_space /\ end_free_space <= PageSize - reserved
  /\ \A s \in Directory : slot_size[s] > 0 =>
       /\ end_free_space <= slot_offset[s]
       /\ slot_offset[s] + slot_size[s] <= PageSize - reserved
  /\ \A s, t \in Directory : s # t /\ slot_size[s] > 0 /\ slot_size[t] > 0 =>
       \/ slot_offset[s] + slot_size[s] <= slot_offset[t]
       \/ slot_offset[t] + slot_size[t] <= slot_offset[s]

\* ReadRecord returns what was written, whatever was allocated, reused, deleted
\* and moved since.
RecordsReadBack ==
  \A s \in Live : written[s] # None =>
    \A i \in 0 .. slot_size[s] - 1 : ReadRecord(s, i) = <<written[s], i>>

\* The bytes of the page pointers are never taken for a record.
PointersKept == \A o \in PageSize - reserved .. PageSize - 1 : bytes[o] = None

\* "the number of tuples in the page" (page_format.h).
TuplesCounted == num_tuples = Cardinality(Live)

-----------------------------------------------------------------------------
(* Inductive invariant. *)

\* The directory follows the header; live slots have records.
DirectoryShape ==
  /\ HeaderSize <= start_free_space
  /\ \A s \in Live : slot_size[s] > 0

\* While VacuumPage runs: what is moved lies above freespace_end, what is not
\* lies below, and what is deleted has no record.
VacuumProgress ==
  vacuuming =>
    /\ reserved > 0 => VacuumHeap
    /\ pq \subseteq Live
    /\ end_free_space <= freespace_end /\ freespace_end <= PageSize
    /\ \A s \in Directory \ Live : slot_size[s] = 0
    /\ \A s \in pq : slot_offset[s] + slot_size[s] <= freespace_end
    /\ \A s \in Live \ pq : freespace_end <= slot_offset[s]

SInv == TypeOK /\ DirectoryShape /\ Layout /\ VacuumProgress /\ RecordsReadBack /\ PointersKept
=============================================================================
