------------------------ MODULE SlottedPageProofs ------------------------
(***************************************************************************)
(* The layout of a slotted page of any size, and that records are read back *)
(* as written, for pages that are vacuumed only when plain; and that the    *)
(* header counts the live slots, if no record is deleted twice.             *)
(***************************************************************************)
EXTENDS SlottedPage, FiniteSetTheorems, TLAPS

\* What the callers in the repository keep to: no heap page is vacuumed.
NoHeapVacuum == VacuumHeap = FALSE

\* The directory is a set of slots.
LEMMA DirectoryBounds ==
  ASSUME SInv
  PROVE  GetPageCapacity \in Nat /\ GetPageCapacity <= MaxSlots /\ Directory \subseteq Slots
<1>1. /\ start_free_space \in Nat /\ start_free_space <= PageSize /\ HeaderSize <= start_free_space
      /\ HeaderSize \in Nat /\ SlotSize \in Nat \ {0} /\ PageSize \in Nat
  BY PageAssumption DEF SInv, TypeOK, Offsets, DirectoryShape
<1>2. /\ start_free_space - HeaderSize \in Nat /\ PageSize - HeaderSize \in Nat
      /\ start_free_space - HeaderSize <= PageSize - HeaderSize
  BY <1>1
<1>3. \A x, y \in Nat, k \in Nat \ {0} : x <= y => x \div k \in Nat /\ x \div k <= y \div k
  OBVIOUS
<1>4. GetPageCapacity \in Nat /\ GetPageCapacity <= MaxSlots /\ MaxSlots \in Nat
  BY <1>1, <1>2, <1>3 DEF GetPageCapacity, MaxSlots
<1> QED BY <1>4 DEF Directory, Slots

\* Facts about a slot of the directory, in plain arithmetic.
LEMMA SlotTypes ==
  ASSUME SInv, NEW s \in Directory
  PROVE  /\ s \in Slots /\ slot_offset[s] \in Nat /\ slot_size[s] \in Nat
         /\ end_free_space \in Nat /\ PageSize \in Nat /\ reserved \in Nat
  BY DirectoryBounds, PageAssumption DEF SInv, TypeOK, Offsets

\* Slot s is given an allocation clear of all others: by AllocateSlot and by
\* both kinds of reuse.
LEMMA OccupyKeeps ==
  ASSUME SInv, ~vacuuming, NEW s \in Slots, NEW size \in Nat \ {0}, NEW offset \in Offsets,
         Occupy(s, offset, size),
         GetPageCapacity' \in Nat, Directory' = Directory \cup {s},
         start_free_space' \in Offsets, end_free_space' \in Offsets,
         HeaderSize <= start_free_space', start_free_space' <= end_free_space',
         end_free_space' <= end_free_space, end_free_space' <= offset,
         offset + size <= PageSize - reserved,
         \A t \in Directory \ {s} : slot_size[t] > 0 =>
           offset + size <= slot_offset[t] \/ slot_offset[t] + slot_size[t] <= offset
  PROVE  SInv'
<1>1. TypeOK'
  BY PageAssumption DEF Occupy, vacuumVars, SInv, TypeOK
<1>2. /\ slot_offset'[s] = offset /\ slot_size'[s] = size /\ ~is_deleted'[s] /\ written'[s] = None
      /\ \A t \in Slots \ {s} : /\ slot_offset'[t] = slot_offset[t] /\ slot_size'[t] = slot_size[t]
                                /\ is_deleted'[t] <=> is_deleted[t]
                                /\ written'[t] = written[t]
  BY DEF Occupy, SInv, TypeOK
<1>3. bytes' = bytes /\ reserved' = reserved /\ vacuuming' = vacuuming
  BY DEF Occupy, vacuumVars
<1>4. Directory \subseteq Slots
  BY DirectoryBounds
<1>5. DirectoryShape'
  BY <1>2, <1>4 DEF DirectoryShape, Live, SInv
<1>6. Layout'
  <2>1. ASSUME NEW t \in Directory', slot_size'[t] > 0
        PROVE  /\ end_free_space' <= slot_offset'[t]
               /\ slot_offset'[t] + slot_size'[t] <= PageSize - reserved'
    <3>1. CASE t = s
      BY <1>2, <1>3, <3>1
    <3>2. CASE t # s
      <4>1. t \in Directory /\ slot_size[t] > 0 /\ slot_offset'[t] = slot_offset[t] /\ slot_size'[t] = slot_size[t]
        BY <1>2, <1>4, <2>1, <3>2
      <4>2. end_free_space <= slot_offset[t] /\ slot_offset[t] + slot_size[t] <= PageSize - reserved
        BY <4>1 DEF SInv, Layout
      <4>3. end_free_space' \in Nat /\ end_free_space \in Nat /\ slot_offset[t] \in Nat
        BY <4>1, SlotTypes, PageAssumption DEF Offsets
      <4> QED BY <1>3, <4>1, <4>2, <4>3
    <3> QED BY <3>1, <3>2
  <2>2. ASSUME NEW t \in Directory', NEW u \in Directory', t # u, slot_size'[t] > 0, slot_size'[u] > 0
        PROVE  \/ slot_offset'[t] + slot_size'[t] <= slot_offset'[u]
               \/ slot_offset'[u] + slot_size'[u] <= slot_offset'[t]
    <3>1. CASE t = s
      BY <1>2, <1>4, <2>2, <3>1
    <3>2. CASE u = s
      BY <1>2, <1>4, <2>2, <3>2
    <3>3. CASE t # s /\ u # s
      BY <1>2, <1>4, <2>2, <3>3 DEF SInv, Layout
    <3> QED BY <3>1, <3>2, <3>3
  <2>3. end_free_space' <= PageSize - reserved'
    <3>1. end_free_space <= PageSize - reserved /\ end_free_space \in Nat /\ end_free_space' \in Nat
      BY PageAssumption DEF SInv, Layout, TypeOK, Offsets
    <3> QED BY <1>3, <3>1, PageAssumption DEF SInv, TypeOK
  <2> QED BY <2>1, <2>2, <2>3 DEF Layout
<1>7. VacuumProgress'
  BY <1>3 DEF VacuumProgress
<1>8. RecordsReadBack'
  BY <1>2, <1>3, <1>4 DEF RecordsReadBack, ReadRecord, Live, SInv
<1>9. PointersKept'
  BY <1>3 DEF PointersKept, SInv
<1> QED BY <1>1, <1>5, <1>6, <1>7, <1>8, <1>9 DEF SInv

\* The end of the free space in plain arithmetic.
LEMMA FreeSpaceTypes ==
  ASSUME SInv
  PROVE  /\ start_free_space \in Nat /\ end_free_space \in Nat /\ PageSize \in Nat
         /\ HeaderSize \in Nat /\ SlotSize \in Nat \ {0} /\ reserved \in Nat
         /\ HeaderSize <= start_free_space /\ start_free_space <= end_free_space
         /\ end_free_space <= PageSize - reserved
  BY PageAssumption DEF SInv, TypeOK, Offsets, DirectoryShape, Layout

\* Allocations never reach into the free space.
LEMMA FreeSpaceFree ==
  ASSUME SInv, NEW size \in Nat, size <= end_free_space, NEW t \in Directory, slot_size[t] > 0
  PROVE  (end_free_space - size) + size <= slot_offset[t]
<1>1. end_free_space <= slot_offset[t]
  BY DEF SInv, Layout
<1>2. end_free_space \in Nat /\ slot_offset[t] \in Nat
  BY SlotTypes
<1> QED BY <1>1, <1>2

\* AllocateSlot appends one slot to the directory, which stays in front of the records.
LEMMA DirectoryGrows ==
  ASSUME SInv, NEW size \in Sizes, AllocateSlot(size)
  PROVE  /\ GetPageCapacity \in Slots \ Directory /\ GetPageCapacity' \in Nat
         /\ Directory' = Directory \cup {GetPageCapacity}
<1>1. size \in Nat \ {0}
  BY PageAssumption
<1>2. /\ SlotSize + size <= end_free_space - start_free_space
      /\ start_free_space' = start_free_space + SlotSize
  BY DEF AllocateSlot, HasRoom, GetFreeSpaceSize
<1>3. GetPageCapacity' = GetPageCapacity + 1
  <2>1. start_free_space - HeaderSize \in Nat
    BY FreeSpaceTypes
  <2>2. start_free_space' - HeaderSize = (start_free_space - HeaderSize) + SlotSize
    BY <1>2, FreeSpaceTypes
  <2>3. \A x \in Nat, k \in Nat \ {0} : (x + k) \div k = (x \div k) + 1
    OBVIOUS
  <2> QED BY <2>1, <2>2, <2>3, FreeSpaceTypes DEF GetPageCapacity
<1>4. GetPageCapacity' <= MaxSlots
  <2>1. /\ start_free_space' - HeaderSize \in Nat /\ PageSize - HeaderSize \in Nat
        /\ start_free_space' - HeaderSize <= PageSize - HeaderSize
    BY <1>1, <1>2, FreeSpaceTypes
  <2>2. \A x, y \in Nat, k \in Nat \ {0} : x <= y => x \div k <= y \div k
    OBVIOUS
  <2> QED BY <2>1, <2>2, FreeSpaceTypes DEF GetPageCapacity, MaxSlots
<1>5. GetPageCapacity \in Nat /\ MaxSlots \in Int
  BY DirectoryBounds, PageAssumption DEF MaxSlots
<1> QED BY <1>3, <1>4, <1>5 DEF Directory, Slots

LEMMA KeepsAllocateSlot ==
  ASSUME SInv, NEW size \in Sizes, AllocateSlot(size)
  PROVE  SInv'
<1>1. size \in Nat \ {0}
  BY PageAssumption
<1>2. SlotSize + size <= end_free_space - start_free_space
  BY DEF AllocateSlot, HasRoom, GetFreeSpaceSize
<1>3. start_free_space' = start_free_space + SlotSize /\ end_free_space' = end_free_space - size
  BY DEF AllocateSlot
<1>4. /\ end_free_space - size \in Nat /\ end_free_space - size <= end_free_space
      /\ HeaderSize <= start_free_space' /\ start_free_space' <= end_free_space'
      /\ start_free_space' \in Nat /\ start_free_space' <= PageSize /\ end_free_space' <= PageSize
      /\ (end_free_space - size) + size <= PageSize - reserved
  BY <1>1, <1>2, <1>3, FreeSpaceTypes
<1>7. /\ GetPageCapacity \in Slots /\ Directory' = Directory \cup {GetPageCapacity}
      /\ GetPageCapacity' \in Nat
  BY DirectoryGrows
<1>8. Occupy(GetPageCapacity, end_free_space - size, size) /\ ~vacuuming
  BY DEF AllocateSlot
<1>9. \A t \in Directory : slot_size[t] > 0 => (end_free_space - size) + size <= slot_offset[t]
  BY <1>1, <1>4, FreeSpaceTypes, FreeSpaceFree
<1>10. end_free_space - size \in Offsets /\ start_free_space' \in Offsets /\ end_free_space' \in Offsets
  BY <1>1, <1>3, <1>4, FreeSpaceTypes DEF Offsets
<1> QED BY <1>1, <1>3, <1>4, <1>7, <1>8, <1>9, <1>10, OccupyKeeps

LEMMA KeepsReuseSlot ==
  ASSUME SInv, NEW size \in Sizes, NEW s \in Slots, ~vacuuming, Reusable(s, size), ReuseSlot(s, size)
  PROVE  SInv'
<1>1. size \in Nat \ {0} /\ s \in Directory /\ start_free_space' = start_free_space
  BY PageAssumption DEF Reusable, ReuseSlot
<1>2. GetPageCapacity' \in Nat /\ Directory' = Directory \cup {s}
  BY <1>1, DirectoryBounds DEF Directory, GetPageCapacity
<1>3. slot_offset[s] \in Nat /\ slot_size[s] \in Nat
  BY <1>1, SlotTypes
<1>4. CASE size <= slot_size[s]
  <2>1. Occupy(s, slot_offset[s], size) /\ end_free_space' = end_free_space
    BY <1>1, <1>3, <1>4 DEF ReuseSlot
  <2>2. slot_size[s] > 0
    BY <1>1, <1>3, <1>4
  <2>3. end_free_space <= slot_offset[s] /\ slot_offset[s] + slot_size[s] <= PageSize - reserved
    BY <1>1, <2>2 DEF SInv, Layout
  <2>4. slot_offset[s] \in Offsets /\ start_free_space' \in Offsets /\ end_free_space' \in Offsets
    BY <1>1, <2>1 DEF SInv, TypeOK
  <2>5. slot_offset[s] + size <= PageSize - reserved
    BY <1>1, <1>3, <1>4, <2>3, FreeSpaceTypes
  <2>6. ASSUME NEW t \in Directory \ {s}, slot_size[t] > 0
        PROVE  slot_offset[s] + size <= slot_offset[t] \/ slot_offset[t] + slot_size[t] <= slot_offset[s]
    <3>1. \/ slot_offset[s] + slot_size[s] <= slot_offset[t]
          \/ slot_offset[t] + slot_size[t] <= slot_offset[s]
      BY <1>1, <2>2, <2>6 DEF SInv, Layout
    <3>2. slot_offset[t] \in Nat /\ slot_size[t] \in Nat
      BY <2>6, SlotTypes
    <3> QED BY <1>1, <1>3, <1>4, <3>1, <3>2
  <2> QED BY <1>1, <1>2, <2>1, <2>3, <2>4, <2>5, <2>6, FreeSpaceTypes, OccupyKeeps
<1>5. CASE size > slot_size[s]
  <2>1. Occupy(s, end_free_space - size, size) /\ end_free_space' = end_free_space - size
    BY <1>1, <1>3, <1>5 DEF ReuseSlot
  <2>2. size <= end_free_space - start_free_space
    BY <1>1, <1>3, <1>5 DEF Reusable, GetFreeSpaceSize
  <2>3. /\ end_free_space - size \in Nat /\ end_free_space - size <= end_free_space
        /\ start_free_space <= end_free_space - size /\ end_free_space - size <= PageSize
        /\ (end_free_space - size) + size <= PageSize - reserved /\ size <= end_free_space
    BY <1>1, <2>2, FreeSpaceTypes
  <2>4. \A t \in Directory : slot_size[t] > 0 => (end_free_space - size) + size <= slot_offset[t]
    BY <1>1, <2>3, FreeSpaceFree
  <2>5. end_free_space - size \in Offsets /\ start_free_space' \in Offsets
    BY <1>1, <2>3, FreeSpaceTypes DEF Offsets, SInv, TypeOK
  <2>6. HeaderSize <= start_free_space'
    BY <1>1, FreeSpaceTypes
  <2> QED BY <1>1, <1>2, <2>1, <2>3, <2>4, <2>5, <2>6, OccupyKeeps
<1> QED BY <1>1, <1>3, <1>4, <1>5

LEMMA KeepsDeleteSlot ==
  ASSUME SInv, NEW s \in Slots, DeleteSlot(s)
  PROVE  SInv'
<1>1. TypeOK'
  BY PageAssumption DEF DeleteSlot, vacuumVars, SInv, TypeOK
<1>2. Directory' = Directory /\ Live' \subseteq Live
  BY DirectoryBounds DEF DeleteSlot, Directory, GetPageCapacity, Live, SInv, TypeOK
<1>3. \A t \in Slots : t # s => written'[t] = written[t]
  BY DEF DeleteSlot, SInv, TypeOK
<1>4. s \notin Live'
  BY DEF DeleteSlot, Live, SInv, TypeOK
<1>5. DirectoryShape' /\ Layout'
  BY <1>2 DEF DeleteSlot, SInv, DirectoryShape, Layout
<1>6. VacuumProgress'
  BY DEF DeleteSlot, vacuumVars, VacuumProgress
<1>7. RecordsReadBack'
  <2> SUFFICES ASSUME NEW t \in Live', written'[t] # None, NEW i \in 0 .. slot_size'[t] - 1
               PROVE  ReadRecord(t, i)' = <<written'[t], i>>
    BY DEF RecordsReadBack
  <2>1. t \in Live /\ t \in Slots /\ t # s
    BY <1>2, <1>4, DirectoryBounds DEF Live
  <2> QED BY <1>3, <2>1 DEF DeleteSlot, ReadRecord, RecordsReadBack, SInv
<1>8. PointersKept'
  BY DEF DeleteSlot, SInv, PointersKept
<1> QED BY <1>1, <1>5, <1>6, <1>7, <1>8 DEF SInv

\* A live slot's record is inside the page, clear of the pointers.
LEMMA RecordInside ==
  ASSUME SInv, NEW s \in Live
  PROVE  /\ s \in Slots /\ s \in Directory
         /\ slot_offset[s] \in Nat /\ slot_size[s] \in Nat \ {0}
         /\ end_free_space \in Nat /\ end_free_space <= slot_offset[s]
         /\ slot_offset[s] + slot_size[s] <= PageSize - reserved
         /\ PageSize \in Nat /\ reserved \in Nat
<1>1. s \in Directory /\ slot_size[s] > 0
  BY DEF SInv, DirectoryShape, Live
<1>2. end_free_space <= slot_offset[s] /\ slot_offset[s] + slot_size[s] <= PageSize - reserved
  BY <1>1 DEF SInv, Layout
<1> QED BY <1>1, <1>2, SlotTypes

\* The records of two live slots do not overlap.
LEMMA RecordsApart ==
  ASSUME SInv, NEW s \in Live, NEW t \in Live, s # t
  PROVE  \/ slot_offset[s] + slot_size[s] <= slot_offset[t]
         \/ slot_offset[t] + slot_size[t] <= slot_offset[s]
<1>1. s \in Directory /\ t \in Directory /\ slot_size[s] > 0 /\ slot_size[t] > 0
  BY DEF SInv, DirectoryShape, Live
<1> QED BY <1>1 DEF SInv, Layout

LEMMA KeepsWriteRecord ==
  ASSUME SInv, NEW s \in Slots, NEW v \in Values, WriteRecord(s, v)
  PROVE  SInv'
<1>1. s \in Live /\ written' = [written EXCEPT ![s] = v] /\ ~vacuuming
  BY DEF WriteRecord
<1>2. \A o \in 0 .. PageSize - 1 :
        bytes'[o] = IF o \in Span(s) THEN <<v, o - slot_offset[s]>> ELSE bytes[o]
  BY DEF WriteRecord
<1>3. \A o \in Span(s) : o - slot_offset[s] \in Nat
  BY <1>1, RecordInside DEF Span
<1>4. TypeOK'
  <2>1. bytes' \in [0 .. PageSize - 1 -> Byte]
    <3>1. ASSUME NEW o \in 0 .. PageSize - 1
          PROVE  (IF o \in Span(s) THEN <<v, o - slot_offset[s]>> ELSE bytes[o]) \in Byte
      <4>1. bytes[o] \in Byte
        BY DEF SInv, TypeOK
      <4>2. \A n \in Nat : <<v, n>> \in Byte
        BY DEF Byte
      <4> QED BY <1>3, <4>1, <4>2
    <3> QED BY <3>1 DEF WriteRecord
  <2>2. written' \in [Slots -> Values \cup {None}]
    BY <1>1 DEF SInv, TypeOK
  <2> QED BY <2>1, <2>2 DEF WriteRecord, headerVars, slotVars, vacuumVars, SInv, TypeOK
<1>5. Directory' = Directory /\ Live' = Live
  BY DEF WriteRecord, headerVars, slotVars, Directory, GetPageCapacity, Live
<1>6. DirectoryShape' /\ Layout' /\ VacuumProgress'
  BY <1>5 DEF WriteRecord, headerVars, slotVars, vacuumVars, SInv, DirectoryShape, Layout, VacuumProgress
<1>7. RecordsReadBack'
  <2>0. slot_offset' = slot_offset /\ slot_size' = slot_size
    BY DEF WriteRecord, slotVars
  <2> SUFFICES ASSUME NEW t \in Live, written'[t] # None, NEW i \in 0 .. slot_size[t] - 1
               PROVE  bytes'[slot_offset[t] + i] = <<written'[t], i>>
    BY <1>5, <2>0, Zenon DEF RecordsReadBack, ReadRecord
  <2>1. /\ slot_offset[t] + i \in 0 .. PageSize - 1 /\ i \in Nat /\ slot_offset[t] \in Nat
        /\ slot_size[t] \in Nat
    BY RecordInside
  <2>2. CASE t = s
    <3>1. slot_offset[t] + i \in Span(s) /\ (slot_offset[t] + i) - slot_offset[s] = i
      BY <2>1, <2>2 DEF Span
    <3>2. written'[t] = v
      BY <1>1, <2>2 DEF SInv, TypeOK
    <3> QED BY <1>2, <2>1, <3>1, <3>2
  <2>3. CASE t # s
    <3>1. slot_offset[t] + i \notin Span(s)
      <4>1. \/ slot_offset[s] + slot_size[s] <= slot_offset[t]
            \/ slot_offset[t] + slot_size[t] <= slot_offset[s]
        BY <1>1, <2>3, RecordsApart
      <4>2. slot_offset[s] \in Nat /\ slot_size[s] \in Nat
        BY <1>1, RecordInside
      <4> QED BY <2>1, <4>1, <4>2 DEF Span
    <3>2. written'[t] = written[t]
      BY <1>1, <2>3, RecordInside DEF SInv, TypeOK
    <3>3. bytes[slot_offset[t] + i] = <<written[t], i>>
      BY <3>2 DEF SInv, RecordsReadBack, ReadRecord
    <3> QED BY <1>2, <2>1, <3>1, <3>2, <3>3
  <2> QED BY <2>2, <2>3
<1>8. PointersKept'
  <2> SUFFICES ASSUME NEW o \in PageSize - reserved .. PageSize - 1 PROVE bytes'[o] = None
    BY DEF PointersKept, WriteRecord, headerVars
  <2>1. o \notin Span(s) /\ o \in 0 .. PageSize - 1
    BY <1>1, RecordInside, FreeSpaceTypes DEF Span
  <2> QED BY <1>2, <2>1 DEF SInv, PointersKept
<1> QED BY <1>4, <1>6, <1>7, <1>8 DEF SInv

-----------------------------------------------------------------------------
(* VacuumPage. *)

LEMMA KeepsBeginVacuum ==
  ASSUME SInv, BeginVacuum
  PROVE  SInv'
<1>1. Directory' = Directory /\ Live' = Live
  BY DEF BeginVacuum, headerVars, Directory, GetPageCapacity, Live
<1>2. Live \subseteq Slots /\ Live \subseteq Directory /\ Directory \subseteq Slots
  BY DirectoryBounds DEF Live
<1>3. \A s \in Slots : slot_size'[s] = IF s \in Directory \ Live THEN 0 ELSE slot_size[s]
  BY DEF BeginVacuum
<1>4. TypeOK'
  <2>1. slot_size' \in [Slots -> Nat]
    BY DEF BeginVacuum, SInv, TypeOK
  <2> QED BY <1>2, <2>1, PageAssumption DEF BeginVacuum, headerVars, SInv, TypeOK
<1>5. DirectoryShape'
  BY <1>1, <1>2, <1>3 DEF BeginVacuum, headerVars, SInv, DirectoryShape
<1>6. Layout'
  BY <1>1, <1>2, <1>3 DEF BeginVacuum, headerVars, SInv, Layout
<1>7. VacuumProgress'
  <2>1. \A s \in Live : slot_offset[s] + slot_size[s] <= PageSize /\ slot_size'[s] = slot_size[s]
    BY <1>2, <1>3, RecordInside
  <2>2. end_free_space <= PageSize
    BY FreeSpaceTypes
  <2> QED BY <1>1, <1>2, <1>3, <2>1, <2>2, FreeSpaceTypes DEF BeginVacuum, headerVars, VacuumProgress
<1>8. RecordsReadBack'
  BY <1>1, <1>2, <1>3 DEF BeginVacuum, SInv, RecordsReadBack, ReadRecord
<1>9. PointersKept'
  BY DEF BeginVacuum, headerVars, SInv, PointersKept
<1> QED BY <1>4, <1>5, <1>6, <1>7, <1>8, <1>9 DEF SInv

LEMMA KeepsEndVacuum ==
  ASSUME SInv, NoHeapVacuum, EndVacuum
  PROVE  SInv'
<1>1. Directory' = Directory /\ Live' = Live
  BY DEF EndVacuum, headerVars, slotVars, Directory, GetPageCapacity, Live
<1>2. /\ end_free_space <= freespace_end /\ freespace_end <= PageSize
      /\ ~(reserved > 0)
      /\ \A s \in Directory \ Live : slot_size[s] = 0
      /\ \A s \in Live : freespace_end <= slot_offset[s]
  BY DEF EndVacuum, SInv, VacuumProgress, NoHeapVacuum
<1>3. freespace_end \in Offsets /\ reserved = 0 /\ start_free_space <= freespace_end
  BY <1>2, FreeSpaceTypes DEF Offsets, SInv, TypeOK
<1>4. TypeOK'
  <2>1. end_free_space' = freespace_end /\ freespace_end' = PageSize /\ vacuuming' = FALSE
    BY DEF EndVacuum
  <2>2. end_free_space' \in Offsets /\ freespace_end' \in Int
    BY <1>3, <2>1, FreeSpaceTypes
  <2>3. vacuuming' \in BOOLEAN
    BY <2>1, Zenon
  <2> QED BY <2>2, <2>3 DEF EndVacuum, headerVars, slotVars, SInv, TypeOK
<1>5. DirectoryShape'
  BY <1>1 DEF EndVacuum, headerVars, slotVars, SInv, DirectoryShape
<1>6. Layout'
  <2>1. \A s \in Directory : slot_size[s] > 0 => s \in Live
    BY <1>2, SlotTypes
  <2>2. end_free_space' = freespace_end /\ slot_offset' = slot_offset /\ slot_size' = slot_size
        /\ start_free_space' = start_free_space /\ reserved' = reserved
    BY DEF EndVacuum, headerVars, slotVars
  <2>3. freespace_end <= PageSize - reserved
    BY <1>2, <1>3, FreeSpaceTypes
  <2>4. \A s \in Directory : slot_size[s] > 0 => slot_offset[s] + slot_size[s] <= PageSize - reserved
    BY DEF SInv, Layout
  <2>5. \A s, t \in Directory : s # t /\ slot_size[s] > 0 /\ slot_size[t] > 0 =>
          \/ slot_offset[s] + slot_size[s] <= slot_offset[t]
          \/ slot_offset[t] + slot_size[t] <= slot_offset[s]
    BY DEF SInv, Layout
  <2> QED BY <1>1, <1>2, <1>3, <2>1, <2>2, <2>3, <2>4, <2>5 DEF Layout
<1>7. VacuumProgress' /\ RecordsReadBack' /\ PointersKept'
  BY <1>1 DEF EndVacuum, headerVars, slotVars, SInv, VacuumProgress, RecordsReadBack, ReadRecord,
              PointersKept
<1> QED BY <1>4, <1>5, <1>6, <1>7 DEF SInv

\* The record on top of the queue moves up, over nothing that is still needed.
LEMMA KeepsMoveRecord ==
  ASSUME SInv, NoHeapVacuum, NEW s \in Slots, MoveRecord(s)
  PROVE  SInv'
<1> DEFINE to == freespace_end - slot_size[s]
<1>1. s \in pq /\ s \in Live /\ vacuuming /\ \A t \in pq : slot_offset[t] <= slot_offset[s]
  BY DEF MoveRecord, Top, SInv, VacuumProgress
<1>2. /\ end_free_space <= freespace_end /\ freespace_end <= PageSize /\ pq \subseteq Live
      /\ ~(reserved > 0)
      /\ \A t \in Directory \ Live : slot_size[t] = 0
      /\ \A t \in pq : slot_offset[t] + slot_size[t] <= freespace_end
      /\ \A t \in Live \ pq : freespace_end <= slot_offset[t]
  BY <1>1 DEF SInv, VacuumProgress, NoHeapVacuum
<1>3. /\ slot_offset[s] \in Nat /\ slot_size[s] \in Nat \ {0} /\ PageSize \in Nat /\ reserved = 0
      /\ end_free_space \in Nat /\ end_free_space <= slot_offset[s] /\ freespace_end \in Int
  BY <1>1, <1>2, RecordInside DEF SInv, TypeOK
<1>4. /\ to \in Nat /\ slot_offset[s] <= to /\ to + slot_size[s] = freespace_end
      /\ to <= PageSize /\ end_free_space <= to /\ to + slot_size[s] <= PageSize
  <2>1. slot_offset[s] + slot_size[s] <= freespace_end
    BY <1>1, <1>2
  <2> QED BY <1>2, <1>3, <2>1
\* Where the other live slots are: the queued ones below, the moved ones above.
<1>5. ASSUME NEW t \in Live, t # s
      PROVE  /\ t \in Slots /\ slot_offset[t] \in Nat /\ slot_size[t] \in Nat \ {0}
             /\ t \in pq => slot_offset[t] + slot_size[t] <= slot_offset[s]
             /\ t \notin pq => to + slot_size[s] <= slot_offset[t]
  <2>1. t \in Slots /\ slot_offset[t] \in Nat /\ slot_size[t] \in Nat \ {0}
    BY RecordInside
  <2>2. CASE t \in pq
    <3>1. slot_offset[t] <= slot_offset[s]
      BY <1>1, <2>2
    <3>2. \/ slot_offset[s] + slot_size[s] <= slot_offset[t]
          \/ slot_offset[t] + slot_size[t] <= slot_offset[s]
      BY <1>1, <1>5, RecordsApart
    <3> QED BY <1>3, <2>1, <2>2, <3>1, <3>2
  <2>3. CASE t \notin pq
    BY <1>2, <1>4, <1>5, <2>1, <2>3
  <2> QED BY <2>1, <2>2, <2>3
<1>6. /\ slot_offset' = [slot_offset EXCEPT ![s] = to] /\ freespace_end' = to /\ pq' = pq \ {s}
      /\ slot_size' = slot_size /\ is_deleted' = is_deleted /\ written' = written
      /\ reserved' = reserved /\ start_free_space' = start_free_space
      /\ num_tuples' = num_tuples /\ end_free_space' = end_free_space /\ (vacuuming' <=> vacuuming)
  BY DEF MoveRecord, headerVars
<1>7. \A o \in 0 .. PageSize - 1 :
        bytes'[o] = IF o \in to .. to + slot_size[s] - 1
                    THEN bytes[slot_offset[s] + (o - to)] ELSE bytes[o]
  BY DEF MoveRecord
<1>8. /\ slot_offset'[s] = to
      /\ \A t \in Slots : t # s => slot_offset'[t] = slot_offset[t]
  BY <1>6 DEF SInv, TypeOK
<1>9. Directory' = Directory /\ Live' = Live
  BY <1>6 DEF Directory, GetPageCapacity, Live
<1>10. TypeOK'
  <2>1. bytes' \in [0 .. PageSize - 1 -> Byte]
    <3>1. ASSUME NEW o \in 0 .. PageSize - 1
          PROVE  (IF o \in to .. to + slot_size[s] - 1
                  THEN bytes[slot_offset[s] + (o - to)] ELSE bytes[o]) \in Byte
      <4>1. o \in to .. to + slot_size[s] - 1 => slot_offset[s] + (o - to) \in 0 .. PageSize - 1
        BY <1>3, <1>4
      <4>2. \A q \in 0 .. PageSize - 1 : bytes[q] \in Byte
        BY DEF SInv, TypeOK
      <4> QED BY <4>1, <4>2
    <3> QED BY <3>1 DEF MoveRecord
  <2>2. slot_offset' \in [Slots -> Offsets] /\ freespace_end' \in Int
    BY <1>3, <1>4, <1>6 DEF SInv, TypeOK, Offsets
  <2>3. vacuuming' \in BOOLEAN
    BY <1>1 DEF MoveRecord, SInv, TypeOK
  <2> QED BY <1>6, <2>1, <2>2, <2>3 DEF SInv, TypeOK
<1>11. DirectoryShape'
  BY <1>6, <1>9 DEF SInv, DirectoryShape
<1>12. Layout'
  <2>1. \A t \in Directory : slot_size[t] > 0 => t \in Live
    BY <1>2, SlotTypes
  <2>2. ASSUME NEW t \in Live
        PROVE  end_free_space <= slot_offset'[t] /\ slot_offset'[t] + slot_size[t] <= PageSize - reserved
    <3>1. CASE t = s
      BY <1>3, <1>4, <1>8, <3>1
    <3>2. CASE t # s
      BY <1>8, <3>2, RecordInside
    <3> QED BY <3>1, <3>2
  <2>3. ASSUME NEW t \in Live, t # s
        PROVE  \/ slot_offset'[s] + slot_size[s] <= slot_offset'[t]
               \/ slot_offset'[t] + slot_size[t] <= slot_offset'[s]
    BY <1>3, <1>4, <1>5, <1>8, <2>3
  <2>4. ASSUME NEW t \in Live, NEW u \in Live, t # u
        PROVE  \/ slot_offset'[t] + slot_size[t] <= slot_offset'[u]
               \/ slot_offset'[u] + slot_size[u] <= slot_offset'[t]
    <3>1. CASE t = s \/ u = s
      BY <2>3, <2>4, <3>1
    <3>2. CASE t # s /\ u # s
      BY <1>5, <1>8, <2>4, <3>2, RecordsApart
    <3> QED BY <3>1, <3>2
  <2>5. start_free_space <= end_free_space /\ end_free_space <= PageSize - reserved
    BY DEF SInv, Layout
  <2> QED BY <1>6, <1>9, <2>1, <2>2, <2>4, <2>5 DEF Layout
<1>13. VacuumProgress'
  <2>1. \A t \in pq' : slot_offset'[t] + slot_size'[t] <= freespace_end'
    <3> SUFFICES ASSUME NEW t \in pq, t # s PROVE slot_offset[t] + slot_size[t] <= to
      BY <1>2, <1>5, <1>6, <1>8
    <3> QED BY <1>2, <1>3, <1>4, <1>5
  <2>2. \A t \in Live \ pq' : freespace_end' <= slot_offset'[t]
    <3> SUFFICES ASSUME NEW t \in Live, t \notin pq' PROVE to <= slot_offset'[t]
      BY <1>6
    <3>1. CASE t = s
      BY <1>4, <1>8, <3>1
    <3>2. CASE t # s
      BY <1>3, <1>4, <1>5, <1>6, <1>8, <3>2
    <3> QED BY <3>1, <3>2
  <2>3. pq' \subseteq Live /\ ~(reserved' > 0)
    BY <1>2, <1>6
  <2>4. end_free_space' <= freespace_end' /\ freespace_end' <= PageSize
    BY <1>4, <1>6
  <2> QED BY <1>2, <1>6, <1>9, <2>1, <2>2, <2>3, <2>4 DEF VacuumProgress
<1>14. RecordsReadBack'
  <2> SUFFICES ASSUME NEW t \in Live, written[t] # None, NEW i \in 0 .. slot_size[t] - 1
               PROVE  bytes'[slot_offset'[t] + i] = <<written[t], i>>
    BY <1>6, <1>9, Zenon DEF RecordsReadBack, ReadRecord
  <2>1. bytes[slot_offset[t] + i] = <<written[t], i>>
    BY DEF SInv, RecordsReadBack, ReadRecord
  <2>2. i \in Nat /\ i < slot_size[t]
    BY RecordInside
  <2>3. CASE t = s
    <3>1. to + i \in to .. to + slot_size[s] - 1 /\ to + i \in 0 .. PageSize - 1
          /\ slot_offset[s] + ((to + i) - to) = slot_offset[s] + i
      BY <1>3, <1>4, <2>2, <2>3
    <3> QED BY <1>7, <1>8, <2>1, <2>3, <3>1
  <2>4. CASE t # s
    <3>1. slot_offset[t] + i \notin to .. to + slot_size[s] - 1
      BY <1>3, <1>4, <1>5, <2>2, <2>4
    <3>2. slot_offset[t] + i \in 0 .. PageSize - 1
      BY <2>2, RecordInside
    <3> QED BY <1>5, <1>7, <1>8, <2>1, <2>4, <3>1, <3>2
  <2> QED BY <2>3, <2>4
<1>15. PointersKept'
  BY <1>3, <1>6 DEF PointersKept
<1> QED BY <1>10, <1>11, <1>12, <1>13, <1>14, <1>15 DEF SInv

-----------------------------------------------------------------------------
LEMMA PageInit ==
  Init => SInv
<1> SUFFICES ASSUME Init PROVE SInv
  OBVIOUS
<1>1. GetPageCapacity = 0
  <2>1. \A k \in Nat \ {0} : 0 \div k = 0
    OBVIOUS
  <2> QED BY <2>1, PageAssumption DEF Init, GetPageCapacity
<1>2. Directory = {} /\ Live = {}
  BY <1>1 DEF Directory, Live
<1>3. TypeOK
  <2>1. MaxSlots \in Nat
    <3>1. \A m \in Nat, k \in Nat \ {0} : m \div k \in Nat
      OBVIOUS
    <3>2. PageSize - HeaderSize \in Nat
      BY PageAssumption
    <3> QED BY <3>1, <3>2, PageAssumption DEF MaxSlots
  <2>2. num_tuples \in 0 .. CountMod - 1
    BY <2>1, PageAssumption DEF Init
  <2>3. /\ reserved \in {0, PointerBytes}
        /\ start_free_space \in Offsets /\ end_free_space \in Offsets
        /\ freespace_end \in Int
    BY PageAssumption DEF Init, InitialEnd, Offsets
  <2>4. /\ is_deleted \in [Slots -> BOOLEAN] /\ vacuuming \in BOOLEAN
        /\ written \in [Slots -> Values \cup {None}]
        /\ pq \in SUBSET Slots
    BY Zenon DEF Init
  <2>5. /\ slot_offset \in [Slots -> Offsets] /\ slot_size \in [Slots -> Nat]
        /\ bytes \in [0 .. PageSize - 1 -> Byte]
    BY PageAssumption DEF Init, Offsets, Byte
  <2> QED BY <2>2, <2>3, <2>4, <2>5 DEF TypeOK
<1>4. DirectoryShape /\ Layout /\ RecordsReadBack
  BY <1>2, PageAssumption DEF Init, InitialEnd, DirectoryShape, Layout, RecordsReadBack
<1>5. VacuumProgress /\ PointersKept
  BY PageAssumption DEF Init, VacuumProgress, PointersKept
<1> QED BY <1>3, <1>4, <1>5 DEF SInv

\* One step per action of Next.
LEMMA PageStep ==
  ASSUME NoHeapVacuum PROVE SInv /\ [Next]_vars => SInv'
<1> SUFFICES ASSUME SInv, [Next]_vars PROVE SInv'
  OBVIOUS
<1>1. ASSUME NEW size \in Sizes, AllocateSlot(size) PROVE SInv'
  BY <1>1, KeepsAllocateSlot
<1>2. ASSUME NEW size \in Sizes, AllocateSlotOrReuseSlot(size) PROVE SInv'
  BY <1>1, <1>2, KeepsReuseSlot DEF AllocateSlotOrReuseSlot
<1>3. ASSUME NEW s \in Slots, DeleteSlot(s) PROVE SInv'
  BY <1>3, KeepsDeleteSlot
<1>4. ASSUME NEW s \in Slots, MoveRecord(s) PROVE SInv'
  BY <1>4, KeepsMoveRecord
<1>5. ASSUME NEW s \in Slots, NEW v \in Values, WriteRecord(s, v) PROVE SInv'
  BY <1>5, KeepsWriteRecord
<1>6. CASE BeginVacuum
  BY <1>6, KeepsBeginVacuum
<1>7. CASE EndVacuum
  BY <1>7, KeepsEndVacuum
<1>8. CASE UNCHANGED vars
  <2>1. Directory' = Directory /\ Live' = Live
    BY <1>8 DEF vars, headerVars, slotVars, Directory, GetPageCapacity, Live
  <2>2. TypeOK' /\ DirectoryShape' /\ Layout' /\ VacuumProgress'
    BY <1>8, <2>1 DEF vars, headerVars, slotVars, vacuumVars, SInv, TypeOK, DirectoryShape, Layout,
                      VacuumProgress
  <2>3. RecordsReadBack' /\ PointersKept'
    BY <1>8, <2>1 DEF vars, headerVars, slotVars, SInv, RecordsReadBack, ReadRecord, PointersKept
  <2> QED BY <2>2, <2>3 DEF SInv
<1> QED BY <1>1, <1>2, <1>3, <1>4, <1>5, <1>6, <1>7, <1>8 DEF Next

LEMMA PageAlways ==
  ASSUME NoHeapVacuum PROVE Spec => []SInv
<1>1. SInv /\ [Next]_vars => SInv'
  BY PageStep
<1> QED BY <1>1, PageInit, PTL DEF Spec

\* On a page of any size, with records of any size, header, directory, free space
\* and records never overlap, after any sequence of allocations, reuses, deletions
\* and vacuums (page_format.cpp:88-94, 169-228, 306-347).
THEOREM PageLayout ==
  ASSUME NoHeapVacuum PROVE Spec => []Layout
<1>1. SInv => Layout
  BY DEF SInv
<1> QED BY <1>1, PageAlways, PTL

\* What is written through WriteRecord is what ReadRecord returns, also after the
\* record was moved by VacuumPage (page_format.cpp:151-167, 306-347).
THEOREM RecordsKept ==
  ASSUME NoHeapVacuum PROVE Spec => []RecordsReadBack
<1>1. SInv => RecordsReadBack
  BY DEF SInv
<1> QED BY <1>1, PageAlways, PTL

\* No record ever covers the page pointers of a heap page
\* (heap_page.cpp:8-15, page_format.cpp:169-222).
THEOREM HeapPointersKept ==
  ASSUME NoHeapVacuum PROVE Spec => []PointersKept
<1>1. SInv => PointersKept
  BY DEF SInv
<1> QED BY <1>1, PageAlways, PTL
-----------------------------------------------------------------------------
(* num_tuples.  DeleteSlot does not ask whether a slot is deleted already, so  *)
(* the count is right for callers that delete each record once.                *)

DeletedOnce == DoubleDelete = FALSE

LEMMA LiveFinite ==
  ASSUME NEW S, S \subseteq Slots
  PROVE  IsFiniteSet(S) /\ Cardinality(S) \in Nat /\ Cardinality(S) < CountMod
<1>1. MaxSlots \in Int
  BY PageAssumption DEF MaxSlots
<1>2. IsFiniteSet(Slots) /\ Cardinality(Slots) = IF MaxSlots - 1 < 0 THEN 0 ELSE MaxSlots
  <2>1. 0 \in Int /\ MaxSlots - 1 \in Int
    BY <1>1
  <2>2. IsFiniteSet(Slots) /\ Cardinality(Slots) = IF 0 > MaxSlots - 1 THEN 0 ELSE (MaxSlots - 1) - 0 + 1
    BY <2>1, FS_Interval DEF Slots
  <2> QED BY <1>1, <2>2
<1>3. IsFiniteSet(S) /\ Cardinality(S) <= Cardinality(Slots) /\ Cardinality(S) \in Nat
  BY <1>2, FS_Subset, FS_CardinalityType
<1>4. MaxSlots >= 0
  <2>1. PageSize - HeaderSize \in Nat /\ SlotSize \in Nat \ {0}
    BY PageAssumption
  <2>2. \A x \in Nat, k \in Nat \ {0} : x \div k >= 0
    OBVIOUS
  <2> QED BY <2>1, <2>2 DEF MaxSlots
<1> QED BY <1>1, <1>2, <1>3, <1>4, PageAssumption

\* A slot that comes into use is one more tuple.
LEMMA CountsOccupy ==
  ASSUME SInv, TuplesCounted, NEW s \in Slots \ Live, NEW offset, NEW size, Occupy(s, offset, size),
         Directory' = Directory \cup {s}
  PROVE  TuplesCounted'
<1>1. Directory \subseteq Slots
  BY DirectoryBounds
<1>2. Live' = Live \cup {s} /\ Live' \subseteq Slots /\ Live \subseteq Slots
  BY <1>1 DEF Live, Occupy, SInv, TypeOK
<1>3. Cardinality(Live') = Cardinality(Live) + 1
  BY <1>2, LiveFinite, FS_AddElement
<1>4. Cardinality(Live) + 1 \in 0 .. CountMod - 1
  BY <1>2, <1>3, LiveFinite, PageAssumption
<1>5. \A x \in 0 .. CountMod - 1 : x % CountMod = x
  BY PageAssumption
<1> QED BY <1>3, <1>4, <1>5 DEF TuplesCounted, Occupy

LEMMA CountsDeleteSlot ==
  ASSUME DeletedOnce, SInv, TuplesCounted, NEW s \in Slots, DeleteSlot(s)
  PROVE  TuplesCounted'
<1>1. Directory' = Directory /\ Directory \subseteq Slots /\ s \in Live
  BY DirectoryBounds DEF DeleteSlot, DeletedOnce, Directory, GetPageCapacity, Live
<1>2. Live' = Live \ {s} /\ Live \subseteq Slots
  BY <1>1 DEF Live, DeleteSlot, SInv, TypeOK
<1>3. Cardinality(Live') = Cardinality(Live) - 1
  BY <1>1, <1>2, LiveFinite, FS_RemoveElement
<1>4. Cardinality(Live) - 1 \in 0 .. CountMod - 1
  <2>1. Cardinality(Live) # 0
    BY <1>1, <1>2, LiveFinite, FS_EmptySet
  <2> QED BY <2>1, <1>2, LiveFinite, PageAssumption
<1>5. \A x \in 0 .. CountMod - 1 : x % CountMod = x
  BY PageAssumption
<1> QED BY <1>3, <1>4, <1>5 DEF TuplesCounted, DeleteSlot

LEMMA CountsStep ==
  ASSUME DeletedOnce, SInv, TuplesCounted, [Next]_vars
  PROVE  TuplesCounted'
<1>1. ASSUME NEW size \in Sizes, AllocateSlot(size) PROVE TuplesCounted'
  <2>1. GetPageCapacity \in Slots \ Live /\ Directory' = Directory \cup {GetPageCapacity}
    BY <1>1, DirectoryGrows DEF Live
  <2> QED BY <1>1, <2>1, CountsOccupy DEF AllocateSlot
<1>2. ASSUME NEW size \in Sizes, NEW s \in Slots, Reusable(s, size), ReuseSlot(s, size)
      PROVE  TuplesCounted'
  <2>1. s \in Slots \ Live /\ Directory' = Directory \cup {s}
    BY <1>2 DEF Reusable, ReuseSlot, Live, Directory, GetPageCapacity
  <2> QED BY <1>2, <2>1, CountsOccupy DEF ReuseSlot
<1>3. ASSUME NEW s \in Slots, DeleteSlot(s) PROVE TuplesCounted'
  BY <1>3, CountsDeleteSlot
<1>4. CASE UNCHANGED <<headerVars, is_deleted>>
  BY <1>4 DEF headerVars, TuplesCounted, Live, Directory, GetPageCapacity
<1> QED BY <1>1, <1>2, <1>3, <1>4
        DEF Next, AllocateSlotOrReuseSlot, MoveRecord, WriteRecord, BeginVacuum, EndVacuum, slotVars, vars

\* num_tuples is the number of live slots (page_format.cpp:169-228): what
\* ShiftSlotsToFront and the sort of a page rely on.
THEOREM HeaderCountsTuples ==
  ASSUME NoHeapVacuum, DeletedOnce PROVE Spec => []TuplesCounted
<1>1. SInv /\ TuplesCounted /\ [Next]_vars => SInv' /\ TuplesCounted'
  BY PageStep, CountsStep
<1>2. Init => SInv /\ TuplesCounted
  <2>1. ASSUME Init PROVE TuplesCounted
    <3>1. GetPageCapacity = 0
      <4>1. HeaderSize - HeaderSize = 0 /\ SlotSize \in Nat \ {0}
        BY PageAssumption
      <4>2. \A k \in Nat \ {0} : 0 \div k = 0
        OBVIOUS
      <4> QED BY <2>1, <4>1, <4>2 DEF Init, GetPageCapacity
    <3>2. Live = {}
      BY <3>1 DEF Live, Directory
    <3> QED BY <2>1, <3>2, FS_EmptySet DEF Init, TuplesCounted
  <2> QED BY <2>1, PageInit
<1> QED BY <1>1, <1>2, PTL DEF Spec
=============================================================================
