----------------------------- MODULE PageSort -----------------------------
(***************************************************************************)
(* Sorting the records of one page in place                                 *)
(* (src/optimizer/external_sort.cpp).                                       *)
(*                                                                          *)
(* The caller has the page to itself.  ShiftSlotsLeft moves the live slots  *)
(* to the front of the directory, then a quicksort orders them; only slot   *)
(* entries move, records stay where they are.  A step is one turn of a loop *)
(* or one call; the calls still to be made are on a stack.                  *)
(*                                                                          *)
(* `record` stands for the offset and the size in a slot entry: which       *)
(* record it points to, or None for the zeros ShiftSlotsLeft leaves.        *)
(***************************************************************************)
EXTENDS Integers, Sequences, FiniteSets

CONSTANTS
  MaxCapacity,   \* the largest slot directory
  Records,       \* the records of the page
  Key,           \* Key[r]: what the comparison function looks at
  None

Slots == 0 .. MaxCapacity - 1

ASSUME SortAssumption ==
  /\ MaxCapacity \in Nat
  /\ None \notin Records
  /\ Key \in [Records -> Int]

VARIABLES
  num_tuples, capacity, is_deleted, record,   \* the page
  pc,
  deleted_ptr, ptr,                           \* ShiftSlotsLeft's locals
  calls,                                      \* <<left_bound, right_bound>> of the calls to
                                              \* come, the current one first
  lt_ptr, gt_ptr,                             \* the current call's locals
  original                                    \* the live records before the sort

pageVars == <<num_tuples, capacity, is_deleted, record>>
shiftVars == <<deleted_ptr, ptr>>
sortVars == <<calls, lt_ptr, gt_ptr>>
vars == <<pageVars, pc, shiftVars, sortVars, original>>

TypeOK ==
  /\ num_tuples \in 0 .. MaxCapacity /\ capacity \in 0 .. MaxCapacity
  /\ is_deleted \in [Slots -> BOOLEAN]
  /\ record \in [Slots -> Records \cup {None}]
  /\ pc \in {"skip", "shift", "call", "prefix", "partition", "done"}
  /\ deleted_ptr \in 0 .. MaxCapacity /\ ptr \in 0 .. MaxCapacity
  /\ calls \in Seq((0 .. MaxCapacity) \X (0 .. MaxCapacity))
  /\ lt_ptr \in 0 .. MaxCapacity /\ gt_ptr \in 0 .. MaxCapacity
  /\ original \in SUBSET Records

Directory == 0 .. capacity - 1
Live == {s \in Directory : ~is_deleted[s]}

\* A page as its users leave it: slots point to different records, deleted ones
\* to their old record, and the header counts the live ones (TuplesCounted of
\* SlottedPage).
Init ==
  /\ capacity \in 0 .. MaxCapacity
  /\ is_deleted \in {d \in [Slots -> BOOLEAN] : \A s \in Slots : s >= capacity => ~d[s]}
  /\ record \in {r \in [Slots -> Records \cup {None}] :
                   /\ \A s \in Slots : r[s] = None <=> s >= capacity
                   /\ \A s, t \in Directory : r[s] = r[t] => s = t}
  /\ num_tuples = Cardinality(Live)
  /\ pc = "skip"
  /\ deleted_ptr = 0 /\ ptr = 0
  /\ calls = <<>> /\ lt_ptr = 0 /\ gt_ptr = 0
  /\ original = {record[s] : s \in Live}

-----------------------------------------------------------------------------
(* ShiftSlotsLeft. *)

\* The slots before the first deleted one stay.
SkipLive ==
  /\ pc = "skip"
  /\ ptr \in Live
  /\ deleted_ptr' = deleted_ptr + 1
  /\ ptr' = ptr + 1
  /\ UNCHANGED <<pageVars, pc, sortVars, original>>

EndSkip ==
  /\ pc = "skip"
  /\ ptr \notin Live
  /\ pc' = "shift"
  /\ UNCHANGED <<pageVars, shiftVars, sortVars, original>>

\* ptr looks for the next live slot.
FindLive ==
  /\ pc = "shift"
  /\ deleted_ptr < num_tuples
  /\ is_deleted[ptr]
  /\ ptr' = ptr + 1
  /\ UNCHANGED <<pageVars, pc, deleted_ptr, sortVars, original>>

\* Mutant: the slot that was moved stays live as well.
MoveSlotKeepSource ==
  /\ pc = "shift"
  /\ deleted_ptr < num_tuples
  /\ ~is_deleted[ptr]
  /\ is_deleted' = [is_deleted EXCEPT ![deleted_ptr] = FALSE]
  /\ record' = [record EXCEPT ![deleted_ptr] = record[ptr]]
  /\ deleted_ptr' = deleted_ptr + 1
  /\ ptr' = ptr + 1
  /\ UNCHANGED <<num_tuples, capacity, pc, sortVars, original>>

\* The entry of the live slot is copied to the left and cleared.
MoveSlot ==
  /\ pc = "shift"
  /\ deleted_ptr < num_tuples
  /\ ~is_deleted[ptr]
  /\ is_deleted' = [is_deleted EXCEPT ![deleted_ptr] = FALSE, ![ptr] = TRUE]
  /\ record' = [record EXCEPT ![deleted_ptr] = record[ptr], ![ptr] = None]
  /\ deleted_ptr' = deleted_ptr + 1
  /\ ptr' = ptr + 1
  /\ UNCHANGED <<num_tuples, capacity, pc, sortVars, original>>

\* Mutant: deleted slots are sorted with the others.
EndShiftAtCapacity ==
  /\ pc = "shift"
  /\ deleted_ptr >= num_tuples
  /\ pc' = "call"
  /\ calls' = << <<0, capacity>> >>
  /\ UNCHANGED <<pageVars, shiftVars, lt_ptr, gt_ptr, original>>

\* The whole range is sorted next.
EndShift ==
  /\ pc = "shift"
  /\ deleted_ptr >= num_tuples
  /\ pc' = "call"
  /\ calls' = << <<0, num_tuples>> >>
  /\ UNCHANGED <<pageVars, shiftVars, lt_ptr, gt_ptr, original>>

-----------------------------------------------------------------------------
(* SortPageInPlace(page, comp, left_bound, right_bound). *)

left_bound == Head(calls)[1]
right_bound == Head(calls)[2]
partition_ptr == right_bound - 1

\* comp(ReadRecord(s), ReadRecord(partition_ptr))
BeforePivot(s) == Key[record[s]] < Key[record[partition_ptr]]

\* At most one record: nothing to sort.
ReturnAtOnce ==
  /\ pc = "call" /\ calls # <<>>
  /\ right_bound - left_bound <= 1
  /\ calls' = Tail(calls)
  /\ UNCHANGED <<pageVars, pc, shiftVars, lt_ptr, gt_ptr, original>>

BeginPartition ==
  /\ pc = "call" /\ calls # <<>>
  /\ right_bound - left_bound > 1
  /\ lt_ptr' = left_bound
  /\ gt_ptr' = left_bound
  /\ pc' = "prefix"
  /\ UNCHANGED <<pageVars, shiftVars, calls, original>>

\* The records before the first one that does not come before the pivot.
SkipPrefix ==
  /\ pc = "prefix"
  /\ gt_ptr < partition_ptr /\ BeforePivot(gt_ptr)
  /\ gt_ptr' = gt_ptr + 1
  /\ lt_ptr' = lt_ptr + 1
  /\ UNCHANGED <<pageVars, pc, shiftVars, calls, original>>

EndPrefix ==
  /\ pc = "prefix"
  /\ ~(gt_ptr < partition_ptr /\ BeforePivot(gt_ptr))
  /\ pc' = "partition"
  /\ UNCHANGED <<pageVars, shiftVars, sortVars, original>>

\* SwapSlots
SwapSlots(s, t) ==
  /\ record' = [record EXCEPT ![s] = record[t], ![t] = record[s]]
  /\ is_deleted' = [is_deleted EXCEPT ![s] = is_deleted[t], ![t] = is_deleted[s]]

\* lt_ptr looks for a record that comes before the pivot.
SkipNotBefore ==
  /\ pc = "partition"
  /\ lt_ptr < partition_ptr /\ ~BeforePivot(lt_ptr)
  /\ lt_ptr' = lt_ptr + 1
  /\ UNCHANGED <<pageVars, pc, shiftVars, calls, gt_ptr, original>>

\* It goes to the end of those found so far.
SwapBefore ==
  /\ pc = "partition"
  /\ lt_ptr < partition_ptr /\ BeforePivot(lt_ptr)
  /\ SwapSlots(lt_ptr, gt_ptr)
  /\ gt_ptr' = gt_ptr + 1
  /\ lt_ptr' = lt_ptr + 1
  /\ UNCHANGED <<num_tuples, capacity, pc, shiftVars, calls, original>>

\* Mutant: the right half begins one slot late.
PlacePivotLate ==
  /\ pc = "partition"
  /\ lt_ptr >= partition_ptr
  /\ SwapSlots(gt_ptr, partition_ptr)
  /\ calls' = << <<left_bound, gt_ptr>>, <<gt_ptr + 2, right_bound>> >> \o Tail(calls)
  /\ pc' = "call"
  /\ UNCHANGED <<num_tuples, capacity, shiftVars, lt_ptr, gt_ptr, original>>

\* Mutant: the pivot is sorted again with the right half.
PlacePivotAgain ==
  /\ pc = "partition"
  /\ lt_ptr >= partition_ptr
  /\ SwapSlots(gt_ptr, partition_ptr)
  /\ calls' = << <<left_bound, gt_ptr>>, <<gt_ptr, right_bound>> >> \o Tail(calls)
  /\ pc' = "call"
  /\ UNCHANGED <<num_tuples, capacity, shiftVars, lt_ptr, gt_ptr, original>>

\* The pivot goes between the two halves, which are sorted next.
PlacePivot ==
  /\ pc = "partition"
  /\ lt_ptr >= partition_ptr
  /\ SwapSlots(gt_ptr, partition_ptr)
  /\ calls' = << <<left_bound, gt_ptr>>, <<gt_ptr + 1, right_bound>> >> \o Tail(calls)
  /\ pc' = "call"
  /\ UNCHANGED <<num_tuples, capacity, shiftVars, lt_ptr, gt_ptr, original>>

Return ==
  /\ pc = "call" /\ calls = <<>>
  /\ pc' = "done"
  /\ UNCHANGED <<pageVars, shiftVars, sortVars, original>>

Step ==
  \/ SkipLive \/ EndSkip \/ FindLive \/ MoveSlot \/ EndShift
  \/ ReturnAtOnce \/ BeginPartition \/ SkipPrefix \/ EndPrefix
  \/ SkipNotBefore \/ SwapBefore \/ PlacePivot \/ Return

\* The caller goes its way.
Done == pc = "done" /\ UNCHANGED vars

Next == Step \/ Done

\* The caller's thread goes on.
Spec == Init /\ [][Next]_vars /\ WF_vars(Step)

-----------------------------------------------------------------------------
(* Properties. *)

\* SortPageInPlace leaves the live slots first and in the order of the
\* comparison function, whatever was deleted and whatever keys are equal.
SortedAtEnd ==
  pc = "done" =>
    /\ Live = 0 .. num_tuples - 1
    /\ \A s, t \in Live : s < t => Key[record[s]] <= Key[record[t]]

\* At every step of ShiftSlotsLeft and of the sort each of the page's records is
\* the record of exactly one live slot.
RecordsKept ==
  /\ {record[s] : s \in Live} = original
  /\ \A s, t \in Live : record[s] = record[t] => s = t

\* ShiftSlotsLeft never looks for a live slot behind the directory, which
\* IsSlotDeleted would read beyond the slots; the partition stays inside the
\* bounds of its call.
PointersInBounds ==
  /\ pc = "shift" /\ deleted_ptr < num_tuples => ptr < capacity
  /\ pc \in {"prefix", "partition"} =>
       /\ left_bound <= gt_ptr /\ gt_ptr <= lt_ptr /\ lt_ptr <= partition_ptr
       /\ right_bound <= num_tuples

\* The loops and the recursion end.
SortReturns == <>(pc = "done")
=============================================================================
