-------------------------- MODULE PageSortProofs --------------------------
(***************************************************************************)
(* Sorting a page of any number of slots keeps its records, stays inside    *)
(* the slot directory, and leaves the page sorted if it ends.               *)
(***************************************************************************)
EXTENDS PageSort, FiniteSetTheorems, SequenceTheorems, TLAPS

\* The page is being shifted, or sorted.
InShift == pc \in {"skip", "shift"}
InSort == pc \in {"call", "prefix", "partition", "done"}

\* The header counts the live slots.
Counted == num_tuples = Cardinality(Live)

\* ShiftSlotsLeft: what is left of deleted_ptr is live, what lies between the
\* pointers is not, and a slot is never moved onto itself.
Shifting ==
  InShift =>
    /\ deleted_ptr <= ptr /\ ptr <= capacity
    /\ \A s \in 0 .. deleted_ptr - 1 : s \in Live
    /\ \A s \in deleted_ptr .. ptr - 1 : s \notin Live
    /\ pc = "skip" => deleted_ptr = ptr
    /\ pc = "shift" => deleted_ptr < ptr \/ ptr \notin Live

\* The sort works on the slots in front, all of them live.
Shifted == InSort => Live = 0 .. num_tuples - 1

\* The ranges still to be sorted lie one behind the other.
Ranges ==
  InSort =>
    /\ \A i \in DOMAIN calls : calls[i][1] <= calls[i][2] /\ calls[i][2] <= num_tuples
    /\ \A i, j \in DOMAIN calls : i < j => calls[i][2] <= calls[j][1]
    /\ pc = "done" => calls = <<>>

\* Two slots of one range still to be sorted.
Together(s, t) == \E i \in DOMAIN calls : calls[i][1] <= s /\ t < calls[i][2]

\* All others are in order already.
Ordered ==
  InSort =>
    \A s, t \in 0 .. num_tuples - 1 :
      s < t /\ ~Together(s, t) => Key[record[s]] <= Key[record[t]]

\* The partition of the current range so far: before gt_ptr what comes before the
\* pivot, from there to lt_ptr what does not.
Partitioned ==
  pc \in {"prefix", "partition"} =>
    /\ calls # <<>>
    /\ left_bound <= gt_ptr /\ gt_ptr <= lt_ptr /\ lt_ptr <= partition_ptr
    /\ pc = "prefix" => gt_ptr = lt_ptr
    /\ \A s \in left_bound .. gt_ptr - 1 : BeforePivot(s)
    /\ \A s \in gt_ptr .. lt_ptr - 1 : ~BeforePivot(s)

\* The inductive invariant.
SortInv ==
  /\ TypeOK /\ Counted /\ RecordsKept
  /\ Shifting /\ Shifted /\ Ranges /\ Ordered /\ Partitioned

-----------------------------------------------------------------------------
(* Counting the live slots. *)

LEMMA LiveFinite ==
  ASSUME TypeOK
  PROVE  IsFiniteSet(Live) /\ Cardinality(Live) \in 0 .. capacity
<1>1. capacity \in Nat
  BY SortAssumption DEF TypeOK
<1>2. IsFiniteSet(Directory) /\ Cardinality(Directory) = capacity
  BY <1>1, FS_Interval DEF Directory
<1>3. Live \in SUBSET Directory
  BY DEF Live
<1> QED BY <1>1, <1>2, <1>3, FS_Subset, FS_CardinalityType

\* As long as slots are to be moved there is a live one at ptr or behind it.
LEMMA LiveLeft ==
  ASSUME TypeOK, Counted, Shifting, pc = "shift", deleted_ptr < num_tuples
  PROVE  ptr < capacity
<1> SUFFICES ASSUME ptr = capacity
             PROVE  FALSE
  BY SortAssumption DEF TypeOK, Shifting, InShift
<1>1. deleted_ptr \in Nat /\ ptr \in Nat /\ deleted_ptr <= ptr
  BY SortAssumption DEF TypeOK, Shifting, InShift
<1>2. Live = 0 .. deleted_ptr - 1
  BY <1>1 DEF Shifting, InShift, Live, Directory
<1>3. Cardinality(Live) = deleted_ptr
  BY <1>1, <1>2, FS_Interval
<1> QED BY <1>1, <1>3 DEF Counted

\* When all are moved nothing behind them is live.
LEMMA AllInFront ==
  ASSUME TypeOK, Counted, Shifting, InShift, deleted_ptr >= num_tuples
  PROVE  Live = 0 .. num_tuples - 1
<1>1. deleted_ptr \in Nat /\ num_tuples \in Nat
  BY SortAssumption DEF TypeOK
<1> DEFINE Front == 0 .. deleted_ptr - 1
<1>2. Front \in SUBSET Live
  BY <1>1 DEF Shifting
<1>3. Cardinality(Front) = deleted_ptr
  BY <1>1, FS_Interval
<1> HIDE DEF Front
<1>4. deleted_ptr <= Cardinality(Live) /\ (Cardinality(Live) = deleted_ptr => Live = Front)
  BY <1>2, <1>3, LiveFinite, FS_Subset
<1>5. deleted_ptr = num_tuples
  BY <1>1, <1>4 DEF Counted
<1> QED BY <1>4, <1>5 DEF Counted, Front

\* The live slots point to records of the page.
LEMMA LiveRecords ==
  ASSUME TypeOK, RecordsKept, NEW s \in Live
  PROVE  record[s] \in Records /\ Key[record[s]] \in Int
<1>1. record[s] \in original
  BY DEF RecordsKept
<1> QED BY <1>1, SortAssumption DEF TypeOK

-----------------------------------------------------------------------------
(* The stack of calls. *)

\* A pair of bounds.
Bounds == (0 .. MaxCapacity) \X (0 .. MaxCapacity)

LEMMA CallsShape ==
  ASSUME TypeOK
  PROVE  /\ calls \in Seq(Bounds) /\ Len(calls) \in Nat /\ DOMAIN calls = 1 .. Len(calls)
         /\ \A i \in DOMAIN calls : /\ calls[i] \in Bounds
                                   /\ calls[i][1] \in 0 .. MaxCapacity
                                   /\ calls[i][2] \in 0 .. MaxCapacity
<1>1. calls \in Seq(Bounds)
  BY DEF TypeOK, Bounds
<1>2. Len(calls) \in Nat /\ DOMAIN calls = 1 .. Len(calls)
  BY <1>1, LenProperties
<1>3. \A i \in DOMAIN calls : calls[i] \in Bounds
  BY <1>1, <1>2, ElementOfSeq
<1> QED BY <1>1, <1>2, <1>3 DEF Bounds

\* The current call is the first one.
LEMMA CurrentCall ==
  ASSUME TypeOK, calls # <<>>
  PROVE  /\ 1 \in DOMAIN calls /\ left_bound = calls[1][1] /\ right_bound = calls[1][2]
         /\ left_bound \in 0 .. MaxCapacity /\ right_bound \in 0 .. MaxCapacity
<1>1. calls \in Seq(Bounds) /\ Len(calls) \in Nat /\ DOMAIN calls = 1 .. Len(calls)
  BY CallsShape
<1>2. Len(calls) # 0
  BY <1>1, EmptySeq
<1>3. 1 \in DOMAIN calls /\ Head(calls) = calls[1]
  BY <1>1, <1>2
<1> QED BY <1>3, CallsShape DEF left_bound, right_bound

\* A return drops the current call.
LEMMA AfterReturn ==
  ASSUME TypeOK, calls # <<>>, calls' = Tail(calls)
  PROVE  /\ calls' \in Seq(Bounds) /\ DOMAIN calls' = 1 .. Len(calls) - 1
         /\ \A i \in DOMAIN calls' : i + 1 \in DOMAIN calls /\ calls'[i] = calls[i + 1]
<1>1. calls \in Seq(Bounds) /\ Len(calls) \in Nat /\ DOMAIN calls = 1 .. Len(calls)
  BY CallsShape
<1>2. /\ Tail(calls) \in Seq(Bounds) /\ Len(Tail(calls)) = Len(calls) - 1
      /\ \A i \in 1 .. Len(Tail(calls)) : Tail(calls)[i] = calls[i + 1]
  BY <1>1, HeadTailProperties
<1>3. DOMAIN calls' = 1 .. Len(calls) - 1
  BY <1>2, LenProperties
<1> QED BY <1>1, <1>2, <1>3

\* PlacePivot puts two calls in its place.
LEMMA AfterSplit ==
  ASSUME TypeOK, calls # <<>>, NEW a \in Bounds, NEW b \in Bounds,
         calls' = <<a, b>> \o Tail(calls)
  PROVE  /\ calls' \in Seq(Bounds) /\ DOMAIN calls' = 1 .. Len(calls) + 1
         /\ calls'[1] = a /\ calls'[2] = b
         /\ \A i \in DOMAIN calls' : i > 2 => i - 1 \in DOMAIN calls /\ calls'[i] = calls[i - 1]
<1>1. calls \in Seq(Bounds) /\ Len(calls) \in Nat /\ DOMAIN calls = 1 .. Len(calls)
  BY CallsShape
<1>2. /\ Tail(calls) \in Seq(Bounds) /\ Len(Tail(calls)) = Len(calls) - 1
      /\ \A i \in 1 .. Len(Tail(calls)) : Tail(calls)[i] = calls[i + 1]
  BY <1>1, HeadTailProperties
<1>3. <<a, b>> \in Seq(Bounds) /\ Len(<<a, b>>) = 2
  OBVIOUS
<1>4. /\ calls' \in Seq(Bounds) /\ Len(calls') = Len(calls) + 1
      /\ \A i \in 1 .. Len(calls) + 1 :
           calls'[i] = IF i <= 2 THEN <<a, b>>[i] ELSE Tail(calls)[i - 2]
  BY <1>1, <1>2, <1>3, ConcatProperties
<1>5. DOMAIN calls' = 1 .. Len(calls) + 1
  BY <1>4, LenProperties
<1>6. Len(calls) # 0
  BY <1>1, EmptySeq
<1>7. calls'[1] = a /\ calls'[2] = b
  BY <1>1, <1>4, <1>6
<1>8. ASSUME NEW i \in DOMAIN calls', i > 2
      PROVE  i - 1 \in DOMAIN calls /\ calls'[i] = calls[i - 1]
  <2>1. i - 2 \in 1 .. Len(Tail(calls)) /\ calls'[i] = Tail(calls)[i - 2]
    BY <1>1, <1>2, <1>4, <1>5, <1>8
  <2>2. Tail(calls)[i - 2] = calls[i - 2 + 1] /\ i - 2 + 1 = i - 1
    BY <1>1, <1>2, <1>5, <1>8, <2>1
  <2> QED BY <1>1, <1>2, <1>5, <1>8, <2>1, <2>2
<1> QED BY <1>4, <1>5, <1>7, <1>8

-----------------------------------------------------------------------------
(* Swapping two live slots. *)

LEMMA SwapInFront ==
  ASSUME TypeOK, RecordsKept, NEW s \in Live, NEW t \in Live, SwapSlots(s, t),
         UNCHANGED <<num_tuples, capacity, original>>
  PROVE  /\ is_deleted' = is_deleted /\ Live' = Live
         /\ record' \in [Slots -> Records \cup {None}]
         /\ record'[s] = record[t] /\ record'[t] = record[s]
         /\ \A u \in Live \ {s, t} : record'[u] = record[u]
         /\ RecordsKept'
<1>1. Live \subseteq Slots
  BY SortAssumption DEF Live, Directory, Slots, TypeOK
<1>2. is_deleted' = is_deleted
  BY <1>1 DEF SwapSlots, TypeOK, Live
<1>3. Live' = Live
  BY <1>2 DEF Live, Directory
<1>4. record' \in [Slots -> Records \cup {None}]
  BY <1>1 DEF SwapSlots, TypeOK
<1>5. record'[s] = record[t] /\ record'[t] = record[s] /\ \A u \in Live \ {s, t} : record'[u] = record[u]
  BY <1>1 DEF SwapSlots, TypeOK
<1>6. {record'[u] : u \in Live} = {record[u] : u \in Live}
  BY <1>5
<1>7. \A u, v \in Live : record'[u] = record'[v] => u = v
  BY <1>5 DEF RecordsKept
<1>8. RecordsKept'
  BY <1>3, <1>6, <1>7 DEF RecordsKept
<1> QED BY <1>2, <1>3, <1>4, <1>5, <1>8

\* A slot of the current range and one outside it are in order.
LEMMA RangeInOrder ==
  ASSUME TypeOK, InSort, Ranges, Ordered, calls # <<>>,
         NEW x \in 0 .. num_tuples - 1, NEW y \in 0 .. num_tuples - 1,
         \/ x < left_bound /\ left_bound <= y /\ y < right_bound
         \/ left_bound <= x /\ x < right_bound /\ right_bound <= y
  PROVE  Key[record[x]] <= Key[record[y]]
<1>1. /\ 1 \in DOMAIN calls /\ left_bound = calls[1][1] /\ right_bound = calls[1][2]
      /\ left_bound \in Int /\ right_bound \in Int
  BY CurrentCall, SortAssumption
<1>2. x < y
  BY <1>1
<1>3. ASSUME NEW i \in DOMAIN calls, calls[i][1] <= x, y < calls[i][2]
      PROVE  FALSE
  <2>1. DOMAIN calls = 1 .. Len(calls) /\ calls[i][1] \in Int /\ calls[i][2] \in Int
    BY CallsShape
  <2>2. i # 1 => calls[1][2] <= calls[i][1]
    BY <1>1, <2>1 DEF Ranges
  <2>3. calls[1][1] <= calls[1][2]
    BY <1>1 DEF Ranges
  <2> QED BY <1>1, <1>3, <2>1, <2>2, <2>3
<1> QED BY <1>2, <1>3 DEF Ordered, Together

\* A swap inside the current range leaves in order what is not in one range.
LEMMA SwapOrdered ==
  ASSUME TypeOK, RecordsKept, InSort, Shifted, Ranges, Ordered, calls # <<>>,
         NEW s \in left_bound .. right_bound - 1, NEW t \in left_bound .. right_bound - 1,
         SwapSlots(s, t), UNCHANGED <<num_tuples, capacity, original>>,
         NEW x \in 0 .. num_tuples - 1, NEW y \in 0 .. num_tuples - 1, x < y, ~Together(x, y)
  PROVE  Key[record'[x]] <= Key[record'[y]]
<1> DEFINE Inside(u) == left_bound <= u /\ u < right_bound
<1>1. /\ 1 \in DOMAIN calls /\ left_bound = calls[1][1] /\ right_bound = calls[1][2]
      /\ left_bound \in Nat /\ right_bound \in Nat /\ num_tuples \in Nat
  BY CurrentCall, SortAssumption DEF TypeOK
<1>2. right_bound <= num_tuples
  BY <1>1 DEF Ranges
<1>3. s \in Live /\ t \in Live /\ Live = 0 .. num_tuples - 1
  BY <1>1, <1>2 DEF Shifted
<1>4. /\ record'[s] = record[t] /\ record'[t] = record[s]
      /\ \A u \in Live \ {s, t} : record'[u] = record[u]
  BY <1>3, SwapInFront
<1>5. ~(Inside(x) /\ Inside(y))
  BY <1>1 DEF Together
<1>6. Inside(s) /\ Inside(t)
  BY <1>1
<1>7. \A u \in Live : Inside(u) => \E v \in Live : Inside(v) /\ record'[u] = record[v]
  BY <1>3, <1>4, <1>6
<1>8. \A u \in Live : ~Inside(u) => record'[u] = record[u]
  BY <1>3, <1>4, <1>6
<1>9. CASE Inside(x)
  <2>1. PICK v \in Live : Inside(v) /\ record'[x] = record[v]
    BY <1>3, <1>7, <1>9
  <2>2. right_bound <= y
    BY <1>1, <1>5, <1>9
  <2> QED BY <1>3, <1>5, <1>8, <1>9, <2>1, <2>2, RangeInOrder
<1>10. CASE Inside(y)
  <2>1. PICK v \in Live : Inside(v) /\ record'[y] = record[v]
    BY <1>3, <1>7, <1>10
  <2>2. x < left_bound
    BY <1>1, <1>5, <1>10
  <2> QED BY <1>3, <1>5, <1>8, <1>10, <2>1, <2>2, RangeInOrder
<1>11. CASE ~Inside(x) /\ ~Inside(y)
  <2>1. Key[record[x]] <= Key[record[y]]
    BY DEF Ordered
  <2> QED BY <1>3, <1>8, <1>11, <2>1
<1> QED BY <1>9, <1>10, <1>11

-----------------------------------------------------------------------------
(* The invariant holds at first and ShiftSlotsLeft keeps it. *)

LEMMA InitInv == Init => SortInv
<1> SUFFICES ASSUME Init
             PROVE  SortInv
  OBVIOUS
<1>1. capacity \in 0 .. MaxCapacity /\ Directory \subseteq Slots
  BY SortAssumption DEF Init, Directory, Slots
<1>2. Cardinality(Live) \in 0 .. capacity
  <2>1. IsFiniteSet(Directory) /\ Cardinality(Directory) = capacity
    BY <1>1, SortAssumption, FS_Interval DEF Directory
  <2>2. Live \in SUBSET Directory
    BY DEF Live
  <2> QED BY <1>1, <2>1, <2>2, FS_Subset, FS_CardinalityType
<1>3. original \in SUBSET Records
  BY <1>1 DEF Init, Live, Directory, Slots
<1>4. TypeOK
  <2>1. calls \in Seq((0 .. MaxCapacity) \X (0 .. MaxCapacity))
    BY DEF Init
  <2> QED BY <1>1, <1>2, <1>3, <2>1, SortAssumption DEF Init, TypeOK
<1>5. Counted /\ RecordsKept
  BY DEF Init, Counted, RecordsKept, Live
<1>6. Shifting
  BY <1>1, SortAssumption DEF Init, Shifting, InShift
<1> QED BY <1>4, <1>5, <1>6 DEF Init, SortInv, Shifted, Ranges, Ordered, Partitioned, InSort

\* What holds of the slots still does when none is written.
LEMMA PageKept ==
  ASSUME Counted, RecordsKept, UNCHANGED <<pageVars, original>>
  PROVE  Counted' /\ RecordsKept' /\ Live' = Live
<1>1. Live' = Live
  BY DEF pageVars, Live, Directory
<1> QED BY <1>1 DEF pageVars, Counted, RecordsKept

LEMMA SkipLiveInv == SortInv /\ SkipLive => SortInv'
<1> SUFFICES ASSUME SortInv, SkipLive
             PROVE  SortInv'
  OBVIOUS
<1>1. Counted' /\ RecordsKept' /\ Live' = Live
  BY PageKept DEF SortInv, SkipLive
<1>2. ptr \in 0 .. capacity - 1 /\ capacity \in 0 .. MaxCapacity /\ deleted_ptr = ptr
  BY DEF SkipLive, Live, Directory, SortInv, TypeOK, Shifting, InShift
<1>3. TypeOK'
  BY <1>2, SortAssumption DEF SortInv, SkipLive, TypeOK, pageVars, sortVars
<1>4. Shifting'
  BY <1>1, <1>2, SortAssumption DEF SortInv, SkipLive, Shifting, InShift, pageVars
<1> QED BY <1>1, <1>3, <1>4 DEF SortInv, SkipLive, Shifted, Ranges, Ordered, Partitioned, InSort

LEMMA EndSkipInv == SortInv /\ EndSkip => SortInv'
<1> SUFFICES ASSUME SortInv, EndSkip
             PROVE  SortInv'
  OBVIOUS
<1>1. Counted' /\ RecordsKept' /\ Live' = Live
  BY PageKept DEF SortInv, EndSkip
<1>2. TypeOK'
  BY DEF SortInv, EndSkip, TypeOK, pageVars, shiftVars, sortVars
<1>3. Shifting'
  BY <1>1 DEF SortInv, EndSkip, Shifting, InShift, pageVars, shiftVars
<1> QED BY <1>1, <1>2, <1>3 DEF SortInv, EndSkip, Shifted, Ranges, Ordered, Partitioned, InSort

LEMMA FindLiveInv == SortInv /\ FindLive => SortInv'
<1> SUFFICES ASSUME SortInv, FindLive
             PROVE  SortInv'
  OBVIOUS
<1>1. Counted' /\ RecordsKept' /\ Live' = Live
  BY PageKept DEF SortInv, FindLive
<1>2. ptr < capacity /\ ptr \in Nat /\ capacity \in 0 .. MaxCapacity /\ deleted_ptr \in Nat
  BY LiveLeft, SortAssumption DEF SortInv, FindLive, TypeOK
<1>3. ptr \notin Live
  BY DEF FindLive, Live
<1>4. TypeOK'
  BY <1>2, SortAssumption DEF SortInv, FindLive, TypeOK, pageVars, sortVars
<1>5. Shifting'
  <2>1. /\ deleted_ptr <= ptr
        /\ \A s \in 0 .. deleted_ptr - 1 : s \in Live
        /\ \A s \in deleted_ptr .. ptr - 1 : s \notin Live
    BY DEF SortInv, FindLive, Shifting, InShift
  <2>2. \A s \in deleted_ptr .. ptr' - 1 : s \notin Live
    BY <1>2, <1>3, <2>1 DEF FindLive
  <2> QED BY <1>1, <1>2, <2>1, <2>2 DEF FindLive, Shifting, InShift, pageVars
<1> QED BY <1>1, <1>4, <1>5 DEF SortInv, FindLive, Shifted, Ranges, Ordered, Partitioned, InSort

LEMMA MoveSlotInv == SortInv /\ MoveSlot => SortInv'
<1> SUFFICES ASSUME SortInv, MoveSlot
             PROVE  SortInv'
  OBVIOUS
<1>1. /\ ptr < capacity /\ ptr \in Nat /\ capacity \in 0 .. MaxCapacity /\ deleted_ptr \in Nat
      /\ deleted_ptr <= ptr
  BY LiveLeft, SortAssumption DEF SortInv, MoveSlot, TypeOK, Shifting, InShift
<1>2. ptr \in Live
  BY <1>1 DEF MoveSlot, Live, Directory
<1>3. deleted_ptr < ptr /\ deleted_ptr \notin Live
  BY <1>1, <1>2 DEF SortInv, MoveSlot, Shifting, InShift
<1>4. ptr \in Slots /\ deleted_ptr \in Slots /\ Live \subseteq Slots
  BY <1>1, <1>3, SortAssumption DEF Slots, Live, Directory
<1>5. Live' = (Live \ {ptr}) \cup {deleted_ptr}
  <2>1. /\ deleted_ptr # ptr /\ is_deleted \in [Slots -> BOOLEAN]
        /\ is_deleted' = [is_deleted EXCEPT ![deleted_ptr] = FALSE, ![ptr] = TRUE]
    BY <1>1, <1>3 DEF MoveSlot, SortInv, TypeOK
  <2>2. /\ is_deleted'[deleted_ptr] = FALSE /\ is_deleted'[ptr] = TRUE
        /\ \A s \in Slots \ {deleted_ptr, ptr} : is_deleted'[s] = is_deleted[s]
    BY <1>4, <2>1, Zenon
  <2>3. Directory' = Directory /\ Directory \subseteq Slots /\ deleted_ptr \in Directory
    BY <1>1, <1>3, SortAssumption DEF MoveSlot, Directory, Slots
  <2> QED BY <1>3, <2>2, <2>3 DEF Live
<1>6. /\ record'[deleted_ptr] = record[ptr]
      /\ \A s \in Slots \ {deleted_ptr, ptr} : record'[s] = record[s]
  BY <1>3, <1>4 DEF MoveSlot, SortInv, TypeOK
<1>7. TypeOK'
  <2>1. is_deleted' \in [Slots -> BOOLEAN] /\ record' \in [Slots -> Records \cup {None}]
    BY <1>4 DEF MoveSlot, SortInv, TypeOK
  <2>2. deleted_ptr' \in 0 .. MaxCapacity /\ ptr' \in 0 .. MaxCapacity
    BY <1>1, SortAssumption DEF MoveSlot
  <2> QED BY <2>1, <2>2 DEF MoveSlot, SortInv, TypeOK, sortVars
<1>8. Counted'
  <2>1. IsFiniteSet(Live) /\ Cardinality(Live) \in Nat
    BY LiveFinite, FS_CardinalityType DEF SortInv
  <2>2. IsFiniteSet(Live \ {ptr}) /\ Cardinality(Live \ {ptr}) = Cardinality(Live) - 1
    BY <1>2, <2>1, FS_RemoveElement
  <2>3. Cardinality((Live \ {ptr}) \cup {deleted_ptr}) = Cardinality(Live) - 1 + 1
    BY <1>3, <2>2, FS_AddElement
  <2> QED BY <1>5, <2>1, <2>3 DEF Counted, SortInv, MoveSlot
<1>9. RecordsKept'
  <2>1. {record'[s] : s \in Live'} = {record[s] : s \in Live}
    BY <1>2, <1>3, <1>4, <1>5, <1>6
  <2>2. \A s, t \in Live' : record'[s] = record'[t] => s = t
    BY <1>2, <1>3, <1>4, <1>5, <1>6 DEF RecordsKept, SortInv
  <2> QED BY <2>1, <2>2 DEF RecordsKept, SortInv, MoveSlot
<1>10. Shifting'
  <2>1. /\ \A s \in 0 .. deleted_ptr - 1 : s \in Live
        /\ \A s \in deleted_ptr .. ptr - 1 : s \notin Live
    BY DEF SortInv, MoveSlot, Shifting, InShift
  <2>2. \A s \in 0 .. deleted_ptr' - 1 : s \in Live'
    BY <1>1, <1>3, <1>5, <2>1 DEF MoveSlot
  <2>3. \A s \in deleted_ptr' .. ptr' - 1 : s \notin Live'
    BY <1>1, <1>3, <1>5, <2>1 DEF MoveSlot
  <2> QED BY <1>1, <1>3, <2>2, <2>3 DEF MoveSlot, Shifting, InShift
<1> QED BY <1>7, <1>8, <1>9, <1>10 DEF SortInv, MoveSlot, Shifted, Ranges, Ordered, Partitioned, InSort

LEMMA EndShiftInv == SortInv /\ EndShift => SortInv'
<1> SUFFICES ASSUME SortInv, EndShift
             PROVE  SortInv'
  OBVIOUS
<1>1. Counted' /\ RecordsKept' /\ Live' = Live
  BY PageKept DEF SortInv, EndShift
<1>2. num_tuples' = num_tuples /\ num_tuples \in 0 .. MaxCapacity /\ num_tuples \in Nat
  BY SortAssumption DEF SortInv, EndShift, TypeOK, pageVars
<1>3. Shifted'
  BY <1>1, <1>2, AllInFront DEF SortInv, EndShift, Shifted, InShift
<1>4. /\ calls' \in Seq(Bounds) /\ DOMAIN calls' = {1}
      /\ calls'[1][1] = 0 /\ calls'[1][2] = num_tuples
  <2> DEFINE whole == <<0, num_tuples>>
  <2>1. whole \in Bounds /\ whole[1] = 0 /\ whole[2] = num_tuples
    BY <1>2, SortAssumption DEF Bounds
  <2>2. calls' = <<whole>>
    BY DEF EndShift
  <2> HIDE DEF whole
  <2>3. <<whole>> \in Seq(Bounds) /\ Len(<<whole>>) = 1 /\ <<whole>>[1] = whole
    BY <2>1
  <2>4. DOMAIN <<whole>> = 1 .. 1
    BY <2>3, LenProperties
  <2> QED BY <2>1, <2>2, <2>3, <2>4
<1>5. TypeOK'
  BY <1>4 DEF SortInv, EndShift, TypeOK, Bounds, pageVars, shiftVars
<1>6. Ranges'
  BY <1>2, <1>4 DEF EndShift, Ranges
<1>7. Ordered'
  BY <1>2, <1>4 DEF Ordered, Together
<1> QED BY <1>1, <1>3, <1>5, <1>6, <1>7 DEF SortInv, EndShift, Shifting, InShift, Partitioned

-----------------------------------------------------------------------------
(* The quicksort keeps it. *)

\* A step that writes no slot and no call, inside the sort.
LEMMA SortKept ==
  ASSUME SortInv, InSort, InSort', pc' # "done", UNCHANGED <<pageVars, calls, original>>
  PROVE  Counted' /\ RecordsKept' /\ Shifting' /\ Shifted' /\ Ranges' /\ Ordered'
<1>1. Counted' /\ RecordsKept' /\ Live' = Live
  BY PageKept DEF SortInv
<1>2. Shifting'
  BY DEF Shifting, InShift, InSort
<1>3. Shifted' /\ Ranges'
  BY <1>1 DEF SortInv, Shifted, Ranges, pageVars
<1>4. Ordered'
  BY DEF SortInv, Ordered, Together, pageVars
<1> QED BY <1>1, <1>2, <1>3, <1>4

\* The bounds of the current call.
LEMMA InRange ==
  ASSUME SortInv, InSort, calls # <<>>
  PROVE  /\ left_bound \in Nat /\ right_bound \in Nat /\ num_tuples \in Nat
         /\ left_bound <= right_bound /\ right_bound <= num_tuples /\ num_tuples <= MaxCapacity
<1>1. /\ 1 \in DOMAIN calls /\ left_bound = calls[1][1] /\ right_bound = calls[1][2]
      /\ left_bound \in Nat /\ right_bound \in Nat
  BY CurrentCall, SortAssumption DEF SortInv
<1> QED BY <1>1, SortAssumption DEF SortInv, Ranges, TypeOK

LEMMA ReturnAtOnceInv == SortInv /\ ReturnAtOnce => SortInv'
<1> SUFFICES ASSUME SortInv, ReturnAtOnce
             PROVE  SortInv'
  OBVIOUS
<1> USE DEF InSort
<1>1. Counted' /\ RecordsKept' /\ Live' = Live
  BY PageKept DEF SortInv, ReturnAtOnce
<1>2. /\ calls' \in Seq(Bounds) /\ DOMAIN calls' = 1 .. Len(calls) - 1
      /\ \A i \in DOMAIN calls' : i + 1 \in DOMAIN calls /\ calls'[i] = calls[i + 1]
  BY AfterReturn DEF SortInv, ReturnAtOnce
<1>3. Len(calls) \in Nat /\ DOMAIN calls = 1 .. Len(calls)
  BY CallsShape DEF SortInv
<1>4. TypeOK'
  BY <1>2 DEF SortInv, ReturnAtOnce, TypeOK, Bounds, pageVars, shiftVars
<1>5. Shifted'
  BY <1>1 DEF SortInv, ReturnAtOnce, Shifted, pageVars
<1>6. Ranges'
  <2>1. \A i \in DOMAIN calls' : calls'[i][1] <= calls'[i][2] /\ calls'[i][2] <= num_tuples
    BY <1>2 DEF SortInv, ReturnAtOnce, Ranges
  <2>2. \A i, j \in DOMAIN calls' : i < j => calls'[i][2] <= calls'[j][1]
    BY <1>2, <1>3 DEF SortInv, ReturnAtOnce, Ranges
  <2> QED BY <2>1, <2>2 DEF ReturnAtOnce, Ranges, pageVars
<1>7. Ordered'
  <2> SUFFICES ASSUME NEW s \in 0 .. num_tuples - 1, NEW t \in 0 .. num_tuples - 1,
                      s < t, ~Together(s, t)'
               PROVE  Key[record[s]] <= Key[record[t]]
    BY DEF ReturnAtOnce, Ordered, pageVars
  <2>1. ASSUME NEW i \in DOMAIN calls, calls[i][1] <= s, t < calls[i][2]
        PROVE  FALSE
    <3>1. CASE i = 1
      <4>1. left_bound = calls[1][1] /\ right_bound = calls[1][2]
        BY CurrentCall DEF SortInv, ReturnAtOnce
      <4>2. left_bound \in Nat /\ right_bound \in Nat /\ right_bound - left_bound <= 1
        BY InRange DEF SortInv, ReturnAtOnce
      <4> QED BY <2>1, <3>1, <4>1, <4>2
    <3>2. CASE i # 1
      <4>1. i - 1 \in DOMAIN calls' /\ calls'[i - 1] = calls[i - 1 + 1] /\ i - 1 + 1 = i
        BY <1>2, <1>3, <3>2
      <4> QED BY <2>1, <4>1 DEF Together
    <3> QED BY <3>1, <3>2
  <2> QED BY <2>1 DEF SortInv, ReturnAtOnce, Ordered, Together
<1> QED BY <1>1, <1>4, <1>5, <1>6, <1>7 DEF SortInv, ReturnAtOnce, Shifting, InShift, Partitioned

LEMMA BeginPartitionInv == SortInv /\ BeginPartition => SortInv'
<1> SUFFICES ASSUME SortInv, BeginPartition
             PROVE  SortInv'
  OBVIOUS
<1>1. Counted' /\ RecordsKept' /\ Shifting' /\ Shifted' /\ Ranges' /\ Ordered'
  BY SortKept DEF BeginPartition, InSort
<1>2. /\ left_bound \in Nat /\ right_bound \in Nat /\ num_tuples \in Nat /\ left_bound < right_bound
      /\ right_bound <= num_tuples /\ num_tuples <= MaxCapacity
  BY InRange DEF BeginPartition, InSort
<1>3. TypeOK'
  BY <1>2, SortAssumption DEF SortInv, BeginPartition, TypeOK, pageVars, shiftVars
<1>4. left_bound' = left_bound /\ right_bound' = right_bound
  BY DEF BeginPartition, left_bound, right_bound
<1>5. Partitioned'
  BY <1>2, <1>4 DEF BeginPartition, Partitioned, partition_ptr
<1> QED BY <1>1, <1>3, <1>5 DEF SortInv

LEMMA SkipPrefixInv == SortInv /\ SkipPrefix => SortInv'
<1> SUFFICES ASSUME SortInv, SkipPrefix
             PROVE  SortInv'
  OBVIOUS
<1>1. Counted' /\ RecordsKept' /\ Shifting' /\ Shifted' /\ Ranges' /\ Ordered'
  BY SortKept DEF SkipPrefix, InSort
<1>2. /\ left_bound \in Nat /\ right_bound \in Nat /\ num_tuples \in Nat
      /\ right_bound <= num_tuples /\ num_tuples <= MaxCapacity
  BY InRange DEF SkipPrefix, InSort, SortInv, Partitioned
<1>3. /\ calls # <<>> /\ left_bound <= gt_ptr /\ gt_ptr = lt_ptr /\ gt_ptr \in Nat
      /\ \A s \in left_bound .. gt_ptr - 1 : BeforePivot(s)
  BY SortAssumption DEF SortInv, SkipPrefix, Partitioned, TypeOK
<1>4. gt_ptr < right_bound - 1 /\ BeforePivot(gt_ptr)
  BY DEF SkipPrefix, partition_ptr
<1>5. TypeOK'
  BY <1>2, <1>3, <1>4, SortAssumption DEF SortInv, SkipPrefix, TypeOK, pageVars, shiftVars
<1>6. left_bound' = left_bound /\ right_bound' = right_bound /\ \A s : BeforePivot(s)' <=> BeforePivot(s)
  BY DEF SkipPrefix, left_bound, right_bound, BeforePivot, partition_ptr, pageVars
<1>7. \A s \in left_bound .. gt_ptr' - 1 : BeforePivot(s)
  BY <1>2, <1>3, <1>4 DEF SkipPrefix
<1>8. Partitioned'
  BY <1>2, <1>3, <1>4, <1>6, <1>7 DEF SkipPrefix, Partitioned, partition_ptr
<1> QED BY <1>1, <1>5, <1>8 DEF SortInv

LEMMA EndPrefixInv == SortInv /\ EndPrefix => SortInv'
<1> SUFFICES ASSUME SortInv, EndPrefix
             PROVE  SortInv'
  OBVIOUS
<1>1. Counted' /\ RecordsKept' /\ Shifting' /\ Shifted' /\ Ranges' /\ Ordered'
  BY SortKept DEF EndPrefix, InSort, sortVars
<1>2. TypeOK'
  BY DEF SortInv, EndPrefix, TypeOK, pageVars, shiftVars, sortVars
<1>3. left_bound' = left_bound /\ right_bound' = right_bound /\ \A s : BeforePivot(s)' <=> BeforePivot(s)
  BY DEF EndPrefix, left_bound, right_bound, BeforePivot, partition_ptr, pageVars, sortVars
<1>4. Partitioned'
  BY <1>3 DEF SortInv, EndPrefix, Partitioned, partition_ptr, sortVars
<1> QED BY <1>1, <1>2, <1>4 DEF SortInv

LEMMA SkipNotBeforeInv == SortInv /\ SkipNotBefore => SortInv'
<1> SUFFICES ASSUME SortInv, SkipNotBefore
             PROVE  SortInv'
  OBVIOUS
<1>1. Counted' /\ RecordsKept' /\ Shifting' /\ Shifted' /\ Ranges' /\ Ordered'
  BY SortKept DEF SkipNotBefore, InSort
<1>2. /\ left_bound \in Nat /\ right_bound \in Nat /\ num_tuples \in Nat
      /\ right_bound <= num_tuples /\ num_tuples <= MaxCapacity
  BY InRange DEF SkipNotBefore, InSort, SortInv, Partitioned
<1>3. /\ calls # <<>> /\ left_bound <= gt_ptr /\ gt_ptr <= lt_ptr /\ gt_ptr \in Nat /\ lt_ptr \in Nat
      /\ \A s \in left_bound .. gt_ptr - 1 : BeforePivot(s)
      /\ \A s \in gt_ptr .. lt_ptr - 1 : ~BeforePivot(s)
  BY SortAssumption DEF SortInv, SkipNotBefore, Partitioned, TypeOK
<1>4. lt_ptr < right_bound - 1 /\ ~BeforePivot(lt_ptr)
  BY DEF SkipNotBefore, partition_ptr
<1>5. TypeOK'
  BY <1>2, <1>3, <1>4, SortAssumption DEF SortInv, SkipNotBefore, TypeOK, pageVars, shiftVars
<1>6. left_bound' = left_bound /\ right_bound' = right_bound /\ \A s : BeforePivot(s)' <=> BeforePivot(s)
  BY DEF SkipNotBefore, left_bound, right_bound, BeforePivot, partition_ptr, pageVars
<1>7. \A s \in gt_ptr .. lt_ptr' - 1 : ~BeforePivot(s)
  BY <1>2, <1>3, <1>4 DEF SkipNotBefore
<1>8. Partitioned'
  BY <1>2, <1>3, <1>4, <1>6, <1>7 DEF SkipNotBefore, Partitioned, partition_ptr
<1> QED BY <1>1, <1>5, <1>8 DEF SortInv

LEMMA ReturnInv == SortInv /\ Return => SortInv'
<1> SUFFICES ASSUME SortInv, Return
             PROVE  SortInv'
  OBVIOUS
<1>1. Counted' /\ RecordsKept' /\ Live' = Live
  BY PageKept DEF SortInv, Return
<1>2. TypeOK'
  BY DEF SortInv, Return, TypeOK, pageVars, shiftVars, sortVars
<1>3. Shifted' /\ Ranges'
  BY <1>1 DEF SortInv, Return, Shifted, Ranges, InSort, pageVars, sortVars
<1>4. Ordered'
  BY DEF SortInv, Return, Ordered, Together, InSort, pageVars, sortVars
<1> QED BY <1>1, <1>2, <1>3, <1>4 DEF SortInv, Return, Shifting, InShift, Partitioned

LEMMA SwapBeforeInv == SortInv /\ SwapBefore => SortInv'
<1> SUFFICES ASSUME SortInv, SwapBefore
             PROVE  SortInv'
  OBVIOUS
<1>0. InSort /\ calls # <<>> /\ calls' = calls /\ UNCHANGED <<num_tuples, capacity, original>>
  BY DEF SortInv, SwapBefore, InSort, Partitioned
<1>1. /\ left_bound \in Nat /\ right_bound \in Nat /\ num_tuples \in Nat
      /\ right_bound <= num_tuples /\ num_tuples <= MaxCapacity
  BY <1>0, InRange
<1>2. /\ left_bound <= gt_ptr /\ gt_ptr <= lt_ptr /\ gt_ptr \in Nat /\ lt_ptr \in Nat
      /\ \A s \in left_bound .. gt_ptr - 1 : BeforePivot(s)
      /\ \A s \in gt_ptr .. lt_ptr - 1 : ~BeforePivot(s)
  BY SortAssumption DEF SortInv, SwapBefore, Partitioned, TypeOK
<1>3. lt_ptr < right_bound - 1 /\ BeforePivot(lt_ptr)
  BY DEF SwapBefore, partition_ptr
<1>4. Live = 0 .. num_tuples - 1
  BY <1>0 DEF SortInv, Shifted
<1>5. lt_ptr \in Live /\ gt_ptr \in Live /\ right_bound - 1 \in Live \ {lt_ptr, gt_ptr}
  BY <1>1, <1>2, <1>3, <1>4
<1>6. SwapSlots(lt_ptr, gt_ptr)
  BY DEF SwapBefore
<1>7. /\ is_deleted' = is_deleted /\ Live' = Live
      /\ record' \in [Slots -> Records \cup {None}]
      /\ record'[lt_ptr] = record[gt_ptr] /\ record'[gt_ptr] = record[lt_ptr]
      /\ \A u \in Live \ {lt_ptr, gt_ptr} : record'[u] = record[u]
      /\ RecordsKept'
  BY <1>0, <1>5, <1>6, SwapInFront DEF SortInv
<1>8. TypeOK'
  BY <1>0, <1>1, <1>2, <1>3, <1>7, SortAssumption DEF SortInv, SwapBefore, TypeOK, shiftVars
<1>9. Counted' /\ Shifted' /\ Ranges' /\ Shifting'
  BY <1>0, <1>7 DEF SortInv, SwapBefore, Counted, Shifted, Ranges, InSort, Shifting, InShift
<1>10. Ordered'
  <2> SUFFICES ASSUME NEW x \in 0 .. num_tuples - 1, NEW y \in 0 .. num_tuples - 1, x < y, ~Together(x, y)
               PROVE  Key[record'[x]] <= Key[record'[y]]
    BY <1>0 DEF Ordered, Together
  <2>1. lt_ptr \in left_bound .. right_bound - 1 /\ gt_ptr \in left_bound .. right_bound - 1
    BY <1>1, <1>2, <1>3
  <2> QED BY <1>0, <1>6, <2>1, SwapOrdered DEF SortInv
<1>11. Partitioned'
  <2>1. left_bound' = left_bound /\ right_bound' = right_bound
    BY <1>0 DEF left_bound, right_bound
  <2>2. record'[right_bound - 1] = record[right_bound - 1]
    BY <1>5, <1>7
  <2>3. \A s : BeforePivot(s)' <=> Key[record'[s]] < Key[record[right_bound - 1]]
    BY <2>1, <2>2 DEF BeforePivot, partition_ptr
  <2>4. \A s : BeforePivot(s) <=> Key[record[s]] < Key[record[right_bound - 1]]
    BY DEF BeforePivot, partition_ptr
  <2>5. ASSUME NEW s \in left_bound .. gt_ptr
        PROVE  BeforePivot(s)'
    <3>1. CASE s = gt_ptr
      BY <1>3, <1>7, <2>3, <2>4, <3>1
    <3>2. CASE s # gt_ptr
      <4>1. s \in left_bound .. gt_ptr - 1 /\ s \in Live \ {lt_ptr, gt_ptr}
        BY <1>1, <1>2, <1>3, <1>4, <3>2
      <4> QED BY <1>2, <1>7, <2>3, <2>4, <4>1
    <3> QED BY <3>1, <3>2
  <2>6. ASSUME NEW s \in gt_ptr + 1 .. lt_ptr
        PROVE  ~BeforePivot(s)'
    <3>1. CASE s = lt_ptr
      <4>1. gt_ptr \in gt_ptr .. lt_ptr - 1
        BY <1>2, <3>1
      <4> QED BY <1>2, <1>7, <2>3, <2>4, <3>1, <4>1
    <3>2. CASE s # lt_ptr
      <4>1. s \in gt_ptr .. lt_ptr - 1 /\ s \in Live \ {lt_ptr, gt_ptr}
        BY <1>1, <1>2, <1>3, <1>4, <3>2
      <4> QED BY <1>2, <1>7, <2>3, <2>4, <4>1
    <3> QED BY <3>1, <3>2
  <2>7. gt_ptr' = gt_ptr + 1 /\ lt_ptr' = lt_ptr + 1 /\ pc' = "partition" /\ calls' # <<>>
    BY <1>0 DEF SwapBefore
  <2>8. \A s \in left_bound' .. gt_ptr' - 1 : BeforePivot(s)'
    BY <1>2, <2>1, <2>5, <2>7
  <2>9. \A s \in gt_ptr' .. lt_ptr' - 1 : ~BeforePivot(s)'
    BY <1>2, <2>6, <2>7
  <2>10. left_bound' <= gt_ptr' /\ gt_ptr' <= lt_ptr' /\ lt_ptr' <= partition_ptr'
    BY <1>1, <1>2, <1>3, <2>1, <2>7 DEF partition_ptr
  <2> QED BY <2>7, <2>8, <2>9, <2>10 DEF Partitioned
<1> QED BY <1>7, <1>8, <1>9, <1>10, <1>11 DEF SortInv

LEMMA PlacePivotInv == SortInv /\ PlacePivot => SortInv'
<1> SUFFICES ASSUME SortInv, PlacePivot
             PROVE  SortInv'
  OBVIOUS
<1> DEFINE last == right_bound - 1
<1>0. InSort /\ calls # <<>> /\ UNCHANGED <<num_tuples, capacity, original>>
  BY DEF SortInv, PlacePivot, InSort, Partitioned
<1>1. /\ left_bound \in Nat /\ right_bound \in Nat /\ num_tuples \in Nat
      /\ right_bound <= num_tuples /\ num_tuples <= MaxCapacity
  BY <1>0, InRange
<1>2. /\ left_bound <= gt_ptr /\ gt_ptr <= lt_ptr /\ lt_ptr = last /\ gt_ptr \in Nat /\ lt_ptr \in Nat
      /\ \A s \in left_bound .. gt_ptr - 1 : BeforePivot(s)
      /\ \A s \in gt_ptr .. lt_ptr - 1 : ~BeforePivot(s)
  BY <1>1, SortAssumption DEF SortInv, PlacePivot, Partitioned, TypeOK, partition_ptr
<1>3. Live = 0 .. num_tuples - 1
  BY <1>0 DEF SortInv, Shifted
<1>4. last \in Live /\ gt_ptr \in Live
  BY <1>1, <1>2, <1>3
<1>5. SwapSlots(gt_ptr, last)
  BY DEF PlacePivot, partition_ptr
<1>6. /\ is_deleted' = is_deleted /\ Live' = Live
      /\ record' \in [Slots -> Records \cup {None}]
      /\ record'[gt_ptr] = record[last] /\ record'[last] = record[gt_ptr]
      /\ \A u \in Live \ {gt_ptr, last} : record'[u] = record[u]
      /\ RecordsKept'
  BY <1>0, <1>4, <1>5, SwapInFront DEF SortInv
<1> DEFINE a == <<left_bound, gt_ptr>>
           b == <<gt_ptr + 1, right_bound>>
<1>7. /\ a \in Bounds /\ a[1] = left_bound /\ a[2] = gt_ptr
      /\ b \in Bounds /\ b[1] = gt_ptr + 1 /\ b[2] = right_bound
  BY <1>1, <1>2, SortAssumption DEF Bounds
<1>8. calls' = <<a, b>> \o Tail(calls) /\ pc' = "call"
  BY DEF PlacePivot
<1> HIDE DEF a, b
<1>9. /\ calls' \in Seq(Bounds) /\ DOMAIN calls' = 1 .. Len(calls) + 1
      /\ calls'[1] = a /\ calls'[2] = b
      /\ \A i \in DOMAIN calls' : i > 2 => i - 1 \in DOMAIN calls /\ calls'[i] = calls[i - 1]
  BY <1>0, <1>7, <1>8, AfterSplit DEF SortInv
<1>10. Len(calls) \in Nat /\ DOMAIN calls = 1 .. Len(calls)
  BY CallsShape DEF SortInv
<1>11. 1 \in DOMAIN calls /\ calls[1][1] = left_bound /\ calls[1][2] = right_bound
  BY <1>0, CurrentCall DEF SortInv
<1>12. TypeOK'
  BY <1>0, <1>6, <1>8, <1>9 DEF SortInv, PlacePivot, TypeOK, Bounds, shiftVars
<1>13. Counted' /\ Shifted' /\ Shifting'
  BY <1>0, <1>6, <1>8 DEF SortInv, Counted, Shifted, InSort, Shifting, InShift
<1>14. Ranges'
  <2>1. ASSUME NEW i \in DOMAIN calls'
        PROVE  calls'[i][1] <= calls'[i][2] /\ calls'[i][2] <= num_tuples
    <3>1. CASE i <= 2
      BY <1>1, <1>2, <1>7, <1>9, <3>1
    <3>2. CASE i > 2
      BY <1>0, <1>9, <3>2 DEF SortInv, Ranges
    <3> QED BY <1>9, <3>1, <3>2
  <2>2. ASSUME NEW i \in DOMAIN calls', NEW j \in DOMAIN calls', i < j
        PROVE  calls'[i][2] <= calls'[j][1]
    <3>1. CASE i = 1 /\ j = 2
      BY <1>2, <1>7, <1>9, <3>1
    <3>2. CASE i <= 2 /\ j > 2
      <4>1. j - 1 \in DOMAIN calls /\ j - 1 > 1 /\ calls'[j] = calls[j - 1]
        BY <1>9, <3>2
      <4>2. right_bound <= calls'[j][1] /\ calls'[j][1] \in Int
        BY <1>0, <1>11, <4>1, CallsShape DEF SortInv, Ranges
      <4>3. calls'[i][2] = gt_ptr \/ calls'[i][2] = right_bound
        BY <1>7, <1>9, <3>2
      <4> QED BY <1>1, <1>2, <4>2, <4>3
    <3>3. CASE i > 2
      <4>1. i - 1 \in DOMAIN calls /\ j - 1 \in DOMAIN calls /\ i - 1 < j - 1
        BY <1>9, <2>2, <3>3
      <4>2. calls'[i] = calls[i - 1] /\ calls'[j] = calls[j - 1]
        BY <1>9, <2>2, <3>3
      <4> QED BY <1>0, <4>1, <4>2 DEF SortInv, Ranges
    <3> QED BY <1>9, <2>2, <3>1, <3>2, <3>3
  <2> QED BY <1>0, <1>8, <2>1, <2>2 DEF Ranges
<1>15. Ordered'
  <2> SUFFICES ASSUME NEW x \in 0 .. num_tuples - 1, NEW y \in 0 .. num_tuples - 1, x < y, ~Together(x, y)'
               PROVE  Key[record'[x]] <= Key[record'[y]]
    BY <1>0 DEF Ordered
  <2>1. gt_ptr \in left_bound .. right_bound - 1 /\ last \in left_bound .. right_bound - 1
    BY <1>1, <1>2
  <2>2. CASE ~Together(x, y)
    BY <1>0, <1>5, <2>1, <2>2, SwapOrdered DEF SortInv
  <2>3. CASE Together(x, y)
    <3>1. PICK i \in DOMAIN calls : calls[i][1] <= x /\ y < calls[i][2]
      BY <2>3 DEF Together
    <3>2. i = 1
      <4> SUFFICES ASSUME i # 1
                   PROVE  FALSE
        OBVIOUS
      <4>1. i + 1 \in DOMAIN calls' /\ i + 1 > 2 /\ i + 1 - 1 = i
        BY <1>9, <1>10
      <4>2. calls'[i + 1] = calls[i]
        BY <1>9, <4>1
      <4> QED BY <3>1, <4>1, <4>2 DEF Together
    <3>3. left_bound <= x /\ y < right_bound
      BY <1>11, <3>1, <3>2
    <3>4. 1 \in DOMAIN calls' /\ 2 \in DOMAIN calls'
      BY <1>9, <1>10, <1>11
    <3>5. ~(y < gt_ptr) /\ ~(gt_ptr + 1 <= x)
      BY <1>7, <1>9, <3>3, <3>4 DEF Together
    <3>6. x <= gt_ptr /\ gt_ptr <= y
      BY <1>2, <3>5
    <3> DEFINE pivot == Key[record[last]]
    <3>7. pivot \in Int /\ \A s \in Live : Key[record[s]] \in Int
      BY <1>4, LiveRecords DEF SortInv
    <3>8. \A s : BeforePivot(s) <=> Key[record[s]] < pivot
      BY DEF BeforePivot, partition_ptr
    <3>9. Key[record'[x]] <= pivot /\ Key[record'[x]] \in Int
      <4>1. CASE x = gt_ptr
        BY <1>6, <3>7, <4>1
      <4>2. CASE x # gt_ptr
        <5>1. x \in left_bound .. gt_ptr - 1 /\ x \in Live \ {gt_ptr, last}
          BY <1>1, <1>2, <1>3, <3>3, <3>6, <4>2
        <5>2. BeforePivot(x) /\ record'[x] = record[x]
          BY <1>2, <1>6, <5>1
        <5> QED BY <3>7, <3>8, <5>1, <5>2
      <4> QED BY <4>1, <4>2
    <3>10. pivot <= Key[record'[y]] /\ Key[record'[y]] \in Int
      <4>1. CASE y = gt_ptr
        BY <1>6, <3>7, <4>1
      <4>2. CASE y # gt_ptr /\ y = last
        <5>1. gt_ptr \in gt_ptr .. lt_ptr - 1
          BY <1>1, <1>2, <4>2
        <5>2. ~BeforePivot(gt_ptr) /\ record'[y] = record[gt_ptr]
          BY <1>2, <1>6, <4>2, <5>1
        <5> QED BY <1>4, <3>7, <3>8, <5>2
      <4>3. CASE y # gt_ptr /\ y # last
        <5>1. y \in gt_ptr .. lt_ptr - 1 /\ y \in Live \ {gt_ptr, last}
          BY <1>1, <1>2, <1>3, <3>3, <3>6, <4>3
        <5>2. ~BeforePivot(y) /\ record'[y] = record[y]
          BY <1>2, <1>6, <5>1
        <5> QED BY <3>7, <3>8, <5>1, <5>2
      <4> QED BY <4>1, <4>2, <4>3
    <3> HIDE DEF pivot
    <3> QED BY <3>7, <3>9, <3>10
  <2> QED BY <2>2, <2>3
<1> QED BY <1>6, <1>8, <1>12, <1>13, <1>14, <1>15 DEF SortInv, Partitioned

-----------------------------------------------------------------------------
(* The theorems. *)

LEMMA StepInv == SortInv /\ [Next]_vars => SortInv'
<1>1. ASSUME SortInv, UNCHANGED vars
      PROVE  SortInv'
  <2> USE <1>1 DEF SortInv, vars, pageVars, shiftVars, sortVars
  <2>1. Counted' /\ RecordsKept' /\ Live' = Live
    BY PageKept
  <2>2. TypeOK'
    BY DEF TypeOK
  <2>3. Shifting' /\ Shifted'
    BY <2>1 DEF Shifting, InShift, Shifted, InSort
  <2>4. Ranges' /\ Ordered'
    BY DEF Ranges, Ordered, Together, InSort
  <2>5. Partitioned'
    BY DEF Partitioned, left_bound, right_bound, partition_ptr, BeforePivot
  <2> QED BY <2>1, <2>2, <2>3, <2>4, <2>5
<1> QED BY <1>1, SkipLiveInv, EndSkipInv, FindLiveInv, MoveSlotInv, EndShiftInv, ReturnAtOnceInv,
           BeginPartitionInv, SkipPrefixInv, EndPrefixInv, SkipNotBeforeInv, SwapBeforeInv,
           PlacePivotInv, ReturnInv DEF Next, Step, Done

LEMMA Inductive == Spec => []SortInv
<1>1. Init => SortInv
  BY InitInv
<1>2. SortInv /\ [Next]_vars => SortInv'
  BY StepInv
<1> QED BY <1>1, <1>2, PTL DEF Spec

\* The variables of SortPageInPlace and ShiftSlotsLeft keep their types on pages of
\* any size: no pointer leaves 0 .. MaxCapacity.
THEOREM SortTypes == Spec => []TypeOK
<1>1. SortInv => TypeOK
  BY DEF SortInv
<1> QED BY <1>1, Inductive, PTL

\* Whatever the page, at every step of ShiftSlotsLeft and SortPageInPlace each record
\* belongs to exactly one live slot.
THEOREM SortKeepsRecords == Spec => []RecordsKept
<1>1. SortInv => RecordsKept
  BY DEF SortInv
<1> QED BY <1>1, Inductive, PTL

\* ShiftSlotsLeft reads no slot behind the directory and the partition none outside
\* the bounds of its call.
THEOREM SortStaysInBounds == Spec => []PointersInBounds
<1>1. SortInv => PointersInBounds
  <2> SUFFICES ASSUME SortInv
               PROVE  PointersInBounds
    OBVIOUS
  <2>1. pc = "shift" /\ deleted_ptr < num_tuples => ptr < capacity
    BY LiveLeft DEF SortInv
  <2>2. pc \in {"prefix", "partition"} => right_bound <= num_tuples
    BY InRange DEF SortInv, InSort, Partitioned
  <2> QED BY <2>1, <2>2 DEF SortInv, Partitioned, PointersInBounds
<1> QED BY <1>1, Inductive, PTL

\* When SortPageInPlace returns, the live slots are the first ones and in the order of
\* the comparison function.
THEOREM SortSorts == Spec => []SortedAtEnd
<1>1. SortInv => SortedAtEnd
  <2> SUFFICES ASSUME SortInv, pc = "done"
               PROVE  /\ Live = 0 .. num_tuples - 1
                      /\ \A s, t \in Live : s < t => Key[record[s]] <= Key[record[t]]
    BY DEF SortedAtEnd
  <2>1. Live = 0 .. num_tuples - 1
    BY DEF SortInv, Shifted, InSort
  <2>2. DOMAIN calls = {}
    <3>1. calls = <<>>
      BY DEF SortInv, Ranges, InSort
    <3> QED BY <3>1
  <2> QED BY <2>1, <2>2 DEF SortInv, Ordered, Together, InSort
<1> QED BY <1>1, Inductive, PTL
=============================================================================
