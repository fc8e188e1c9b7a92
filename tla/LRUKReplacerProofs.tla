----------------------- MODULE LRUKReplacerProofs -----------------------
(***************************************************************************)
(* The replacer's histories and the victims its scan finds, for every window *)
(* length and number of frames.                                             *)
(***************************************************************************)
EXTENDS LRUKReplacer, SequenceTheorems, FiniteSetTheorems, TLAPS

LInv == TypeOK /\ HistoryIsWindow

\* push_back followed by pop_front: everything moves up by one.
LEMMA PushPop ==
  ASSUME NEW s \in Seq(Nat), NEW ts \in Nat
  PROVE  /\ Tail(Append(s, ts)) \in Seq(Nat)
         /\ Len(Tail(Append(s, ts))) = Len(s)
         /\ \A i \in 1 .. Len(s) :
              Tail(Append(s, ts))[i] = IF i = Len(s) THEN ts ELSE s[i + 1]
<1>0. SUFFICES ASSUME NEW h, h = Append(s, ts)
               PROVE  /\ Tail(h) \in Seq(Nat)
                      /\ Len(Tail(h)) = Len(s)
                      /\ \A i \in 1 .. Len(s) : Tail(h)[i] = IF i = Len(s) THEN ts ELSE s[i + 1]
  OBVIOUS
<1>1. /\ h \in Seq(Nat) /\ Len(h) = Len(s) + 1 /\ h[Len(s) + 1] = ts /\ Len(s) \in Nat
      /\ \A i \in 1 .. Len(s) : h[i] = s[i]
  BY <1>0
<1>2. h # <<>>
  BY <1>1
<1>3. /\ Tail(h) \in Seq(Nat) /\ Len(Tail(h)) = Len(h) - 1
      /\ \A i \in 1 .. Len(Tail(h)) : Tail(h)[i] = h[i + 1]
  BY <1>1, <1>2, HeadTailProperties
<1>4. Len(Tail(h)) = Len(s)
  BY <1>1, <1>3
<1>5. ASSUME NEW i \in 1 .. Len(s) PROVE Tail(h)[i] = IF i = Len(s) THEN ts ELSE s[i + 1]
  <2>1. Tail(h)[i] = h[i + 1]
    BY <1>3, <1>4
  <2>2. CASE i = Len(s)
    BY <1>1, <2>1, <2>2
  <2>3. CASE i # Len(s)
    <3>1. i + 1 \in 1 .. Len(s)
      BY <1>1, <2>3
    <3> QED BY <1>1, <2>1, <2>3, <3>1
  <2> QED BY <2>2, <2>3
<1> QED BY <1>3, <1>4, <1>5

\* What is on record after an access was there before, in the same order, or is
\* the new timestamp, and fits the window.
LEMMA RecordedWindow ==
  ASSUME LInv, NEW f \in Frames
  PROVE  /\ Recorded(f) \in Seq(Nat)
         /\ Len(Recorded(f)) <= k_m
         /\ \A i \in 1 .. Len(Recorded(f)) :
              \/ Recorded(f)[i] = current_timestamp_m
              \/ \E j \in 1 .. Len(history[f]) : Recorded(f)[i] = history[f][j]
         /\ \A i, j \in 1 .. Len(Recorded(f)) : i < j => Recorded(f)[i] < Recorded(f)[j]
<1>0. SUFFICES ASSUME NEW s, s = history[f], NEW ts, ts = current_timestamp_m,
                      NEW n, n = Recorded(f)
               PROVE  /\ n \in Seq(Nat)
                      /\ Len(n) <= k_m
                      /\ \A i \in 1 .. Len(n) : n[i] = ts \/ \E j \in 1 .. Len(s) : n[i] = s[j]
                      /\ \A i, j \in 1 .. Len(n) : i < j => n[i] < n[j]
  OBVIOUS
<1>1. /\ s \in Seq(Nat) /\ ts \in Nat /\ k_m \in Nat /\ Len(s) \in Nat
      /\ Len(s) <= k_m
      /\ \A i \in 1 .. Len(s) : s[i] < ts
      /\ \A i, j \in 1 .. Len(s) : i < j => s[i] < s[j]
  BY <1>0 DEF LInv, TypeOK, HistoryIsWindow
<1>2. Len(Append(s, ts)) = Len(s) + 1
  BY <1>1
<1>3. CASE Len(s) = k_m
  <2>1. n = Tail(Append(s, ts))
    BY <1>0, <1>1, <1>2, <1>3 DEF Recorded
  <2>2. /\ n \in Seq(Nat) /\ Len(n) = Len(s)
        /\ \A i \in 1 .. Len(s) : n[i] = IF i = Len(s) THEN ts ELSE s[i + 1]
    BY <1>1, <2>1, PushPop
  <2>3. \A i \in 1 .. Len(s) : i # Len(s) => i + 1 \in 1 .. Len(s)
    BY <1>1
  <2>4. ASSUME NEW i \in 1 .. Len(n) PROVE n[i] = ts \/ \E j \in 1 .. Len(s) : n[i] = s[j]
    BY <2>2, <2>3
  <2>5. ASSUME NEW i \in 1 .. Len(n), NEW j \in 1 .. Len(n), i < j PROVE n[i] < n[j]
    <3>1. i # Len(s) /\ i \in 1 .. Len(s) /\ i + 1 \in 1 .. Len(s) /\ n[i] = s[i + 1]
      BY <1>1, <2>2, <2>3, <2>5
    <3>2. CASE j = Len(s)
      BY <1>1, <2>2, <3>1, <3>2
    <3>3. CASE j # Len(s)
      <4>1. j + 1 \in 1 .. Len(s) /\ n[j] = s[j + 1] /\ i + 1 < j + 1
        BY <1>1, <2>2, <2>3, <2>5, <3>3
      <4> QED BY <1>1, <3>1, <4>1
    <3> QED BY <3>2, <3>3
  <2> QED BY <1>1, <2>2, <2>4, <2>5
<1>4. CASE Len(s) # k_m
  <2>1. n = Append(s, ts)
    BY <1>0, <1>1, <1>2, <1>4 DEF Recorded
  <2>2. /\ n \in Seq(Nat) /\ Len(n) = Len(s) + 1
        /\ \A i \in 1 .. Len(n) : n[i] = IF i = Len(s) + 1 THEN ts ELSE s[i]
    BY <1>1, <2>1
  <2>3. \A i \in 1 .. Len(n) : i # Len(s) + 1 => i \in 1 .. Len(s)
    BY <1>1, <2>2
  <2>4. ASSUME NEW i \in 1 .. Len(n) PROVE n[i] = ts \/ \E j \in 1 .. Len(s) : n[i] = s[j]
    BY <2>2, <2>3
  <2>5. ASSUME NEW i \in 1 .. Len(n), NEW j \in 1 .. Len(n), i < j PROVE n[i] < n[j]
    <3>1. i \in 1 .. Len(s) /\ n[i] = s[i]
      BY <1>1, <2>2, <2>3, <2>5
    <3>2. CASE j = Len(s) + 1
      BY <1>1, <2>2, <3>1, <3>2
    <3>3. CASE j # Len(s) + 1
      <4>1. j \in 1 .. Len(s) /\ n[j] = s[j]
        BY <2>2, <2>3, <3>3
      <4> QED BY <1>1, <2>5, <3>1, <4>1
    <3> QED BY <3>2, <3>3
  <2>6. Len(n) <= k_m
    BY <1>1, <1>4, <2>2
  <2> QED BY <2>2, <2>4, <2>5, <2>6
<1> QED BY <1>3, <1>4

LEMMA FlagKeepsTypes ==
  ASSUME ReplacerTypeOK, NEW f, NEW b \in BOOLEAN, SetEvictable(f, b)
  PROVE  ReplacerTypeOK'
<1>1. is_evictable' \in [Frames -> BOOLEAN]
  BY DEF SetEvictable, ReplacerTypeOK
<1>2. \A x \in Int : x % SizeMod \in 0 .. SizeMod - 1
  BY ReplacerAssumption
<1>3. evictable_count_m \in Int
  BY ReplacerAssumption DEF ReplacerTypeOK
<1> QED BY <1>1, <1>2, <1>3 DEF SetEvictable, ReplacerTypeOK

LEMMA LInit ==
  Init => LInv
<1> SUFFICES ASSUME Init PROVE LInv
  OBVIOUS
<1>1. Cardinality(Frames) \in Nat
  BY FS_CardinalityType, ReplacerAssumption
<1>2. TypeOK
  BY <1>1, ReplacerAssumption, LRUKAssumption DEF Init, ReplacerInit, TypeOK, ReplacerTypeOK
<1>3. HistoryIsWindow
  BY LRUKAssumption DEF Init, HistoryIsWindow
<1> QED BY <1>2, <1>3 DEF LInv

\* A step that records no access: every history is kept or emptied.
LEMMA KeptOrEmptied ==
  ASSUME LInv, UNCHANGED <<k_m, current_timestamp_m>>,
         history' \in [Frames -> Seq(Nat)],
         \A f \in Frames : history'[f] = history[f] \/ history'[f] = <<>>
  PROVE  HistoryIsWindow'
<1>1. ASSUME NEW f \in Frames
      PROVE  /\ Len(history'[f]) <= k_m'
             /\ \A i \in 1 .. Len(history'[f]) : history'[f][i] < current_timestamp_m'
             /\ \A i, j \in 1 .. Len(history'[f]) : i < j => history'[f][i] < history'[f][j]
  <2>1. CASE history'[f] = <<>>
    BY <2>1 DEF LInv, TypeOK
  <2>2. CASE history'[f] = history[f]
    BY <2>2 DEF LInv, HistoryIsWindow
  <2> QED BY <2>1, <2>2
<1>2. ASSUME NEW f \in Frames, NEW g \in Frames, f # g,
             NEW i \in 1 .. Len(history'[f]), NEW j \in 1 .. Len(history'[g])
      PROVE  history'[f][i] # history'[g][j]
  <2>1. history'[f] # <<>> /\ history'[g] # <<>>
    OBVIOUS
  <2> QED BY <1>2, <2>1 DEF LInv, HistoryIsWindow
<1> QED BY <1>1, <1>2 DEF HistoryIsWindow

LEMMA LRecordAccess ==
  ASSUME LInv, NEW f \in Frames, RecordAccess(f)
  PROVE  LInv'
<1>1. /\ Recorded(f) \in Seq(Nat)
      /\ Len(Recorded(f)) <= k_m
      /\ \A i \in 1 .. Len(Recorded(f)) :
           \/ Recorded(f)[i] = current_timestamp_m
           \/ \E j \in 1 .. Len(history[f]) : Recorded(f)[i] = history[f][j]
      /\ \A i, j \in 1 .. Len(Recorded(f)) : i < j => Recorded(f)[i] < Recorded(f)[j]
  BY RecordedWindow
<1>2. /\ history' \in [Frames -> Seq(Nat)] /\ history'[f] = Recorded(f)
      /\ \A g \in Frames : g # f => history'[g] = history[g]
      /\ k_m' = k_m /\ current_timestamp_m' = current_timestamp_m + 1
      /\ current_timestamp_m \in Nat
  BY <1>1 DEF RecordAccess, LInv, TypeOK
<1> HIDE DEF Recorded
<1>3. TypeOK'
  BY <1>2 DEF RecordAccess, LInv, TypeOK, ReplacerTypeOK, replacerVars
<1>4. \A g \in Frames : history[g] \in Seq(Nat) /\ Len(history[g]) \in Nat
  BY DEF LInv, TypeOK
<1>5. \A g \in Frames : \A i \in 1 .. Len(history[g]) :
        history[g][i] \in Nat /\ history[g][i] < current_timestamp_m
  BY <1>4 DEF LInv, HistoryIsWindow
<1>6. \A i \in 1 .. Len(Recorded(f)) : Recorded(f)[i] \in Nat /\ Recorded(f)[i] <= current_timestamp_m
  BY <1>1, <1>2, <1>5
<1>7. ASSUME NEW g \in Frames
      PROVE  /\ Len(history'[g]) <= k_m'
             /\ \A i \in 1 .. Len(history'[g]) : history'[g][i] < current_timestamp_m'
             /\ \A i, j \in 1 .. Len(history'[g]) : i < j => history'[g][i] < history'[g][j]
  <2>1. CASE g = f
    BY <2>1, <1>1, <1>2, <1>6
  <2>2. CASE g # f
    BY <2>2, <1>2, <1>5 DEF LInv, HistoryIsWindow
  <2> QED BY <2>1, <2>2
\* f's record and another frame's share no timestamp.
<1>8. ASSUME NEW g \in Frames, g # f,
             NEW i \in 1 .. Len(Recorded(f)), NEW j \in 1 .. Len(history[g])
      PROVE  Recorded(f)[i] # history[g][j]
  <2>1. CASE Recorded(f)[i] = current_timestamp_m
    BY <2>1, <1>2, <1>5
  <2>2. CASE \E k \in 1 .. Len(history[f]) : Recorded(f)[i] = history[f][k]
    BY <1>8, <2>2 DEF LInv, HistoryIsWindow
  <2> QED BY <1>1, <2>1, <2>2
<1>9. ASSUME NEW g \in Frames, NEW h \in Frames, g # h,
             NEW i \in 1 .. Len(history'[g]), NEW j \in 1 .. Len(history'[h])
      PROVE  history'[g][i] # history'[h][j]
  <2>1. CASE g = f
    BY <1>2, <1>8, <1>9, <2>1
  <2>2. CASE h = f
    BY <1>2, <1>8, <1>9, <2>2
  <2>3. CASE g # f /\ h # f
    <3>1. history'[g] = history[g] /\ history'[h] = history[h]
      BY <1>2, <2>3
    <3>2. i \in 1 .. Len(history[g]) /\ j \in 1 .. Len(history[h])
      BY <1>9, <3>1
    <3>3. history[g][i] # history[h][j]
      BY <1>9, <3>2 DEF LInv, HistoryIsWindow
    <3> QED BY <3>1, <3>3
  <2> QED BY <2>1, <2>2, <2>3
<1>10. HistoryIsWindow'
  BY <1>7, <1>9 DEF HistoryIsWindow
<1> QED BY <1>3, <1>10 DEF LInv

LEMMA VictimsAreEvictable ==
  Victims \subseteq Evictable /\ Evictable \subseteq Frames
  BY DEF Victims, Evictable

LEMMA LStep ==
  LInv /\ [Next]_vars => LInv'
<1> SUFFICES ASSUME LInv, [Next]_vars PROVE LInv'
  OBVIOUS
<1>1. CASE EvictFrame
  <2>1. /\ history' \in [Frames -> Seq(Nat)]
        /\ \A f \in Frames : history'[f] = history[f] \/ history'[f] = <<>>
    <3>1. CASE history' = history
      BY <3>1 DEF LInv, TypeOK
    <3>2. ASSUME NEW f \in Frames, history' = [history EXCEPT ![f] = <<>>]
          PROVE  /\ history' \in [Frames -> Seq(Nat)]
                 /\ \A g \in Frames : history'[g] = history[g] \/ history'[g] = <<>>
      BY <3>2, EmptySeq DEF LInv, TypeOK
    <3> QED BY <1>1, <3>1, <3>2, VictimsAreEvictable DEF EvictFrame
  <2>2. victim' \in Frames \cup {NoVictim}
    BY <1>1, VictimsAreEvictable DEF EvictFrame
  <2>3. TypeOK'
    BY <1>1, <2>1, <2>2 DEF EvictFrame, LInv, TypeOK, ReplacerTypeOK, replacerVars
  <2> QED BY <1>1, <2>1, <2>3, KeptOrEmptied DEF EvictFrame, LInv
<1>2. ASSUME NEW f \in Frames, RecordAccess(f) PROVE LInv'
  BY <1>2, LRecordAccess
<1>3. ASSUME NEW f \in Frames, NEW b \in BOOLEAN, FlagFrame(f, b) PROVE LInv'
  <2>0. ReplacerTypeOK'
    BY <1>3, FlagKeepsTypes DEF FlagFrame, LInv, TypeOK
  <2>1. TypeOK'
    BY <1>3, <2>0 DEF FlagFrame, LInv, TypeOK
  <2> QED BY <1>3, <2>1, KeptOrEmptied DEF FlagFrame, LInv, TypeOK
<1>4. CASE UNCHANGED vars
  <2>1. TypeOK'
    BY <1>4 DEF vars, replacerVars, LInv, TypeOK, ReplacerTypeOK
  <2> QED BY <1>4, <2>1, KeptOrEmptied DEF vars, LInv, TypeOK
<1> QED BY <1>1, <1>2, <1>3, <1>4 DEF Next

LEMMA LAlways ==
  Spec => []LInv
<1> QED BY LInit, LStep, PTL DEF Spec

-----------------------------------------------------------------------------
\* Flags, count, histories and the clock keep their types, the count within the
\* range of a size_t although it is moved on every call (lru_k_replacer.cpp:76-88).
THEOREM ReplacerTypes == Spec => []TypeOK
<1>1. LInv => TypeOK
  BY DEF LInv
<1> QED BY <1>1, LAlways, PTL

\* For every k_m and any number of frames: a history holds at most k_m accesses,
\* in order, and no two frames share a timestamp, so the comparisons of EvictFrame
\* (lru_k_replacer.cpp:37-52) are defined and never tie.
THEOREM HistoriesAreWindows == Spec => []HistoryIsWindow
<1>1. LInv => HistoryIsWindow
  BY DEF LInv
<1> QED BY <1>1, LAlways, PTL

\* With the k_m = 0 that replacer_m() leaves behind (page_buffer_manager.cpp:18,
\* lru_k_replacer.h:78) no access is ever on record and every evictable frame may
\* be the victim: the buffer pool cannot rely on recency.
THEOREM NoPolicyWithoutWindow == Spec => []NoWindowNoPolicy
<1>1. LInv => NoWindowNoPolicy
  <2> SUFFICES ASSUME LInv, k_m = 0 PROVE Victims = Evictable
    BY DEF NoWindowNoPolicy
  <2>1. \A f \in Frames : history[f] = <<>>
    <3> SUFFICES ASSUME NEW f \in Frames PROVE history[f] = <<>>
      OBVIOUS
    <3>1. history[f] \in Seq(Nat) /\ Len(history[f]) = 0
      BY DEF LInv, TypeOK, HistoryIsWindow
    <3> QED BY <3>1, EmptySeq
  <2> QED BY <2>1 DEF Victims, Evictable
<1> QED BY <1>1, LAlways, PTL

-----------------------------------------------------------------------------
(* The loop of EvictFrame.  What it has found after the frames it has met is   *)
(* what the policy says of these; the library's induction and recursion have   *)
(* operators for parameters, so both are stated here for sets and functions.   *)

LEMMA LeastIndex ==
  ASSUME NEW T \in SUBSET Nat, T # {}
  PROVE  \E n \in T : \A m \in T : n <= m
<1> DEFINE R == OpToRel(<, Nat)
<1>1. IsWellFoundedOn(R, Nat)
  BY NatLessThanWellFounded
<1>2. PICK n \in T : \A m \in T : ~(<<m, n>> \in R)
  <2> HIDE DEF R
  <2> QED BY <1>1, WFMin
<1>3. \A m \in T : ~(m < n)
  BY <1>2 DEF OpToRel
<1> QED BY <1>3

LEMMA ScanInduction ==
  ASSUME NEW n \in Nat, NEW T, 0 \in T, \A i \in 0 .. n : i < n /\ i \in T => i + 1 \in T
  PROVE  \A i \in 0 .. n : i \in T
<1> DEFINE Bad == {i \in 0 .. n : i \notin T}
<1> SUFFICES ASSUME Bad # {} PROVE FALSE
  OBVIOUS
<1>1. PICK i \in Bad : \A j \in Bad : i <= j
  <2>1. Bad \in SUBSET Nat
    OBVIOUS
  <2> HIDE DEF Bad
  <2> QED BY <2>1, LeastIndex
<1>2. i # 0 /\ i - 1 \in 0 .. n /\ i - 1 < n /\ i - 1 + 1 = i
  OBVIOUS
<1>3. i - 1 \in T
  BY <1>1, <1>2
<1> QED BY <1>2, <1>3

ScanStates ==
  [to_remove : Frames \cup {NoVictim}, found_short : BOOLEAN, returned : BOOLEAN]

LEMMA ScanTypes ==
  ASSUME NEW s \in ScanStates, NEW f \in Frames
  PROVE  Scan(s, f) \in ScanStates
<1>1. Short(f) \in BOOLEAN
  BY DEF Short
<1> QED BY <1>1 DEF Scan, ScanStates

\* The states of the loop for the first n frames.
Ran(order, n, run) ==
  /\ run \in [0 .. n -> ScanStates] /\ run[0] = ScanStart
  /\ \A i \in 1 .. n : run[i] = Scan(run[i - 1], order[i])

LEMMA RunExists ==
  ASSUME NEW n \in Nat, NEW order \in [1 .. n -> Frames]
  PROVE  \E run : Ran(order, n, run)
<1> DEFINE T == {m \in 0 .. n : \E run : Ran(order, m, run)}
<1>1. 0 \in T
  <2>1. ScanStart \in ScanStates
    BY DEF ScanStart, ScanStates
  <2>2. Ran(order, 0, [i \in 0 .. 0 |-> ScanStart])
    BY <2>1 DEF Ran
  <2> QED BY <2>2
<1>2. ASSUME NEW m \in 0 .. n, m < n, m \in T PROVE m + 1 \in T
  <2>1. PICK run : Ran(order, m, run)
    BY <1>2
  <2> DEFINE last == Scan(run[m], order[m + 1])
             next == [i \in 0 .. m + 1 |-> IF i = m + 1 THEN last ELSE run[i]]
  <2>2. m \in Nat /\ m + 1 \in 1 .. n /\ run[m] \in ScanStates /\ order[m + 1] \in Frames
    BY <1>2, <2>1 DEF Ran
  <2>3. last \in ScanStates
    BY <2>2, ScanTypes
  <2> HIDE DEF last
  <2>4. next \in [0 .. m + 1 -> ScanStates] /\ next[0] = ScanStart
    BY <2>1, <2>2, <2>3 DEF Ran
  <2>5. ASSUME NEW i \in 1 .. m + 1 PROVE next[i] = Scan(next[i - 1], order[i])
    <3>1. CASE i = m + 1
      <4>1. m \in 0 .. m + 1 /\ m # m + 1 /\ m + 1 \in 0 .. m + 1 /\ i - 1 = m
        BY <3>1, <2>2
      <4>2. next[i - 1] = run[m] /\ next[i] = last
        BY <4>1, <3>1
      <4> HIDE DEF next
      <4> QED BY <3>1, <4>2 DEF last
    <3>2. CASE i # m + 1
      <4>1. i \in 1 .. m /\ i \in 0 .. m + 1 /\ i - 1 \in 0 .. m + 1 /\ i - 1 # m + 1
        BY <3>2, <2>2
      <4>2. next[i - 1] = run[i - 1] /\ next[i] = run[i]
        BY <3>2, <4>1
      <4> HIDE DEF next
      <4> QED BY <2>1, <4>1, <4>2 DEF Ran
    <3> QED BY <3>1, <3>2
  <2>6. Ran(order, m + 1, next)
    <3> HIDE DEF next
    <3> QED BY <2>4, <2>5 DEF Ran
  <2> HIDE DEF next
  <2> QED BY <2>2, <2>6
<1> HIDE DEF T
<1>3. \A i \in 0 .. n : i \in T
  BY <1>1, <1>2, ScanInduction
<1>4. n \in T
  BY <1>3
<1> QED BY <1>4 DEF T

\* The recursion of ScanResult is such a run.
LEMMA ScanRuns ==
  ASSUME NEW n \in Nat, NEW order \in [1 .. n -> Frames]
  PROVE  \E run : Ran(order, n, run) /\ ScanResult(order) = run[n].to_remove
<1> DEFINE Is(f) == f = [i \in 0 .. n |-> IF i = 0 THEN ScanStart ELSE Scan(f[i - 1], order[i])]
           scan == CHOOSE f : Is(f)
<1>1. Len(order) = n
  OBVIOUS
<1>2. ScanResult(order) = scan[n].to_remove
  BY <1>1 DEF ScanResult
<1>3. PICK run : Ran(order, n, run)
  BY RunExists
<1>4. Is(run)
  <2>1. run \in [0 .. n -> ScanStates] /\ run[0] = ScanStart
    BY <1>3 DEF Ran
  <2>2. ASSUME NEW i \in 0 .. n, i # 0 PROVE i \in 1 .. n
    BY <2>2
  <2>3. \A i \in 1 .. n : run[i] = Scan(run[i - 1], order[i])
    BY <1>3 DEF Ran
  <2> QED BY <2>1, <2>2, <2>3
<1>5. Is(scan)
  <2> HIDE DEF Is
  <2> QED BY <1>4
<1> HIDE DEF scan
<1>6. scan[0] = ScanStart /\ \A i \in 1 .. n : scan[i] = Scan(scan[i - 1], order[i])
  <2>1. scan[0] = ScanStart
    BY <1>5
  <2>2. ASSUME NEW i \in 1 .. n PROVE scan[i] = Scan(scan[i - 1], order[i])
    BY <1>5
  <2> QED BY <2>1, <2>2
<1> HIDE DEF Is
<1> DEFINE T == {i \in 0 .. n : scan[i] = run[i]}
<1>7. \A i \in 0 .. n : i \in T
  <2>1. 0 \in T
    BY <1>3, <1>6 DEF Ran
  <2>2. ASSUME NEW i \in 0 .. n, i < n, i \in T PROVE i + 1 \in T
    <3>1. PICK k \in 1 .. n : k = i + 1 /\ k - 1 = i /\ k \in 0 .. n
      BY <2>2
    <3>2. scan[k] = Scan(scan[k - 1], order[k]) /\ run[k] = Scan(run[k - 1], order[k])
      BY <1>3, <1>6 DEF Ran
    <3>3. scan[i] = run[i]
      BY <2>2
    <3> QED BY <3>1, <3>2, <3>3
  <2> HIDE DEF T
  <2> QED BY <2>1, <2>2, ScanInduction
<1>8. scan[n] = run[n]
  BY <1>7
<1> QED BY <1>2, <1>3, <1>8

\* What the loop has found once it has met the evictable frames in seen.
Found(s, seen) ==
  \/ s.returned /\ s.to_remove \in Evictable /\ history[s.to_remove] = <<>>
  \/ /\ ~s.returned /\ seen = {} /\ s.to_remove = NoVictim
  \/ /\ ~s.returned /\ s.to_remove \in seen /\ \A g \in seen : history[g] # <<>>
     /\ s.found_short <=> Short(s.to_remove)
     /\ \A g \in seen : Short(g) => s.found_short /\ Oldest(s.to_remove) <= Oldest(g)
     /\ ~s.found_short => \A g \in seen : Newest(s.to_remove) <= Newest(g)

\* The timestamps EvictFrame compares.
LEMMA EndsOf ==
  ASSUME LInv, NEW f \in Frames, history[f] # <<>>
  PROVE  /\ Oldest(f) \in Nat /\ Newest(f) \in Nat
         /\ \A g \in Frames : history[g] # <<>> /\ f # g =>
              Oldest(f) # Oldest(g) /\ Newest(f) # Newest(g)
<1>1. ASSUME NEW g \in Frames, history[g] # <<>>
      PROVE  /\ Len(history[g]) \in Nat /\ 1 \in 1 .. Len(history[g])
             /\ Len(history[g]) \in 1 .. Len(history[g]) /\ history[g] \in Seq(Nat)
  <2>1. history[g] \in Seq(Nat)
    BY DEF LInv, TypeOK
  <2> QED BY <1>1, <2>1
<1>2. Oldest(f) \in Nat /\ Newest(f) \in Nat
  <2> DEFINE h == history[f]
  <2>1. h \in Seq(Nat) /\ 1 \in 1 .. Len(h) /\ Len(h) \in 1 .. Len(h)
    BY <1>1
  <2> HIDE DEF h
  <2>2. h[1] \in Nat /\ h[Len(h)] \in Nat
    BY <2>1
  <2> QED BY <2>2 DEF Oldest, Newest, h
<1>3. ASSUME NEW g \in Frames, history[g] # <<>>, f # g
      PROVE  Oldest(f) # Oldest(g) /\ Newest(f) # Newest(g)
  BY <1>1, <1>3 DEF LInv, HistoryIsWindow, Oldest, Newest
<1> QED BY <1>2, <1>3

\* One iteration.
LEMMA FoundMore ==
  ASSUME LInv, NEW s \in ScanStates, NEW seen \in SUBSET Evictable, Found(s, seen), NEW f \in Frames
  PROVE  /\ f \in Evictable => Found(Scan(s, f), seen \cup {f})
         /\ f \notin Evictable => Found(Scan(s, f), seen)
<1> DEFINE t == Scan(s, f)
           tr == s.to_remove
<1>0. f \in Evictable <=> is_evictable[f]
  BY DEF Evictable
<1>1. CASE s.returned \/ ~is_evictable[f]
  <2>1. t = s
    BY <1>1 DEF Scan
  <2>2. Found(s, seen \cup {f}) \/ ~s.returned
    BY DEF Found
  <2> QED BY <1>0, <1>1, <2>1, <2>2
<1>2. CASE ~s.returned /\ is_evictable[f] /\ history[f] = <<>>
  <2>1. t = [s EXCEPT !.to_remove = f, !.returned = TRUE]
    BY <1>2 DEF Scan
  <2>2. t.returned /\ t.to_remove = f
    BY <2>1 DEF ScanStates
  <2> HIDE DEF t
  <2>3. Found(t, seen \cup {f})
    BY <1>0, <1>2, <2>2 DEF Found
  <2> QED BY <1>0, <1>2, <2>3 DEF t
<1>3. CASE ~s.returned /\ is_evictable[f] /\ history[f] # <<>> /\ tr = NoVictim
  <2>1. t = [s EXCEPT !.to_remove = f, !.found_short = Short(f)]
    BY <1>3 DEF Scan
  <2>2. ~t.returned /\ t.to_remove = f /\ (t.found_short <=> Short(f))
    BY <1>3, <2>1 DEF ScanStates
  <2>3. seen = {}
    <3>1. seen \subseteq Frames
      BY DEF Evictable
    <3> QED BY <1>3, <3>1, LRUKAssumption DEF Found
  <2>4. Oldest(f) <= Oldest(f) /\ Newest(f) <= Newest(f)
    BY <1>3, EndsOf
  <2> HIDE DEF t
  <2>5. Found(t, seen \cup {f})
    BY <1>3, <2>2, <2>3, <2>4 DEF Found
  <2> QED BY <1>0, <1>3, <2>5 DEF t
<1>4. CASE ~s.returned /\ is_evictable[f] /\ history[f] # <<>> /\ tr # NoVictim
  <2>1. /\ tr \in seen /\ \A g \in seen : history[g] # <<>>
        /\ s.found_short <=> Short(tr)
        /\ \A g \in seen : Short(g) => s.found_short /\ Oldest(tr) <= Oldest(g)
        /\ ~s.found_short => \A g \in seen : Newest(tr) <= Newest(g)
    BY <1>4 DEF Found
  <2>2. \A g \in seen \cup {f} : g \in Frames /\ Oldest(g) \in Nat /\ Newest(g) \in Nat /\ history[g] # <<>>
    <3>1. \A g \in seen \cup {f} : g \in Frames /\ history[g] # <<>>
      BY <1>4, <2>1 DEF Evictable
    <3> QED BY <3>1, EndsOf
  <2>3. CASE Short(f) /\ ~s.found_short
    <3>1. t = [s EXCEPT !.to_remove = f, !.found_short = TRUE]
      BY <1>4, <2>3 DEF Scan
    <3>2. ~t.returned /\ t.to_remove = f /\ t.found_short
      BY <1>4, <3>1 DEF ScanStates
    <3>3. \A g \in seen \cup {f} : Short(g) => Oldest(f) <= Oldest(g)
      BY <2>1, <2>2, <2>3
    <3> HIDE DEF t
    <3>4. Found(t, seen \cup {f})
      BY <2>2, <2>3, <3>2, <3>3 DEF Found
    <3> QED BY <1>0, <1>4, <3>4 DEF t
  <2>4. CASE Short(f) /\ s.found_short
    <3>1. CASE Oldest(f) < Oldest(tr)
      <4>1. t = [s EXCEPT !.to_remove = f]
        BY <1>4, <2>4, <3>1 DEF Scan, ScanStates
      <4>2. ~t.returned /\ t.to_remove = f /\ t.found_short
        BY <1>4, <2>4, <4>1 DEF ScanStates
      <4>3. \A g \in seen \cup {f} : Short(g) => Oldest(f) <= Oldest(g)
        BY <2>1, <2>2, <3>1
      <4> HIDE DEF t
      <4>4. Found(t, seen \cup {f})
        BY <2>2, <2>4, <4>2, <4>3 DEF Found
      <4> QED BY <1>0, <1>4, <4>4 DEF t
    <3>2. CASE ~(Oldest(f) < Oldest(tr))
      <4>1. t = s
        BY <1>4, <2>4, <3>2 DEF Scan, ScanStates
      <4>2. \A g \in seen \cup {f} : Short(g) => Oldest(tr) <= Oldest(g)
        BY <2>1, <2>2, <3>2
      <4>3. Found(s, seen \cup {f})
        BY <1>4, <2>1, <2>2, <2>4, <4>2 DEF Found
      <4> QED BY <1>0, <1>4, <4>1, <4>3
    <3> QED BY <3>1, <3>2
  <2>5. CASE ~Short(f) /\ ~s.found_short
    <3>0. \A g \in seen \cup {f} : ~Short(g)
      BY <2>1, <2>5
    <3>3. Short(f) = s.found_short
      BY <2>5 DEF Short, ScanStates
    <3>1. CASE Newest(f) < Newest(tr)
      <4>1. t = [s EXCEPT !.to_remove = f]
        BY <1>4, <2>5, <3>1, <3>3 DEF Scan
      <4>2. ~t.returned /\ t.to_remove = f /\ ~t.found_short
        BY <1>4, <2>5, <4>1 DEF ScanStates
      <4>3. \A g \in seen \cup {f} : Newest(f) <= Newest(g)
        BY <2>1, <2>2, <2>5, <3>1
      <4> HIDE DEF t
      <4>4. Found(t, seen \cup {f})
        BY <2>2, <3>0, <4>2, <4>3 DEF Found
      <4> QED BY <1>0, <1>4, <4>4 DEF t
    <3>2. CASE ~(Newest(f) < Newest(tr))
      <4>1. t = s
        BY <1>4, <2>5, <3>2 DEF Scan, ScanStates
      <4>2. \A g \in seen \cup {f} : Newest(tr) <= Newest(g)
        BY <2>1, <2>2, <2>5, <3>2
      <4>3. Found(s, seen \cup {f})
        BY <1>4, <2>1, <2>2, <2>5, <3>0, <4>2 DEF Found
      <4> QED BY <1>0, <1>4, <4>1, <4>3
    <3> QED BY <3>1, <3>2
  <2>6. CASE ~Short(f) /\ s.found_short
    <3>1. t = s
      BY <1>4, <2>6 DEF Scan, ScanStates
    <3>2. Found(s, seen \cup {f})
      BY <1>4, <2>1, <2>2, <2>6 DEF Found
    <3> QED BY <1>0, <1>4, <3>1, <3>2
  <2> QED BY <2>3, <2>4, <2>5, <2>6
<1> QED BY <1>1, <1>2, <1>3, <1>4

\* The evictable frames among the first i.
Seen(order, i) == {g \in Evictable : \E j \in 1 .. i : order[j] = g}

LEMMA FoundAll ==
  ASSUME LInv, NEW n \in Nat, NEW order \in [1 .. n -> Frames], NEW run, Ran(order, n, run)
  PROVE  Found(run[n], Seen(order, n))
<1> DEFINE T == {i \in 0 .. n : Found(run[i], Seen(order, i))}
<1>1. 0 \in T
  <2>1. run[0] = ScanStart
    BY DEF Ran
  <2>2. Seen(order, 0) = {}
    BY DEF Seen
  <2>3. ~ScanStart.returned /\ ScanStart.to_remove = NoVictim
    BY DEF ScanStart
  <2>4. Found(ScanStart, {})
    BY <2>3 DEF Found
  <2>5. Found(run[0], Seen(order, 0))
    BY <2>1, <2>2, <2>4
  <2> QED BY <2>5
<1>2. ASSUME NEW i \in 0 .. n, i < n, i \in T PROVE i + 1 \in T
  <2>1. PICK k \in 1 .. n : k = i + 1 /\ k - 1 = i /\ k \in 0 .. n
    BY <1>2
  <2>2. run[k] = Scan(run[i], order[k]) /\ run[i] \in ScanStates
    BY <2>1 DEF Ran
  <2>3. Found(run[i], Seen(order, i)) /\ Seen(order, i) \in SUBSET Evictable
    BY <1>2 DEF Seen
  <2> DEFINE f == order[k]
  <2>4. /\ f \in Evictable => Seen(order, k) = Seen(order, i) \cup {f}
        /\ f \notin Evictable => Seen(order, k) = Seen(order, i)
    <3>1. \A j : j \in 1 .. k <=> j \in 1 .. i \/ j = k
      BY <2>1
    <3> QED BY <3>1 DEF Seen
  <2>5. f \in Frames
    OBVIOUS
  <2> HIDE DEF f
  <2>6. /\ f \in Evictable => Found(Scan(run[i], f), Seen(order, i) \cup {f})
        /\ f \notin Evictable => Found(Scan(run[i], f), Seen(order, i))
    BY <2>2, <2>3, <2>5, FoundMore
  <2>7. Found(run[k], Seen(order, k))
    BY <2>2, <2>4, <2>6 DEF f
  <2> QED BY <2>1, <2>7
<1> HIDE DEF T
<1>3. \A i \in 0 .. n : i \in T
  BY <1>1, <1>2, ScanInduction
<1>4. n \in T
  BY <1>3
<1> QED BY <1>4 DEF T

\* At the end the policy has been followed.
LEMMA FoundVictim ==
  ASSUME NEW s, Found(s, Evictable)
  PROVE  IF Evictable = {} THEN s.to_remove = NoVictim ELSE s.to_remove \in Victims
<1>1. CASE s.returned /\ s.to_remove \in Evictable /\ history[s.to_remove] = <<>>
  BY <1>1 DEF Victims
<1>2. CASE Evictable = {} /\ s.to_remove = NoVictim
  BY <1>2
<1>3. CASE /\ s.to_remove \in Evictable /\ \A g \in Evictable : history[g] # <<>>
           /\ s.found_short <=> Short(s.to_remove)
           /\ \A g \in Evictable : Short(g) => s.found_short /\ Oldest(s.to_remove) <= Oldest(g)
           /\ ~s.found_short => \A g \in Evictable : Newest(s.to_remove) <= Newest(g)
  <2>1. CASE s.found_short
    BY <1>3, <2>1 DEF Victims
  <2>2. CASE ~s.found_short
    BY <1>3, <2>2 DEF Victims
  <2> QED BY <2>1, <2>2
<1> QED BY <1>1, <1>2, <1>3 DEF Found

\* Every frame is met.
LEMMA OrderMeetsAll ==
  ASSUME NEW order \in Orders
  PROVE  /\ Cardinality(Frames) \in Nat /\ order \in [1 .. Cardinality(Frames) -> Frames]
         /\ \A f \in Frames : \E j \in 1 .. Cardinality(Frames) : order[j] = f
<1> DEFINE n == Cardinality(Frames)
<1>1. n \in Nat /\ IsFiniteSet(Frames)
  BY ReplacerAssumption, FS_CardinalityType
<1>2. order \in [1 .. n -> Frames] /\ \A i, j \in 1 .. n : order[i] = order[j] => i = j
  BY DEF Orders
<1>3. order \in Injection(1 .. n, Frames)
  <2> HIDE DEF n
  <2> QED BY <1>2 DEF Injection, IsInjective
<1>4. Cardinality(1 .. n) = n
  <2> HIDE DEF n
  <2> QED BY <1>1, FS_Interval
<1>5. order \in Surjection(1 .. n, Frames)
  <2>1. Cardinality(1 .. n) = Cardinality(Frames)
    BY <1>4
  <2> HIDE DEF n
  <2> QED BY <1>1, <1>3, <2>1, FS_Injection
<1> QED BY <1>1, <1>2, <1>5 DEF Surjection

\* Any frame may come first.
LEMMA OrderWith ==
  ASSUME NEW f \in Frames
  PROVE  \E order \in Orders : 1 \in 1 .. Cardinality(Frames) /\ order[1] = f
<1> DEFINE n == Cardinality(Frames)
<1>1. n \in Nat /\ ExistsBijection(1 .. n, Frames)
  BY ReplacerAssumption, FS_CardinalityType
<1> HIDE DEF n
<1>2. PICK p : p \in Bijection(1 .. n, Frames)
  BY <1>1 DEF ExistsBijection
<1>3. /\ p \in [1 .. n -> Frames] /\ \A i, j \in 1 .. n : p[i] = p[j] => i = j
      /\ \E k \in 1 .. n : p[k] = f
  BY <1>2 DEF Bijection, Injection, Surjection, IsInjective
<1>4. PICK k \in 1 .. n : p[k] = f
  BY <1>3
<1>5. 1 \in 1 .. n
  BY <1>1, <1>4
<1> DEFINE order == [i \in 1 .. n |-> IF i = 1 THEN p[k] ELSE IF i = k THEN p[1] ELSE p[i]]
<1>6. order \in [1 .. n -> Frames]
  BY <1>3, <1>4, <1>5
<1>7. ASSUME NEW i \in 1 .. n, NEW j \in 1 .. n, order[i] = order[j] PROVE i = j
  BY <1>3, <1>4, <1>5, <1>7
<1>8. order[1] = f
  BY <1>4, <1>5
<1> HIDE DEF order
<1>9. order \in Orders
  <2>1. DOMAIN order = 1 .. n
    BY <1>6
  <2> QED BY <1>6, <1>7, <2>1 DEF Orders, n
<1> QED BY <1>5, <1>8, <1>9 DEF n

LEMMA OrderExists == Orders # {}
<1>1. CASE Frames # {}
  BY <1>1, OrderWith
<1>2. CASE Frames = {}
  <2> DEFINE n == Cardinality(Frames)
             order == [i \in 1 .. n |-> NoVictim]
  <2>1. n = 0
    BY <1>2, FS_EmptySet
  <2>2. 1 .. n = {}
    BY <2>1
  <2> HIDE DEF n
  <2>3. order \in [1 .. n -> Frames] /\ DOMAIN order = 1 .. n
    BY <2>2
  <2> HIDE DEF order
  <2>4. order \in Orders
    BY <2>2, <2>3 DEF Orders, n
  <2> QED BY <2>4
<1> QED BY <1>1, <1>2

\* What any order comes to.
LEMMA ScanFinds ==
  ASSUME LInv, NEW order \in Orders
  PROVE  IF Evictable = {} THEN ScanResult(order) = NoVictim ELSE ScanResult(order) \in Victims
<1> DEFINE n == Cardinality(Frames)
<1>1. /\ n \in Nat /\ order \in [1 .. n -> Frames]
      /\ \A f \in Frames : \E j \in 1 .. n : order[j] = f
  BY OrderMeetsAll
<1> HIDE DEF n
<1>2. PICK run : Ran(order, n, run) /\ ScanResult(order) = run[n].to_remove
  BY <1>1, ScanRuns
<1>3. Seen(order, n) = Evictable
  BY <1>1 DEF Seen, Evictable
<1>4. Found(run[n], Evictable)
  <2>1. Found(run[n], Seen(order, n))
    BY <1>1, <1>2, FoundAll
  <2> QED BY <1>3, <2>1
<1> QED BY <1>2, <1>4, FoundVictim

\* A frame without any history is returned as soon as it is met.
LEMMA ScanReturns ==
  ASSUME NEW order \in Orders, 1 \in 1 .. Cardinality(Frames),
         order[1] \in Evictable, history[order[1]] = <<>>
  PROVE  ScanResult(order) = order[1]
<1> DEFINE n == Cardinality(Frames)
           f == order[1]
<1>1. n \in Nat /\ order \in [1 .. n -> Frames] /\ 1 \in 1 .. n
  BY OrderMeetsAll
<1> HIDE DEF n
<1>2. PICK run : Ran(order, n, run) /\ ScanResult(order) = run[n].to_remove
  BY <1>1, ScanRuns
<1> DEFINE Is(s) == s.returned /\ s.to_remove = f
           T == {i \in 0 .. n : i # 0 => Is(run[i])}
<1>3. Is(run[1])
  <2>1. run[1] = Scan(ScanStart, f)
    BY <1>1, <1>2 DEF Ran
  <2>2. Scan(ScanStart, f) = [ScanStart EXCEPT !.to_remove = f, !.returned = TRUE]
    BY DEF Scan, ScanStart, Evictable
  <2>3. Is(Scan(ScanStart, f))
    BY <2>2 DEF ScanStart
  <2> QED BY <2>1, <2>3
<1>4. 0 \in T
  BY <1>1
<1>5. ASSUME NEW i \in 0 .. n, i < n, i \in T PROVE i + 1 \in T
  <2>1. PICK k \in 1 .. n : k = i + 1 /\ k - 1 = i /\ k \in 0 .. n
    BY <1>1, <1>5
  <2>2. CASE i = 0
    BY <1>3, <2>1, <2>2
  <2>3. CASE i # 0
    <3>1. run[k] = Scan(run[i], order[k])
      BY <1>2, <2>1 DEF Ran
    <3>2. Is(run[i])
      BY <1>5, <2>3
    <3>3. Scan(run[i], order[k]) = run[i]
      BY <3>2 DEF Scan
    <3>4. Is(run[k])
      BY <3>1, <3>2, <3>3
    <3> HIDE DEF Is
    <3> QED BY <2>1, <3>4
  <2> QED BY <2>2, <2>3
<1>6. n \in T
  <2> HIDE DEF T
  <2>1. \A i \in 0 .. n : i \in T
    BY <1>1, <1>4, <1>5, ScanInduction
  <2> QED BY <1>1, <2>1
<1>7. Is(run[n])
  BY <1>1, <1>6
<1> QED BY <1>2, <1>7

\* Among frames with a history the policy leaves no choice.
LEMMA VictimAlone ==
  ASSUME LInv, \A f \in Evictable : history[f] # <<>>, NEW v \in Victims, NEW w \in Victims
  PROVE  v = w
<1>1. \A f \in Evictable : f \in Frames
  BY DEF Evictable
<1> DEFINE short == {f \in Evictable : Short(f)}
<1>2. CASE short # {}
  <2>1. v \in short /\ w \in short /\ Oldest(v) <= Oldest(w) /\ Oldest(w) <= Oldest(v)
    BY <1>2 DEF Victims
  <2>2. Oldest(v) \in Nat /\ Oldest(w) \in Nat /\ (v # w => Oldest(v) # Oldest(w))
    BY <1>1, <2>1, EndsOf
  <2> QED BY <2>1, <2>2
<1>3. CASE short = {}
  <2>1. v \in Evictable /\ w \in Evictable /\ Newest(v) <= Newest(w) /\ Newest(w) <= Newest(v)
    BY <1>3 DEF Victims
  <2>2. Newest(v) \in Nat /\ Newest(w) \in Nat /\ (v # w => Newest(v) # Newest(w))
    BY <1>1, <2>1, EndsOf
  <2> QED BY <2>1, <2>2
<1> QED BY <1>2, <1>3

\* EvictFrame's comparisons and the header's policy, where a history has no more than
\* one access or the first rule applies.
LEMMA VictimsDocumented ==
  ASSUME LInv, ~KthAccessDecides
  PROVE  Victims = Documented
<1> DEFINE short == {f \in Evictable : Short(f)}
<1>1. CASE \E f \in Evictable : history[f] = <<>>
  BY <1>1 DEF Victims, Documented
<1>2. CASE (\A f \in Evictable : history[f] # <<>>) /\ short # {}
  BY <1>2 DEF Victims, Documented
<1>3. CASE (\A f \in Evictable : history[f] # <<>>) /\ short = {}
  <2>1. k_m <= 1 /\ k_m \in Nat
    BY <1>3 DEF KthAccessDecides, LInv, TypeOK
  <2>2. ASSUME NEW f \in Evictable PROVE Newest(f) = Oldest(f)
    <3>1. f \in Frames /\ history[f] \in Seq(Nat) /\ history[f] # <<>> /\ Len(history[f]) <= k_m
      BY <1>3 DEF Evictable, LInv, TypeOK, HistoryIsWindow
    <3>2. Len(history[f]) \in Nat /\ Len(history[f]) # 0
      BY <3>1, EmptySeq
    <3>3. Len(history[f]) = 1
      <4>1. \A n \in Nat : n # 0 /\ n <= k_m => n = 1
        BY <2>1
      <4> QED BY <3>1, <3>2, <4>1
    <3> QED BY <3>3 DEF Newest, Oldest
  <2>3. Victims = {f \in Evictable : \A g \in Evictable : Newest(f) <= Newest(g)}
    BY <1>3 DEF Victims
  <2>4. Documented = {f \in Evictable : \A g \in Evictable : Oldest(f) <= Oldest(g)}
    BY <1>3 DEF Documented
  <2> QED BY <2>2, <2>3, <2>4
<1> QED BY <1>1, <1>2, <1>3

\* For every k_m and any number of frames: whatever order the unordered_map iterates in,
\* the one pass of EvictFrame with its two variables (lru_k_replacer.cpp:24-53) finds a
\* frame its comparisons select, none only if no frame is evictable; every such frame is
\* what some order finds; and unless all evictable frames have k_m >= 2 accesses these
\* are the frames the policy of lru_k_replacer.h:23-26 names.  It takes that no two
\* histories tie.
THEOREM ScanFollowsPolicy == Spec => []ScanFindsVictims
<1>1. LInv => ScanFindsVictims
  <2> SUFFICES ASSUME LInv PROVE ScanFindsVictims
    OBVIOUS
  <2> DEFINE results == {ScanResult(order) : order \in Orders}
  <2>1. CASE Evictable = {}
    <3>1. \A order \in Orders : ScanResult(order) = NoVictim
      BY <2>1, ScanFinds
    <3>2. results = {NoVictim}
      BY <3>1, OrderExists
    <3> QED BY <2>1, <3>2 DEF ScanFindsVictims
  <2>2. CASE Evictable # {}
    <3>1. \A order \in Orders : ScanResult(order) \in Victims
      BY <2>2, ScanFinds
    <3>2. ASSUME NEW v \in Victims PROVE \E order \in Orders : ScanResult(order) = v
      <4>1. v \in Frames /\ v \in Evictable
        BY VictimsAreEvictable
      <4>2. PICK order \in Orders : 1 \in 1 .. Cardinality(Frames) /\ order[1] = v
        BY <4>1, OrderWith
      <4>3. CASE \E f \in Evictable : history[f] = <<>>
        <5>1. history[v] = <<>>
          BY <4>3 DEF Victims
        <5> QED BY <4>1, <4>2, <5>1, ScanReturns
      <4>4. CASE \A f \in Evictable : history[f] # <<>>
        <5>1. ScanResult(order) \in Victims
          BY <3>1
        <5> QED BY <4>4, <5>1, VictimAlone
      <4> QED BY <4>3, <4>4
    <3>3. results = Victims
      BY <3>1, <3>2
    <3> QED BY <2>2, <3>3, VictimsDocumented DEF ScanFindsVictims
  <2> QED BY <2>1, <2>2
<1> QED BY <1>1, LAlways, PTL
=============================================================================
