---------------------- MODULE SharedSpinlockProofs ----------------------
(***************************************************************************)
(* Mutual exclusion of the frame spinlock for any finite set of threads.    *)
(***************************************************************************)
EXTENDS SharedSpinlock, FiniteSetTheorems, TLAPS

\* The CAS of lock() always compares with 0: the reset in the loop body is what
\* keeps this true after a failed attempt.
LockExpectsZero == \A t \in Threads : pc[t] = "lock" => expected[t] = 0

\* The inductive invariant.  LockCounts alone is not inductive: a CAS of lock()
\* whose expected were the number of readers would overwrite them.
IInv == TypeOK /\ LockCounts /\ LockExpectsZero

\* Type correctness is inductive by itself.
LEMMA TypeCorrect == Spec => []TypeOK
<1>1. Init => TypeOK
  BY DEF Init, TypeOK, PC
<1>2. TypeOK /\ [Next]_vars => TypeOK'
  <2> SUFFICES ASSUME TypeOK, [Next]_vars PROVE TypeOK'
    OBVIOUS
  <2> USE DEF TypeOK, PC, Return
  <2>1. CASE UNCHANGED vars
    BY <2>1 DEF vars
  <2>2. ASSUME NEW t \in Threads, TryLock(t) PROVE TypeOK'
    BY <2>2 DEF TryLock
  <2>3. ASSUME NEW t \in Threads, BeginLock(t) PROVE TypeOK'
    BY <2>3 DEF BeginLock
  <2>4. ASSUME NEW t \in Threads, NEW call \in {"lock_shared", "try_lock_shared"},
               BeginShared(t, call)
        PROVE TypeOK'
    BY <2>4 DEF BeginShared
  <2>5. ASSUME NEW t \in Threads, CasLock(t) PROVE TypeOK'
    BY <2>5 DEF CasLock
  <2>6. ASSUME NEW t \in Threads, Unlock(t) PROVE TypeOK'
    BY <2>6 DEF Unlock
  <2>7. ASSUME NEW t \in Threads, SpinShared(t) PROVE TypeOK'
    BY <2>7 DEF SpinShared
  <2>8. ASSUME NEW t \in Threads, CasShared(t) PROVE TypeOK'
    BY <2>8 DEF CasShared
  <2>9. ASSUME NEW t \in Threads, TryLockSharedFails(t) PROVE TypeOK'
    BY <2>9 DEF TryLockSharedFails
  <2>10. ASSUME NEW t \in Threads, UnlockShared(t) PROVE TypeOK'
    BY <2>10 DEF UnlockShared
  <2> QED
    BY <2>1, <2>2, <2>3, <2>4, <2>5, <2>6, <2>7, <2>8, <2>9, <2>10 DEF Next, Progress
<1> QED
  BY <1>1, <1>2, PTL DEF Spec

\* The readers are finitely many, and Cardinality follows one thread joining or
\* leaving them.
LEMMA ReaderArithmetic ==
  ASSUME NEW S \in SUBSET Threads, NEW t \in Threads
  PROVE  /\ Cardinality(S) \in Nat
         /\ t \notin S => Cardinality(S \cup {t}) = Cardinality(S) + 1
         /\ t \in S    => Cardinality(S \ {t}) = Cardinality(S) - 1
         /\ Cardinality(S) = 0 <=> S = {}
<1>1. IsFiniteSet(S)
  BY ThreadsFinite, FS_Subset
<1> QED
  BY <1>1, FS_CardinalityType, FS_AddElement, FS_RemoveElement, FS_EmptySet

\* A step that leaves the holders and state_m alone keeps LockCounts.
LEMMA HoldersUnchanged ==
  ASSUME LockCounts, Writers' = Writers, Readers' = Readers, state_m' = state_m
  PROVE  LockCounts'
BY DEF LockCounts

\* t entering the exclusive state from a free lock.
LEMMA WriterEnters ==
  ASSUME TypeOK, LockCounts, NEW t \in Threads, state_m = 0, state_m' = -1,
         pc[t] # "shared", pc' = [pc EXCEPT ![t] = "exclusive"]
  PROVE  LockCounts'
<1>1. Writers = {} /\ Readers = {}
  <2>1. Readers \in SUBSET Threads
    BY DEF Readers
  <2>2. Cardinality(Readers) = 0 <=> Readers = {}
    BY <2>1, ReaderArithmetic
  <2> QED
    BY <2>2 DEF LockCounts
<1>2. Writers' = {t} /\ Readers' = {}
  BY <1>1 DEF TypeOK, Writers, Readers
<1> QED
  BY <1>2 DEF LockCounts

\* A reader joining: the compare saw the number of readers still current.
LEMMA ReaderEnters ==
  ASSUME TypeOK, LockCounts, NEW t \in Threads, state_m >= 0, state_m' = state_m + 1,
         pc[t] # "shared", pc[t] # "exclusive", pc' = [pc EXCEPT ![t] = "shared"]
  PROVE  LockCounts'
<1>1. Writers = {} /\ state_m = Cardinality(Readers) /\ t \notin Readers
  BY DEF LockCounts, Readers
<1>2. Writers' = {} /\ Readers' = Readers \cup {t}
  BY <1>1 DEF TypeOK, Writers, Readers
<1>3. Cardinality(Readers \cup {t}) = Cardinality(Readers) + 1
  BY <1>1, ReaderArithmetic DEF Readers
<1> QED
  BY <1>1, <1>2, <1>3 DEF LockCounts

\* The inductive invariant is preserved by every step of every thread.
LEMMA IInvStep == IInv /\ [Next]_vars => (LockCounts /\ LockExpectsZero)'
<1> SUFFICES ASSUME IInv, [Next]_vars PROVE (LockCounts /\ LockExpectsZero)'
  OBVIOUS
<1> USE DEF IInv
<1>1. CASE UNCHANGED vars
  BY <1>1 DEF vars, LockCounts, LockExpectsZero, Writers, Readers
<1>2. ASSUME NEW t \in Threads, TryLock(t) PROVE (LockCounts /\ LockExpectsZero)'
  <2>1. LockCounts'
    BY <1>2, WriterEnters DEF TryLock, Return
  <2>2. LockExpectsZero'
    BY <1>2 DEF TryLock, Return, LockExpectsZero, TypeOK
  <2> QED BY <2>1, <2>2
<1>3. ASSUME NEW t \in Threads, BeginLock(t) PROVE (LockCounts /\ LockExpectsZero)'
  <2>1. Writers' = Writers /\ Readers' = Readers /\ state_m' = state_m
    BY <1>3 DEF BeginLock, Writers, Readers, TypeOK
  <2>2. LockExpectsZero'
    BY <1>3 DEF BeginLock, LockExpectsZero, TypeOK
  <2> QED BY <2>1, <2>2, HoldersUnchanged
<1>4. ASSUME NEW t \in Threads, NEW call \in {"lock_shared", "try_lock_shared"},
             BeginShared(t, call)
      PROVE (LockCounts /\ LockExpectsZero)'
  <2>1. Writers' = Writers /\ Readers' = Readers /\ state_m' = state_m
    BY <1>4 DEF BeginShared, Writers, Readers, TypeOK
  <2>2. LockExpectsZero'
    BY <1>4 DEF BeginShared, LockExpectsZero, TypeOK
  <2> QED BY <2>1, <2>2, HoldersUnchanged
<1>5. ASSUME NEW t \in Threads, CasLock(t) PROVE (LockCounts /\ LockExpectsZero)'
  <2>1. LockExpectsZero'
    BY <1>5 DEF CasLock, Return, LockExpectsZero, TypeOK
  <2>2. CASE state_m = expected[t]
    <3>1. state_m = 0
      BY <1>5, <2>2 DEF CasLock, LockExpectsZero
    <3>2. LockCounts'
      BY <1>5, <2>2, <3>1, WriterEnters DEF CasLock, Return
    <3> QED BY <2>1, <3>2
  <2>3. CASE state_m # expected[t]
    <3>1. Writers' = Writers /\ Readers' = Readers /\ state_m' = state_m
      BY <1>5, <2>3 DEF CasLock, Writers, Readers
    <3> QED BY <2>1, <3>1, HoldersUnchanged
  <2> QED BY <2>2, <2>3
<1>6. ASSUME NEW t \in Threads, Unlock(t) PROVE (LockCounts /\ LockExpectsZero)'
  <2>1. LockExpectsZero'
    BY <1>6 DEF Unlock, Return, LockExpectsZero, TypeOK
  <2>2. Writers = {t} /\ Readers = {}
    BY <1>6 DEF Unlock, LockCounts, Writers
  <2>3. Writers' = {} /\ Readers' = {} /\ state_m' = 0
    BY <1>6, <2>2 DEF Unlock, Return, Writers, Readers, TypeOK
  <2>4. Cardinality({}) = 0
    BY FS_EmptySet
  <2> QED BY <2>1, <2>3, <2>4 DEF LockCounts
<1>7. ASSUME NEW t \in Threads, SpinShared(t) PROVE (LockCounts /\ LockExpectsZero)'
  <2>1. Writers' = Writers /\ Readers' = Readers /\ state_m' = state_m
    BY <1>7 DEF SpinShared, Writers, Readers
  <2>2. LockExpectsZero'
    BY <1>7 DEF SpinShared, LockExpectsZero, TypeOK
  <2> QED BY <2>1, <2>2, HoldersUnchanged
<1>8. ASSUME NEW t \in Threads, CasShared(t) PROVE (LockCounts /\ LockExpectsZero)'
  <2>1. LockExpectsZero'
    BY <1>8 DEF CasShared, Return, LockExpectsZero, TypeOK
  <2>2. CASE state_m = expected[t]
    <3>1. LockCounts'
      BY <1>8, <2>2, ReaderEnters DEF CasShared, Return
    <3> QED BY <2>1, <3>1
  <2>3. CASE state_m # expected[t]
    <3>1. Writers' = Writers /\ Readers' = Readers /\ state_m' = state_m
      BY <1>8, <2>3 DEF CasShared, Writers, Readers
    <3> QED BY <2>1, <3>1, HoldersUnchanged
  <2> QED BY <2>2, <2>3
<1>9. ASSUME NEW t \in Threads, TryLockSharedFails(t) PROVE (LockCounts /\ LockExpectsZero)'
  <2>1. Writers' = Writers /\ Readers' = Readers /\ state_m' = state_m
    BY <1>9 DEF TryLockSharedFails, Return, Writers, Readers, TypeOK
  <2>2. LockExpectsZero'
    BY <1>9 DEF TryLockSharedFails, Return, LockExpectsZero, TypeOK
  <2> QED BY <2>1, <2>2, HoldersUnchanged
<1>10. ASSUME NEW t \in Threads, UnlockShared(t) PROVE (LockCounts /\ LockExpectsZero)'
  <2>1. LockExpectsZero'
    BY <1>10 DEF UnlockShared, Return, LockExpectsZero, TypeOK
  <2>2. t \in Readers /\ Writers = {} /\ state_m = Cardinality(Readers)
    BY <1>10 DEF UnlockShared, LockCounts, Readers
  <2>3. Writers' = {} /\ Readers' = Readers \ {t} /\ state_m' = state_m - 1
    BY <1>10, <2>2 DEF UnlockShared, Return, Writers, Readers, TypeOK
  <2>4. Cardinality(Readers \ {t}) = Cardinality(Readers) - 1
    BY <2>2, ReaderArithmetic DEF Readers
  <2> QED BY <2>1, <2>2, <2>3, <2>4 DEF LockCounts
<1> QED
  BY <1>1, <1>2, <1>3, <1>4, <1>5, <1>6, <1>7, <1>8, <1>9, <1>10 DEF Next, Progress

\* state_m counts the holders in every reachable state.
THEOREM CountsHolders == Spec => []LockCounts
<1>1. Init => LockCounts /\ LockExpectsZero
  <2>1. Cardinality({}) = 0
    BY FS_EmptySet
  <2> QED BY <2>1 DEF Init, LockCounts, LockExpectsZero, Writers, Readers
<1>2. Spec => []TypeOK
  BY TypeCorrect
<1> QED
  BY <1>1, <1>2, IInvStep, PTL DEF Spec, IInv

\* A writer never shares the frame, for any finite set of threads and any
\* interleaving of the CAS loops.
THEOREM Exclusion == Spec => []MutualExclusion
<1>1. LockCounts => MutualExclusion
  BY DEF LockCounts, MutualExclusion, Writers, Readers
<1> QED
  BY <1>1, CountsHolders, PTL

\* State() reports exactly who holds the lock, and its assertion never fires.
THEOREM StateReportsHolders == Spec => []StateFaithful
<1>1. LockCounts => StateFaithful
  <2> SUFFICES ASSUME LockCounts PROVE StateFaithful
    OBVIOUS
  <2>1. CASE state_m = -1 /\ Writers # {} /\ Readers = {}
    BY <2>1 DEF StateFaithful, LockState
  <2>2. CASE Writers = {} /\ state_m = Cardinality(Readers)
    <3>1. \A t \in Threads : Cardinality(Readers) \in Nat /\ (Cardinality(Readers) = 0 <=> Readers = {})
      BY ReaderArithmetic DEF Readers
    <3>2. Threads = {} => Readers = {} /\ Cardinality(Readers) = 0
      BY FS_EmptySet DEF Readers
    <3>3. CASE Readers = {}
      <4>1. state_m = 0
        BY <2>2, <3>1, <3>2, <3>3
      <4> QED BY <2>2, <3>3, <4>1 DEF StateFaithful, LockState
    <3>4. CASE Readers # {}
      <4>1. state_m \in Nat /\ state_m # 0
        BY <2>2, <3>1, <3>4 DEF Readers
      <4>2. LockState = "SHARED"
        BY <4>1 DEF LockState
      <4> QED BY <2>2, <3>4, <4>2 DEF StateFaithful
    <3> QED BY <3>3, <3>4
  <2> QED BY <2>1, <2>2 DEF LockCounts
<1> QED
  BY <1>1, CountsHolders, PTL
=============================================================================
