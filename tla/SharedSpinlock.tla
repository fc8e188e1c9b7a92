------------------------- MODULE SharedSpinlock -------------------------
(***************************************************************************)
(* The reader/writer spinlock that guards the bytes of one frame           *)
(* (src/core/shared_spinlock.cpp).  The lock is one atomic int, state_m;   *)
(* every access to it is one atomic step, and between two of them any other *)
(* thread may run.  `expected` is the local variable a compare-and-exchange *)
(* loop carries from one iteration to the next: it is stale as soon as      *)
(* another thread moves state_m.                                            *)
(*                                                                          *)
(* compare_exchange_weak may fail spuriously; such a failure leaves         *)
(* state_m and (after the loop's own assignment) `expected` as they were,   *)
(* so it is a stuttering step.                                              *)
(***************************************************************************)
EXTENDS Integers, FiniteSets

CONSTANT Threads  \* the threads that share the frame

\* int32_t never overflows: there are fewer than 2^31 threads, finitely many.
ASSUME ThreadsFinite == IsFiniteSet(Threads)

VARIABLES
  state_m,   \* the atomic: 0 unlocked, -1 exclusive, n >= 1 held by n readers
  pc,        \* pc[t]: where thread t is inside the lock's interface
  expected   \* expected[t]: the local of lock / lock_shared / try_lock_shared

vars == <<state_m, pc, expected>>

PC == {"idle", "lock", "lock_shared", "try_lock_shared", "exclusive", "shared"}

TypeOK ==
  /\ state_m \in Int
  /\ pc \in [Threads -> PC]
  /\ expected \in [Threads -> Int]

Writers == {t \in Threads : pc[t] = "exclusive"}
Readers == {t \in Threads : pc[t] = "shared"}

Init ==
  /\ state_m = 0
  /\ pc = [t \in Threads |-> "idle"]
  /\ expected = [t \in Threads |-> 0]

\* The call returns: t is at `where` and its local is dead (kept at 0).
Return(t, where) ==
  /\ pc' = [pc EXCEPT ![t] = where]
  /\ expected' = [expected EXCEPT ![t] = 0]

-----------------------------------------------------------------------------
(* Exclusive side. *)

\* try_lock: one strong CAS from 0 to -1; a failure changes nothing.
TryLock(t) ==
  /\ pc[t] = "idle"
  /\ state_m = 0
  /\ state_m' = -1
  /\ Return(t, "exclusive")

\* lock(): enters the loop with expected = 0.
BeginLock(t) ==
  /\ pc[t] = "idle"
  /\ pc' = [pc EXCEPT ![t] = "lock"]
  /\ expected' = [expected EXCEPT ![t] = 0]
  /\ UNCHANGED state_m

\* Mutant: the loop body `expected = 0` is dropped, so the value the failed
\* CAS wrote into expected is used by the next attempt.
CasLockKeepsObserved(t) ==
  /\ pc[t] = "lock"
  /\ \/ /\ state_m = expected[t]
        /\ state_m' = -1
        /\ Return(t, "exclusive")
     \/ /\ state_m # expected[t]
        /\ expected' = [expected EXCEPT ![t] = state_m]
        /\ UNCHANGED <<state_m, pc>>

\* One iteration of lock(): the CAS succeeds, or fails and expected (which the
\* CAS overwrote with the value it saw) is reset to 0.
CasLock(t) ==
  /\ pc[t] = "lock"
  /\ \/ /\ state_m = expected[t]
        /\ state_m' = -1
        /\ Return(t, "exclusive")
     \/ /\ state_m # expected[t]
        /\ expected' = [expected EXCEPT ![t] = 0]
        /\ UNCHANGED <<state_m, pc>>

\* Mutant: unlock that decrements like unlock_shared instead of storing 0.
UnlockBySubtraction(t) ==
  /\ pc[t] = "exclusive"
  /\ state_m' = state_m - 1
  /\ Return(t, "idle")

Unlock(t) ==
  /\ pc[t] = "exclusive"
  /\ state_m' = 0
  /\ Return(t, "idle")

-----------------------------------------------------------------------------
(* Shared side. *)

\* lock_shared() and try_lock_shared() both start by loading state_m.
BeginShared(t, call) ==
  /\ pc[t] = "idle"
  /\ pc' = [pc EXCEPT ![t] = call]
  /\ expected' = [expected EXCEPT ![t] = state_m]
  /\ UNCHANGED state_m

\* lock_shared's inner loop: reload while the last value seen was negative.
SpinShared(t) ==
  /\ pc[t] = "lock_shared"
  /\ expected[t] < 0
  /\ expected' = [expected EXCEPT ![t] = state_m]
  /\ UNCHANGED <<state_m, pc>>

\* Mutant: the CAS is made without comparing (a plain add), so a writer that
\* came in after the load goes unnoticed.
CasSharedBlind(t) ==
  /\ pc[t] \in {"lock_shared", "try_lock_shared"}
  /\ expected[t] >= 0
  /\ state_m' = expected[t] + 1
  /\ Return(t, "shared")

\* One attempt to add a reader: the CAS succeeds when nobody moved state_m
\* since it was read, and otherwise leaves the value it saw in expected.
CasShared(t) ==
  /\ pc[t] \in {"lock_shared", "try_lock_shared"}
  /\ expected[t] >= 0
  /\ \/ /\ state_m = expected[t]
        /\ state_m' = expected[t] + 1
        /\ Return(t, "shared")
     \/ /\ state_m # expected[t]
        /\ expected' = [expected EXCEPT ![t] = state_m]
        /\ UNCHANGED <<state_m, pc>>

\* try_lock_shared leaves its loop with false once it has seen a writer.
TryLockSharedFails(t) ==
  /\ pc[t] = "try_lock_shared"
  /\ expected[t] < 0
  /\ Return(t, "idle")
  /\ UNCHANGED state_m

UnlockShared(t) ==
  /\ pc[t] = "shared"
  /\ state_m' = state_m - 1
  /\ Return(t, "idle")

\* State(): what the lock reports; the default branch asserts state_m > 0.
LockState ==
  CASE state_m = -1 -> "EXCLUSIVE"
    [] state_m = 0  -> "UNLOCKED"
    [] state_m > 0  -> "SHARED"
    [] OTHER        -> "assertion failed"

-----------------------------------------------------------------------------
\* The steps a thread inside the interface takes by itself.
Progress(t) ==
  \/ CasLock(t) \/ Unlock(t)
  \/ SpinShared(t) \/ CasShared(t) \/ TryLockSharedFails(t) \/ UnlockShared(t)

Next == \E t \in Threads :
  \/ TryLock(t)
  \/ BeginLock(t)
  \/ BeginShared(t, "lock_shared")
  \/ BeginShared(t, "try_lock_shared")
  \/ Progress(t)

Spec == Init /\ [][Next]_vars

\* A thread that is spinning keeps running, a weak CAS does not fail spuriously
\* for ever, and critical sections end.
Fairness == \A t \in Threads : WF_vars(Progress(t))
FairSpec == Spec /\ Fairness

-----------------------------------------------------------------------------
(* Properties. *)

\* A writer never shares the frame with a reader or another writer: what every
\* caller of Page::lock / lock_shared relies on, whatever values the CAS loops
\* carried in `expected` across other threads' steps.
MutualExclusion ==
  \A t \in Threads : pc[t] = "exclusive" =>
    \A u \in Threads \ {t} : pc[u] \notin {"exclusive", "shared"}

\* State() tells the truth: its answer agrees with who holds the lock, and its
\* assertion on state_m never fires (no unlock goes below the encoding).
StateFaithful ==
  LockState = IF Writers # {} THEN "EXCLUSIVE"
              ELSE IF Readers # {} THEN "SHARED" ELSE "UNLOCKED"

\* state_m counts the holders.  Stronger than the two above and inductive.
LockCounts ==
  \/ /\ state_m = -1
     /\ \E t \in Threads : Writers = {t}
     /\ Readers = {}
  \/ /\ Writers = {}
     /\ state_m = Cardinality(Readers)

\* While somebody is in lock() or lock_shared() the lock does not stay free:
\* the CAS loops cannot block one another for ever.
DeadlockFreedom ==
  (\E t \in Threads : pc[t] \in {"lock", "lock_shared"})
    ~> (Writers \cup Readers # {})
=============================================================================
