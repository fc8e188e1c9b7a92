SPECIFICATION FairSpec
CONSTANT Threads = {t1, t2, t3}
INVARIANTS MutualExclusion StateFaithful LockCounts
PROPERTY DeadlockFreedom
