SPECIFICATION PartSpec
CONSTANTS
  t1 = t1
  t2 = t2
  t3 = t3
  Threads <- MCThreads
  PassiveSpin = 1
  Builds = {TRUE, FALSE}
  MaxLocks <- MCMaxLocks
  Callers <- MCCallers
  Ids <- MCIds
  Absent = Absent
  FirstKeys <- MCFirstKeys
  HomeOf <- MCHomeOf
  FfiCallers <- MCFfiCallers
  Plans <- MCPlans
  MaxSeq = 2
  MaxSent = 2
INVARIANT MutualExclusion
INVARIANT NoLostWakeup
INVARIANT OpensExactly
INVARIANT SeqUnique
PROPERTY EveryLockReturns
PROPERTY LockRefinement
PROPERTY StoreRefinement
