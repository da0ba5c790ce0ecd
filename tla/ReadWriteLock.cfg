CONSTANTS
  t1 = t1
  t2 = t2
  t3 = t3
  NoThread = NoThread
  Threads <- MCThreads
  Ops <- MCOps
  MaxTimed = 1
SPECIFICATION FairSpec
INVARIANTS TypeOK MutualExclusion FlagsMatchHolders WaitersAreCounted
PROPERTIES ImplementsLock TimedRequestsEnd
