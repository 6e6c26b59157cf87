SPECIFICATION FairSpec
CONSTANTS
  Fiber = {f1, f2, f3}
  Key = {k1, k2}
  Semaphore = {m1, m2, m3, m4}
  NoSemaphore = NoSemaphore
INVARIANTS TypeOK MutualExclusion OnlySameKeyWaits EntriesAreUsed
PROPERTIES WaitersLeave ImplementsMutex
