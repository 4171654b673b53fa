SPECIFICATION FairLockSpec
CONSTANTS
  Cpus = {c1, c2, c3}
  NoCpu = NoCpu
  MaxNested = 1
  EntriesModulus = 8
  RegisterWhileRunning = FALSE
INVARIANTS
  LockTypeOK
  MutualExclusion
  OwnerWillRelease
  NoLostWakeup
PROPERTIES
  LockIsFreed
