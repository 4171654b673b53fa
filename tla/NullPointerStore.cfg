SPECIFICATION StoreTableSpec
CONSTANTS
  Cpus = {c1, c2}
  NoCore = NoCore
  EntryCount = 2
  Addresses = {0, 1}
  LateFaults = {}
  Ops = {"store"}
INVARIANTS
  NoDanglingLocks
