SPECIFICATION StoreTableSpec
CONSTANTS
  Cpus = {c1, c2}
  NoCore = NoCore
  EntryCount = 4
  Addresses = {2, 3}
  LateFaults = {}
  Ops = {"store", "ldxp", "stxp", "casp", "clear"}
INVARIANTS
  NoDanglingLocks
  WritesAreNoticed
  NoWaitCycle
SYMMETRY CpuSymmetry
