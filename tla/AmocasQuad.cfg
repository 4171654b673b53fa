SPECIFICATION StoreTableSpec
CONSTANTS
  Cpus = {c1, c2}
  NoCore = NoCore
  EntryCount = 2
  Addresses = {2, 3}
  LateFaults = {}
  Ops = {"lr", "sc", "amocas_q"}
INVARIANTS
  WritesAreNoticed
