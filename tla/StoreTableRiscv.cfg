SPECIFICATION FairStoreTableSpec
CONSTANTS
  Cpus = {c1, c2}
  NoCore = NoCore
  EntryCount = 2
  Addresses = {1, 3}
  LateFaults = {}
  Ops = {"store", "lr", "sc", "amo", "clear"}
INVARIANTS
  StoreTableTypeOK
  EntryHeldInside
  NeverReentrant
  WritesAreNoticed
PROPERTIES
  EntryIsReleased
