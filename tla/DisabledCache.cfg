SPECIFICATION TbToggleSpec
CONSTANTS
  PageSize = 4
  InsnLen <- Insns
  Target <- Branches
  Indirect = {0, 5}
  Vector = 0
  Maps <- Adjacent
  Buckets = 1
  MinBlocks = 1
  MaxBlocks = 2
  Quantum = 2
  StoreAddrs = {2, 4}
  HostAddrs = {1}
  BpAddrs = {2}
INVARIANTS
  NoWayToDroppedBlocks
