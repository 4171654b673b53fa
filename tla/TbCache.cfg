SPECIFICATION TbSpec
CONSTANTS
  PageSize = 4
  InsnLen <- Insns
  Target <- Branches
  Indirect = {0, 5}
  Vector = 0
  Maps <- Adjacent
  Buckets = 1
  MinBlocks = 1
  MaxBlocks = 2
  Quantum = 3
  StoreAddrs = {2, 4}
  HostAddrs = {1}
  BpAddrs = {2}
INVARIANTS
  TbTypeOK
  BlocksGetToRun
  NoWayToDroppedBlocks
  StoresToCodeAreSeen
PROPERTIES
  EnteredBlockIsCurrent
