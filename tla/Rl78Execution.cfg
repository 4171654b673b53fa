SPECIFICATION FairRl78Spec
CONSTANTS
  ProgramSize = 7
  Programs <- SingleSkips
  PageSize = 4
  Handler = 5
  Irqs = {0}
  Priorities = {1, 2}
  Quantum = 3
  MaxDepth = 2
INVARIANTS
  Rl78TypeOK
  BlockMatchesState
  PcIsStored
  SkipIsHonoured
  NoPriorityInversion
  RequestIsKept
  CountIsExact
PROPERTY
  InterruptIsTaken
