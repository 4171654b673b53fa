SPECIFICATION Rl78Spec
CONSTANTS
  ProgramSize = 7
  Programs <- AdjacentSkips
  PageSize = 8
  Handler = 5
  Irqs = {0}
  Priorities = {1}
  Quantum = 3
  MaxDepth = 1
INVARIANT
  BlockMatchesState
