SPECIFICATION ResSpec
CONSTANTS
  MAX_NUMBER_OF_CPUS = 3
  Addresses = {a1, a2}
  None = None
INVARIANTS
  ResTypeOK
  IndexConsistent
  NeverAborts
PROPERTIES
  AccessClearsOthers
  ImplementsMonitor
