SPECIFICATION ExclusiveSpec
CONSTANTS
  MAX_NUMBER_OF_CPUS = 2
  Addresses = {a1, a2}
  None = None
  Values = {v1, v2}
  MINUS_ONE = v2
  ExclusiveAddresses = {a1}
  PlainAddresses = {a2}
  MaxNested = 1
  EntriesModulus = 8
  RegisterWhileRunning = FALSE
INVARIANTS
  ExclusiveTypeOK
  SectionsAreBalanced
  StrexReplacesLoaded
  ReservationHeldToStore
PROPERTIES
  TableIsProtected
