SPECIFICATION EmmuSpec
CONSTANTS
  Pages = 3
  Kinds = {"load", "store"}
  Types = {{"load"}}
  Privs = {{"load", "store"}}
  ArchMap <- PageTable
  Positions = {"none", "replace", "after"}
  MaxWindows = 2
  MaxIds = 3
INVARIANTS
  EmmuTypeOK
  LookupFindsWindow
PROPERTIES
  GrantsAreCovered
  FillEnds
