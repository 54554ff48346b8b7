CONSTANTS
  None = None
  Settings <- HolderSettings
  Lists <- HolderLists
  Entries <- TreeEntries
  NewNames <- Renamings
  MaxObjects = 4
  MaxCalls = 5
SPECIFICATION Spec
CHECK_DEADLOCK FALSE
INVARIANT
  ShapesAsWanted
PROPERTIES
  CutsSelect
  ResultsAreComplete
  VariedOnce
