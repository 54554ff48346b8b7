CONSTANTS
  Trees = {0, 1}
  Runs = {1, 2}
  Lumis = {1, 2}
  MaxEntries = 3
  MaxCalls = 3
SPECIFICATION Spec
INVARIANTS MetadataMatchesEvent FlagsTellChanges DeliveredIsRequested
PROPERTY CallsEnd
CHECK_DEADLOCK FALSE
