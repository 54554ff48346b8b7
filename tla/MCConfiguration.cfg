CONSTANTS
  None = None
  All = All
SPECIFICATION Spec
CHECK_DEADLOCK FALSE
INVARIANTS
  ConfigurationsMerge
  JobsRunAsTold
  NothingLost
PROPERTY
  ScriptEnds
