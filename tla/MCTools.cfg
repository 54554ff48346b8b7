CONSTANTS
  None = None
  MaxTasks = 4
  MaxProcesses = 3
  Outcomes = {"return", "raise", "vanish"}
  MaxSources = 5
  MaxCrashes = 1
  Exits = {"ok", "fail", "killed"}
  Contents <- MCContents
  Events = {1, 2, 3}
  EventNumber <- MCEventNumber
  Branches = {"pt", "et"}
  Files = {"fa", "fb"}
  Existing = {"x"}
  Programs <- MCPrograms
SPECIFICATION Spec
CHECK_DEADLOCK FALSE
INVARIANTS
  AnswersAreTrue
  FilesMatch
  FunctionsAsPromised
PROPERTIES
  CallEnds
  TreesAsAsked
