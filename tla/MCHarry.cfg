CONSTANTS
  None = None
  Unset = None
  Kind <- CoreKind
  Declares <- CoreDeclares
  CommandLines <- GivenOptions
  JsonFiles <- DefaultFiles
  Own <- Settings
  Base <- Bases
  Calls <- PlotCalls
  Unlabelled = Unlabelled
  Exported <- PlotsToExport
SPECIFICATION Spec
CHECK_DEADLOCK FALSE
INVARIANTS
  ExportReproduces
  EveryPlotAccountedFor
  NicksAreSums
  BinsAreSums
  ExportComplete
PROPERTIES
  CallsEnd
  PlotDataConsistent
  ModulesAsPromised
