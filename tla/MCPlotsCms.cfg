CONSTANTS
  None = None
  NotGiven = None
  RootSession <- MCRootSession
  MplSession <- MCMplSession
  Colours <- MCColours
  Version = 121
  AreasInLegend = FALSE
SPECIFICATION Spec
CHECK_DEADLOCK FALSE
INVARIANT CmsIsWritten
