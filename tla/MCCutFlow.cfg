CONSTANTS
  f = f  t = t  g = g  h = h  u = u  j = j
  FilterName <- Names
  GlobalNodes <- GlobalChain
  GlobalFilters <- GlobalList
  GlobalTagging <- NoTags
  LocalNodes <- LocalChain
  LocalFilters <- LocalList
  LocalTagging <- LocalTags
  Events <- ThreeEvents
  FloatExact = 2
SPECIFICATION Spec
INVARIANTS HistogramAgreesWithFlow OutputsFitTogether
CHECK_DEADLOCK FALSE
