CONSTANTS
  f = f  g = g   t = t  p1 = p1  q1 = q1  r2 = r2  s3 = s3  gap4 = gap4
  FilterName <- Names
  GlobalNodes <- FilterFirst
  GlobalFilters <- GlobalList
  GlobalTagging <- NoTags
  Pipelines <- OneEach
  FirstEvent = 1
  ProcessNEvents <- TwoEvents
  MaxReported = 3
  Trees = {0}
  Runs = {1, 2}
  Lumis = {1}
  MaxEntries = 3
SPECIFICATION Spec
PROPERTIES RunEnds
CHECK_DEADLOCK FALSE
