CONSTANTS
  f = f  g = g   t = t  p1 = p1  q1 = q1  r2 = r2  s3 = s3  gap4 = gap4
  FilterName <- Names
  GlobalNodes <- ProducerFirst
  GlobalFilters <- GlobalList
  GlobalTagging <- NoTags
  Pipelines <- WithGap
  FirstEvent = 0
  ProcessNEvents <- NoLimit
  MaxReported = 2
  Trees = {0}
  Runs = {1, 2}
  Lumis = {1}
  MaxEntries = 2
SPECIFICATION Spec
INVARIANT HigherLevelsRun
CHECK_DEADLOCK FALSE
