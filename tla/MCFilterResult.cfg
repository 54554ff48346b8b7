CONSTANTS
  FilterName = {json, trigger, vertex}
  NameLists <- ShortLists
SPECIFICATION Spec
INVARIANTS VerdictFollowsDecisions CacheIsCoherent
PROPERTY EntriesStay
