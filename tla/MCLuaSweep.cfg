SPECIFICATION FairSpec
CONSTANTS
  Objs = {o1, o2, o3}
  Null = null
  UINT_MAX = 3
INVARIANTS TypeOK ListsPartition SweepPosition HeldSurvives SweepWhitens
PROPERTIES NoFreeBeforeFinalizer FinalizersGetCalled
