SPECIFICATION FairSpec
CONSTANTS
  Commands = {c1, c2}
  NoCommand = none
  HISTORY_MAX_LEN = 1
  UserMasks = {"calls"}
  LUA_MINSTACK = 20
  MaxEntered = 2
  MaxSignals = 2
  MaxDepth = 2
  MaxHints = 1
  MaxRestarts = 1
INVARIANTS TypeOK InterruptOnce HooksComeBack StackBalanced RunningLineIsSaved
PROPERTIES FirstInterruptSurvives InterruptStopsChunk
CHECK_DEADLOCK FALSE
