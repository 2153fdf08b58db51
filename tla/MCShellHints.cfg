SPECIFICATION Spec
CONSTANTS
  Commands = {c1}
  NoCommand = none
  HISTORY_MAX_LEN = 1
  UserMasks = {"calls"}
  LUA_MINSTACK = 20
  MaxEntered = 1
  MaxSignals = 0
  MaxDepth = 1
  MaxHints = 7
  MaxRestarts = 0
INVARIANTS WithinFrame
CHECK_DEADLOCK FALSE
