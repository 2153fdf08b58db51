SPECIFICATION Spec
CONSTANTS
  Objs = {o1, o2}
  Null = null
  UINT_MAX = 3
INVARIANTS AllWhiteAtPause
