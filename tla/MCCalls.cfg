SPECIFICATION Spec
CONSTANTS
  Coroutines = {"co"}
  WrapOf <- MCWrapOf
  Forms <- MCForms
  LUAI_MAXCCALLS = 4
  ExtraCCalls = 2
  LUAI_MAXSTACK = 17
  ErrorSpace = 8
  EXTRA_STACK = 4
  LUA_MINSTACK = 3
  FrameSize = 4
  MaxFrames = 5
PROPERTY
  ImplementsProtectedCalls
INVARIANTS
  BookkeepingRight
  StackFits
  HandlerRight
