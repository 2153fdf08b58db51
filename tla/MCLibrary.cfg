\* The parts have nothing in common, and each ends.
INIT LibraryInit
NEXT LibraryNext
CHECK_DEADLOCK FALSE
CONSTANTS
  string1 = string1
  object1 = object1
  Nil = Nil
  nil = nil
  \* tables
  Ints = {0, 1, 2, 3}
  Objects = {string1, object1}
  Hash <- MCHash
  Pointers = {object1}
  PowersOf2 = {1, 2, 4, 8, 16}
  MaxHint = 2
  \* strings
  MAXCCALLS = 6
  LUA_MAXCAPTURES = 4
  NB = 2
  SZINT = 3
  SZSIZE = 3
  MAXINTSIZE = 4
  MAXALIGN = 4
  MAXSIZE = 31
  MAXUNICODE = 1114111
  LUA_MAXINTEGER = 7
  \* the string table
  ShortTexts = {"a", "b", "c", "d"}
  LongTexts = {"long"}
  CTexts = {"a", "long", "memerrmsg"}
  MEMERRMSG = "memerrmsg"
  StrHash <- MCStrHash
  MaxStrings = 4
  MINSTRTABSIZE = 1
  STRCACHE_N = 1
  STRCACHE_M = 2
  \* files
  Userdata = {"u1", "u2"}
  Streams = {"f1", "f2"}
  MaxIters = 1
  MaxReads = 1
  \* reading, buffers, tracebacks
  LUAL_BUFFERSIZE = 2
  L_MAXLENNUM = 3
  MAXINTEGER = 15
  MAX_SIZET = 31
  LEVELS1 = 3
  LEVELS2 = 4
  \* modules
  Modules = {"m", "m.x-y"}
  Marked = {"m.x-y"}
  LibraryOf <- MCLibraryOf
  RootOf <- MCRootOf
  MaxDepth = 3
  MaxLoads = 3
  \* completion
  Chars = {"a", "1", "."}
  ID_BREAKERS = {"."}
  LUA_FUNCS <- MCFuncs
  Globals <- MCGlobals
  MaxLine = 3
  MaxGlobals = 3
  MaxOffers = 4
  \* wrappers
  Options <- MCOptions
  Programs <- MCPrograms
  DefaultOut = "dummy.c"
  Dumped = {"f", "g"}
  CallCountName = "f"
  MaxRuns = 2
  INT_MAX = 127
INVARIANTS TableRight MatchRight LibraryRight ToolsRight StringsRight FilesRight ModulesRight
