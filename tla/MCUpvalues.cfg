SPECIFICATION Spec
CONSTANTS
  Main = main
  co = co
  Coroutines = {co}
  Closures = {c1, c2}
  Leaves = {}
  UpVals = {u1, u2}
  Nil = nil
  Own = own
  None = none
  SelfJoin = FALSE
  MainLevels = 2
  CoLevels = 1
  MaxLevel <- MCMaxLevel
SYMMETRY MCSymmetry
INVARIANTS NoDangling RefcountsRight OpenListSorted TwupsComplete
PROPERTIES ImplementsSharedVars
