SPECIFICATION Spec
CONSTANTS
  Main = main
  Registry = reg
  Tables = {reg, a}
  Udata = {u}
  CClosures = {}
  Strings = {}
  Atom = atom
  None = none
  Modes = {"strong", "k", "v"}
  Adorned = {a, u}
  Finalizable = {u}
  MaxEntries <- OneEntry
  MaxStack = 2
INVARIANTS TypeOK NoDangling BlackNeverToWhite OneGrayList StronglyAccessibleMarked
PROPERTIES FinalizedLeaveWeakValues
