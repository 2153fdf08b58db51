SPECIFICATION Spec
CONSTANTS
  Main = main
  Registry = reg
  Tables = {reg, a, b}
  Udata = {}
  CClosures = {}
  Strings = {}
  Atom = atom
  None = none
  Modes = {"strong", "kv"}
  Adorned = {a}
  Finalizable = {}
  MaxEntries <- OneEntry
  MaxStack = 2
INVARIANTS StronglyAccessibleMarked
