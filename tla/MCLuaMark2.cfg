SPECIFICATION Spec
CONSTANTS
  Main = main
  Registry = reg
  Tables = {reg, a}
  Udata = {}
  CClosures = {c}
  Strings = {s}
  Atom = atom
  None = none
  Modes = {"strong", "k"}
  Adorned = {reg}
  Finalizable = {}
  MaxEntries <- TwoEntries
  MaxStack = 2
INVARIANTS StronglyAccessibleMarked
