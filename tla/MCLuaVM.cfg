SPECIFICATION Spec
CONSTANTS
  MaxInteger = 7
  MaxIndexRK = 0
  FieldsPerFlush = 2
  MaxRegs = 250
  MaxLog = 6
  StackSize = 40
  Programs <- MCPrograms
INVARIANT AssertionsHold
PROPERTIES ExecutesAsWritten Ends
CHECK_DEADLOCK FALSE
