SPECIFICATION ClassifierSpec
CONSTANTS
  Messages <- SomeMessages
  MaxLength = 4
INVARIANTS
  ClassifierTypeOK
  CutsHideNothing
CHECK_DEADLOCK FALSE
