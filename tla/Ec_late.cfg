\* Any access may fail, any wait may end without an answer.
CONSTANTS
  Register <- SomeRegisters
  Fields <- SomeFields
  Faulty = TRUE
  MaxChanges = 2
SPECIFICATION Spec
INVARIANTS TypeOK OwnUnlessCut ResultComplete
PROPERTIES NeverOverruns
