CONSTANTS
  Names <- MCNames
  Param = "a"
  Ops <- CallOps
  MaxLength = 4
  MaxValues = 3
SPECIFICATION Spec
INVARIANTS MovedValuesAreNotTouched
CHECK_DEADLOCK FALSE
