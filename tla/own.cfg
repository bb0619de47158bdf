CONSTANTS
  Names <- MCNames
  Param = "a"
  Ops <- AllOps
  MaxLength = 6
  MaxValues = 3
SPECIFICATION Spec
INVARIANTS TypeOK ListedIffOwned FailuresHaveALapse DropsRunInReverse
CHECK_DEADLOCK FALSE
