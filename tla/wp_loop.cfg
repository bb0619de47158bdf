CONSTANTS
  Values <- MCValues
  Inputs <- MCInputs
  Exprs <- MCExprs
  Claims <- MCClaims
  Guards <- LoopGuards
  Invariants <- LoopInvariants
  Ensures <- MCEnsures
  Ops <- LoopOps
  MaxLength = 4
  MaxSymbols = 1
SPECIFICATION Spec
INVARIANTS InvariantHoldsAtBodyExit
CHECK_DEADLOCK FALSE
