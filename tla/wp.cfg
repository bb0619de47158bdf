CONSTANTS
  Values <- MCValues
  Inputs <- MCInputs
  Exprs <- MCExprs
  Claims <- MCClaims
  Guards <- MCGuards
  Invariants <- MCInvariants
  Ensures <- MCEnsures
  Ops <- AllOps
  MaxLength = 7
  MaxSymbols = 1
SPECIFICATION Spec
INVARIANTS StoreDescribesRun OnlyUncoveredRunsFail
CHECK_DEADLOCK FALSE
