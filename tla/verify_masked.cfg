CONSTANTS
  f = f
  g = g
  Functions <- MCFunctions
  Answers <- MCAnswers
  Shapes <- MCShapes
  MaxEnsures = 2
  MaxChecks = 3
SPECIFICATION Spec
SYMMETRY Symmetry
INVARIANT SuccessMeansAssertsHold
CHECK_DEADLOCK FALSE
