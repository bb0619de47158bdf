CONSTANTS
  f = f
  g = g
  Functions <- MCFunctions
  Answers <- MCAnswers
  Shapes <- MCShapes
  MaxEnsures = 2
  MaxChecks = 4
SPECIFICATION Spec
SYMMETRY Symmetry
INVARIANTS TypeOK RowShowsItsOwnAnswer LostAnswersFailTheRun OnlyMaskedClausesLackAProof
CHECK_DEADLOCK FALSE
