CONSTANTS
  Names <- MCNames
SPECIFICATION Spec
INVARIANTS ExpressionsParseBack StatementsParseBack MisreadingsAreReported
  CutProgramsAreRejected DamageStaysLocal
  AcceptedFieldsAreIndependent
  QueriesDecideTheirClaims ConstantsAreDeclaredOnce StablePairsHoldTogether
  LayoutsAgree VirtualCallsReachTheOverride
  GoalsDecideTheClause ProvedAssertionsHold CertificateAgrees
  LoopsVisitTheirElements ImportsAreSplicedOnce
  TermsDescribeRuns FoldedConstantsAreComputed CompoundIsTheOperation
CHECK_DEADLOCK FALSE
