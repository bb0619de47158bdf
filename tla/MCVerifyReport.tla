--------------------------- MODULE MCVerifyReport ---------------------------
(* Instances of VerifyReport for TLC.  doVerify tells unsat from the other   *)
(* words only, so one other word is enough.                                  *)
EXTENDS VerifyReport, TLC

CONSTANTS f, g

MCFunctions == {f, g}
MCAnswers == {"unsat", "unknown"}
MCShapes == ClauseShapes
Symmetry == Permutations(MCFunctions)
=============================================================================
