------------------------------- MODULE Blocks -------------------------------
(***************************************************************************)
(* Structured code as a sequence of instructions, records with a field op: *)
(* an instruction of Openers starts a block that its "end" closes, and an  *)
(* "if" may have an "else" at its own level.  Where control goes from i.   *)
(***************************************************************************)
EXTENDS Integers, Sequences, FiniteSets, FiniteSetsExt

Openers == {"if", "while", "call"}

Among(code, ops, i, j) == {k \in i..j : code[k].op \in ops}
Level(code, i, j) ==
  Cardinality(Among(code, Openers, i, j)) - Cardinality(Among(code, {"end"}, i, j))

\* The end of the block that i opens, and the "else" of the "if" at i, or its
\* end when it has none.
EndOf(code, i) == Min({j \in i..Len(code) : Level(code, i, j) = 0})
ElseArm(code, i) ==
  LET arms == {j \in Among(code, {"else"}, i, EndOf(code, i)) : Level(code, i, j) = 1}
  IN IF arms = {} THEN EndOf(code, i) ELSE Max(arms)

\* The blocks of one of the kinds ops that i stands in, and the innermost.
Enclosing(code, ops, i) == {k \in Among(code, ops, 1, i - 1) : EndOf(code, k) >= i}
Innermost(code, ops, i) == Max(Enclosing(code, ops, i))
OpenerOf(code, i) == Max({k \in Among(code, Openers, 1, i - 1) : EndOf(code, k) = i})
=============================================================================
