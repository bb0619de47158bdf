------------------------------ MODULE Splitter ------------------------------
(***************************************************************************)
(* The proof splitter: one clause becomes the goals that are asked one by  *)
(* one (splitGoalImpl, substBinder).  An expression is a comparison "le"   *)
(* of operands, "and", "implies", "ite" or a quantifier "all"/"some" over a *)
(* name x from lo up to hi; an operand is a name, a literal or a call of   *)
(* one function on an operand.  A goal has premises, each an expression    *)
(* and its sign, and is `alone' if it tries one premise of several.        *)
(***************************************************************************)
EXTENDS Integers, SequencesExt

CONSTANTS Ints,       \* the integers, as many as there are
          MaxUnroll   \* bound of the code: instances of an unrolled quantifier

Var(x) == [op |-> "var", x |-> x]
Lit(v) == [op |-> "lit", v |-> v]
Call(e) == [op |-> "call", l |-> e]
Two(op, l, r) == [op |-> op, l |-> l, r |-> r]
Ite(c, t, e) == [op |-> "ite", c |-> c, l |-> t, r |-> e]
Quant(q, x, lo, hi, incl, body) ==
  [op |-> q, x |-> x, lo |-> lo, hi |-> hi, incl |-> incl, l |-> body]
True == Two("le", Lit(0), Lit(0))
Goal(term, premises) == [term |-> term, premises |-> premises, alone |-> FALSE]

Quantified == {"all", "some"}
IsImplication(e) == e.op \in Quantified /\ e.l.op = "implies" /\ e.l.r.op = "and"

RECURSIVE Subst(_, _, _), Split(_), Val(_, _), Term(_, _)
-----------------------------------------------------------------------------
\* substBinder: comparisons, connectives and ternaries are rebuilt with v for x;
\* a call or a quantifier below is copied as it is.
Subst(e, x, v) ==
  CASE e.op = "var" -> IF e.x = x THEN Lit(v) ELSE e
    [] e.op \in {"le", "and", "implies"} -> [e EXCEPT !.l = Subst(@, x, v), !.r = Subst(@, x, v)]
    [] e.op = "ite" -> Ite(Subst(e.c, x, v), Subst(e.l, x, v), Subst(e.r, x, v))
    [] OTHER -> e

\* quantLiteralRange: the end is exclusive.
IsLiteral(e) == e.op = "all" /\ e.lo.op = "lit" /\ e.hi.op = "lit"
End(e) == IF e.incl THEN e.hi.v + 1 ELSE e.hi.v
IsUnrolled(e) == IsLiteral(e) /\ End(e) - e.lo.v <= MaxUnroll
Instances(g) == LET e == g.term IN
  IF End(e) < e.lo.v THEN <<[g EXCEPT !.term = True]>>
  ELSE [i \in 1 .. End(e) - e.lo.v |-> [g EXCEPT !.term = Subst(e.l, e.x, e.lo.v + i - 1)]]

\* Each half of an implication's conclusion under its own "all".
Halves(g) == LET half(c) == [g EXCEPT !.term.op = "all", !.term.l.r = c] IN
             <<half(g.term.l.r.l), half(g.term.l.r.r)>>

\* Mutant: the condition of a ternary is not among the premises of its branches.
BranchesOnly(g) == <<[g EXCEPT !.term = g.term.l], [g EXCEPT !.term = g.term.r]>>
Branches(g) ==
  <<[g EXCEPT !.term = g.term.l, !.premises = Append(@, [sign |-> TRUE, e |-> g.term.c])],
    [g EXCEPT !.term = g.term.r, !.premises = Append(@, [sign |-> FALSE, e |-> g.term.c])]>>

\* Each premise alone, then all of them.
Isolated(g) == Append([i \in 1 .. Len(g.premises) |-> [g EXCEPT !.premises = <<@[i]>>, !.alone = TRUE]], g)

\* splitGoalImpl: the first strategy that applies; only a conjunction goes on.
Split(g) ==
  CASE g.term.op = "and" -> Split([g EXCEPT !.term = g.term.l]) \o Split([g EXCEPT !.term = g.term.r])
    [] IsImplication(g.term) -> Halves(g)
    [] IsUnrolled(g.term) -> Instances(g)
    [] g.term.op = "ite" -> Branches(g)
    [] Len(g.premises) > 1 -> Isolated(g)
    [] OTHER -> <<g>>
\* smtDischargeGoal: a clause that splits into nothing is asked whole.
Goals(g) == LET s == Split(g) IN IF s = <<>> THEN <<g>> ELSE s

-----------------------------------------------------------------------------
(* Terms.  f is any function; a quantifier of either kind is over          *)
(* range => body (Terms.tla).                                              *)
Bind(v, x, n) == [y \in DOMAIN v \cup {x} |-> IF y = x THEN n ELSE v[y]]
Val(e, v) == CASE e.op = "var" -> v[e.x]
               [] e.op = "lit" -> e.v
               [] e.op = "call" -> 2 - Val(e.l, v)
InRange(e, v, n) == LET hi == Val(e.hi, v) IN Val(e.lo, v) <= n /\ (n < hi \/ (e.incl /\ n = hi))
Term(e, v) ==
  CASE e.op = "le" -> Val(e.l, v) <= Val(e.r, v)
    [] e.op = "and" -> Term(e.l, v) /\ Term(e.r, v)
    [] e.op = "implies" -> Term(e.l, v) => Term(e.r, v)
    [] e.op = "ite" -> IF Term(e.c, v) THEN Term(e.l, v) ELSE Term(e.r, v)
    [] e.op = "all" -> \A n \in Ints : InRange(e, v, n) => Term(e.l, Bind(v, e.x, n))
    [] e.op = "some" -> \E n \in Ints : InRange(e, v, n) => Term(e.l, Bind(v, e.x, n))
Assumed(premises, v) == \A i \in 1 .. Len(premises) : Term(premises[i].e, v) = premises[i].sign
=============================================================================
