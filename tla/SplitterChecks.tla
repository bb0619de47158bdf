--------------------------- MODULE SplitterChecks ---------------------------
(***************************************************************************)
(* What the goals of Splitter.tla are to decide, and the clauses they are  *)
(* checked over: contracts of a function of one parameter x.               *)
(***************************************************************************)
EXTENDS Splitter

RECURSIVE Holds(_, _), Free(_), Kept(_), Unrolled(_), Says(_, _)

\* The clause as the gate runs it.
Holds(e, v) ==
  CASE e.op = "le" -> Val(e.l, v) <= Val(e.r, v)
    [] e.op = "and" -> Holds(e.l, v) /\ Holds(e.r, v)
    [] e.op = "implies" -> Holds(e.l, v) => Holds(e.r, v)
    [] e.op = "ite" -> IF Holds(e.c, v) THEN Holds(e.l, v) ELSE Holds(e.r, v)
    [] e.op = "all" -> \A n \in Ints : InRange(e, v, n) => Holds(e.l, Bind(v, e.x, n))
    [] e.op = "some" -> \E n \in Ints : InRange(e, v, n) /\ Holds(e.l, Bind(v, e.x, n))

Free(e) == CASE e.op = "var" -> {e.x}
             [] e.op = "lit" -> {}
             [] e.op = "call" -> Free(e.l)
             [] e.op \in {"le", "and", "implies"} -> Free(e.l) \cup Free(e.r)
             [] e.op = "ite" -> Free(e.c) \cup Free(e.l) \cup Free(e.r)
             [] e.op \in Quantified -> Free(e.lo) \cup Free(e.hi) \cup (Free(e.l) \ {e.x})

\* A name that is neither the parameter nor bound is some integer.
Valid(g) == \A v \in [Free(g.term) \cup {"x"} -> Ints] : Assumed(g.premises, v) => Term(g.term, v)
Claimed(g) == \A n \in Ints : LET v == ("x" :> n) IN
                Assumed(g.premises, v) => Holds(g.term, v)

Says(q, e) == CASE e.op \in {"var", "lit", "call", "le"} -> FALSE
                [] e.op \in {"and", "implies"} -> Says(q, e.l) \/ Says(q, e.r)
                [] e.op = "ite" -> Says(q, e.l) \/ Says(q, e.r)
                [] e.op \in Quantified -> e.op = q \/ Says(q, e.l)
\* The names in e that a substitution leaves alone.
Kept(e) == CASE e.op \in {"var", "lit"} -> {}
             [] e.op = "call" -> Free(e)
             [] e.op \in {"le", "and", "implies"} -> Kept(e.l) \cup Kept(e.r)
             [] e.op = "ite" -> Kept(e.c) \cup Kept(e.l) \cup Kept(e.r)
             [] e.op \in Quantified -> Free(e)
\* The quantifiers that are unrolled.
Unrolled(e) == IF e.op = "and" THEN Unrolled(e.l) \cup Unrolled(e.r)
               ELSE IF e.op = "all" /\ ~IsImplication(e) /\ IsUnrolled(e) THEN {e} ELSE {}

\* "exists" is encoded with the range as a premise; the binder of an unrolled
\* quantifier stays in a call or under another quantifier of its body, where it
\* is any integer or, worse, a parameter of that name.
Lapse(g) == \/ Says("some", g.term)
            \/ \E q \in Unrolled(g.term) : q.x \in Kept(q.l)

\* The clause is proved when its goals are; one proved from a premise alone is
\* proved from all of them.
Decides(g, goals) ==
  /\ Lapse(g) \/ ((\A i \in 1 .. Len(goals) : goals[i].alone \/ Valid(goals[i])) <=> Claimed(g))
  /\ \A i, j \in 1 .. Len(goals) :
       goals[i].alone /\ ~goals[j].alone /\ i < j /\ goals[i].term = goals[j].term
         /\ (\A k \in i .. j - 1 : goals[k].alone) =>
       (Valid(goals[i]) => Valid(goals[j]))

-----------------------------------------------------------------------------
Atoms(k) == {Two("le", Var(k), Lit(1)), Two("le", Var("x"), Var(k)), Two("le", Call(Var(k)), Lit(1)), Two("le", Lit(1), Var("x"))}
Bodies(k) == Atoms(k) \cup {Two(op, a, b) : op \in {"and", "implies"}, a \in Atoms(k), b \in Atoms(k)}
               \cup {Two("implies", a, Two("and", b, c)) : a \in Atoms(k), b \in Atoms(k), c \in Atoms(k)}
               \cup {Ite(a, b, c) : a \in Atoms(k), b \in Atoms(k), c \in Atoms(k)}
               \cup {Quant(q, "j", Lit(0), Var(k), TRUE, Two("le", Var(k), Var("j"))) : q \in Quantified}
Ranges == {<<Lit(0), Lit(1)>>, <<Lit(1), Lit(2)>>, <<Lit(1), Lit(1)>>, <<Lit(2), Lit(0)>>,
           <<Lit(0), Var("x")>>, <<Var("x"), Lit(2)>>, <<Lit(0), Lit(3)>>}
Quants(k) == {Quant(q, k, r[1], r[2], i, b) : q \in Quantified, r \in Ranges, i \in BOOLEAN, b \in Bodies(k)}
Simple == {Quant(q, "k", r[1], r[2], TRUE, b) : q \in Quantified, r \in {<<Lit(0), Lit(1)>>, <<Lit(0), Var("x")>>}, b \in Atoms("k")}
            \cup Atoms("x")
Clauses == {Two(op, a, b) : op \in {"and", "implies"}, a \in Simple, b \in Simple}
             \cup {Ite(c, a, b) : c \in Atoms("x"), a \in Simple, b \in Simple}
Premises == LET low == [sign |-> TRUE, e |-> Two("le", Var("x"), Lit(1))]
                high == [sign |-> TRUE, e |-> Two("le", Lit(1), Var("x"))] IN {<<>>, <<low>>, <<low, high>>}
=============================================================================
