-------------------------- MODULE ProofFileChecks --------------------------
(***************************************************************************)
(* What the answers to a proof file and its certificate are to mean, and   *)
(* the functions they are checked over.                                    *)
(***************************************************************************)
EXTENDS ProofFile

RECURSIVE Leaves(_)
Leaves(ss) ==
  FlattenSeq([i \in 1 .. Len(ss) |-> IF ss[i].op \in {"if", "proof"} THEN Leaves(ss[i].body) ELSE <<ss[i]>>])
Takes(s) == s.op \in {"assume", "recur"}
AnyTakes(ss) == \E i \in 1 .. Len(ss) : Takes(ss[i])
\* A fact taken in an arm is one of the whole file: of the other arm, of what
\* follows the "if", and of the ghost section; the range of a parameter is too.
TakesTooMuch(f) ==
  \/ \E i \in 1 .. Len(f.body) : f.body[i].op = "if" /\ AnyTakes(Leaves(f.body[i].body))
  \/ f.ghost # <<>> /\ (f.range # Worlds \/ AnyTakes(Leaves(f.body)))
\* A fact taken after a goal stands in the header of the goal's own file.
TakesLate(f) ==
  LET ls == Leaves(f.body) IN
  \E i \in 1 .. Len(ls) : Takes(ls[i]) /\ (f.clauses # <<>> \/ \E j \in 1 .. i - 1 : ~Takes(ls[j]))
\* Hints are scoped, their names gone where a goal's file asks about them.
Nests(f) == LET ls == Leaves(f.body) IN
  \E i \in 1 .. Len(ls) : (ls[i].op = "by" /\ ls[i].hints # <<>>) \/ ls[i].op = "calc"
\* Queries without a header, or with a block inside their own, are asked in the
\* header of every goal's file, and answered first.
AsksElsewhere(f) == f.ghost # <<>> \/ \E i \in 1 .. Len(f.clauses) : f.clauses[i].req # {}

\* The goals of a clause that is split are defined by names that are no symbols.
Splits(f) == \E i \in 1 .. Len(f.clauses) : Len(f.clauses[i].gs) > 1

\* A file is proved only if what each query is about is so, and what is so is
\* proved.
MeansIt(f, words) ==
  /\ TakesTooMuch(f) \/ ((\A i \in 1 .. Len(words) : words[i].w = "unsat") => \A i \in 1 .. Len(words) : words[i].fine)
  /\ \A i \in 1 .. Len(words) : words[i].fine => words[i].w = "unsat" \/ Splits(f)

\* What the certificate logs as proved is proved, and what is proved is logged.
Agrees(f, words, goals) ==
  LET proved == {words[i].n : i \in {j \in 1 .. Len(words) : words[j].w = "unsat"}} IN
  \A i \in 1 .. Len(goals) :
    /\ goals[i].w = "unsat" => goals[i].n \in proved \/ AsksElsewhere(f) \/ TakesLate(f)
    /\ goals[i].n \in proved => goals[i].w = "unsat" \/ AsksElsewhere(f) \/ Nests(f)

-----------------------------------------------------------------------------
Formulas == SUBSET Worlds
Strong == {{w} : w \in Worlds}
First == {{1}, Worlds}
Claim(g) == [op |-> "assert", g |-> g]
Claims == {Claim(g) : g \in Formulas}
Assumes == {[op |-> "assume", g |-> g] : g \in Formulas}
Plain == Claims \cup Assumes
  \cup {[op |-> "recur", req |-> r, ens |-> e] : r, e \in First}
  \cup {[op |-> "by", g |-> g, hints |-> h] : g \in Formulas, h \in {<<>>, <<{}>>, <<{1}>>}}
  \cup {[op |-> "calc", steps |-> <<a, b>>] : a \in Formulas, b \in First}
  \cup {[op |-> "induction", base |-> b, ih |-> h, g |-> g] : b, h \in First, g \in Formulas}
Inner == {<<s>> : s \in Plain} \cup {<<s, t>> : s \in Assumes, t \in Claims} \cup {<<s, t>> : s \in Claims, t \in Assumes}
Nested == {[op |-> "if", p |-> p, body |-> b] : p \in Strong, b \in Inner}
            \cup {[op |-> "proof", body |-> b] : b \in Inner}
Pres == {<<{1}, Worlds>>, <<Worlds, Worlds>>, <<Worlds, {1}>>}
Then == {<<>>} \cup {<<s>> : s \in Claims} \cup {<<[op |-> "assume", g |-> g]>> : g \in First}
Clauses == {[gs |-> gs, req |-> r] : gs \in {<<g>> : g \in Formulas} \cup {<<{1}, {2}>>, <<Worlds, {1}>>},
                                     r \in {{}, {1}, Worlds}}
Function(r, clauses, body, ghost) == [req |-> r[1], range |-> r[2], clauses |-> clauses, body |-> body, ghost |-> ghost]
=============================================================================
