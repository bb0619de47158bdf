----------------------------- MODULE ProofFile -----------------------------
(***************************************************************************)
(* The SMT file of one function, line by line, what a solver makes of it,  *)
(* and the proof certificate: one file per goal, cut out of the whole one  *)
(* (splitPerGoalSmt), with the answer its own run gives (runOneSolver).    *)
(*                                                                         *)
(* A formula is the set of worlds it is true in.  A line has a tag, a name *)
(* and a formula: "def" defines the name, "assert" and "deny" assert a     *)
(* name or its negation (an inline formula has no name), "head" is the     *)
(* comment `; --- discharge (<name>) ---', "ask" a query; of a query the   *)
(* formula is history: the worlds where what it is about is as it should   *)
(* be.  Statements: assert P, P by hints, calc, assume, a call that bails  *)
(* out as recursive, if, proof blocks, induction; around them the clauses  *)
(* of the signature and the obligations of the ghost section.              *)
(***************************************************************************)
EXTENDS Naturals, SequencesExt

CONSTANT Worlds

Line(tag, n, f) == [tag |-> tag, n |-> n, f |-> f]
Inline(f) == [n |-> <<>>, f |-> f]
Named(n) == [n |-> n, f |-> Worlds]
NoSymbol == <<0>>
Facts(terms) == [i \in 1 .. Len(terms) |-> Line("assert", terms[i].n, terms[i].f)]
Def(n, f) == <<Line("def", n, f)>>
Push == <<Line("push", <<>>, Worlds)>>
Pop == <<Line("pop", <<>>, Worlds)>>

RECURSIVE Walk(_, _), Hints(_, _)
-----------------------------------------------------------------------------
(* The encoder.  c: the lines written, the next label, the premises, the   *)
(* path, and, for the queries' history, the worlds the parameters' types   *)
(* leave and those that come this far.                                     *)
Write(c, lines) == [c EXCEPT !.lines = @ \o lines]
Label(c) == <<c.next>>
Fresh(c) == [c EXCEPT !.next = @ + 1]
Query(label, n, fine) == <<Line("deny", n, Worlds), Line("ask", label, fine)>>
Unheaded(label, n, premises, fine) == Push \o Facts(premises) \o Query(label, n, fine) \o Pop
\* smtDischarge
Discharge(label, n, premises, fine) == <<Line("head", label, Worlds)>> \o Unheaded(label, n, premises, fine)
Fine(c, g) == (Worlds \ c.come) \cup g
Here(c) == Append(c.premises, Inline(c.path))

\* Define a label as g and discharge it; a step of a chain is then a fact.
Goal(c, g, premises) ==
  Fresh(Write(c, Def(Label(c), g) \o Discharge(Label(c), Label(c), premises, Fine(c, g))))
Step(c, g) == [Write(Goal(c, g, Here(c)), Facts(<<Named(Label(c))>>)) EXCEPT !.premises = Append(@, Named(Label(c)))]
Hints(c, gs) == FoldLeft(Step, c, gs)
\* What a block of hints leaves behind: the lines and the labels.
After(c, d) == [c EXCEPT !.lines = d.lines, !.next = d.next]

\* Mutant: the hints of an assertion are not put in a scope of their own.
ByWithoutScope(c, s) ==
  LET p == Label(c)
      d == Hints(Fresh(Write(c, Def(p, s.g))), s.hints)
  IN After(c, Write(d, Discharge(p, p, Here(d), Fine(c, s.g))))
\* The label first, the hints in their scope, then the discharge under them; a
\* block without hints has no scope.
By(c, s) ==
  LET p == Label(c)
      d == Hints(Fresh(Write(c, Def(p, s.g) \o Push)), s.hints)
  IN IF s.hints = <<>> THEN Goal(c, s.g, Here(c))
     ELSE After(c, Write(d, Discharge(p, p, Here(d), Fine(c, s.g)) \o Pop))
\* Each step: its hints, then the step itself as one more.
Calc(c, s) == After(c, Write(Hints(Write(c, Push), s.steps), Pop))

\* A condition taken as a fact, for the whole file; of a call that is being
\* inlined already, its requires and then its ensures.
Take(c, g) == [Fresh(Write(c, Def(Label(c), g) \o Facts(<<Named(Label(c))>>))) EXCEPT !.come = @ \cap g]
Recur(c, s) == Take(Take(c, s.req), s.ens)

Branch(c, s) ==
  LET d == Walk([c EXCEPT !.path = @ \cap s.p, !.come = @ \cap s.p], s.body)
  IN [After(c, d) EXCEPT !.come = d.come \cup (@ \ s.p)]
Aside(c, s) == LET d == Walk(c, s.body) IN [After(c, d) EXCEPT !.come = d.come]
\* The base under the premises, the step under the hypothesis as well.
Induction(c, s) == LET d == Goal(c, s.base, Here(c)) IN
                   Goal([d EXCEPT !.come = @ \cap s.ih], s.g, Append(Here(d), Inline(s.ih)))

\* smtEncodeStmt
Stmt(c, s) == CASE s.op = "assert" -> Goal(c, s.g, Here(c))
                [] s.op = "by" -> By(c, s)
                [] s.op = "calc" -> Calc(c, s)
                [] s.op = "assume" -> Take(c, s.g)
                [] s.op = "recur" -> Recur(c, s)
                [] s.op = "if" -> Branch(c, s)
                [] s.op = "proof" -> Aside(c, s)
                [] s.op = "induction" -> After(c, Induction(c, s))
Walk(c, ss) == FoldLeft(Stmt, c, ss)

\* smtClause and smtDischargeGoal: the clause is defined, then each of its goals
\* is discharged as a copy.  A call in it, met both times, has its own requires
\* discharged where it stands: under no premise, and inside the goal's block.
Requires(c, req) == LET d == [c EXCEPT !.come = c.typed] IN After(c, Goal(d, req, <<>>))
\* The label of one of several goals has a '#' in it, and so its term's name.
SubGoal(c, s, g) ==
  LET p == Label(c)
      name == IF Len(s.gs) = 1 THEN Append(p, 1) ELSE NoSymbol
      d == Fresh(Write(c, <<Line("head", p, Worlds)>> \o Push \o Facts(c.premises)))
      e == IF s.req = {} THEN d ELSE Requires(d, s.req)
  IN Write(e, Def(name, g) \o Query(p, name, Fine(c, g)) \o Pop)
Clause(c, s) ==
  LET d == IF s.req = {} THEN c ELSE Requires(c, s.req)
      whole == Fresh(Write(d, Def(Label(d), Worlds)))
  IN FoldLeft(LAMBDA e, g : SubGoal(e, s, g), whole, s.gs)
\* The obligations of the ghost section have a header that says something else.
Ghost(c, g) == LET d == [c EXCEPT !.come = Worlds] IN
  Fresh(Write(c, Def(Label(d), g) \o Unheaded(Label(d), Label(d), <<>>, g)))

\* emitFnContracts: the requires are premises, a range type is also a fact of
\* the file.  The ghost section comes last.
Contract(f) ==
  LET ranged == f.range # Worlds
      c == [lines |-> Def(<<1>>, f.req) \o IF ranged THEN Def(<<2>>, f.range) \o Facts(<<Named(<<2>>)>>) ELSE <<>>,
            next |-> 3, premises |-> IF ranged THEN <<Named(<<1>>), Named(<<2>>)>> ELSE <<Named(<<1>>)>>,
            path |-> Worlds, typed |-> f.range, come |-> f.req \cap f.range]
  IN FoldLeft(Ghost, Walk(FoldLeft(Clause, c, f.clauses), f.body), f.ghost).lines

-----------------------------------------------------------------------------
(* The solver.  A line it cannot make sense of is an error and does        *)
(* nothing: a name that is no symbol, not in scope, or defined twice.      *)
Scope == [facts |-> Worlds, defs |-> <<>>]
Value(scope, line) == IF line.n = <<>> THEN line.f ELSE scope.defs[line.n]
Makes(scope, line) == line.n = <<>> \/ line.n \in DOMAIN scope.defs
Read(s, line) ==
  LET top == s.scopes[Len(s.scopes)]
      said(f) == [s EXCEPT !.scopes[Len(s.scopes)].facts = @ \cap f]
  IN CASE line.tag = "def" /\ line.n \notin DOMAIN top.defs \cup {NoSymbol} ->
            [s EXCEPT !.scopes[Len(s.scopes)].defs = (line.n :> line.f) @@ @]
       [] line.tag = "assert" /\ Makes(top, line) -> said(Value(top, line))
       [] line.tag = "deny" /\ Makes(top, line) -> said(Worlds \ Value(top, line))
       [] line.tag = "push" -> [s EXCEPT !.scopes = Append(@, top)]
       [] line.tag = "pop" /\ Len(s.scopes) > 1 -> [s EXCEPT !.scopes = Front(@)]
       [] line.tag = "ask" -> [s EXCEPT !.words = Append(@, [n |-> line.n, fine |-> line.f = Worlds,
                                                           w |-> IF top.facts = {} THEN "unsat" ELSE "sat"])]
       [] OTHER -> s
Answers(lines) == FoldLeft(Read, [scopes |-> <<Scope>>, words |-> <<>>], lines).words
\* runOneSolver: the first status word that is printed.
FirstWord(words) == IF words = <<>> THEN "unknown" ELSE words[1].w

\* Mutant: what follows a block is not collected any more.
CutThenSkip(s, line) ==
  CASE s.mode = "header" /\ line.tag # "head" -> IF s.blocks = <<>> THEN [s EXCEPT !.header = Append(@, line)] ELSE s
    [] s.mode = "header" -> [s EXCEPT !.mode = "block", !.block = <<line>>]
    [] line.tag # "pop" -> [s EXCEPT !.block = Append(@, line)]
    [] OTHER -> [s EXCEPT !.mode = "header", !.blocks = Append(@, Append(s.block, line))]
\* splitPerGoalSmt: a block goes from its header line to the first pop, every
\* other line is the header of every goal's file.
Cut(s, line) ==
  CASE s.mode = "header" /\ line.tag # "head" -> [s EXCEPT !.header = Append(@, line)]
    [] s.mode = "header" -> [s EXCEPT !.mode = "block", !.block = <<line>>]
    [] line.tag # "pop" -> [s EXCEPT !.block = Append(@, line)]
    [] OTHER -> [s EXCEPT !.mode = "header", !.blocks = Append(@, Append(s.block, line))]
Certificate(lines) ==
  LET s == FoldLeft(Cut, [mode |-> "header", header |-> <<>>, block |-> <<>>, blocks |-> <<>>], lines)
  IN [i \in 1 .. Len(s.blocks) |-> [n |-> s.blocks[i][1].n, w |-> FirstWord(Answers(s.header \o s.blocks[i]))]]
\* What the report reads, and what the certificate logs.
Asked(lines) == [words |-> Answers(lines), goals |-> Certificate(lines)]
=============================================================================
