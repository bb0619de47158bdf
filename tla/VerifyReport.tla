----------------------------- MODULE VerifyReport -----------------------------
(***************************************************************************)
(* `oxide verify' end to end: the contract encoder writes one SMT file     *)
(* (emitFnContracts, the splitter, the ghost section), the solver prints   *)
(* one word per query and may stop early, and doVerify reads the file back *)
(* to find out which word belongs to which clause.  Nothing but the order  *)
(* of the lines connects a query with its clause.                          *)
(*                                                                         *)
(* A line is a header comment or a (check-sat...) query; what a query asks *)
(* about is recorded for the properties only.                              *)
(***************************************************************************)
EXTENDS Naturals, Sequences, FiniteSets

CONSTANTS Functions,     \* names of functions, lemmas and methods
          Answers,       \* result words: "unsat" and any of "sat", "unknown"
          Shapes,        \* shapes of an ensures clause, a subset of ClauseShapes
          MaxEnsures,    \* bound: ensures clauses of one function
          MaxChecks      \* bound: queries in the file

ClauseShapes == {"leaf", "quantified", "halves", "premises"}
NoResult == "(no result)"
NoFunction == "none"

ASSUME VerifyAssumption ==
  /\ {"unsat"} \subseteq Answers /\ Answers \subseteq {"unsat", "sat", "unknown"}
  /\ Shapes \subseteq ClauseShapes
  /\ MaxEnsures \in Nat /\ MaxChecks \in Nat
  /\ NoFunction \notin Functions

VARIABLES phase,     \* "emit", "solve", "read", "assign", "report", "done"
          file,      \* the SMT file: a sequence of lines
          emitted,   \* functions whose contracts are in the file
          walking,   \* the function whose contract is being encoded
          clauses,   \* how many of its ensures clauses are in the file
          part,      \* "ensures" or "body": what is being encoded of it
          returned,  \* the walk has met a return statement
          words,     \* the result words the solver has printed
          at,        \* doVerify's position in the file, then in the rows
          rows,      \* the report's rows
          ri,        \* the next word to hand out
          seen,      \* history: queries read so far
          strays,    \* history: those read before the first row
          verdict    \* the exit status

vars == <<phase, file, emitted, walking, clauses, part, returned, words, at, rows, ri, seen, strays, verdict>>
emitVars == <<file, emitted, walking, clauses, part, returned>>
readVars == <<words, at, rows, ri, seen, strays, verdict>>

(***************************************************************************)
(* Lines.                                                                  *)
(***************************************************************************)
Header(form, f, kind, i) ==
  [tag |-> "header", form |-> form, fn |-> f, kind |-> kind, idx |-> i]
Check(f, kind, i) ==
  [tag |-> "check", form |-> "query", fn |-> f, kind |-> kind, idx |-> i]

IsCheck(line) == line.tag = "check"
Checks(lines) == {p \in DOMAIN lines : IsCheck(lines[p])}

\* smtDischargeGoal: one header and one query per sub-goal, the sub-goals'
\* labels holding a '#'.  An unsplit goal repeats the header of its clause and
\* is asked again when it is quantified.  A conjunction, a ternary and a range
\* of two give halves (#s0, #s1), which must all hold; two premises are tried
\* one by one (#p0, #p1) and then together (#pfull), and one answer is enough.
SubGoals(form, f, i, n) ==
  [p \in 1..(2 * n) |-> IF p % 2 = 1 THEN Header(form, f, "ensures", i)
                                     ELSE Check(f, "ensures", i)]
Discharged(f, i, shape) ==
  LET whole == <<Header("plain", f, "ensures", i), Check(f, "ensures", i)>>
  IN CASE shape = "leaf"       -> whole
       [] shape = "quantified" -> Append(whole, Check(f, "ensures", i))
       [] shape = "halves"     -> SubGoals("half", f, i, 2)
       [] shape = "premises"   -> SubGoals("try", f, i, 3)

\* smtClause: the clause's own header, then its discharge.
Clause(f, i, shape) == <<Header("plain", f, "ensures", i)>> \o Discharged(f, i, shape)

\* The requires of a function are headers that no query follows.
Requires(f, n) == [i \in 1..n |-> Header("plain", f, "requires", i)]

\* A call discharges the callee's requires under a header that is no row.
CallRequires(f) == <<Header("call", f, "call", 0), Check(f, "call", 0)>>

\* smtDischargeEnsures: one row and one query per ensures at a return site.
ReturnSite(f, n) ==
  [p \in 1..(2 * n) |-> IF p % 2 = 1 THEN Header("plain", f, "ret", (p + 1) \div 2)
                                     ELSE Check(f, "ret", p \div 2)]

\* emitGhostSection: a preserves row may hold the discharges of the handler it
\* inlines (refines, noninterference and cycle rows look the same); the frame
\* obligation of a modifies clause, written last, has no row at all.
GhostPreserves(inner) ==
  <<Header("plain", "ghost", "preserves", 0)>>
    \o (IF inner THEN CallRequires("ghost") ELSE <<>>)
    \o <<Check("ghost", "preserves", 0)>>
GhostFrame == <<Header("frame", "ghost", "frame", 0), Check("ghost", "frame", 0)>>

(***************************************************************************)
(* The encoder.                                                            *)
(***************************************************************************)
Emit(lines) == /\ file' = file \o lines
               /\ Cardinality(Checks(file')) <= MaxChecks

\* emitFnContracts begins: requires are assumed, not discharged.
BeginFunction(f) ==
  /\ phase = "emit" /\ walking = NoFunction /\ f \in Functions \ emitted
  /\ \E n \in 0..1 : Emit(Requires(f, n))
  /\ walking' = f /\ clauses' = 0 /\ part' = "ensures" /\ returned' = FALSE
  /\ UNCHANGED <<phase, emitted>> /\ UNCHANGED readVars

\* One signature-level ensures, the fallback of the return-site proofs.
EmitEnsures ==
  /\ phase = "emit" /\ walking # NoFunction /\ part = "ensures" /\ clauses < MaxEnsures
  /\ clauses' = clauses + 1
  /\ \E shape \in Shapes : Emit(Clause(walking, clauses', shape))
  /\ UNCHANGED <<phase, emitted, walking, part, returned>> /\ UNCHANGED readVars

Finish == /\ emitted' = emitted \cup {walking}
          /\ walking' = NoFunction
          /\ UNCHANGED <<phase, clauses, part, returned>> /\ UNCHANGED readVars

\* The body of a ghost function is not walked.
SkipBody ==
  /\ phase = "emit" /\ walking # NoFunction /\ part = "ensures"
  /\ Finish /\ UNCHANGED file

StartBody ==
  /\ phase = "emit" /\ walking # NoFunction /\ part = "ensures"
  /\ part' = "body"
  /\ UNCHANGED <<phase, file, emitted, walking, clauses, returned>> /\ UNCHANGED readVars

InBody == phase = "emit" /\ walking # NoFunction /\ part = "body"
Walk(lines) == /\ InBody /\ Emit(lines)
               /\ UNCHANGED <<phase, emitted, walking, clauses, part>> /\ UNCHANGED readVars

WalkCall == Walk(CallRequires(walking)) /\ UNCHANGED returned

\* The condition of an assert may itself call a function that has requires.
Assertion(f, calls) == <<Header("plain", f, "assert", 0)>>
                         \o (IF calls THEN CallRequires(f) ELSE <<>>)
                         \o <<Check(f, "assert", 0)>>
WalkAssert == /\ \E calls \in BOOLEAN : Walk(Assertion(walking, calls))
              /\ UNCHANGED returned

\* assert P by { assert H; }: the header of P, then H whole, then P's query
\* with H among its premises.
AssertBy(f) == <<Header("plain", f, "assert", 0)>> \o Assertion(f, FALSE)
                 \o <<Check(f, "assert", 0)>>
WalkAssertBy == Walk(AssertBy(walking)) /\ UNCHANGED returned

WalkReturn == Walk(ReturnSite(walking, clauses)) /\ returned' = TRUE

\* A body that falls off its end discharges the ensures there, unless the
\* function returns nothing.
EndBody ==
  /\ InBody /\ Finish
  /\ \/ ~returned /\ Emit(ReturnSite(walking, clauses))
     \/ UNCHANGED file

EmitGhost ==
  /\ phase = "emit" /\ walking = NoFunction
  /\ \E first \in {<<>>} \cup {GhostPreserves(inner) : inner \in BOOLEAN},
        second \in {<<>>, GhostFrame} : Emit(first \o second)
  /\ phase' = "solve"
  /\ UNCHANGED <<emitted, walking, clauses, part, returned>> /\ UNCHANGED readVars

(***************************************************************************)
(* The solver: a word per query, in order; it may stop before the last one *)
(* (a parse error, a kill, a full disk).                                   *)
(***************************************************************************)
Asked == Cardinality(Checks(file))

SolverAnswers ==
  /\ phase = "solve" /\ Len(words) < Asked
  /\ \E w \in Answers : words' = Append(words, w)
  /\ UNCHANGED <<phase, at, rows, ri, seen, strays, verdict>> /\ UNCHANGED emitVars

SolverStops ==
  /\ phase = "solve"
  /\ phase' = "read" /\ at' = 1
  /\ UNCHANGED <<words, rows, ri, seen, strays, verdict>> /\ UNCHANGED emitVars

(***************************************************************************)
(* doVerify reads the file back.  A row counts the queries up to the next  *)
(* row; `first' and `last' are history: the numbers, in the whole file, of *)
(* the query before the row and of the last query that stands in it.       *)
(***************************************************************************)
StartsRow(line) == line.tag = "header" /\ line.form = "plain"

NewRow(line) == [fn |-> line.fn, kind |-> line.kind, idx |-> line.idx, checks |-> 0,
                 status |-> "assumed", first |-> seen, last |-> seen]

ReadHeader ==
  /\ phase = "read" /\ at <= Len(file) /\ StartsRow(file[at])
  /\ rows' = Append(rows, NewRow(file[at]))
  /\ at' = at + 1
  /\ UNCHANGED <<phase, words, ri, seen, strays, verdict>> /\ UNCHANGED emitVars

ReadOther ==
  /\ phase = "read" /\ at <= Len(file) /\ ~StartsRow(file[at]) /\ ~IsCheck(file[at])
  /\ at' = at + 1
  /\ UNCHANGED <<phase, words, rows, ri, seen, strays, verdict>> /\ UNCHANGED emitVars

Counted(row) == [row EXCEPT !.checks = @ + 1, !.last = seen + 1]

\* A query before the first header belongs to no row and is not counted.
ReadCheck ==
  /\ phase = "read" /\ at <= Len(file) /\ IsCheck(file[at])
  /\ IF rows = <<>> THEN strays' = strays + 1 /\ UNCHANGED rows
     ELSE rows' = [rows EXCEPT ![Len(rows)] = Counted(@)] /\ UNCHANGED strays
  /\ seen' = seen + 1 /\ at' = at + 1
  /\ UNCHANGED <<phase, words, ri, verdict>> /\ UNCHANGED emitVars

ReadEnds ==
  /\ phase = "read" /\ at > Len(file)
  /\ phase' = "assign" /\ at' = 1
  /\ UNCHANGED <<words, rows, ri, seen, strays, verdict>> /\ UNCHANGED emitVars

\* Each row takes as many words as it has queries and keeps the last of them.
TakenRegardless(n, left) == n
TakenOne(n, left) == IF left > 0 THEN 1 ELSE 0
Taken(n, left) == IF n <= left THEN n ELSE left
StatusOf(n, from) == IF from + n <= Len(words) THEN words[from + n] ELSE NoResult

Assign ==
  /\ phase = "assign" /\ at <= Len(rows)
  /\ LET n == rows[at].checks
     IN IF n = 0 THEN UNCHANGED <<rows, ri>>
        ELSE /\ rows' = [rows EXCEPT ![at].status = StatusOf(n, ri)]
             /\ ri' = ri + Taken(n, Len(words) - ri)
  /\ at' = at + 1
  /\ UNCHANGED <<phase, words, seen, strays, verdict>> /\ UNCHANGED emitVars

AssignEnds ==
  /\ phase = "assign" /\ at > Len(rows)
  /\ phase' = "report"
  /\ UNCHANGED <<words, at, rows, ri, seen, strays, verdict>> /\ UNCHANGED emitVars

\* A fallback row is ignored when its clause has a row at a return site.
HasSomeReturnSite(f, i) == \E r \in DOMAIN rows : rows[r].kind = "ret" /\ rows[r].idx = i
HasReturnSite(f, i) == \E r \in DOMAIN rows : rows[r].kind = "ret" /\ rows[r].fn = f /\ rows[r].idx = i
Ignored(row) == row.kind = "ensures" /\ HasReturnSite(row.fn, row.idx)

\* Every row that is not ignored must be proven or assumed.
AcceptedOrUnreported == {"unsat", "assumed", NoResult}
Accepted == {"unsat", "assumed"}
Report ==
  /\ phase = "report"
  /\ phase' = "done"
  /\ verdict' = IF \A r \in DOMAIN rows : Ignored(rows[r]) \/ rows[r].status \in Accepted
                THEN "success" ELSE "failure"
  /\ UNCHANGED <<words, at, rows, ri, seen, strays>> /\ UNCHANGED emitVars

Init == /\ phase = "emit" /\ file = <<>> /\ emitted = {} /\ walking = NoFunction
        /\ clauses = 0 /\ part = "ensures" /\ returned = FALSE
        /\ words = <<>> /\ at = 1 /\ rows = <<>> /\ ri = 0 /\ seen = 0 /\ strays = 0
        /\ verdict = "none"

Next == \/ \E f \in Functions : BeginFunction(f)
        \/ EmitEnsures \/ SkipBody \/ StartBody
        \/ WalkCall \/ WalkAssert \/ WalkAssertBy \/ WalkReturn \/ EndBody
        \/ EmitGhost
        \/ SolverAnswers \/ SolverStops
        \/ ReadHeader \/ ReadOther \/ ReadCheck \/ ReadEnds
        \/ Assign \/ AssignEnds \/ Report

Spec == Init /\ [][Next]_vars

(***************************************************************************)
(* Properties.                                                             *)
(***************************************************************************)
Kinds == {"requires", "ensures", "ret", "assert", "call", "preserves", "frame"}
Line == [tag: {"header", "check"}, form: {"plain", "half", "try", "call", "frame", "query"},
         fn: Functions \cup {"ghost"}, kind: Kinds, idx: Nat]
Row == [fn: Functions \cup {"ghost"}, kind: Kinds, idx: Nat, checks: Nat,
        status: Answers \cup {"assumed", NoResult}, first: Nat, last: Nat]

\* The state is well formed.
TypeOK ==
  /\ phase \in {"emit", "solve", "read", "assign", "report", "done"}
  /\ file \in Seq(Line)
  /\ emitted \subseteq Functions /\ walking \in Functions \cup {NoFunction}
  /\ clauses \in Nat /\ part \in {"ensures", "body"} /\ returned \in BOOLEAN
  /\ words \in Seq(Answers)
  /\ at \in Nat \ {0} /\ rows \in Seq(Row) /\ ri \in 0..Len(words)
  /\ seen \in Nat /\ strays \in Nat
  /\ verdict \in {"none", "success", "failure"}

\* A row of the report never shows the answer to a query that does not stand
\* under its header: unless a query stands before the first header, the status
\* of a row with queries is the answer to the last query before the next row
\* header, and a row whose answer was never printed says so.  This is the rule
\* of doVerify (Driver.cpp:7149-7154, 7214-7222).  The encoder's comments give
\* three others, and the code follows none of them: the first decisive answer
\* (ProofSplitter.cpp:447-449), the last answer that is not unknown, where unsat
\* beats the others (Driver.cpp:3221-3223), and a row of its own for each
\* sub-goal (ProofSplitter.cpp:218-220, 414-416).
RowShowsItsOwnAnswer ==
  strays = 0 /\ phase \in {"report", "done"} =>
    \A r \in DOMAIN rows :
      rows[r].checks > 0 =>
        rows[r].status = IF rows[r].last <= Len(words) THEN words[rows[r].last] ELSE NoResult

\* A solver that stops early fails the run: success means that every query of
\* the file was answered, except as many as were never counted.
LostAnswersFailTheRun ==
  verdict = "success" => Len(words) + strays >= Asked

\* The number of the query at position p and the answer to it.
Number(p) == Cardinality({q \in Checks(file) : q <= p})
Answer(p) == IF Number(p) <= Len(words) THEN words[Number(p)] ELSE NoResult

\* The queries between the row header at p and the next, those among them that
\* ask the clause itself, and those that ask a part of it.
IsRowHeader(p) == p \in DOMAIN file /\ StartsRow(file[p])
Under(p) == {q \in Checks(file) : q > p /\ \A h \in (p + 1)..q : ~IsRowHeader(h)}
SameClause(line, other) == line.fn = other.fn /\ line.kind = other.kind /\ line.idx = other.idx
Own(p) == {q \in Under(p) : SameClause(file[q], file[p])}
Halves(p) == {q \in Own(p) : file[q - 1].form = "half"}

\* A clause is proved when all its halves are, or, if it is asked whole, when
\* one of the askings is.
IsProved(p) == IF Halves(p) # {} THEN \A q \in Halves(p) : Answer(q) = "unsat"
                                ELSE \E q \in Own(p) : Answer(q) = "unsat"

\* A query of the clause that was not proved stands in front of one that was,
\* and that is another half, or a query on something else without a row.
IsMasked(p) == \E q \in Own(p), o \in Under(p) :
                 /\ q < o /\ Answer(q) # "unsat" /\ Answer(o) = "unsat"
                 /\ q \in Halves(p) \/ o \notin Own(p)

\* The row headers of the clause of p at the returns of its function.
ReturnSites(p) == {q \in DOMAIN file : IsRowHeader(q) /\ file[q].kind = "ret"
                                         /\ file[q].fn = file[p].fn /\ file[q].idx = file[p].idx}

\* When doVerify reports success, every ensures clause that is asked was proved
\* at its fallback row, or it has return sites and was proved at every one of
\* them: a superseded fallback is always backed by proofs of the same clause of
\* the same function.  The one lapse is a masked answer: a later sub-goal of
\* the clause (6928), or the precondition of a call after a return site (6904),
\* is read in the place of the clause's own query (7214-7222), as
\* SplitClausesAreProvedWhole shows.
OnlyMaskedClausesLackAProof ==
  verdict = "success" /\ strays = 0 =>
    \A p \in DOMAIN file :
      IsRowHeader(p) /\ file[p].kind = "ensures" /\ Own(p) # {} =>
        IF ReturnSites(p) = {} THEN IsProved(p) \/ IsMasked(p)
        ELSE \A q \in ReturnSites(p) : IsProved(q) \/ IsMasked(q)

\* ProofSplitter.cpp:414-416: "the parent clause is proven iff ALL sub-rows are
\* unsat", the AND semantics of a split clause.  So, when verify reports success
\* on a file whose queries were all answered, with none before the first header,
\* every half of an ensures clause that no return site supersedes was proved.
SplitClausesAreProvedWhole ==
  verdict = "success" /\ strays = 0 /\ Len(words) = Asked =>
    \A p \in DOMAIN file :
      IsRowHeader(p) /\ file[p].kind = "ensures" /\ ReturnSites(p) = {} =>
        \A q \in Halves(p) : Answer(q) = "unsat"

\* Driver.cpp:7310-7311: "Non-zero exit if anything failed to discharge (sat or
\* unknown) or was unreported.  A clean verify is all-unsat."  So, when verify
\* reports success on a file whose queries were all answered, with none before
\* the first header, the query of every assert in a body was answered unsat.
SuccessMeansAssertsHold ==
  verdict = "success" /\ strays = 0 /\ Len(words) = Asked =>
    \A p \in Checks(file) : file[p].kind = "assert" => Answer(p) = "unsat"
=============================================================================
