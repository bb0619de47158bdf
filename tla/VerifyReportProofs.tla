-------------------------- MODULE VerifyReportProofs --------------------------
(***************************************************************************)
(* The verify report for every set of functions, shapes and bounds: the    *)
(* state is well formed, and no row ever shows another row's answer as     *)
(* long as no query stands before the first header.  And what it means     *)
(* that doVerify exits with success.  No answer is missing: the last row   *)
(* with a query is the one that would lose it, and it cannot hide as a     *)
(* superseded fallback, since the return site that supersedes it is        *)
(* written, and read, after it.  And an ensures clause was proved unless   *)
(* one of its queries is masked: each header has a row, with the last      *)
(* query under the one as the last query of the other.                     *)
(***************************************************************************)
EXTENDS VerifyReport, SequenceTheorems, FiniteSetTheorems, TLAPS

\* Two sequences of lines make a sequence of lines.
LEMMA LinesConcat ==
  ASSUME NEW s \in Seq(Line), NEW t \in Seq(Line)
  PROVE  s \o t \in Seq(Line)
BY ConcatProperties

LEMMA HeaderIsLine ==
  ASSUME NEW form \in {"plain", "half", "try", "call", "frame"},
         NEW f \in Functions \cup {"ghost"}, NEW kind \in Kinds, NEW i \in Nat
  PROVE  /\ Header(form, f, kind, i) \in Line
         /\ Check(f, kind, i) \in Line
BY DEF Header, Check, Line

\* What the walk of a body and the ghost section append are lines.
LEMMA BodyLines ==
  ASSUME NEW f \in Functions \cup {"ghost"}
  PROVE  /\ CallRequires(f) \in Seq(Line)
         /\ \A calls \in BOOLEAN : Assertion(f, calls) \in Seq(Line)
         /\ AssertBy(f) \in Seq(Line)
         /\ \A n \in Nat : ReturnSite(f, n) \in Seq(Line)
         /\ \A n \in Nat : Requires(f, n) \in Seq(Line)
<1>1. /\ Header("plain", f, "assert", 0) \in Line
      /\ Check(f, "assert", 0) \in Line
      /\ Header("call", f, "call", 0) \in Line
      /\ Check(f, "call", 0) \in Line
  BY HeaderIsLine DEF Kinds
<1>2. CallRequires(f) \in Seq(Line)
  BY <1>1 DEF CallRequires
<1>3. /\ <<Header("plain", f, "assert", 0)>> \in Seq(Line)
      /\ <<Check(f, "assert", 0)>> \in Seq(Line)
      /\ <<>> \in Seq(Line)
  BY <1>1
<1>4. ASSUME NEW calls \in BOOLEAN
      PROVE  Assertion(f, calls) \in Seq(Line)
  <2>1. (IF calls THEN CallRequires(f) ELSE <<>>) \in Seq(Line)
    BY <1>2, <1>3
  <2> QED
    BY <2>1, <1>3, LinesConcat DEF Assertion
<1>5. AssertBy(f) \in Seq(Line)
  BY <1>3, <1>4, LinesConcat DEF AssertBy
<1>6. ASSUME NEW n \in Nat
      PROVE  ReturnSite(f, n) \in Seq(Line)
  <2>1. ASSUME NEW p \in 1..(2 * n)
        PROVE  (IF p % 2 = 1 THEN Header("plain", f, "ret", (p + 1) \div 2)
                             ELSE Check(f, "ret", p \div 2)) \in Line
    BY HeaderIsLine DEF Kinds
  <2>2. 2 * n \in Nat
    OBVIOUS
  <2> QED
    BY <2>1, <2>2, IsASeq DEF ReturnSite
<1>7. ASSUME NEW n \in Nat
      PROVE  Requires(f, n) \in Seq(Line)
  <2>1. \A i \in 1..n : Header("plain", f, "requires", i) \in Line
    BY HeaderIsLine DEF Kinds
  <2> QED
    BY <2>1, IsASeq DEF Requires
<1> QED
  BY <1>2, <1>4, <1>5, <1>6, <1>7

LEMMA DischargedLines ==
  ASSUME NEW f \in Functions, NEW i \in Nat, NEW shape \in ClauseShapes
  PROVE  Discharged(f, i, shape) \in Seq(Line)
<1>1. /\ Header("plain", f, "ensures", i) \in Line
      /\ \A form \in {"half", "try"} : Header(form, f, "ensures", i) \in Line
      /\ Check(f, "ensures", i) \in Line
  BY HeaderIsLine DEF Kinds
<1>2. ASSUME NEW n \in Nat, NEW form \in {"half", "try"}
      PROVE  SubGoals(form, f, i, n) \in Seq(Line)
  <2>1. \A p \in 1..(2 * n) : (IF p % 2 = 1 THEN Header(form, f, "ensures", i)
                                             ELSE Check(f, "ensures", i)) \in Line
    BY <1>1
  <2>2. 2 * n \in Nat
    OBVIOUS
  <2> QED
    BY <2>1, <2>2, IsASeq DEF SubGoals
<1>3. Discharged(f, i, shape) \in Seq(Line)
  <2>1. <<Header("plain", f, "ensures", i), Check(f, "ensures", i)>> \in Seq(Line)
    BY <1>1
  <2>2. Append(<<Header("plain", f, "ensures", i), Check(f, "ensures", i)>>,
               Check(f, "ensures", i)) \in Seq(Line)
    BY <2>1, <1>1
  <2>3. SubGoals("half", f, i, 2) \in Seq(Line) /\ SubGoals("try", f, i, 3) \in Seq(Line)
    BY <1>2
  <2>4. CASE shape = "leaf"
    BY <2>1, <2>4 DEF Discharged
  <2>5. CASE shape = "quantified"
    BY <2>2, <2>5 DEF Discharged
  <2>6. CASE shape = "halves"
    BY <2>3, <2>6 DEF Discharged
  <2>7. CASE shape = "premises"
    BY <2>3, <2>7 DEF Discharged
  <2> QED
    BY <2>4, <2>5, <2>6, <2>7 DEF ClauseShapes
<1> QED
  BY <1>3

LEMMA ClauseLines ==
  ASSUME NEW f \in Functions, NEW i \in Nat, NEW shape \in ClauseShapes
  PROVE  Clause(f, i, shape) \in Seq(Line)
<1>1. <<Header("plain", f, "ensures", i)>> \in Seq(Line)
  BY HeaderIsLine DEF Kinds
<1> QED
  BY <1>1, DischargedLines, LinesConcat DEF Clause

LEMMA GhostLines ==
  /\ \A inner \in BOOLEAN : GhostPreserves(inner) \in Seq(Line)
  /\ GhostFrame \in Seq(Line)
<1>1. /\ Header("plain", "ghost", "preserves", 0) \in Line
      /\ Check("ghost", "preserves", 0) \in Line
      /\ Header("frame", "ghost", "frame", 0) \in Line
      /\ Check("ghost", "frame", 0) \in Line
  BY HeaderIsLine DEF Kinds
<1>2. GhostFrame \in Seq(Line)
  BY <1>1 DEF GhostFrame
<1>3. ASSUME NEW inner \in BOOLEAN
      PROVE  GhostPreserves(inner) \in Seq(Line)
  <2>1. (IF inner THEN CallRequires("ghost") ELSE <<>>) \in Seq(Line)
    BY BodyLines
  <2>2. /\ <<Header("plain", "ghost", "preserves", 0)>> \in Seq(Line)
        /\ <<Check("ghost", "preserves", 0)>> \in Seq(Line)
    BY <1>1
  <2> QED
    BY <2>1, <2>2, LinesConcat DEF GhostPreserves
<1> QED
  BY <1>2, <1>3

(***************************************************************************)
(* Type correctness.                                                       *)
(***************************************************************************)
LEMMA InitTyped == Init => TypeOK
<1> SUFFICES ASSUME Init PROVE TypeOK
  OBVIOUS
<1>1. file \in Seq(Line) /\ words \in Seq(Answers) /\ rows \in Seq(Row)
  BY DEF Init
<1>2. ri \in 0..Len(words)
  BY DEF Init
<1>3. at \in Nat \ {0} /\ clauses \in Nat /\ seen \in Nat /\ strays \in Nat
  BY DEF Init
<1>4. /\ emitted \subseteq Functions
      /\ walking \in Functions \cup {NoFunction}
      /\ returned \in BOOLEAN
  BY DEF Init
<1>5. /\ phase \in {"emit", "solve", "read", "assign", "report", "done"}
      /\ part \in {"ensures", "body"}
      /\ verdict \in {"none", "success", "failure"}
  BY DEF Init
<1> QED
  BY <1>1, <1>2, <1>3, <1>4, <1>5 DEF TypeOK

LEMMA EmitTyped ==
  ASSUME TypeOK, NEW lines \in Seq(Line), Emit(lines)
  PROVE  file' \in Seq(Line)
BY LinesConcat DEF Emit, TypeOK

LEMMA NextTyped == TypeOK /\ [Next]_vars => TypeOK'
<1> SUFFICES ASSUME TypeOK, [Next]_vars PROVE TypeOK'
  OBVIOUS
<1> USE VerifyAssumption
<1>w. walking # NoFunction => walking \in Functions
  BY DEF TypeOK
<1>1. ASSUME NEW f \in Functions, BeginFunction(f) PROVE TypeOK'
  <2>1. PICK n \in 0..1 : Emit(Requires(f, n))
    BY <1>1 DEF BeginFunction
  <2>2. file' \in Seq(Line)
    <3>1. n \in Nat
      OBVIOUS
    <3>2. Requires(f, n) \in Seq(Line)
      BY <3>1, BodyLines
    <3> QED
      BY <2>1, <3>2, EmitTyped
  <2> QED
    BY <1>1, <2>2 DEF BeginFunction, TypeOK, readVars
<1>2. CASE EmitEnsures
  <2>1. PICK shape \in Shapes : Emit(Clause(walking, clauses', shape))
    BY <1>2 DEF EmitEnsures
  <2>2. clauses' \in Nat /\ walking \in Functions /\ shape \in ClauseShapes
    BY <1>2, <1>w DEF EmitEnsures, TypeOK
  <2>3. file' \in Seq(Line)
    BY <2>1, <2>2, EmitTyped, ClauseLines
  <2> QED
    BY <1>2, <2>2, <2>3 DEF EmitEnsures, TypeOK, readVars
<1>3. CASE SkipBody
  BY <1>3, <1>w DEF SkipBody, Finish, TypeOK, readVars
<1>4. CASE StartBody
  BY <1>4 DEF StartBody, TypeOK, readVars
<1>5. ASSUME NEW lines \in Seq(Line), Walk(lines), returned' \in BOOLEAN PROVE TypeOK'
  <2>1. file' \in Seq(Line)
    BY <1>5, EmitTyped DEF Walk
  <2> QED
    BY <1>5, <2>1 DEF Walk, TypeOK, readVars
<1>6. CASE WalkCall
  <2>1. walking \in Functions /\ returned' \in BOOLEAN
    BY <1>6, <1>w DEF WalkCall, Walk, InBody, TypeOK
  <2> QED
    BY <1>6, <2>1, <1>5, BodyLines DEF WalkCall
<1>7. CASE WalkAssert
  <2>1. PICK calls \in BOOLEAN : Walk(Assertion(walking, calls))
    BY <1>7 DEF WalkAssert
  <2>2. walking \in Functions /\ returned' \in BOOLEAN
    BY <1>7, <2>1, <1>w DEF WalkAssert, Walk, InBody, TypeOK
  <2>3. Assertion(walking, calls) \in Seq(Line)
    BY <2>2, BodyLines
  <2> QED
    BY <2>1, <2>2, <2>3, <1>5
<1>8. CASE WalkAssertBy
  <2>1. walking \in Functions /\ returned' \in BOOLEAN
    BY <1>8, <1>w DEF WalkAssertBy, Walk, InBody, TypeOK
  <2> QED
    BY <1>8, <2>1, <1>5, BodyLines DEF WalkAssertBy
<1>9. CASE WalkReturn
  <2>1. walking \in Functions /\ returned' \in BOOLEAN /\ clauses \in Nat
    BY <1>9, <1>w DEF WalkReturn, Walk, InBody, TypeOK
  <2>2. ReturnSite(walking, clauses) \in Seq(Line)
    BY <2>1, BodyLines
  <2> QED
    BY <1>9, <2>1, <2>2, <1>5 DEF WalkReturn
<1>10. CASE EndBody
  <2>1. walking \in Functions /\ clauses \in Nat
    BY <1>10, <1>w DEF EndBody, InBody, TypeOK
  <2>2. ReturnSite(walking, clauses) \in Seq(Line)
    BY <2>1, BodyLines
  <2>3. file' \in Seq(Line)
    BY <1>10, <2>2, EmitTyped DEF EndBody, TypeOK
  <2> QED
    BY <1>10, <2>1, <2>3 DEF EndBody, Finish, TypeOK, readVars
<1>11. CASE EmitGhost
  <2>1. PICK first \in {<<>>} \cup {GhostPreserves(inner) : inner \in BOOLEAN},
             second \in {<<>>, GhostFrame} : Emit(first \o second)
    BY <1>11 DEF EmitGhost
  <2>2. file' \in Seq(Line)
    <3>1. <<>> \in Seq(Line)
      OBVIOUS
    <3>2. first \in Seq(Line) /\ second \in Seq(Line)
      BY <3>1, GhostLines
    <3> QED
      BY <2>1, <3>2, EmitTyped, LinesConcat
  <2> QED
    BY <1>11, <2>2 DEF EmitGhost, TypeOK, readVars
<1>12. CASE SolverAnswers
  BY <1>12 DEF SolverAnswers, TypeOK, emitVars
<1>13. CASE SolverStops
  BY <1>13 DEF SolverStops, TypeOK, emitVars
<1>14. CASE ReadHeader
  <2>1. file[at] \in Line
    BY <1>14 DEF ReadHeader, TypeOK
  <2>2. NewRow(file[at]) \in Row
    BY <2>1 DEF NewRow, Row, Line, TypeOK
  <2> QED
    BY <1>14, <2>2 DEF ReadHeader, TypeOK, emitVars
<1>15. CASE ReadOther
  BY <1>15 DEF ReadOther, TypeOK, emitVars
<1>16. CASE ReadCheck
  <2>1. CASE rows = <<>>
    BY <1>16, <2>1 DEF ReadCheck, TypeOK, emitVars
  <2>2. CASE rows # <<>>
    <3>1. rows[Len(rows)] \in Row
      BY <2>2 DEF TypeOK
    <3>2. Counted(rows[Len(rows)]) \in Row
      <4>1. seen + 1 \in Nat /\ rows[Len(rows)].checks + 1 \in Nat
        BY <3>1 DEF Row, TypeOK
      <4> QED
        BY <3>1, <4>1 DEF Counted, Row
    <3>3. rows' \in Seq(Row)
      BY <1>16, <2>2, <3>2 DEF ReadCheck, TypeOK
    <3> QED
      BY <1>16, <2>2, <3>3 DEF ReadCheck, TypeOK, emitVars
  <2> QED
    BY <2>1, <2>2
<1>17. CASE ReadEnds
  BY <1>17 DEF ReadEnds, TypeOK, emitVars
<1>18. CASE Assign
  <2>1. rows[at] \in Row
    BY <1>18 DEF Assign, TypeOK
  <2>2. CASE rows[at].checks = 0
    BY <1>18, <2>2 DEF Assign, TypeOK, emitVars
  <2>3. CASE rows[at].checks # 0
    <3>1. StatusOf(rows[at].checks, ri) \in Answers \cup {NoResult}
      BY <2>1, <2>3, SMTT(30) DEF StatusOf, TypeOK, Row
    <3>2. [rows[at] EXCEPT !.status = StatusOf(rows[at].checks, ri)] \in Row
      BY <2>1, <3>1 DEF Row
    <3>3. rows' \in Seq(Row)
      <4>1. rows \in Seq(Row) /\ at \in 1..Len(rows)
        BY <1>18 DEF Assign, TypeOK
      <4>2. rows' = [rows EXCEPT ![at] = [rows[at] EXCEPT !.status = StatusOf(rows[at].checks, ri)]]
        BY <1>18, <2>3 DEF Assign
      <4> QED
        BY <3>2, <4>1, <4>2
    <3>4. ri' \in 0..Len(words')
      <4>1. rows[at].checks \in Nat
        BY <2>1 DEF Row
      <4>2. Len(words) \in Nat /\ ri \in 0..Len(words)
        BY DEF TypeOK
      <4>3. ri' = ri + Taken(rows[at].checks, Len(words) - ri) /\ words' = words
        BY <1>18, <2>3 DEF Assign
      <4> QED
        BY <4>1, <4>2, <4>3 DEF Taken
    <3> QED
      BY <1>18, <3>3, <3>4 DEF Assign, TypeOK, emitVars
  <2> QED
    BY <2>2, <2>3
<1>19. CASE AssignEnds
  BY <1>19 DEF AssignEnds, TypeOK, emitVars
<1>20. CASE Report
  BY <1>20 DEF Report, TypeOK, emitVars
<1>21. CASE UNCHANGED vars
  BY <1>21 DEF vars, TypeOK
<1> QED
  BY <1>1, <1>2, <1>3, <1>4, <1>6, <1>7, <1>8, <1>9, <1>10, <1>11, <1>12, <1>13, <1>14,
     <1>15, <1>16, <1>17, <1>18, <1>19, <1>20, <1>21 DEF Next

\* Every reachable state is well formed.
THEOREM TypeCorrect == Spec => []TypeOK
BY InitTyped, NextTyped, PTL DEF Spec

(***************************************************************************)
(* No row shows another row's answer.  The rows partition the queries of   *)
(* the file: each begins where the one before ends.  The next word to hand *)
(* out is then the number of queries of the rows already served, or the    *)
(* number of words when they ran out.                                      *)
(***************************************************************************)
Reported(row) ==
  IF row.last - strays <= Len(words) THEN words[row.last - strays] ELSE NoResult

RowsAreContiguous ==
  /\ \A r \in 1..Len(rows) : rows[r].last = rows[r].first + rows[r].checks
  /\ \A r \in 1..Len(rows) : rows[r].first >= strays
  /\ \A r \in 2..Len(rows) : rows[r].first = rows[r - 1].last
  /\ Len(rows) > 0 => rows[1].first = strays

ReaderIsAtTheLastRow ==
  /\ phase \in {"emit", "solve"} => rows = <<>> /\ seen = 0 /\ ri = 0 /\ strays = 0
  /\ phase = "read" => /\ ri = 0
                       /\ seen = IF rows = <<>> THEN strays ELSE rows[Len(rows)].last

\* Queries of the rows before row n.
Before(n) == IF n = 1 THEN 0 ELSE rows[n - 1].last - strays

WordsAreInStep ==
  phase = "assign" =>
    /\ at <= Len(rows) + 1
    /\ ri = IF Before(at) <= Len(words) THEN Before(at) ELSE Len(words)

ServedRowsAreRight ==
  /\ phase = "assign" =>
       \A r \in 1..Len(rows) : r < at /\ rows[r].checks > 0 => rows[r].status = Reported(rows[r])
  /\ phase \in {"report", "done"} =>
       \A r \in 1..Len(rows) : rows[r].checks > 0 => rows[r].status = Reported(rows[r])

RowInv == /\ TypeOK /\ RowsAreContiguous /\ ReaderIsAtTheLastRow
          /\ WordsAreInStep /\ ServedRowsAreRight

LEMMA RowInvInit == Init => RowInv
<1> SUFFICES ASSUME Init PROVE RowInv
  OBVIOUS
<1>1. rows = <<>> /\ Len(rows) = 0 /\ phase = "emit" /\ seen = 0 /\ ri = 0 /\ strays = 0
  BY DEF Init
<1> QED
  BY <1>1, InitTyped DEF RowInv, RowsAreContiguous, ReaderIsAtTheLastRow, WordsAreInStep,
     ServedRowsAreRight

\* A step that leaves the reader's variables alone, but may change the file.
LEMMA EmitKeepsRowInv ==
  ASSUME RowInv, TypeOK', phase = "emit", UNCHANGED readVars, phase' \in {"emit", "solve"}
  PROVE  RowInv'
<1>1. rows' = rows /\ seen' = seen /\ ri' = ri /\ strays' = strays /\ rows = <<>> /\ seen = 0 /\ ri = 0
  BY DEF readVars, RowInv, ReaderIsAtTheLastRow
<1>2. Len(rows) = 0
  BY <1>1
<1> QED
  BY <1>1, <1>2 DEF RowInv, RowsAreContiguous, ReaderIsAtTheLastRow, WordsAreInStep,
     ServedRowsAreRight

LEMMA RowInvEmit ==
  ASSUME RowInv, TypeOK',
         \/ \E f \in Functions : BeginFunction(f)
         \/ EmitEnsures \/ SkipBody \/ StartBody
         \/ WalkCall \/ WalkAssert \/ WalkAssertBy \/ WalkReturn \/ EndBody
         \/ EmitGhost
  PROVE  RowInv'
<1>1. phase = "emit" /\ UNCHANGED readVars /\ phase' \in {"emit", "solve"}
  BY DEF BeginFunction, EmitEnsures, SkipBody, StartBody, WalkCall, WalkAssert, WalkAssertBy,
     WalkReturn, EndBody, EmitGhost, Finish, Walk, InBody
<1> QED
  BY <1>1, EmitKeepsRowInv

LEMMA RowInvSolve ==
  ASSUME RowInv, TypeOK', SolverAnswers \/ SolverStops
  PROVE  RowInv'
<1>1. /\ rows = <<>> /\ Len(rows) = 0 /\ seen = 0 /\ ri = 0 /\ strays = 0
      /\ UNCHANGED <<rows, seen, ri, strays>> /\ phase' \in {"solve", "read"}
  BY DEF SolverAnswers, SolverStops, RowInv, ReaderIsAtTheLastRow
<1> QED
  BY <1>1 DEF RowInv, RowsAreContiguous, ReaderIsAtTheLastRow, WordsAreInStep,
     ServedRowsAreRight

LEMMA RowInvReadHeader ==
  ASSUME RowInv, TypeOK', ReadHeader
  PROVE  RowInv'
<1> DEFINE n == Len(rows)
<1>1. /\ rows \in Seq(Row) /\ n \in Nat /\ seen \in Nat /\ phase = "read" /\ phase' = "read"
      /\ rows' = Append(rows, NewRow(file[at]))
      /\ UNCHANGED <<ri, seen, strays>> /\ ri = 0
  BY DEF ReadHeader, RowInv, TypeOK, ReaderIsAtTheLastRow
<1>2. /\ NewRow(file[at]).first = seen /\ NewRow(file[at]).last = seen
      /\ NewRow(file[at]).checks = 0
  BY DEF NewRow
<1>3. /\ Len(rows') = n + 1 /\ rows'[n + 1] = NewRow(file[at])
      /\ \A r \in 1..n : rows'[r] = rows[r]
  BY <1>1
<1>4. /\ seen = IF n = 0 THEN strays ELSE rows[n].last
      /\ strays \in Nat /\ seen >= strays
  <2>1. seen = IF n = 0 THEN strays ELSE rows[n].last
    BY <1>1 DEF RowInv, ReaderIsAtTheLastRow
  <2>2. n # 0 => n \in 1..n /\ rows[n] \in Row
    BY <1>1
  <2>3. n # 0 => rows[n].last = rows[n].first + rows[n].checks /\ rows[n].first >= strays
    BY <2>2 DEF RowInv, RowsAreContiguous
  <2>4. n # 0 => rows[n].first \in Nat /\ rows[n].checks \in Nat
    BY <2>2 DEF Row
  <2>5. strays \in Nat
    BY DEF RowInv, TypeOK
  <2>6. n # 0 => rows[n].last >= strays
    BY <2>3, <2>4, <2>5
  <2> QED
    BY <2>1, <2>5, <2>6
<1>5. RowsAreContiguous'
  <2>0. ASSUME NEW r \in 1..Len(rows') PROVE rows'[r].first >= strays
    <3>1. CASE r = n + 1
      BY <1>2, <1>3, <1>4, <3>1
    <3>2. CASE r \in 1..n
      BY <1>3, <3>2 DEF RowInv, RowsAreContiguous
    <3> QED
      BY <1>1, <1>3, <3>1, <3>2
  <2>1. ASSUME NEW r \in 1..Len(rows') PROVE rows'[r].last = rows'[r].first + rows'[r].checks
    <3>1. CASE r = n + 1
      BY <1>1, <1>2, <1>3, <3>1
    <3>2. CASE r \in 1..n
      BY <1>3, <3>2 DEF RowInv, RowsAreContiguous
    <3> QED
      BY <1>1, <1>3, <3>1, <3>2
  <2>2. ASSUME NEW r \in 2..Len(rows') PROVE rows'[r].first = rows'[r - 1].last
    <3>1. CASE r = n + 1
      BY <1>1, <1>2, <1>3, <1>4, <3>1
    <3>2. CASE r \in 2..n
      BY <1>1, <1>3, <3>2 DEF RowInv, RowsAreContiguous
    <3> QED
      BY <1>1, <1>3, <3>1, <3>2
  <2>3. rows'[1].first = strays
    BY <1>1, <1>2, <1>3, <1>4 DEF RowInv, RowsAreContiguous
  <2> QED
    BY <1>1, <2>0, <2>1, <2>2, <2>3 DEF RowsAreContiguous
<1>6. ReaderIsAtTheLastRow'
  BY <1>1, <1>2, <1>3 DEF ReaderIsAtTheLastRow
<1> QED
  BY <1>1, <1>5, <1>6 DEF RowInv, WordsAreInStep, ServedRowsAreRight

LEMMA RowInvReadCheck ==
  ASSUME RowInv, TypeOK', ReadCheck
  PROVE  RowInv'
<1> DEFINE n == Len(rows)
<1>1. /\ rows \in Seq(Row) /\ n \in Nat /\ seen \in Nat /\ strays \in Nat
      /\ phase = "read" /\ phase' = "read" /\ seen' = seen + 1
      /\ ri' = ri /\ ri = 0
  BY DEF ReadCheck, RowInv, TypeOK, ReaderIsAtTheLastRow
<1>2. CASE rows = <<>>
  <2>1. rows' = <<>> /\ Len(rows') = 0 /\ strays' = strays + 1 /\ seen = strays
    BY <1>1, <1>2 DEF ReadCheck, RowInv, ReaderIsAtTheLastRow
  <2> QED
    BY <1>1, <2>1 DEF RowInv, RowsAreContiguous, ReaderIsAtTheLastRow, WordsAreInStep,
       ServedRowsAreRight
<1>3. CASE rows # <<>>
  <2>1. /\ rows' = [rows EXCEPT ![n] = Counted(rows[n])] /\ strays' = strays /\ n > 0
        /\ rows[n] \in Row
    BY <1>1, <1>3 DEF ReadCheck
  <2>2. /\ Counted(rows[n]).first = rows[n].first
        /\ Counted(rows[n]).checks = rows[n].checks + 1
        /\ Counted(rows[n]).last = seen + 1
    BY <2>1 DEF Counted, Row
  <2>3. /\ Len(rows') = n /\ rows'[n] = Counted(rows[n])
        /\ \A r \in 1..n : r # n => rows'[r] = rows[r]
    BY <1>1, <2>1
  <2>4. seen = rows[n].last
    BY <1>1, <1>3 DEF RowInv, ReaderIsAtTheLastRow
  <2>5. ASSUME NEW r \in 1..n
        PROVE  rows[r].first \in Nat /\ rows[r].last \in Nat /\ rows[r].checks \in Nat
    <3>1. rows[r] \in Row
      BY <1>1
    <3> QED
      BY <3>1 DEF Row
  <2>6. RowsAreContiguous'
    <3>0. ASSUME NEW r \in 1..n PROVE rows'[r].first >= strays
      <4>1. rows'[r].first = rows[r].first
        BY <2>2, <2>3
      <4> QED
        BY <4>1 DEF RowInv, RowsAreContiguous
    <3>1. ASSUME NEW r \in 1..n PROVE rows'[r].last = rows'[r].first + rows'[r].checks
      <4>1. rows[r].last = rows[r].first + rows[r].checks
        BY DEF RowInv, RowsAreContiguous
      <4>2. CASE r = n
        <5>1. rows'[r].last = rows[r].last + 1
          BY <2>2, <2>3, <2>4, <4>2
        <5>2. rows'[r].first = rows[r].first /\ rows'[r].checks = rows[r].checks + 1
          BY <2>2, <2>3, <4>2
        <5> DEFINE a == rows[r].first  b == rows[r].last  k == rows[r].checks
        <5>3. a \in Nat /\ b \in Nat /\ k \in Nat /\ b = a + k
          BY <2>5, <4>1
        <5> HIDE DEF a, b, k
        <5>4. b + 1 = a + (k + 1)
          BY ONLY <5>3
        <5> QED
          BY <5>1, <5>2, <5>4 DEF a, b, k
      <4>3. CASE r # n
        <5>1. rows'[r] = rows[r]
          BY <2>3, <4>3
        <5> QED
          BY <4>1, <5>1
      <4> QED
        BY <4>2, <4>3
    <3>2. ASSUME NEW r \in 2..n PROVE rows'[r].first = rows'[r - 1].last
      <4>1. rows[r].first = rows[r - 1].last
        BY DEF RowInv, RowsAreContiguous
      <4>2. r \in 1..n /\ r - 1 \in 1..n /\ r - 1 # n
        BY <1>1
      <4>3. rows'[r].first = rows[r].first
        BY <2>2, <2>3, <4>2
      <4>4. rows'[r - 1] = rows[r - 1]
        BY <2>3, <4>2
      <4> QED
        BY <4>1, <4>3, <4>4
    <3>3. rows'[1].first = strays
      <4>1. rows[1].first = strays /\ 1 \in 1..n
        BY <1>1, <2>1 DEF RowInv, RowsAreContiguous
      <4> QED
        BY <4>1, <2>2, <2>3
    <3> QED
      BY <2>1, <2>3, <3>0, <3>1, <3>2, <3>3 DEF RowsAreContiguous
  <2>7. ReaderIsAtTheLastRow'
    <3>1. rows' # <<>>
      <4> SUFFICES ASSUME rows' = <<>> PROVE FALSE
        OBVIOUS
      <4>1. Len(rows') = 0
        OBVIOUS
      <4> QED
        BY <4>1, <2>1, <2>3
    <3>2. rows'[Len(rows')].last = seen'
      BY <1>1, <2>2, <2>3
    <3> QED
      BY <1>1, <3>1, <3>2 DEF ReaderIsAtTheLastRow
  <2> QED
    BY <1>1, <2>6, <2>7 DEF RowInv, WordsAreInStep, ServedRowsAreRight
<1> QED
  BY <1>2, <1>3

LEMMA RowInvReadOther ==
  ASSUME RowInv, TypeOK', ReadOther \/ ReadEnds
  PROVE  RowInv'
<1>1. /\ phase = "read" /\ ri = 0 /\ UNCHANGED <<rows, words, ri, seen, strays>>
      /\ rows \in Seq(Row) /\ Len(words) \in Nat
  BY DEF ReadOther, ReadEnds, RowInv, ReaderIsAtTheLastRow, TypeOK
<1>2. CASE ReadOther
  BY <1>1, <1>2 DEF ReadOther, RowInv, RowsAreContiguous, ReaderIsAtTheLastRow,
     WordsAreInStep, ServedRowsAreRight
<1>3. CASE ReadEnds
  <2>1. phase' = "assign" /\ at' = 1
    BY <1>3 DEF ReadEnds
  <2>2. RowsAreContiguous'
    BY <1>1 DEF RowInv, RowsAreContiguous
  <2>3. WordsAreInStep'
    BY <1>1, <2>1 DEF WordsAreInStep, Before
  <2>4. ServedRowsAreRight'
    BY <1>1, <2>1 DEF ServedRowsAreRight
  <2> QED
    BY <2>1, <2>2, <2>3, <2>4 DEF RowInv, ReaderIsAtTheLastRow
<1> QED
  BY <1>2, <1>3

LEMMA RowInvAssign ==
  ASSUME RowInv, TypeOK', Assign
  PROVE  RowInv'
<1> DEFINE n == rows[at].checks
<1>1. /\ rows \in Seq(Row) /\ at \in 1..Len(rows) /\ Len(words) \in Nat /\ ri \in 0..Len(words)
      /\ phase = "assign" /\ phase' = "assign" /\ at' = at + 1
      /\ UNCHANGED <<words, seen, strays>>
  BY DEF Assign, RowInv, TypeOK
<1>2. ASSUME NEW r \in 1..Len(rows)
      PROVE  rows[r].first \in Nat /\ rows[r].last \in Nat /\ rows[r].checks \in Nat
  <2>1. rows[r] \in Row
    BY <1>1
  <2> QED
    BY <2>1 DEF Row
<1>3. /\ Len(rows') = Len(rows)
      /\ \A r \in 1..Len(rows) :
           /\ rows'[r].first = rows[r].first /\ rows'[r].last = rows[r].last
           /\ rows'[r].checks = rows[r].checks
           /\ r # at => rows'[r] = rows[r]
  <2>1. rows[at] \in Row
    BY <1>1
  <2>2. rows' = rows \/ rows' = [rows EXCEPT ![at] = [rows[at] EXCEPT !.status = StatusOf(n, ri)]]
    BY DEF Assign
  <2>3. CASE rows' = rows
    BY <2>3
  <2>4. CASE rows' = [rows EXCEPT ![at] = [rows[at] EXCEPT !.status = StatusOf(n, ri)]]
    <3>1. /\ rows'[at] = [rows[at] EXCEPT !.status = StatusOf(n, ri)]
          /\ Len(rows') = Len(rows)
          /\ \A r \in 1..Len(rows) : r # at => rows'[r] = rows[r]
      BY <1>1, <2>4
    <3>2. /\ rows'[at].first = rows[at].first /\ rows'[at].last = rows[at].last
          /\ rows'[at].checks = rows[at].checks
      BY <2>1, <3>1 DEF Row
    <3> QED
      BY <3>1, <3>2
  <2> QED
    BY <2>2, <2>3, <2>4
<1>4. RowsAreContiguous'
  <2>0. ASSUME NEW r \in 1..Len(rows) PROVE rows'[r].first >= strays
    BY <1>3 DEF RowInv, RowsAreContiguous
  <2>1. ASSUME NEW r \in 1..Len(rows) PROVE rows'[r].last = rows'[r].first + rows'[r].checks
    BY <1>3 DEF RowInv, RowsAreContiguous
  <2>2. ASSUME NEW r \in 2..Len(rows) PROVE rows'[r].first = rows'[r - 1].last
    <3>1. r \in 1..Len(rows) /\ r - 1 \in 1..Len(rows)
      BY <1>1
    <3>2. rows[r].first = rows[r - 1].last
      BY DEF RowInv, RowsAreContiguous
    <3> QED
      BY <1>3, <3>1, <3>2
  <2>3. rows'[1].first = strays
    BY <1>1, <1>3 DEF RowInv, RowsAreContiguous
  <2> QED
    BY <1>1, <1>3, <2>0, <2>1, <2>2, <2>3 DEF RowsAreContiguous
<1>5. /\ rows[at].first - strays = Before(at) /\ rows[at].last - strays = Before(at) + n
      /\ ri = IF Before(at) <= Len(words) THEN Before(at) ELSE Len(words)
      /\ Before(at) \in Nat /\ n \in Nat /\ strays \in Nat
  <2>1. rows[at].last = rows[at].first + n /\ rows[at].first >= strays /\ strays \in Nat
    BY <1>1 DEF RowInv, RowsAreContiguous, TypeOK
  <2>2. ri = IF Before(at) <= Len(words) THEN Before(at) ELSE Len(words)
    BY <1>1 DEF RowInv, WordsAreInStep
  <2>3. CASE at = 1
    <3>1. rows[at].first = strays /\ Before(at) = 0
      BY <1>1, <2>3 DEF RowInv, RowsAreContiguous, Before
    <3> QED
      BY <1>1, <1>2, <2>1, <2>2, <3>1
  <2>4. CASE at # 1
    <3>1. at \in 2..Len(rows) /\ at - 1 \in 1..Len(rows)
      BY <1>1, <2>4
    <3>2. rows[at].first = rows[at - 1].last
      BY <3>1 DEF RowInv, RowsAreContiguous
    <3> QED
      BY <1>2, <2>1, <2>2, <2>4, <3>1, <3>2 DEF Before
  <2> QED
    BY <2>3, <2>4
<1>6. Before(at)' = rows[at].last - strays
  BY <1>1, <1>3 DEF Before
<1>7. WordsAreInStep'
  <2>1. ri' = IF rows[at].last - strays <= Len(words) THEN rows[at].last - strays ELSE Len(words)
    <3>1. CASE n = 0
      <4>1. ri' = ri
        BY <3>1 DEF Assign
      <4> QED
        BY <1>5, <3>1, <4>1
    <3>2. CASE n # 0
      <4>1. ri' = ri + Taken(n, Len(words) - ri)
        BY <3>2 DEF Assign
      <4> QED
        BY <1>1, <1>5, <3>2, <4>1 DEF Taken
    <3> QED
      BY <3>1, <3>2
  <2> QED
    BY <1>1, <1>3, <1>6, <2>1 DEF WordsAreInStep
<1>8. ServedRowsAreRight'
  <2> SUFFICES ASSUME NEW r \in 1..Len(rows), r < at + 1, rows'[r].checks > 0
               PROVE  rows'[r].status = Reported(rows[r])'
    BY <1>1, <1>3 DEF ServedRowsAreRight
  <2>1. Reported(rows[r])' = Reported(rows[r])
    BY <1>1, <1>3 DEF Reported
  <2>2. CASE r # at
    <3>1. r < at /\ rows[r].checks > 0 /\ rows'[r] = rows[r]
      BY <1>1, <1>3, <2>2
    <3>2. rows[r].status = Reported(rows[r])
      BY <1>1, <3>1 DEF RowInv, ServedRowsAreRight
    <3> QED
      BY <2>1, <3>1, <3>2
  <2>3. CASE r = at
    <3>1. n > 0
      BY <1>3, <2>3
    <3>2. rows' = [rows EXCEPT ![at] = [rows[at] EXCEPT !.status = StatusOf(n, ri)]]
      BY <3>1 DEF Assign
    <3>3. rows'[at].status = StatusOf(n, ri)
      <4>1. rows[at] \in Row
        BY <1>1
      <4>2. rows'[at] = [rows[at] EXCEPT !.status = StatusOf(n, ri)]
        BY <1>1, <3>2
      <4> QED
        BY <4>1, <4>2 DEF Row
    <3>4. StatusOf(n, ri) = Reported(rows[at])
      BY <1>1, <1>5, <3>1 DEF StatusOf, Reported
    <3> QED
      BY <2>1, <2>3, <3>3, <3>4
  <2> QED
    BY <2>2, <2>3
<1>9. ReaderIsAtTheLastRow'
  BY <1>1 DEF ReaderIsAtTheLastRow
<1> QED
  BY <1>4, <1>7, <1>8, <1>9 DEF RowInv

LEMMA RowInvReport ==
  ASSUME RowInv, TypeOK', AssignEnds \/ Report
  PROVE  RowInv'
<1>1. UNCHANGED <<rows, words, ri, seen, strays, at>>
  BY DEF AssignEnds, Report
<1>2. CASE AssignEnds
  <2>1. phase = "assign" /\ phase' = "report" /\ \A r \in 1..Len(rows) : r < at
    BY <1>2 DEF AssignEnds, RowInv, TypeOK
  <2>2. ServedRowsAreRight'
    BY <1>1, <2>1 DEF RowInv, ServedRowsAreRight, Reported
  <2> QED
    BY <1>1, <2>1, <2>2 DEF RowInv, RowsAreContiguous, ReaderIsAtTheLastRow, WordsAreInStep
<1>3. CASE Report
  <2>1. phase = "report" /\ phase' = "done"
    BY <1>3 DEF Report
  <2>2. ServedRowsAreRight'
    BY <1>1, <2>1 DEF RowInv, ServedRowsAreRight, Reported
  <2> QED
    BY <1>1, <2>1, <2>2 DEF RowInv, RowsAreContiguous, ReaderIsAtTheLastRow, WordsAreInStep
<1> QED
  BY <1>2, <1>3

LEMMA RowInvNext == RowInv /\ [Next]_vars => RowInv'
<1> SUFFICES ASSUME RowInv, [Next]_vars PROVE RowInv'
  OBVIOUS
<1>1. TypeOK'
  BY NextTyped DEF RowInv
<1>2. CASE UNCHANGED vars
  BY <1>1, <1>2 DEF vars, RowInv, RowsAreContiguous, ReaderIsAtTheLastRow, WordsAreInStep,
     ServedRowsAreRight, Before, Reported
<1> QED
  BY <1>1, <1>2, RowInvEmit, RowInvSolve, RowInvReadHeader, RowInvReadCheck, RowInvReadOther,
     RowInvAssign, RowInvReport DEF Next

\* No row of the report shows the answer to a query of another row, whatever
\* the program, the answers and the point at which the solver stopped, as long
\* as no query stands before the first header.
THEOREM ReportIsAligned == Spec => []RowShowsItsOwnAnswer
<1>1. RowInv => RowShowsItsOwnAnswer
  <2> SUFFICES ASSUME RowInv, strays = 0 PROVE RowShowsItsOwnAnswer
    BY DEF RowShowsItsOwnAnswer
  <2>0. ASSUME NEW r \in 1..Len(rows) PROVE rows[r].last - strays = rows[r].last
    <3>1. rows[r] \in Row
      BY DEF RowInv, TypeOK
    <3> QED
      BY <3>1 DEF Row
  <2>1. DOMAIN rows = 1..Len(rows)
    BY DEF RowInv, TypeOK
  <2> QED
    BY <2>0, <2>1 DEF RowInv, ServedRowsAreRight, Reported, RowShowsItsOwnAnswer
<1> QED
  BY <1>1, RowInvInit, RowInvNext, PTL DEF Spec

-----------------------------------------------------------------------------
(***************************************************************************)
(* What the encoder appends.                                               *)
(***************************************************************************)
AllLines(lines, f, kinds) ==
  \A p \in 1..Len(lines) : lines[p].kind \in kinds /\ lines[p].fn = f

LEMMA AllLinesConcat ==
  ASSUME NEW s \in Seq(Line), NEW t \in Seq(Line), NEW f, NEW kinds,
         AllLines(s, f, kinds), AllLines(t, f, kinds)
  PROVE  AllLines(s \o t, f, kinds)
<1>1. /\ Len(s \o t) = Len(s) + Len(t) /\ Len(s) \in Nat /\ Len(t) \in Nat
      /\ \A p \in 1..Len(s) + Len(t) : (s \o t)[p] = IF p <= Len(s) THEN s[p] ELSE t[p - Len(s)]
  OBVIOUS
<1> SUFFICES ASSUME NEW p \in 1..Len(s) + Len(t)
             PROVE  (s \o t)[p].kind \in kinds /\ (s \o t)[p].fn = f
  BY <1>1 DEF AllLines
<1>2. CASE p <= Len(s)
  BY <1>1, <1>2 DEF AllLines
<1>3. CASE p > Len(s)
  <2>1. p - Len(s) \in 1..Len(t)
    BY <1>1, <1>3
  <2> QED
    BY <1>1, <1>3, <2>1 DEF AllLines
<1> QED
  BY <1>1, <1>2, <1>3

LEMMA BodyKinds ==
  ASSUME NEW f \in Functions \cup {"ghost"}
  PROVE  /\ AllLines(CallRequires(f), f, {"call", "assert"})
         /\ \A calls \in BOOLEAN : AllLines(Assertion(f, calls), f, {"call", "assert"})
         /\ AllLines(AssertBy(f), f, {"call", "assert"})
         /\ \A n \in Nat : AllLines(Requires(f, n), f, {"requires"})
<1> DEFINE head == <<Header("plain", f, "assert", 0)>>
           query == <<Check(f, "assert", 0)>>
           kinds == {"call", "assert"}
<1>1. /\ head \in Seq(Line) /\ query \in Seq(Line) /\ <<>> \in Seq(Line)
      /\ CallRequires(f) \in Seq(Line)
      /\ \A calls \in BOOLEAN : Assertion(f, calls) \in Seq(Line)
  <2>1. Header("plain", f, "assert", 0) \in Line /\ Check(f, "assert", 0) \in Line
    BY HeaderIsLine DEF Kinds
  <2> QED
    BY <2>1, BodyLines
<1>2. AllLines(head, f, kinds) /\ AllLines(query, f, kinds) /\ AllLines(<<>>, f, kinds)
  BY DEF AllLines, Header, Check
<1>3. AllLines(CallRequires(f), f, kinds)
  BY DEF AllLines, CallRequires, Header, Check
<1> HIDE DEF head, query, kinds
<1>4. ASSUME NEW calls \in BOOLEAN PROVE AllLines(Assertion(f, calls), f, kinds)
  <2>1. /\ (IF calls THEN CallRequires(f) ELSE <<>>) \in Seq(Line)
        /\ AllLines(IF calls THEN CallRequires(f) ELSE <<>>, f, kinds)
    BY <1>1, <1>2, <1>3
  <2>2. /\ head \o (IF calls THEN CallRequires(f) ELSE <<>>) \in Seq(Line)
        /\ AllLines(head \o (IF calls THEN CallRequires(f) ELSE <<>>), f, kinds)
    BY <1>1, <1>2, <2>1, AllLinesConcat, LinesConcat
  <2>3. AllLines(head \o (IF calls THEN CallRequires(f) ELSE <<>>) \o query, f, kinds)
    BY <1>1, <1>2, <2>2, AllLinesConcat
  <2> QED
    BY <2>3 DEF Assertion, head, query
<1>5. AllLines(AssertBy(f), f, kinds)
  <2>1. head \o Assertion(f, FALSE) \in Seq(Line) /\ AllLines(head \o Assertion(f, FALSE), f, kinds)
    BY <1>1, <1>2, <1>4, AllLinesConcat, LinesConcat
  <2>2. AllLines(head \o Assertion(f, FALSE) \o query, f, kinds)
    BY <1>1, <1>2, <2>1, AllLinesConcat
  <2> QED
    BY <2>2 DEF AssertBy, head, query
<1>6. \A n \in Nat : AllLines(Requires(f, n), f, {"requires"})
  BY DEF AllLines, Requires, Header
<1> QED
  BY <1>3, <1>4, <1>5, <1>6 DEF kinds

LEMMA ClauseKinds ==
  ASSUME NEW f \in Functions, NEW i \in Nat, NEW shape \in ClauseShapes
  PROVE  AllLines(Clause(f, i, shape), f, {"ensures"})
<1>1. /\ <<Header("plain", f, "ensures", i)>> \in Seq(Line)
      /\ Clause(f, i, shape) \in Seq(Line)
  BY ClauseLines, HeaderIsLine DEF Kinds
<1>2. AllLines(<<Header("plain", f, "ensures", i)>>, f, {"ensures"})
  BY DEF AllLines, Header
<1>3. ASSUME NEW n \in {2, 3}, NEW form \in {"half", "try"}
      PROVE  AllLines(SubGoals(form, f, i, n), f, {"ensures"})
  <2>1. Len(SubGoals(form, f, i, n)) = 2 * n
    BY DEF SubGoals
  <2> QED
    BY <2>1 DEF AllLines, SubGoals, Header, Check
<1>4. AllLines(Discharged(f, i, shape), f, {"ensures"})
  <2>1. CASE shape = "leaf"
    BY <2>1 DEF Discharged, AllLines, Header, Check
  <2>2. CASE shape = "quantified"
    <3>1. /\ Header("plain", f, "ensures", i) \in Line /\ Check(f, "ensures", i) \in Line
      BY HeaderIsLine DEF Kinds
    <3> DEFINE whole == <<Header("plain", f, "ensures", i), Check(f, "ensures", i)>>
               goal == Check(f, "ensures", i)
    <3>2. whole \in Seq(Line) /\ AllLines(whole, f, {"ensures"})
      BY <3>1 DEF AllLines, Header, Check
    <3>3. <<goal>> \in Seq(Line) /\ AllLines(<<goal>>, f, {"ensures"})
      BY <3>1 DEF AllLines, Check
    <3>4. Discharged(f, i, shape) = Append(whole, goal)
      BY <2>2 DEF Discharged
    <3> HIDE DEF whole, goal
    <3>5. Append(whole, goal) = whole \o <<goal>>
      BY <3>2, <3>3
    <3> QED
      BY <3>2, <3>3, <3>4, <3>5, AllLinesConcat
  <2>3. CASE shape \in {"halves", "premises"}
    BY <1>3, <2>3 DEF Discharged
  <2> QED
    BY <2>1, <2>2, <2>3 DEF ClauseShapes
<1>5. Discharged(f, i, shape) \in Seq(Line)
  BY DischargedLines
<1> QED
  BY <1>1, <1>2, <1>4, <1>5, AllLinesConcat DEF Clause

LEMMA GhostKinds ==
  ASSUME NEW first \in {<<>>} \cup {GhostPreserves(inner) : inner \in BOOLEAN},
         NEW second \in {<<>>, GhostFrame}
  PROVE  /\ first \o second \in Seq(Line)
         /\ AllLines(first \o second, "ghost", {"preserves", "call", "assert", "frame"})
<1> DEFINE kinds == {"preserves", "call", "assert", "frame"}
           head == <<Header("plain", "ghost", "preserves", 0)>>
           query == <<Check("ghost", "preserves", 0)>>
<1>1. /\ head \in Seq(Line) /\ query \in Seq(Line) /\ <<>> \in Seq(Line)
      /\ CallRequires("ghost") \in Seq(Line)
      /\ first \in Seq(Line) /\ second \in Seq(Line)
  <2>1. Header("plain", "ghost", "preserves", 0) \in Line /\ Check("ghost", "preserves", 0) \in Line
    BY HeaderIsLine DEF Kinds
  <2>2. <<>> \in Seq(Line)
    OBVIOUS
  <2>3. head \in Seq(Line) /\ query \in Seq(Line)
    BY <2>1
  <2>4. CallRequires("ghost") \in Seq(Line)
    BY BodyLines
  <2>5. first \in Seq(Line) /\ second \in Seq(Line)
    <3> HIDE DEF head, query
    <3> QED
      BY <2>2, GhostLines
  <2> QED
    BY <2>2, <2>3, <2>4, <2>5
<1>2. /\ AllLines(head, "ghost", kinds) /\ AllLines(query, "ghost", kinds)
      /\ AllLines(<<>>, "ghost", kinds) /\ AllLines(CallRequires("ghost"), "ghost", kinds)
      /\ AllLines(second, "ghost", kinds)
  <2>1. AllLines(head, "ghost", kinds) /\ AllLines(query, "ghost", kinds)
    BY DEF AllLines, Header, Check
  <2>2. AllLines(<<>>, "ghost", kinds)
    BY DEF AllLines
  <2>3. AllLines(CallRequires("ghost"), "ghost", kinds)
    BY DEF AllLines, Header, Check, CallRequires
  <2>4. AllLines(GhostFrame, "ghost", kinds)
    BY DEF AllLines, Header, Check, GhostFrame
  <2> HIDE DEF head, query, kinds
  <2> QED
    BY <2>1, <2>2, <2>3, <2>4
<1> HIDE DEF kinds, head, query
<1>3. ASSUME NEW inner \in BOOLEAN PROVE AllLines(GhostPreserves(inner), "ghost", kinds)
  <2>1. /\ (IF inner THEN CallRequires("ghost") ELSE <<>>) \in Seq(Line)
        /\ AllLines(IF inner THEN CallRequires("ghost") ELSE <<>>, "ghost", kinds)
    BY <1>1, <1>2
  <2>2. /\ head \o (IF inner THEN CallRequires("ghost") ELSE <<>>) \in Seq(Line)
        /\ AllLines(head \o (IF inner THEN CallRequires("ghost") ELSE <<>>), "ghost", kinds)
    BY <1>1, <1>2, <2>1, AllLinesConcat, LinesConcat
  <2>3. AllLines(head \o (IF inner THEN CallRequires("ghost") ELSE <<>>) \o query, "ghost", kinds)
    BY <1>1, <1>2, <2>2, AllLinesConcat
  <2> QED
    BY <2>3 DEF GhostPreserves, head, query
<1>4. AllLines(first, "ghost", kinds)
  BY <1>2, <1>3
<1> QED
  BY <1>1, <1>2, <1>4, AllLinesConcat, LinesConcat DEF kinds

\* Every ensures of a return site has its header and then its query.
LEMMA ReturnSiteKinds ==
  ASSUME NEW f \in Functions, NEW n \in Nat
  PROVE  /\ AllLines(ReturnSite(f, n), f, {"ret"})
         /\ \A p \in 1..Len(ReturnSite(f, n)) :
              ReturnSite(f, n)[p].tag = "header" =>
                /\ p + 1 \in 1..Len(ReturnSite(f, n)) /\ IsCheck(ReturnSite(f, n)[p + 1])
                /\ SameClause(ReturnSite(f, n)[p + 1], ReturnSite(f, n)[p])
<1>1. Len(ReturnSite(f, n)) = 2 * n
  BY DEF ReturnSite
<1>2. ASSUME NEW p \in 1..2 * n, p % 2 = 1 
      PROVE  p + 1 \in 1..2 * n /\ (p + 1) % 2 # 1 /\ (p + 1) \div 2 \in Nat
  BY <1>2
<1>3. ASSUME NEW p \in 1..2 * n
      PROVE  /\ ReturnSite(f, n)[p].kind = "ret" /\ ReturnSite(f, n)[p].fn = f
             /\ ReturnSite(f, n)[p].tag = IF p % 2 = 1 THEN "header" ELSE "check"
             /\ ReturnSite(f, n)[p].idx = IF p % 2 = 1 THEN (p + 1) \div 2 ELSE p \div 2
  BY DEF ReturnSite, Header, Check
<1>4. ASSUME NEW p \in 1..2 * n, p % 2 = 1
      PROVE  SameClause(ReturnSite(f, n)[p + 1], ReturnSite(f, n)[p])
  <2>1. p + 1 \in 1..2 * n /\ (p + 1) % 2 # 1
    BY <1>2, <1>4
  <2>2. ReturnSite(f, n)[p + 1].idx = (p + 1) \div 2 /\ ReturnSite(f, n)[p].idx = (p + 1) \div 2
    BY <1>3, <1>4, <2>1
  <2> QED
    BY <1>3, <2>1, <2>2 DEF SameClause
<1> QED
  BY <1>1, <1>2, <1>3, <1>4 DEF AllLines, IsCheck

(***************************************************************************)
(* The file: a return site's header is followed by its query, and no       *)
(* ensures clause of a function is written after one of its return sites.  *)
(***************************************************************************)
IsHeaderOf(line, kind) == line.tag = "header" /\ line.kind = kind

SitesAreAsked ==
  \A p \in 1..Len(file) :
    IsHeaderOf(file[p], "ret") =>
      p + 1 \in 1..Len(file) /\ IsCheck(file[p + 1]) /\ SameClause(file[p + 1], file[p])

ClausesComeFirst ==
  \A p, q \in 1..Len(file) :
    p < q /\ IsHeaderOf(file[p], "ret") /\ IsHeaderOf(file[q], "ensures") => file[p].fn # file[q].fn

\* Until its body is walked a function has no return site in the file.
SitesAreOfBodies ==
  \A p \in 1..Len(file) :
    IsHeaderOf(file[p], "ret") =>
      /\ file[p].fn \in emitted \cup {walking}
      /\ part = "ensures" /\ walking # NoFunction => file[p].fn # walking

FileInv == SitesAreAsked /\ ClausesComeFirst /\ SitesAreOfBodies

\* Lines that are no return site, and no ensures clause of a function that
\* already has one, keep the order.
LEMMA FileGrows ==
  ASSUME TypeOK, SitesAreAsked, ClausesComeFirst,
         NEW lines \in Seq(Line), file' = file \o lines,
         \A i \in 1..Len(lines) : IsHeaderOf(lines[i], "ret") =>
            i + 1 \in 1..Len(lines) /\ IsCheck(lines[i + 1]) /\ SameClause(lines[i + 1], lines[i]),
         \A i, j \in 1..Len(lines) :
            ~(IsHeaderOf(lines[i], "ret") /\ IsHeaderOf(lines[j], "ensures")),
         \A p \in 1..Len(file), j \in 1..Len(lines) :
            IsHeaderOf(file[p], "ret") /\ IsHeaderOf(lines[j], "ensures") => file[p].fn # lines[j].fn
  PROVE  /\ SitesAreAsked' /\ ClausesComeFirst'
         /\ \A p \in 1..Len(file') :
              \/ p \in 1..Len(file) /\ file'[p] = file[p]
              \/ \E i \in 1..Len(lines) : file'[p] = lines[i]
<1> DEFINE n == Len(file)
           m == Len(lines)
<1>1. /\ n \in Nat /\ m \in Nat /\ Len(file') = n + m
      /\ \A p \in 1..n : file'[p] = file[p] /\ p \in 1..n + m
      /\ \A i \in 1..m : file'[n + i] = lines[i] /\ n + i \in 1..n + m
  BY DEF TypeOK
<1>2. \A p \in 1..n + m : p \in 1..n \/ (p - n \in 1..m /\ p = n + (p - n))
  BY <1>1
<1> HIDE DEF n, m
<1>3. ASSUME NEW p \in 1..n + m, IsHeaderOf(file'[p], "ret")
      PROVE  p + 1 \in 1..n + m /\ IsCheck(file'[p + 1]) /\ SameClause(file'[p + 1], file'[p])
  <2>1. CASE p \in 1..n
    <3>1. file'[p] = file[p]
      BY <1>1, <2>1
    <3>2. p + 1 \in 1..n /\ IsCheck(file[p + 1]) /\ SameClause(file[p + 1], file[p])
      BY <1>3, <2>1, <3>1 DEF SitesAreAsked, n
    <3>3. file'[p + 1] = file[p + 1] /\ p + 1 \in 1..n + m
      BY <1>1, <3>2
    <3> QED
      BY <3>1, <3>2, <3>3
  <2>2. CASE p - n \in 1..m
    <3>0. n + (p - n) = p
      BY <1>1
    <3>1. file'[p] = lines[p - n]
      BY <1>1, <2>2, <3>0
    <3>2. /\ (p - n) + 1 \in 1..m /\ IsCheck(lines[(p - n) + 1])
          /\ SameClause(lines[(p - n) + 1], lines[p - n])
      BY <1>3, <2>2, <3>1 DEF m
    <3>3. n + ((p - n) + 1) = p + 1
      BY <1>1
    <3>4. file'[p + 1] = lines[(p - n) + 1] /\ p + 1 \in 1..n + m
      BY <1>1, <3>2, <3>3
    <3> QED
      BY <3>1, <3>2, <3>4
  <2> QED
    BY <1>2, <2>1, <2>2
<1>4. ASSUME NEW p \in 1..n + m, NEW q \in 1..n + m, p < q,
             IsHeaderOf(file'[p], "ret"), IsHeaderOf(file'[q], "ensures")
      PROVE  file'[p].fn # file'[q].fn
  <2>1. CASE q \in 1..n
    <3>1. p \in 1..n
      BY <1>1, <1>4, <2>1
    <3>2. file'[p] = file[p] /\ file'[q] = file[q]
      BY <1>1, <2>1, <3>1
    <3>3. IsHeaderOf(file[p], "ret") /\ IsHeaderOf(file[q], "ensures") => file[p].fn # file[q].fn
      BY <1>4, <2>1, <3>1 DEF ClausesComeFirst, n
    <3> QED
      BY <1>4, <3>2, <3>3
  <2>2. CASE q - n \in 1..m /\ p \in 1..n
    <3>1. file'[q] = lines[q - n] /\ file'[p] = file[p]
      BY <1>1, <1>2, <2>2
    <3>2. IsHeaderOf(file[p], "ret") /\ IsHeaderOf(lines[q - n], "ensures") => file[p].fn # lines[q - n].fn
      BY <2>2 DEF n, m
    <3> QED
      BY <1>4, <3>1, <3>2
  <2>3. CASE q - n \in 1..m /\ p - n \in 1..m
    <3>1. file'[q] = lines[q - n] /\ file'[p] = lines[p - n]
      BY <1>1, <1>2, <2>3
    <3>2. ~(IsHeaderOf(lines[p - n], "ret") /\ IsHeaderOf(lines[q - n], "ensures"))
      BY <2>3 DEF m
    <3> QED
      BY <1>4, <3>1, <3>2
  <2> QED
    BY <1>2, <1>4, <2>1, <2>2, <2>3
<1>5. ASSUME NEW p \in 1..n + m
      PROVE  \/ p \in 1..n /\ file'[p] = file[p]
             \/ \E i \in 1..m : file'[p] = lines[i]
  BY <1>1, <1>2
<1>6. SitesAreAsked'
  BY <1>1, <1>3 DEF SitesAreAsked
<1>7. ClausesComeFirst'
  <2>1. SUFFICES ASSUME NEW p \in 1..Len(file'), NEW q \in 1..Len(file'), p < q,
                        IsHeaderOf(file'[p], "ret"), IsHeaderOf(file'[q], "ensures")
                 PROVE  file'[p].fn # file'[q].fn
    BY DEF ClausesComeFirst
  <2>2. p \in 1..n + m /\ q \in 1..n + m
    BY <1>1, <2>1
  <2> QED
    BY <1>4, <2>1, <2>2
<1> QED
  BY <1>1, <1>5, <1>6, <1>7 DEF n, m

\* Lines that are neither return sites nor ensures clauses.
LEMMA FileGrowsPlainly ==
  ASSUME TypeOK, FileInv, NEW lines \in Seq(Line), file' = file \o lines,
         NEW f, NEW kinds, AllLines(lines, f, kinds), "ret" \notin kinds, "ensures" \notin kinds
  PROVE  /\ SitesAreAsked' /\ ClausesComeFirst'
         /\ \A p \in 1..Len(file') : IsHeaderOf(file'[p], "ret") =>
              p \in 1..Len(file) /\ file'[p] = file[p]
<1>1. \A i \in 1..Len(lines) : ~IsHeaderOf(lines[i], "ret") /\ ~IsHeaderOf(lines[i], "ensures")
  BY DEF AllLines, IsHeaderOf
<1>2. /\ SitesAreAsked' /\ ClausesComeFirst'
      /\ \A p \in 1..Len(file') :
           \/ p \in 1..Len(file) /\ file'[p] = file[p]
           \/ \E i \in 1..Len(lines) : file'[p] = lines[i]
  BY <1>1, FileGrows DEF FileInv
<1> QED
  BY <1>1, <1>2

LEMMA FileInvEmit ==
  ASSUME TypeOK, FileInv,
         \/ \E f \in Functions : BeginFunction(f)
         \/ EmitEnsures \/ SkipBody \/ StartBody
         \/ WalkCall \/ WalkAssert \/ WalkAssertBy \/ WalkReturn \/ EndBody
         \/ EmitGhost
  PROVE  FileInv'
<1> USE VerifyAssumption
<1>w. walking # NoFunction => walking \in Functions
  BY DEF TypeOK
<1>1. ASSUME NEW f \in Functions, BeginFunction(f) PROVE FileInv'
  <2>1. PICK k \in 0..1 : file' = file \o Requires(f, k)
    BY <1>1 DEF BeginFunction, Emit
  <2>2. Requires(f, k) \in Seq(Line) /\ AllLines(Requires(f, k), f, {"requires"})
    <3>1. k \in Nat
      OBVIOUS
    <3> QED
      BY <3>1, BodyLines, BodyKinds
  <2>3. /\ SitesAreAsked' /\ ClausesComeFirst'
        /\ \A p \in 1..Len(file') : IsHeaderOf(file'[p], "ret") =>
             p \in 1..Len(file) /\ file'[p] = file[p]
    BY <2>1, <2>2, FileGrowsPlainly
  <2>4. /\ walking = NoFunction /\ f \notin emitted /\ f # NoFunction
        /\ walking' = f /\ emitted' = emitted
    BY <1>1 DEF BeginFunction
  <2>5. SitesAreOfBodies'
    <3> SUFFICES ASSUME NEW p \in 1..Len(file'), IsHeaderOf(file'[p], "ret")
                 PROVE  file'[p].fn \in emitted' \cup {walking'} /\ file'[p].fn # walking'
      BY DEF SitesAreOfBodies
    <3>1. file'[p] = file[p] /\ p \in 1..Len(file)
      BY <2>3
    <3>2. file[p].fn \in emitted \cup {NoFunction}
      BY <2>4, <3>1 DEF FileInv, SitesAreOfBodies
    <3>3. file[p].fn # NoFunction
      <4>1. file[p] \in Line
        BY <3>1 DEF TypeOK
      <4> QED
        BY <4>1 DEF Line, NoFunction
    <3> QED
      BY <2>4, <3>1, <3>2, <3>3
  <2> QED
    BY <2>3, <2>4, <2>5 DEF FileInv
<1>2. CASE EmitEnsures
  <2>1. /\ walking \in Functions /\ walking # NoFunction /\ part = "ensures" /\ clauses' \in Nat
        /\ UNCHANGED <<walking, part, emitted>>
    BY <1>2, <1>w DEF EmitEnsures, TypeOK
  <2>2. PICK shape \in ClauseShapes : file' = file \o Clause(walking, clauses', shape)
    BY <1>2 DEF EmitEnsures, Emit
  <2> DEFINE lines == Clause(walking, clauses', shape)
  <2>3. lines \in Seq(Line) /\ AllLines(lines, walking, {"ensures"})
    BY <2>1, ClauseLines, ClauseKinds
  <2> HIDE DEF lines
  <2>4. \A i \in 1..Len(lines) : ~IsHeaderOf(lines[i], "ret") /\ lines[i].fn = walking
    BY <2>3 DEF AllLines, IsHeaderOf
  <2>5. \A p \in 1..Len(file) : IsHeaderOf(file[p], "ret") => file[p].fn # walking
    BY <2>1 DEF FileInv, SitesAreOfBodies
  <2>6. /\ SitesAreAsked' /\ ClausesComeFirst'
        /\ \A p \in 1..Len(file') :
             \/ p \in 1..Len(file) /\ file'[p] = file[p]
             \/ \E i \in 1..Len(lines) : file'[p] = lines[i]
    BY <2>2, <2>3, <2>4, <2>5, FileGrows DEF FileInv, lines
  <2>7. \A p \in 1..Len(file') : IsHeaderOf(file'[p], "ret") => p \in 1..Len(file) /\ file'[p] = file[p]
    BY <2>4, <2>6
  <2> QED
    BY <2>1, <2>6, <2>7 DEF FileInv, SitesAreOfBodies
<1>3. CASE SkipBody
  BY <1>3 DEF SkipBody, Finish, FileInv, SitesAreAsked, ClausesComeFirst, SitesAreOfBodies
<1>4. CASE StartBody
  BY <1>4 DEF StartBody, FileInv, SitesAreAsked, ClausesComeFirst, SitesAreOfBodies
<1>5. ASSUME NEW lines \in Seq(Line), Walk(lines), AllLines(lines, walking, {"call", "assert"})
      PROVE FileInv'
  <2>1. file' = file \o lines /\ UNCHANGED <<emitted, walking, part>>
    BY <1>5 DEF Walk, Emit
  <2>2. /\ SitesAreAsked' /\ ClausesComeFirst'
        /\ \A p \in 1..Len(file') : IsHeaderOf(file'[p], "ret") =>
             p \in 1..Len(file) /\ file'[p] = file[p]
    BY <1>5, <2>1, FileGrowsPlainly
  <2> QED
    BY <2>1, <2>2 DEF FileInv, SitesAreOfBodies
<1>6. CASE WalkCall \/ WalkAssert \/ WalkAssertBy
  <2>1. walking \in Functions
    BY <1>6, <1>w DEF WalkCall, WalkAssert, WalkAssertBy, Walk, InBody
  <2>2. CASE WalkCall
    BY <2>1, <2>2, <1>5, BodyLines, BodyKinds DEF WalkCall
  <2>3. CASE WalkAssert
    <3>1. PICK calls \in BOOLEAN : Walk(Assertion(walking, calls))
      BY <2>3 DEF WalkAssert
    <3> QED
      BY <2>1, <3>1, <1>5, BodyLines, BodyKinds
  <2>4. CASE WalkAssertBy
    BY <2>1, <2>4, <1>5, BodyLines, BodyKinds DEF WalkAssertBy
  <2> QED
    BY <1>6, <2>2, <2>3, <2>4
<1>7. ASSUME InBody, file' = file \o ReturnSite(walking, clauses),
             \/ UNCHANGED <<emitted, walking, part>>
             \/ emitted' = emitted \cup {walking} /\ walking' = NoFunction
      PROVE  FileInv'
  <2> DEFINE lines == ReturnSite(walking, clauses)
  <2>1. walking \in Functions /\ walking # NoFunction /\ clauses \in Nat /\ part = "body"
    BY <1>7, <1>w DEF InBody, TypeOK
  <2>2. lines \in Seq(Line) /\ AllLines(lines, walking, {"ret"})
    BY <2>1, BodyLines, ReturnSiteKinds
  <2>3. \A i \in 1..Len(lines) : IsHeaderOf(lines[i], "ret") =>
          i + 1 \in 1..Len(lines) /\ IsCheck(lines[i + 1]) /\ SameClause(lines[i + 1], lines[i])
    BY <2>1, ReturnSiteKinds DEF IsHeaderOf
  <2>4. file' = file \o lines
    BY <1>7
  <2> HIDE DEF lines
  <2>5. \A i \in 1..Len(lines) : ~IsHeaderOf(lines[i], "ensures") /\ lines[i].fn = walking
    BY <2>2 DEF AllLines, IsHeaderOf
  <2>6. /\ SitesAreAsked' /\ ClausesComeFirst'
        /\ \A p \in 1..Len(file') :
             \/ p \in 1..Len(file) /\ file'[p] = file[p]
             \/ \E i \in 1..Len(lines) : file'[p] = lines[i]
    BY <2>2, <2>3, <2>4, <2>5, FileGrows DEF FileInv
  <2>7. \A p \in 1..Len(file') : IsHeaderOf(file'[p], "ret") => file'[p].fn \in emitted \cup {walking}
    BY <2>5, <2>6 DEF FileInv, SitesAreOfBodies
  <2> QED
    BY <1>7, <2>1, <2>6, <2>7 DEF FileInv, SitesAreOfBodies
<1>8. CASE WalkReturn
  BY <1>7, <1>8 DEF WalkReturn, Walk, Emit
<1>9. CASE EndBody
  <2>1. InBody /\ emitted' = emitted \cup {walking} /\ walking' = NoFunction
    BY <1>9 DEF EndBody, Finish
  <2>2. CASE UNCHANGED file
    BY <2>1, <2>2 DEF FileInv, SitesAreAsked, ClausesComeFirst, SitesAreOfBodies
  <2>3. CASE Emit(ReturnSite(walking, clauses))
    BY <1>7, <2>1, <2>3 DEF Emit
  <2> QED
    BY <1>9, <2>2, <2>3 DEF EndBody
<1>10. CASE EmitGhost
  <2>1. PICK first \in {<<>>} \cup {GhostPreserves(inner) : inner \in BOOLEAN},
             second \in {<<>>, GhostFrame} : file' = file \o (first \o second)
    BY <1>10 DEF EmitGhost, Emit
  <2>2. /\ first \o second \in Seq(Line)
        /\ AllLines(first \o second, "ghost", {"preserves", "call", "assert", "frame"})
    BY GhostKinds
  <2>3. /\ SitesAreAsked' /\ ClausesComeFirst'
        /\ \A p \in 1..Len(file') : IsHeaderOf(file'[p], "ret") =>
             p \in 1..Len(file) /\ file'[p] = file[p]
    BY <2>1, <2>2, FileGrowsPlainly
  <2>4. UNCHANGED <<emitted, walking, part>>
    BY <1>10 DEF EmitGhost
  <2> QED
    BY <2>3, <2>4 DEF FileInv, SitesAreOfBodies
<1> QED
  BY <1>1, <1>2, <1>3, <1>4, <1>6, <1>8, <1>9, <1>10

(***************************************************************************)
(* The reader: how many queries it has seen, in which row the last of them *)
(* is, and that rows keep the order of their headers.                      *)
(***************************************************************************)
ReadSoFar == {q \in Checks(file) : q < at}

CountInv ==
  /\ phase \in {"emit", "solve"} => at = 1
  /\ phase = "read" => at <= Len(file) + 1 /\ seen = Cardinality(ReadSoFar)
  /\ phase \in {"assign", "report", "done"} => seen = Asked

LastRowInv ==
  /\ \A r, s \in 1..Len(rows) : r < s => rows[r].last <= rows[s].first
  /\ \A r \in 1..Len(rows) : rows[r].last <= seen
  /\ seen = strays \/ \E r \in 1..Len(rows) : rows[r].checks > 0 /\ rows[r].last = seen

SitesHaveQueries ==
  \A r \in 1..Len(rows) :
    rows[r].kind = "ret" =>
      \/ rows[r].checks > 0
      \/ /\ phase = "read" /\ r = Len(rows)
         /\ at - 1 \in 1..Len(file) /\ IsHeaderOf(file[at - 1], "ret")

RowsAreHeaders ==
  phase = "read" =>
    \A r \in 1..Len(rows) :
      rows[r].kind = "ret" =>
        \E p \in 1..Len(file) : p < at /\ IsHeaderOf(file[p], "ret") /\ file[p].fn = rows[r].fn

RowsKeepOrder ==
  \A r, s \in 1..Len(rows) :
    r < s /\ rows[r].kind = "ret" /\ rows[s].kind = "ensures" => rows[r].fn # rows[s].fn

VerdictInv ==
  verdict = "success" =>
    phase = "done" /\ \A r \in 1..Len(rows) : Ignored(rows[r]) \/ rows[r].status \in Accepted

LossInv == /\ RowInv /\ FileInv /\ CountInv /\ LastRowInv
           /\ SitesHaveQueries /\ RowsAreHeaders /\ RowsKeepOrder /\ VerdictInv

LEMMA ChecksAreFinite ==
  ASSUME NEW lines \in Seq(Line), NEW S \in SUBSET Checks(lines)
  PROVE  IsFiniteSet(S) /\ Cardinality(S) \in Nat
<1>1. IsFiniteSet(1..Len(lines))
  BY FS_Interval
<1>2. S \in SUBSET (1..Len(lines))
  BY DEF Checks
<1> QED
  BY <1>1, <1>2, FS_Subset, FS_CardinalityType

LEMMA LossInvInit == Init => LossInv
<1> SUFFICES ASSUME Init PROVE LossInv
  OBVIOUS
<1>1. Len(file) = 0 /\ Len(rows) = 0 /\ phase = "emit" /\ at = 1 /\ seen = 0 /\ strays = 0 /\ verdict = "none"
  BY DEF Init
<1> QED
  BY <1>1, RowInvInit DEF LossInv, FileInv, SitesAreAsked, ClausesComeFirst, SitesAreOfBodies,
     CountInv, LastRowInv, SitesHaveQueries, RowsAreHeaders, RowsKeepOrder, VerdictInv

LEMMA LossInvEmit ==
  ASSUME LossInv, RowInv', FileInv', UNCHANGED readVars,
         phase = "emit", phase' \in {"emit", "solve"}
  PROVE  LossInv'
<1>1. Len(rows) = 0 /\ rows' = rows /\ at' = at /\ seen' = seen /\ strays' = strays /\ verdict' = verdict
  BY DEF readVars, LossInv, RowInv, ReaderIsAtTheLastRow
<1> QED
  BY <1>1 DEF LossInv, CountInv, LastRowInv, SitesHaveQueries, RowsAreHeaders, RowsKeepOrder, VerdictInv

LEMMA LossInvSolve ==
  ASSUME LossInv, RowInv', FileInv', SolverAnswers \/ SolverStops
  PROVE  LossInv'
<1>1. /\ phase = "solve" /\ phase' \in {"solve", "read"} /\ at = 1 /\ at' = 1 /\ seen = 0 /\ strays = 0
      /\ Len(rows) = 0 /\ UNCHANGED <<file, rows, seen, strays, verdict>>
  BY DEF SolverAnswers, SolverStops, emitVars, LossInv, RowInv, ReaderIsAtTheLastRow, CountInv
<1>2. Cardinality(ReadSoFar') = 0
  <2>1. Checks(file') \subseteq Nat \ {0}
    <3>1. file' \in Seq(Line)
      BY DEF RowInv, TypeOK
    <3> QED
      BY <3>1 DEF Checks
  <2>2. ReadSoFar' = {}
    BY <1>1, <2>1 DEF ReadSoFar
  <2> QED
    BY <2>2, FS_EmptySet
<1>3. at' <= Len(file') + 1
  BY <1>1 DEF LossInv, RowInv, TypeOK
<1> QED
  BY <1>1, <1>2, <1>3 DEF LossInv, CountInv, LastRowInv, SitesHaveQueries, RowsAreHeaders, RowsKeepOrder, VerdictInv

\* One more line read: the count moves exactly when it is a query.
LEMMA ReadOneLine ==
  ASSUME TypeOK, at <= Len(file), file' = file, at' = at + 1
  PROVE  Cardinality(ReadSoFar') = Cardinality(ReadSoFar) + (IF IsCheck(file[at]) THEN 1 ELSE 0)
<1>1. at \in 1..Len(file) /\ file \in Seq(Line)
  BY DEF TypeOK
<1>2. IsFiniteSet(ReadSoFar) /\ Cardinality(ReadSoFar) \in Nat /\ at \notin ReadSoFar
  BY <1>1, ChecksAreFinite DEF ReadSoFar
<1>3. CASE IsCheck(file[at])
  <2>1. ReadSoFar' = ReadSoFar \cup {at}
    BY <1>1, <1>3 DEF ReadSoFar, Checks
  <2> QED
    BY <1>2, <1>3, <2>1, FS_AddElement
<1>4. CASE ~IsCheck(file[at])
  <2>1. ReadSoFar' = ReadSoFar
    BY <1>1, <1>4 DEF ReadSoFar, Checks
  <2> QED
    BY <1>2, <1>4, <2>1
<1> QED
  BY <1>3, <1>4

LEMMA LossInvReadHeader ==
  ASSUME LossInv, RowInv', FileInv', ReadHeader
  PROVE  LossInv'
<1> DEFINE n == Len(rows)
<1>1. /\ n \in Nat /\ seen \in Nat /\ phase = "read" /\ phase' = "read" /\ at \in 1..Len(file)
      /\ file' = file /\ at' = at + 1 /\ UNCHANGED <<seen, strays, verdict>> /\ TypeOK
      /\ file[at].tag = "header" /\ ~IsCheck(file[at])
  BY DEF ReadHeader, StartsRow, IsCheck, emitVars, LossInv, RowInv, TypeOK
<1>2. /\ Len(rows') = n + 1 /\ rows'[n + 1] = NewRow(file[at])
      /\ \A r \in 1..n : rows'[r] = rows[r]
  BY DEF ReadHeader, LossInv, RowInv, TypeOK
<1>3. /\ rows'[n + 1].first = seen /\ rows'[n + 1].last = seen /\ rows'[n + 1].checks = 0
      /\ rows'[n + 1].kind = file[at].kind /\ rows'[n + 1].fn = file[at].fn
  BY <1>2 DEF NewRow
<1>4. \A r \in 1..Len(rows') : r \in 1..n \/ r = n + 1
  BY <1>1, <1>2
<1>5. CountInv'
  BY <1>1, ReadOneLine DEF LossInv, CountInv
<1>6. LastRowInv'
  <2>1. \A r \in 1..Len(rows') : rows'[r].last <= seen
    BY <1>1, <1>2, <1>3, <1>4 DEF LossInv, LastRowInv
  <2>2. ASSUME NEW r \in 1..Len(rows'), NEW s \in 1..Len(rows'), r < s
        PROVE  rows'[r].last <= rows'[s].first
    <3>1. r \in 1..n
      BY <1>1, <1>2, <2>2
    <3> QED
      BY <1>1, <1>2, <1>3, <1>4, <2>1, <2>2, <3>1 DEF LossInv, LastRowInv
  <2>3. seen = strays \/ \E r \in 1..Len(rows') : rows'[r].checks > 0 /\ rows'[r].last = seen
    <3>1. \A r \in 1..n : r \in 1..Len(rows')
      BY <1>1, <1>2
    <3> QED
      BY <1>2, <3>1 DEF LossInv, LastRowInv
  <2> QED
    BY <1>1, <2>1, <2>2, <2>3 DEF LastRowInv
\* The row before is no return site without a query: its query would come next.
<1>7. \A r \in 1..n : rows[r].kind = "ret" => rows[r].checks > 0
  <2> SUFFICES ASSUME NEW r \in 1..n, rows[r].kind = "ret", ~(rows[r].checks > 0) PROVE FALSE
    OBVIOUS
  <2>1. at - 1 \in 1..Len(file) /\ IsHeaderOf(file[at - 1], "ret")
    BY DEF LossInv, SitesHaveQueries
  <2>2. IsCheck(file[(at - 1) + 1])
    BY <2>1 DEF LossInv, FileInv, SitesAreAsked
  <2> QED
    BY <1>1, <2>2
<1>8. SitesHaveQueries'
  <2> SUFFICES ASSUME NEW r \in 1..n + 1, rows'[r].kind = "ret"
               PROVE  \/ rows'[r].checks > 0
                      \/ r = n + 1 /\ at \in 1..Len(file) /\ IsHeaderOf(file[at], "ret")
    BY <1>1, <1>2 DEF SitesHaveQueries
  <2> QED
    BY <1>1, <1>2, <1>3, <1>4, <1>7 DEF IsHeaderOf
<1>9. RowsAreHeaders'
  <2> SUFFICES ASSUME NEW r \in 1..n + 1, rows'[r].kind = "ret"
               PROVE  \E p \in 1..Len(file) : p < at + 1 /\ IsHeaderOf(file[p], "ret") /\ file[p].fn = rows'[r].fn
    BY <1>1, <1>2 DEF RowsAreHeaders
  <2>1. CASE r \in 1..n
    BY <1>1, <1>2, <2>1 DEF LossInv, RowsAreHeaders
  <2>2. CASE r = n + 1
    BY <1>1, <1>3, <2>2 DEF IsHeaderOf
  <2> QED
    BY <1>2, <1>4, <2>1, <2>2
<1>10. RowsKeepOrder'
  <2> SUFFICES ASSUME NEW r \in 1..Len(rows'), NEW s \in 1..Len(rows'), r < s,
                      rows'[r].kind = "ret", rows'[s].kind = "ensures"
               PROVE  rows'[r].fn # rows'[s].fn
    BY DEF RowsKeepOrder
  <2>1. r \in 1..n /\ rows'[r] = rows[r]
    BY <1>1, <1>2
  <2>2. CASE s \in 1..n
    BY <1>2, <2>1, <2>2 DEF LossInv, RowsKeepOrder
  <2>3. CASE s = n + 1
    <3>1. PICK p \in 1..Len(file) : p < at /\ IsHeaderOf(file[p], "ret") /\ file[p].fn = rows[r].fn
      BY <1>1, <2>1 DEF LossInv, RowsAreHeaders
    <3>2. IsHeaderOf(file[at], "ensures")
      BY <1>1, <1>3, <2>3 DEF IsHeaderOf
    <3>3. file[p].fn # file[at].fn
      BY <1>1, <3>1, <3>2 DEF LossInv, FileInv, ClausesComeFirst
    <3> QED
      BY <1>3, <2>1, <2>3, <3>1, <3>3
  <2> QED
    BY <1>4, <2>2, <2>3
<1>11. VerdictInv'
  BY <1>1 DEF LossInv, VerdictInv
<1> QED
  BY <1>5, <1>6, <1>8, <1>9, <1>10, <1>11 DEF LossInv

\* A step that changes the rows only within their queries and their status.
SameHeaders(old, new) ==
  /\ Len(new) = Len(old)
  /\ \A r \in 1..Len(old) : new[r].kind = old[r].kind /\ new[r].fn = old[r].fn

LEMMA HeadersKeepOrder ==
  ASSUME LossInv, SameHeaders(rows, rows')
  PROVE  /\ RowsKeepOrder'
         /\ file' = file /\ phase = "read" /\ at' = at + 1 => RowsAreHeaders'
<1>1. RowsKeepOrder'
  BY DEF LossInv, RowsKeepOrder, SameHeaders
<1>2. ASSUME file' = file, phase = "read", at' = at + 1 PROVE RowsAreHeaders'
  <2> SUFFICES ASSUME NEW r \in 1..Len(rows), rows'[r].kind = "ret"
               PROVE  \E p \in 1..Len(file) :
                        p < at + 1 /\ IsHeaderOf(file[p], "ret") /\ file[p].fn = rows'[r].fn
    BY <1>2 DEF RowsAreHeaders, SameHeaders
  <2>1. PICK p \in 1..Len(file) : p < at /\ IsHeaderOf(file[p], "ret") /\ file[p].fn = rows[r].fn
    BY <1>2 DEF LossInv, RowsAreHeaders, SameHeaders
  <2>2. p < at + 1
    BY <2>1 DEF LossInv, RowInv, TypeOK
  <2> QED
    BY <2>1, <2>2 DEF SameHeaders
<1> QED
  BY <1>1, <1>2

LEMMA LossInvReadCheck ==
  ASSUME LossInv, RowInv', FileInv', ReadCheck
  PROVE  LossInv'
<1> DEFINE n == Len(rows)
<1>1. /\ rows \in Seq(Row) /\ n \in Nat /\ seen \in Nat /\ strays \in Nat
      /\ phase = "read" /\ phase' = "read" /\ at \in 1..Len(file) /\ at' = at + 1
      /\ file' = file /\ verdict' = verdict /\ seen' = seen + 1 /\ TypeOK /\ IsCheck(file[at])
  BY DEF ReadCheck, emitVars, LossInv, RowInv, TypeOK
<1>2. CountInv'
  <2>1. /\ Cardinality(ReadSoFar') = Cardinality(ReadSoFar) + 1
        /\ seen = Cardinality(ReadSoFar)
    BY <1>1, ReadOneLine DEF LossInv, CountInv
  <2> QED
    BY <1>1, <2>1 DEF CountInv
<1>3. VerdictInv'
  BY <1>1 DEF LossInv, VerdictInv
<1>4. CASE rows = <<>>
  <2>1. /\ rows' = rows /\ strays' = strays + 1 /\ seen = strays /\ n = 0
    BY <1>1, <1>4 DEF ReadCheck, LossInv, RowInv, ReaderIsAtTheLastRow
  <2> QED
    BY <1>1, <1>2, <1>3, <2>1 DEF LossInv, LastRowInv, SitesHaveQueries, RowsAreHeaders, RowsKeepOrder
<1>5. CASE rows # <<>>
  <2>1. /\ rows' = [rows EXCEPT ![n] = Counted(rows[n])] /\ strays' = strays /\ n \in 1..n
        /\ rows[n] \in Row /\ seen = rows[n].last
    BY <1>1, <1>5 DEF ReadCheck, LossInv, RowInv, ReaderIsAtTheLastRow
  <2>2. /\ Counted(rows[n]).first = rows[n].first
        /\ Counted(rows[n]).checks = rows[n].checks + 1 /\ rows[n].checks \in Nat
        /\ Counted(rows[n]).last = seen + 1
        /\ Counted(rows[n]).kind = rows[n].kind /\ Counted(rows[n]).fn = rows[n].fn
    BY <2>1 DEF Counted, Row
  <2>3. /\ Len(rows') = n /\ rows'[n] = Counted(rows[n])
        /\ \A r \in 1..n : r # n => rows'[r] = rows[r]
    BY <1>1, <2>1
  <2>4. SameHeaders(rows, rows')
    BY <2>2, <2>3 DEF SameHeaders
  <2>5. ASSUME NEW r \in 1..n
        PROVE  rows[r].first \in Nat /\ rows[r].last \in Nat /\ rows[r].last <= seen
    <3>1. rows[r] \in Row
      BY <1>1
    <3> QED
      BY <3>1 DEF Row, LossInv, LastRowInv
  <2>6. LastRowInv'
    <3>1. ASSUME NEW r \in 1..n, NEW s \in 1..n, r < s PROVE rows'[r].last <= rows'[s].first
      <4>1. r # n /\ rows[r].last <= rows[s].first
        BY <1>1, <3>1 DEF LossInv, LastRowInv
      <4>2. rows'[s].first = rows[s].first
        BY <2>2, <2>3
      <4> QED
        BY <2>3, <4>1, <4>2
    <3>2. ASSUME NEW r \in 1..n PROVE rows'[r].last <= seen + 1
      <4>1. CASE r = n
        BY <1>1, <2>2, <2>3, <4>1
      <4>2. CASE r # n
        BY <1>1, <2>3, <2>5, <4>2
      <4> QED
        BY <4>1, <4>2
    <3>3. rows'[n].checks > 0 /\ rows'[n].last = seen + 1
      BY <2>2, <2>3
    <3> QED
      BY <1>1, <2>1, <2>3, <3>1, <3>2, <3>3 DEF LastRowInv
  <2>7. SitesHaveQueries'
    <3> SUFFICES ASSUME NEW r \in 1..n, rows'[r].kind = "ret" PROVE rows'[r].checks > 0
      BY <2>3 DEF SitesHaveQueries
    <3>1. CASE r = n
      BY <2>2, <2>3, <3>1
    <3>2. CASE r # n
      BY <2>3, <3>2 DEF LossInv, SitesHaveQueries
    <3> QED
      BY <3>1, <3>2
  <2> QED
    BY <1>1, <1>2, <1>3, <2>4, <2>6, <2>7, HeadersKeepOrder DEF LossInv
<1> QED
  BY <1>4, <1>5

LEMMA LossInvReadOther ==
  ASSUME LossInv, RowInv', FileInv', ReadOther \/ ReadEnds
  PROVE  LossInv'
<1>1. /\ UNCHANGED <<file, rows, seen, strays, verdict>> /\ phase = "read" /\ at \in Nat \ {0} /\ TypeOK
      /\ Len(file) \in Nat /\ file \in Seq(Line)
  BY DEF ReadOther, ReadEnds, emitVars, LossInv, RowInv, TypeOK
<1>2. LastRowInv' /\ RowsKeepOrder'
  BY <1>1 DEF LossInv, LastRowInv, RowsKeepOrder
\* What is read is not the query that a return site still waits for.
<1>3. \A r \in 1..Len(rows) : rows[r].kind = "ret" => rows[r].checks > 0
  <2> SUFFICES ASSUME NEW r \in 1..Len(rows), rows[r].kind = "ret", ~(rows[r].checks > 0) PROVE FALSE
    OBVIOUS
  <2>1. at - 1 \in 1..Len(file) /\ IsHeaderOf(file[at - 1], "ret")
    BY DEF LossInv, SitesHaveQueries
  <2>2. (at - 1) + 1 \in 1..Len(file) /\ IsCheck(file[(at - 1) + 1])
    BY <2>1 DEF LossInv, FileInv, SitesAreAsked
  <2>3. (at - 1) + 1 = at
    BY <1>1
  <2> QED
    BY <1>1, <2>2, <2>3 DEF ReadOther, ReadEnds
<1>4. SitesHaveQueries'
  BY <1>1, <1>3 DEF SitesHaveQueries
<1>5. CASE ReadOther
  <2>1. at <= Len(file) /\ at' = at + 1 /\ phase' = "read" /\ ~IsCheck(file[at])
    BY <1>5 DEF ReadOther
  <2>2. CountInv'
    <3>1. Cardinality(ReadSoFar') = Cardinality(ReadSoFar) + 0 /\ seen = Cardinality(ReadSoFar)
      BY <1>1, <2>1, ReadOneLine DEF LossInv, CountInv
    <3>2. Cardinality(ReadSoFar) \in Nat
      BY <1>1, ChecksAreFinite DEF ReadSoFar
    <3> QED
      BY <1>1, <2>1, <3>1, <3>2 DEF CountInv
  <2>3. SameHeaders(rows, rows')
    BY <1>1 DEF SameHeaders
  <2> QED
    BY <1>1, <1>2, <1>4, <2>1, <2>2, <2>3, HeadersKeepOrder DEF LossInv, VerdictInv
<1>6. CASE ReadEnds
  <2>1. at > Len(file) /\ at' = 1 /\ phase' = "assign"
    BY <1>6 DEF ReadEnds
  <2>2. ReadSoFar = Checks(file)
    BY <1>1, <2>1 DEF ReadSoFar, Checks
  <2>3. CountInv'
    <3>1. seen = Asked
      BY <1>1, <2>2 DEF LossInv, CountInv, Asked
    <3> QED
      BY <1>1, <2>1, <3>1 DEF CountInv, Asked, Checks
  <2> QED
    BY <1>1, <1>2, <1>4, <2>1, <2>3 DEF LossInv, VerdictInv, RowsAreHeaders
<1> QED
  BY <1>5, <1>6

LEMMA LossInvAssign ==
  ASSUME LossInv, RowInv', FileInv', Assign
  PROVE  LossInv'
<1>1. /\ rows \in Seq(Row) /\ at \in 1..Len(rows) /\ phase = "assign" /\ phase' = "assign"
      /\ UNCHANGED <<file, seen, strays, verdict>>
  BY DEF Assign, emitVars, LossInv, RowInv, TypeOK
<1> DEFINE n == rows[at].checks
           served == [rows[at] EXCEPT !.status = StatusOf(n, ri)]
<1>2. /\ Len(rows') = Len(rows)
      /\ \A r \in 1..Len(rows) :
           /\ rows'[r].first = rows[r].first /\ rows'[r].last = rows[r].last
           /\ rows'[r].checks = rows[r].checks
           /\ rows'[r].kind = rows[r].kind /\ rows'[r].fn = rows[r].fn
  <2>1. rows[at] \in Row
    BY <1>1
  <2>2. /\ served.first = rows[at].first /\ served.last = rows[at].last
        /\ served.checks = rows[at].checks
        /\ served.kind = rows[at].kind /\ served.fn = rows[at].fn
    BY <2>1 DEF Row
  <2>3. rows' = rows \/ rows' = [rows EXCEPT ![at] = served]
    BY DEF Assign
  <2> HIDE DEF served
  <2>4. CASE rows' = [rows EXCEPT ![at] = served]
    <3>1. /\ rows'[at] = served /\ Len(rows') = Len(rows)
          /\ \A r \in 1..Len(rows) : r # at => rows'[r] = rows[r]
      BY <1>1, <2>4
    <3> QED
      BY <2>2, <3>1
  <2> QED
    BY <2>3, <2>4
<1>3. SameHeaders(rows, rows')
  BY <1>2 DEF SameHeaders
<1>4. LastRowInv' /\ SitesHaveQueries'
  BY <1>1, <1>2 DEF LossInv, LastRowInv, SitesHaveQueries
<1>5. CountInv' /\ VerdictInv' /\ RowsAreHeaders'
  BY <1>1 DEF LossInv, CountInv, VerdictInv, RowsAreHeaders, Asked, Checks
<1> QED
  BY <1>3, <1>4, <1>5, HeadersKeepOrder DEF LossInv

LEMMA LossInvReport ==
  ASSUME LossInv, RowInv', FileInv', AssignEnds \/ Report
  PROVE  LossInv'
<1>1. /\ UNCHANGED <<file, rows, seen, strays>> /\ phase' \in {"report", "done"}
      /\ phase \in {"assign", "report"}
  BY DEF AssignEnds, Report, emitVars
<1>2. CountInv' /\ LastRowInv' /\ SitesHaveQueries' /\ RowsAreHeaders' /\ RowsKeepOrder'
  BY <1>1 DEF LossInv, CountInv, LastRowInv, SitesHaveQueries, RowsAreHeaders, RowsKeepOrder,
     Asked, Checks
<1>3. ASSUME AssignEnds PROVE VerdictInv'
  BY <1>1, <1>3 DEF AssignEnds, LossInv, VerdictInv
<1>4. ASSUME Report PROVE VerdictInv'
  <2>1. DOMAIN rows = 1..Len(rows)
    BY DEF LossInv, RowInv, TypeOK
  <2>2. /\ verdict' = IF \A r \in 1..Len(rows) : Ignored(rows[r]) \/ rows[r].status \in Accepted
                      THEN "success" ELSE "failure"
        /\ phase' = "done"
    BY <1>4, <2>1 DEF Report
  <2> QED
    BY <1>1, <2>2 DEF VerdictInv, Ignored, HasReturnSite
<1> QED
  BY <1>2, <1>3, <1>4 DEF LossInv

LEMMA LossInvNext == LossInv /\ [Next]_vars => LossInv'
<1> SUFFICES ASSUME LossInv, [Next]_vars PROVE LossInv'
  OBVIOUS
<1>1. RowInv' /\ TypeOK /\ FileInv
  BY RowInvNext DEF LossInv, RowInv
<1>2. CASE UNCHANGED vars
  <2>1. FileInv'
    BY <1>1, <1>2 DEF vars, FileInv, SitesAreAsked, ClausesComeFirst, SitesAreOfBodies
  <2> QED
    BY <1>1, <1>2, <2>1 DEF vars, LossInv, CountInv, LastRowInv, SitesHaveQueries, RowsAreHeaders,
       RowsKeepOrder, VerdictInv, ReadSoFar, Asked, Checks, Ignored, HasReturnSite
<1> DEFINE Emits == \/ \E f \in Functions : BeginFunction(f)
                    \/ EmitEnsures \/ SkipBody \/ StartBody
                    \/ WalkCall \/ WalkAssert \/ WalkAssertBy \/ WalkReturn \/ EndBody
                    \/ EmitGhost
           Reads == \/ SolverAnswers \/ SolverStops
                    \/ ReadHeader \/ ReadOther \/ ReadCheck \/ ReadEnds
                    \/ Assign \/ AssignEnds \/ Report
<1>3. CASE Emits
  <2>1. FileInv'
    BY <1>1, <1>3, FileInvEmit
  <2>2. phase = "emit" /\ UNCHANGED readVars /\ phase' \in {"emit", "solve"}
    BY <1>3 DEF BeginFunction, EmitEnsures, SkipBody, StartBody, WalkCall, WalkAssert, WalkAssertBy,
       WalkReturn, EndBody, EmitGhost, Finish, Walk, InBody
  <2> QED
    BY <1>1, <2>1, <2>2, LossInvEmit
<1>4. CASE Reads
  <2>1. UNCHANGED emitVars
    BY <1>4 DEF SolverAnswers, SolverStops, ReadHeader, ReadOther, ReadCheck, ReadEnds,
       Assign, AssignEnds, Report
  <2>2. FileInv'
    BY <1>1, <2>1 DEF emitVars, FileInv, SitesAreAsked, ClausesComeFirst, SitesAreOfBodies
  <2> QED
    BY <1>1, <1>4, <2>2, LossInvSolve, LossInvReadHeader, LossInvReadCheck, LossInvReadOther,
       LossInvAssign, LossInvReport
<1>5. CASE Next
  BY <1>3, <1>4, <1>5 DEF Next
<1> QED
  BY <1>2, <1>5

\* When the solver printed fewer words than there are queries in rows, doVerify
\* does not exit with success, wherever the solver stopped.
THEOREM LostAnswersFail == Spec => []LostAnswersFailTheRun
<1>1. LossInv => LostAnswersFailTheRun
  <2> SUFFICES ASSUME LossInv, verdict = "success", ~(Len(words) + strays >= Asked) PROVE FALSE
    BY DEF LostAnswersFailTheRun
  <2>1. /\ phase = "done" /\ seen = Asked
        /\ seen \in Nat /\ strays \in Nat /\ Len(words) \in Nat /\ rows \in Seq(Row)
        /\ \A r \in 1..Len(rows) : Ignored(rows[r]) \/ rows[r].status \in Accepted
    BY DEF LossInv, VerdictInv, CountInv, RowInv, TypeOK
  <2>2. PICK r \in 1..Len(rows) : rows[r].checks > 0 /\ rows[r].last = seen
    BY <2>1 DEF LossInv, LastRowInv
  <2>3. rows[r].status = NoResult
    <3>1. rows[r].status = Reported(rows[r])
      BY <2>1, <2>2 DEF LossInv, RowInv, ServedRowsAreRight
    <3>2. ~(rows[r].last - strays <= Len(words))
      BY <2>1, <2>2
    <3> QED
      BY <3>1, <3>2 DEF Reported
  <2>4. Ignored(rows[r])
    BY <2>1, <2>3 DEF Accepted, NoResult
  <2>5. PICK s \in 1..Len(rows) : rows[s].kind = "ret" /\ rows[s].fn = rows[r].fn
    BY <2>1, <2>4 DEF Ignored, HasReturnSite
  <2>6. rows[r].kind = "ensures"
    BY <2>4 DEF Ignored
  <2>7. ~(s < r)
    BY <2>5, <2>6 DEF LossInv, RowsKeepOrder
  <2>8. r < s
    BY <2>5, <2>6, <2>7
  <2>9. rows[s].checks > 0 /\ rows[s].checks \in Nat /\ rows[s].first \in Nat
    <3>1. rows[s].checks > 0
      BY <2>1, <2>5 DEF LossInv, SitesHaveQueries
    <3>2. rows[s] \in Row
      BY <2>1
    <3> QED
      BY <3>1, <3>2 DEF Row
  <2>10. seen <= rows[s].first /\ rows[s].last = rows[s].first + rows[s].checks /\ rows[s].last <= seen
    BY <2>2, <2>8 DEF LossInv, LastRowInv, RowInv, RowsAreContiguous
  <2> QED
    BY <2>1, <2>9, <2>10
<1> QED
  BY <1>1, LossInvInit, LossInvNext, PTL DEF Spec

(***************************************************************************)
(* Headers and rows.                                                       *)
(***************************************************************************)
Reached(p) == p \in 1..Len(file) /\ (phase = "read" => p < at)
UnderReached(p) == {q \in Under(p) : Reached(q)}
Open(p) == \A h \in 1..Len(file) : Reached(h) /\ h > p => ~IsRowHeader(h)

\* The row for the header at p: the newest one exactly while no header follows.
HasRow(p, r) ==
  /\ rows[r].fn = file[p].fn /\ rows[r].kind = file[p].kind /\ rows[r].idx = file[p].idx
  /\ r = Len(rows) <=> Open(p)
  /\ UnderReached(p) # {} =>
       /\ rows[r].checks > 0
       /\ \E m \in UnderReached(p) : rows[r].last = Number(m) /\ \A o \in UnderReached(p) : o <= m

Reads == phase \notin {"emit", "solve"}

HeadersHaveRows ==
  Reads => \A p \in 1..Len(file) :
             Reached(p) /\ IsRowHeader(p) => \E r \in 1..Len(rows) : HasRow(p, r)

SitesHaveHeaders ==
  Reads => \A r \in 1..Len(rows) :
             rows[r].kind = "ret" =>
               \E p \in 1..Len(file) : /\ IsRowHeader(p) /\ file[p].kind = "ret"
                                       /\ file[p].fn = rows[r].fn /\ file[p].idx = rows[r].idx

ProofInv == LossInv /\ HeadersHaveRows /\ SitesHaveHeaders

\* What a step of the reader over one line adds to what is under a header.
LEMMA ReadsOneLineOn ==
  ASSUME LossInv, phase = "read", phase' = "read", at <= Len(file), at' = at + 1, file' = file,
         NEW p \in 1..Len(file), p < at
  PROVE  /\ Reached(p) /\ Reached(p)' /\ at \in 1..Len(file)
         /\ \A q \in 1..Len(file) : Reached(q)' <=> Reached(q) \/ q = at
         /\ Open(p)' <=> Open(p) /\ ~IsRowHeader(at)
         /\ UnderReached(p)' = UnderReached(p) \cup (IF IsCheck(file[at]) /\ Open(p) THEN {at} ELSE {})
<1>1. at \in 1..Len(file) /\ file \in Seq(Line) /\ DOMAIN file = 1..Len(file)
  BY DEF LossInv, RowInv, TypeOK
<1>2. \A q \in 1..Len(file) : (Reached(q) <=> q < at) /\ (Reached(q)' <=> q < at \/ q = at)
  BY <1>1 DEF Reached
<1>3. Open(p)' <=> Open(p) /\ ~IsRowHeader(at)
  <2>1. \A h : IsRowHeader(h)' <=> IsRowHeader(h)
    BY DEF IsRowHeader
  <2> QED BY <1>1, <1>2, <2>1 DEF Open
<1>4. Under(p)' = Under(p) /\ Under(p) \subseteq 1..Len(file)
  BY <1>1 DEF Under, Checks, IsRowHeader
<1>5. at \in Under(p) <=> IsCheck(file[at]) /\ Open(p)
  <2>1. ASSUME at \in Under(p) PROVE IsCheck(file[at]) /\ Open(p)
    BY <1>1, <1>2, <2>1 DEF Under, Checks, Open
  <2>2. ASSUME IsCheck(file[at]), Open(p) PROVE at \in Under(p)
    <3>1. ~IsRowHeader(at)
      BY <2>2 DEF IsRowHeader, StartsRow, IsCheck
    <3>2. \A h \in (p + 1)..at : ~IsRowHeader(h)
      BY <1>1, <1>2, <2>2, <3>1 DEF Open
    <3> QED BY <1>1, <2>2, <3>2 DEF Under, Checks
  <2> QED BY <2>1, <2>2
<1>6. UnderReached(p)' = UnderReached(p) \cup (IF IsCheck(file[at]) /\ Open(p) THEN {at} ELSE {})
  BY <1>2, <1>4, <1>5 DEF UnderReached
<1>7. Reached(p) /\ Reached(p)'
  BY <1>1, <1>2
<1> QED BY <1>1, <1>2, <1>3, <1>6, <1>7

LEMMA ProofInvReadHeader ==
  ASSUME ProofInv, LossInv', ReadHeader
  PROVE  ProofInv'
<1>1. /\ phase = "read" /\ phase' = "read" /\ at \in 1..Len(file) /\ at' = at + 1 /\ file' = file
      /\ StartsRow(file[at]) /\ ~IsCheck(file[at]) /\ DOMAIN file = 1..Len(file) /\ at <= Len(file)
  BY DEF ReadHeader, emitVars, ProofInv, LossInv, RowInv, TypeOK, StartsRow, IsCheck
<1>2. PICK n \in Nat : n = Len(rows)
  BY DEF ProofInv, LossInv, RowInv, TypeOK
<1>3. /\ Len(rows') = n + 1 /\ rows'[n + 1] = NewRow(file[at])
      /\ \A r \in 1..n : rows'[r] = rows[r]
  BY <1>2 DEF ReadHeader, ProofInv, LossInv, RowInv, TypeOK
<1>4. /\ rows'[n + 1].fn = file[at].fn /\ rows'[n + 1].kind = file[at].kind
      /\ rows'[n + 1].idx = file[at].idx
  BY <1>3 DEF NewRow
<1>5. HeadersHaveRows'
  <2> SUFFICES ASSUME NEW p \in 1..Len(file), Reached(p)', IsRowHeader(p)'
               PROVE  \E r \in 1..(n + 1) : HasRow(p, r)'
    BY <1>1, <1>3 DEF HeadersHaveRows
  <2>0. IsRowHeader(p) /\ IsRowHeader(at)
    BY <1>1 DEF IsRowHeader
  <2>1. CASE p < at
    <3>1. Reached(p) /\ UnderReached(p)' = UnderReached(p) /\ ~Open(p)'
      BY <1>1, <2>0, <2>1, ReadsOneLineOn DEF ProofInv
    <3>2. PICK r \in 1..n : HasRow(p, r)
      BY <1>1, <1>2, <2>0, <3>1 DEF ProofInv, HeadersHaveRows, Reads
    <3>3. rows'[r] = rows[r] /\ r # n + 1 /\ r \in 1..(n + 1)
      BY <1>3
    <3>4. \A m : Number(m)' = Number(m)
      BY <1>1 DEF Number, Checks
    <3>5. UnderReached(p)' # {} =>
            /\ rows'[r].checks > 0
            /\ \E m \in UnderReached(p)' : rows'[r].last = Number(m)' /\ \A o \in UnderReached(p)' : o <= m
      BY <3>1, <3>2, <3>3, <3>4 DEF HasRow
    <3>6. rows'[r].fn = file'[p].fn /\ rows'[r].kind = file'[p].kind /\ rows'[r].idx = file'[p].idx
      BY <1>1, <3>2, <3>3 DEF HasRow
    <3> QED
      BY <1>3, <3>1, <3>3, <3>5, <3>6 DEF HasRow
  <2>2. CASE p = at
    <3>1. \A h \in 1..Len(file) : Reached(h)' => h <= p
      BY <1>1, <2>2 DEF Reached
    <3>2. Open(p)'
      BY <1>1, <3>1 DEF Open
    <3>3. UnderReached(p)' = {}
      BY <1>1, <3>1 DEF UnderReached, Under, Checks
    <3> QED
      BY <1>1, <1>3, <1>4, <2>2, <3>2, <3>3 DEF HasRow
  <2>3. p < at \/ p = at
    BY <1>1 DEF Reached
  <2> QED
    BY <2>1, <2>2, <2>3
<1>6. SitesHaveHeaders'
  <2> SUFFICES ASSUME NEW r \in 1..(n + 1), rows'[r].kind = "ret"
               PROVE  \E p \in 1..Len(file) : /\ IsRowHeader(p) /\ file[p].kind = "ret"
                                              /\ file[p].fn = rows'[r].fn /\ file[p].idx = rows'[r].idx
    BY <1>1, <1>3 DEF SitesHaveHeaders, IsRowHeader
  <2>1. CASE r \in 1..n
    BY <1>1, <1>2, <1>3, <2>1 DEF ProofInv, SitesHaveHeaders, Reads
  <2>2. CASE r = n + 1
    BY <1>1, <1>4, <2>2 DEF IsRowHeader
  <2> QED
    BY <2>1, <2>2
<1> QED
  BY <1>5, <1>6 DEF ProofInv

LEMMA ProofInvReadCheck ==
  ASSUME ProofInv, LossInv', ReadCheck
  PROVE  ProofInv'
<1>1. /\ phase = "read" /\ phase' = "read" /\ at \in 1..Len(file) /\ at' = at + 1 /\ file' = file
      /\ IsCheck(file[at]) /\ DOMAIN file = 1..Len(file) /\ at <= Len(file)
      /\ seen' = seen + 1 /\ seen \in Nat /\ TypeOK /\ ~IsRowHeader(at) /\ rows \in Seq(Row)
  BY DEF ReadCheck, emitVars, ProofInv, LossInv, RowInv, TypeOK, IsRowHeader, StartsRow, IsCheck
<1>2. PICK n \in Nat : n = Len(rows)
  BY DEF ProofInv, LossInv, RowInv, TypeOK
<1>3. /\ n > 0 => rows'[n] = Counted(rows[n])
      /\ Len(rows') = n /\ \A r \in 1..n : r # n => rows'[r] = rows[r]
  BY <1>1, <1>2 DEF ReadCheck
<1>4. ASSUME NEW r \in 1..n
      PROVE  /\ rows'[r].fn = rows[r].fn /\ rows'[r].kind = rows[r].kind /\ rows'[r].idx = rows[r].idx
             /\ r = n => rows'[r].checks > 0 /\ rows'[r].last = seen + 1
  <2>1. rows[n] \in Row /\ n > 0
    BY <1>1, <1>2
  <2>2. /\ Counted(rows[n]).fn = rows[n].fn /\ Counted(rows[n]).kind = rows[n].kind
        /\ Counted(rows[n]).idx = rows[n].idx /\ Counted(rows[n]).last = seen + 1
        /\ Counted(rows[n]).checks > 0
    BY <2>1 DEF Counted, Row
  <2> QED
    BY <1>3, <2>1, <2>2
<1>5. Number(at) = seen + 1
  <2>1. {q \in Checks(file) : q <= at} = ReadSoFar'
    BY <1>1 DEF ReadSoFar, Checks
  <2>2. Cardinality(ReadSoFar) = seen
    BY <1>1 DEF ProofInv, LossInv, CountInv
  <2> QED
    BY <1>1, <2>1, <2>2, ReadOneLine DEF Number
<1>6. HeadersHaveRows'
  <2> SUFFICES ASSUME NEW p \in 1..Len(file), Reached(p)', IsRowHeader(p)'
               PROVE  \E r \in 1..n : HasRow(p, r)'
    BY <1>1, <1>3 DEF HeadersHaveRows
  <2>1. p < at /\ IsRowHeader(p)
    BY <1>1 DEF Reached, IsRowHeader
  <2>2. /\ Reached(p) /\ (Open(p)' <=> Open(p))
        /\ UnderReached(p)' = UnderReached(p) \cup (IF Open(p) THEN {at} ELSE {})
    BY <1>1, <2>1, ReadsOneLineOn DEF ProofInv
  <2>3. PICK r \in 1..n : HasRow(p, r)
    BY <1>1, <1>2, <2>1, <2>2 DEF ProofInv, HeadersHaveRows, Reads
  <2>4. \A m : Number(m)' = Number(m)
    BY <1>1 DEF Number, Checks
  <2>5. rows'[r].fn = file'[p].fn /\ rows'[r].kind = file'[p].kind /\ rows'[r].idx = file'[p].idx
    BY <1>1, <1>4, <2>3 DEF HasRow
  <2>6. r = Len(rows') <=> Open(p)'
    BY <1>2, <1>3, <2>2, <2>3 DEF HasRow
  <2>7. UnderReached(p)' # {} =>
          /\ rows'[r].checks > 0
          /\ \E m \in UnderReached(p)' : rows'[r].last = Number(m)' /\ \A o \in UnderReached(p)' : o <= m
    <3>1. CASE Open(p)
      <4>1. r = n /\ at \in UnderReached(p)'
        BY <1>2, <2>2, <2>3, <3>1 DEF HasRow
      <4>2. rows'[r].checks > 0 /\ rows'[r].last = Number(at)
        BY <1>4, <1>5, <4>1
      <4>3. \A o \in UnderReached(p)' : o <= at
        BY <1>1, <2>2, <3>1 DEF UnderReached, Reached
      <4>4. PICK m \in 1..Len(file) : m = at
        BY <1>1
      <4>5. rows'[r].last = Number(m)'
        BY <2>4, <4>2, <4>4
      <4> QED
        BY <4>1, <4>2, <4>3, <4>4, <4>5
    <3>2. CASE ~Open(p)
      <4>1. r # n /\ UnderReached(p)' = UnderReached(p)
        BY <1>2, <2>2, <2>3, <3>2 DEF HasRow
      <4>2. rows'[r] = rows[r]
        BY <1>3, <4>1
      <4> QED
        BY <2>3, <2>4, <4>1, <4>2 DEF HasRow
    <3> QED
      BY <3>1, <3>2
  <2> QED
    BY <2>5, <2>6, <2>7 DEF HasRow
<1>7. SitesHaveHeaders'
  BY <1>1, <1>2, <1>3, <1>4 DEF ProofInv, SitesHaveHeaders, Reads, IsRowHeader
<1> QED
  BY <1>6, <1>7 DEF ProofInv

LEMMA ProofInvReadOther ==
  ASSUME ProofInv, LossInv', ReadOther \/ ReadEnds
  PROVE  ProofInv'
<1>1. /\ UNCHANGED <<file, rows>> /\ phase = "read" /\ at \in Nat \ {0} /\ DOMAIN file = 1..Len(file)
  BY DEF ReadOther, ReadEnds, emitVars, ProofInv, LossInv, RowInv, TypeOK
<1>2. SitesHaveHeaders'
  <2>1. Reads
    BY <1>1 DEF Reads
  <2> QED
    BY <1>1, <2>1 DEF ProofInv, SitesHaveHeaders, IsRowHeader
<1>3. ASSUME NEW p \in 1..Len(file), Reached(p)', IsRowHeader(p)'
      PROVE  Reached(p) /\ IsRowHeader(p) /\ (Open(p)' <=> Open(p)) /\ UnderReached(p)' = UnderReached(p)
  <2>1. CASE ReadOther
    <3>1. /\ phase' = "read" /\ at' = at + 1 /\ at \in 1..Len(file) /\ at <= Len(file)
          /\ ~IsRowHeader(at) /\ ~IsCheck(file[at])
      BY <1>1, <2>1 DEF ReadOther, IsRowHeader
    <3>2. p < at /\ IsRowHeader(p)
      BY <1>1, <1>3, <3>1 DEF Reached, IsRowHeader
    <3> QED
      BY <1>1, <3>1, <3>2, ReadsOneLineOn DEF ProofInv
  <2>2. CASE ReadEnds
    <3>1. \A q \in 1..Len(file) : Reached(q)' /\ Reached(q)
      BY <1>1, <2>2 DEF ReadEnds, Reached
    <3>2. Under(p)' = Under(p)
      BY <1>1 DEF Under, Checks, IsRowHeader
    <3>3. \A q : IsRowHeader(q)' <=> IsRowHeader(q)
      BY <1>1 DEF IsRowHeader
    <3>4. Under(p) \subseteq 1..Len(file)
      BY <1>1 DEF Under, Checks
    <3>5. Open(p)' <=> Open(p)
      BY <1>1, <3>1, <3>3 DEF Open
    <3>6. UnderReached(p)' = UnderReached(p)
      BY <3>1, <3>2, <3>4 DEF UnderReached
    <3> QED
      BY <1>3, <3>1, <3>3, <3>5, <3>6
  <2> QED
    BY <2>1, <2>2
<1>4. HeadersHaveRows'
  <2> SUFFICES ASSUME NEW p \in 1..Len(file), Reached(p)', IsRowHeader(p)'
               PROVE  \E r \in 1..Len(rows) : HasRow(p, r)'
    BY <1>1 DEF HeadersHaveRows
  <2>1. PICK r \in 1..Len(rows) : HasRow(p, r)
    BY <1>1, <1>3 DEF ProofInv, HeadersHaveRows, Reads
  <2>2. \A m : Number(m)' = Number(m)
    BY <1>1 DEF Number, Checks
  <2> QED
    BY <1>1, <1>3, <2>1, <2>2 DEF HasRow
<1> QED
  BY <1>2, <1>4 DEF ProofInv

\* Before the file is read there is nothing to show, and once it is read only
\* the status of a row changes.
LEMMA ProofInvElsewhere ==
  ASSUME ProofInv, LossInv', Reads' => Reads, UNCHANGED file, phase # "read", phase' # "read",
         Reads => /\ Len(rows') = Len(rows)
                  /\ \A r \in 1..Len(rows) :
                       /\ rows'[r].fn = rows[r].fn /\ rows'[r].kind = rows[r].kind
                       /\ rows'[r].idx = rows[r].idx /\ rows'[r].checks = rows[r].checks
                       /\ rows'[r].last = rows[r].last
  PROVE  ProofInv'
<1>1. SitesHaveHeaders'
  BY DEF ProofInv, SitesHaveHeaders, IsRowHeader
<1>2. ASSUME Reads', NEW p \in 1..Len(file), Reached(p)', IsRowHeader(p)'
      PROVE  \E r \in 1..Len(rows) : HasRow(p, r)'
  <2>1. \A q : (IsRowHeader(q)' <=> IsRowHeader(q)) /\ (Reached(q)' <=> Reached(q))
    BY DEF IsRowHeader, Reached
  <2>2. Under(p)' = Under(p)
    BY DEF Under, Checks, IsRowHeader
  <2>3. (Open(p)' <=> Open(p)) /\ UnderReached(p)' = UnderReached(p)
    BY <2>1, <2>2 DEF Open, UnderReached
  <2>4. PICK r \in 1..Len(rows) : HasRow(p, r)
    BY <1>2, <2>1 DEF ProofInv, HeadersHaveRows
  <2>5. \A m : Number(m)' = Number(m)
    BY DEF Number, Checks
  <2> QED
    BY <1>2, <2>3, <2>4, <2>5 DEF HasRow
<1>3. HeadersHaveRows'
  BY <1>2 DEF HeadersHaveRows
<1> QED
  BY <1>1, <1>3 DEF ProofInv

LEMMA ProofInvStart ==
  ASSUME ProofInv, LossInv', SolverStops
  PROVE  ProofInv'
<1>1. phase' = "read" /\ at' = 1 /\ rows' = <<>>
  BY DEF SolverStops, ProofInv, LossInv, RowInv, ReaderIsAtTheLastRow
<1>2. \A p \in 1..Len(file') : ~Reached(p)'
  BY <1>1 DEF Reached
<1> QED
  BY <1>1, <1>2 DEF ProofInv, HeadersHaveRows, SitesHaveHeaders

LEMMA ProofInvAssign ==
  ASSUME ProofInv, LossInv', Assign
  PROVE  ProofInv'
<1>1. /\ rows \in Seq(Row) /\ at \in 1..Len(rows) /\ phase = "assign" /\ phase' = "assign" /\ file' = file
  BY DEF Assign, emitVars, ProofInv, LossInv, RowInv, TypeOK
<1> DEFINE served == [rows[at] EXCEPT !.status = StatusOf(rows[at].checks, ri)]
<1>2. rows[at] \in Row
  BY <1>1
<1>3. /\ served.last = rows[at].last /\ served.checks = rows[at].checks
      /\ served.kind = rows[at].kind /\ served.fn = rows[at].fn /\ served.idx = rows[at].idx
  BY <1>2 DEF Row
<1>4. rows' = rows \/ rows' = [rows EXCEPT ![at] = served]
  BY DEF Assign
<1> HIDE DEF served
<1>5. CASE rows' = rows
  BY <1>1, <1>5, ProofInvElsewhere DEF Reads
<1>6. CASE rows' = [rows EXCEPT ![at] = served]
  <2>1. /\ rows'[at] = served /\ Len(rows') = Len(rows)
        /\ \A r \in 1..Len(rows) : r # at => rows'[r] = rows[r]
    BY <1>1, <1>6
  <2>2. \A r \in 1..Len(rows) :
          /\ rows'[r].fn = rows[r].fn /\ rows'[r].kind = rows[r].kind
          /\ rows'[r].idx = rows[r].idx /\ rows'[r].checks = rows[r].checks
          /\ rows'[r].last = rows[r].last
    BY <1>3, <2>1
  <2> QED
    BY <1>1, <2>1, <2>2, ProofInvElsewhere DEF Reads
<1> QED
  BY <1>4, <1>5, <1>6

LEMMA ProofInvNext == ProofInv /\ [Next]_vars => ProofInv'
<1> SUFFICES ASSUME ProofInv, [Next]_vars PROVE ProofInv'
  OBVIOUS
<1>1. LossInv'
  BY LossInvNext DEF ProofInv
<1>2. CASE UNCHANGED <<phase, file, rows>> /\ phase # "read"
  BY <1>1, <1>2, ProofInvElsewhere DEF Reads
<1>3. CASE UNCHANGED vars
  <2>1. HeadersHaveRows' = HeadersHaveRows /\ SitesHaveHeaders' = SitesHaveHeaders
    BY <1>3 DEF vars, HeadersHaveRows, SitesHaveHeaders, Reads, Reached, HasRow, UnderReached, Under,
       Open, Number, Checks, IsRowHeader
  <2> QED
    BY <1>1, <2>1 DEF ProofInv
<1>4. CASE phase' \in {"emit", "solve"}
  BY <1>1, <1>4 DEF ProofInv, HeadersHaveRows, SitesHaveHeaders, Reads
<1>5. CASE \/ \E f \in Functions : BeginFunction(f)
           \/ EmitEnsures \/ SkipBody \/ StartBody
           \/ WalkCall \/ WalkAssert \/ WalkAssertBy \/ WalkReturn \/ EndBody
           \/ EmitGhost \/ SolverAnswers
  <2>1. phase' \in {"emit", "solve"}
    BY <1>5 DEF BeginFunction, EmitEnsures, SkipBody, StartBody, WalkCall, WalkAssert, WalkAssertBy,
       WalkReturn, EndBody, EmitGhost, Finish, Walk, InBody, SolverAnswers, emitVars
  <2> QED
    BY <1>4, <2>1
<1>6. CASE AssignEnds \/ Report
  <2>1. UNCHANGED <<file, rows>> /\ phase \in {"assign", "report"} /\ phase' \in {"report", "done"}
    BY <1>6 DEF AssignEnds, Report, emitVars
  <2> QED
    BY <1>1, <2>1, ProofInvElsewhere DEF Reads
<1>7. CASE Next
  BY <1>1, <1>5, <1>6, <1>7, ProofInvStart, ProofInvReadHeader, ProofInvReadCheck, ProofInvReadOther,
     ProofInvAssign DEF Next
<1> QED
  BY <1>3, <1>7

\* The last query under the header at p was answered unsat.
LastIsProved(p) == \E m \in Under(p) : Answer(m) = "unsat" /\ \A o \in Under(p) : o <= m

\* The row of a header with queries shows the answer to the last of them, and
\* when doVerify exits with success that is unsat unless the row is a superseded
\* fallback.
LEMMA RowShowsTheLast ==
  ASSUME ProofInv, verdict = "success", strays = 0, VerifyAssumption,
         NEW p \in 1..Len(file), IsRowHeader(p), Under(p) # {}
  PROVE  \E r \in 1..Len(rows) :
           /\ rows[r].fn = file[p].fn /\ rows[r].kind = file[p].kind /\ rows[r].idx = file[p].idx
           /\ Ignored(rows[r]) \/ LastIsProved(p)
<1>1. /\ phase = "done" /\ rows \in Seq(Row) /\ words \in Seq(Answers) /\ file \in Seq(Line)
      /\ \A r \in 1..Len(rows) : Ignored(rows[r]) \/ rows[r].status \in Accepted
  BY DEF ProofInv, LossInv, VerdictInv, RowInv, TypeOK
<1>2. UnderReached(p) = Under(p) /\ Reached(p)
  BY <1>1 DEF UnderReached, Under, Reached, Checks
<1>3. PICK r \in 1..Len(rows) : HasRow(p, r)
  BY <1>1, <1>2 DEF ProofInv, HeadersHaveRows, Reads
<1>4. PICK m \in Under(p) : rows[r].last = Number(m) /\ \A o \in Under(p) : o <= m
  BY <1>2, <1>3 DEF HasRow
<1>5. rows[r].checks > 0 /\ rows[r].status = Reported(rows[r])
  <2>1. rows[r].checks > 0
    BY <1>2, <1>3 DEF HasRow
  <2> QED
    BY <1>1, <2>1 DEF ProofInv, LossInv, RowInv, ServedRowsAreRight
<1>6. rows[r].last \in Nat \ {0} /\ rows[r].last - strays = rows[r].last
  <2>1. rows[r] \in Row
    BY <1>1
  <2>2. rows[r].last = rows[r].first + rows[r].checks
    BY DEF ProofInv, LossInv, RowInv, RowsAreContiguous
  <2> QED
    BY <1>5, <2>1, <2>2 DEF Row
<1>7. Answer(m) = rows[r].status
  BY <1>4, <1>5, <1>6 DEF Answer, Reported
<1>8. rows[r].status \in Accepted => rows[r].status = "unsat"
  <2>1. CASE rows[r].last <= Len(words)
    <3>1. rows[r].status \in Answers
      BY <1>1, <1>5, <1>6, <2>1 DEF Reported
    <3> QED
      BY <3>1 DEF VerifyAssumption, Accepted
  <2>2. CASE ~(rows[r].last <= Len(words))
    BY <1>5, <1>6, <2>2 DEF Reported, Accepted, NoResult
  <2> QED
    BY <2>1, <2>2
<1>9. Ignored(rows[r]) \/ LastIsProved(p)
  BY <1>1, <1>4, <1>7, <1>8 DEF LastIsProved
<1> QED
  BY <1>3, <1>9 DEF HasRow

\* If the last query under a header was answered unsat, a query of the clause
\* that was not stands before it.
LEMMA ProvedOrMasked ==
  ASSUME file \in Seq(Line), NEW p, LastIsProved(p), Own(p) # {}
  PROVE  IsProved(p) \/ IsMasked(p)
<1>1. PICK m \in Under(p) : Answer(m) = "unsat" /\ \A o \in Under(p) : o <= m
  BY DEF LastIsProved
<1>2. Halves(p) \subseteq Own(p) /\ Own(p) \subseteq Under(p) /\ Under(p) \subseteq Nat
  BY DEF Halves, Own, Under, Checks
<1>3. ASSUME NEW q \in Own(p), Answer(q) # "unsat" PROVE q < m
  <2>1. q \in Nat /\ m \in Nat /\ q <= m /\ q # m
    BY <1>1, <1>2, <1>3
  <2> QED
    BY <2>1
<1>4. CASE Halves(p) # {}
  BY <1>1, <1>2, <1>3, <1>4 DEF IsProved, IsMasked
<1>5. CASE Halves(p) = {} /\ m \in Own(p)
  BY <1>1, <1>5 DEF IsProved
<1>6. CASE Halves(p) = {} /\ m \notin Own(p)
  BY <1>1, <1>3, <1>6 DEF IsProved, IsMasked
<1> QED
  BY <1>4, <1>5, <1>6

\* When doVerify exits with success on a file with no query before its first
\* header, every ensures clause that is asked was proved at its fallback row, or
\* at each of its return sites, or a query of it that was not stands before a
\* query that was, another half of it or one on something else without a row.
THEOREM SuccessProvesUnmaskedClauses == Spec => []OnlyMaskedClausesLackAProof
<1>1. ProofInv => OnlyMaskedClausesLackAProof
  <2> SUFFICES ASSUME ProofInv, verdict = "success", strays = 0,
                      NEW p \in DOMAIN file, IsRowHeader(p), file[p].kind = "ensures", Own(p) # {}
               PROVE  IF ReturnSites(p) = {} THEN IsProved(p) \/ IsMasked(p)
                      ELSE \A q \in ReturnSites(p) : IsProved(q) \/ IsMasked(q)
    BY DEF OnlyMaskedClausesLackAProof
  <2>0. DOMAIN file = 1..Len(file)
    BY DEF ProofInv, LossInv, RowInv, TypeOK
  <2>1. phase = "done" /\ file \in Seq(Line) /\ rows \in Seq(Row) /\ Reads
    BY DEF ProofInv, LossInv, VerdictInv, RowInv, TypeOK, Reads
  <2>2. CASE ReturnSites(p) = {}
    <3>1. Under(p) # {}
      BY DEF Own
    <3>2. PICK r \in 1..Len(rows) :
            /\ rows[r].fn = file[p].fn /\ rows[r].kind = file[p].kind /\ rows[r].idx = file[p].idx
            /\ Ignored(rows[r]) \/ LastIsProved(p)
      BY <2>0, <3>1, RowShowsTheLast, VerifyAssumption
    <3>3. ~Ignored(rows[r])
      <4> SUFFICES ASSUME NEW s \in 1..Len(rows), rows[s].kind = "ret",
                          rows[s].fn = file[p].fn, rows[s].idx = file[p].idx
                   PROVE  FALSE
        BY <2>1, <3>2 DEF Ignored, HasReturnSite
      <4> QED
        BY <2>0, <2>1, <2>2 DEF ProofInv, SitesHaveHeaders, ReturnSites
    <3> QED
      BY <2>1, <2>2, <3>2, <3>3, ProvedOrMasked
  <2>3. ASSUME NEW q \in ReturnSites(p) PROVE IsProved(q) \/ IsMasked(q)
    <3>1. q \in 1..Len(file) /\ IsRowHeader(q) /\ file[q].kind = "ret"
      BY <2>0 DEF ReturnSites
    \* A return site is asked at once, so its query stands under its header.
    <3>2. Own(q) # {}
      <4>1. q + 1 \in 1..Len(file) /\ IsCheck(file[q + 1]) /\ SameClause(file[q + 1], file[q])
        BY <3>1 DEF ProofInv, LossInv, FileInv, SitesAreAsked, IsHeaderOf, IsRowHeader, StartsRow
      <4>2. ~IsRowHeader(q + 1)
        BY <4>1 DEF IsRowHeader, StartsRow, IsCheck
      <4>3. \A h \in (q + 1)..(q + 1) : h = q + 1
        BY <3>1
      <4>4. q + 1 \in Under(q)
        BY <2>1, <3>1, <4>1, <4>2, <4>3 DEF Under, Checks
      <4> QED
        BY <4>1, <4>4 DEF Own
    <3>3. Under(q) # {}
      BY <3>2 DEF Own
    <3>4. PICK r \in 1..Len(rows) : rows[r].kind = "ret" /\ (Ignored(rows[r]) \/ LastIsProved(q))
      BY <3>1, <3>3, RowShowsTheLast, VerifyAssumption
    <3>5. LastIsProved(q)
      BY <3>4 DEF Ignored
    <3> QED
      BY <2>1, <3>2, <3>5, ProvedOrMasked
  <2> QED
    BY <2>2, <2>3
<1>2. Init => ProofInv
  <2> SUFFICES ASSUME Init PROVE ProofInv
    OBVIOUS
  <2>1. ~Reads
    BY DEF Init, Reads
  <2> QED
    BY <2>1, LossInvInit DEF ProofInv, HeadersHaveRows, SitesHaveHeaders
<1> QED
  BY <1>1, <1>2, ProofInvNext, PTL DEF Spec
=============================================================================
