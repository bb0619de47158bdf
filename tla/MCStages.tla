------------------------------ MODULE MCStages ------------------------------
(***************************************************************************)
(* The stages of the compiler that map an input to an output, each over    *)
(* inputs of its own.  A behaviour picks a stage and an input, runs the    *)
(* stage and stops.                                                        *)
(***************************************************************************)
EXTENDS ParserChecks

MCNames == {"a", "b", "f", "T"}

BF == INSTANCE Bitfield WITH Width <- 3, IntBits <- 4

\* A position inside the word, one past its end, one that wraps to a negative
\* position and one that wraps into the word.
Positions == (0 .. 3) \cup {8, 17}
BitFields(names) == {BF!Field(n, lo, hi) : n \in names, lo \in Positions, hi \in Positions}

AR == INSTANCE ArithChecks WITH Width <- 3, Narrow <- 2
Plain(p, t, e) == AR!Job(p, t, "K", <<>>, <<>>, e)

DI == INSTANCE DischargeChecks WITH MaxUnroll <- 2, Ints <- 0 .. 2, Cells <- 0 .. 2
Duty(k, hs, inv) == <<DI!Declare(k, hs, inv)>>

OB == INSTANCE ObjectChecks

SP == INSTANCE SplitterChecks WITH Ints <- 0 .. 3, MaxUnroll <- 2

PF == INSTANCE ProofFileChecks WITH Worlds <- 1 .. 2

LO == INSTANCE LoopChecks WITH Word <- 8, ArenaCap <- 2, Fuel <- 9

IM == INSTANCE ImportChecks WITH PathMax <- 12

VARIABLES stage, in, out
vars == <<stage, in, out>>

Pending == <<>>
Done(s) == stage = s /\ out # Pending
Result == out[1]
Start(s) == stage = s /\ out = Pending
Run(s, result) == /\ stage = s
                  /\ out = Pending
                  /\ out' = <<result>>
                  /\ UNCHANGED <<stage, in>>

Init == \/ Start("bitfield") /\ \E f \in BitFields({"a"}), g \in BitFields({"a", "b"}) :
                                  in \in {<<f>>, <<f, g>>}
        \/ Start("compound") /\ in \in AR!Compounds /\ AR!SmallWords(in)
        \/ /\ Start("const")
           /\ \E t1 \in AR!IntTypes, t2 \in AR!IntTypes \cup {"bool"} :
                \E e1 \in AR!FirstInits, e2 \in AR!SecondInits : in = AR!Pair(t1, e1, t2, e2)
           /\ AR!FoldBoth(in) # <<>>
        \/ /\ Start("loop")
           /\ \/ in \in LO!MapLoops
              \/ in \in LO!SetLoops
              \/ in \in LO!VecLoops
              \/ in \in LO!ArrayLoops
              \/ in \in LO!StringLoops
              \/ in \in LO!RangeLoops
        \/ Start("split") /\ \E p \in SP!Premises :
             \/ \E k \in {"k", "x"} : \E e \in SP!Quants(k) : in = SP!Goal(e, p)
             \/ \E e \in SP!Clauses : in = SP!Goal(e, p)
        \/ Start("import") /\ in \in IM!Jobs
        \/ Start("layout") /\ in \in OB!Layouts
        \/ Start("family") /\ in \in OB!Families
        \/ Start("file") /\ \E r \in PF!Pres :
             \/ \E s \in PF!Plain \cup PF!Nested, b \in PF!Then, g \in {<<>>, <<{1}>>} :
                  in = PF!Function(r, <<>>, <<s>> \o b, g)
             \/ \E s \in PF!Plain, c \in PF!Clauses : in = PF!Function(r, <<c>>, <<s>>, <<>>)
        \/ Start("duty") /\ \E k \in {"preserves", "cycle_preserves"} :
             \/ \E h \in DI!Plain \cup DI!Valued, inv \in DI!Invariants : in = Duty(k, <<h>>, inv)
             \/ \E h \in DI!Valued, inv \in DI!OfResult : in = Duty(k, <<h>>, inv)
             \/ \E r \in {<<>>, <<DI!LE(DI!Var("i"), DI!Lit(1))>>}, x \in {"i", "j"}, inv \in DI!NumberSpecs :
                  DI!Fits(inv) /\ in = Duty(k, <<DI!Numbers(r, <<>>, "int", <<DI!Return(DI!Var(x))>>)>>, inv)
        \/ /\ Start("duty")
           /\ \E r \in {<<>>, <<DI!LE(DI!Var("i"), DI!Lit(1))>>}, e \in DI!Ensures, inv \in DI!NumberSpecs \cup DI!ValueSpecs :
                DI!Fits(inv) /\ in = Duty("refines", <<DI!Numbers(r, e, "int", <<DI!Return(DI!Lit(0))>>)>>, inv)
        \/ Start("duty") /\ \E h \in DI!Steps(<<"a">>), g \in DI!Steps(<<"b">>), inv \in DI!Invariants :
                             in = Duty("noninterference", <<h, g>>, inv)
        \/ Start("duty") /\ \E d, e \in DI!Wordings : in = <<d, e>>
        \/ Start("stmt") /\ \E b \in Bodies, e \in CodeOperands : in \in CodeForms(e, b)
        \/ Start("stmt") /\ \E b \in Bodies, e \in ProofOperands : in \in ProofForms(e, b)
        \/ Start("program") /\ in \in Jobs({"cut"}, {1})
        \/ Start("program") /\ in \in Jobs({"whole", "without", "twice"}, 1 .. Len(Samples))
        \/ Start("expr") /\ in \in Pairs
        \/ Start("expr") /\ \E x \in Spines : \E y \in Around(x) : in \in Around(y)
        \/ Start("clause") /\ \E p \in {"clause", "wp"}, t \in {"i64", "u64"} :
             /\ \/ \E e \in AR!Compared(AR!Depth1) \cup AR!Connected : in = Plain(p, t, e)
                \/ \E op \in AR!Nested : \E e \in AR!Goals(op) : in = Plain(p, t, e)
                \/ \E c \in {"K", "x"} : \E e \in AR!Masks(c) : in = AR!Job(p, t, c, <<>>, <<>>, e)
                \/ \E b \in {"z", "x"} :
                     \/ \E q \in {"all", "some"} : \E e \in AR!Quantifiers(q, b) : in = Plain(p, t, e)
                     \/ \E q \in AR!Quantifiers("all", b), e \in AR!Simple :
                          in = AR!Job(p, t, "K", <<q>>, <<>>, e)
                \/ /\ p = "wp"
                   /\ \E op \in AR!Operations : \E b \in AR!BodiesOf(op), e \in AR!After :
                        in = AR!Job(p, t, "K", <<>>, b, e)
             /\ AR!Typed(in)

Reads(s) == CASE s = "expr" -> <<ExprCursor(in)>>
              [] s = "stmt" -> <<StmtCursor(in)>>
              [] s = "program" -> Programs(in)
RunParser == \E s \in {"expr", "stmt", "program"} :
               LET cs == Reads(s) IN Run(s, [i \in 1 .. Len(cs) |-> Parse(s, cs[i])])
RunBitfield == Run("bitfield", BF!Lower(in))
RunClause == Run("clause", AR!Misread(in))
RunConst == Run("const", AR!FoldBoth(in))
RunCompound == Run("compound", <<AR!Assigned(in), AR!Computed(in)>>)
RunDuty == Run("duty", DI!Emit(in))

RunObjects == \E s \in {"layout", "family"} : Run(s, OB!Checked(in))
RunSplit == Run("split", SP!Goals(in))
RunFile == Run("file", PF!Asked(PF!Contract(in)))

RunLoop == Run("loop", LO!Run(in))
RunImport == Run("import", IM!Compile(in.files, in.input))

Next == \/ RunImport \/ RunLoop \/ RunDuty \/ RunObjects \/ RunSplit \/ RunFile \/ RunParser \/ RunBitfield \/ RunClause \/ RunConst \/ RunCompound
Spec == Init /\ [][Next]_vars

-----------------------------------------------------------------------------
\* An expression written with no more parentheses than the precedence of the
\* operators asks for is read back as the tree it was written for, whatever
\* form stands inside whatever other: parseRange down to parsePrimary agree on
\* precedence, associativity and on where each form ends.
ExpressionsParseBack ==
  Done("expr") => ReadsBack(Result[1], in) \/ ExprLapse(in)

\* A statement, with statements inside it and any expression at each of its
\* places, is read back as itself: no head swallows the body's brace, no clause
\* the next one, no mode flag outlives the form that set it.
StatementsParseBack ==
  Done("stmt") => ReadsBack(Result[1], in) \/ StmtLapse(in, Result[1].c.s)

\* A program that is accepted is the program that was written: where the parser
\* cannot read a form it says so, but for the lapses listed as silent.
MisreadingsAreReported ==
  /\ Done("stmt") => \/ ReadsBack(Result[1], in)
                     \/ Result[1].c.e > 0 \/ Result[1].c.stop # "no"
                     \/ SilentLapse(in, Result[1].c.s)
  /\ Done("expr") => \/ ReadsBack(Result[1], in)
                     \/ Result[1].c.e > 0 \/ Tok(Result[1].c) # "end"
                     \/ MatrixLapse(in)

\* A declaration whose end is missing is never accepted, and where the parser
\* runs past the last token it has already reported an error.
CutProgramsAreRejected ==
  Done("program") /\ in.how = "cut" /\ in.n < Len(Samples[in.d]) => Result[1].c.e > 0

\* Two declarations read as the one and then the other; and when a token of the
\* first is missing or doubled, the second is still read, as itself: recovery
\* finds the boundary, unless the damage leaves a brace open.
DamageStaysLocal ==
  Done("program") /\ in.how # "cut" =>
    LET r == Result[1]  second == Result[3].t[1] IN
    IF in.how = "whole"
    THEN r.c.e = 0 /\ r.c.stop = "no" /\ r.t = Result[2].t \o <<second>>
    ELSE \/ BraceLapse(r.c.s)
         \/ r.t # <<>> /\ r.t[Len(r.t)] \in {second, Unmarked(second)}

\* The methods generated for an accepted bitfield keep the clauses generated for
\* them, for every word and every field next to every other, exactly when no two
\* fields share a bit: the one error of a layout that the parser does not report.
AcceptedFieldsAreIndependent ==
  Done("bitfield") /\ ~Result.rejected =>
    (BF!MethodsMeetContracts(in, Result) <=> ~BF!Overlap(in))

\* What a clause's term says is what the code the gate runs computes, in a
\* clause and after the walk of a body, in every run whose operations stay within
\* the integers where the term has integers, and keep their words where it has
\* words; but for "exists", for a name a quantifier leaves behind, and for a
\* parameter that hides a constant (Lapse).
TermsDescribeRuns ==
  Done("clause") => AR!Lapse(in) \/ \A v \in Result : ~AR!RegularRun(in, v)

\* A constant is what its initialiser computes at run time, and so is a constant
\* over another, unless the types in between cut a value or a u64 has its top bit.
FoldedConstantsAreComputed ==
  Done("const") => \/ ~AR!Def(Result[3])
                   \/ Result[2] = Result[3]
                   \/ ~AR!BothFit(in, Result[1])

\* For a variable x, x op= y stores what x op y computes, and is defined where it
\* is, for every word type, unless the operation tells a u64's top bit from a sign.
\* (Elements of vectors and maps have their own code, IRGen.cpp:1861-1910.)
CompoundIsTheOperation ==
  Done("compound") /\ AR!Bits(in.t) = 3 =>
    Result[1] = Result[2] \/ AR!SignDecides(in)

\* What the queries of a declaration ask is what it claims of the handlers as
\* they run: the solver proves it only if it is true, and if it is true, but for
\* the forms listed (Lapse, ValueSpec, PremiseDropped).
QueriesDecideTheirClaims ==
  Done("duty") /\ Len(in) = 1 => \A i \in 1 .. Len(Result) : DI!Decides(in[1].k, Result[i])

\* Every constant of a file is declared once, and before it is named, unless two
\* declarations join to one name, or the spec function returns a value.
ConstantsAreDeclaredOnce ==
  Done("duty") =>
    /\ DI!IsInjective(DI!Declared(Result)) <=> DI!IsInjective([i \in 1 .. Len(Result) |-> Result[i].owner])
    /\ \A i \in 1 .. Len(Result) : DI!Known(Result[i]) \/ Result[i].inv.ret # "bool"

\* Two handlers each of whose steps is proved to leave the invariant alone keep
\* it when they run at once, statement by statement, unless one comes back to the
\* shared array, or the invariant speaks of an argument: the queries take the one
\* handler's arguments for the other's.
StablePairsHoldTogether ==
  Done("duty") /\ in[1].k = "noninterference" /\ Len(in) = 1 =>
    LET h == in[1].hs[1]  g == in[1].hs[2] IN
    \/ \E i \in 1 .. Len(Result) : DI!Lapse("noninterference", Result[i]) \/ ~DI!Valid(Result[i].goal, Result[i].h)
    \/ DI!ManySteps(h) \/ DI!ManySteps(g) \/ DI!OfArgument(in[1].inv)
    \/ DI!HoldTogether(h, g, in[1].inv)

\* A reference to a struct serves as one to its base, and a container gives every
\* element the room its struct takes in the code: the two passes of Sema and the
\* type IRGen emits agree, but for a base completed after its derived struct, a
\* field placed before its struct was complete, and the aliases in a virtual tree.
LayoutsAgree ==
  Done("layout") /\ ~Result.rejected => OB!LayoutsHold(in, Result.tab)

\* In an accepted program every call of a method on a reference to a base runs
\* the override nearest to the object, unless a plain method of the same name
\* stands below it, and every override is one, unless its tree has no virtual
\* method, where nobody looks.
VirtualCallsReachTheOverride ==
  Done("family") /\ ~Result.rejected => OB!CallsHold(in, Result.tab)

\* The goals a clause is split into are all proved exactly when the clause holds
\* under its premises, whatever is split: conjunctions, implications, ranges
\* unrolled, ternaries, premises tried one by one; but for the forms of Lapse.
GoalsDecideTheClause ==
  Done("split") => SP!Decides(in, Result)

\* When every query of a function's file is answered "unsat", what each is about
\* is so wherever the run comes that far: no premise of one statement is in force
\* at another, but for the facts that are taken (TakesTooMuch).  And what is so is
\* proved, but in a clause that is split (Splits).
ProvedAssertionsHold ==
  Done("file") => PF!MeansIt(in, Result.words)

\* The certificate and the report agree goal by goal, but for functions with
\* queries that have no block of their own, facts taken after a goal, and hints.
CertificateAgrees ==
  Done("file") => PF!Agrees(in, Result.words, Result.goals)

\* A foreach loop visits each element that its container held from the loop's
\* beginning to its end exactly once, with the value last stored for it and, in
\* an ordered map, in order, and then ends, whatever its body does to the
\* container ahead of the loop's position; stores and deletions by key leave
\* what they say.
LoopsVisitTheirElements ==
  Done("loop") => LO!KeepsItsPromise(in, Result)

\* An accepted program holds each file it imports, directly or not, once, and
\* what a file imports stands before what follows the import; unless a file goes
\* by two names or is the input file.  A program is refused exactly when a file
\* is missing or broken, or files import one another through "..".
ImportsAreSplicedOnce ==
  Done("import") => IM!SplicesOnce(in, Result)
=============================================================================
