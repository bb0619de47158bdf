---------------------------- MODULE ArithChecks ----------------------------
(***************************************************************************)
(* The expressions the readings of Terms and Arith are compared on, and    *)
(* what a regular run is: one in which no operation leaves the integers    *)
(* its operands stand for.                                                 *)
(***************************************************************************)
EXTENDS Terms

\* Two parameters of one word type, the constant K, and three literals.
Parameters == {"x", "y"}
KVal == 3
Atoms == {Var("x"), Var("y"), Lit(1), Lit(3)}
Consts(job) == Bind(<<>>, job.const, KVal)
Types(job) == Bind(Bind([p \in Parameters |-> job.t], job.const, job.t), "m", job.t)

\* The run: the parameters' words v, the gates of the clauses checked before,
\* the body's statements, and then the expression.
Entry(job, v) == LET env == [p \in Parameters |-> Word(v[p], job.t)] IN
                 IF job.const \in Parameters THEN env ELSE Bind(env, job.const, Word(KVal, job.t))
NewValue(env, s, r) == IF ~Def(r) \/ s.k = "let" THEN r
                       ELSE IF ~Def(env[s.x]) THEN env[s.x] ELSE Compound(s.k, env[s.x], r)
Step(env, s) == Bind(env, s.x, NewValue(env, s, Run(env, s.e)))
Opened(job, v) == FoldLeft(AfterGate, Entry(job, v), job.before)
Final(job, v) == FoldLeft(Step, Opened(job, v), job.body)

Context(job, v, any) ==
  LET native == Parameters \cap Natives({job.e} \cup ToSet(job.before), job.body)
      val == [p \in Parameters |-> IF p \in native THEN v[p] ELSE Value(v[p], job.t)]
  IN Walk([path |-> job.path, val |-> val, native |-> native, store |-> <<>>, wpBv |-> {},
           consts |-> Consts(job), any |-> any], job.body)

Valuations == [Parameters -> Words]
Guesses == -(2 ^ Width) .. 2 ^ Width

\* The parameters for which the term says the opposite of the run, whatever
\* values the solver gives its placeholders.
Denies(job, v, r) == Def(r) /\ \A any \in Guesses : Term(Context(job, v, any), job.e) # r.v
Misread(job) == {v \in Valuations : Denies(job, v, Run(Final(job, v), job.e))}

-----------------------------------------------------------------------------
\* Regular(c, env, e): the term of e reads as the run does; SameWord: as a word.
RECURSIVE Sound(_, _, _, _)
Regular(c, env, e) == Sound("number", c, env, e)
SameWord(c, env, e) == Sound("word", c, env, e)

Meaning(r) == IF r.t = "bool" THEN r.v ELSE Value(r.v, r.t)
ValueOf(env, e) == Meaning(Run(env, e))

Exact(op, a, b, n) == CASE op = "+" -> n = a + b
                        [] op = "-" -> n = a - b
                        [] op = "*" -> n = a * b
                        [] op = "/" -> a >= 0 /\ n = Quotient(a, b)
                        [] op = "%" -> a >= 0 /\ n = a - b * Quotient(a, b)
                        [] op \in Compares -> n = Compare(op, a, b)

\* Where the encoding has integers, the operation gives in its type what it
\* gives on the integers; where it has words, only their reading can differ.
\* The runs of the operands are l and r, n is the value of the whole.
SignDoesNotShow(fs) == (\E f \in fs : f.t = "u64") => \A f \in fs : f.v < Half
RegularWords(c, e, same, l, r, n) ==
  CASE e.op \in {"==", "!="} -> same
    [] e.op \in Orders -> same /\ SignDoesNotShow({l, r})
    [] OTHER -> same /\ n >= 0
RegularBinary(c, env, e, words, l, r, n) ==
  CASE e.op \in {"&&", "||"} ->
            Regular(c, env, e.l) /\ (l.v = (e.op = "&&") => Regular(c, env, e.r))
    [] e.op \in Bitops -> SameWord(c, env, e) /\ n >= 0
    [] words -> RegularWords(c, e, SameWord(c, env, e.l) /\ SameWord(c, env, e.r), l, r, n)
    [] OTHER -> /\ Regular(c, env, e.l)
                /\ Regular(c, env, e.r)
                /\ Exact(e.op, Meaning(l), Meaning(r), n)

\* Equalities of words are compared as words everywhere, the rest after a walk.
OnWords(c, e) ==
  /\ OperandIsBv(c, e.l) \/ OperandIsBv(c, e.r)
  /\ \/ e.op \in {"==", "!="}
     \/ c.path = "wp" /\ e.op \in Orders \cup {"+", "-", "*"}

RegularBranch(c, env, e, f, r) ==
  Regular(c, env, e.p) /\ Regular(c, env, f) /\ ValueOf(env, f) = Meaning(r)

RegularNumber(c, env, e, r) ==
  CASE e.k = "int" -> TRUE
    [] e.k = "var" -> e.x \in c.native => Value(env[e.x].v, env[e.x].t) >= 0
    [] e.k = "un" -> /\ Regular(c, env, e.e)
                     /\ e.op = "neg" => Meaning(r) = -ValueOf(env, e.e)
    [] e.k = "bin" -> RegularBinary(c, env, e, OnWords(c, e), Run(env, e.l), Run(env, e.r), Meaning(r))
    [] e.k = "if" -> RegularBranch(c, env, e, IF Run(env, e.p).v THEN e.a ELSE e.b, r)
    [] e.k = "cast" -> IF Bits(e.t) = Narrow
                       THEN SameWord(c, env, e.e) /\ Meaning(r) >= 0
                       ELSE Regular(c, env, e.e) /\ ValueOf(env, e.e) = Meaning(r)
    [] OTHER -> /\ Regular(c, env, e.lo)
                /\ Regular(c, env, e.hi)
                /\ e.inclusive => End(env, e) = Bound(env, e.hi) + 1
                /\ \A i \in First(env, e) .. End(env, e) - 1 :
                     LET within == [c EXCEPT !.native = @ \ {e.x}] IN
                     /\ Def(Element(env, e, i))
                     /\ Regular(within, Bind(env, e.x, Word(i, "i64")), e.e)

\* The word of e's term is the word of its run: every operation of a ring on
\* words keeps this, a division, an order or a shift to the right does not.
RegularWord(c, env, e) ==
  CASE e.k \in {"int", "var"} -> TRUE
    [] e.k = "un" -> SameWord(c, env, e.e)
    [] e.k = "bin" /\ e.op \in {"+", "-", "*", "&", "^", "<<"} ->
         SameWord(c, env, e.l) /\ SameWord(c, env, e.r)
    [] e.k = "bin" /\ e.op \in {"|", ">>"} ->
         \A f \in {e.l, e.r} : Regular(c, env, f) /\ ValueOf(env, f) >= 0
    [] e.k = "if" -> Regular(c, env, e.p) /\ SameWord(c, env, IF Run(env, e.p).v THEN e.a ELSE e.b)
    [] OTHER -> Regular(c, env, e)

Sound(reading, c, env, e) ==
  IF reading = "word" THEN RegularWord(c, env, e) ELSE RegularNumber(c, env, e, Run(env, e))

\* A body whose stores are regular, one after the other: the store s from the
\* environment env leaves n.
RegularStore(c, env, s, n) ==
  /\ Regular(c, env, s.e)
  /\ s.k \in Bitops => n >= 0 /\ (s.k = ">>" => env[s.x].v < Half)
  /\ s.k \in Arithmetic => Exact(s.k, Meaning(env[s.x]), ValueOf(env, s.e), n)
Cut(job, i) == [job EXCEPT !.body = SubSeq(@, 1, i)]
RegularAlong(job, cs, envs) ==
  LET n == Len(job.body) IN
  /\ Def(Run(envs[n], job.e))
  /\ \A i \in 1 .. n : RegularStore(cs[i - 1], envs[i - 1], job.body[i],
                                    Meaning(envs[i][job.body[i].x]))
  /\ Regular(cs[n], envs[n], job.e)
RegularRun(job, v) ==
  RegularAlong(job, [i \in 0 .. Len(job.body) |-> Context(Cut(job, i), v, 0)],
                    [i \in 0 .. Len(job.body) |-> Final(Cut(job, i), v)])

-----------------------------------------------------------------------------
(* Forms the encoding reads otherwise than the run, however regular.       *)
Exists(e) == e.k = "some"
Shadowed(job) == \E b \in ToSet(job.before) : b.x \in Parameters
ConstHidden(job) == job.const \in Parameters
Lapse(job) == Exists(job.e) \/ Shadowed(job) \/ ConstHidden(job)

-----------------------------------------------------------------------------
(* Inputs. *)
Job(path, t, const, before, body, e) ==
  [path |-> path, t |-> t, const |-> const, before |-> before, body |-> body, e |-> e]
Typed(job) == /\ \A i \in 1 .. Len(job.body) : Type(Types(job), job.body[i].e) = job.t
              /\ Type(Types(job), job.e) = "bool"

Depth1 == {Bin(op, a, b) : op \in Operations, a \in Atoms \ {Lit(1)}, b \in Atoms}
            \cup {Un(op, Var("x")) : op \in {"neg", "bnot"}}
            \cup {Cast(t, Var("x")) : t \in {"i64", "u64", "i8", "u8"}}
            \cup {If(Bin("<", Var("x"), Lit(1)), Var("y"), Lit(3))}
Compared(es) == {Bin(cmp, e, b) : cmp \in {"==", "<"}, e \in es, b \in {Var("y"), Lit(1)}}
                  \cup {Bin(cmp, b, e) : cmp \in {"!=", ">="}, e \in es, b \in {Var("y"), Lit(3)}}
Inner == {Bin(op, Var("x"), b) : op \in Operations, b \in {Var("y"), Lit(3)}}
Depth2(op) == {Bin(op, e, b) : e \in Inner, b \in {Var("y"), Lit(1)}}
                \cup {Bin(op, Lit(3), e) : e \in Inner}
                \cup {Un(op2, e) : op2 \in {"neg", "bnot"}, e \in Inner}
Nested == {"+", "*", "/", "&", "|", ">>"}
Goals(op) == Compared(Depth2(op))

\* Clauses of one operation, of two, with a constant as the mask, with a
\* quantifier, after a clause with one, and with connectives.
Masks(c) == {Bin("==", Bin(op, Var("y"), k), b) : op \in {"&", "|", ">>"}, k \in {Var(c), Lit(3), Lit(1), Lit(6)},
                                                   b \in {Var(c), Lit(3), Lit(0), Lit(6)}}
           \cup {Bin("==", Lit(3), Bin(op, k, Var("y"))) : op \in {"&", "|", ">>"}, k \in {Lit(3), Lit(1)}}
Bodies(b) == {Bin(cmp, Bin(op, Var(b), Var("y")), Lit(1)) : cmp \in {"==", "<"}, op \in {"+", "&"}}
               \cup {Bin("<=", Var(b), Var("x"))}
Quantifiers(q, b) == {Quant(q, b, lo, hi, inclusive, e) :
                        lo \in {Lit(0), Var("x")}, hi \in {Lit(3), Var("y")},
                        inclusive \in BOOLEAN, e \in Bodies(b)}
Simple == {Bin(cmp, Var("x"), e) : cmp \in {"==", "<"}, e \in {Var("y"), Bin("+", Var("y"), Lit(1)),
                                                               Bin("&", Var("y"), Lit(3))}}
Connected == {Bin(op, a, b) : op \in {"&&", "||"}, a \in Simple, b \in {Un("not", c) : c \in Simple}}

Stmt(k, x, e) == [k |-> k, x |-> x, e |-> e]
BodiesOf(op) == {<<Stmt("let", "m", e)>> : e \in {Bin(op, Var("x"), b) : b \in {Var("y"), Lit(3)}}}
                  \cup {<<Stmt("let", "m", e), Stmt(op, "m", Var("y"))>> :
                          e \in {Var("x"), Bin("&", Var("x"), Lit(3)), Bin("+", Var("x"), Var("y"))}}
After == {Bin("==", Var("m"), Var("y")), Bin("<", Var("m"), Lit(3)),
          Bin("==", Bin("+", Var("m"), Lit(1)), Lit(0)), Bin("<", Bin("*", Var("m"), Lit(3)), Var("y"))}

-----------------------------------------------------------------------------
(* Two constants, the second over the first; and a compound assignment.    *)
FirstInits == {Lit(n) : n \in Words} \cup {Cast(t, Lit(n)) : t \in IntTypes, n \in {3, 6}}
Operands == {Var("A"), Lit(1), Lit(3)}
SecondInits ==
  LET one == {Bin(op, a, b) : op \in Operations, a \in {Var("A"), Lit(3)}, b \in Operands}
               \cup {Un(op, Var("A")) : op \in {"neg", "bnot"}}
  IN one \cup {Cast(t, e) : t \in IntTypes, e \in one} \cup {Bin(cmp, e, Var("A")) : cmp \in {"==", "<"}, e \in one}
         \cup {Bin(op, e, Lit(1)) : op \in {"+", "/", ">>"}, e \in one}

\* Null where either declaration is an error.
FoldBoth(job) ==
  LET first == Global(<<>>, job.t1, job.e1)
      consts == Bind(<<>>, "A", first)
      second == IF first = NotFolded THEN NotFolded ELSE Global(consts, job.t2, job.e2)
  IN IF second = NotFolded THEN <<>>
     ELSE <<Storage(first), Storage(second),
            Coerce(Run(Bind(<<>>, "A", Storage(first)), job.e2), job.t2)>>

RECURSIVE Parts(_)
Parts(e) == {e} \cup (CASE e.k = "bin" -> Parts(e.l) \cup Parts(e.r)
                        [] e.k \in {"un", "cast"} -> Parts(e.e)
                        [] OTHER -> {})

\* Every part of the initialiser fits a signed word, an operand fits the type of
\* its partner, and what is narrow is neither cut by a cast nor by an operation.
FitsOperation(f, r, n, l, x) ==
  LET narrow == IsInt(r.t) /\ Bits(r.t) = Narrow IN
  /\ Value(Coerce(x, l.t).v, l.t) = Meaning(x)
  /\ narrow /\ f.op \in Arithmetic => Exact(f.op, Meaning(l), Meaning(x), n)
  /\ narrow /\ f.op = "<<" => n = Meaning(l) * 2 ^ Meaning(x)
FitsRun(env, f, r) ==
  /\ r.t = "u64" => r.v < Half
  /\ f.k = "cast" => Meaning(r) = ValueOf(env, f.e)
  /\ f.k = "un" /\ f.op = "neg" /\ IsInt(r.t) /\ Bits(r.t) = Narrow => Meaning(r) = -ValueOf(env, f.e)
  /\ f.k = "bin" => FitsOperation(f, r, Meaning(r), Run(env, f.l), Run(env, f.r))
Fits(env, f) == FitsRun(env, f, Run(env, f))
FitsSigned(env, e) == \A f \in Parts(e) : Fits(env, f)
BothFit(job, first) == /\ FitsSigned(<<>>, job.e1)
                       /\ Bits(job.t1) = Narrow => Value(first.v, first.t) = ValueOf(<<>>, job.e1)
                       /\ FitsSigned(Bind(<<>>, "A", first), job.e2)

Pair(t1, e1, t2, e2) == [t1 |-> t1, e1 |-> e1, t2 |-> t2, e2 |-> e2]
=============================================================================
