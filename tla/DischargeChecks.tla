--------------------------- MODULE DischargeChecks ---------------------------
(***************************************************************************)
(* What the queries of Discharges.tla are worth: the solver's answer to    *)
(* each, the claim its declaration makes about the handlers as they run,   *)
(* and the programs over which the two are compared.  An integer is one of *)
(* Ints; an array has a cell for every one of Cells, and no index leaves   *)
(* it (the code traps there).                                              *)
(***************************************************************************)
EXTENDS Discharges, FiniteSets

CONSTANTS Ints, Cells

Apply(op, l, r) ==
  CASE op = "+" -> l + r [] op = "==" -> l = r [] op = "<=" -> l <= r
    [] op = "&&" -> l /\ r [] op = "=>" -> l => r
Domain(sort) == IF sort = "array" THEN [Cells -> Ints] ELSE Ints
\* Every way to pass h its arguments.
Passed(h) == IF Len(h.sorts) = 1 THEN {<<a>> : a \in Domain(h.sorts[1])}
             ELSE Domain(h.sorts[1]) \X Domain(h.sorts[2])

RECURSIVE Eval(_, _, _), Value(_, _), Exec(_, _)
-----------------------------------------------------------------------------
(* The solver.  A binder ranges over every integer: "some" is an implication *)
(* that one outside the bounds satisfies.                                    *)
Eval(t, m, bound) ==
  CASE t.k = "true" -> TRUE
    [] t.k = "num" -> t.n
    [] t.k = "sym" -> IF t.s[2] = "arg" THEN m.args[t.s[3]]
                      ELSE IF t.s[2] \in DOMAIN bound THEN bound[t.s[2]]
                      ELSE IF t.s[2] = "fresh" THEN m.fresh ELSE m.result
    [] t.k = "select" -> Eval(t.a, m, bound)[Eval(t.i, m, bound)]
    [] t.k = "store" -> [Eval(t.a, m, bound) EXCEPT ![Eval(t.i, m, bound)] = Eval(t.v, m, bound)]
    [] t.k = "op" -> IF t.op = "=>" THEN Eval(t.l, m, bound) => Eval(t.r, m, bound)
                     ELSE Apply(t.op, Eval(t.l, m, bound), Eval(t.r, m, bound))
    [] t.k = "ite" -> IF Eval(t.c, m, bound) THEN Eval(t.a, m, bound) ELSE Eval(t.b, m, bound)
    [] t.k = "all" -> \A i \in Eval(t.lo, m, bound) .. Eval(t.hi, m, bound) - 1 :
                        Eval(t.e, m, Bind(bound, t.x, i))
    [] t.k = "some" -> TRUE

Valid(t, h) == \A a \in Passed(h), r \in Ints, f \in Ints :
                 Eval(t, [args |-> a, result |-> r, fresh |-> f], <<>>)

\* The constants a term names.
RECURSIVE Symbols(_)
Symbols(t) ==
  CASE t.k = "sym" -> IF t.s[2] \in {"arg", "result", "call"} THEN {t.s} ELSE {}
    [] t.k = "select" -> Symbols(t.a) \cup Symbols(t.i)
    [] t.k = "store" -> Symbols(t.a) \cup Symbols(t.i) \cup Symbols(t.v)
    [] t.k = "op" -> Symbols(t.l) \cup Symbols(t.r)
    [] t.k = "ite" -> Symbols(t.c) \cup Symbols(t.a) \cup Symbols(t.b)
    [] t.k \in {"all", "some"} -> Symbols(t.lo) \cup Symbols(t.hi) \cup Symbols(t.e)
    [] OTHER -> {}

-----------------------------------------------------------------------------
(* The code.  env is what the names in scope hold.                           *)
Value(env, e) ==
  CASE e.k = "int" -> e.n
    [] e.k = "var" -> env[e.x]
    [] e.k = "index" -> env[e.x][Value(env, e.i)]
    [] e.k = "bin" -> Apply(e.op, Value(env, e.l), Value(env, e.r))
    [] e.k = "all" -> \A i \in Value(env, e.lo) .. Value(env, e.hi) - 1 : Value(Bind(env, e.x, i), e.e)
    [] e.k = "some" -> \E i \in Value(env, e.lo) .. Value(env, e.hi) - 1 : Value(Bind(env, e.x, i), e.e)

\* What is left to run of a body, and what the names hold, after its first
\* statement; an if is its condition, and a return is the last.
StepOnce(p) ==
  LET s == Head(p.rest)  next == Tail(p.rest)  env == p.env IN
  CASE s.k = "put" -> [env |-> [env EXCEPT ![s.x][Value(env, s.i)] = Value(env, s.e)], rest |-> next]
    [] s.k = "set" -> [env |-> Bind(env, s.x, Value(env, s.e)), rest |-> next]
    [] s.k = "return" -> [env |-> Bind(env, "result", Value(env, s.e)), rest |-> <<>>]
    [] s.k = "if" -> [env |-> env, rest |-> (IF Value(env, s.c) THEN s.a ELSE s.b) \o next]
Exec(env, rest) ==
  IF rest = <<>> THEN env ELSE LET p == StepOnce([env |-> env, rest |-> rest]) IN Exec(p.env, p.rest)

Holds(env, es) == \A i \in 1 .. Len(es) : Value(env, es[i])
\* f's parameters hold what is at their positions, whatever else is in scope.
Named(f, args, env) ==
  [x \in Range(f.params) \cup (DOMAIN env \cap {"result"}) |->
    IF x = "result" THEN env[x] ELSE args[CHOOSE i \in 1 .. Len(args) : f.params[i] = x]]
Returned(h, args, env) ==
  [i \in 1 .. Len(args) |-> IF h.sorts[i] = "array" THEN env[h.params[i]] ELSE args[i]]
Nothing == [x \in {} |-> 0]

\* What a declaration claims of one handler; whatever the call before it returned.
Kept(inv, a, env) == \E r \in Ints : Holds(Named(inv, a, Bind(env, "result", r)), inv.body)
Claim(k, h, inv) ==
  \A a \in Passed(h) :
    LET before == Named(h, a, Nothing)
        after == Exec(before, h.body)
        finally == Named(inv, Returned(h, a, after), after)
    IN Holds(before, h.req) =>
       IF k = "refines"
       THEN \A r \in Ints : LET env == Bind(before, "result", r)
                                spec == Value(Named(inv, a, env), inv.body[1]) IN
                            Holds(env, h.ens) => (IF inv.ret = "bool" THEN spec ELSE spec = r)
       ELSE Holds(finally, inv.body) \/ (k # "preserves" /\ ~Kept(inv, a, before))

-----------------------------------------------------------------------------
(* Where a query and its claim may differ.                                   *)
RECURSIVE Mentions(_), Inside(_)
Mentions(e) ==
  CASE e.k = "var" -> {e.x}
    [] e.k = "index" -> {e.x} \cup Mentions(e.i)
    [] e.k = "bin" -> Mentions(e.l) \cup Mentions(e.r)
    [] e.k \in {"all", "some"} -> Mentions(e.lo) \cup Mentions(e.hi) \cup Mentions(e.e)
    [] OTHER -> {}
NamesIn(es) == UNION {Mentions(es[i]) : i \in 1 .. Len(es)}
\* The statements of a body, those inside an if included.
Inside(body) ==
  UNION {{body[i]} \cup (IF body[i].k = "if" THEN Inside(body[i].a) \cup Inside(body[i].b) ELSE {})
           : i \in 1 .. Len(body)}
Changes(h) == \E s \in Inside(h.body) : s.k = "put"
Arrays(h) == {h.params[i] : i \in {j \in 1 .. Len(h.sorts) : h.sorts[j] = "array"}}

\* "exists" is written as an implication, which some integer always satisfies.
SaysSome(inv) == inv.body[1].k = "some"
\* A return inside an if takes what its arm stored with it.
EarlyReturn(h) == \E s \in Inside(h.body) : s.k = "if" /\ \E t \in Inside(<<s>>) : t.k = "return"
\* One name at two positions is bound to the later one's argument.
Shifted(lists) == \E l, m \in Range(lists), i, j \in 1 .. 2 :
                    i # j /\ i \in DOMAIN l /\ j \in DOMAIN m /\ l[i] = m[j]
\* preserves lowers the requires once the changed arrays are bound to what they
\* hold afterwards.
RequiresReadAfter(k, h) == k = "preserves" /\ Changes(h) /\ NamesIn(h.req) \cap Arrays(h) # {}
\* A handler that leaves the invariant's term as it is gets a query without the
\* invariant as its premise.
PremiseDropped(k, b) == /\ k \in {"noninterference", "cycle_preserves"}
                        /\ b.goal.l = Premise(b.owner, b.h, b.inv)
\* The equation of a value names a constant nobody declares.
ValueSpec(k, inv) == k = "refines" /\ inv.ret # "bool"
NoElement(inv) == LET e == inv.body[1] IN e.k = "all" /\ e.lo = e.hi

Lapse(k, b) == \/ SaysSome(b.inv) \/ NoElement(b.inv)
               \/ EarlyReturn(b.h) /\ Changes(b.h)
               \/ Shifted(<<b.h.params, b.inv.params>>)
               \/ RequiresReadAfter(k, b.h)

\* A block is what its declaration claims: proved only if true, and true only
\* if proved.
Decides(k, b) ==
  LET proved == Valid(b.goal, b.h)  claim == Claim(k, b.h, b.inv) IN
  \/ Lapse(k, b)
  \/ ValueSpec(k, b.inv)
  \/ proved /\ claim
  \/ ~proved /\ (claim => PremiseDropped(k, b))

Declared(bs) == FlattenSeq([i \in 1 .. Len(bs) |-> bs[i].declares])
Known(b) == Symbols(b.goal) \subseteq Range(b.declares)

-----------------------------------------------------------------------------
(* Two handlers at once, each over arguments of its own and the one array,   *)
(* statement by statement.                                                   *)
RECURSIVE Together(_, _, _)
\* p's next statement, on the array m.
Move(p, m) == StepOnce([p EXCEPT !.env["m"] = m])
Together(m, p, q) ==
  (IF p.rest = <<>> /\ q.rest = <<>> THEN {m} ELSE {})
    \cup (IF p.rest = <<>> THEN {} ELSE LET r == Move(p, m) IN Together(r.env["m"], r, q))
    \cup (IF q.rest = <<>> THEN {} ELSE LET r == Move(q, m) IN Together(r.env["m"], p, r))

Own(s) == CASE s.k = "put" -> {s.x} \cup Mentions(s.i) \cup Mentions(s.e)
            [] s.k = "if" -> Mentions(s.c)
            [] OTHER -> Mentions(s.e)
\* A handler that comes back to the array is not one step.
ManySteps(h) == \E s, t \in Inside(h.body) : s # t /\ "m" \in Own(s) \cap Own(t)
OfArgument(inv) == (Range(inv.params) \ {inv.params[1]}) \cap NamesIn(inv.body) # {}

\* Whatever the order of their statements, the invariant holds of both once both
\* are done, if it did before.
HoldTogether(h, g, inv) ==
  \A m \in [Cells -> Ints], i \in Ints, j \in Ints :
    LET p == [env |-> Named(h, <<m, i>>, Nothing), rest |-> h.body]
        q == [env |-> Named(g, <<m, j>>, Nothing), rest |-> g.body]
        fine(a) == \A n \in {i, j} : Holds(Named(inv, <<a, n>>, Nothing), inv.body)
    IN fine(m) /\ Holds(p.env, h.req) /\ Holds(q.env, g.req) => \A a \in Together(m, p, q) : fine(a)

-----------------------------------------------------------------------------
(* The programs.  Arguments: the handlers' names, kinds and bodies, and the  *)
(* invariant's parameters and body; an array handler is passed m and i.      *)
M(i) == At("m", i)
LE(a, b) == Bin("<=", a, b)
AllSmall(x) == Quant("all", "k", Lit(0), Lit(2), LE(At(x, Var("k")), Lit(1)))

Early == <<When(Bin("==", Var("i"), Lit(0)), <<Put("m", Lit(0), Lit(2)), Return(Lit(1))>>, <<>>), Return(Lit(0))>>
BothReturn == <<When(LE(Var("i"), Lit(0)), <<Put("m", Lit(0), Lit(2)), Return(Lit(1))>>, <<Return(Lit(0))>>)>>
ArrayBodies ==
  { <<>>, <<Put("m", Var("i"), Lit(1))>>, <<Put("m", Lit(0), Lit(2))>>, <<Put("m", Var("i"), M(Lit(0)))>>,
    <<When(Bin("==", M(Lit(0)), Lit(0)), <<Put("m", Lit(0), Lit(1))>>, <<>>)>>,
    <<When(LE(M(Var("i")), Lit(0)), <<Put("m", Lit(1), Lit(0))>>, <<Put("m", Lit(1), M(Lit(0)))>>)>>,
    <<Set("x", M(Lit(1))), Put("m", Lit(1), M(Lit(0))), Put("m", Lit(0), Var("x"))>> }
ResultBodies == {<<Return(Var("i"))>>, <<Put("m", Lit(1), Lit(0)), Return(M(Lit(1)))>>, Early, BothReturn}
ArrayRequires == {<<>>, <<LE(Var("i"), Lit(1))>>, <<LE(M(Var("i")), Lit(1))>>, <<AllSmall("m"), LE(Var("i"), Lit(1))>>}

Function(k, name, params, sorts, ret, req, ens, body) ==
  [k |-> k, name |-> name, params |-> params, sorts |-> sorts, ret |-> ret, req |-> req, ens |-> ens, body |-> body]
Handler(name, ret, req, body) == Function("fn", name, <<"m", "i">>, <<"array", "int">>, ret, req, <<>>, body)
Plain == {Handler(<<"a">>, "void", r, b) : r \in ArrayRequires, b \in ArrayBodies}
Valued == {Handler(<<"a">>, "int", r, b) : r \in ArrayRequires, b \in ResultBodies}

Spec(name, params, ret, e) == [k |-> "spec", name |-> name, params |-> params, ret |-> ret, body |-> <<e>>]
OverArray(p, q) ==
  { LE(At(p, Lit(0)), Lit(1)), LE(At(p, Lit(0)), At(p, Lit(1))), AllSmall(p),
    LE(Bin("+", At(p, Lit(0)), At(p, Lit(1))), Lit(2)),
    Quant("some", "k", Lit(0), Lit(2), Bin("==", At(p, Var("k")), Lit(0))) }
OverBoth(p, q) ==
  { LE(At(p, Var(q)), Lit(1)), Quant("all", "k", Lit(0), Var(q), LE(At(p, Var("k")), Lit(1))),
    Quant("all", "k", Lit(1), Lit(0), LE(Lit(1), Lit(0))), Quant("all", "k", Lit(1), Lit(1), LE(Lit(1), Lit(0))) }
Invariants == {Spec(<<"c">>, <<"n", "j">>, "bool", e) : e \in OverArray("n", "j") \cup OverBoth("n", "j")}
OfResult == {Spec(<<"c">>, <<"m", "i">>, "bool", LE(Var("result"), Var("i")))}

Declare(k, hs, inv) == [k |-> k, hs |-> hs, inv |-> inv]

\* Handlers of two integers, and a spec function with their names the other way.
Numbers(req, ens, ret, body) == Function("fn", <<"a">>, <<"i", "j">>, <<"int", "int">>, ret, req, ens, body)
NumberSpecs == {Spec(<<"c">>, ps, "bool", LE(Var(x), Lit(1))) : ps \in {<<"i", "j">>, <<"j", "i">>, <<"p", "q">>},
                                                              x \in {"i", "j", "p", "result"}}
Fits(inv) == NamesIn(inv.body) \subseteq Range(inv.params) \cup {"result"}
ValueSpecs == {Spec(<<"c">>, <<"p", "q">>, "int", e) : e \in {Var("p"), Lit(0)}}
Ensures == {<<>>, <<LE(Var("result"), Lit(1))>>, <<Bin("==", Var("result"), Var("i")), LE(Var("j"), Lit(1))>>}

\* Steps that can be told apart over the shared array.
Steps(n) == {Handler(n, "void", r, b) : r \in {<<>>, <<LE(Lit(1), Var("i"))>>}, b \in ArrayBodies}

\* Small declarations that differ in what they name.
Wordy == {<<"a">>, <<"b">>, <<"a", "b">>}
Named2(k, n) == Function(k, n, <<"m", "i">>, <<"array", "int">>, "int", <<LE(Var("i"), Lit(1))>>,
                         <<LE(Var("result"), Lit(1))>>, <<Return(Var("i"))>>)
WordySpecs == {Spec(n, <<"m", "i">>, r, IF r = "bool" THEN LE(Var("i"), Lit(1)) ELSE Var("i"))
                 : n \in {<<"c">>, <<"b", "c">>}, r \in {"bool", "int"}}
Wordings ==
  {Declare(k, <<Named2(f, n)>>, s) : k \in {"preserves", "cycle_preserves"}, f \in {"fn", "trap"},
                                    n \in Wordy, s \in {t \in WordySpecs : t.ret = "bool"}}
    \cup {Declare("refines", <<Named2(f, <<"a">>)>>, s) : f \in {"fn", "none"}, s \in WordySpecs}
    \cup {Declare(k, <<Named2("fn", n), Named2(f, o)>>, s) :
            k \in {"noninterference", "cycle_preserves"}, f \in {"fn", "trap"}, n \in Wordy \ {<<"b">>}, o \in Wordy,
            s \in {t \in WordySpecs : t.ret = "bool"}}
=============================================================================
