----------------------------- MODULE Discharges -----------------------------
(***************************************************************************)
(* The queries Ghost.cpp emits for refines, preserves, noninterference and *)
(* cycle_preserves.  A declaration is a record: what it is (k), the        *)
(* functions it names (hs, in order) and the spec function (inv).  A query *)
(* is a block: the constants it declares and the term whose negation is    *)
(* asserted.  Names are sequences of words, so that joining them with "_"  *)
(* is concatenation.                                                       *)
(***************************************************************************)
EXTENDS Integers, SequencesExt

CONSTANTS MaxUnroll      \* the longest range that is unrolled (1024)

\* Expressions and statements of the source.
Lit(n) == [k |-> "int", n |-> n]
Var(x) == [k |-> "var", x |-> x]
At(x, i) == [k |-> "index", x |-> x, i |-> i]
Bin(op, l, r) == [k |-> "bin", op |-> op, l |-> l, r |-> r]
Quant(q, x, lo, hi, e) == [k |-> q, x |-> x, lo |-> lo, hi |-> hi, e |-> e]
Put(x, i, e) == [k |-> "put", x |-> x, i |-> i, e |-> e]
Set(x, e) == [k |-> "set", x |-> x, e |-> e]
When(c, a, b) == [k |-> "if", c |-> c, a |-> a, b |-> b]
Return(e) == [k |-> "return", e |-> e]

\* Terms.  A symbol is the block that owns it, what it stands for and a number.
True == [k |-> "true"]
Undefined == [k |-> "undefined"]
Sym(owner, what, n) == [k |-> "sym", s |-> <<owner, what, n>>]
Num(n) == [k |-> "num", n |-> n]
Op(op, l, r) == [k |-> "op", op |-> op, l |-> l, r |-> r]
Store(a, i, v) == [k |-> "store", a |-> a, i |-> i, v |-> v]

Bind(b, x, t) == [y \in DOMAIN b \cup {x} |-> IF y = x THEN t ELSE b[y]]
Positions(s) == [i \in 1 .. Len(s) |-> i]
And(a, t) == IF a = True THEN t ELSE Op("&&", a, t)
Conjunction(ts) == FoldLeft(And, True, ts)

RECURSIVE Lower(_, _), Walk(_, _)
-----------------------------------------------------------------------------
\* smtExpr under the bindings b; a name without one is a fresh constant, b["?"].
Lower(b, e) ==
  CASE e.k = "int" -> Num(e.n)
    [] e.k = "var" -> IF e.x \in DOMAIN b THEN b[e.x] ELSE b["?"]
    [] e.k = "index" -> [k |-> "select", a |-> Lower(b, Var(e.x)), i |-> Lower(b, e.i)]
    [] e.k = "bin" -> Op(e.op, Lower(b, e.l), Lower(b, e.r))
    [] e.k \in {"all", "some"} ->
         [k |-> e.k, x |-> e.x, lo |-> Lower(b, e.lo), hi |-> Lower(b, e.hi),
          e |-> Lower(Bind(b, e.x, Sym(<<>>, e.x, 0)), e.e)]
LowerAll(b, es) == [i \in 1 .. Len(es) |-> Lower(b, es[i])]

\* smtUnrollQuantForall: the conjunction of the body's instances, or nothing.  A
\* range of no element written lo..lo has no first conjunct to start from.
Unroll(b, e) ==
  IF e.k # "all" \/ e.lo.k # "int" \/ e.hi.k # "int" THEN {}
  ELSE LET count == e.hi.n - e.lo.n IN
       IF count < 0 THEN {True}
       ELSE IF count > MaxUnroll THEN {}
       ELSE IF count = 0 THEN {Undefined}
       ELSE {Conjunction([i \in 1 .. count |-> Lower(Bind(b, e.x, Num(e.lo.n + i - 1)), e.e)])}
LowerUnrolled(b, e) ==
  LET u == Unroll(b, e) IN IF u = {} THEN Lower(b, e) ELSE CHOOSE t \in u : TRUE

\* An arm that returned takes its store with it.
Merge(c, t, e) ==
  IF t.dead THEN e.store ELSE IF e.dead THEN t.store
  ELSE [x \in DOMAIN t.store \cup DOMAIN e.store |->
         IF x \notin DOMAIN e.store THEN t.store[x]
         ELSE IF x \notin DOMAIN t.store \/ t.store[x] = e.store[x] THEN e.store[x]
         ELSE [k |-> "ite", c |-> c, a |-> t.store[x], b |-> e.store[x]]]

WalkStmt(w, s) ==
  LET b == w.store IN
  CASE s.k = "put" -> [w EXCEPT !.store[s.x] = Store(@, Lower(b, s.i), Lower(b, s.e))]
    [] s.k = "set" -> [w EXCEPT !.store = Bind(@, s.x, Lower(b, s.e))]
    [] s.k = "return" -> [store |-> Bind(b, "result", Lower(b, s.e)), dead |-> TRUE]
    [] s.k = "if" -> LET t == Walk(w, s.a)  e == Walk(w, s.b) IN
                     IF t.dead /\ e.dead THEN [w EXCEPT !.dead = TRUE]
                     ELSE [w EXCEPT !.store = Merge(Lower(b, s.c), t, e)]
Walk(w, body) == FoldLeft(LAMBDA v, s : IF v.dead THEN v ELSE WalkStmt(v, s), w, body)

\* smtConcreteCallResult on the function itself: the store its body ends with,
\* "result" included.  A sole return is lowered as it stands.
Params(h, args) ==
  [x \in Range(h.params) |-> args[CHOOSE i \in 1 .. Len(args) : h.params[i] = x]]
CallResult(h, args, owner) ==
  Walk([store |-> Bind(Params(h, args), "result", Sym(owner, "call", 0)), dead |-> FALSE], h.body).store
\* Before it walks the body it asks about each requires by itself, of no premise,
\* whether or not the caller set suppressCallRequires: the flag is never read.
Requires(h, args) == LowerAll(Params(h, args), h.req)

-----------------------------------------------------------------------------
\* Position by position, each list of names is bound to the argument there.
BindLists(owner, lists, args) ==
  FoldLeft(LAMBDA b, i : FoldLeft(LAMBDA c, l : Bind(c, l[i], args[i]), b, lists),
           [x \in {"?"} |-> Sym(owner, "fresh", 0)], Positions(args))
Args(owner, h) == [i \in 1 .. Len(h.params) |-> Sym(owner, "arg", i)]
BindResult(b, h, store) == IF h.ret = "void" THEN b ELSE Bind(b, "result", store["result"])
\* The arguments afterwards: only an array can have changed.
Post(h, args, store) ==
  [i \in 1 .. Len(args) |-> IF h.sorts[i] = "array" THEN store[h.params[i]] ELSE args[i]]

\* Mutant: the constants of a block do not carry its name.
BlockUnnamed(owner, h, inv, symbols, goal) ==
  [owner |-> owner, h |-> h, inv |-> inv, goal |-> goal, asks |-> Requires(h, Args(owner, h)),
   declares |-> [i \in 1 .. Len(h.params) |-> <<<<>>, "arg", i>>] \o symbols]
Block(owner, h, inv, symbols, goal) ==
  [owner |-> owner, h |-> h, inv |-> inv, goal |-> goal, asks |-> Requires(h, Args(owner, h)),
   declares |-> [i \in 1 .. Len(h.params) |-> <<owner, "arg", i>>] \o symbols]

SameArity(f, g) == Len(f.params) = Len(g.params)
IsInvariant(inv) == inv.k = "spec" /\ inv.body # <<>> /\ inv.ret = "bool"

\* emitRefines: the contract of the function implies the spec function.  The
\* equation of a spec function that returns a value names no declared constant.
Refines(d, h) ==
  LET owner == <<"refines">> \o h.name \o d.inv.name
      b0 == BindLists(owner, <<d.inv.params, h.params>>, Args(owner, h))
      result == Sym(owner, "result", 0)
      b == IF h.ret = "void" THEN b0 ELSE Bind(b0, "result", result)
      body == Lower(b, d.inv.body[1])
      spec == IF d.inv.ret = "bool" THEN body ELSE Op("==", Sym(<<>>, "result", 0), body)
  IN IF h.k # "fn" \/ d.inv.k # "spec" \/ ~SameArity(h, d.inv) \/ h.ens = <<>> \/ d.inv.body = <<>>
     THEN <<>>
     ELSE <<Block(owner, h, d.inv, IF h.ret = "void" THEN <<>> ELSE <<result.s>>,
                  Op("=>", Conjunction(LowerAll(b, h.req)),
                           Op("=>", Conjunction(LowerAll(b, h.ens)), spec)))>>

\* Mutant: only the handler's own name for a changed array is bound again.
RebindOwnName(b, h, inv, args, post) ==
  FoldLeft(LAMBDA c, i : IF post[i] = args[i] THEN c ELSE Bind(c, h.params[i], post[i]),
           b, Positions(args))
Rebind(b, h, inv, args, post) ==
  FoldLeft(LAMBDA c, i : IF post[i] = args[i] THEN c
                         ELSE Bind(Bind(c, h.params[i], post[i]), inv.params[i], post[i]),
           b, Positions(args))

\* emitPreserves: the body's result and its arrays are in place before the
\* invariant is lowered, and before the requires are.
Preserves(d, h) ==
  LET owner == <<"preserves">> \o h.name \o d.inv.name
      args == Args(owner, h)
      store == CallResult(h, args, owner)
      b0 == BindLists(owner, <<h.params, d.inv.params>>, args)
      b == Rebind(BindResult(b0, h, store), h, d.inv, args, Post(h, args, store))
  IN IF h.k # "fn" \/ ~IsInvariant(d.inv) \/ ~SameArity(h, d.inv) THEN <<>>
     ELSE <<Block(owner, h, d.inv, <<<<owner, "call", 0>>>>,
                  Op("=>", Conjunction(LowerAll(b, h.req)), LowerUnrolled(b, d.inv.body[1])))>>

\* A stable invariant is asked for only where the step changes its term.
Step(req, before, after) ==
  Op("=>", IF before = after THEN req ELSE Op("&&", req, before), after)
Before(b, e, unrolls) == IF unrolls THEN LowerUnrolled(b, e) ELSE Lower(b, e)
After(b, h, store, e) == Lower(BindResult(b, h, store), e)
Premise(owner, h, inv) ==
  Conjunction(LowerAll(BindLists(owner, <<h.params, inv.params>>, Args(owner, h)), h.req))
\* The invariant before and after h's body, under the names that count for it.
Stability(owner, d, h, lists, unrolls, symbols) ==
  LET args == Args(owner, h)
      store == CallResult(h, args, owner)
      before == Before(BindLists(owner, lists, args), d.inv.body[1], unrolls)
      after == After(BindLists(owner, lists, Post(h, args, store)), h, store, d.inv.body[1])
  IN Block(owner, h, d.inv, <<<<owner, "call", 0>>>> \o symbols,
           Step(Premise(owner, h, d.inv), before, after))

\* emitNoninterference: one handler's step against the other's assertion.
Pair(d, h, g) ==
  LET owner == <<"noninterference">> \o h.name \o <<"vs">> \o g.name IN
  IF h.k # "fn" \/ g.k # "fn" \/ ~SameArity(h, d.inv) \/ ~SameArity(g, d.inv) THEN <<>>
  ELSE <<Stability(owner, d, h, <<d.inv.params, h.params, g.params>>, FALSE, <<>>)>>
\* Mutant: a pair is asked about in one order only.
NoninterferenceForwards(d) ==
  IF ~IsInvariant(d.inv) \/ Len(d.hs) < 2 THEN <<>>
  ELSE FlattenSeq([a \in 1 .. Len(d.hs) |->
         FlattenSeq([b \in 1 .. Len(d.hs) |-> IF a >= b THEN <<>> ELSE Pair(d, d.hs[a], d.hs[b])])])
Noninterference(d) ==
  IF ~IsInvariant(d.inv) \/ Len(d.hs) < 2 THEN <<>>
  ELSE FlattenSeq([a \in 1 .. Len(d.hs) |->
         FlattenSeq([b \in 1 .. Len(d.hs) |-> IF a = b THEN <<>> ELSE Pair(d, d.hs[a], d.hs[b])])])

\* emitCyclePreserves: a trap handler counts as a handler here.
Cycle(d, h) ==
  LET owner == <<"cycle_preserves">> \o h.name \o d.inv.name IN
  IF ~IsInvariant(d.inv) \/ h.k = "none" \/ ~SameArity(h, d.inv) THEN <<>>
  ELSE <<Stability(owner, d, h, <<d.inv.params, h.params>>, TRUE, <<<<owner, "result", 0>>>>)>>

Blocks(d) ==
  CASE d.k = "refines" -> Refines(d, d.hs[1])
    [] d.k = "preserves" -> Preserves(d, d.hs[1])
    [] d.k = "noninterference" -> Noninterference(d)
    [] d.k = "cycle_preserves" -> FlattenSeq([i \in 1 .. Len(d.hs) |-> Cycle(d, d.hs[i])])
\* emitGhostSection: kind after kind, whatever the order in the source.
Sections == <<"refines", "preserves", "noninterference", "cycle_preserves">>
Emit(ds) ==
  FlattenSeq([n \in 1 .. Len(Sections) |->
    FlattenSeq([i \in 1 .. Len(ds) |-> IF ds[i].k = Sections[n] THEN Blocks(ds[i]) ELSE <<>>])])
=============================================================================
