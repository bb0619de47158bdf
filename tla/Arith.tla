------------------------------- MODULE Arith -------------------------------
(***************************************************************************)
(* The readings of one expression in the compiler of src/src: the type     *)
(* Sema gives it, the value the code IRGen emits for it computes, the      *)
(* value Sema folds it to when it initialises a global, and the value of   *)
(* the term Driver hands to the solvers, in a clause and in the walk of a  *)
(* body.  An integer at run time is its bit pattern and a type; a term's   *)
(* is an unbounded integer, or a word where it is lowered to a bit vector. *)
(***************************************************************************)
EXTENDS WordOps, Sequences

Lit(n) == [k |-> "int", n |-> n]
Var(x) == [k |-> "var", x |-> x]
Un(op, e) == [k |-> "un", op |-> op, e |-> e]
Bin(op, l, r) == [k |-> "bin", op |-> op, l |-> l, r |-> r]
If(p, a, b) == [k |-> "if", p |-> p, a |-> a, b |-> b]
Cast(t, e) == [k |-> "cast", t |-> t, e |-> e]
Quant(q, x, lo, hi, inclusive, e) ==
  [k |-> q, x |-> x, lo |-> lo, hi |-> hi, inclusive |-> inclusive, e |-> e]

Bind(f, x, v) == [y \in DOMAIN f \cup {x} |-> IF y = x THEN v ELSE f[y]]

RECURSIVE IsIntLit(_), Type(_, _), Run(_, _), Fold(_, _)
-----------------------------------------------------------------------------
(* Sema: types. *)
IsIntLit(e) == e.k = "int" \/ (e.k = "un" /\ e.op = "neg" /\ IsIntLit(e.e))

CommonType(a, s, b, t) == IF s = t THEN s
                          ELSE IF IsInt(t) /\ IsIntLit(a) THEN t
                          ELSE IF IsInt(s) /\ IsIntLit(b) THEN s ELSE "bad"

\* types[x] is the declared type of x.  A literal takes the type of its partner;
\* the bounds and the body of a quantifier may have any type.
Type(types, e) ==
  CASE e.k = "int" -> "i64"
    [] e.k = "var" -> types[e.x]
    [] e.k = "un" -> LET t == Type(types, e.e) IN
         IF e.op = "not" THEN (IF t = "bool" THEN "bool" ELSE "bad")
         ELSE IF ~IsInt(t) THEN "bad" ELSE IF e.op = "bnot" THEN "i64" ELSE t
    [] e.k = "bin" ->
         LET rt0 == Type(types, e.r)
             lt == IF IsIntLit(e.l) /\ IsInt(rt0) THEN rt0 ELSE Type(types, e.l)
             rt == IF IsIntLit(e.r) /\ IsInt(lt) THEN lt ELSE rt0
         IN IF lt # rt \/ lt = "bad" THEN "bad"
            ELSE IF e.op \in {"&&", "||"} THEN (IF lt = "bool" THEN "bool" ELSE "bad")
            ELSE IF e.op \in Compares THEN "bool"
            ELSE IF IsInt(lt) THEN lt ELSE "bad"
    [] e.k = "if" -> IF Type(types, e.p) # "bool" THEN "bad"
                     ELSE CommonType(e.a, Type(types, e.a), e.b, Type(types, e.b))
    [] e.k = "cast" -> IF IsInt(Type(types, e.e)) THEN e.t ELSE "bad"
    [] e.k \in {"all", "some"} ->
         IF "bad" \in {Type(types, e.lo), Type(types, e.hi), Type(Bind(types, e.x, "i64"), e.e)}
         THEN "bad" ELSE "bool"

-----------------------------------------------------------------------------
(* IRGen: the value computed.  env[x] is the variable's bits and type.     *)
\* The gate of a quantifier: a loop over lo, lo + 1, ... below hi, or below
\* hi + 1 in 64 bits, that stops at the first element that decides it.
Bound(env, e) == Value(Coerce(Run(env, e), "i64").v, "i64")
First(env, e) == Bound(env, e.lo)
EndFrom(e, hi) == IF e.inclusive THEN Long(hi + 1) ELSE hi
End(env, e) == EndFrom(e, Bound(env, e.hi))
Element(env, e, i) == Run(Bind(env, e.x, Word(i, "i64")), e.e)
Decides(e, r) == Def(r) => r.v # (e.k = "all")
Deciding(env, e) == {i \in First(env, e) .. End(env, e) - 1 : Decides(e, Element(env, e, i))}
GateValue(env, e, found) ==
  IF found = {} THEN Bool(e.k = "all") ELSE Element(env, e, Min(found))
QuantGate(env, e) ==
  IF ~(Def(Run(env, e.lo)) /\ Def(Run(env, e.hi))) THEN Undefined
  ELSE GateValue(env, e, Deciding(env, e))

Run(env, e) ==
  CASE e.k = "int" -> Word(e.n, "i64")
    [] e.k = "var" -> env[e.x]
    [] e.k = "un" -> LET r == Run(env, e.e) IN
         IF ~Def(r) THEN Undefined
         ELSE IF e.op = "not" THEN Bool(~r.v)
         ELSE IF e.op = "neg" THEN Word(-r.v, r.t)
         ELSE IF Bits(r.t) # Width THEN Undefined      \* not well-formed code
         ELSE Word(Complement(r.v), "i64")
    [] e.k = "bin" -> LET l == Run(env, e.l)  r == Run(env, e.r) IN
         IF ~Def(l) THEN Undefined
         ELSE IF e.op = "&&" /\ ~l.v THEN Bool(FALSE)
         ELSE IF e.op = "||" /\ l.v THEN Bool(TRUE)
         ELSE IF e.op \in {"&&", "||"} \/ ~Def(r) THEN r
         ELSE IF l.t = "bool" THEN Bool(Compare(e.op, l.v, r.v))
         ELSE Instruction(e.op, l, r)
    [] e.k = "if" -> LET p == Run(env, e.p) IN
         IF ~Def(p) THEN Undefined
         ELSE LET q == Run(env, IF p.v THEN e.a ELSE e.b) IN
              IF Def(q) THEN Coerce(q, Type([x \in DOMAIN env |-> env[x].t], e)) ELSE q
    [] e.k = "cast" -> LET q == Run(env, e.e) IN IF Def(q) THEN Coerce(q, e.t) ELSE q
    [] e.k \in {"all", "some"} -> QuantGate(env, e)

\* What a gate leaves behind: its binder stays declared in the scope of the
\* parameters, with the value that ended the loop.
LastIndex(found, lo, hi) == IF found # {} THEN Min(found) ELSE Max({lo, hi})
AfterGate(env, e) ==
  Bind(env, e.x, Word(LastIndex(Deciding(env, e), First(env, e), End(env, e)), "i64"))

-----------------------------------------------------------------------------
(* Sema: folding.  consts[x] is a folded global.                           *)
NotFolded == [v |-> 0, t |-> "none"]
Fold(consts, e) ==
  CASE e.k = "int" -> [v |-> Long(e.n), t |-> "i64"]
    [] e.k = "var" -> IF e.x \in DOMAIN consts THEN consts[e.x] ELSE NotFolded
    [] e.k = "un" -> LET r == Fold(consts, e.e) IN
         IF r.t = "none" THEN r
         ELSE [r EXCEPT !.v = CASE e.op = "not" -> ~@
                                [] e.op = "neg" -> Long(-@)
                                [] e.op = "bnot" -> -@ - 1]
    [] e.k = "bin" -> LET l == Fold(consts, e.l)  r == Fold(consts, e.r) IN
         IF ~(IsInt(l.t) /\ IsInt(r.t)) \/ e.op \in {"&&", "||"} THEN NotFolded
         ELSE [v |-> FoldBinary(e.op, l.v, r.v), t |-> IF e.op \in Compares THEN "bool" ELSE l.t]
    [] e.k = "cast" -> LET r == Fold(consts, e.e) IN
         IF IsInt(r.t) /\ IsInt(e.t) THEN [r EXCEPT !.t = e.t] ELSE NotFolded
    [] OTHER -> NotFolded

\* The entry of "const g: t = e" (NotFolded where Sema reports an error), and
\* the word its storage holds.
Global(consts, t, e) ==
  LET folded == Fold(consts, e)
      entry == IF e.k = "int" THEN [folded EXCEPT !.t = t] ELSE folded
      given == Type([x \in DOMAIN consts |-> consts[x].t], e)
  IN IF (given = t \/ (IsIntLit(e) /\ IsInt(t)) \/ e.k = "cast") /\ entry.t = t THEN entry
     ELSE NotFolded
=============================================================================
