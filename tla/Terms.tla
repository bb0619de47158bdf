------------------------------- MODULE Terms -------------------------------
(***************************************************************************)
(* The terms Driver.cpp hands to the solvers for an expression: smtExpr in *)
(* a clause, smtExprWp in the walk of a body, with their choice between    *)
(* unbounded integers and words.  A term is given by its value: Term where *)
(* it is an integer or a truth value, Bv where it is a word.  A context c  *)
(* holds the path ("clause" or "wp"), val (the parameters' values), native *)
(* (the parameters declared as words), store and wpBv (the walk's locals   *)
(* and those known to be words), consts (the const globals) and any (the   *)
(* value a placeholder happens to have).                                   *)
(***************************************************************************)
EXTENDS Arith, SequencesExt

RECURSIVE ContainsBitop(_), CollectBitops(_), Term(_, _), Bv(_, _)

ContainsBitop(e) ==
  CASE e.k = "bin" -> e.op \in Bitops \/ ContainsBitop(e.l) \/ ContainsBitop(e.r)
    [] e.k = "un" -> ContainsBitop(e.e)
    [] e.k = "if" -> ContainsBitop(e.p) \/ ContainsBitop(e.a) \/ ContainsBitop(e.b)
    [] OTHER -> FALSE                  \* a cast or a quantifier hides it

\* The names that stand directly beside a bit operator.
NameOf(e) == IF e.k = "var" THEN {e.x} ELSE {}
CollectBitops(e) ==
  CASE e.k = "bin" -> (IF e.op \in Bitops THEN NameOf(e.l) \cup NameOf(e.r) ELSE {})
                         \cup CollectBitops(e.l) \cup CollectBitops(e.r)
    [] e.k = "un" -> CollectBitops(e.e)
    [] e.k = "if" -> CollectBitops(e.p) \cup CollectBitops(e.a) \cup CollectBitops(e.b)
    [] e.k \in {"all", "some"} -> CollectBitops(e.lo) \cup CollectBitops(e.hi) \cup CollectBitops(e.e)
    [] OTHER -> {}

\* A statement of the body: an assignment marks its target, not its operands.
CollectBitopsStmt(s) ==
  IF s.k = "let" THEN CollectBitops(s.e) ELSE IF CollectBitops(s.e) = {} THEN {} ELSE {s.x}

-----------------------------------------------------------------------------
(* Rewrites of an equality with a mask or a shift into integer arithmetic. *)
LowBitsMask(m) == m \in {2 ^ k - 1 : k \in 1 .. Width - 1}

\* The literal an operand is, or the const global of its name; -1 for neither.
FoldIntLit(c, e) == IF e.k = "int" THEN Wrap(e.n, Width)
                    ELSE IF e.k = "var" /\ e.x \in DOMAIN c.consts THEN Wrap(c.consts[e.x], Width)
                    ELSE -1

\* The truth value of the integer form of an equality, or none: (X & M) == 0 and
\* (X & M) == M as X mod 2^k, (X | M) == M as X < 2^k or, with a high mask, as
\* X mod 2^k = 0, and (X >> N) == K as X div 2^N = K.
Rewrite(c, e, shifts) ==
  LET onLeft == FoldIntLit(c, e.l) >= 0
      lit == FoldIntLit(c, IF onLeft THEN e.l ELSE e.r)
      b == IF onLeft THEN e.r ELSE e.l
      l == FoldIntLit(c, b.l)
      r == FoldIntLit(c, b.r)
      mask == IF LowBitsMask(l) THEN l ELSE r
      masked == IF LowBitsMask(l) THEN b.r ELSE b.l
      kept == IF r = lit THEN b.l ELSE b.r
  IN IF e.op # "==" \/ lit < 0 \/ b.k # "bin" THEN {}
     ELSE IF b.op = "&" /\ LowBitsMask(mask) /\ lit \in {0, mask}
          THEN {Term(c, masked) % (mask + 1) = lit}
     ELSE IF b.op = "|" /\ lit \in {l, r} /\ LowBitsMask(lit) THEN {Term(c, kept) < lit + 1}
     ELSE IF b.op = "|" /\ lit \in {l, r} /\ LowBitsMask(Complement(lit))
          THEN {Term(c, kept) % (Complement(lit) + 1) = 0}
     ELSE IF b.op = ">>" /\ shifts /\ r >= 0 /\ r <= Width - 2
          THEN {Term(c, b.l) \div 2 ^ r = lit}
     ELSE {}

-----------------------------------------------------------------------------
IsLocal(c, x) == c.path = "wp" /\ x \in DOMAIN c.store
IsParameter(c, x) == x \in DOMAIN c.val

\* In the walk an operand is a word if a bit operator made it or the name is
\* known to hold one; in a clause only the operator counts.
OperandIsBv(c, e) ==
  IF c.path = "clause" \/ e.k # "var" THEN ContainsBitop(e)
  ELSE e.x \in c.wpBv \/ (~IsLocal(c, e.x) /\ e.x \in c.native)

BvOperation(op, a, b) ==
  CASE op = "+" -> Wrap(a + b, Width)
    [] op = "-" -> Wrap(a - b, Width)
    [] op = "*" -> Wrap(a * b, Width)
    [] op = "&" -> And(a, b)
    [] op = "|" -> Or(a, b)
    [] op = "^" -> Xor(a, b)
    [] op = "<<" -> IF b >= Width THEN 0 ELSE Wrap(a * 2 ^ b, Width)
    [] op = ">>" -> IF b >= Width THEN 0 ELSE a \div 2 ^ b

IntOperation(op, a, b) ==
  CASE op = "+" -> a + b
    [] op = "-" -> a - b
    [] op = "*" -> a * b
    [] op = "/" -> SmtDiv(a, b)
    [] op = "%" -> IF b = 0 THEN 0 ELSE a - b * SmtDiv(a, b)
    [] op \in Compares -> Compare(op, a, b)

BinaryTerm(c, e) ==
  LET anyBv == OperandIsBv(c, e.l) \/ OperandIsBv(c, e.r)
      form == Rewrite(c, e, anyBv)
      wp == c.path = "wp"
  IN IF form # {} THEN CHOOSE v \in form : TRUE
     ELSE IF e.op = "&&" THEN Term(c, e.l) /\ Term(c, e.r)
     ELSE IF e.op = "||" THEN Term(c, e.l) \/ Term(c, e.r)
     ELSE IF anyBv /\ e.op \in {"==", "!="} THEN Compare(e.op, Bv(c, e.l), Bv(c, e.r))
     ELSE IF anyBv /\ wp /\ e.op \in Orders THEN Compare(e.op, Long(Bv(c, e.l)), Long(Bv(c, e.r)))
     ELSE IF e.op \in Bitops \/ (anyBv /\ wp /\ e.op \in {"+", "-", "*"})
          THEN BvOperation(e.op, Wrap(Term(c, e.l), Width), Wrap(Term(c, e.r), Width))
     ELSE IntOperation(e.op, Term(c, e.l), Term(c, e.r))

\* The binder ranges over every integer; those outside the bounds satisfy the
\* implication the bounds are the premise of.
QuantTerm(c, e) ==
  LET lo == Term(c, e.lo)
      hi == IF e.inclusive THEN Term(c, e.hi) ELSE Term(c, e.hi) - 1
      within(i) == IF c.path = "wp" THEN [c EXCEPT !.store = Bind(c.store, e.x, i)]
                   ELSE [c EXCEPT !.val = Bind(c.val, e.x, i), !.native = @ \ {e.x}]
      body == {Term(within(i), e.e) : i \in lo .. hi}
  IN IF e.k = "all" THEN FALSE \notin body ELSE TRUE

Term(c, e) ==
  CASE e.k = "int" -> e.n
    [] e.k = "var" -> IF IsLocal(c, e.x) THEN c.store[e.x]
                      ELSE IF IsParameter(c, e.x) THEN c.val[e.x] ELSE c.consts[e.x]
    [] e.k = "un" -> IF e.op = "not" THEN ~Term(c, e.e)
                     ELSE IF e.op = "neg" THEN -Term(c, e.e) ELSE c.any
    [] e.k = "bin" -> BinaryTerm(c, e)
    [] e.k = "if" -> IF Term(c, e.p) THEN Term(c, e.a) ELSE Term(c, e.b)
    [] e.k = "cast" -> IF Bits(e.t) = Width THEN Term(c, e.e) ELSE Wrap(Term(c, e.e), Narrow)
    [] e.k \in {"all", "some"} -> QuantTerm(c, e)

Bv(c, e) ==
  CASE e.k = "un" /\ e.op = "neg" -> Wrap(-Bv(c, e.e), Width)
    [] e.k = "un" /\ e.op = "bnot" -> Complement(Bv(c, e.e))
    [] e.k = "bin" /\ e.op \in Bitops \cup {"+", "-", "*"} ->
         BvOperation(e.op, Bv(c, e.l), Bv(c, e.r))
    [] e.k = "if" -> IF Term(c, e.p) THEN Bv(c, e.a) ELSE Bv(c, e.b)
    [] OTHER -> Wrap(Term(c, e), Width)

-----------------------------------------------------------------------------
(* The walk over a body's stores. *)
Marks(c, s) == IF ContainsBitop(s.e) \/ CollectBitops(s.e) \cap c.wpBv # {} THEN {s.x} ELSE {}

\* Mutant: x op= e stores the term of e.
StoreForgets(c, s) ==
  [c EXCEPT !.store = Bind(@, s.x, Term(c, s.e)), !.wpBv = @ \cup Marks(c, s)]
Stored(c, s, v) == CASE s.k \in {"let", "="} -> v
                     [] s.k \in Bitops -> BvOperation(s.k, Wrap(c.store[s.x], Width), Wrap(v, Width))
                     [] OTHER -> IntOperation(s.k, c.store[s.x], v)
Store(c, s) == [c EXCEPT !.store = Bind(@, s.x, Stored(c, s, Term(c, s.e))),
                         !.wpBv = @ \cup Marks(c, s)]

Walk(c, body) == FoldLeft(Store, c, body)

\* The names declared as words: those the clauses and the body collect.
Natives(clauses, body) == UNION ({CollectBitops(e) : e \in clauses}
                                   \cup {CollectBitopsStmt(s) : s \in ToSet(body)})
=============================================================================
