------------------------------ MODULE WordOps ------------------------------
(***************************************************************************)
(* Operations on integers: the instruction IRGen emits for an operator,    *)
(* the one it emits for a compound assignment, and what Sema folds the     *)
(* operator to.  A machine word has Width bits (64), a narrow integer      *)
(* Narrow (8); a value is its bit pattern and a type.                      *)
(***************************************************************************)
EXTENDS Integers, FiniteSets, FiniteSetsExt

CONSTANTS Width, Narrow

Words == 0 .. 2 ^ Width - 1
Wrap(n, w) == n % 2 ^ w
IsInt(t) == t \in {"i64", "u64", "i8", "u8"}
Bits(t) == IF t \in {"i8", "u8"} THEN Narrow ELSE Width
Signed(t) == t \in {"i64", "i8"}
Value(v, t) == IF Signed(t) /\ v >= 2 ^ (Bits(t) - 1) THEN v - 2 ^ Bits(t) ELSE v
Long(n) == Value(Wrap(n, Width), "i64")

Ones(n) == {i \in 0 .. Width - 1 : (n \div 2 ^ i) % 2 = 1}
Number(S) == MapThenSumSet(LAMBDA i : 2 ^ i, S)
AndTable == [p \in Words \X Words |-> Number(Ones(p[1]) \cap Ones(p[2]))]
And(a, b) == AndTable[<<a, b>>]
Or(a, b) == a + b - And(a, b)
Xor(a, b) == a + b - 2 * And(a, b)
Complement(a) == 2 ^ Width - 1 - a

Abs(n) == IF n < 0 THEN -n ELSE n
\* Division towards zero, and the solver's: its remainder is never negative.
Quotient(a, b) == LET q == Abs(a) \div Abs(b) IN IF (a < 0) = (b < 0) THEN q ELSE -q
SmtDiv(a, b) == IF b = 0 THEN 0 ELSE IF b > 0 THEN a \div b ELSE -(a \div (-b))

Arithmetic == {"+", "-", "*", "/", "%"}
Bitops == {"&", "|", "^", "<<", ">>"}
Orders == {"<", "<=", ">", ">="}
Compares == {"==", "!="} \cup Orders
Compare(op, a, b) == CASE op = "==" -> a = b  [] op = "!=" -> a # b
                       [] op = "<" -> a < b   [] op = "<=" -> a <= b
                       [] op = ">" -> a > b   [] op = ">=" -> a >= b

-----------------------------------------------------------------------------
(* IRGen: instructions. *)
Undefined == [v |-> 0, t |-> "undefined"]
Def(r) == r.t # "undefined"
Bool(b) == [v |-> b, t |-> "bool"]
Word(n, t) == [v |-> Wrap(n, Bits(t)), t |-> t]

\* genCoerce between integers: extend as the source is signed, or truncate.
Coerce(r, t) == IF IsInt(t) /\ IsInt(r.t) THEN Word(Value(r.v, r.t), t) ELSE r

\* The instruction is chosen by the left operand's type; a literal is an i64.
Instruction(op, l, r) ==
  LET t == l.t  a == Value(l.v, t)  s == Coerce(r, t).v  b == Value(s, t) IN
  CASE op = "+" -> Word(a + b, t)
    [] op = "-" -> Word(a - b, t)
    [] op = "*" -> Word(a * b, t)
    [] op \in {"/", "%"} ->
         IF b = 0 \/ (Signed(t) /\ b = -1 /\ a = -(2 ^ (Bits(t) - 1))) THEN Undefined
         ELSE Word(IF op = "/" THEN Quotient(a, b) ELSE a - b * Quotient(a, b), t)
    [] op = "&" -> Word(And(l.v, s), t)
    [] op = "|" -> Word(Or(l.v, s), t)
    [] op = "^" -> Word(Xor(l.v, s), t)
    [] op \in {"<<", ">>"} ->
         IF s >= Bits(t) THEN Undefined
         ELSE Word(IF op = "<<" THEN l.v * 2 ^ s ELSE a \div 2 ^ s, t)
    [] op \in Compares -> Bool(Compare(op, a, b))

\* Mutant: the instruction is the unsigned one whatever the type.
CompoundUnsigned(op, x, r) ==
  IF Bits(x.t) # Width THEN Undefined
  ELSE LET s == Instruction(op, [x EXCEPT !.t = "u64"], r) IN
       IF Def(s) THEN [s EXCEPT !.t = x.t] ELSE s

\* x op= e on a word: the instruction is the signed one whatever the type.
Compound(op, x, r) ==
  IF Bits(x.t) # Width THEN Undefined
  ELSE LET s == Instruction(op, [x EXCEPT !.t = "i64"], r) IN
       IF Def(s) THEN [s EXCEPT !.t = x.t] ELSE s

-----------------------------------------------------------------------------
(* Sema: folding.  An integer constant is held as a signed word, with a    *)
(* type that does not affect its value.                                    *)
\* Mutant: every operand is folded as a u64.
FoldBinaryUnsigned(op, a, b) ==
  LET r == Instruction(op, Word(a, "u64"), Word(b, "u64")) IN
  IF r.t = "u64" THEN Long(r.v) ELSE IF r.t = "bool" THEN r.v ELSE 0
FoldBinary(op, a, b) ==
  CASE op = "+" -> Long(a + b)
    [] op = "-" -> Long(a - b)
    [] op = "*" -> Long(a * b)
    [] op = "/" -> IF b = 0 THEN 0 ELSE Long(Quotient(a, b))
    [] op = "%" -> IF b = 0 THEN 0 ELSE a - b * Quotient(a, b)
    [] op = "&" -> Long(And(Wrap(a, Width), Wrap(b, Width)))
    [] op = "|" -> Long(Or(Wrap(a, Width), Wrap(b, Width)))
    [] op = "^" -> Long(Xor(Wrap(a, Width), Wrap(b, Width)))
    [] op = "<<" -> Long(a * 2 ^ Wrap(b, Width))
    [] op = ">>" -> a \div 2 ^ Wrap(b, Width)
    [] op \in Compares -> Compare(op, a, b)

Storage(entry) == IF entry.t = "bool" THEN Bool(entry.v) ELSE Word(entry.v, entry.t)

-----------------------------------------------------------------------------
Half == 2 ^ (Width - 1)
Operations == Arithmetic \cup Bitops
IntTypes == {"i64", "u64", "i8", "u8"}

(* A compound assignment x op= y, and x op y. *)
Assigned(job) == Compound(job.op, Word(job.x, job.t), Word(job.y, job.t))
Computed(job) == Instruction(job.op, Word(job.x, job.t), Word(job.y, job.t))
SignDecides(job) == job.t = "u64" /\ job.op \in {"/", "%", ">>"} /\ (job.x >= Half \/ job.y >= Half)

Compounds == [op : Operations, t : IntTypes, x : Words, y : Words]
SmallWords(job) == job.x < 2 ^ Bits(job.t) /\ job.y < 2 ^ Bits(job.t)
=============================================================================
