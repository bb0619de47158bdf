----------------------------- MODULE WordProofs -----------------------------
(***************************************************************************)
(* Theorems about the operations on words, for words of every width: what  *)
(* a compound assignment stores and what Sema folds are what the           *)
(* instruction computes.                                                   *)
(***************************************************************************)
EXTENDS WordOps, FiniteSetTheorems, TLAPS

-----------------------------------------------------------------------------
(* Powers of two and remainders. *)
\* A power of two counts the subsets of a set of n elements.
LEMMA PowerIsCount ==
  ASSUME NEW n \in Nat
  PROVE  2 ^ n = Cardinality(SUBSET (1 .. n)) /\ IsFiniteSet(SUBSET (1 .. n))
<1>1. n \in Int /\ 1 \in Int
  OBVIOUS
<1>2. IsFiniteSet(1 .. n) /\ Cardinality(1 .. n) = n
  BY <1>1, FS_Interval
<1>3. Cardinality(SUBSET (1 .. n)) = 2 ^ Cardinality(1 .. n) /\ IsFiniteSet(SUBSET (1 .. n))
  BY <1>2, FS_SUBSET
<1> QED BY <1>2, <1>3

\* A power of two is a positive number.
LEMMA PowerType ==
  ASSUME NEW n \in Nat
  PROVE  2 ^ n \in Nat \ {0}
<1> DEFINE S == SUBSET (1 .. n)
<1>1. 2 ^ n = Cardinality(S) /\ IsFiniteSet(S)
  BY PowerIsCount
<1>2. {} \in S
  OBVIOUS
<1>3. S # {}
  BY <1>2
<1> HIDE DEF S
<1>4. Cardinality(S) \in Nat /\ Cardinality(S) # 0
  BY <1>1, <1>3, FS_CardinalityType, FS_EmptySet
<1> QED BY <1>1, <1>4

\* A power doubles with its exponent: of the subsets of 1 .. n + 1, those with
\* n + 1 are as many as those without.
LEMMA PowerDoubles ==
  ASSUME NEW n \in Nat
  PROVE  2 ^ (n + 1) = 2 * 2 ^ n
<1> DEFINE S == SUBSET (1 .. n)
           T == {X \in SUBSET (1 .. n + 1) : n + 1 \in X}
           f == [X \in S |-> X \cup {n + 1}]
<1>1. 2 ^ n = Cardinality(S) /\ IsFiniteSet(S) /\ 2 ^ (n + 1) = Cardinality(SUBSET (1 .. n + 1))
  BY PowerIsCount
<1>2. f \in Bijection(S, T)
  <2>1. \A X \in S : f[X] \in T
    OBVIOUS
  <2>2. ASSUME NEW X \in S, NEW Y \in S, f[X] = f[Y] PROVE X = Y
    <3>1. n + 1 \notin X /\ n + 1 \notin Y /\ X \cup {n + 1} = Y \cup {n + 1}
      BY <2>2
    <3> QED BY <3>1
  <2>3. ASSUME NEW Y \in T PROVE \E X \in S : f[X] = Y
    <3>0. \A e \in Y : e # n + 1 => e \in 1 .. n
      OBVIOUS
    <3>1. Y \ {n + 1} \in S
      BY <3>0
    <3>2. f[Y \ {n + 1}] = Y
      BY <3>1
    <3> QED BY <3>1, <3>2
  <2>4. f \in [S -> T]
    BY <2>1
  <2> HIDE DEF f, S, T
  <2>5. f \in Injection(S, T)
    <3>1. \A X, Y \in S : f[X] = f[Y] => X = Y
      BY <2>2
    <3> QED BY <2>4, <3>1 DEF Injection, IsInjective
  <2>6. f \in Surjection(S, T)
    BY <2>3, <2>4 DEF Surjection
  <2> QED BY <2>5, <2>6 DEF Bijection
<1>3. IsFiniteSet(T) /\ Cardinality(T) = Cardinality(S)
  <2>1. ExistsBijection(S, T)
    BY <1>2 DEF ExistsBijection
  <2> HIDE DEF S, T
  <2> QED BY <1>1, <2>1, FS_Bijection
<1>4. SUBSET (1 .. n + 1) = S \cup T /\ S \cap T = {}
  <2>1. ASSUME NEW X \in SUBSET (1 .. n + 1), n + 1 \notin X PROVE X \in S
    BY <2>1
  <2>2. \A X \in S : X \in SUBSET (1 .. n + 1) /\ n + 1 \notin X
    OBVIOUS
  <2> QED BY <2>1, <2>2
<1> HIDE DEF S, T
<1>5. Cardinality(S \cup T) = Cardinality(S) + Cardinality(T) - Cardinality(S \cap T)
  BY <1>1, <1>3, FS_Union
<1>6. Cardinality(S \cap T) = 0
  BY <1>4, FS_EmptySet
<1>7. Cardinality(S) \in Nat
  BY <1>1, FS_CardinalityType
<1>8. 2 ^ (n + 1) = Cardinality(S \cup T)
  BY <1>1, <1>4
<1>9. 2 ^ (n + 1) = Cardinality(S) + Cardinality(S)
  BY <1>3, <1>5, <1>6, <1>7, <1>8
<1> QED BY <1>1, <1>7, <1>9

\* A division with remainder: what \div and % are.
LEMMA DivMod ==
  ASSUME NEW m \in Nat \ {0}, NEW n \in Int
  PROVE  n = m * (n \div m) + (n % m) /\ n % m \in 0 .. m - 1 /\ n \div m \in Int
<1> DEFINE q == n \div m  r == n % m  p == m * q
<1>1. r \in 0 .. m - 1 /\ q \in Int /\ p \in Int /\ r \in Int
  OBVIOUS
<1>2. n - p = r
  OBVIOUS
<1>3. n = p + r
  <2> HIDE DEF p, r
  <2> QED BY <1>1, <1>2
<1> QED BY <1>1, <1>3

\* A number has one remainder.
LEMMA Unique ==
  ASSUME NEW m \in Nat \ {0}, NEW r \in 0 .. m - 1, NEW s \in 0 .. m - 1, NEW k \in Int, NEW j \in Int, r + k * m = s + j * m
  PROVE  r = s
<1>1. CASE k = j
  BY <1>1
<1>2. CASE k > j
  <2>1. k - j >= 1 /\ (k - j) * m >= m
   BY <1>2
  <2>2. (k - j) * m = k * m - j * m
    OBVIOUS
  <2> QED BY <2>1, <2>2
<1>3. CASE k < j
  <2>1. j - k >= 1 /\ (j - k) * m >= m
   BY <1>3
  <2>2. (j - k) * m = j * m - k * m
    OBVIOUS
  <2> QED BY <2>1, <2>2
<1> QED BY <1>1, <1>2, <1>3

\* Whole multiples of the modulus do not change a remainder.
LEMMA ModShift ==
  ASSUME NEW m \in Nat \ {0}, NEW n \in Int, NEW k \in Int
  PROVE  (n + k * m) % m = n % m
<1> DEFINE l == n + k * m
<1>1. l \in Int
  OBVIOUS
<1>2. n = m * (n \div m) + (n % m) /\ n % m \in 0 .. m - 1 /\ n \div m \in Int
  BY DivMod
<1>3. l = m * (l \div m) + (l % m) /\ l % m \in 0 .. m - 1 /\ l \div m \in Int
  BY <1>1, DivMod
<1> DEFINE q == n \div m  p == l \div m  r == n % m  s == l % m
<1>4. r + (q + k) * m = s + p * m
  <2>1. q \in Int /\ p \in Int /\ r \in Int /\ s \in Int /\ n = m * q + r /\ n + k * m = m * p + s
    BY <1>2, <1>3
  <2> HIDE DEF q, p, r, s, l
  <2>2. (q + k) * m = m * q + k * m /\ p * m = m * p
    BY <2>1
  <2> QED BY <2>1, <2>2
<1>5. r \in 0 .. m - 1 /\ s \in 0 .. m - 1 /\ q + k \in Int /\ p \in Int
  BY <1>2, <1>3
<1> HIDE DEF q, p, r, s
<1>6. r = s
  BY <1>4, <1>5, Unique
<1> QED BY <1>6 DEF r, s

\* Numbers with one remainder differ by whole moduli.
LEMMA ModEqual ==
  ASSUME NEW m \in Nat \ {0}, NEW a \in Int, NEW c \in Int, a % m = c % m
  PROVE  \E k \in Int : a = c + k * m
<1> DEFINE p == a \div m  q == c \div m  r == a % m
<1>1. a = m * p + r /\ p \in Int /\ r \in Int
  BY DivMod
<1>2. c = m * q + r /\ q \in Int
  BY DivMod
<1> HIDE DEF p, q, r
<1>3. (p - q) * m = m * p - m * q /\ p - q \in Int
  BY <1>1, <1>2
<1>4. a = c + (p - q) * m
  BY <1>1, <1>2, <1>3
<1> QED BY <1>3, <1>4

\* A remainder is its own remainder.
LEMMA ModMod ==
  ASSUME NEW m \in Nat \ {0}, NEW n \in Int
  PROVE  n % m \in 0 .. m - 1 /\ (n % m) % m = n % m /\ (n \in 0 .. m - 1 => n % m = n)
<1> DEFINE r == n % m
<1>1. r \in 0 .. m - 1
  BY DivMod
<1>2. \A i \in 0 .. m - 1 : i % m = i
  OBVIOUS
<1> HIDE DEF r
<1>3. r % m = r
  BY <1>1, <1>2
<1> QED BY <1>1, <1>2, <1>3 DEF r

Congruent(a, c, m) == a % m = c % m

\* Sums, differences and products of congruent numbers are congruent.
LEMMA ModOperations ==
  ASSUME NEW m \in Nat \ {0},
         NEW a \in Int, NEW b \in Int, NEW c \in Int, NEW d \in Int,
         Congruent(a, c, m), Congruent(b, d, m)
  PROVE  /\ Congruent(a + b, c + d, m)
         /\ Congruent(a - b, c - d, m)
         /\ Congruent(a * b, c * d, m)
<1>1. PICK k \in Int : a = c + k * m
  BY ModEqual DEF Congruent
<1>2. PICK j \in Int : b = d + j * m
  BY ModEqual DEF Congruent
<1>3. (a + b) % m = (c + d) % m
  <2> DEFINE n == c + d  i == k + j
  <2>1. (k + j) * m = k * m + j * m /\ i \in Int /\ n \in Int
    OBVIOUS
  <2>2. a + b = n + i * m
    BY <1>1, <1>2, <2>1
  <2> HIDE DEF n, i
  <2>3. (n + i * m) % m = n % m
    BY <2>1, ModShift
  <2> QED BY <2>2, <2>3 DEF n
<1>4. (a - b) % m = (c - d) % m
  <2> DEFINE n == c - d  i == k - j
  <2>1. (k - j) * m = k * m - j * m /\ i \in Int /\ n \in Int
    OBVIOUS
  <2>2. a - b = n + i * m
    BY <1>1, <1>2, <2>1
  <2> HIDE DEF n, i
  <2>3. (n + i * m) % m = n % m
    BY <2>1, ModShift
  <2> QED BY <2>2, <2>3 DEF n
<1>5. (a * b) % m = (c * d) % m
  <2> DEFINE u == k * m  v == j * m  z == (c * j + k * d) + k * v
  <2>1. u \in Int /\ v \in Int /\ a = c + u /\ b = d + v
    BY <1>1, <1>2
  <2>2. z * m = (c * v + u * d) + u * v
    <3>1. z * m = ((c * j) * m + (k * d) * m) + (k * v) * m
      BY <2>1
    <3>2. (c * j) * m = c * v /\ (k * d) * m = u * d /\ (k * v) * m = u * v
      OBVIOUS
    <3> QED BY <3>1, <3>2
  <2>3. a * b = c * d + ((c * v + u * d) + u * v)
    <3> HIDE DEF u, v
    <3> QED BY <2>1
  <2> DEFINE n == c * d
  <2>4. z \in Int /\ n \in Int
    BY <2>1
  <2>5. a * b = n + z * m
    BY <2>2, <2>3
  <2> HIDE DEF z, n
  <2>6. (n + z * m) % m = n % m
    BY <2>4, ModShift
  <2> QED BY <2>5, <2>6 DEF n
<1> QED BY <1>3, <1>4, <1>5 DEF Congruent

-----------------------------------------------------------------------------
(* Words of Width bits. *)
Full == 2 ^ Width
WidthOK == Width \in Nat \ {0}
LongTypes == {"i64", "u64"}

\* The signed words are the lower half of all words, shifted.
LEMMA WordSize ==
  ASSUME WidthOK
  PROVE  /\ Full \in Nat \ {0}
         /\ Half \in Nat \ {0}
         /\ Full = 2 * Half
<1>1. Width \in Nat /\ Width - 1 \in Nat /\ (Width - 1) + 1 = Width
  BY DEF WidthOK
<1>2. Full \in Nat \ {0} /\ Half \in Nat \ {0}
  BY <1>1, PowerType DEF Full, Half
<1>3. 2 ^ ((Width - 1) + 1) = 2 * 2 ^ (Width - 1)
  BY <1>1, PowerDoubles
<1> QED BY <1>1, <1>2, <1>3 DEF Full, Half

\* What the conversions are on the two types of a word.
LEMMA LongConversions ==
  ASSUME NEW t \in LongTypes
  PROVE  /\ Bits(t) = Width /\ IsInt(t)
         /\ \A n : Word(n, t) = [v |-> n % Full, t |-> t]
         /\ \A n : Value(n, t) = IF t = "i64" /\ n >= Half THEN n - Full ELSE n
<1>1. Bits(t) = Width /\ IsInt(t) /\ (Signed(t) <=> t = "i64")
  BY DEF LongTypes, Bits, IsInt, Signed
<1>2. \A n : Wrap(n, Bits(t)) = n % Full
  BY <1>1 DEF Wrap, Full
<1>3. \A n : Word(n, t) = [v |-> n % Full, t |-> t]
  BY <1>2 DEF Word
<1>4. \A n : Value(n, t) = IF t = "i64" /\ n >= Half THEN n - Full ELSE n
  BY <1>1 DEF Value, Full, Half
<1> QED BY <1>1, <1>3, <1>4

\* A word keeps its bits when it is read as a number of either type.
LEMMA ValueOfWord ==
  ASSUME WidthOK, NEW t \in LongTypes, NEW n \in 0 .. Full - 1
  PROVE  Value(n, t) \in Int /\ Value(n, t) % Full = n
<1>1. Full \in Nat \ {0} /\ Half \in Nat /\ n \in Int
  BY WordSize
<1>2. n % Full = n
  BY <1>1, ModMod
<1>3. CASE t = "i64" /\ n >= Half
  <2>1. Value(n, t) = n + (-1) * Full /\ Value(n, t) \in Int
    BY <1>1, <1>3, LongConversions
  <2> QED BY <1>1, <1>2, <2>1, ModShift
<1>4. CASE ~(t = "i64" /\ n >= Half)
  BY <1>1, <1>2, <1>4, LongConversions
<1> QED BY <1>3, <1>4

\* An operand of the other type is the same word.
LEMMA CoerceWord ==
  ASSUME WidthOK, NEW t \in LongTypes, NEW u \in LongTypes, NEW y \in 0 .. Full - 1
  PROVE  Coerce([v |-> y, t |-> u], t) = [v |-> y, t |-> t]
<1>1. Coerce([v |-> y, t |-> u], t) = Word(Value(y, u), t)
  BY LongConversions DEF Coerce
<1>2. Word(Value(y, u), t) = [v |-> Value(y, u) % Full, t |-> t]
  BY LongConversions
<1> QED BY <1>1, <1>2, ValueOfWord

\* The instruction on two words: its operands are the numbers the words are in
\* the left operand's type, whatever the type of the right one.
LEMMA InstructionOnWords ==
  ASSUME WidthOK, NEW t \in LongTypes, NEW u \in LongTypes,
         NEW x \in 0 .. Full - 1, NEW y \in 0 .. Full - 1, NEW op
  PROVE  LET I == Instruction(op, [v |-> x, t |-> t], [v |-> y, t |-> u])
             a == Value(x, t)
             b == Value(y, t)
             overflow == t = "i64" /\ b = -1 /\ a = -Half IN
         /\ op = "+" => I = Word(a + b, t)
         /\ op = "-" => I = Word(a - b, t)
         /\ op = "*" => I = Word(a * b, t)
         /\ op = "/" => I = IF b = 0 \/ overflow THEN Undefined ELSE Word(Quotient(a, b), t)
         /\ op = "%" => I = IF b = 0 \/ overflow THEN Undefined ELSE Word(a - b * Quotient(a, b), t)
         /\ op = "&" => I = Word(And(x, y), t)
         /\ op = "|" => I = Word(Or(x, y), t)
         /\ op = "^" => I = Word(Xor(x, y), t)
         /\ op = "<<" => I = IF y >= Width THEN Undefined ELSE Word(x * 2 ^ y, t)
         /\ op = ">>" => I = IF y >= Width THEN Undefined ELSE Word(a \div 2 ^ y, t)
         /\ op \in Compares => I = Bool(Compare(op, a, b))
<1> DEFINE l == [v |-> x, t |-> t]  r == [v |-> y, t |-> u]
<1>1. l.v = x /\ l.t = t /\ Coerce(r, t).v = y /\ Bits(t) = Width
  <2>1. Coerce(r, t) = [v |-> y, t |-> t]
    BY CoerceWord
  <2>2. Bits(t) = Width
    BY LongConversions
  <2> HIDE DEF r
  <2> QED BY <2>1, <2>2
<1>2. (Signed(t) <=> t = "i64") /\ 2 ^ (Bits(t) - 1) = Half
  BY <1>1 DEF Signed, LongTypes, Half
<1> HIDE DEF l, r
<1>3. CASE op \in {"+", "-", "*"}
  BY <1>1, <1>3 DEF Instruction, Compares, Orders, l, r
<1>4. CASE op \in {"/", "%"}
  BY <1>1, <1>2, <1>4 DEF Instruction, Compares, Orders, l, r
<1>5. CASE op \in {"&", "|", "^"}
  BY <1>1, <1>5 DEF Instruction, Compares, Orders, l, r
<1>6. CASE op \in {"<<", ">>"}
  BY <1>1, <1>6 DEF Instruction, Compares, Orders, l, r
<1>7. CASE op \in Compares
  BY <1>1, <1>7 DEF Instruction, Compares, Orders, l, r
<1> QED BY <1>3, <1>4, <1>5, <1>6, <1>7
-----------------------------------------------------------------------------
(* Compound assignments. *)
\* A record whose type is replaced.
LEMMA Retyped ==
  ASSUME NEW z, NEW t, NEW u
  PROVE  [[v |-> z, t |-> t] EXCEPT !.t = u] = [v |-> z, t |-> u]
<1> DEFINE r == [v |-> z, t |-> t]  V == {z}  T == {t, u}
<1>1. r \in [v : V, t : T]
  OBVIOUS
<1>2. [r EXCEPT !.t = u] \in [v : V, t : T] /\ [r EXCEPT !.t = u].v = z /\ [r EXCEPT !.t = u].t = u
  BY <1>1
<1> QED BY <1>2

\* An operation with a result has one of the left operand's type.
LEMMA InstructionResult ==
  ASSUME WidthOK, NEW t \in LongTypes, NEW u \in LongTypes,
         NEW x \in 0 .. Full - 1, NEW y \in 0 .. Full - 1, NEW op \in Operations
  PROVE  LET I == Instruction(op, [v |-> x, t |-> t], [v |-> y, t |-> u]) IN
         \/ I = Undefined /\ ~Def(I)
         \/ Def(I) /\ I = [v |-> I.v, t |-> t]
<1> DEFINE I == Instruction(op, [v |-> x, t |-> t], [v |-> y, t |-> u])
<1>1. I = Undefined \/ \E n : I = Word(n, t)
  <2> HIDE DEF I
  <2>1. CASE op \in {"+", "-", "*"}
    BY <2>1, InstructionOnWords DEF I
  <2>2. CASE op \in {"/", "%"}
    <3> DEFINE a == Value(x, t)  b == Value(y, t)
               f == IF op = "/" THEN Quotient(a, b) ELSE a - b * Quotient(a, b)
               undefined == b = 0 \/ (t = "i64" /\ b = -1 /\ a = -Half)
    <3>1. I = IF undefined THEN Undefined ELSE Word(f, t)
      <4>1. CASE op = "/"
        BY <4>1, InstructionOnWords DEF I
      <4>2. CASE op = "%"
        BY <4>2, InstructionOnWords DEF I
      <4> QED BY <2>2, <4>1, <4>2
    <3> HIDE DEF f, undefined
    <3> QED BY <3>1
  <2>3. CASE op \in {"&", "|", "^"}
    BY <2>3, InstructionOnWords DEF I
  <2>4. CASE op \in {"<<", ">>"}
    BY <2>4, InstructionOnWords DEF I
  <2> QED BY <2>1, <2>2, <2>3, <2>4 DEF Operations, Arithmetic, Bitops
<1>2. ~Def(Undefined)
  BY DEF Def, Undefined
<1>3. ASSUME NEW z PROVE Def([v |-> z, t |-> t])
  BY DEF Def, LongTypes
<1>4. \A n : Word(n, t) = [v |-> n % Full, t |-> t]
  BY LongConversions
<1>5. ASSUME NEW n PROVE Word(n, t) = [v |-> Word(n, t).v, t |-> t] /\ Def(Word(n, t))
  <2>1. Word(n, t) = [v |-> n % Full, t |-> t] /\ Word(n, t).v = n % Full
    BY <1>4
  <2> QED BY <1>3, <2>1
<1> HIDE DEF I
<1>6. CASE I = Undefined
  BY <1>2, <1>6 DEF I
<1>7. CASE \E n : I = Word(n, t)
  BY <1>5, <1>7 DEF I
<1> QED BY <1>1, <1>6, <1>7

\* What a compound assignment stores: the signed instruction's bits.
LEMMA CompoundOnWords ==
  ASSUME WidthOK, NEW t \in LongTypes,
         NEW x \in 0 .. Full - 1, NEW y \in 0 .. Full - 1, NEW op \in Operations
  PROVE  LET I == Instruction(op, [v |-> x, t |-> "i64"], [v |-> y, t |-> t])
             C == Compound(op, [v |-> x, t |-> t], [v |-> y, t |-> t]) IN
         /\ ~Def(I) => C = Undefined
         /\ \A z : I = [v |-> z, t |-> "i64"] => C = [v |-> z, t |-> t]
<1> DEFINE X == [v |-> x, t |-> t]  Y == [v |-> y, t |-> t]
           I == Instruction(op, [v |-> x, t |-> "i64"], Y)
<1>1. X.t = t /\ Bits(t) = Width /\ [X EXCEPT !.t = "i64"] = [v |-> x, t |-> "i64"]
  BY LongConversions, Retyped
<1> HIDE DEF X, Y
<1>2. Compound(op, X, Y) = IF Def(I) THEN [I EXCEPT !.t = t] ELSE I
  BY <1>1 DEF Compound
<1>3. ~Def(I) => I = Undefined
  BY InstructionResult DEF LongTypes, Y
<1>4. ASSUME NEW z, I = [v |-> z, t |-> "i64"] PROVE Compound(op, X, Y) = [v |-> z, t |-> t]
  <2>1. Def(I)
    BY <1>4 DEF Def
  <2> HIDE DEF I
  <2>2. Compound(op, X, Y) = [[v |-> z, t |-> "i64"] EXCEPT !.t = t]
    BY <1>2, <1>4, <2>1
  <2> QED BY <2>2, Retyped
<1> HIDE DEF I
<1> QED BY <1>2, <1>3, <1>4 DEF I, X, Y

\* The signed instruction computes the bits of the unsigned one, unless it
\* tells a top bit from a sign.
LEMMA SignedIsUnsigned ==
  ASSUME WidthOK, NEW u \in LongTypes,
         NEW x \in 0 .. Full - 1, NEW y \in 0 .. Full - 1, NEW op \in Operations,
         op \in {"/", "%", ">>"} => x < Half /\ y < Half
  PROVE  LET S == Instruction(op, [v |-> x, t |-> "i64"], [v |-> y, t |-> u])
             U == Instruction(op, [v |-> x, t |-> "u64"], [v |-> y, t |-> u]) IN
         \/ S = Undefined /\ U = Undefined
         \/ \E z : S = [v |-> z, t |-> "i64"] /\ U = [v |-> z, t |-> "u64"]
<1> DEFINE S == Instruction(op, [v |-> x, t |-> "i64"], [v |-> y, t |-> u])
           U == Instruction(op, [v |-> x, t |-> "u64"], [v |-> y, t |-> u])
           a == Value(x, "i64")
           b == Value(y, "i64")
<1>1. "i64" \in LongTypes /\ "u64" \in LongTypes
  BY DEF LongTypes
<1>2. Full \in Nat \ {0} /\ Half \in Nat \ {0} /\ Full = 2 * Half
  BY WordSize
<1>3. a \in Int /\ b \in Int /\ a % Full = x % Full /\ b % Full = y % Full
  <2>1. x % Full = x /\ y % Full = y
    BY <1>2, ModMod
  <2>2. a \in Int /\ a % Full = x
    BY <1>1, ValueOfWord
  <2>3. b \in Int /\ b % Full = y
    BY <1>1, ValueOfWord
  <2> HIDE DEF a, b
  <2> QED BY <2>1, <2>2, <2>3
<1>4. Value(x, "u64") = x /\ Value(y, "u64") = y /\ (x < Half => a = x) /\ (y < Half => b = y)
  BY <1>1, <1>2, LongConversions
<1>5. \A n : Word(n, "i64") = [v |-> n % Full, t |-> "i64"] /\ Word(n, "u64") = [v |-> n % Full, t |-> "u64"]
  BY <1>1, LongConversions
<1>6. CASE op \in {"+", "-", "*"}
  <2> DEFINE f == IF op = "+" THEN a + b ELSE IF op = "-" THEN a - b ELSE a * b
             g == IF op = "+" THEN x + y ELSE IF op = "-" THEN x - y ELSE x * y
  <2>1. f % Full = g % Full
    <3>0. x \in Int /\ y \in Int
      BY <1>2
    <3> HIDE DEF a, b
    <3>1. Congruent(a, x, Full) /\ Congruent(b, y, Full)
      BY <1>3 DEF Congruent
    <3>2. Full \in Nat \ {0} /\ a \in Int /\ b \in Int
      BY <1>2, <1>3
    <3>3. /\ Congruent(a + b, x + y, Full)
          /\ Congruent(a - b, x - y, Full)
          /\ Congruent(a * b, x * y, Full)
      BY ONLY <3>0, <3>1, <3>2, ModOperations
    <3> QED BY <1>6, <3>3 DEF Congruent
  <2>2. S = Word(f, "i64")
    BY <1>1, <1>6, InstructionOnWords
  <2>3. U = Word(g, "u64")
    BY <1>1, <1>4, <1>6, InstructionOnWords
  <2> HIDE DEF f, g, S, U
  <2>4. S = [v |-> f % Full, t |-> "i64"] /\ U = [v |-> f % Full, t |-> "u64"]
    BY <1>5, <2>1, <2>2, <2>3
  <2> QED BY <2>4 DEF S, U
<1>7. CASE op \in {"/", "%"}
  <2> DEFINE f == IF op = "/" THEN Quotient(x, y) ELSE x - y * Quotient(x, y)
  <2>1. a = x /\ b = y /\ b # -1
    BY <1>4, <1>7
  <2>2. S = IF y = 0 THEN Undefined ELSE Word(f, "i64")
    BY <1>1, <1>7, <2>1, InstructionOnWords
  <2>3. U = IF y = 0 THEN Undefined ELSE Word(f, "u64")
    <3>1. CASE op = "/"
      BY <1>1, <1>4, <3>1, InstructionOnWords
    <3>2. CASE op = "%"
      BY <1>1, <1>4, <3>2, InstructionOnWords
    <3> QED BY <1>7, <3>1, <3>2
  <2> HIDE DEF f, S, U
  <2>4. CASE y = 0
    BY <2>2, <2>3, <2>4 DEF S, U
  <2>5. CASE y # 0
    <3>1. S = [v |-> f % Full, t |-> "i64"] /\ U = [v |-> f % Full, t |-> "u64"]
      BY <1>5, <2>2, <2>3, <2>5
    <3> QED BY <3>1 DEF S, U
  <2> QED BY <2>4, <2>5
<1>8. CASE op \in {"&", "|", "^"}
  <2> DEFINE f == IF op = "&" THEN And(x, y) ELSE IF op = "|" THEN Or(x, y) ELSE Xor(x, y)
  <2>1. S = Word(f, "i64") /\ U = Word(f, "u64")
    BY <1>1, <1>8, InstructionOnWords
  <2> HIDE DEF f, S, U
  <2>2. S = [v |-> f % Full, t |-> "i64"] /\ U = [v |-> f % Full, t |-> "u64"]
    BY <1>5, <2>1
  <2> QED BY <2>2 DEF S, U
<1>9. CASE op \in {"<<", ">>"}
  <2> DEFINE f == IF op = "<<" THEN x * 2 ^ y ELSE x \div 2 ^ y
  <2>1. op = ">>" => a = x
    BY <1>4
  <2>2. S = IF y >= Width THEN Undefined ELSE Word(f, "i64")
    BY <1>1, <1>9, <2>1, InstructionOnWords
  <2>3. U = IF y >= Width THEN Undefined ELSE Word(f, "u64")
    BY <1>1, <1>4, <1>9, InstructionOnWords
  <2> HIDE DEF f, S, U
  <2>4. CASE y >= Width
    BY <2>2, <2>3, <2>4 DEF S, U
  <2>5. CASE ~(y >= Width)
    <3>1. S = [v |-> f % Full, t |-> "i64"] /\ U = [v |-> f % Full, t |-> "u64"]
      BY <1>5, <2>2, <2>3, <2>5
    <3> QED BY <3>1 DEF S, U
  <2> QED BY <2>4, <2>5
<1> QED BY <1>6, <1>7, <1>8, <1>9 DEF Operations, Arithmetic, Bitops

\* x op= y stores what x op y computes, and is undefined where it is, for words of
\* every width, unless the operation tells a u64's top bit from a sign: the signed
\* instruction genCompound emits (IRGen.cpp) is harmless everywhere else.
THEOREM CompoundIsTheInstruction ==
  ASSUME WidthOK, NEW job \in Compounds, job.t \in LongTypes
  PROVE  Assigned(job) = Computed(job) \/ SignDecides(job)
<1> DEFINE x == job.x  y == job.y  t == job.t  op == job.op
           X == [v |-> x, t |-> t]
           Y == [v |-> y, t |-> t]
<1>1. x \in 0 .. Full - 1 /\ y \in 0 .. Full - 1 /\ op \in Operations /\ t \in LongTypes
  BY DEF Compounds, Words, Full
<1> HIDE DEF x, y, t, op
<1>2. Word(x, t) = X /\ Word(y, t) = Y
  <2>1. x % Full = x /\ y % Full = y
    <3>1. Full \in Nat \ {0} /\ x \in Int /\ y \in Int
      BY <1>1, WordSize
    <3> QED BY <1>1, <3>1, ModMod
  <2>2. Word(x, t) = [v |-> x % Full, t |-> t] /\ Word(y, t) = [v |-> y % Full, t |-> t]
    BY <1>1, LongConversions
  <2> QED BY <2>1, <2>2
<1>3. Assigned(job) = Compound(op, X, Y) /\ Computed(job) = Instruction(op, X, Y)
  BY <1>2 DEF Assigned, Computed, x, y, t, op
<1> DEFINE I == Instruction(op, [v |-> x, t |-> "i64"], Y)
<1>4. "i64" \in LongTypes
  BY DEF LongTypes
<1>5. \/ I = Undefined /\ ~Def(I)
      \/ Def(I) /\ I = [v |-> I.v, t |-> "i64"]
  BY <1>1, <1>4, InstructionResult
<1>6. CASE t = "i64"
  <2>1. ~Def(I) => Compound(op, X, Y) = Undefined
    BY <1>1, CompoundOnWords
  <2>2. \A z : I = [v |-> z, t |-> "i64"] => Compound(op, X, Y) = [v |-> z, t |-> "i64"]
    BY <1>1, <1>6, CompoundOnWords
  <2>3. I = Instruction(op, X, Y)
    BY <1>6
  <2> HIDE DEF I
  <2> QED BY <1>3, <1>5, <2>1, <2>2, <2>3
<1>7. CASE t = "u64" /\ ~SignDecides(job)
  <2>1. op \in {"/", "%", ">>"} => x < Half /\ y < Half
    BY <1>1, <1>7, WordSize DEF SignDecides, x, y, t, op
  <2> DEFINE U == Instruction(op, [v |-> x, t |-> "u64"], Y)
  <2>2. \/ I = Undefined /\ U = Undefined
        \/ \E z : I = [v |-> z, t |-> "i64"] /\ U = [v |-> z, t |-> "u64"]
    BY <1>1, <2>1, SignedIsUnsigned
  <2>3. ~Def(I) => Compound(op, X, Y) = Undefined
    BY <1>1, CompoundOnWords
  <2>4. \A z : I = [v |-> z, t |-> "i64"] => Compound(op, X, Y) = [v |-> z, t |-> "u64"]
    BY <1>1, <1>7, CompoundOnWords
  <2>5. U = Instruction(op, X, Y)
    BY <1>7
  <2>6. ~Def(Undefined)
    BY DEF Def, Undefined
  <2> HIDE DEF I, U
  <2> QED BY <1>3, <2>2, <2>3, <2>4, <2>5, <2>6
<1> QED BY <1>1, <1>6, <1>7 DEF LongTypes
-----------------------------------------------------------------------------
(* Folding. *)
\* A folded result is a number with the word's bits.
LEMMA LongKeepsBits ==
  ASSUME WidthOK, NEW n \in Int
  PROVE  Long(n) \in Int /\ Long(n) % Full = n % Full
<1>1. Full \in Nat \ {0} /\ "i64" \in LongTypes
  BY WordSize DEF LongTypes
<1>2. n % Full \in 0 .. Full - 1
  BY <1>1, ModMod
<1>3. Long(n) = Value(n % Full, "i64")
  BY DEF Long, Wrap, Full
<1> QED BY <1>1, <1>2, <1>3, ValueOfWord

\* A number that both types hold is read back from its word.
LEMMA ValueOfNumber ==
  ASSUME WidthOK, NEW t \in LongTypes, NEW n \in -Half .. Half - 1, t = "u64" => n >= 0
  PROVE  n \in Int /\ n % Full \in 0 .. Full - 1 /\ Value(n % Full, t) = n
<1>1. Full \in Nat \ {0} /\ Half \in Nat \ {0} /\ Full = 2 * Half
  BY WordSize
<1>2. n \in Int /\ n % Full \in 0 .. Full - 1
  BY <1>1, ModMod
<1>3. CASE n >= 0
  <2>1. n % Full = n
    BY <1>1, <1>3, ModMod
  <2> QED BY <1>1, <1>2, <2>1, LongConversions
<1>4. CASE n < 0
  <2> DEFINE m == n + Full
  <2>1. m \in 0 .. Full - 1 /\ m \in Int /\ m >= Half /\ m = n + 1 * Full
    BY <1>1, <1>4
  <2>2. m % Full = m
    BY <1>1, <2>1, ModMod
  <2>3. (n + 1 * Full) % Full = n % Full
    <3>1. \A k \in Int : (n + k * Full) % Full = n % Full
      BY <1>1, <1>2, ModShift
    <3> QED BY <3>1
  <2>4. n % Full = m
    BY <2>1, <2>2, <2>3
  <2>5. t = "i64"
    BY <1>4 DEF LongTypes
  <2> QED BY <1>1, <1>2, <2>1, <2>4, <2>5, LongConversions
<1> QED BY <1>2, <1>3, <1>4

\* A quotient is a number.
LEMMA QuotientType ==
  ASSUME NEW a \in Int, NEW b \in Int, b # 0
  PROVE  Quotient(a, b) \in Int
<1>1. Abs(a) \in Nat /\ Abs(b) \in Nat \ {0}
  BY DEF Abs
<1>2. Abs(a) \div Abs(b) \in Int
  BY <1>1
<1> QED BY <1>2 DEF Quotient

\* What folding stores for a word: the bits of the folded number.
LEMMA FoldedWord ==
  ASSUME WidthOK, NEW t \in LongTypes, NEW n \in Int
  PROVE  Storage([v |-> Long(n), t |-> t]) = Word(n, t) /\ Storage([v |-> n, t |-> t]) = Word(n, t)
<1>1. \A m : Storage([v |-> m, t |-> t]) = Word(m, t)
  BY DEF Storage, LongTypes
<1>2. \A m : Word(m, t) = [v |-> m % Full, t |-> t]
  BY LongConversions
<1>3. Long(n) % Full = n % Full
  BY LongKeepsBits
<1> QED BY <1>1, <1>2, <1>3

\* The operations that do not go through a table of bits.
Folded == (Arithmetic \cup {"<<", ">>"}) \cup Compares

\* A constant expression over two constants of one type is stored as the word the
\* instruction would compute, for words of every width, wherever the instruction
\* is defined: foldBinary (Sema.cpp) knows no type, and on numbers that the type
\* and a signed word both hold it does not need one.
THEOREM FoldingIsTheInstruction ==
  ASSUME WidthOK, NEW t \in LongTypes, NEW op \in Folded,
         NEW a \in -Half .. Half - 1, NEW b \in -Half .. Half - 1,
         t = "u64" => a >= 0 /\ b >= 0,
         Def(Instruction(op, Word(a, t), Word(b, t)))
  PROVE  Storage([v |-> FoldBinary(op, a, b), t |-> IF op \in Compares THEN "bool" ELSE t])
           = Instruction(op, Word(a, t), Word(b, t))
<1> DEFINE x == a % Full  y == b % Full
           I == Instruction(op, [v |-> x, t |-> t], [v |-> y, t |-> t])
           F == FoldBinary(op, a, b)
<1>1. a \in Int /\ x \in 0 .. Full - 1 /\ Value(x, t) = a
  BY ValueOfNumber
<1>2. b \in Int /\ y \in 0 .. Full - 1 /\ Value(y, t) = b
  BY ValueOfNumber
<1>3. Full \in Nat \ {0} /\ x \in Nat /\ y \in Nat
  BY <1>1, <1>2, WordSize
<1>4. Word(a, t) = [v |-> x, t |-> t] /\ Word(b, t) = [v |-> y, t |-> t]
  BY LongConversions
<1>5. Instruction(op, Word(a, t), Word(b, t)) = I /\ Def(I)
  BY <1>4
<1>6. I # Undefined
  BY <1>5 DEF Def, Undefined
<1>7. Wrap(b, Width) = y
  BY DEF Wrap, Full
<1> HIDE DEF x, y, I, F
<1>8. CASE op \in {"+", "-", "*"}
  <2> DEFINE n == IF op = "+" THEN a + b ELSE IF op = "-" THEN a - b ELSE a * b
  <2>1. n \in Int
    BY <1>1, <1>2
  <2>2. F = Long(n) /\ op \notin Compares
    BY <1>8 DEF F, FoldBinary, Compares, Orders
  <2>3. I = Word(n, t)
    BY <1>1, <1>2, <1>8, InstructionOnWords DEF I
  <2> HIDE DEF n
  <2> QED BY <1>5, <2>1, <2>2, <2>3, FoldedWord DEF F
<1>9. CASE op \in {"/", "%"}
  <2> DEFINE n == IF op = "/" THEN Quotient(a, b) ELSE a - b * Quotient(a, b)
             undefined == b = 0 \/ (t = "i64" /\ b = -1 /\ a = -Half)
  <2>1. I = IF undefined THEN Undefined ELSE Word(n, t)
    <3>1. CASE op = "/"
      BY <1>1, <1>2, <3>1, InstructionOnWords DEF I
    <3>2. CASE op = "%"
      BY <1>1, <1>2, <3>2, InstructionOnWords DEF I
    <3> QED BY <1>9, <3>1, <3>2
  <2>2. b # 0 /\ I = Word(n, t)
    BY <1>6, <2>1
  <2>3. n \in Int
    BY <1>1, <1>2, <2>2, QuotientType
  <2>4. F = (IF op = "/" THEN Long(n) ELSE n) /\ op \notin Compares
    BY <1>9, <2>2 DEF F, FoldBinary, Compares, Orders
  <2> HIDE DEF n
  <2> QED BY <1>5, <2>2, <2>3, <2>4, FoldedWord DEF F
<1>10. CASE op \in {"<<", ">>"}
  <2> DEFINE n == IF op = "<<" THEN a * 2 ^ y ELSE a \div 2 ^ y
             m == IF op = "<<" THEN x * 2 ^ y ELSE a \div 2 ^ y
  <2>1. 2 ^ y \in Nat \ {0}
    BY <1>3, PowerType
  <2>2. n \in Int
    BY <1>1, <2>1
  <2>3. I = IF y >= Width THEN Undefined ELSE Word(m, t)
    BY <1>1, <1>2, <1>10, InstructionOnWords DEF I
  <2>4. I = Word(m, t)
    BY <1>6, <2>3
  <2>5. n % Full = m % Full
    <3> DEFINE p == 2 ^ y
    <3>1. Congruent(a, x, Full) /\ Congruent(p, p, Full)
      BY <1>1, <1>3, ModMod DEF Congruent, x
    <3>2. p \in Int /\ x \in Int /\ a \in Int
      BY <1>1, <1>3, <2>1
    <3> HIDE DEF p
    <3>3. Congruent(a * p, x * p, Full)
      BY ONLY <1>3, <3>1, <3>2, ModOperations
    <3> QED BY <1>10, <3>3 DEF Congruent, p
  <2>6. Word(n, t) = Word(m, t)
    <3> HIDE DEF n, m
    <3> QED BY <2>5, LongConversions
  <2>7. F = (IF op = "<<" THEN Long(n) ELSE n) /\ op \notin Compares
    BY <1>7, <1>10 DEF F, FoldBinary, Compares, Orders
  <2> HIDE DEF n, m
  <2> QED BY <1>5, <2>2, <2>4, <2>6, <2>7, FoldedWord DEF F
<1>11. CASE op \in Compares
  <2>1. I = Bool(Compare(op, a, b))
    BY <1>1, <1>2, <1>11, InstructionOnWords DEF I
  <2>2. F = Compare(op, a, b)
    BY <1>11 DEF F, FoldBinary, Compares, Orders
  <2>3. Storage([v |-> F, t |-> "bool"]) = Bool(F)
    BY DEF Storage, Bool
  <2> QED BY <1>5, <1>11, <2>1, <2>2, <2>3 DEF F
<1> QED BY <1>8, <1>9, <1>10, <1>11 DEF Folded, Arithmetic
=============================================================================
