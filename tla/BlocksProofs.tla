---------------------------- MODULE BlocksProofs ----------------------------
(***************************************************************************)
(* Lemmas about Blocks, for code of any length: levels add up, appending   *)
(* an instruction leaves the levels before it alone, blocks nest, and the  *)
(* operators that look for an end, an arm or an opener find the one.       *)
(***************************************************************************)
EXTENDS Blocks, FiniteSetTheorems, TLAPS

\* i stands in the block of o, which may still be open.
Around(code, o, i) ==
  o \in 1 .. i - 1 /\ code[o].op \in Openers /\ \A j \in o .. i - 1 : Level(code, o, j) >= 1
Closes(code, o, e) == e \in 1 .. Len(code) /\ Around(code, o, e) /\ Level(code, o, e) = 0
ElsesOf(code, o, e) == {j \in Among(code, {"else"}, o, e) : Level(code, o, j) = 1}

\* Every block is closed.
Finished(code) == \A o \in 1 .. Len(code) : code[o].op \in Openers => \E e : Closes(code, o, e)

LEMMA AmongFinite ==
  ASSUME NEW c, NEW ops, NEW i \in Int, NEW j \in Int
  PROVE  IsFiniteSet(Among(c, ops, i, j)) /\ Cardinality(Among(c, ops, i, j)) \in Nat
<1>1. Among(c, ops, i, j) \in SUBSET (i .. j)  BY DEF Among
<1>2. IsFiniteSet(i .. j)  BY FS_Interval
<1>3. IsFiniteSet(Among(c, ops, i, j))  BY <1>1, <1>2, FS_Subset, Zenon
<1> QED  BY <1>3, FS_CardinalityType, Zenon

LEMMA LevelType ==
  ASSUME NEW c, NEW i \in Int, NEW j \in Int
  PROVE  Level(c, i, j) \in Int
BY AmongFinite DEF Level

\* A stretch of code is a first part and a second.
LEMMA AmongAdds ==
  ASSUME NEW c, NEW ops, NEW i \in Int, NEW m \in Int, NEW j \in Int, i <= m, m <= j + 1
  PROVE  Cardinality(Among(c, ops, i, j))
           = Cardinality(Among(c, ops, i, m - 1)) + Cardinality(Among(c, ops, m, j))
<1> DEFINE A == Among(c, ops, i, m - 1)
           B == Among(c, ops, m, j)
<1>1. Among(c, ops, i, j) = A \cup B  BY DEF Among
<1>2. A \cap B = {}  BY DEF Among
<1>3. IsFiniteSet(A) /\ IsFiniteSet(B) /\ Cardinality(A) \in Nat /\ Cardinality(B) \in Nat
  BY AmongFinite
<1> HIDE DEF A, B
<1>4. Cardinality(A \cup B) = Cardinality(A) + Cardinality(B) - Cardinality({})
  BY <1>2, <1>3, FS_Union, Zenon
<1>5. Cardinality({}) = 0  BY FS_EmptySet
<1>6. Cardinality(A \cup B) = Cardinality(A) + Cardinality(B)  BY <1>3, <1>4, <1>5
<1> QED  BY <1>1, <1>6 DEF A, B

LEMMA LevelAdds ==
  ASSUME NEW c, NEW i \in Int, NEW m \in Int, NEW j \in Int, i <= m, m <= j + 1
  PROVE  Level(c, i, j) = Level(c, i, m - 1) + Level(c, m, j)
<1>1. \A ops : Cardinality(Among(c, ops, i, j))
           = Cardinality(Among(c, ops, i, m - 1)) + Cardinality(Among(c, ops, m, j))
  BY AmongAdds
<1>2. \A ops, a, b : a \in Int /\ b \in Int => Cardinality(Among(c, ops, a, b)) \in Nat
  BY AmongFinite
<1>3. \A ops : Cardinality(Among(c, ops, i, m - 1)) \in Nat /\ Cardinality(Among(c, ops, m, j)) \in Nat
  BY <1>2
<1> QED  BY <1>1, <1>3 DEF Level

\* What one instruction adds.
Delta(i) == IF i.op \in Openers THEN 1 ELSE IF i.op = "end" THEN -1 ELSE 0

LEMMA LevelOne ==
  ASSUME NEW c, NEW i \in Int
  PROVE  Level(c, i, i) = Delta(c[i])
<1>1. \A ops : Among(c, ops, i, i) = IF c[i].op \in ops THEN {i} ELSE {}  BY DEF Among
<1>2. Cardinality({i}) = 1 /\ Cardinality({}) = 0  BY FS_Singleton, FS_EmptySet
<1> QED  BY <1>1, <1>2 DEF Level, Delta, Openers

LEMMA LevelEmpty ==
  ASSUME NEW c, NEW i \in Int
  PROVE  Level(c, i, i - 1) = 0
<1>1. \A ops : Among(c, ops, i, i - 1) = {}  BY DEF Among
<1>2. Cardinality({}) = 0  BY FS_EmptySet
<1> QED  BY <1>1, <1>2 DEF Level

LEMMA LevelStep ==
  ASSUME NEW c, NEW i \in Int, NEW j \in Int, i <= j
  PROVE  Level(c, i, j) = Level(c, i, j - 1) + Delta(c[j])
BY LevelAdds, LevelOne

\* Levels look only at the code they span.
LEMMA LevelSame ==
  ASSUME NEW c, NEW d, NEW i \in Int, NEW j \in Int, \A k \in i .. j : c[k] = d[k]
  PROVE  Level(c, i, j) = Level(d, i, j)
<1>1. \A ops : Among(c, ops, i, j) = Among(d, ops, i, j)  BY DEF Among
<1> QED  BY <1>1 DEF Level

LEMMA LevelAppend ==
  ASSUME NEW I, NEW c \in Seq(I), NEW op \in I, NEW i \in 1 .. Len(c) + 1, NEW j \in Int
  PROVE  /\ j <= Len(c) => Level(Append(c, op), i, j) = Level(c, i, j)
         /\ Level(Append(c, op), i, Len(c) + 1) = Level(c, i, Len(c)) + Delta(op)
<1>1. \A k \in 1 .. Len(c) : Append(c, op)[k] = c[k]  OBVIOUS
<1>2. Append(c, op)[Len(c) + 1] = op  OBVIOUS
<1>3. \A l \in Int : l <= Len(c) => Level(Append(c, op), i, l) = Level(c, i, l)
  <2> TAKE l \in Int
  <2> HAVE l <= Len(c)
  <2>1. \A k \in i .. l : Append(c, op)[k] = c[k]  BY <1>1
  <2>2. i \in Int  OBVIOUS
  <2> QED  BY <2>1, <2>2, LevelSame, Zenon
<1>4. Level(Append(c, op), i, Len(c) + 1) = Level(Append(c, op), i, Len(c)) + Delta(op)
  <2>1. PICK n : n = Len(c) + 1  OBVIOUS
  <2>2. i \in Int /\ n \in Int /\ i <= n /\ n - 1 = Len(c)  BY <2>1
  <2>3. Level(Append(c, op), i, n) = Level(Append(c, op), i, n - 1) + Delta(Append(c, op)[n])
    BY <2>2, LevelStep, Zenon
  <2> QED  BY <2>1, <2>2, <2>3, <1>2
<1> QED  BY <1>3, <1>4

LEMMA AroundAppend ==
  ASSUME NEW I, NEW c \in Seq(I), NEW op \in I, NEW o, NEW i \in 1 .. Len(c) + 1
  PROVE  Around(Append(c, op), o, i) <=> Around(c, o, i)
<1> SUFFICES ASSUME o \in 1 .. i - 1
             PROVE  Around(Append(c, op), o, i) <=> Around(c, o, i)
  BY DEF Around
<1>1. Append(c, op)[o] = c[o]  OBVIOUS
<1>2. \A j \in o .. i - 1 : Level(Append(c, op), o, j) = Level(c, o, j)  BY LevelAppend
<1> QED  BY <1>1, <1>2 DEF Around

\* The instruction that is appended stands in the open blocks.
LEMMA AroundNext ==
  ASSUME NEW I, NEW c \in Seq(I), NEW op \in I, NEW o
  PROVE  /\ Around(c, o, Len(c) + 1) /\ Level(c, o, Len(c)) + Delta(op) >= 1
              => Around(Append(c, op), o, Len(c) + 2)
         /\ op.op \in Openers => Around(Append(c, op), Len(c) + 1, Len(c) + 2)
         /\ Around(c, o, Len(c) + 1) /\ Level(c, o, Len(c)) + Delta(op) = 0
              => Closes(Append(c, op), o, Len(c) + 1)
<1> DEFINE d == Append(c, op)
<1>0. Len(d) = Len(c) + 1 /\ d[Len(c) + 1] = op /\ Len(c) \in Nat  OBVIOUS
<1>1. ASSUME Around(c, o, Len(c) + 1)
      PROVE  /\ Around(d, o, Len(c) + 1)
             /\ Level(d, o, Len(c) + 1) = Level(c, o, Len(c)) + Delta(op)
             /\ o \in 1 .. Len(c)
  <2>1. o \in 1 .. Len(c)  BY <1>1 DEF Around
  <2> QED  BY <2>1, <1>1, AroundAppend, LevelAppend
<1>2. ASSUME Around(c, o, Len(c) + 1), Level(c, o, Len(c)) + Delta(op) >= 1
      PROVE  Around(d, o, Len(c) + 2)
  <2> HIDE DEF d
  <2>1. \A j \in o .. Len(c) + 1 : j \in o .. Len(c) \/ j = Len(c) + 1  BY <1>0
  <2> QED  BY <1>1, <1>2, <1>0, <2>1 DEF Around
<1>3. ASSUME op.op \in Openers PROVE Around(d, Len(c) + 1, Len(c) + 2)
  <2> HIDE DEF d
  <2>3. Len(c) + 1 \in Int  BY <1>0
  <2>4. Level(d, Len(c) + 1, Len(c) + 1) = Delta(d[Len(c) + 1])  BY <2>3, LevelOne, Zenon
  <2>1. Level(d, Len(c) + 1, Len(c) + 1) = 1  BY <1>0, <1>3, <2>4 DEF Delta
  <2>2. \A j \in Len(c) + 1 .. Len(c) + 1 : j = Len(c) + 1  BY <1>0
  <2> QED  BY <2>1, <2>2, <1>0, <1>3 DEF Around
<1>4. ASSUME Around(c, o, Len(c) + 1), Level(c, o, Len(c)) + Delta(op) = 0
      PROVE  Closes(d, o, Len(c) + 1)
  BY <1>0, <1>1, <1>4 DEF Closes
<1> QED  BY <1>2, <1>3, <1>4

LEMMA ClosesAppend ==
  ASSUME NEW I, NEW c \in Seq(I), NEW op \in I, NEW o, NEW e \in 1 .. Len(c)
  PROVE  Closes(Append(c, op), o, e) <=> Closes(c, o, e)
<1>1. Around(Append(c, op), o, e) <=> Around(c, o, e)  BY AroundAppend
<1>2. Around(c, o, e) => o \in 1 .. Len(c)  BY DEF Around
<1>3. o \in 1 .. Len(c) => Level(Append(c, op), o, e) = Level(c, o, e)  BY LevelAppend
<1> QED  BY <1>1, <1>2, <1>3 DEF Closes

LEMMA ElsesAppend ==
  ASSUME NEW I, NEW c \in Seq(I), NEW op \in I, NEW o \in 1 .. Len(c), NEW e \in 1 .. Len(c)
  PROVE  /\ ElsesOf(Append(c, op), o, e) = ElsesOf(c, o, e)
         /\ ElsesOf(Append(c, op), o, Len(c) + 1)
              = ElsesOf(c, o, Len(c))
                  \cup IF op.op = "else" /\ Level(c, o, Len(c)) = 1 THEN {Len(c) + 1} ELSE {}
<1> DEFINE d == Append(c, op)
<1>1. \A k \in 1 .. Len(c) : d[k] = c[k]  OBVIOUS
<1>2. d[Len(c) + 1] = op /\ Len(c) \in Nat  OBVIOUS
<1>3. \A j \in o .. Len(c) : Level(d, o, j) = Level(c, o, j)  BY LevelAppend
<1>4. Level(d, o, Len(c) + 1) = Level(c, o, Len(c)) + Delta(op)  BY LevelAppend
<1>5. op.op = "else" => Delta(op) = 0  BY DEF Delta, Openers
<1>7. Level(c, o, Len(c)) \in Int  BY LevelType
<1> HIDE DEF d
<1>6. ElsesOf(d, o, e) = ElsesOf(c, o, e)  BY <1>1, <1>3 DEF ElsesOf, Among
<1>8. \A j : j \in ElsesOf(d, o, Len(c) + 1) <=>
               \/ j \in ElsesOf(c, o, Len(c))
               \/ j = Len(c) + 1 /\ op.op = "else" /\ Level(c, o, Len(c)) = 1
  <2> TAKE j
  <2>1. j \in o .. Len(c) => (j \in ElsesOf(d, o, Len(c) + 1) <=> j \in ElsesOf(c, o, Len(c)))
    BY <1>1, <1>3, <1>2 DEF ElsesOf, Among
  <2>2. Len(c) + 1 \in ElsesOf(d, o, Len(c) + 1) <=> (op.op = "else" /\ Level(c, o, Len(c)) = 1)
    BY <1>2, <1>4, <1>5, <1>7 DEF ElsesOf, Among
  <2>3. j \in ElsesOf(d, o, Len(c) + 1) => j \in o .. Len(c) + 1  BY DEF ElsesOf, Among
  <2>4. j \in ElsesOf(c, o, Len(c)) => j \in o .. Len(c)  BY DEF ElsesOf, Among
  <2> QED  BY <2>1, <2>2, <2>3, <2>4, <1>2
<1> QED  BY <1>6, <1>8 DEF d

(***************************************************************************)
(* Nesting.                                                                *)
(***************************************************************************)
LEMMA AroundEarlier ==
  ASSUME NEW c, NEW o, NEW i \in Int, NEW j \in Int, Around(c, o, j), o < i, i <= j
  PROVE  Around(c, o, i)
BY DEF Around

LEMMA AroundInner ==
  ASSUME NEW c, NEW o, NEW k, NEW i \in Int, Around(c, o, k), Around(c, k, i), k \in Int
  PROVE  /\ Around(c, o, i)
         /\ \A j \in k .. i - 1 : Level(c, o, j) >= 2
<1>1. o \in Int /\ k \in Int /\ o < k /\ k < i  BY DEF Around
<1>2. \A j \in k .. i - 1 : Level(c, o, j) >= 2
  <2> TAKE j \in k .. i - 1
  <2>1. Level(c, o, j) = Level(c, o, k - 1) + Level(c, k, j)
    <3>1. j \in Int /\ o <= k /\ k <= j + 1  BY <1>1
    <3> QED  BY <3>1, <1>1, LevelAdds, Zenon
  <2>2. Level(c, k, j) >= 1  BY DEF Around
  <2>3. k - 1 \in o .. k - 1  BY <1>1
  <2>4. Level(c, o, k - 1) >= 1  BY <2>3 DEF Around
  <2>5. k - 1 \in Int /\ j \in Int  BY <1>1
  <2>6. Level(c, o, k - 1) \in Int /\ Level(c, k, j) \in Int  BY <1>1, <2>5, LevelType, Zenon
  <2> QED  BY <2>1, <2>2, <2>4, <2>6
<1>3. \A j \in o .. i - 1 : j \in o .. k - 1 \/ j \in k .. i - 1  BY <1>1
<1>4. \A j \in o .. i - 1 : Level(c, o, j) >= 1
  <2> TAKE j \in o .. i - 1
  <2>1. CASE j \in o .. k - 1  BY <2>1 DEF Around
  <2>2. CASE j \in k .. i - 1
    <3>1. Level(c, o, j) >= 2  BY <2>2, <1>2
    <3>2. o \in Int /\ j \in Int  BY <1>1
    <3>3. Level(c, o, j) \in Int  BY <3>2, LevelType, Zenon
    <3> QED  BY <3>1, <3>3
  <2> QED  BY <1>3, <2>1, <2>2
<1> QED  BY <1>1, <1>2, <1>4 DEF Around

\* The block of an inner opener ends before that of the outer one.
LEMMA InnerEndsFirst ==
  ASSUME NEW c, NEW o, NEW e, NEW k \in Int, NEW i \in Int,
         Closes(c, o, e), Around(c, o, k), Around(c, k, i), k <= e
  PROVE  i <= e
<1>1. \A j \in k .. i - 1 : Level(c, o, j) >= 2  BY AroundInner
<1>2. e \in Int /\ Level(c, o, e) = 0  BY DEF Closes
<1>3. ~(e \in k .. i - 1)  BY <1>1, <1>2
<1> QED  BY <1>2, <1>3

LEMMA ClosesEnd ==
  ASSUME NEW c, NEW o, NEW e, Closes(c, o, e)
  PROVE  c[e].op = "end"
<1>1. o \in Int /\ e \in Int /\ o < e  BY DEF Closes, Around
<1>2. Level(c, o, e) = Level(c, o, e - 1) + Delta(c[e])  BY <1>1, LevelStep
<1>3. e - 1 \in o .. e - 1 /\ e - 1 \in Int  BY <1>1
<1>4. Level(c, o, e - 1) >= 1 /\ Level(c, o, e) = 0  BY <1>3 DEF Closes, Around
<1>5. Level(c, o, e - 1) \in Int  BY <1>3, <1>1, LevelType, Zenon
<1>6. Delta(c[e]) # 0 /\ Delta(c[e]) # 1  BY <1>2, <1>4, <1>5 DEF Delta
<1> QED  BY <1>6 DEF Delta

\* Only one block ends at e, and its end is the only one.
LEMMA OneOpener ==
  ASSUME NEW c, NEW o, NEW k, NEW e, Closes(c, o, e), Closes(c, k, e)
  PROVE  o = k
<1>1. ASSUME NEW a, NEW b, Closes(c, a, e), Closes(c, b, e), a < b PROVE FALSE
  <2>1. a \in Int /\ b \in Int /\ e \in Int /\ b < e  BY <1>1 DEF Closes, Around
  <2>2. Around(c, a, b)  BY <1>1, <2>1, AroundEarlier DEF Closes
  <2>3. Level(c, a, e) = Level(c, a, b - 1) + Level(c, b, e)
    <3>1. a <= b /\ b <= e + 1  BY <2>1, <1>1
    <3> QED  BY <2>1, <3>1, LevelAdds, Zenon
  <2>4. b - 1 \in a .. b - 1  BY <2>1, <1>1
  <2>5. Level(c, a, b - 1) >= 1  BY <2>2, <2>4 DEF Around
  <2>6. Level(c, a, e) = 0 /\ Level(c, b, e) = 0  BY <1>1 DEF Closes
  <2>7. a \in Int /\ b - 1 \in Int  BY <2>1
  <2>8. Level(c, a, b - 1) \in Int  BY <2>7, LevelType, Zenon
  <2> QED  BY <2>3, <2>5, <2>6, <2>8
<1>2. o \in Int /\ k \in Int  BY DEF Closes, Around
<1> QED  BY <1>1, <1>2

LEMMA OneEnd ==
  ASSUME NEW c, NEW o, NEW e, NEW f, Closes(c, o, e), Closes(c, o, f)
  PROVE  e = f
<1>1. ASSUME NEW a, NEW b, Closes(c, o, a), Closes(c, o, b), a < b PROVE FALSE
  <2>1. a \in o .. b - 1  BY <1>1 DEF Closes, Around
  <2> QED  BY <1>1, <2>1 DEF Closes, Around
<1>2. e \in Int /\ f \in Int  BY DEF Closes
<1> QED  BY <1>1, <1>2

LEMMA EndIs ==
  ASSUME NEW c, NEW o, NEW e, Closes(c, o, e), Len(c) \in Nat
  PROVE  EndOf(c, o) = e
<1> DEFINE S == {j \in o .. Len(c) : Level(c, o, j) = 0}
<1>1. e \in S  BY DEF Closes, Around
<1>2. \A j \in S : e <= j  BY DEF Closes, Around
<1>3. \A a \in S : a \in Int  BY DEF Closes, Around
<1>4. Min(S) \in S /\ \A j \in S : Min(S) <= j
  <2> HIDE DEF S
  <2>1. \E a \in S : \A j \in S : a <= j  BY <1>1, <1>2
  <2> QED  BY <2>1 DEF Min
<1>5. Min(S) = e
  <2> HIDE DEF S
  <2>1. Min(S) \in S /\ Min(S) <= e /\ e <= Min(S)  BY <1>1, <1>2, <1>4
  <2> QED  BY <2>1, <1>1, <1>3
<1> QED  BY <1>5 DEF EndOf

LEMMA MaxIs ==
  ASSUME NEW S, NEW m \in S, \A a \in S : a \in Int /\ a <= m
  PROVE  Max(S) = m
<1>1. Max(S) \in S /\ \A a \in S : Max(S) >= a
  <2>1. \E a \in S : \A b \in S : a >= b  OBVIOUS
  <2> QED  BY <2>1 DEF Max
<1> QED  BY <1>1

(***************************************************************************)
(* What the operators of Blocks find in finished code.                     *)
(***************************************************************************)
LEMMA EnclosingIs ==
  ASSUME NEW c, Finished(c), Len(c) \in Nat, NEW ops, ops \subseteq Openers,
         NEW i \in 1 .. Len(c) + 1, NEW k
  PROVE  k \in Enclosing(c, ops, i) <=> Around(c, k, i) /\ c[k].op \in ops
<1>1. ASSUME k \in 1 .. i - 1, c[k].op \in ops PROVE EndOf(c, k) >= i <=> Around(c, k, i)
  <2>1. k \in 1 .. Len(c) /\ c[k].op \in Openers  BY <1>1
  <2>2. PICK e : Closes(c, k, e)  BY <2>1 DEF Finished
  <2>3. EndOf(c, k) = e  BY <2>2, EndIs
  <2>4. e \in Int  BY <2>2 DEF Closes
  <2>5. ASSUME e >= i PROVE Around(c, k, i)
    <3>1. k < i /\ i <= e /\ i \in Int  BY <1>1, <2>5
    <3>2. Around(c, k, e)  BY <2>2 DEF Closes
    <3> QED  BY <3>1, <3>2, <2>4, AroundEarlier, Zenon
  <2>6. ASSUME e < i PROVE ~Around(c, k, i)
    <3>1. e \in k .. i - 1  BY <2>2, <2>6 DEF Closes, Around
    <3> QED  BY <3>1, <2>2 DEF Closes, Around
  <2> QED  BY <2>3, <2>4, <2>5, <2>6
<1>2. Around(c, k, i) => k \in 1 .. i - 1  BY DEF Around
<1> QED  BY <1>1, <1>2 DEF Enclosing, Among

LEMMA OpenerIs ==
  ASSUME NEW c, Finished(c), Len(c) \in Nat, NEW o, NEW e, Closes(c, o, e)
  PROVE  OpenerOf(c, e) = o
<1> DEFINE S == {k \in Among(c, Openers, 1, e - 1) : EndOf(c, k) = e}
<1>1. o \in S
  <2>1. EndOf(c, o) = e  BY EndIs
  <2> QED  BY <2>1 DEF Among, Closes, Around
<1>2. \A k \in S : k = o
  <2> TAKE k \in S
  <2>1. k \in 1 .. Len(c) /\ c[k].op \in Openers  BY DEF Among, Closes
  <2>2. PICK f : Closes(c, k, f)  BY <2>1 DEF Finished
  <2>3. EndOf(c, k) = f  BY <2>2, EndIs
  <2>4. f = e  BY <2>3
  <2> QED  BY <2>2, <2>4, OneOpener
<1>3. o \in Int  BY DEF Closes, Around
<1>4. Max(S) = o
  <2> HIDE DEF S
  <2>1. \A a \in S : a \in Int /\ a <= o  BY <1>2, <1>3
  <2> QED  BY <1>1, <2>1, MaxIs, Zenon
<1> QED  BY <1>4 DEF OpenerOf

LEMMA ElseArmIs ==
  ASSUME NEW c, Len(c) \in Nat, NEW o, NEW e, Closes(c, o, e)
  PROVE  /\ ElsesOf(c, o, e) = {} => ElseArm(c, o) = e
         /\ \A a : ElsesOf(c, o, e) = {a} => ElseArm(c, o) = a
<1>1. EndOf(c, o) = e  BY EndIs
<1>2. ElsesOf(c, o, e) = {} => ElseArm(c, o) = e  BY <1>1 DEF ElseArm, ElsesOf
<1>3. ASSUME NEW a, ElsesOf(c, o, e) = {a} PROVE ElseArm(c, o) = a
  <2>1. a \in o .. e  BY <1>3 DEF ElsesOf, Among
  <2>2. a \in Int  BY <2>1
  <2>4. a \in {a} /\ \A b \in {a} : b \in Int /\ b <= a  BY <2>2
  <2>3. Max({a}) = a  BY <2>4, MaxIs, Zenon
  <2> QED  BY <1>1, <1>3, <2>3 DEF ElseArm, ElsesOf
<1> QED  BY <1>2, <1>3

\* The if that an else at its own level belongs to.
LEMMA InnermostIs ==
  ASSUME NEW c, Finished(c), Len(c) \in Nat, NEW i \in 1 .. Len(c), c[i].op \notin Openers,
         NEW o, c[o].op = "if", Around(c, o, i), Level(c, o, i) = 1, c[i].op # "end"
  PROVE  Innermost(c, {"if"}, i) = o
<1> DEFINE S == Enclosing(c, {"if"}, i)
<1>0. {"if"} \subseteq Openers /\ i \in 1 .. Len(c) + 1  BY DEF Openers
<1>1. \A k : k \in S <=> Around(c, k, i) /\ c[k].op \in {"if"}  BY <1>0, EnclosingIs
<1>2. o \in S  BY <1>1
<1>3. o \in Int /\ i \in Int /\ o < i  BY DEF Around
<1>4. Level(c, o, i - 1) = 1
  <2>1. Level(c, o, i) = Level(c, o, i - 1) + Delta(c[i])  BY <1>3, LevelStep
  <2>2. Delta(c[i]) = 0  BY DEF Delta
  <2>3. i - 1 \in Int  BY <1>3
  <2>4. Level(c, o, i - 1) \in Int  BY <2>3, <1>3, LevelType, Zenon
  <2> QED  BY <2>1, <2>2, <2>4
<1>5. \A k \in S : k \in Int /\ k <= o
  <2> TAKE k \in S
  <2>1. Around(c, k, i)  BY <1>1
  <2>2. k \in Int /\ k < i  BY <2>1 DEF Around
  <2>3. ASSUME o < k PROVE FALSE
    <3>1. Around(c, o, k)  BY <2>2, <2>3, <1>3, AroundEarlier
    <3>2. \A j \in k .. i - 1 : Level(c, o, j) >= 2  BY <3>1, <2>1, <2>2, <1>3, AroundInner
    <3>3. i - 1 \in k .. i - 1  BY <2>2, <1>3
    <3> QED  BY <3>2, <3>3, <1>4
  <2> QED  BY <2>2, <2>3, <1>3
<1>6. Max(S) = o
  <2> HIDE DEF S
  <2> QED  BY <1>2, <1>5, MaxIs
<1> QED  BY <1>6 DEF Innermost

(***************************************************************************)
(* The blocks around where control goes.                                   *)
(***************************************************************************)
\* To the next instruction: out of no block that does not end here.
LEMMA AroundStep ==
  ASSUME NEW c, NEW k, NEW i \in Int, Around(c, k, i + 1)
  PROVE  k = i \/ Around(c, k, i)
BY DEF Around

\* From inside of a block to behind its end.
LEMMA AroundBehind ==
  ASSUME NEW c, NEW o, NEW e, Closes(c, o, e), NEW k, Around(c, k, e + 1)
  PROVE  k < o /\ k \in Int /\ o \in Int /\ Around(c, k, o)
<1>1. o \in Int /\ e \in Int /\ k \in Int /\ o < e /\ k < e + 1  BY DEF Closes, Around
<1>2. ~(o < k /\ k < e)
  <2> SUFFICES ASSUME o < k, k < e PROVE FALSE  OBVIOUS
  <2>1. Around(c, o, k)  BY <1>1, AroundEarlier DEF Closes
  <2>2. e + 1 \in Int /\ k <= e  BY <1>1
  <2>3. e + 1 <= e  BY <2>1, <2>2, <1>1, InnerEndsFirst, Zenon
  <2> QED  BY <2>3, <1>1
<1>3. k # e
  <2> SUFFICES ASSUME k = e PROVE FALSE  OBVIOUS
  <2>1. Level(c, e, e) = Delta(c[e])  BY <1>1, LevelOne
  <2>2. c[e].op \in Openers  BY DEF Around
  <2>3. Level(c, o, e) = Level(c, o, e - 1) + Delta(c[e])  BY <1>1, LevelStep
  <2>4. e - 1 \in o .. e - 1  BY <1>1
  <2>5. Level(c, o, e - 1) >= 1 /\ Level(c, o, e) = 0  BY <2>4 DEF Closes, Around
  <2>6. Delta(c[e]) = 1  BY <2>2 DEF Delta
  <2>7. e - 1 \in Int  BY <1>1
  <2>8. Level(c, o, e - 1) \in Int  BY <2>7, <1>1, LevelType, Zenon
  <2> QED  BY <2>3, <2>5, <2>6, <2>8
<1>4. k # o
  <2>1. e \in k .. (e + 1) - 1  BY <1>1
  <2>2. Level(c, k, e) >= 1  BY <2>1 DEF Around
  <2>3. Level(c, o, e) = 0  BY DEF Closes
  <2> QED  BY <2>2, <2>3
<1>5. k < o  BY <1>1, <1>2, <1>3, <1>4
<1> QED  BY <1>1, <1>5, AroundEarlier

\* From an if to behind its else.
LEMMA AroundElse ==
  ASSUME NEW c, NEW o, NEW a, Around(c, o, a), Level(c, o, a) = 1, c[a].op \notin Openers, a \in Int,
         NEW k, Around(c, k, a + 1)
  PROVE  k \in Int /\ o \in Int /\ (k = o \/ (k < o /\ Around(c, k, o)))
<1>1. o \in Int /\ k \in Int /\ o < a /\ k < a + 1  BY DEF Around
<1>2. k # a  BY DEF Around
<1>3. ~(o < k)
  <2> SUFFICES ASSUME o < k PROVE FALSE  OBVIOUS
  <2>1. Around(c, o, k)  BY <1>1, <1>2, AroundEarlier
  <2>2. \A j \in k .. (a + 1) - 1 : Level(c, o, j) >= 2
    <3>1. a + 1 \in Int  BY <1>1
    <3> QED  BY <2>1, <3>1, <1>1, AroundInner, Zenon
  <2>3. a \in k .. (a + 1) - 1  BY <1>1
  <2> QED  BY <2>2, <2>3
<1> QED  BY <1>1, <1>3, AroundEarlier

\* No else of an outer if stands in an inner block.
LEMMA NoElseInside ==
  ASSUME NEW c, NEW k, NEW o, NEW e, Around(c, k, o), Closes(c, o, e), NEW g, NEW a,
         Closes(c, k, g), a = g \/ a \in ElsesOf(c, k, g)
  PROVE  a \in Int /\ ~(a \in o .. e)
<1>1. o \in Int /\ e \in Int /\ k \in Int /\ k < o /\ o < e /\ g \in Int  BY DEF Closes, Around
<1>2. a \in Int  BY <1>1 DEF ElsesOf, Among
<1>3. Around(c, o, e)  BY DEF Closes
<1>4. \A j \in o .. e - 1 : Level(c, k, j) >= 2  BY <1>1, <1>3, AroundInner
<1>5. \A j \in o .. e - 1 : j # a
  <2> TAKE j \in o .. e - 1
  <2>1. Level(c, k, j) >= 2  BY <1>4
  <2>2. Level(c, k, g) = 0  BY DEF Closes
  <2>3. a \in ElsesOf(c, k, g) => Level(c, k, a) = 1  BY DEF ElsesOf
  <2> QED  BY <2>1, <2>2, <2>3
<1>6. a # e
  <2> SUFFICES ASSUME a = e PROVE FALSE  OBVIOUS
  <2>1. e - 1 \in o .. e - 1 /\ e - 1 \in Int  BY <1>1
  <2>3. Level(c, k, e - 1) \in Int  BY <2>1, <1>1, LevelType, Zenon
  <2>5. c[e].op = "end"  BY ClosesEnd
  <2>4. Delta(c[e]) = -1  BY <2>5 DEF Delta, Openers
  <2>6. a # g => c[a].op = "else"  BY DEF ElsesOf, Among
  <2>7. a = g  BY <2>5, <2>6
  <2>8. Level(c, k, e) = Level(c, k, e - 1) + Delta(c[e])
    <3>1. k <= e  BY <1>1
    <3> QED  BY <1>1, <3>1, LevelStep, Zenon
  <2>9. Level(c, k, e - 1) >= 2  BY <1>4, <2>1
  <2>10. Level(c, k, e) = 0  BY <2>7 DEF Closes
  <2> QED  BY <2>4, <2>8, <2>9, <2>10, <2>3
<1> QED  BY <1>1, <1>2, <1>5, <1>6
=============================================================================
