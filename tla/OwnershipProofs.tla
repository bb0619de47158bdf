--------------------------- MODULE OwnershipProofs ---------------------------
(***************************************************************************)
(* The drop lists of IRGen and the runs of its code, for any names, bodies *)
(* of any length and any run.  First: while a body has no lapse, a         *)
(* variable is on the list of its scope exactly if its value was not moved *)
(* away. What makes this inductive: no two declarations have a slot in     *)
(* common, and a list holds a variable once, and only one that its own     *)
(* scope declares.                                                         *)
(*                                                                         *)
(* From "Flattening" on: what the runs do.  A point of the code is a       *)
(* position before, between or behind its instructions, with the slots     *)
(* that own a value there.  The walk keeps a point at every position, such *)
(* that each instruction leads from its point to the next and every jump   *)
(* leads to an equal one (Body while blocks are open, Complete when the    *)
(* walk is over); a run at a point then holds just the values of the slots *)
(* that own one (Holds), so that it stops only at an instruction a lapse   *)
(* let in.                                                                 *)
(***************************************************************************)
EXTENDS Ownership, BlocksProofs, SequenceTheorems, WellFoundedInduction, TLAPS

Entries == [kind : {"var", "defer"}, name : Names, meant : Nat]
Frames == {"if", "while", "else"}
Scopes == [vars : [Names -> Nat], drops : Seq(Entries)]

\* A list holds variables of its own scope, each once and with its own slot.
WellListed(scope) ==
  \A k \in 1 .. Len(scope.drops) :
    scope.drops[k].kind = "var" =>
      /\ scope.vars[scope.drops[k].name] = scope.drops[k].meant /\ scope.drops[k].meant # NoSlot
      /\ \A j \in 1 .. Len(scope.drops) : IsVar(scope.drops[j], scope.drops[k].name) => j = k

Lists(scope, n) == \E k \in 1 .. Len(scope.drops) : IsVar(scope.drops[k], n)

ShapeInv ==
  /\ scopes \in Seq(Scopes) /\ frames \in Seq(Frames) /\ Len(scopes) = Len(frames) + 1
  /\ slots \in Nat /\ gone \subseteq 1 .. slots

SlotInv ==
  /\ \A i \in 1 .. Len(scopes), n \in Names : scopes[i].vars[n] <= slots
  /\ \A i, j \in 1 .. Len(scopes), n, m \in Names :
       scopes[i].vars[n] = scopes[j].vars[m] /\ scopes[i].vars[n] # NoSlot => i = j /\ n = m

ListInv == \A i \in 1 .. Len(scopes) : WellListed(scopes[i])

OwnedInv ==
  lapses = {} =>
    \A i \in 1 .. Len(scopes), n \in Names :
      scopes[i].vars[n] # NoSlot => (Lists(scopes[i], n) <=> scopes[i].vars[n] \notin gone)

DropInv == ShapeInv /\ SlotInv /\ ListInv /\ OwnedInv

-----------------------------------------------------------------------------
(* Names and lists *)

\* Every nonempty set of naturals has a least element.
LEMMA LeastNat ==
  ASSUME NEW T, T \subseteq Nat, T # {}
  PROVE  \E m \in T : \A k \in T : m <= k
<1>1. IsWellFoundedOn(OpToRel(<, Nat), Nat)
  BY NatLessThanWellFounded
<1>2. PICK m \in T : \A k \in T : ~ (<<k, m>> \in OpToRel(<, Nat))
  BY <1>1, WFMin
<1>3. \A k \in T : ~ (k < m)
  BY <1>2 DEF OpToRel
<1> QED BY <1>3

\* A nonempty set of numbers up to n has a greatest one.
LEMMA GreatestUpTo ==
  ASSUME NEW n \in Nat, NEW S \in SUBSET (1 .. n), S # {}
  PROVE  Max(S) \in S /\ \A x \in S : x <= Max(S)
<1> DEFINE T == {k \in 0 .. n : n - k \in S}
<1>1. PICK x \in S : x \in 1 .. n
  OBVIOUS
<1>2. n - x \in T /\ T \subseteq Nat
  <2>1. n - x \in 0 .. n /\ n - (n - x) = x
    BY <1>1
  <2> QED BY <2>1
<1> HIDE DEF T
<1>3. PICK m \in T : \A k \in T : m <= k
  BY <1>2, LeastNat
<1>4. m \in 0 .. n /\ n - m \in S
  BY <1>3 DEF T
<1>5. ASSUME NEW y \in S PROVE n - m >= y
  <2>1. y \in 1 .. n /\ n - y \in 0 .. n /\ n - (n - y) = y
    OBVIOUS
  <2>2. n - y \in T
    BY <2>1 DEF T
  <2> QED BY <1>3, <1>4, <2>1, <2>2
<1>6. Max(S) \in S /\ \A y \in S : Max(S) >= y
  BY <1>4, <1>5 DEF Max
<1> QED BY <1>6

\* A name stands for its innermost declaration.
LEMMA NameStandsForSlot ==
  ASSUME DropInv, NEW n \in Names, FindVar(n) # NoSlot
  PROVE  /\ Max(Declaring(n)) \in 1 .. Len(scopes)
         /\ FindVar(n) = scopes[Max(Declaring(n))].vars[n]
         /\ FindVar(n) \in 1 .. slots
<1>1. Declaring(n) # {}
  BY DEF FindVar
<1>2. Declaring(n) \in SUBSET (1 .. Len(scopes)) /\ Len(scopes) \in Nat
  BY DEF DropInv, ShapeInv, Declaring
<1>3. Max(Declaring(n)) \in Declaring(n)
  BY <1>1, <1>2, GreatestUpTo
<1>4. FindVar(n) = scopes[Max(Declaring(n))].vars[n]
  BY <1>1 DEF FindVar
<1>5. scopes[Max(Declaring(n))] \in Scopes
  BY <1>2, <1>3 DEF DropInv, ShapeInv
<1> QED BY <1>2, <1>3, <1>4, <1>5 DEF DropInv, ShapeInv, SlotInv, Scopes, NoSlot

\* Taking a variable off a list that holds it once.
LEMMA WithoutOne ==
  ASSUME NEW drops \in Seq(Entries), NEW n, NEW k \in 1 .. Len(drops), IsVar(drops[k], n),
         \A j \in 1 .. Len(drops) : IsVar(drops[j], n) => j = k
  PROVE  /\ Without(drops, n) \in Seq(Entries) /\ Len(Without(drops, n)) = Len(drops) - 1
         /\ \A j \in 1 .. Len(drops) - 1 :
              Without(drops, n)[j] = IF j < k THEN drops[j] ELSE drops[j + 1]
<1> DEFINE left == SubSeq(drops, 1, k - 1)  right == SubSeq(drops, k + 1, Len(drops))
<1>1. {j \in DOMAIN drops : IsVar(drops[j], n)} = {k}
  OBVIOUS
<1>2. Min({k}) = k
  BY DEF Min
<1>3. Without(drops, n) = left \o right
  BY <1>1, <1>2 DEF Without, RemoveAt
<1>4. /\ left \in Seq(Entries) /\ Len(left) = k - 1
      /\ \A j \in 1 .. k - 1 : left[j] = drops[j]
  OBVIOUS
<1>5. /\ right \in Seq(Entries) /\ Len(right) = Len(drops) - k
      /\ \A j \in 1 .. Len(drops) - k : right[j] = drops[k + j]
  OBVIOUS
<1> HIDE DEF left, right
<1>6. /\ left \o right \in Seq(Entries) /\ Len(left \o right) = Len(drops) - 1
      /\ \A j \in 1 .. Len(drops) - 1 :
           (left \o right)[j] = IF j <= k - 1 THEN left[j] ELSE right[j - (k - 1)]
  BY <1>4, <1>5
<1>7. ASSUME NEW j \in 1 .. Len(drops) - 1
      PROVE  (left \o right)[j] = IF j < k THEN drops[j] ELSE drops[j + 1]
  <2>1. CASE j < k
    BY <1>4, <1>6, <2>1
  <2>2. CASE ~ (j < k)
    <3>1. j - (k - 1) \in 1 .. Len(drops) - k /\ k + (j - (k - 1)) = j + 1
      BY <2>2
    <3> QED BY <1>5, <1>6, <2>2, <3>1
  <2> QED BY <2>1, <2>2
<1> QED BY <1>3, <1>6, <1>7

\* The scope keeps its variables, and its list all but one.
LEMMA ScopeWithoutOne ==
  ASSUME NEW scope \in Scopes, WellListed(scope), NEW n \in Names, Lists(scope, n)
  PROVE  LET new == [scope EXCEPT !.drops = Without(@, n)]
         IN /\ new \in Scopes /\ new.vars = scope.vars /\ WellListed(new)
            /\ \A m \in Names : Lists(new, m) <=> Lists(scope, m) /\ m # n
<1> DEFINE drops == scope.drops  less == Without(drops, n)  len == Len(drops)
           new == [scope EXCEPT !.drops = Without(@, n)]
<1>1. drops \in Seq(Entries) /\ len \in Nat /\ scope.vars \in [Names -> Nat]
  BY DEF Scopes
<1>2. PICK k \in 1 .. len : IsVar(drops[k], n)
  BY DEF Lists
<1>3. \A j \in 1 .. len : IsVar(drops[j], n) => j = k
  BY <1>2 DEF WellListed, IsVar
<1>4. /\ less \in Seq(Entries) /\ Len(less) = len - 1
      /\ \A j \in 1 .. len - 1 : less[j] = IF j < k THEN drops[j] ELSE drops[j + 1]
  BY <1>1, <1>2, <1>3, WithoutOne
<1>5. new.vars = scope.vars /\ new.drops = less /\ new \in Scopes
  BY <1>1, <1>4 DEF Scopes
<1> HIDE DEF less, new
\* Where an entry of the shorter list came from, and where one of the longer went.
<1> DEFINE from(j) == IF j < k THEN j ELSE j + 1
<1>6. ASSUME NEW j \in 1 .. len - 1
      PROVE  from(j) \in 1 .. len /\ from(j) # k /\ less[j] = drops[from(j)]
  BY <1>1, <1>4
<1>7. \A i, j \in 1 .. len - 1 : from(i) = from(j) => i = j
  BY <1>1
<1>8. ASSUME NEW j \in 1 .. len, j # k PROVE \E i \in 1 .. len - 1 : less[i] = drops[j]
  <2>1. CASE j < k
    <3>1. j \in 1 .. len - 1
      BY <1>1, <2>1
    <3> QED BY <1>4, <2>1, <3>1
  <2>2. CASE j > k
    <3>1. j - 1 \in 1 .. len - 1 /\ ~ (j - 1 < k) /\ (j - 1) + 1 = j
      BY <1>1, <2>2
    <3> QED BY <1>4, <3>1
  <2> QED BY <1>1, <1>8, <2>1, <2>2
<1> HIDE DEF from
<1>9. WellListed(new)
  <2> SUFFICES ASSUME NEW j \in 1 .. len - 1, less[j].kind = "var"
               PROVE  /\ scope.vars[less[j].name] = less[j].meant /\ less[j].meant # NoSlot
                      /\ \A i \in 1 .. len - 1 : IsVar(less[i], less[j].name) => i = j
    BY <1>4, <1>5 DEF WellListed
  <2>1. from(j) \in 1 .. len /\ less[j] = drops[from(j)]
    BY <1>6
  <2>2. /\ scope.vars[less[j].name] = less[j].meant /\ less[j].meant # NoSlot
        /\ \A i \in 1 .. len : IsVar(drops[i], less[j].name) => i = from(j)
    BY <2>1 DEF WellListed
  <2>3. ASSUME NEW i \in 1 .. len - 1, IsVar(less[i], less[j].name) PROVE i = j
    <3>1. from(i) \in 1 .. len /\ less[i] = drops[from(i)]
      BY <1>6
    <3>2. from(i) = from(j)
      BY <2>2, <2>3, <3>1
    <3> QED BY <1>7, <3>2
  <2> QED BY <2>2, <2>3
<1>10. ASSUME NEW m \in Names PROVE Lists(new, m) <=> Lists(scope, m) /\ m # n
  <2>1. ASSUME Lists(new, m) PROVE Lists(scope, m) /\ m # n
    <3>1. PICK j \in 1 .. len - 1 : IsVar(less[j], m)
      BY <1>4, <1>5, <2>1 DEF Lists
    <3>2. from(j) \in 1 .. len /\ from(j) # k /\ IsVar(drops[from(j)], m)
      BY <1>6, <3>1
    <3> QED BY <1>3, <3>2 DEF Lists
  <2>2. ASSUME Lists(scope, m), m # n PROVE Lists(new, m)
    <3>1. PICK j \in 1 .. len : IsVar(drops[j], m)
      BY <2>2 DEF Lists
    <3>2. j # k
      BY <1>2, <2>2, <3>1 DEF IsVar
    <3>3. PICK i \in 1 .. len - 1 : less[i] = drops[j]
      BY <1>8, <3>2
    <3> QED BY <1>4, <1>5, <3>1, <3>3 DEF Lists
  <2> QED BY <2>1, <2>2
<1> QED BY <1>5, <1>9, <1>10 DEF new

-----------------------------------------------------------------------------
(* A move *)

\* What a move leaves: the same names in every scope, and each list right.
SameNames(new) ==
  /\ new \in Seq(Scopes) /\ Len(new) = Len(scopes)
  /\ \A i \in 1 .. Len(scopes) : new[i].vars = scopes[i].vars /\ WellListed(new[i])

\* And the name off the list of the innermost scope, and no other.
MovedAway(n, new) ==
  \A i \in 1 .. Len(scopes), m \in Names :
    Lists(new[i], m) <=> Lists(scopes[i], m) /\ ~ (i = Len(scopes) /\ m = n)

LEMMA MarkMovedOutMoves ==
  ASSUME DropInv, NEW n \in Names
  PROVE  /\ SameNames(MarkMovedOut(n))
         /\ Lists(scopes[Len(scopes)], n) => MovedAway(n, MarkMovedOut(n))
<1> DEFINE new == MarkMovedOut(n)  len == Len(scopes)
<1>1. /\ scopes \in Seq(Scopes) /\ len \in Nat \ {0}
      /\ \A i \in 1 .. len : scopes[i] \in Scopes /\ WellListed(scopes[i])
  BY DEF DropInv, ShapeInv, ListInv
<1>2. ASSUME NEW i \in 1 .. len PROVE i \in Listing(n) <=> Lists(scopes[i], n)
  <2>1. scopes[i].drops \in Seq(Entries)
    BY <1>1 DEF Scopes
  <2>2. DOMAIN scopes[i].drops = 1 .. Len(scopes[i].drops) /\ i \in DOMAIN scopes
    BY <1>1, <2>1
  <2> QED BY <2>2 DEF Listing, Lists, ToSet
<1>3. Listing(n) \in SUBSET (1 .. len)
  BY <1>1 DEF Listing
<1>4. CASE Listing(n) = {}
  <2>1. new = scopes
    BY <1>4 DEF MarkMovedOut
  <2>2. len \in 1 .. len
    BY <1>1
  <2> QED BY <1>1, <1>2, <1>4, <2>1, <2>2 DEF SameNames
<1>5. CASE Listing(n) # {}
  <2> DEFINE d == Max(Listing(n))  less == [scopes[d] EXCEPT !.drops = Without(@, n)]
  <2>1. d \in Listing(n) /\ d \in 1 .. len /\ \A i \in Listing(n) : i <= d
    BY <1>1, <1>3, <1>5, GreatestUpTo
  <2>2. new = [scopes EXCEPT ![d] = less]
    BY <1>5 DEF MarkMovedOut
  <2>3. /\ less \in Scopes /\ less.vars = scopes[d].vars /\ WellListed(less)
        /\ \A m \in Names : Lists(less, m) <=> Lists(scopes[d], m) /\ m # n
    BY <1>1, <1>2, <2>1, ScopeWithoutOne
  <2> HIDE DEF d, less
  <2>4. /\ new \in Seq(Scopes) /\ Len(new) = len /\ new[d] = less
        /\ \A i \in 1 .. len : i # d => new[i] = scopes[i]
    BY <1>1, <2>1, <2>2, <2>3
  <2> HIDE DEF new
  <2>5. SameNames(new)
    BY <1>1, <2>3, <2>4 DEF SameNames
  <2>6. ASSUME Lists(scopes[len], n) PROVE MovedAway(n, new)
    <3>1. len \in 1 .. len /\ len \in Listing(n)
      BY <1>1, <1>2, <2>6
    <3>2. d = len
      BY <1>1, <2>1, <3>1
    <3> QED BY <2>3, <2>4, <3>2 DEF MovedAway
  <2> QED BY <2>5, <2>6 DEF new
<1> QED BY <1>4, <1>5

\* While a body has no lapse, what a move takes its value from is the variable of
\* that name in the innermost scope, and is listed there.
LEMMA MoveWithoutLapse ==
  ASSUME DropInv, lapses = {}, NEW n \in Names, FindVar(n) # NoSlot,
         Touch(FindVar(n)) = {}, Far(n) = {}
  PROVE  /\ FindVar(n) = scopes[Len(scopes)].vars[n] /\ Lists(scopes[Len(scopes)], n)
<1>1. FindVar(n) \notin gone
  BY DEF Touch
<1>2. ~ (Max(Declaring(n)) < Len(scopes))
  BY DEF Far
<1>3. Max(Declaring(n)) \in 1 .. Len(scopes) /\ FindVar(n) = scopes[Max(Declaring(n))].vars[n]
  BY NameStandsForSlot
<1>4. Max(Declaring(n)) = Len(scopes) /\ Len(scopes) \in 1 .. Len(scopes)
  BY <1>2, <1>3 DEF DropInv, ShapeInv
<1> QED BY <1>1, <1>3, <1>4 DEF DropInv, OwnedInv

\* Scopes and slots with which the drop lists are right again, l being the lapses.
Fits(new, g, l) ==
  /\ SameNames(new) /\ g \subseteq 1 .. slots
  /\ l = {} => \A i \in 1 .. Len(scopes), n \in Names :
                 scopes[i].vars[n] # NoSlot => (Lists(new[i], n) <=> scopes[i].vars[n] \notin g)

LEMMA MarkMovedOutFits ==
  ASSUME DropInv, NEW n \in Names, FindVar(n) # NoSlot, NEW base \in SUBSET gone,
         NEW l, l = {} => lapses = {} /\ base = gone /\ Touch(FindVar(n)) = {} /\ Far(n) = {}
  PROVE  Fits(MarkMovedOut(n), base \cup {FindVar(n)}, l)
<1> DEFINE new == MarkMovedOut(n)  g == base \cup {FindVar(n)}
<1>1. SameNames(new)
  BY MarkMovedOutMoves
<1>2. g \subseteq 1 .. slots
  BY NameStandsForSlot DEF DropInv, ShapeInv
<1>3. ASSUME l = {}, NEW i \in 1 .. Len(scopes), NEW m \in Names, scopes[i].vars[m] # NoSlot
      PROVE  Lists(new[i], m) <=> scopes[i].vars[m] \notin g
  <2>1. FindVar(n) = scopes[Len(scopes)].vars[n] /\ Lists(scopes[Len(scopes)], n)
    BY <1>3, MoveWithoutLapse
  <2>2. Lists(new[i], m) <=> Lists(scopes[i], m) /\ ~ (i = Len(scopes) /\ m = n)
    BY <1>3, <2>1, MarkMovedOutMoves DEF MovedAway
  <2>3. Lists(scopes[i], m) <=> scopes[i].vars[m] \notin base
    BY <1>3 DEF DropInv, OwnedInv
  <2>4. scopes[i].vars[m] = FindVar(n) <=> i = Len(scopes) /\ m = n
    <3>1. Len(scopes) \in 1 .. Len(scopes)
      BY DEF DropInv, ShapeInv
    <3> QED BY <1>3, <2>1, <3>1 DEF DropInv, SlotInv
  <2> QED BY <1>3, <2>2, <2>3, <2>4
<1> QED BY <1>1, <1>2, <1>3 DEF Fits

\* A let or an assignment whose value comes from src.
LEMMA AfterMoveFits ==
  ASSUME DropInv, NEW n \in Names, NEW src \in Names \cup {"new"}, src # "new" => FindVar(src) # NoSlot,
         NEW base \in SUBSET gone,
         NEW l, l = {} => lapses = {} /\ base = gone /\ Moves(src, n) = {}
  PROVE  Fits(AfterMove(src, n), base \cup ({SourceSlot(src)} \ {NoSlot}), l)
<1>1. SameNames(scopes) /\ base \subseteq 1 .. slots
  BY DEF DropInv, ShapeInv, ListInv, SameNames
<1>2. CASE src = "new"
  <2>1. AfterMove(src, n) = scopes /\ SourceSlot(src) = NoSlot
    BY <1>2 DEF AfterMove, SourceSlot
  <2> QED BY <1>1, <2>1 DEF Fits, DropInv, OwnedInv
<1>3. CASE src # "new"
  <2>1. SourceSlot(src) = FindVar(src) /\ {SourceSlot(src)} \ {NoSlot} = {FindVar(src)} /\ src \in Names
    BY <1>3 DEF SourceSlot
  <2>2. l = {} => Touch(FindVar(src)) = {} /\ Far(src) = {} /\ src # n
    BY <1>3 DEF Moves
  <2>3. CASE src # n
    <3>1. AfterMove(src, n) = MarkMovedOut(src)
      BY <1>3, <2>3 DEF AfterMove
    <3> QED BY <1>3, <2>1, <2>2, <3>1, MarkMovedOutFits
  <2>4. CASE src = n
    <3>1. AfterMove(src, n) = scopes /\ l # {}
      BY <2>2, <2>4 DEF AfterMove
    <3>2. base \cup {FindVar(src)} \subseteq 1 .. slots
      BY <1>1, <1>3, <2>1, NameStandsForSlot
    <3> QED BY <1>1, <2>1, <3>1, <3>2 DEF Fits
  <2> QED BY <2>3, <2>4
<1> QED BY <1>2, <1>3

-----------------------------------------------------------------------------
(* The statements *)

LEMMA DeclareOne ==
  ASSUME NEW stack \in Seq(Scopes), Len(stack) > 0, NEW n \in Names, NEW slot \in Nat \ {0},
         stack[Len(stack)].vars[n] = NoSlot, WellListed(stack[Len(stack)])
  PROVE  LET new == Declare(stack, n, slot)  top == Len(stack)
         IN /\ new \in Seq(Scopes) /\ Len(new) = top
            /\ \A i \in 1 .. top : i # top => new[i] = stack[i]
            /\ \A m \in Names : new[top].vars[m] = IF m = n THEN slot ELSE stack[top].vars[m]
            /\ WellListed(new[top])
            /\ \A m \in Names : Lists(new[top], m) <=> Lists(stack[top], m) \/ m = n
<1> DEFINE new == Declare(stack, n, slot)  top == Len(stack)
           e == Entry("var", n, slot)  old == stack[top]
           scope == [vars |-> [old.vars EXCEPT ![n] = slot], drops |-> Append(old.drops, e)]
<1>1. top \in 1 .. top /\ old \in Scopes /\ e \in Entries /\ IsVar(e, n) /\ e.name = n
      /\ e.meant = slot
  BY DEF Entry, Entries, IsVar
<1>2. old.vars \in [Names -> Nat] /\ old.drops \in Seq(Entries)
  BY <1>1 DEF Scopes
<1>3. scope \in Scopes
  BY <1>1, <1>2 DEF Scopes
<1>4. /\ scope.vars = [old.vars EXCEPT ![n] = slot]
      /\ Len(scope.drops) = Len(old.drops) + 1 /\ scope.drops[Len(old.drops) + 1] = e
      /\ \A k \in 1 .. Len(old.drops) : scope.drops[k] = old.drops[k]
  BY <1>2
<1>5. new = [stack EXCEPT ![top] = scope]
  BY DEF Declare
<1> HIDE DEF scope, e, old
<1>6. \A k \in 1 .. Len(old.drops) : ~ IsVar(old.drops[k], n)
  BY DEF WellListed, IsVar, old
<1>7. \A k \in 1 .. Len(scope.drops) : k \in 1 .. Len(old.drops) \/ k = Len(old.drops) + 1
  BY <1>2, <1>4
<1>8. WellListed(scope)
  <2> SUFFICES ASSUME NEW k \in 1 .. Len(scope.drops), scope.drops[k].kind = "var"
               PROVE  /\ scope.vars[scope.drops[k].name] = scope.drops[k].meant
                      /\ scope.drops[k].meant # NoSlot
                      /\ \A j \in 1 .. Len(scope.drops) : IsVar(scope.drops[j], scope.drops[k].name) => j = k
    BY DEF WellListed
  <2>1. CASE k = Len(old.drops) + 1
    <3>1. scope.drops[k].name = n /\ scope.vars[n] = slot /\ scope.drops[k].meant = slot
      BY <1>1, <1>2, <1>4, <2>1
    <3>2. ASSUME NEW j \in 1 .. Len(scope.drops), IsVar(scope.drops[j], n) PROVE j = k
      BY <1>4, <1>6, <1>7, <2>1, <3>2
    <3> QED BY <3>1, <3>2 DEF NoSlot
  <2>2. CASE k \in 1 .. Len(old.drops)
    <3> DEFINE m == old.drops[k].name
    <3>1. scope.drops[k] = old.drops[k] /\ m # n /\ m \in Names
      <4>1. old.drops[k] \in Entries
        BY <1>2, <2>2
      <4> QED BY <1>4, <1>6, <2>2, <4>1 DEF IsVar, Entries
    <3>2. /\ old.vars[m] = old.drops[k].meant /\ old.drops[k].meant # NoSlot
          /\ scope.vars[m] = old.vars[m]
      BY <1>2, <1>4, <2>2, <3>1 DEF WellListed, old
    <3>3. ASSUME NEW j \in 1 .. Len(scope.drops), IsVar(scope.drops[j], m) PROVE j = k
      <4>1. j # Len(old.drops) + 1
        BY <1>1, <1>4, <3>1, <3>3 DEF IsVar
      <4> QED BY <1>4, <1>7, <2>2, <3>1, <3>3, <4>1 DEF WellListed, old
    <3> QED BY <3>1, <3>2, <3>3
  <2> QED BY <1>7, <2>1, <2>2
<1>9. ASSUME NEW m \in Names PROVE Lists(scope, m) <=> Lists(old, m) \/ m = n
  <2>1. ASSUME Lists(scope, m), m # n PROVE Lists(old, m)
    <3>1. PICK k \in 1 .. Len(scope.drops) : IsVar(scope.drops[k], m)
      BY <2>1 DEF Lists
    <3>2. k \in 1 .. Len(old.drops)
      BY <1>1, <1>4, <1>7, <2>1, <3>1 DEF IsVar
    <3> QED BY <1>4, <3>1, <3>2 DEF Lists
  <2>2. ASSUME Lists(old, m) PROVE Lists(scope, m)
    <3>1. PICK k \in 1 .. Len(old.drops) : IsVar(old.drops[k], m)
      BY <2>2 DEF Lists
    <3>2. k \in 1 .. Len(scope.drops)
      BY <1>2, <1>4
    <3> QED BY <1>4, <3>1, <3>2 DEF Lists
  <2>3. Lists(scope, n)
    <3>1. Len(old.drops) + 1 \in 1 .. Len(scope.drops)
      BY <1>2, <1>4
    <3> QED BY <1>1, <1>4, <3>1 DEF Lists
  <2> QED BY <2>1, <2>2, <2>3
<1>10. /\ new \in Seq(Scopes) /\ Len(new) = top /\ new[top] = scope
       /\ \A i \in 1 .. top : i # top => new[i] = stack[i]
  BY <1>1, <1>3, <1>5
<1>11. \A m \in Names : new[top].vars[m] = IF m = n THEN slot ELSE stack[top].vars[m]
  BY <1>2, <1>4, <1>10 DEF old
<1> QED BY <1>8, <1>9, <1>10, <1>11 DEF old

\* A statement that changes no scope.
LEMMA DropInvStays ==
  ASSUME DropInv, UNCHANGED <<scopes, frames, slots, gone>>, lapses \subseteq lapses'
  PROVE  DropInv'
<1>1. lapses' = {} => lapses = {}
  OBVIOUS
<1> QED BY <1>1 DEF DropInv, ShapeInv, SlotInv, ListInv, OwnedInv

LEMMA DropInvFits ==
  ASSUME DropInv, Fits(scopes', gone', lapses'), UNCHANGED <<frames, slots>>
  PROVE  DropInv'
<1>1. /\ scopes' \in Seq(Scopes) /\ Len(scopes') = Len(scopes)
      /\ \A i \in 1 .. Len(scopes) : scopes'[i].vars = scopes[i].vars /\ WellListed(scopes'[i])
  BY DEF Fits, SameNames
<1>2. ShapeInv' /\ SlotInv' /\ ListInv'
  BY <1>1 DEF Fits, DropInv, ShapeInv, SlotInv, ListInv
<1>3. OwnedInv'
  BY <1>1 DEF Fits, OwnedInv
<1> QED BY <1>2, <1>3 DEF DropInv

LEMMA DropInvLet ==
  ASSUME DropInv, NEW n \in Names, NEW src \in Names \cup {"new"}, Let(n, src)
  PROVE  DropInv'
<1> DEFINE stack == AfterMove(src, n)  g == gone \cup ({SourceSlot(src)} \ {NoSlot})  top == Len(scopes)
<1>1. /\ src # "new" => FindVar(src) # NoSlot
      /\ scopes[top].vars[n] = NoSlot /\ frames' = frames
      /\ slots' = slots + 1 /\ scopes' = Declare(stack, n, slots + 1) /\ gone' = g
      /\ lapses' = lapses \cup Moves(src, n)
  BY DEF Let, Admitted, Top, Last
<1>2. Fits(stack, g, lapses')
  <2>1. lapses' = {} => lapses = {} /\ gone = gone /\ Moves(src, n) = {}
    BY <1>1
  <2>2. gone \in SUBSET gone
    OBVIOUS
  <2> QED BY <1>1, <2>1, <2>2, AfterMoveFits
<1> HIDE DEF stack, g
<1>3. /\ top \in 1 .. top /\ slots \in Nat /\ slots + 1 \in Nat \ {0}
      /\ stack \in Seq(Scopes) /\ Len(stack) = top
      /\ \A i \in 1 .. top : stack[i].vars = scopes[i].vars /\ WellListed(stack[i])
      /\ g \subseteq 1 .. slots
  BY <1>2 DEF Fits, SameNames, DropInv, ShapeInv
<1>4. /\ scopes' \in Seq(Scopes) /\ Len(scopes') = top
      /\ \A i \in 1 .. top : i # top => scopes'[i] = stack[i]
      /\ \A m \in Names : scopes'[top].vars[m] = IF m = n THEN slots + 1 ELSE stack[top].vars[m]
      /\ WellListed(scopes'[top])
      /\ \A m \in Names : Lists(scopes'[top], m) <=> Lists(stack[top], m) \/ m = n
  BY <1>1, <1>3, DeclareOne
<1>5. ASSUME NEW i \in 1 .. top, NEW m \in Names
      PROVE  /\ scopes'[i].vars[m] = IF i = top /\ m = n THEN slots + 1 ELSE scopes[i].vars[m]
             /\ Lists(scopes'[i], m) <=> Lists(stack[i], m) \/ (i = top /\ m = n)
             /\ scopes[i].vars[m] <= slots /\ scopes[i].vars[m] \in Nat
  <2>1. scopes[i] \in Scopes
    BY DEF DropInv, ShapeInv
  <2> QED BY <1>3, <1>4, <2>1 DEF Scopes, DropInv, SlotInv
<1>6. ShapeInv'
  BY <1>1, <1>3, <1>4 DEF DropInv, ShapeInv
<1>7. ListInv'
  BY <1>3, <1>4 DEF ListInv
<1>8. SlotInv'
  <2>1. ASSUME NEW i \in 1 .. top, NEW m \in Names PROVE scopes'[i].vars[m] <= slots + 1
    BY <1>3, <1>5
  <2>2. ASSUME NEW i \in 1 .. top, NEW j \in 1 .. top, NEW m \in Names, NEW k \in Names,
               scopes'[i].vars[m] = scopes'[j].vars[k], scopes'[i].vars[m] # NoSlot
        PROVE  i = j /\ m = k
    <3>1. CASE i = top /\ m = n
      BY <1>3, <1>5, <2>2, <3>1
    <3>2. CASE j = top /\ k = n
      BY <1>3, <1>5, <2>2, <3>2
    <3>3. CASE ~ (i = top /\ m = n) /\ ~ (j = top /\ k = n)
      <4>1. scopes[i].vars[m] = scopes[j].vars[k] /\ scopes[i].vars[m] # NoSlot
        BY <1>5, <2>2, <3>3
      <4> QED BY <4>1 DEF DropInv, SlotInv
    <3> QED BY <3>1, <3>2, <3>3
  <2> QED BY <1>1, <1>4, <2>1, <2>2 DEF SlotInv
<1>9. OwnedInv'
  <2> SUFFICES ASSUME lapses' = {}, NEW i \in 1 .. top, NEW m \in Names, scopes'[i].vars[m] # NoSlot
               PROVE  Lists(scopes'[i], m) <=> scopes'[i].vars[m] \notin g
    BY <1>1, <1>4 DEF OwnedInv
  <2>1. CASE i = top /\ m = n
    BY <1>3, <1>5, <2>1
  <2>2. CASE ~ (i = top /\ m = n)
    <3>1. scopes'[i].vars[m] = scopes[i].vars[m] /\ (Lists(scopes'[i], m) <=> Lists(stack[i], m))
      BY <1>5, <2>2
    <3> QED BY <1>2, <3>1 DEF Fits
  <2> QED BY <2>1, <2>2
<1> QED BY <1>6, <1>7, <1>8, <1>9 DEF DropInv

LEMMA DropInvAssign ==
  ASSUME DropInv, NEW n \in Names, NEW src \in Names \cup {"new"}, Assign(n, src)
  PROVE  DropInv'
<1> DEFINE base == gone \ {FindVar(n)}
<1>1. /\ FindVar(n) # NoSlot /\ (src # "new" => FindVar(src) # NoSlot)
      /\ UNCHANGED <<frames, slots>> /\ scopes' = AfterMove(src, n)
      /\ gone' = base \cup ({SourceSlot(src)} \ {NoSlot})
      /\ lapses' = lapses \cup Moves(src, n) \cup (IF FindVar(n) \in gone THEN {"overwrite"} ELSE {})
  BY DEF Assign, Admitted
<1>2. lapses' = {} => lapses = {} /\ base = gone /\ Moves(src, n) = {}
  BY <1>1
<1>3. base \in SUBSET gone
  OBVIOUS
<1> HIDE DEF base
<1>4. Fits(scopes', gone', lapses')
  BY <1>1, <1>2, <1>3, AfterMoveFits
<1> QED BY <1>1, <1>4, DropInvFits

LEMMA DropInvPass ==
  ASSUME DropInv, NEW n \in Names, Pass(n)
  PROVE  DropInv'
<1>1. /\ FindVar(n) # NoSlot /\ UNCHANGED <<frames, slots>> /\ scopes' = MarkMovedOut(n)
      /\ gone' = gone \cup {FindVar(n)} /\ lapses' = lapses \cup Touch(FindVar(n)) \cup Far(n)
  BY DEF Pass, Admitted
<1>2. lapses' = {} => lapses = {} /\ gone = gone /\ Touch(FindVar(n)) = {} /\ Far(n) = {}
  BY <1>1
<1>3. gone \in SUBSET gone
  OBVIOUS
<1>4. Fits(scopes', gone', lapses')
  BY <1>1, <1>2, <1>3, MarkMovedOutFits
<1> QED BY <1>1, <1>4, DropInvFits

LEMMA DropInvDefer ==
  ASSUME DropInv, NEW n \in Names, Defer(n)
  PROVE  DropInv'
<1> DEFINE top == Len(scopes)  e == Entry("defer", n, FindVar(n))  old == scopes[top]
           scope == [old EXCEPT !.drops = Append(@, e)]
<1>1. /\ FindVar(n) # NoSlot /\ UNCHANGED <<frames, slots, gone>>
      /\ scopes' = [scopes EXCEPT ![top] = scope] /\ lapses \subseteq lapses'
  BY DEF Defer, Admitted
<1>2. /\ scopes \in Seq(Scopes) /\ top \in 1 .. top /\ old \in Scopes /\ e \in Entries
      /\ \A m : ~ IsVar(e, m)
  BY <1>1, NameStandsForSlot DEF DropInv, ShapeInv, Entry, Entries, IsVar
<1>3. old.drops \in Seq(Entries)
  BY <1>2 DEF Scopes
<1>4. e.kind = "defer"
  BY DEF Entry
<1> HIDE DEF e, old
<1>5. scope \in Scopes /\ scope.vars = old.vars /\ scope.drops = Append(old.drops, e)
  <2>1. Append(old.drops, e) \in Seq(Entries)
    BY <1>2, <1>3
  <2> QED BY <1>2, <2>1 DEF Scopes
<1> HIDE DEF scope
<1>6. /\ Len(scope.drops) = Len(old.drops) + 1 /\ scope.drops[Len(old.drops) + 1] = e
      /\ \A k \in 1 .. Len(old.drops) : scope.drops[k] = old.drops[k] /\ k \in 1 .. Len(scope.drops)
      /\ \A k \in 1 .. Len(scope.drops) : k \in 1 .. Len(old.drops) \/ k = Len(old.drops) + 1
  BY <1>3, <1>5
<1>7. \A m \in Names : Lists(scope, m) <=> Lists(old, m)
  BY <1>2, <1>6 DEF Lists
<1>8. WellListed(scope)
  <2>1. WellListed(old)
    BY <1>2 DEF DropInv, ListInv, old
  <2> QED BY <1>2, <1>4, <1>5, <1>6, <2>1 DEF WellListed
<1>9. /\ scopes' \in Seq(Scopes) /\ Len(scopes') = top /\ scopes'[top] = scope
      /\ \A i \in 1 .. top : i # top => scopes'[i] = scopes[i]
  BY <1>1, <1>2, <1>5
<1>10. ASSUME NEW i \in 1 .. top
       PROVE  /\ scopes'[i].vars = scopes[i].vars /\ WellListed(scopes'[i])
              /\ \A m \in Names : Lists(scopes'[i], m) <=> Lists(scopes[i], m)
  BY <1>5, <1>7, <1>8, <1>9 DEF DropInv, ListInv, old
<1>11. lapses' = {} => lapses = {}
  BY <1>1
<1>12. Fits(scopes', gone', lapses')
  BY <1>1, <1>9, <1>10, <1>11 DEF Fits, SameNames, DropInv, ShapeInv, OwnedInv
<1> QED BY <1>1, <1>12, DropInvFits

\* Scopes that are opened hold nothing, and those below do not change.
LEMMA DropInvBlock ==
  ASSUME DropInv, UNCHANGED <<slots, gone>>, lapses \subseteq lapses',
         scopes' \in Seq(Scopes), frames' \in Seq(Frames), Len(scopes') = Len(frames') + 1,
         \A i \in 1 .. Len(scopes') :
           \/ i \in 1 .. Len(scopes) /\ scopes'[i] = scopes[i]
           \/ scopes'[i] = EmptyScope
  PROVE  DropInv'
<1>1. WellListed(EmptyScope) /\ \A n \in Names : EmptyScope.vars[n] = NoSlot
  BY DEF EmptyScope, WellListed
<1>2. ShapeInv'
  BY DEF DropInv, ShapeInv
<1>3. SlotInv'
  <2>1. slots \in Nat
    BY DEF DropInv, ShapeInv
  <2>2. ASSUME NEW i \in 1 .. Len(scopes'), NEW n \in Names
        PROVE  /\ scopes'[i].vars[n] <= slots
               /\ scopes'[i].vars[n] # NoSlot => i \in 1 .. Len(scopes) /\ scopes'[i] = scopes[i]
    BY <1>1, <2>1 DEF DropInv, SlotInv, NoSlot
  <2>3. ASSUME NEW i \in 1 .. Len(scopes'), NEW j \in 1 .. Len(scopes'), NEW n \in Names, NEW m \in Names,
               scopes'[i].vars[n] = scopes'[j].vars[m], scopes'[i].vars[n] # NoSlot
        PROVE  i = j /\ n = m
    <3>1. /\ i \in 1 .. Len(scopes) /\ scopes'[i] = scopes[i]
          /\ j \in 1 .. Len(scopes) /\ scopes'[j] = scopes[j]
      BY <2>2, <2>3
    <3> QED BY <2>3, <3>1 DEF DropInv, SlotInv
  <2> QED BY <2>2, <2>3 DEF SlotInv
<1>4. ListInv'
  BY <1>1 DEF DropInv, ListInv
<1>5. lapses' = {} => lapses = {}
  OBVIOUS
<1>6. OwnedInv'
  BY <1>1, <1>5 DEF DropInv, OwnedInv
<1> QED BY <1>2, <1>3, <1>4, <1>6 DEF DropInv

LEMMA FrontOf ==
  ASSUME NEW S, NEW s \in Seq(S), NEW n \in Nat, Len(s) = n + 1
  PROVE  /\ Front(s) \in Seq(S) /\ Len(Front(s)) = n
         /\ \A i \in 1 .. n : i \in 1 .. Len(s) /\ Front(s)[i] = s[i]
<1>1. Front(s) = SubSeq(s, 1, n)
  BY DEF Front
<1>2. /\ SubSeq(s, 1, n) \in Seq(S) /\ Len(SubSeq(s, 1, n)) = n
      /\ \A i \in 1 .. n : i \in 1 .. Len(s) /\ SubSeq(s, 1, n)[i] = s[i]
  OBVIOUS
<1> QED BY <1>1, <1>2

LEMMA DropInvBlocks ==
  ASSUME DropInv, Open("if") \/ Open("while") \/ Else \/ EndBlock
  PROVE  DropInv'
<1>1. /\ scopes \in Seq(Scopes) /\ frames \in Seq(Frames) /\ Len(scopes) = Len(frames) + 1
      /\ EmptyScope \in Scopes
  <2>1. [n \in Names |-> NoSlot] \in [Names -> Nat] /\ <<>> \in Seq(Entries)
    BY DEF NoSlot
  <2> QED BY <2>1 DEF DropInv, ShapeInv, EmptyScope, Scopes
<1>2. ASSUME NEW op \in {"if", "while"}, Open(op) PROVE DropInv'
  <2>1. /\ frames' = Append(frames, op) /\ scopes' = Append(scopes, EmptyScope)
        /\ UNCHANGED <<slots, gone, lapses>>
    BY <1>2 DEF Open
  <2>2. /\ scopes' \in Seq(Scopes) /\ Len(scopes') = Len(scopes) + 1
        /\ \A i \in 1 .. Len(scopes) + 1 :
             IF i = Len(scopes) + 1 THEN scopes'[i] = EmptyScope
             ELSE i \in 1 .. Len(scopes) /\ scopes'[i] = scopes[i]
    BY <1>1, <2>1
  <2>3. frames' \in Seq(Frames) /\ Len(frames') = Len(frames) + 1
    <3>1. op \in Frames
      BY DEF Frames
    <3> QED BY <1>1, <2>1, <3>1
  <2> QED BY <1>1, <2>1, <2>2, <2>3, DropInvBlock
<1>3. ASSUME frames # <<>>
      PROVE  /\ Front(frames) \in Seq(Frames) /\ Len(Front(frames)) = Len(frames) - 1
             /\ Front(scopes) \in Seq(Scopes) /\ Len(Front(scopes)) = Len(frames) /\ Len(frames) \in Nat \ {0}
             /\ \A i \in 1 .. Len(frames) : i \in 1 .. Len(scopes) /\ Front(scopes)[i] = scopes[i]
  <2>1. Len(frames) \in Nat \ {0}
    BY <1>1, <1>3
  <2>2. Front(frames) \in Seq(Frames) /\ Len(Front(frames)) = Len(frames) - 1
    <3>1. PICK n \in Nat : Len(frames) = n + 1
      <4>1. Len(frames) - 1 \in Nat /\ Len(frames) = (Len(frames) - 1) + 1
        BY <2>1
      <4> QED BY <4>1
    <3>2. Front(frames) \in Seq(Frames) /\ Len(Front(frames)) = n
      BY <1>1, <3>1, FrontOf
    <3> QED BY <3>1, <3>2
  <2> QED BY <1>1, <2>1, <2>2, FrontOf
<1>4. CASE Else
  <2>1. /\ frames # <<>> /\ frames' = Append(Front(frames), "else")
        /\ scopes' = Append(Front(scopes), EmptyScope) /\ UNCHANGED <<slots, gone>>
        /\ lapses \subseteq lapses'
    BY <1>4 DEF Else
  <2> DEFINE low == Front(scopes)  n == Len(frames)
  <2>2. /\ n \in Nat \ {0} /\ low \in Seq(Scopes) /\ Len(low) = n
        /\ \A i \in 1 .. n : i \in 1 .. Len(scopes) /\ low[i] = scopes[i]
    BY <1>3, <2>1
  <2>5. frames' \in Seq(Frames) /\ Len(frames') = n
    <3>1. "else" \in Frames
      BY DEF Frames
    <3> QED BY <1>3, <2>1, <3>1
  <2> HIDE DEF low, n
  <2>3. scopes' = Append(low, EmptyScope)
    BY <2>1 DEF low
  <2>4. /\ scopes' \in Seq(Scopes) /\ Len(scopes') = n + 1
        /\ \A i \in 1 .. n + 1 : IF i = n + 1 THEN scopes'[i] = EmptyScope
                                 ELSE i \in 1 .. n /\ scopes'[i] = low[i]
    BY <1>1, <2>2, <2>3
  <2> QED BY <2>1, <2>2, <2>4, <2>5, DropInvBlock
<1>5. CASE EndBlock
  <2>1. /\ frames # <<>> /\ frames' = Front(frames) /\ scopes' = Front(scopes)
        /\ UNCHANGED <<slots, gone>> /\ lapses \subseteq lapses'
    BY <1>5 DEF EndBlock
  <2> QED BY <1>3, <2>1, DropInvBlock
<1> QED BY <1>2, <1>4, <1>5

LEMMA DropInvInit == Init => DropInv
<1> SUFFICES ASSUME Init PROVE DropInv
  OBVIOUS
<1> DEFINE start == <<EmptyScope>>
<1>1. /\ scopes = Declare(start, Param, 1) /\ frames = <<>> /\ slots = 1 /\ gone = {} /\ lapses = {}
      /\ Param \in Names
  BY OwnershipAssumption DEF Init
<1>2. EmptyScope \in Scopes /\ WellListed(EmptyScope) /\ \A n \in Names : EmptyScope.vars[n] = NoSlot
  <2>1. [n \in Names |-> NoSlot] \in [Names -> Nat] /\ <<>> \in Seq(Entries)
    BY DEF NoSlot
  <2> QED BY <2>1 DEF EmptyScope, Scopes, WellListed
<1>3. start \in Seq(Scopes) /\ Len(start) = 1 /\ start[1] = EmptyScope
  BY <1>2
<1> HIDE DEF start
<1>4. /\ scopes \in Seq(Scopes) /\ Len(scopes) = 1
      /\ \A m \in Names : scopes[1].vars[m] = IF m = Param THEN 1 ELSE NoSlot
      /\ WellListed(scopes[1])
      /\ \A m \in Names : Lists(scopes[1], m) <=> Lists(EmptyScope, m) \/ m = Param
  BY <1>1, <1>2, <1>3, DeclareOne
<1>5. ShapeInv
  BY <1>1, <1>4 DEF ShapeInv
<1>6. \A i \in 1 .. Len(scopes) : i = 1
  BY <1>4
<1>7. SlotInv /\ ListInv /\ OwnedInv
  BY <1>1, <1>4, <1>6 DEF SlotInv, ListInv, OwnedInv, NoSlot
<1> QED BY <1>5, <1>7 DEF DropInv

LEMMA DropInvNext == DropInv /\ [Next]_vars => DropInv'
<1> SUFFICES ASSUME DropInv, [Next]_vars PROVE DropInv'
  OBVIOUS
<1>1. ASSUME UNCHANGED walkVars PROVE DropInv'
  BY <1>1, DropInvStays DEF walkVars
<1>2. ASSUME NEW n \in Names, NEW src \in Names \cup {"new"}, Let(n, src) \/ Assign(n, src) PROVE DropInv'
  BY <1>2, DropInvLet, DropInvAssign
<1>3. ASSUME NEW n \in Names, Pass(n) \/ Defer(n) PROVE DropInv'
  BY <1>3, DropInvPass, DropInvDefer
<1>4. ASSUME NEW n \in Names, Use(n) \/ ReturnValue(n) PROVE DropInv'
  <2>1. UNCHANGED <<scopes, frames, slots, gone>> /\ lapses \subseteq lapses'
    BY <1>4 DEF Use, ReturnValue
  <2> QED BY <2>1, DropInvStays
<1>5. CASE LeaveTurn("break") \/ LeaveTurn("continue") \/ Return \/ Finish
  <2>1. UNCHANGED <<scopes, frames, slots, gone>> /\ lapses \subseteq lapses'
    BY <1>5 DEF LeaveTurn, Return, Finish
  <2> QED BY <2>1, DropInvStays
<1>6. CASE \/ RunLet \/ RunAssign \/ RunDrop \/ RunPass \/ RunUse \/ RunLoad
           \/ RunIf \/ RunElse \/ RunWhile \/ RunBreak \/ RunContinue \/ RunEnd \/ RunRet
  <2>1. UNCHANGED walkVars
    BY <1>6 DEF RunLet, RunAssign, RunDrop, RunPass, RunUse, RunLoad, RunIf, RunElse, RunWhile,
       RunBreak, RunContinue, RunEnd, RunRet, GoTo, Stop
  <2> QED BY <1>1, <2>1
<1>7. CASE UNCHANGED vars
  BY <1>1, <1>7 DEF vars
<1> QED BY <1>2, <1>3, <1>4, <1>5, <1>6, <1>7, DropInvBlocks DEF Next

\* For any names and any body of any length: as long as no statement is one that
\* the lists mistake, a variable stands on its scope's drop list exactly if its
\* value was not moved away.
THEOREM ListsSayWhoOwns == Spec => []ListedIffOwned
<1>1. DropInv => ListedIffOwned
  <2> SUFFICES ASSUME DropInv, lapses = {} PROVE ListedIffOwned
    BY DEF ListedIffOwned
  <2>1. DOMAIN scopes = 1 .. Len(scopes)
    BY DEF DropInv, ShapeInv
  <2>2. ASSUME NEW i \in 1 .. Len(scopes), NEW n \in Names
        PROVE  (\E e \in ToSet(scopes[i].drops) : IsVar(e, n)) <=> Lists(scopes[i], n)
    <3>1. scopes[i] \in Scopes
      BY DEF DropInv, ShapeInv
    <3>2. DOMAIN scopes[i].drops = 1 .. Len(scopes[i].drops)
      BY <3>1 DEF Scopes
    <3> QED BY <3>2 DEF ToSet, Lists
  <2> QED BY <2>1, <2>2 DEF DropInv, OwnedInv, ListedIffOwned
<1> QED BY <1>1, DropInvInit, DropInvNext, PTL DEF Spec

-----------------------------------------------------------------------------
(* Type correctness *)

\* Sema's sets and flags; every slot was allocated by a statement of its own.
WalkInv ==
  /\ moved \subseteq Names /\ terminated \in BOOLEAN /\ returns \in {"open", "nothing", "value"}
  /\ lapses \subseteq Lapses
  /\ written \in 0 .. MaxLength /\ slots \in 1 .. written + 1

\* What a slot holds and what is alive was created, and is counted by owner.
ValueInv ==
  /\ \E S : owner \in Seq(S)
  /\ content \in [Slots -> 0 .. Len(owner)] /\ alive \subseteq 1 .. Len(owner)
  /\ outcome \in {"running", "clean", "leak", "double drop", "dead touch"}

LEMMA LapsesAreNamed ==
  /\ \A slot : Touch(slot) \subseteq Lapses
  /\ \A n : Far(n) \subseteq Lapses
  /\ \A src, n : Moves(src, n) \subseteq Lapses
  /\ \A to, s : Exit(to, s) \subseteq Lapses
<1>1. \A slot : Touch(slot) \subseteq Lapses
  BY DEF Touch, Lapses
<1>2. \A n : Far(n) \subseteq Lapses
  BY DEF Far, Lapses
<1>3. \A src, n : Moves(src, n) \subseteq Lapses
  BY <1>1, <1>2 DEF Moves, Lapses
<1>4. \A to, s : Exit(to, s) \subseteq Lapses
  BY DEF Exit, Lapses
<1> QED BY <1>1, <1>2, <1>3, <1>4

LEMMA WriteCounts ==
  ASSUME DropInv, WalkInv, NEW op, NEW opens \in {-1, 0, 1}, Write(op, opens),
         opens = -1 => frames # <<>>
  PROVE  written' = written + 1 /\ written' \in 0 .. MaxLength
<1>1. written + Len(frames) + opens < MaxLength /\ written' = written + 1
  BY DEF Write
<1>2. Len(frames) \in Nat /\ (frames # <<>> => Len(frames) > 0)
  BY DEF DropInv, ShapeInv
<1>3. written \in Nat /\ MaxLength \in Nat
  BY OwnershipAssumption DEF WalkInv
<1> QED BY <1>1, <1>2, <1>3

LEMMA WalkInvNext ==
  ASSUME DropInv, WalkInv, [Next]_vars
  PROVE  WalkInv'
<1>0. MaxLength \in Nat
  BY OwnershipAssumption
<1>1. ASSUME UNCHANGED walkVars PROVE WalkInv'
  BY <1>1 DEF walkVars, WalkInv
<1>2. ASSUME NEW n \in Names, NEW src \in Names \cup {"new"}, Let(n, src) PROVE WalkInv'
  <2>1. /\ Write("let", 0) /\ slots' = slots + 1 /\ moved' = moved \cup MovedFrom(src)
        /\ lapses' = lapses \cup Moves(src, n) /\ terminated' = terminated /\ returns' = returns
    BY <1>2 DEF Let, Statement
  <2>2. written' = written + 1 /\ written' \in 0 .. MaxLength
    BY <2>1, WriteCounts
  <2>3. MovedFrom(src) \subseteq Names
    BY DEF MovedFrom
  <2> QED BY <2>1, <2>2, <2>3, LapsesAreNamed DEF WalkInv
<1>3. ASSUME NEW n \in Names, NEW src \in Names \cup {"new"}, Assign(n, src) PROVE WalkInv'
  <2>1. /\ Write("assign", 0) /\ slots' = slots /\ moved' = (moved \ {n}) \cup MovedFrom(src)
        /\ lapses' = lapses \cup Moves(src, n) \cup (IF FindVar(n) \in gone THEN {"overwrite"} ELSE {})
        /\ terminated' = terminated /\ returns' = returns
    BY <1>3 DEF Assign, Statement
  <2>2. written' = written + 1 /\ written' \in 0 .. MaxLength
    BY <2>1, WriteCounts
  <2>3. MovedFrom(src) \subseteq Names /\ "overwrite" \in Lapses
    BY DEF MovedFrom, Lapses
  <2> QED BY <2>1, <2>2, <2>3, LapsesAreNamed DEF WalkInv
<1>3a. ASSUME slots' = slots, moved' = moved, NEW op, NEW opens \in {-1, 0, 1}, Write(op, opens),
              opens = -1 => frames # <<>>, returns' \in {returns, "nothing", "value"},
              terminated' \in {terminated, TRUE, FALSE}, lapses' \subseteq Lapses
       PROVE  WalkInv'
  <2>1. written' = written + 1 /\ written' \in 0 .. MaxLength
    BY <1>3a, WriteCounts
  <2>2. returns' \in {"open", "nothing", "value"} /\ terminated' \in BOOLEAN
    BY <1>3a DEF WalkInv
  <2>3. slots' \in 1 .. written' + 1
    <3>1. slots \in 1 .. written + 1 /\ written \in Nat
      BY <1>0 DEF WalkInv
    <3> QED BY <3>1, <2>1, <1>3a
  <2>4. moved' \subseteq Names
    BY <1>3a DEF WalkInv
  <2> QED BY <2>1, <2>2, <2>3, <2>4, <1>3a DEF WalkInv
<1>4. ASSUME NEW n \in Names, Pass(n) \/ Use(n) \/ Defer(n) \/ ReturnValue(n) PROVE WalkInv'
  <2>0. lapses \subseteq Lapses
    BY DEF WalkInv
  <2>1. CASE Pass(n)
    <3>1. /\ Write("pass", 0) /\ slots' = slots /\ moved' = moved /\ returns' = returns
          /\ terminated' = terminated /\ lapses' = lapses \cup Touch(FindVar(n)) \cup Far(n)
      BY <2>1 DEF Pass, Statement
    <3>2. lapses' \subseteq Lapses
      BY <2>0, <3>1, LapsesAreNamed
    <3> QED BY <3>1, <3>2, <1>3a
  <2>2. CASE Use(n)
    <3>1. /\ Write("use", 0) /\ slots' = slots /\ moved' = moved /\ returns' = returns
          /\ terminated' = terminated /\ lapses' = lapses \cup Touch(FindVar(n))
      BY <2>2 DEF Use, Statement
    <3>2. lapses' \subseteq Lapses
      BY <2>0, <3>1, LapsesAreNamed
    <3> QED BY <3>1, <3>2, <1>3a
  <2>3. CASE Defer(n)
    <3>1. /\ Write("defer", 0) /\ slots' = slots /\ moved' = moved /\ returns' = returns
          /\ terminated' = terminated /\ lapses' = lapses \cup Touch(FindVar(n))
      BY <2>3 DEF Defer, Statement
    <3>2. lapses' \subseteq Lapses
      BY <2>0, <3>1, LapsesAreNamed
    <3> QED BY <3>1, <3>2, <1>3a
  <2>4. CASE ReturnValue(n)
    <3>1. /\ Write("return", 0) /\ slots' = slots /\ moved' = moved /\ returns' = "value"
          /\ terminated' = TRUE /\ lapses' = lapses \cup Touch(FindVar(n)) \cup Exit(1, {n})
      BY <2>4 DEF ReturnValue, Statement
    <3>2. lapses' \subseteq Lapses
      BY <2>0, <3>1, LapsesAreNamed
    <3>3. 0 \in {-1, 0, 1} /\ ~ (0 = -1)
      OBVIOUS
    <3>4. terminated' \in {terminated, TRUE, FALSE}
      BY <3>1
    <3>5. returns' \in {returns, "nothing", "value"}
      BY <3>1
    <3> QED BY <3>1, <3>2, <3>3, <3>4, <3>5, <1>3a
  <2> QED BY <1>4, <2>1, <2>2, <2>3, <2>4
<1>5. CASE Open("if") \/ Open("while") \/ Else \/ EndBlock \/ LeaveTurn("break") \/ LeaveTurn("continue") \/ Return
  <2>0. lapses \subseteq Lapses
    BY DEF WalkInv
  <2>1. ASSUME NEW op, Open(op) PROVE WalkInv'
    <3>1. /\ Write(op, 1) /\ slots' = slots /\ moved' = moved /\ returns' = returns
          /\ terminated' = terminated /\ lapses' = lapses
      BY <2>1 DEF Open, Statement
    <3>2. 1 \in {-1, 0, 1} /\ 1 # -1
      OBVIOUS
    <3> QED BY <3>1, <3>2, <2>0, <1>3a
  <2>2. CASE Else
    <3>1. /\ Write("else", 0) /\ slots' = slots /\ moved' = moved /\ returns' = returns
          /\ terminated' = FALSE
          /\ lapses' = lapses \/ lapses' = lapses \cup Exit(Len(scopes), {})
      BY <2>2 DEF Else
    <3>2. lapses' \subseteq Lapses
      BY <2>0, <3>1, LapsesAreNamed
    <3>3. 0 \in {-1, 0, 1} /\ ~ (0 = -1)
      OBVIOUS
    <3>4. terminated' \in {terminated, TRUE, FALSE}
      BY <3>1
    <3>5. returns' \in {returns, "nothing", "value"}
      BY <3>1
    <3> QED BY <3>1, <3>2, <3>3, <3>4, <3>5, <1>3a
  <2>3. CASE EndBlock
    <3>1. /\ Write("end", -1) /\ frames # <<>>
          /\ slots' = slots /\ moved' = moved /\ returns' = returns /\ terminated' = FALSE
          /\ lapses' = lapses \/ lapses' = lapses \cup Exit(Len(scopes), {})
      BY <2>3 DEF EndBlock
    <3>2. lapses' \subseteq Lapses
      BY <2>0, <3>1, LapsesAreNamed
    <3>3. -1 \in {-1, 0, 1}
      OBVIOUS
    <3> QED BY <3>1, <3>2, <3>3, <1>3a
  <2>4. ASSUME NEW op, LeaveTurn(op) PROVE WalkInv'
    <3>1. /\ Write(op, 0) /\ slots' = slots /\ moved' = moved /\ returns' = returns
          /\ terminated' = TRUE /\ lapses' = lapses \cup Exit(LoopScope, {})
      BY <2>4 DEF LeaveTurn, Statement
    <3>2. lapses' \subseteq Lapses
      BY <2>0, <3>1, LapsesAreNamed
    <3> QED BY <3>1, <3>2, <1>3a
  <2>5. CASE Return
    <3>1. /\ Write("return", 0) /\ slots' = slots /\ moved' = moved /\ returns' = "nothing"
          /\ terminated' = TRUE /\ lapses' = lapses \cup Exit(1, {})
      BY <2>5 DEF Return, Statement
    <3>2. lapses' \subseteq Lapses
      BY <2>0, <3>1, LapsesAreNamed
    <3> QED BY <3>1, <3>2, <1>3a
  <2> QED BY <1>5, <2>1, <2>2, <2>3, <2>4, <2>5
<1>6. CASE Finish
  <2>1. /\ UNCHANGED <<moved, terminated, returns, written, slots>>
        /\ lapses' = lapses \/ lapses' = lapses \cup Exit(1, {})
    BY <1>6 DEF Finish
  <2>2. lapses' \subseteq Lapses
    BY <2>1, LapsesAreNamed DEF WalkInv
  <2> QED BY <2>1, <2>2 DEF WalkInv
<1>7. CASE \/ RunLet \/ RunAssign \/ RunDrop \/ RunPass \/ RunUse \/ RunLoad
           \/ RunIf \/ RunElse \/ RunWhile \/ RunBreak \/ RunContinue \/ RunEnd \/ RunRet
  <2>1. UNCHANGED walkVars
    BY <1>7 DEF RunLet, RunAssign, RunDrop, RunPass, RunUse, RunLoad, RunIf, RunElse, RunWhile,
       RunBreak, RunContinue, RunEnd, RunRet, GoTo, Stop
  <2> QED BY <1>1, <2>1
<1>8. CASE UNCHANGED vars
  BY <1>1, <1>8 DEF vars
<1> QED BY <1>2, <1>3, <1>4, <1>5, <1>6, <1>7, <1>8 DEF Next

\* Sequences over a set are sequences over a larger one, written to or not.
LEMMA LargerSeq ==
  ASSUME NEW S, NEW s, NEW q \in Seq(S)
  PROVE  /\ Len(q) \in Nat
         /\ Append(q, s) \in Seq(S \cup {s}) /\ Len(Append(q, s)) = Len(q) + 1
         /\ \A h \in 1 .. Len(q) : /\ [q EXCEPT ![h] = s] \in Seq(S \cup {s})
                                  /\ Len([q EXCEPT ![h] = s]) = Len(q)
<1> DEFINE B == S \cup {s}
<1>1. S \subseteq B /\ s \in B
  OBVIOUS
<1> HIDE DEF B
<1>2. Len(q) \in Nat /\ DOMAIN q = 1 .. Len(q) /\ \A k \in 1 .. Len(q) : q[k] \in S
  OBVIOUS
<1>3. q \in Seq(B)
  <2>1. q = [k \in 1 .. Len(q) |-> q[k]] /\ \A k \in 1 .. Len(q) : q[k] \in B
    BY <1>1, <1>2
  <2> QED BY <1>2, <2>1
<1>4. Append(q, s) \in Seq(B) /\ Len(Append(q, s)) = Len(q) + 1
  BY <1>1, <1>3
<1>5. ASSUME NEW h \in 1 .. Len(q)
      PROVE  [q EXCEPT ![h] = s] \in Seq(B) /\ Len([q EXCEPT ![h] = s]) = Len(q)
  BY <1>1, <1>3
<1> QED BY <1>2, <1>4, <1>5 DEF B

\* A value that goes into a slot is new, or alive where it comes from.
LEMMA StoreKeepsValues ==
  ASSUME ValueInv, NEW s, NEW t, ~ Dead(t), Store(s, t), outcome' = outcome,
         alive' \subseteq alive \cup {Incoming(t)}
  PROVE  ValueInv'
<1>1. PICK S : owner \in Seq(S)
  BY DEF ValueInv
<1>0. /\ content \in [Slots -> 0 .. Len(owner)] /\ alive \subseteq 1 .. Len(owner)
      /\ outcome \in {"running", "clean", "leak", "double drop", "dead touch"}
  BY DEF ValueInv
<1> DEFINE N == Len(owner)
<1>a. N \in Nat
  BY <1>1, LargerSeq
<1>b. content \in [Slots -> 0 .. N] /\ alive \subseteq 1 .. N
  BY <1>0
<1>c. ASSUME NEW M \in Nat, N <= M, NEW v \in 1 .. M, Len(owner') = M, \E T : owner' \in Seq(T),
             content' = [content EXCEPT ![s] = v], alive' \subseteq alive \cup {v}
      PROVE  ValueInv'
  <2> HIDE DEF N
  <2>1. 0 .. N \subseteq 0 .. M /\ 1 .. N \subseteq 1 .. M /\ v \in 0 .. M
    BY <1>a, <1>c
  <2>2. content \in [Slots -> 0 .. M]
    BY <1>b, <2>1
  <2>3. content' \in [Slots -> 0 .. M]
    BY <1>c, <2>1, <2>2
  <2>4. alive' \subseteq 1 .. M
    BY <1>b, <1>c, <2>1
  <2> QED BY <2>3, <2>4, <1>0, <1>c DEF ValueInv
<1>2. CASE t = NoSlot
  <2>1. owner' = Append(owner, s) /\ Incoming(t) = N + 1
    BY <1>2 DEF Store, Incoming
  <2>2. owner' \in Seq(S \cup {s}) /\ Len(owner') = N + 1
    BY <2>1, <1>1, LargerSeq
  <2>3. content' = [content EXCEPT ![s] = N + 1] /\ alive' \subseteq alive \cup {N + 1}
    BY <2>1 DEF Store
  <2>4. N <= N + 1 /\ N + 1 \in Nat /\ N + 1 \in 1 .. N + 1
    BY <1>a
  <2>5. \E T : owner' \in Seq(T)
    BY <2>2
  <2> HIDE DEF N
  <2> QED BY <2>2, <2>3, <2>4, <2>5, <1>c
<1>3. CASE t # NoSlot
  <2>1. owner' = [owner EXCEPT ![Held(t)] = s] /\ Incoming(t) = Held(t) /\ Held(t) \in alive
    BY <1>3 DEF Store, Incoming, Dead
  <2>2. Held(t) \in 1 .. N
    BY <2>1, <1>b
  <2>3. owner' \in Seq(S \cup {s}) /\ Len(owner') = N
    BY <2>1, <2>2, <1>1, LargerSeq
  <2>4. content' = [content EXCEPT ![s] = Held(t)] /\ alive' \subseteq alive \cup {Held(t)}
    BY <2>1 DEF Store
  <2>5. N <= N /\ \E T : owner' \in Seq(T)
    BY <1>a, <2>3
  <2> HIDE DEF N
  <2> QED BY <1>a, <2>2, <2>3, <2>4, <2>5, <1>c
<1> QED BY <1>2, <1>3

LEMMA ValueInvNext ==
  ASSUME ValueInv, [Next]_vars
  PROVE  ValueInv'
<1>1. ASSUME UNCHANGED <<content, owner>>, alive' \subseteq alive,
             outcome' \in {outcome, "clean", "leak", "double drop", "dead touch"}
      PROVE  ValueInv'
  BY <1>1 DEF ValueInv
<1>2. CASE \E n \in Names : \/ \E src \in Names \cup {"new"} : Let(n, src) \/ Assign(n, src)
                            \/ Pass(n) \/ Use(n) \/ Defer(n) \/ ReturnValue(n)
  <2>1. UNCHANGED runVars
    BY <1>2 DEF Let, Assign, Pass, Use, Defer, ReturnValue, Statement, Write
  <2> QED BY <1>1, <2>1 DEF runVars
<1>3. CASE Open("if") \/ Open("while") \/ Else \/ EndBlock \/ LeaveTurn("break") \/ LeaveTurn("continue")
           \/ Return \/ Finish \/ UNCHANGED vars
  <2>1. UNCHANGED <<content, alive, owner, outcome>>
    BY <1>3 DEF Open, Else, EndBlock, LeaveTurn, Return, Finish, Statement, Write, vars, runVars
  <2> QED BY <1>1, <2>1
<1>4. CASE RunLet \/ RunAssign
  <2>1. \/ Stop("dead touch") \/ Stop("double drop")
        \/ /\ ~ Dead(Here.t) /\ Store(Here.s, Here.t) /\ outcome' = outcome
           /\ alive' \subseteq alive \cup {Incoming(Here.t)}
    BY <1>4 DEF RunLet, RunAssign, GoTo
  <2> QED BY <1>1, <2>1, StoreKeepsValues DEF Stop
<1>5. CASE RunDrop \/ RunPass \/ RunUse \/ RunLoad \/ RunIf \/ RunElse \/ RunWhile \/ RunBreak \/ RunContinue
           \/ RunEnd \/ RunRet
  <2>1. /\ UNCHANGED <<content, owner>> /\ alive' \subseteq alive
        /\ outcome' \in {outcome, "clean", "leak", "double drop", "dead touch"}
    BY <1>5 DEF RunDrop, RunPass, RunUse, RunLoad, RunIf, RunElse, RunWhile, RunBreak, RunContinue,
       RunEnd, RunRet, GoTo, Stop, Untouched
  <2> QED BY <1>1, <2>1
<1> QED BY <1>2, <1>3, <1>4, <1>5 DEF Next

LEMMA WalkValueInit == Init => WalkInv /\ ValueInv
<1> SUFFICES ASSUME Init PROVE WalkInv /\ ValueInv
  OBVIOUS
<1>1. WalkInv
  <2>1. MaxLength \in Nat
    BY OwnershipAssumption
  <2>2. 0 \in 0 .. MaxLength /\ 1 \in 1 .. 0 + 1
    BY <2>1
  <2> QED BY <2>2 DEF Init, WalkInv, Lapses
<1>2. owner = <<1>> /\ owner \in Seq(Nat) /\ Len(owner) = 1
  BY DEF Init
<1>3. content \in [Slots -> 0 .. 1] /\ alive \subseteq 1 .. 1 /\ outcome = "running"
  BY DEF Init
<1> QED BY <1>1, <1>2, <1>3 DEF ValueInv

\* For any names and any body of any length, and any run of it: the scopes match
\* the open blocks, a drop list names variables of its own scope, each once and
\* with its own slot, and every value in a slot is one that was created.
THEOREM TypeCorrect == Spec => []TypeOK
<1>1. Init => WalkInv /\ ValueInv
  BY WalkValueInit
<1>2. DropInv /\ WalkInv /\ ValueInv /\ [Next]_vars => (WalkInv /\ ValueInv)'
  BY WalkInvNext, ValueInvNext
<1>3. DropInv /\ WalkInv /\ ValueInv => TypeOK
  <2> SUFFICES ASSUME DropInv, WalkInv, ValueInv PROVE TypeOK
    OBVIOUS
  <2>1. /\ Len(scopes) = Len(frames) + 1 /\ DOMAIN scopes = 1 .. Len(scopes)
        /\ slots \in Slots /\ gone \subseteq 1 .. slots
    BY OwnershipAssumption DEF DropInv, ShapeInv, WalkInv, Slots
  <2>2. ASSUME NEW i \in 1 .. Len(scopes)
        PROVE  /\ scopes[i].vars \in [Names -> {NoSlot} \cup 1 .. slots]
               /\ \A k \in DOMAIN scopes[i].drops :
                    LET e == scopes[i].drops[k]
                    IN e.kind = "var" => /\ scopes[i].vars[e.name] = e.meant /\ e.meant # NoSlot
                                         /\ \A j \in DOMAIN scopes[i].drops :
                                              IsVar(scopes[i].drops[j], e.name) => j = k
    <3>1. scopes[i] \in Scopes /\ slots \in Nat
      BY DEF DropInv, ShapeInv
    <3>2. \A n \in Names : scopes[i].vars[n] \in {NoSlot} \cup 1 .. slots
      BY <3>1 DEF Scopes, DropInv, SlotInv, NoSlot
    <3>3. scopes[i].vars \in [Names -> {NoSlot} \cup 1 .. slots]
      BY <3>1, <3>2 DEF Scopes
    <3>4. DOMAIN scopes[i].drops = 1 .. Len(scopes[i].drops)
      BY <3>1 DEF Scopes
    <3> QED BY <3>3, <3>4 DEF DropInv, ListInv, WellListed
  <2>3. PICK S : owner \in Seq(S)
    BY DEF ValueInv
  <2>4. DOMAIN owner = 1 .. Len(owner)
    BY <2>3
  <2> QED BY <2>1, <2>2, <2>4 DEF TypeOK, WalkInv, ValueInv
<1> QED BY <1>1, <1>2, <1>3, DropInvInit, DropInvNext, PTL DEF Spec

-----------------------------------------------------------------------------
(* Flattening *)

\* Flattening joins the pieces from the left, one after the other.
LEMMA FlattenExists ==
  ASSUME NEW P, NEW n \in Nat, n >= 1
  PROVE  \E f : f = [i \in 1 .. n |-> IF i = 1 THEN P[i] ELSE f[i - 1] \o P[i]]
<1> DEFINE Joined(f, m) == f = [i \in 1 .. m |-> IF i = 1 THEN P[i] ELSE f[i - 1] \o P[i]]
           Some(m) == \E f : Joined(f, m)
           T == {m \in 1 .. n : ~ Some(m)}
<1>1. SUFFICES ASSUME ~ Some(n) PROVE FALSE
  OBVIOUS
<1> HIDE DEF Some
<1>2. T # {} /\ T \subseteq Nat
  <2>1. n \in T
    BY <1>1
  <2> QED BY <2>1
<1>3. PICK m \in T : \A k \in T : m <= k
  <2> HIDE DEF T
  <2> QED BY <1>2, LeastNat
<1>4. m \in 1 .. n /\ ~ Some(m)
  BY <1>3
<1>5. CASE m = 1
  <2> DEFINE g == [i \in 1 .. 1 |-> P[i]]
  <2>1. Joined(g, 1)
    OBVIOUS
  <2> QED BY <1>4, <1>5, <2>1 DEF Some
<1>6. CASE m # 1
  <2>1. m - 1 \in 1 .. n /\ ~ (m <= m - 1)
    BY <1>4, <1>6
  <2>2. PICK f : Joined(f, m - 1)
    <3>1. Some(m - 1)
      BY <1>3, <2>1
    <3> QED BY <3>1 DEF Some
  <2> DEFINE g == [i \in 1 .. m |-> IF i = m THEN f[m - 1] \o P[m] ELSE f[i]]
  <2>3. ASSUME NEW i \in 1 .. m PROVE g[i] = IF i = 1 THEN P[i] ELSE g[i - 1] \o P[i]
    <3>1. CASE i = m
      <4>1. g[m] = f[m - 1] \o P[m]
        <5>1. m \in 1 .. m
          BY <1>4
        <5> QED BY <5>1
      <4>2. m - 1 \in 1 .. m /\ m - 1 # m
        BY <1>4, <1>6
      <4>3. g[m - 1] = f[m - 1]
        BY <4>2
      <4> QED BY <4>1, <4>3, <3>1, <1>6
    <3>2. CASE i # m
      <4>1. i \in 1 .. m - 1 /\ g[i] = f[i]
        BY <3>2, <1>4
      <4>2. f[i] = IF i = 1 THEN P[i] ELSE f[i - 1] \o P[i]
        BY <2>2, <4>1
      <4>3. i # 1 => g[i - 1] = f[i - 1]
        BY <4>1, <1>4
      <4> QED BY <4>1, <4>2, <4>3
    <3> QED BY <3>1, <3>2
  <2>4. Joined(g, m)
    <3> HIDE DEF g
    <3>1. g = [i \in 1 .. m |-> g[i]]
      BY DEF g
    <3> QED BY <3>1, <2>3
  <2> QED BY <1>4, <2>4 DEF Some
<1> QED BY <1>5, <1>6

LEMMA FlattenIs ==
  ASSUME NEW P, Len(P) \in Nat, Len(P) >= 1
  PROVE  \E f : /\ FlattenSeq(P) = f[Len(P)] /\ f[1] = P[1]
                /\ \A i \in 2 .. Len(P) : f[i] = f[i - 1] \o P[i]
<1> DEFINE n == Len(P)
           F == CHOOSE f : f = [i \in 1 .. n |-> IF i = 1 THEN P[i] ELSE f[i - 1] \o P[i]]
<1>1. FlattenSeq(P) = F[n]
  BY DEF FlattenSeq
<1>2. \E f : f = [i \in 1 .. n |-> IF i = 1 THEN P[i] ELSE f[i - 1] \o P[i]]
  BY FlattenExists
<1>3. F = [i \in 1 .. n |-> IF i = 1 THEN P[i] ELSE F[i - 1] \o P[i]]
  BY <1>2
<1> HIDE DEF F
<1>4. ASSUME NEW i \in 1 .. n PROVE F[i] = IF i = 1 THEN P[i] ELSE F[i - 1] \o P[i]
  <2> DEFINE G == [k \in 1 .. n |-> IF k = 1 THEN P[k] ELSE F[k - 1] \o P[k]]
  <2>1. G[i] = IF i = 1 THEN P[i] ELSE F[i - 1] \o P[i]
    OBVIOUS
  <2>2. F = G
    BY <1>3
  <2> QED BY <2>1, <2>2
<1>5. F[1] = P[1]
  <2>1. 1 \in 1 .. n
    OBVIOUS
  <2> QED BY <2>1, <1>4
<1>6. ASSUME NEW i \in 2 .. n PROVE F[i] = F[i - 1] \o P[i]
  <2>1. i \in 1 .. n /\ i # 1
    OBVIOUS
  <2> QED BY <2>1, <1>4
<1> QED BY <1>1, <1>5, <1>6

-----------------------------------------------------------------------------
(* Code that is extended *)

LEMMA Joins ==
  ASSUME NEW S, NEW c \in Seq(S), NEW d \in Seq(S)
  PROVE  /\ c \o d \in Seq(S) /\ Len(c \o d) = Len(c) + Len(d)
         /\ Len(c) \in Nat /\ Len(d) \in Nat
         /\ \A k \in 1 .. Len(c) : (c \o d)[k] = c[k]
         /\ \A k \in 1 .. Len(d) : (c \o d)[Len(c) + k] = d[k]
<1>1. Len(c) \in Nat /\ Len(d) \in Nat /\ c \o d \in Seq(S) /\ Len(c \o d) = Len(c) + Len(d)
  OBVIOUS
<1>2. ASSUME NEW k \in 1 .. Len(c) PROVE (c \o d)[k] = c[k]
  OBVIOUS
<1>3. ASSUME NEW k \in 1 .. Len(d) PROVE (c \o d)[Len(c) + k] = d[k]
  OBVIOUS
<1> QED BY <1>1, <1>2, <1>3

LEMMA AmongConcat ==
  ASSUME NEW I, NEW c \in Seq(I), NEW d \in Seq(I), NEW i \in 1 .. Len(c) + 1, NEW j \in Int, j <= Len(c)
  PROVE  /\ \A ops : Among(c \o d, ops, i, j) = Among(c, ops, i, j)
         /\ Level(c \o d, i, j) = Level(c, i, j)
<1>1. \A k \in i .. j : (c \o d)[k] = c[k]
  <2> SUFFICES ASSUME NEW k \in i .. j PROVE (c \o d)[k] = c[k]
    OBVIOUS
  <2>1. k \in 1 .. Len(c)
    OBVIOUS
  <2> QED BY <2>1, Joins
<1>2. \A ops : Among(c \o d, ops, i, j) = Among(c, ops, i, j)
  BY <1>1 DEF Among
<1> QED BY <1>2 DEF Level

LEMMA AroundConcat ==
  ASSUME NEW I, NEW c \in Seq(I), NEW d \in Seq(I), NEW o, NEW i \in 1 .. Len(c) + 1
  PROVE  Around(c \o d, o, i) <=> Around(c, o, i)
<1>1. SUFFICES ASSUME o \in 1 .. i - 1
               PROVE  Around(c \o d, o, i) <=> Around(c, o, i)
  BY DEF Around
<1>2. o \in 1 .. Len(c) /\ o \in 1 .. Len(c) + 1 /\ (c \o d)[o] = c[o]
  BY <1>1, Joins
<1>3. ASSUME NEW j \in o .. i - 1 PROVE Level(c \o d, o, j) = Level(c, o, j)
  <2>1. j \in Int /\ j <= Len(c)
    BY <1>2
  <2> QED BY <1>2, <2>1, AmongConcat
<1> QED BY <1>2, <1>3 DEF Around

LEMMA ClosesConcat ==
  ASSUME NEW I, NEW c \in Seq(I), NEW d \in Seq(I), NEW o, NEW e \in 1 .. Len(c)
  PROVE  /\ Closes(c \o d, o, e) <=> Closes(c, o, e)
         /\ o \in 1 .. Len(c) => /\ Level(c \o d, o, e) = Level(c, o, e)
                                 /\ ElsesOf(c \o d, o, e) = ElsesOf(c, o, e)
<1>1. e \in 1 .. Len(c) + 1 /\ e \in Int /\ e <= Len(c) /\ e \in 1 .. Len(c \o d)
  BY Joins
<1>2. Around(c \o d, o, e) <=> Around(c, o, e)
  BY <1>1, AroundConcat
<1>3. ASSUME o \in 1 .. Len(c)
      PROVE  Level(c \o d, o, e) = Level(c, o, e) /\ ElsesOf(c \o d, o, e) = ElsesOf(c, o, e)
  <2>1. o \in 1 .. Len(c) + 1
    BY <1>3
  <2>2. ASSUME NEW j \in o .. e PROVE Level(c \o d, o, j) = Level(c, o, j)
    <3>1. j \in Int /\ j <= Len(c)
      OBVIOUS
    <3> QED BY <2>1, <3>1, AmongConcat
  <2>3. Among(c \o d, {"else"}, o, e) = Among(c, {"else"}, o, e) /\ Level(c \o d, o, e) = Level(c, o, e)
    BY <1>1, <2>1, AmongConcat
  <2>4. Among(c, {"else"}, o, e) \subseteq o .. e
    BY DEF Among
  <2> QED BY <2>2, <2>3, <2>4 DEF ElsesOf
<1>4. Around(c, o, e) => o \in 1 .. Len(c)
  BY <1>1 DEF Around
<1> QED BY <1>1, <1>2, <1>3, <1>4 DEF Closes

\* Instructions that open and end no block leave the open blocks open.
Flat(d) == \A k \in 1 .. Len(d) : d[k].op \notin Openers \cup {"end", "else"}

LEMMA FlatConcat ==
  ASSUME NEW I, NEW c \in Seq(I), NEW d \in Seq(I), Flat(d), NEW o \in 1 .. Len(c),
         NEW m, m = Len(c) + Len(d)
  PROVE  /\ Level(c \o d, o, m) = Level(c, o, Len(c))
         /\ ElsesOf(c \o d, o, m) = ElsesOf(c, o, Len(c))
         /\ Around(c, o, Len(c) + 1) => Around(c \o d, o, m + 1)
<1> DEFINE b == c \o d  n == Len(c)
<1>1. n \in Nat /\ Len(d) \in Nat /\ m \in Nat /\ n <= m /\ o \in 1 .. n + 1 /\ o <= n + 1
  BY Joins
<1>2. ASSUME NEW k \in n + 1 .. m PROVE b[k].op \notin Openers \cup {"end", "else"}
  <2>1. k - n \in 1 .. Len(d) /\ n + (k - n) = k
    BY <1>1
  <2>2. b[n + (k - n)] = d[k - n]
    BY <2>1, Joins
  <2> QED BY <2>1, <2>2 DEF Flat
<1>3. Level(b, o, n) = Level(c, o, n) /\ Among(b, {"else"}, o, n) = Among(c, {"else"}, o, n)
  BY <1>1, AmongConcat
<1>4. Level(c, o, n) \in Int
  BY <1>1, LevelType
<1> HIDE DEF b, n
<1>5. ASSUME NEW j \in n .. m PROVE Level(b, o, j) = Level(c, o, n)
  <2>1. Among(b, Openers, n + 1, j) = {} /\ Among(b, {"end"}, n + 1, j) = {}
    BY <1>1, <1>2 DEF Among
  <2>2. Level(b, n + 1, j) = 0
    <3>1. Cardinality({}) = 0
      BY FS_EmptySet
    <3>2. Level(b, n + 1, j) = Cardinality({}) - Cardinality({})
      BY <2>1 DEF Level
    <3> QED BY <3>1, <3>2
  <2>3. Level(b, o, j) = Level(b, o, n + 1 - 1) + Level(b, n + 1, j)
    BY <1>1, LevelAdds
  <2>4. n + 1 - 1 = n
    BY <1>1
  <2> QED BY <1>3, <1>4, <2>2, <2>3, <2>4
<1>6. Level(b, o, m) = Level(c, o, n)
  BY <1>1, <1>5
<1>7. ElsesOf(b, o, m) = ElsesOf(c, o, n)
  <2>1. ASSUME NEW j \in o .. m, b[j].op = "else" PROVE j \in o .. n
    BY <1>1, <1>2, <2>1
  <2>2. Among(b, {"else"}, o, m) = Among(b, {"else"}, o, n)
    BY <1>1, <2>1 DEF Among
  <2>3. ASSUME NEW j \in o .. n PROVE Level(b, o, j) = Level(c, o, j)
    <3>1. j \in Int /\ j <= Len(c)
      BY <1>1 DEF n
    <3>2. o \in 1 .. Len(c) + 1
      BY <1>1 DEF n
    <3> QED BY <3>1, <3>2, AmongConcat DEF b
  <2>4. Among(c, {"else"}, o, n) \subseteq o .. n
    BY DEF Among
  <2> QED BY <1>3, <2>2, <2>3, <2>4 DEF ElsesOf
<1>8. ASSUME Around(c, o, n + 1) PROVE Around(b, o, m + 1)
  <2>1. c[o].op \in Openers /\ \A j \in o .. n : Level(c, o, j) >= 1
    BY <1>1, <1>8 DEF Around
  <2>2. b[o] = c[o]
    BY Joins DEF b
  <2>3. ASSUME NEW j \in o .. m PROVE Level(b, o, j) >= 1
    <3>1. CASE j <= n
      <4>1. j \in Int /\ j <= Len(c) /\ o \in 1 .. Len(c) + 1
        BY <1>1, <3>1 DEF n
      <4>2. Level(b, o, j) = Level(c, o, j)
        BY <4>1, AmongConcat DEF b
      <4> QED BY <2>1, <3>1, <4>2
    <3>2. CASE j > n
      <4>1. j \in n .. m /\ n \in o .. n
        BY <1>1, <3>2 DEF n
      <4> QED BY <4>1, <1>5, <2>1
    <3> QED BY <1>1, <3>1, <3>2
  <2>4. o \in 1 .. m + 1 - 1 /\ o .. m + 1 - 1 = o .. m
    BY <1>1 DEF n
  <2> QED BY <2>1, <2>2, <2>3, <2>4 DEF Around
<1> QED BY <1>6, <1>7, <1>8 DEF b, n

-----------------------------------------------------------------------------
(* The code written so far, and what is alive at each point of it.         *)

\* The slots that hold a live value, the one whose value was loaded for the
\* return, and whether control never gets there.
Points == [live : SUBSET Slots, res : Nat, dead : BOOLEAN]
Calm(S) == [live |-> S, res |-> 0, dead |-> FALSE]

OpNames == {"let", "assign", "pass", "use", "load", "drop", "if", "else", "while", "end",
            "break", "continue", "ret"}
Instrs == [op : OpNames, s : 0 .. MaxLength + 1, t : 0 .. MaxLength + 1]

\* From point a the instruction i leads to point b, in a body with lapses l.
Straight(i, a, b, l) ==
  /\ i.op \notin {"else", "end"} => ~ a.dead
  /\ i.op = "let" => /\ a.res = 0 /\ i.s # 0 /\ i.s \notin a.live /\ i.t \in a.live \cup {0}
                     /\ b = Calm((a.live \ {i.t}) \cup {i.s})
  /\ i.op = "assign" => /\ a.res = 0 /\ i.s \in a.live /\ i.t \in a.live \cup {0}
                        /\ i.t = i.s => "self" \in l
                        /\ b = Calm(IF i.t = i.s THEN a.live ELSE a.live \ {i.t})
  /\ i.op = "pass" => a.res = 0 /\ i.s \in a.live /\ b = Calm(a.live \ {i.s})
  /\ i.op = "drop" => /\ i.s \in a.live /\ i.s # a.res
                      /\ b = [live |-> a.live \ {i.s}, res |-> a.res, dead |-> FALSE]
                      /\ l = {} => \A v \in a.live \ {a.res} : v <= i.s
  /\ i.op = "use" => b = a /\ (l = {} => i.s \in a.live)
  /\ i.op = "load" => a.res = 0 /\ i.s \in a.live /\ b = [live |-> a.live, res |-> i.s, dead |-> FALSE]
  /\ i.op \in {"if", "while"} => b = a
  /\ i.op = "ret" => "shadow" \in l \/ a.live \subseteq {a.res}

\* The "if" at o is what an "else" at p belongs to; the "while" at o is what a
\* jump at p leaves.
IfOf(c, o, p) == c[o].op = "if" /\ Around(c, o, p) /\ Level(c, o, p) = 1
LoopOf(c, o, p) ==
  /\ c[o].op = "while" /\ Around(c, o, p)
  /\ \A k \in 1 .. p - 1 : c[k].op = "while" /\ Around(c, k, p) => k <= o

\* At the end of an arm or a turn all is as at its start.
Returns(s, o, p) == (s[p].dead \/ s[p] = s[o]) /\ s[p + 1] = s[o]

Step(c, s, l, p) ==
  /\ Straight(c[p], s[p], s[p + 1], l)
  /\ c[p].op = "else" => \A o \in 1 .. p - 1 : IfOf(c, o, p) => Returns(s, o, p)
  /\ c[p].op = "end" => \A o \in 1 .. p - 1 : Closes(c, o, p) => Returns(s, o, p)
  /\ c[p].op \in {"break", "continue"} => \E o \in 1 .. p - 1 : LoopOf(c, o, p) /\ s[p] = s[o]

OneElse(c, o, e) == ElsesOf(c, o, e) = {} \/ \E a : ElsesOf(c, o, e) = {a}

\* Blocks are nested; those that `at' does not list are closed.
Nested(c, at, p) ==
  /\ c[p].op \in Openers => \/ \E k \in 1 .. Len(at) : at[k] = p
                            \/ \E e \in 1 .. Len(c) : Closes(c, p, e) /\ (c[p].op = "if" => OneElse(c, p, e))
  /\ c[p].op = "end" => \E o \in 1 .. p - 1 : Closes(c, o, p)
  /\ c[p].op = "else" => \E o \in 1 .. p - 1 : IfOf(c, o, p)

OpenAt(c, at, kinds, k) ==
  LET o == at[k]  n == Len(c)
  IN /\ o \in 1 .. n /\ Around(c, o, n + 1) /\ Level(c, o, n) = Len(at) - k + 1
     /\ c[o].op = (IF kinds[k] = "while" THEN "while" ELSE "if")
     /\ kinds[k] = "if" => ElsesOf(c, o, n) = {}
     /\ kinds[k] = "else" => OneElse(c, o, n)

\* The code c, the points s before, between and behind its instructions, and
\* where the open blocks start.
Body(c, s, at, kinds, l) ==
  /\ c \in Seq(Instrs) /\ s \in Seq(Points) /\ Len(s) = Len(c) + 1 /\ s[1] = Calm({1})
  /\ \A p \in 1 .. Len(c) : Step(c, s, l, p)
  /\ at \in Seq(Nat) /\ Len(at) = Len(kinds)
  /\ \A p \in 1 .. Len(c) : Nested(c, at, p)
  /\ \A k \in 1 .. Len(at) : OpenAt(c, at, kinds, k)
  /\ \A j, k \in 1 .. Len(at) : j < k => at[j] < at[k]

LEMMA StraightGrows ==
  ASSUME NEW i, NEW a, NEW b, NEW l, NEW g, Straight(i, a, b, l), l \subseteq g
  PROVE  Straight(i, a, b, g)
BY DEF Straight

\* What is behind the code does not matter to it.
LEMMA StepConcat ==
  ASSUME NEW c \in Seq(Instrs), NEW s \in Seq(Points), Len(s) = Len(c) + 1,
         NEW d \in Seq(Instrs), NEW u \in Seq(Points), NEW l, NEW g, l \subseteq g,
         NEW p \in 1 .. Len(c), Step(c, s, l, p)
  PROVE  Step(c \o d, s \o u, g, p)
<1> DEFINE b == c \o d  r == s \o u
<1>1. b[p] = c[p] /\ r[p] = s[p] /\ r[p + 1] = s[p + 1] /\ p \in Nat
  <2>1. p \in 1 .. Len(s) /\ p + 1 \in 1 .. Len(s)
    OBVIOUS
  <2> QED BY <2>1, Joins
<1>2. ASSUME NEW o \in 1 .. p - 1
      PROVE  /\ b[o] = c[o] /\ r[o] = s[o]
             /\ Around(b, o, p) <=> Around(c, o, p)
             /\ Level(b, o, p) = Level(c, o, p)
             /\ Closes(b, o, p) <=> Closes(c, o, p)
  <2>1. o \in 1 .. Len(c) /\ o \in 1 .. Len(s) /\ p \in 1 .. Len(c) + 1
    OBVIOUS
  <2>2. b[o] = c[o] /\ r[o] = s[o]
    BY <2>1, Joins
  <2>3. Around(b, o, p) <=> Around(c, o, p)
    BY <2>1, AroundConcat
  <2> QED BY <2>1, <2>2, <2>3, ClosesConcat
<1> HIDE DEF b, r
<1>3. Straight(b[p], r[p], r[p + 1], g)
  BY <1>1, StraightGrows DEF Step
<1>4. ASSUME b[p].op = "else", NEW o \in 1 .. p - 1, IfOf(b, o, p) PROVE Returns(r, o, p)
  <2>1. IfOf(c, o, p)
    BY <1>2, <1>4 DEF IfOf
  <2>2. Returns(s, o, p)
    BY <1>1, <1>4, <2>1 DEF Step
  <2> QED BY <1>1, <1>2, <2>2 DEF Returns
<1>5. ASSUME b[p].op = "end", NEW o \in 1 .. p - 1, Closes(b, o, p) PROVE Returns(r, o, p)
  <2>1. Closes(c, o, p)
    BY <1>2, <1>5
  <2>2. Returns(s, o, p)
    BY <1>1, <1>5, <2>1 DEF Step
  <2> QED BY <1>1, <1>2, <2>2 DEF Returns
<1>6. ASSUME b[p].op \in {"break", "continue"}
      PROVE  \E o \in 1 .. p - 1 : LoopOf(b, o, p) /\ r[p] = r[o]
  <2>1. PICK o \in 1 .. p - 1 : LoopOf(c, o, p) /\ s[p] = s[o]
    BY <1>1, <1>6 DEF Step
  <2>2. LoopOf(b, o, p)
    BY <1>2, <2>1 DEF LoopOf
  <2> QED BY <1>1, <1>2, <2>1, <2>2
<1>7. Step(b, r, g, p)
  BY <1>3, <1>4, <1>5, <1>6 DEF Step
<1> QED BY <1>7 DEF b, r

LEMMA NestedConcat ==
  ASSUME NEW c \in Seq(Instrs), NEW d \in Seq(Instrs), NEW at, NEW p \in 1 .. Len(c), Nested(c, at, p)
  PROVE  Nested(c \o d, at, p)
<1> DEFINE b == c \o d
<1>1. b[p] = c[p] /\ Len(c) \in Nat /\ Len(c) <= Len(b)
  BY Joins
<1>2. ASSUME c[p].op \in Openers, NEW e \in 1 .. Len(c), Closes(c, p, e), c[p].op = "if" => OneElse(c, p, e)
      PROVE  e \in 1 .. Len(b) /\ Closes(b, p, e) /\ (c[p].op = "if" => OneElse(b, p, e))
  <2>1. e \in 1 .. Len(b)
    BY <1>1, Joins
  <2>2. Closes(b, p, e) /\ ElsesOf(b, p, e) = ElsesOf(c, p, e)
    BY <1>2, ClosesConcat
  <2> QED BY <1>2, <2>1, <2>2 DEF OneElse
<1>3. ASSUME NEW o \in 1 .. p - 1
      PROVE  (Closes(c, o, p) => Closes(b, o, p)) /\ (IfOf(c, o, p) => IfOf(b, o, p))
  <2>1. o \in 1 .. Len(c) /\ p \in 1 .. Len(c) + 1
    OBVIOUS
  <2>2. b[o] = c[o]
    BY <2>1, Joins
  <2>3. (Around(b, o, p) <=> Around(c, o, p)) /\ Level(b, o, p) = Level(c, o, p)
    BY <2>1, AroundConcat, ClosesConcat
  <2> QED BY <2>2, <2>3, ClosesConcat DEF IfOf
<1> HIDE DEF b
<1>4. Nested(b, at, p)
  BY <1>1, <1>2, <1>3 DEF Nested
<1> QED BY <1>4 DEF b

\* The parts of Body, for steps that need few of them.
LEMMA BodyTypes ==
  ASSUME NEW c, NEW s, NEW at, NEW kinds, NEW l, Body(c, s, at, kinds, l)
  PROVE  /\ c \in Seq(Instrs) /\ s \in Seq(Points) /\ Len(s) = Len(c) + 1 /\ s[1] = Calm({1})
         /\ Len(c) \in Nat /\ at \in Seq(Nat) /\ Len(at) = Len(kinds) /\ Len(at) \in Nat
         /\ s[Len(c) + 1] \in Points
BY DEF Body

\* The blocks that code stands in at its end are the open ones.
LEMMA AroundIsOpen ==
  ASSUME NEW c, NEW s, NEW at, NEW kinds, NEW l, Body(c, s, at, kinds, l),
         NEW o, Around(c, o, Len(c) + 1)
  PROVE  \E k \in 1 .. Len(at) : at[k] = o
<1>1. Len(c) \in Nat
  BY BodyTypes
<1>2. o \in 1 .. Len(c) /\ c[o].op \in Openers /\ \A j \in o .. Len(c) : Level(c, o, j) >= 1
  BY <1>1 DEF Around
<1>3. SUFFICES ASSUME NEW e \in 1 .. Len(c), Closes(c, o, e) PROVE FALSE
  BY <1>2 DEF Body, Nested
<1>4. e \in o .. Len(c) /\ Level(c, o, e) = 0
  BY <1>1, <1>3 DEF Closes, Around
<1>5. Level(c, o, e) >= 1
  BY <1>2, <1>4
<1> QED BY <1>4, <1>5

\* Instructions that open and end no block.
LEMMA BodyFlat ==
  ASSUME NEW c, NEW s, NEW at, NEW kinds, NEW l, Body(c, s, at, kinds, l),
         NEW d \in Seq(Instrs), Flat(d), NEW u \in Seq(Points), Len(u) = Len(d), NEW g, l \subseteq g,
         \A p \in Len(c) + 1 .. Len(c) + Len(d) : Step(c \o d, s \o u, g, p)
  PROVE  Body(c \o d, s \o u, at, kinds, g)
<1> DEFINE b == c \o d  r == s \o u  n == Len(c)  m == Len(b)
<1>1. /\ c \in Seq(Instrs) /\ s \in Seq(Points) /\ Len(s) = n + 1 /\ s[1] = Calm({1}) /\ n \in Nat
      /\ at \in Seq(Nat) /\ Len(at) = Len(kinds)
  BY BodyTypes
<1>2. /\ b \in Seq(Instrs) /\ m = n + Len(d) /\ Len(d) \in Nat
      /\ r \in Seq(Points) /\ Len(r) = m + 1 /\ r[1] = Calm({1})
  <2>1. 1 \in 1 .. Len(s)
    BY <1>1
  <2>2. r[1] = s[1]
    BY <1>1, <2>1, Joins
  <2>3. b \in Seq(Instrs) /\ m = n + Len(d) /\ Len(d) \in Nat
    <3>1. c \in Seq(Instrs)
      BY <1>1
    <3>2. c \o d \in Seq(Instrs) /\ Len(c \o d) = Len(c) + Len(d) /\ Len(d) \in Nat
      BY <3>1, Joins
    <3> QED BY <3>2
  <2>4. r \in Seq(Points) /\ Len(r) = n + 1 + Len(d)
    <3>1. s \in Seq(Points)
      BY <1>1
    <3>2. s \o u \in Seq(Points) /\ Len(s \o u) = Len(s) + Len(u)
      BY <3>1, Joins
    <3> QED BY <1>1, <3>2
  <2> HIDE DEF b, r, m, n
  <2> QED BY <1>1, <2>2, <2>3, <2>4
<1>3. ASSUME NEW p \in 1 .. m PROVE Step(b, r, g, p)
  <2>1. CASE p \in 1 .. n
    BY <1>1, <2>1, StepConcat DEF Body
  <2>2. CASE p \in n + 1 .. n + Len(d)
    BY <2>2
  <2> QED BY <1>1, <1>2, <2>1, <2>2
<1>4. ASSUME NEW p \in 1 .. m PROVE Nested(b, at, p)
  <2>1. CASE p \in 1 .. n
    BY <1>1, <2>1, NestedConcat DEF Body
  <2>2. CASE p \in n + 1 .. n + Len(d)
    <3>1. p - n \in 1 .. Len(d) /\ n + (p - n) = p
      BY <1>1, <1>2, <2>2
    <3>2. b[n + (p - n)] = d[p - n]
      BY <1>1, <3>1, Joins
    <3> QED BY <3>1, <3>2 DEF Flat, Nested
  <2> QED BY <1>1, <1>2, <2>1, <2>2
<1>5. ASSUME NEW k \in 1 .. Len(at) PROVE OpenAt(b, at, kinds, k)
  <2>1. OpenAt(c, at, kinds, k)
    BY DEF Body
  <2> DEFINE o == at[k]
  <2>2. o \in 1 .. n /\ Around(c, o, n + 1)
    BY <2>1 DEF OpenAt
  <2>3. /\ Level(b, o, m) = Level(c, o, n) /\ ElsesOf(b, o, m) = ElsesOf(c, o, n)
        /\ Around(b, o, m + 1) /\ b[o] = c[o] /\ o \in 1 .. m
    <3> HIDE DEF o
    <3>1. b[o] = c[o] /\ o \in 1 .. m
      BY <1>1, <1>2, <2>2, Joins
    <3> QED BY <1>1, <1>2, <2>2, <3>1, FlatConcat
  <2> HIDE DEF b
  <2> QED BY <2>1, <2>3 DEF OpenAt, OneElse
<1> HIDE DEF b, r, m, n
<1>6. Body(b, r, at, kinds, g)
  BY <1>1, <1>2, <1>3, <1>4, <1>5 DEF Body, m
<1> QED BY <1>6 DEF b, r

\* One instruction.
LEMMA OneMore ==
  ASSUME NEW S, NEW c \in Seq(S), NEW x \in S
  PROVE  /\ c \o <<x>> = Append(c, x) /\ Append(c, x) \in Seq(S) /\ Len(Append(c, x)) = Len(c) + 1
         /\ <<x>> \in Seq(S) /\ Len(<<x>>) = 1 /\ <<x>>[1] = x /\ Len(c) \in Nat
         /\ Append(c, x)[Len(c) + 1] = x /\ \A k \in 1 .. Len(c) : Append(c, x)[k] = c[k]
<1>1. <<x>> \in Seq(S) /\ Len(<<x>>) = 1 /\ <<x>>[1] = x /\ Len(c) \in Nat
  OBVIOUS
<1>2. Append(c, x) \in Seq(S) /\ Len(Append(c, x)) = Len(c) + 1
  OBVIOUS
<1>3. Append(c, x)[Len(c) + 1] = x /\ \A k \in 1 .. Len(c) : Append(c, x)[k] = c[k]
  OBVIOUS
<1>4. c \o <<x>> = Append(c, x)
  OBVIOUS
<1> QED BY <1>1, <1>2, <1>3, <1>4

\* A single one of those, that is no jump.
LEMMA BodyOne ==
  ASSUME NEW c, NEW s, NEW at, NEW kinds, NEW l, Body(c, s, at, kinds, l), NEW g, l \subseteq g,
         NEW i \in Instrs, i.op \notin Openers \cup {"end", "else", "break", "continue"},
         NEW b \in Points, Straight(i, s[Len(c) + 1], b, g)
  PROVE  Body(Append(c, i), Append(s, b), at, kinds, g)
<1> DEFINE d == <<i>>  u == <<b>>  n == Len(c)
<1>1. /\ c \in Seq(Instrs) /\ s \in Seq(Points) /\ Len(s) = n + 1 /\ n \in Nat
  BY BodyTypes
<1>2. /\ d \in Seq(Instrs) /\ Len(d) = 1 /\ u \in Seq(Points) /\ Len(u) = 1
      /\ c \o d = Append(c, i) /\ s \o u = Append(s, b) /\ d[1] = i
  BY <1>1, OneMore
<1>3. Flat(d)
  BY <1>2 DEF Flat
<1>4. /\ Append(c, i)[n + 1] = i /\ Append(s, b)[n + 1 + 1] = b /\ Append(s, b)[n + 1] = s[n + 1]
  <2>1. n + 1 \in 1 .. Len(s)
    BY <1>1
  <2> QED BY <1>1, <2>1, OneMore
<1>5. Step(c \o d, s \o u, g, n + 1)
  BY <1>2, <1>4 DEF Step
<1>6. ASSUME NEW p \in n + 1 .. n + Len(d) PROVE Step(c \o d, s \o u, g, p)
  <2>1. p = n + 1
    BY <1>1, <1>2, <1>6
  <2> QED BY <1>5, <2>1
<1> HIDE DEF d, u
<1> QED BY <1>2, <1>3, <1>6, BodyFlat

\* A jump out of a loop, or to its next turn, from where all is as at its start.
LEMMA BodyJump ==
  ASSUME NEW c, NEW s, NEW at, NEW kinds, NEW l, Body(c, s, at, kinds, l), NEW g, l \subseteq g,
         NEW i \in Instrs, i.op \in {"break", "continue"}, NEW b \in Points,
         ~ s[Len(c) + 1].dead, NEW m \in 1 .. Len(at), kinds[m] = "while",
         \A k \in 1 .. Len(at) : kinds[k] = "while" => k <= m,
         \A k \in 1 .. Len(at) : kinds[k] \in {"if", "else", "while"},
         s[Len(c) + 1] = s[at[m]]
  PROVE  Body(Append(c, i), Append(s, b), at, kinds, g)
<1> DEFINE d == <<i>>  u == <<b>>  n == Len(c)  o == at[m]  e == Append(c, i)  r == Append(s, b)
<1>1. /\ c \in Seq(Instrs) /\ s \in Seq(Points) /\ Len(s) = n + 1 /\ n \in Nat
  BY BodyTypes
<1>2. /\ d \in Seq(Instrs) /\ Len(d) = 1 /\ u \in Seq(Points) /\ Len(u) = 1
      /\ c \o d = e /\ s \o u = r /\ d[1] = i
  BY <1>1, OneMore
<1>3. Flat(d)
  BY <1>2 DEF Flat, Openers
<1>4. /\ e[n + 1] = i /\ r[n + 1] = s[n + 1] /\ \A k \in 1 .. n : e[k] = c[k] /\ r[k] = s[k]
  <2>1. n + 1 \in 1 .. Len(s) /\ \A k \in 1 .. n : k \in 1 .. Len(s)
    BY <1>1
  <2>2. e[n + 1] = i /\ \A k \in 1 .. n : e[k] = c[k]
    BY <1>1, OneMore
  <2>3. \A k \in 1 .. Len(s) : r[k] = s[k]
    BY <1>1, OneMore
  <2> QED BY <2>1, <2>2, <2>3
<1>5. o \in 1 .. n /\ Around(c, o, n + 1) /\ c[o].op = "while"
  BY DEF Body, OpenAt
<1>6. ASSUME NEW k, Around(c, k, n + 1), c[k].op = "while" PROVE k <= o
  <2>1. PICK j \in 1 .. Len(at) : at[j] = k
    BY <1>6, AroundIsOpen
  <2>2. kinds[j] = "while"
    BY <1>6, <2>1 DEF Body, OpenAt
  <2>3. j <= m /\ (j < m => at[j] < at[m])
    BY <2>2 DEF Body
  <2>4. at[j] \in Nat /\ at[m] \in Nat /\ j \in Nat /\ m \in Nat
    BY BodyTypes
  <2> QED BY <2>1, <2>3, <2>4
<1> HIDE DEF d, u, e, r, o
<1>7. \A k : Around(e, k, n + 1) <=> Around(c, k, n + 1)
  <2>1. n + 1 \in 1 .. n + 1
    BY <1>1
  <2> QED BY <1>1, <1>2, <2>1, AroundConcat
<1>8. LoopOf(e, o, n + 1)
  <2>1. ASSUME NEW k \in 1 .. n + 1 - 1, e[k].op = "while", Around(e, k, n + 1) PROVE k <= o
    <3>1. k \in 1 .. n
      BY <1>1
    <3> QED BY <1>4, <1>6, <1>7, <2>1, <3>1
  <2>2. e[o].op = "while" /\ Around(e, o, n + 1)
    BY <1>4, <1>5, <1>7
  <2> QED BY <2>1, <2>2 DEF LoopOf
<1>9. Step(e, r, g, n + 1)
  <2>1. Straight(i, r[n + 1], r[n + 1 + 1], g)
    BY <1>4 DEF Straight
  <2>2. o \in 1 .. n + 1 - 1 /\ r[n + 1] = r[o]
    BY <1>1, <1>4, <1>5 DEF o
  <2> QED BY <1>4, <1>8, <2>1, <2>2 DEF Step
<1>10. ASSUME NEW p \in n + 1 .. n + Len(d) PROVE Step(c \o d, s \o u, g, p)
  <2>1. p = n + 1
    BY <1>1, <1>2, <1>10
  <2> QED BY <1>2, <1>9, <2>1
<1>11. Body(c \o d, s \o u, at, kinds, g)
  BY <1>2, <1>3, <1>10, BodyFlat
<1> QED BY <1>2, <1>11 DEF e, r

\* What the code written before keeps when one instruction follows.
LEMMA BodyKept ==
  ASSUME NEW c, NEW s, NEW at, NEW kinds, NEW l, Body(c, s, at, kinds, l), NEW g, l \subseteq g,
         NEW i \in Instrs, NEW b \in Points
  PROVE  LET e == Append(c, i)  r == Append(s, b)  n == Len(c)
         IN /\ e \in Seq(Instrs) /\ r \in Seq(Points) /\ Len(e) = n + 1 /\ Len(r) = n + 2
            /\ r[1] = Calm({1}) /\ r[n + 2] = b /\ e[n + 1] = i
            /\ \A k \in 1 .. n : e[k] = c[k] /\ r[k] = s[k]
            /\ r[n + 1] = s[n + 1]
            /\ \A p \in 1 .. n : Step(e, r, g, p) /\ Nested(e, at, p)
            /\ \A k : Around(e, k, n + 1) <=> Around(c, k, n + 1)
<1> DEFINE d == <<i>>  u == <<b>>  n == Len(c)  e == Append(c, i)  r == Append(s, b)
<1>1. /\ c \in Seq(Instrs) /\ s \in Seq(Points) /\ Len(s) = n + 1 /\ n \in Nat /\ s[1] = Calm({1})
  BY BodyTypes
<1>2. /\ d \in Seq(Instrs) /\ u \in Seq(Points) /\ c \o d = e /\ s \o u = r
      /\ e \in Seq(Instrs) /\ r \in Seq(Points) /\ Len(e) = n + 1 /\ Len(r) = n + 2
  BY <1>1, OneMore
<1>3. e[n + 1] = i /\ \A k \in 1 .. n : e[k] = c[k]
  BY <1>1, OneMore
<1>4. r[n + 2] = b /\ \A k \in 1 .. n + 1 : r[k] = s[k]
  <2>1. r[Len(s) + 1] = b /\ \A k \in 1 .. Len(s) : r[k] = s[k]
    BY <1>1, OneMore
  <2> QED BY <1>1, <2>1
<1>5. 1 \in 1 .. n + 1 /\ n + 1 \in 1 .. n + 1 /\ \A k \in 1 .. n : k \in 1 .. n + 1
  BY <1>1
<1> HIDE DEF d, u, e, r
<1>6. ASSUME NEW p \in 1 .. n PROVE Step(e, r, g, p) /\ Nested(e, at, p)
  <2>1. Step(c, s, l, p) /\ Nested(c, at, p)
    BY DEF Body
  <2>2. Step(c \o d, s \o u, g, p)
    BY <1>1, <1>2, <2>1, StepConcat
  <2>3. Nested(c \o d, at, p)
    BY <1>1, <1>2, <2>1, NestedConcat
  <2> QED BY <1>2, <2>2, <2>3
<1>7. \A k : Around(e, k, n + 1) <=> Around(c, k, n + 1)
  BY <1>1, <1>2, <1>5, AroundConcat
<1> QED BY <1>1, <1>2, <1>3, <1>4, <1>5, <1>6, <1>7 DEF e, r

LEMMA BodyOpen ==
  ASSUME NEW c, NEW s, NEW at, NEW kinds, NEW l, Body(c, s, at, kinds, l),
         NEW i \in Instrs, i.op \in {"if", "while"}, ~ s[Len(c) + 1].dead, kinds \in Seq(Frames)
  PROVE  Body(Append(c, i), Append(s, s[Len(c) + 1]), Append(at, Len(c) + 1), Append(kinds, i.op), l)
<1> DEFINE b == s[Len(c) + 1]  n == Len(c)  e == Append(c, i)  r == Append(s, b)
           m == Len(at)  new == Append(at, n + 1)  ks == Append(kinds, i.op)
<1>1. /\ c \in Seq(Instrs) /\ s \in Seq(Points) /\ Len(s) = n + 1 /\ n \in Nat /\ b \in Points
      /\ at \in Seq(Nat) /\ Len(kinds) = m /\ m \in Nat
  BY BodyTypes
<1>2. /\ e \in Seq(Instrs) /\ r \in Seq(Points) /\ Len(e) = n + 1 /\ Len(r) = n + 2
      /\ r[1] = Calm({1}) /\ r[n + 2] = b /\ e[n + 1] = i
      /\ \A k \in 1 .. n : e[k] = c[k] /\ r[k] = s[k]
      /\ r[n + 1] = s[n + 1]
      /\ \A p \in 1 .. n : Step(e, r, l, p) /\ Nested(e, at, p)
  <2> DEFINE g == l
  <2>1. l \subseteq g /\ b \in Points
    BY <1>1
  <2> HIDE DEF g
  <2>2. /\ e \in Seq(Instrs) /\ r \in Seq(Points) /\ Len(e) = n + 1 /\ Len(r) = n + 2
        /\ r[1] = Calm({1}) /\ r[n + 2] = b /\ e[n + 1] = i
        /\ \A k \in 1 .. n : e[k] = c[k] /\ r[k] = s[k]
        /\ r[n + 1] = s[n + 1]
        /\ \A p \in 1 .. n : Step(e, r, g, p) /\ Nested(e, at, p)
        /\ \A k : Around(e, k, n + 1) <=> Around(c, k, n + 1)
    BY <2>1, BodyKept
  <2> QED BY <2>2 DEF g
<1>3. /\ new \in Seq(Nat) /\ Len(new) = m + 1 /\ new[m + 1] = n + 1 /\ \A k \in 1 .. m : new[k] = at[k]
      /\ Len(ks) = m + 1 /\ ks[m + 1] = i.op /\ \A k \in 1 .. m : ks[k] = kinds[k]
  <2>1. n + 1 \in Nat /\ i.op \in Frames
    BY <1>1 DEF Frames
  <2> QED BY <1>1, <2>1, OneMore
<1>4. ASSUME NEW o \in 1 .. n
      PROVE  /\ Level(e, o, n + 1) = Level(c, o, n) + 1 /\ Level(c, o, n) \in Int
             /\ ElsesOf(e, o, n + 1) = ElsesOf(c, o, n)
             /\ Around(c, o, n + 1) => Around(e, o, n + 2)
  <2>1. o \in 1 .. n + 1 /\ n + 1 \in Int /\ n \in Int
    BY <1>1
  <2>2. Delta(i) = 1
    BY DEF Delta, Openers
  <2>3. Level(e, o, n + 1) = Level(c, o, n) + Delta(i)
    BY <1>1, <2>1, LevelAppend
  <2>4. Level(c, o, n) \in Int
    BY <2>1, LevelType
  <2>5. ElsesOf(e, o, n + 1) = ElsesOf(c, o, n)
    <3>1. n \in 1 .. n
      BY <1>1
    <3>2. ElsesOf(e, o, n + 1)
            = ElsesOf(c, o, n) \cup IF i.op = "else" /\ Level(c, o, n) = 1 THEN {n + 1} ELSE {}
      BY <1>1, <3>1, ElsesAppend
    <3>3. i.op # "else"
      OBVIOUS
    <3> HIDE DEF e, n
    <3> QED BY <3>2, <3>3
  <2>6. ASSUME Around(c, o, n + 1) PROVE Around(e, o, n + 2)
    <3>1. Level(c, o, n) >= 1
      BY <1>1, <2>6 DEF Around
    <3>2. Level(c, o, n) + Delta(i) >= 1
      BY <2>2, <2>4, <3>1
    <3> QED BY <1>1, <2>6, <3>2, AroundNext
  <2> QED BY <2>2, <2>3, <2>4, <2>5, <2>6
<1>5. Around(e, n + 1, n + 2)
  <2>1. i.op \in Openers
    BY DEF Openers
  <2> QED BY <1>1, <2>1, AroundNext
<1>6. Level(e, n + 1, n + 1) = 1 /\ ElsesOf(e, n + 1, n + 1) = {}
  <2>1. Level(e, n + 1, n + 1) = Delta(e[n + 1])
    <3>1. n + 1 \in Int
      BY <1>1
    <3> HIDE DEF e, n
    <3> QED BY <3>1, LevelOne
  <2>2. Among(e, {"else"}, n + 1, n + 1) = {}
    BY <1>1, <1>2 DEF Among
  <2> QED BY <1>2, <2>1, <2>2 DEF Delta, Openers, ElsesOf
<1>7. ASSUME NEW p \in 1 .. n + 1 PROVE Step(e, r, l, p) /\ Nested(e, new, p)
  <2>1. CASE p \in 1 .. n
    <3>1. Step(e, r, l, p) /\ Nested(e, at, p)
      BY <1>2, <2>1
    <3>2. ASSUME NEW k \in 1 .. Len(at), at[k] = p PROVE \E j \in 1 .. Len(new) : new[j] = p
      <4>1. k \in 1 .. Len(new) /\ new[k] = p
        BY <1>1, <1>3, <3>2
      <4> QED BY <4>1
    <3> HIDE DEF e, r, new
    <3>3. Nested(e, new, p)
      BY <3>1, <3>2 DEF Nested
    <3> QED BY <3>1, <3>3
  <2>2. CASE p = n + 1
    <3>1. Straight(i, b, b, l)
      BY DEF Straight
    <3>2. n + 1 + 1 = n + 2
      BY <1>1
    <3> HIDE DEF e, r, new, b, n
    <3>3. Step(e, r, l, n + 1)
      BY <1>2, <3>1, <3>2 DEF Step, b, n
    <3>4. m + 1 \in 1 .. Len(new) /\ new[m + 1] = n + 1
      BY <1>1, <1>3
    <3>5. Nested(e, new, n + 1)
      BY <1>2, <3>4 DEF Nested
    <3> QED BY <2>2, <3>3, <3>5
  <2> QED BY <1>1, <2>1, <2>2
<1>8. ASSUME NEW k \in 1 .. m + 1 PROVE OpenAt(e, new, ks, k)
  <2>1. CASE k \in 1 .. m
    <3>1. OpenAt(c, at, kinds, k)
      BY <2>1 DEF Body
    <3>2. at[k] \in 1 .. n /\ Around(c, at[k], n + 1) /\ Level(c, at[k], n) = m - k + 1
      BY <3>1 DEF OpenAt
    <3>3. /\ Level(e, at[k], n + 1) = m + 1 - k + 1 /\ Around(e, at[k], n + 2)
          /\ ElsesOf(e, at[k], n + 1) = ElsesOf(c, at[k], n) /\ at[k] \in 1 .. n + 1
          /\ e[at[k]] = c[at[k]]
      BY <1>1, <1>2, <1>4, <2>1, <3>2
    <3>4. new[k] = at[k] /\ ks[k] = kinds[k] /\ n + 1 + 1 = n + 2
      BY <1>1, <1>3, <2>1
    <3> HIDE DEF e, new, ks
    <3>5. /\ new[k] \in 1 .. Len(e) /\ Around(e, new[k], Len(e) + 1)
          /\ Level(e, new[k], Len(e)) = Len(new) - k + 1
          /\ ElsesOf(e, new[k], Len(e)) = ElsesOf(c, at[k], n) /\ e[new[k]] = c[at[k]]
      BY <1>2, <1>3, <3>3, <3>4
    <3> QED BY <3>1, <3>4, <3>5 DEF OpenAt, OneElse
  <2>2. CASE k = m + 1
    <3>1. /\ new[k] = n + 1 /\ ks[k] = i.op /\ n + 1 + 1 = n + 2 /\ n + 1 \in 1 .. n + 1
      BY <1>1, <1>3, <2>2
    <3> HIDE DEF e, new, ks, n, m
    <3>a. Len(e) = n + 1 /\ Len(new) = m + 1 /\ e[n + 1] = i
      BY <1>2, <1>3
    <3>2. /\ new[k] \in 1 .. Len(e) /\ Around(e, new[k], Len(e) + 1)
          /\ Level(e, new[k], Len(e)) = Len(new) - k + 1
          /\ ElsesOf(e, new[k], Len(e)) = {} /\ e[new[k]] = i
      <4>1. new[k] \in 1 .. Len(e)
        BY <3>a, <3>1
      <4>2. Around(e, new[k], Len(e) + 1)
        BY <3>a, <3>1, <1>5
      <4>3. Level(e, new[k], Len(e)) = Len(new) - k + 1
        <5>1. Len(new) - k + 1 = 1
          BY <3>a, <1>1, <2>2
        <5> QED BY <3>a, <3>1, <1>6, <5>1
      <4>4. ElsesOf(e, new[k], Len(e)) = {} /\ e[new[k]] = i
        BY <3>a, <3>1, <1>6
      <4> QED BY <4>1, <4>2, <4>3, <4>4
    <3> QED BY <3>1, <3>2 DEF OpenAt, OneElse
  <2> QED BY <1>1, <2>1, <2>2
<1>9. ASSUME NEW j \in 1 .. m + 1, NEW k \in 1 .. m + 1, j < k PROVE new[j] < new[k]
  <2>1. j \in 1 .. m /\ at[j] \in 1 .. n
    BY <1>1, <1>9 DEF Body, OpenAt
  <2>2. CASE k \in 1 .. m
    BY <1>3, <1>9, <2>1, <2>2 DEF Body
  <2>3. CASE k = m + 1
    BY <1>1, <1>3, <2>1, <2>3
  <2> QED BY <1>1, <2>2, <2>3
<1> HIDE DEF e, r, new, ks, b
<1>10. Body(e, r, new, ks, l)
  <2>1. Len(r) = Len(e) + 1 /\ Len(new) = Len(ks)
    BY <1>1, <1>2, <1>3
  <2> HIDE DEF n, m
  <2> QED BY <1>2, <1>3, <1>7, <1>8, <1>9, <2>1 DEF Body
<1> QED BY <1>10 DEF e, r, new, ks, b

LEMMA NextLevels ==
  ASSUME NEW c \in Seq(Instrs), NEW i \in Instrs, NEW o \in 1 .. Len(c)
  PROVE  LET e == Append(c, i)  n == Len(c)
         IN /\ Level(e, o, n + 1) = Level(c, o, n) + Delta(i) /\ Level(c, o, n) \in Int
            /\ Around(c, o, n + 1) /\ Level(c, o, n) + Delta(i) >= 1 => Around(e, o, n + 2)
            /\ ElsesOf(e, o, n + 1)
                 = ElsesOf(c, o, n) \cup IF i.op = "else" /\ Level(c, o, n) = 1 THEN {n + 1} ELSE {}
<1> DEFINE e == Append(c, i)  n == Len(c)
<1>1. o \in 1 .. n + 1 /\ n + 1 \in Int /\ n \in Int /\ n \in 1 .. n
  OBVIOUS
<1>2. Level(e, o, n + 1) = Level(c, o, n) + Delta(i)
  BY <1>1, LevelAppend
<1>3. Level(c, o, n) \in Int
  BY <1>1, LevelType
<1>4. ElsesOf(e, o, n + 1)
        = ElsesOf(c, o, n) \cup IF i.op = "else" /\ Level(c, o, n) = 1 THEN {n + 1} ELSE {}
  BY <1>1, ElsesAppend
<1>5. Around(c, o, n + 1) /\ Level(c, o, n) + Delta(i) >= 1 => Around(e, o, n + 2)
  BY AroundNext
<1> QED BY <1>2, <1>3, <1>4, <1>5

\* The second arm starts as the first one did.
LEMMA BodyElse ==
  ASSUME NEW c, NEW s, NEW at, NEW kinds, NEW l, Body(c, s, at, kinds, l), NEW g, l \subseteq g,
         NEW i \in Instrs, i.op = "else", Len(at) >= 1, kinds[Len(at)] = "if",
         s[Len(c) + 1].dead \/ s[Len(c) + 1] = s[at[Len(at)]],
         NEW ks, Len(ks) = Len(at), ks[Len(at)] = "else", \A k \in 1 .. Len(at) - 1 : ks[k] = kinds[k]
  PROVE  Body(Append(c, i), Append(s, s[at[Len(at)]]), at, ks, g)
<1> DEFINE m == Len(at)  top == at[m]  n == Len(c)  b == s[top]  e == Append(c, i)  r == Append(s, b)
<1>1. /\ c \in Seq(Instrs) /\ s \in Seq(Points) /\ Len(s) = n + 1 /\ n \in Nat
      /\ at \in Seq(Nat) /\ Len(kinds) = m /\ m \in Nat /\ m \in 1 .. m /\ n + 1 + 1 = n + 2
  BY BodyTypes
<1>2. ASSUME NEW k \in 1 .. m
      PROVE  /\ at[k] \in 1 .. n /\ Around(c, at[k], n + 1) /\ Level(c, at[k], n) = m - k + 1
             /\ c[at[k]].op = (IF kinds[k] = "while" THEN "while" ELSE "if")
             /\ kinds[k] = "if" => ElsesOf(c, at[k], n) = {}
             /\ kinds[k] = "else" => OneElse(c, at[k], n)
  BY DEF Body, OpenAt
<1>3. top \in 1 .. n /\ b \in Points /\ c[top].op = "if"
  <2>1. top \in 1 .. n /\ c[top].op = "if"
    BY <1>1, <1>2
  <2>2. top \in 1 .. Len(s)
    BY <1>1, <2>1
  <2> QED BY <1>1, <2>1, <2>2
<1>4. /\ e \in Seq(Instrs) /\ r \in Seq(Points) /\ Len(e) = n + 1 /\ Len(r) = n + 2
      /\ r[1] = Calm({1}) /\ r[n + 2] = b /\ e[n + 1] = i
      /\ \A k \in 1 .. n : e[k] = c[k] /\ r[k] = s[k]
      /\ r[n + 1] = s[n + 1]
      /\ \A p \in 1 .. n : Step(e, r, g, p) /\ Nested(e, at, p)
      /\ \A k : Around(e, k, n + 1) <=> Around(c, k, n + 1)
  BY <1>3, BodyKept
<1>5. ASSUME NEW k \in 1 .. m
      PROVE  /\ Level(e, at[k], n + 1) = m - k + 1 /\ Around(e, at[k], n + 2)
             /\ k < m => ElsesOf(e, at[k], n + 1) = ElsesOf(c, at[k], n)
             /\ k = m => ElsesOf(e, at[k], n + 1) = {n + 1}
  <2>1. Delta(i) = 0
    BY DEF Delta, Openers
  <2>2. at[k] \in 1 .. n /\ Around(c, at[k], n + 1) /\ Level(c, at[k], n) = m - k + 1
    BY <1>2
  <2>3. /\ Level(e, at[k], n + 1) = Level(c, at[k], n) + Delta(i)
        /\ Around(c, at[k], n + 1) /\ Level(c, at[k], n) + Delta(i) >= 1 => Around(e, at[k], n + 2)
        /\ ElsesOf(e, at[k], n + 1)
             = ElsesOf(c, at[k], n) \cup IF i.op = "else" /\ Level(c, at[k], n) = 1 THEN {n + 1} ELSE {}
    BY <1>1, <2>2, NextLevels
  <2>4. m - k + 1 + 0 = m - k + 1 /\ m - k + 1 >= 1 /\ (k < m => m - k + 1 # 1) /\ (k = m => m - k + 1 = 1)
    BY <1>1
  <2>5. k = m => ElsesOf(c, at[k], n) = {}
    BY <1>2
  <2> HIDE DEF e, n, m
  <2> QED BY <2>1, <2>2, <2>3, <2>4, <2>5
<1> HIDE DEF e, r, b
<1>6. Step(e, r, g, n + 1)
  <2>1. Straight(i, r[n + 1], r[n + 1 + 1], g)
    BY DEF Straight
  <2>2. ASSUME NEW o \in 1 .. (n + 1) - 1, IfOf(e, o, n + 1) PROVE Returns(r, o, n + 1)
    <3>1. Around(c, o, n + 1) /\ Level(e, o, n + 1) = 1
      BY <1>4, <2>2 DEF IfOf
    <3>2. PICK j \in 1 .. m : at[j] = o
      BY <3>1, AroundIsOpen
    <3>3. Level(e, o, n + 1) = m - j + 1
      BY <1>5, <3>2
    <3>4. j = m
      BY <1>1, <3>1, <3>3
    <3>5. o = top /\ r[o] = b
      BY <1>3, <1>4, <3>2, <3>4 DEF b
    <3>6. r[n + 1 + 1] = b /\ r[n + 1] = s[n + 1]
      BY <1>1, <1>4
    <3> HIDE DEF top, n, m
    <3> QED BY <3>5, <3>6 DEF Returns, b, top, n, m
  <2>3. e[n + 1] = i /\ i.op # "end" /\ i.op \notin {"break", "continue"}
    BY <1>4
  <2>4. \A o \in 1 .. (n + 1) - 1 : IfOf(e, o, n + 1) => Returns(r, o, n + 1)
    BY <2>2
  <2> HIDE DEF n
  <2> QED BY <2>1, <2>3, <2>4 DEF Step
<1>7. Nested(e, at, n + 1)
  <2>1. Level(e, top, n + 1) = 1 /\ Around(e, top, n + 1) /\ e[top].op = "if"
    <3>1. Level(e, top, n + 1) = m - m + 1
      BY <1>1, <1>5
    <3>2. Around(c, top, n + 1) /\ m - m + 1 = 1
      BY <1>1, <1>2
    <3> QED BY <1>3, <1>4, <3>1, <3>2
  <2>2. top \in 1 .. (n + 1) - 1
    BY <1>1, <1>3
  <2>3. IfOf(e, top, n + 1)
    BY <2>1 DEF IfOf
  <2>4. e[n + 1] = i /\ i.op # "end" /\ i.op \notin Openers
    BY <1>4 DEF Openers
  <2> HIDE DEF top, n
  <2> QED BY <2>2, <2>3, <2>4 DEF Nested
<1>8. ASSUME NEW p \in 1 .. n + 1 PROVE Step(e, r, g, p) /\ Nested(e, at, p)
  <2>1. p \in 1 .. n \/ p = n + 1
    BY <1>1
  <2> QED BY <1>4, <1>6, <1>7, <2>1
<1>9. ASSUME NEW k \in 1 .. m PROVE OpenAt(e, at, ks, k)
  <2>1. /\ at[k] \in 1 .. Len(e) /\ Around(e, at[k], Len(e) + 1) /\ Level(e, at[k], Len(e)) = Len(at) - k + 1
        /\ e[at[k]] = c[at[k]]
    <3>1. at[k] \in 1 .. n /\ at[k] \in 1 .. n + 1
      BY <1>1, <1>2
    <3> QED BY <1>1, <1>4, <1>5, <3>1
  <2>2. k < m \/ k = m
    BY <1>1
  <2>3. CASE k < m
    <3>a. k \in 1 .. Len(at) - 1
      BY <1>1, <2>3
    <3>1. ks[k] = kinds[k] /\ ElsesOf(e, at[k], Len(e)) = ElsesOf(c, at[k], n)
      BY <1>4, <1>5, <2>3, <3>a
    <3> HIDE DEF m, n
    <3> QED BY <1>2, <2>1, <3>1 DEF OpenAt, OneElse
  <2>4. CASE k = m
    <3>1. ks[k] = "else" /\ ElsesOf(e, at[k], Len(e)) = {n + 1} /\ c[at[k]].op = "if"
      BY <1>3, <1>4, <1>5, <2>4
    <3> HIDE DEF m, n
    <3> QED BY <2>1, <3>1 DEF OpenAt, OneElse
  <2> QED BY <2>2, <2>3, <2>4
<1>10. Body(e, r, at, ks, g)
  <2>1. Len(r) = Len(e) + 1 /\ Len(at) = Len(ks)
    BY <1>1, <1>4
  <2>2. \A j, k \in 1 .. Len(at) : j < k => at[j] < at[k]
    BY DEF Body
  <2>3. at \in Seq(Nat)
    BY <1>1
  <2> HIDE DEF n
  <2> QED BY <1>4, <1>8, <1>9, <2>1, <2>2, <2>3 DEF Body
<1> QED BY <1>10 DEF e, r, b

\* Without the innermost block.
Outer(new, ks, at, kinds) ==
  /\ Len(ks) = Len(new) /\ Len(new) = Len(at) - 1
  /\ \A k \in 1 .. Len(new) : new[k] = at[k] /\ ks[k] = kinds[k]

\* The end of the innermost block: behind it all is as before it.
LEMMA BodyEnd ==
  ASSUME NEW c, NEW s, NEW at, NEW kinds, NEW l, Body(c, s, at, kinds, l), NEW g, l \subseteq g,
         NEW i \in Instrs, i.op = "end", Len(at) >= 1,
         \A k \in 1 .. Len(at) : kinds[k] \in {"if", "else", "while"},
         s[Len(c) + 1].dead \/ s[Len(c) + 1] = s[at[Len(at)]],
         NEW new \in Seq(Nat), NEW ks, Outer(new, ks, at, kinds)
  PROVE  Body(Append(c, i), Append(s, s[at[Len(at)]]), new, ks, g)
<1> USE DEF Outer
<1> DEFINE m == Len(at)  top == at[m]  n == Len(c)  b == s[top]  e == Append(c, i)  r == Append(s, b)
<1>1. /\ c \in Seq(Instrs) /\ s \in Seq(Points) /\ Len(s) = n + 1 /\ n \in Nat
      /\ at \in Seq(Nat) /\ Len(kinds) = m /\ m \in Nat /\ m \in 1 .. m /\ n + 1 + 1 = n + 2
  BY BodyTypes
<1>2. ASSUME NEW k \in 1 .. m
      PROVE  /\ at[k] \in 1 .. n /\ Around(c, at[k], n + 1) /\ Level(c, at[k], n) = m - k + 1
             /\ c[at[k]].op = (IF kinds[k] = "while" THEN "while" ELSE "if")
             /\ kinds[k] = "if" => ElsesOf(c, at[k], n) = {}
             /\ kinds[k] = "else" => OneElse(c, at[k], n)
  BY DEF Body, OpenAt
<1>3. top \in 1 .. n /\ b \in Points
  <2>1. top \in 1 .. n
    BY <1>1, <1>2
  <2>2. top \in 1 .. Len(s)
    BY <1>1, <2>1
  <2> QED BY <1>1, <2>1, <2>2
<1>4. /\ e \in Seq(Instrs) /\ r \in Seq(Points) /\ Len(e) = n + 1 /\ Len(r) = n + 2
      /\ r[1] = Calm({1}) /\ r[n + 2] = b /\ e[n + 1] = i
      /\ \A k \in 1 .. n : e[k] = c[k] /\ r[k] = s[k]
      /\ r[n + 1] = s[n + 1]
      /\ \A p \in 1 .. n : Step(e, r, g, p) /\ Nested(e, at, p)
      /\ \A k : Around(e, k, n + 1) <=> Around(c, k, n + 1)
  BY <1>3, BodyKept
<1>5. ASSUME NEW k \in 1 .. m
      PROVE  /\ Level(e, at[k], n + 1) = m - k
             /\ k < m => Around(e, at[k], n + 2)
             /\ k = m => Closes(e, at[k], n + 1)
             /\ ElsesOf(e, at[k], n + 1) = ElsesOf(c, at[k], n)
  <2>1. Delta(i) = -1
    BY DEF Delta, Openers
  <2>2. at[k] \in 1 .. n /\ Around(c, at[k], n + 1) /\ Level(c, at[k], n) = m - k + 1
    BY <1>2
  <2>3. /\ Level(e, at[k], n + 1) = Level(c, at[k], n) + Delta(i)
        /\ Around(c, at[k], n + 1) /\ Level(c, at[k], n) + Delta(i) >= 1 => Around(e, at[k], n + 2)
        /\ ElsesOf(e, at[k], n + 1)
             = ElsesOf(c, at[k], n) \cup IF i.op = "else" /\ Level(c, at[k], n) = 1 THEN {n + 1} ELSE {}
    BY <1>1, <2>2, NextLevels
  <2>4. Around(c, at[k], n + 1) /\ Level(c, at[k], n) + Delta(i) = 0 => Closes(e, at[k], n + 1)
    BY <1>1, AroundNext
  <2>5. (m - k + 1) + (-1) = m - k /\ (k < m => m - k >= 1) /\ (k = m => m - k = 0)
    BY <1>1
  <2> HIDE DEF e, n, m
  <2> QED BY <2>1, <2>2, <2>3, <2>4, <2>5
<1> HIDE DEF e, r, b
<1>6. Closes(e, top, n + 1)
  BY <1>1, <1>5
<1>7. Step(e, r, g, n + 1)
  <2>1. Straight(i, r[n + 1], r[n + 1 + 1], g)
    BY DEF Straight
  <2>2. ASSUME NEW o \in 1 .. (n + 1) - 1, Closes(e, o, n + 1) PROVE Returns(r, o, n + 1)
    <3>1. o = top
      BY <1>6, <2>2, OneOpener
    <3>2. r[o] = b
      BY <1>3, <1>4, <3>1 DEF b
    <3>3. r[n + 1 + 1] = b /\ r[n + 1] = s[n + 1]
      BY <1>1, <1>4
    <3> HIDE DEF top, n, m
    <3> QED BY <3>2, <3>3 DEF Returns, b, top, n, m
  <2>3. e[n + 1] = i /\ i.op # "else" /\ i.op \notin {"break", "continue"}
    BY <1>4
  <2>4. \A o \in 1 .. (n + 1) - 1 : Closes(e, o, n + 1) => Returns(r, o, n + 1)
    BY <2>2
  <2> HIDE DEF n
  <2> QED BY <2>1, <2>3, <2>4 DEF Step
<1>8. Nested(e, new, n + 1)
  <2>1. top \in 1 .. (n + 1) - 1
    BY <1>1, <1>3
  <2>2. e[n + 1] = i /\ i.op # "else" /\ i.op \notin Openers
    BY <1>4 DEF Openers
  <2> HIDE DEF top, n
  <2> QED BY <1>6, <2>1, <2>2 DEF Nested
<1>9. ASSUME NEW p \in 1 .. n PROVE Nested(e, new, p)
  <2>1. Nested(e, at, p)
    BY <1>4
  <2>2. ASSUME NEW k \in 1 .. m, at[k] = p, k # m PROVE \E j \in 1 .. Len(new) : new[j] = p
    <3>1. k \in 1 .. Len(new)
      BY <1>1, <2>2
    <3> QED BY <2>2, <3>1
  <2>3. ASSUME top = p PROVE Closes(e, p, n + 1) /\ (e[p].op = "if" => OneElse(e, p, n + 1))
    <3>1. ElsesOf(e, p, n + 1) = ElsesOf(c, p, n) /\ e[p] = c[p]
      BY <1>1, <1>4, <1>5, <2>3
    <3>2. e[p].op = "if" => OneElse(c, p, n)
      BY <1>1, <1>2, <2>3, <3>1 DEF OneElse
    <3> QED BY <1>6, <2>3, <3>1, <3>2 DEF OneElse
  <2>4. n + 1 \in 1 .. Len(e)
    BY <1>1, <1>4
  <2>5. ASSUME e[p].op \in Openers
        PROVE  \/ \E k \in 1 .. Len(new) : new[k] = p
               \/ \E f \in 1 .. Len(e) : Closes(e, p, f) /\ (e[p].op = "if" => OneElse(e, p, f))
    <3>1. CASE \E k \in 1 .. Len(at) : at[k] = p
      <4>1. PICK k \in 1 .. m : at[k] = p
        BY <3>1
      <4> QED BY <2>2, <2>3, <2>4, <4>1
    <3>2. CASE \E f \in 1 .. Len(e) : Closes(e, p, f) /\ (e[p].op = "if" => OneElse(e, p, f))
      BY <3>2
    <3> QED BY <2>1, <2>5, <3>1, <3>2 DEF Nested
  <2> QED BY <2>1, <2>5 DEF Nested
<1>10. ASSUME NEW p \in 1 .. n + 1 PROVE Step(e, r, g, p) /\ Nested(e, new, p)
  <2>1. p \in 1 .. n \/ p = n + 1
    BY <1>1
  <2> QED BY <1>4, <1>7, <1>8, <1>9, <2>1
<1>11. ASSUME NEW k \in 1 .. Len(new) PROVE OpenAt(e, new, ks, k)
  <2>1. k \in 1 .. m /\ k < m /\ new[k] = at[k] /\ ks[k] = kinds[k] /\ m - k = Len(new) - k + 1
    <3>1. m \in Nat /\ Len(new) = m - 1 /\ new[k] = at[k] /\ ks[k] = kinds[k]
      BY <1>1
    <3> DEFINE q == Len(new)
    <3>2. q \in Nat /\ k \in 1 .. q /\ q = m - 1
      BY <3>1
    <3> HIDE DEF m, q
    <3>3. k \in 1 .. m /\ k < m /\ m - k = q - k + 1
      BY <3>1, <3>2
    <3> QED BY <3>1, <3>3 DEF q
  <2>2. at[k] \in 1 .. n /\ at[k] \in 1 .. n + 1
    <3>1. at[k] \in 1 .. n
      BY <1>2, <2>1
    <3> QED BY <1>1, <3>1
  <2>3. /\ new[k] \in 1 .. Len(e) /\ Around(e, new[k], Len(e) + 1) /\ Level(e, new[k], Len(e)) = Len(new) - k + 1
        /\ e[new[k]] = c[at[k]] /\ ElsesOf(e, new[k], Len(e)) = ElsesOf(c, at[k], n)
    BY <1>1, <1>4, <1>5, <2>1, <2>2
  <2>4. /\ c[at[k]].op = (IF kinds[k] = "while" THEN "while" ELSE "if")
        /\ kinds[k] = "if" => ElsesOf(c, at[k], n) = {}
        /\ kinds[k] = "else" => OneElse(c, at[k], n)
    BY <1>2, <2>1
  <2> HIDE DEF m, n, e
  <2>5. e[new[k]].op = (IF ks[k] = "while" THEN "while" ELSE "if")
    BY <2>1, <2>3, <2>4
  <2>6. ks[k] = "if" => ElsesOf(e, new[k], Len(e)) = {}
    BY <2>1, <2>3, <2>4
  <2>7. ks[k] = "else" => OneElse(e, new[k], Len(e))
    BY <2>1, <2>3, <2>4 DEF OneElse
  <2> QED BY <2>3, <2>5, <2>6, <2>7 DEF OpenAt
<1>12. Body(e, r, new, ks, g)
  <2>1. Len(r) = Len(e) + 1
    BY <1>1, <1>4
  <2>2. ASSUME NEW j \in 1 .. Len(new), NEW k \in 1 .. Len(new), j < k PROVE new[j] < new[k]
    <3>0. Len(new) = Len(at) - 1 /\ Len(at) \in Nat
      BY <1>1
    <3>1. j \in 1 .. Len(at) /\ k \in 1 .. Len(at)
      BY <3>0
    <3>2. at[j] < at[k]
      BY <2>2, <3>1 DEF Body
    <3>3. new[j] = at[j] /\ new[k] = at[k]
      OBVIOUS
    <3> QED BY <3>2, <3>3
  <2> HIDE DEF n
  <2> QED BY <1>4, <1>10, <1>11, <2>1, <2>2 DEF Body
<1> QED BY <1>12 DEF e, r, b

-----------------------------------------------------------------------------
(* Straight code from one point to another *)

Plain(d) == \A k \in 1 .. Len(d) : d[k].op \notin Openers \cup {"end", "else", "break", "continue"}

Way(d, w, a, b, l) ==
  /\ w \in [0 .. Len(d) -> Points] /\ w[0] = a /\ w[Len(d)] = b
  /\ \A k \in 1 .. Len(d) : Straight(d[k], w[k - 1], w[k], l)

\* Without a branch the code d leads from point a to point b.
Leads(d, a, b, l) == d \in Seq(Instrs) /\ Plain(d) /\ \E w : Way(d, w, a, b, l)

LEMMA LeadsNowhere ==
  ASSUME NEW a \in Points, NEW l
  PROVE  Leads(<<>>, a, a, l)
<1> DEFINE w == [k \in 0 .. 0 |-> a]
<1>1. <<>> \in Seq(Instrs) /\ Len(<<>>) = 0 /\ Plain(<<>>)
  BY DEF Plain
<1>2. Way(<<>>, w, a, a, l)
  BY <1>1 DEF Way
<1> QED BY <1>1, <1>2 DEF Leads

LEMMA LeadsOne ==
  ASSUME NEW i \in Instrs, i.op \notin Openers \cup {"end", "else", "break", "continue"}, NEW a \in Points, NEW b \in Points,
         NEW l, Straight(i, a, b, l)
  PROVE  Leads(<<i>>, a, b, l)
<1> DEFINE w == [k \in 0 .. 1 |-> IF k = 0 THEN a ELSE b]
<1>1. <<i>> \in Seq(Instrs) /\ Len(<<i>>) = 1 /\ <<i>>[1] = i
  OBVIOUS
<1>2. Plain(<<i>>)
  BY <1>1 DEF Plain
<1>3. w \in [0 .. 1 -> Points] /\ w[0] = a /\ w[1] = b
  OBVIOUS
<1> HIDE DEF w
<1>4. ASSUME NEW k \in 1 .. 1 PROVE Straight(<<i>>[k], w[k - 1], w[k], l)
  <2>1. k = 1 /\ k - 1 = 0
    OBVIOUS
  <2> QED BY <1>1, <1>3, <2>1
<1>5. Way(<<i>>, w, a, b, l)
  BY <1>1, <1>3, <1>4 DEF Way
<1> QED BY <1>1, <1>2, <1>5 DEF Leads

LEMMA LeadsOn ==
  ASSUME NEW c, NEW d, NEW x, NEW y, NEW z, NEW l, Leads(c, x, y, l), Leads(d, y, z, l)
  PROVE  Leads(c \o d, x, z, l)
<1> DEFINE m == Len(c)  n == Len(d)  b == c \o d
<1>1. c \in Seq(Instrs) /\ d \in Seq(Instrs) /\ Plain(c) /\ Plain(d)
  BY DEF Leads
<1>2. PICK v : Way(c, v, x, y, l)
  BY DEF Leads
<1>3. PICK w : Way(d, w, y, z, l)
  BY DEF Leads
<1> DEFINE u == [k \in 0 .. m + n |-> IF k <= m THEN v[k] ELSE w[k - m]]
<1>4. /\ b \in Seq(Instrs) /\ Len(b) = m + n /\ m \in Nat /\ n \in Nat
      /\ \A k \in 1 .. m : b[k] = c[k]
      /\ \A k \in 1 .. n : b[m + k] = d[k]
  BY <1>1, Joins
<1>5. ASSUME NEW k \in 1 .. m + n PROVE k \in 1 .. m \/ (k - m \in 1 .. n /\ m + (k - m) = k /\ ~ k <= m)
  BY <1>4
<1>6. Plain(b)
  <2>1. ASSUME NEW k \in 1 .. Len(b) PROVE b[k].op \notin Openers \cup {"end", "else", "break", "continue"}
    <3>1. k \in 1 .. m \/ (k - m \in 1 .. n /\ m + (k - m) = k)
      BY <1>4, <1>5
    <3>2. CASE k \in 1 .. m
      BY <1>1, <1>4, <3>2 DEF Plain
    <3>3. CASE k - m \in 1 .. n /\ m + (k - m) = k
      <4>1. b[k] = d[k - m]
        BY <1>4, <3>3
      <4> QED BY <1>1, <3>3, <4>1 DEF Plain
    <3> QED BY <3>1, <3>2, <3>3
  <2> QED BY <2>1 DEF Plain
<1> HIDE DEF b
<1>7. v \in [0 .. m -> Points] /\ w \in [0 .. n -> Points] /\ v[0] = x /\ v[m] = y /\ w[0] = y /\ w[n] = z
  BY <1>2, <1>3 DEF Way
<1>8. ASSUME NEW k \in 0 .. m + n
      PROVE  u[k] \in Points /\ (k <= m => u[k] = v[k]) /\ (m <= k => u[k] = w[k - m])
  <2>1. CASE k <= m
    <3>1. k \in 0 .. m /\ u[k] = v[k]
      BY <1>4, <2>1
    <3>2. m <= k => k = m /\ k - m = 0
      BY <1>4, <2>1
    <3> QED BY <1>7, <3>1, <3>2
  <2>2. CASE ~ k <= m
    <3>1. k - m \in 0 .. n /\ u[k] = w[k - m]
      BY <1>4, <2>2
    <3> QED BY <1>7, <2>2, <3>1
  <2> QED BY <2>1, <2>2
<1>9. u \in [0 .. m + n -> Points]
  BY <1>8
<1> HIDE DEF u
<1>10. u[0] = x /\ u[m + n] = z
  <2>1. 0 \in 0 .. m + n /\ m + n \in 0 .. m + n /\ 0 <= m /\ m <= m + n /\ (m + n) - m = n
    BY <1>4
  <2> QED BY <1>7, <1>8, <2>1
<1>11. ASSUME NEW k \in 1 .. m + n PROVE Straight(b[k], u[k - 1], u[k], l)
  <2>1. k \in 0 .. m + n /\ k - 1 \in 0 .. m + n
    BY <1>4
  <2>2. CASE k \in 1 .. m
    <3>1. u[k] = v[k] /\ u[k - 1] = v[k - 1] /\ b[k] = c[k]
      BY <1>4, <1>8, <2>1, <2>2
    <3> QED BY <1>2, <2>2, <3>1 DEF Way
  <2>3. CASE k - m \in 1 .. n /\ m + (k - m) = k
    <3>1. m <= k /\ m <= k - 1 /\ (k - 1) - m = (k - m) - 1
      BY <1>4, <2>3
    <3>2. u[k] = w[k - m] /\ u[k - 1] = w[(k - 1) - m]
      BY <1>8, <2>1, <3>1
    <3>3. b[k] = d[k - m]
      BY <1>4, <2>3
    <3>4. Straight(d[k - m], w[(k - m) - 1], w[k - m], l)
      BY <1>3, <2>3 DEF Way
    <3> QED BY <3>1, <3>2, <3>3, <3>4
  <2> QED BY <1>5, <2>2, <2>3
<1>12. Way(b, u, x, z, l)
  BY <1>4, <1>9, <1>10, <1>11 DEF Way
<1> QED BY <1>4, <1>6, <1>12 DEF Leads, b

\* Pieces that lead from each point to the next, joined.
LEMMA LeadsThrough ==
  ASSUME NEW n \in Nat, NEW P, P \in Seq(Seq(Instrs)), Len(P) = n, NEW at, at[0] \in Points, NEW l,
         \A k \in 1 .. n : Leads(P[k], at[k - 1], at[k], l)
  PROVE  Leads(FlattenSeq(P), at[0], at[n], l)
<1>1. CASE n = 0
  <2>1. P = <<>> /\ FlattenSeq(P) = P
    BY <1>1 DEF FlattenSeq
  <2> QED BY <1>1, <2>1, LeadsNowhere
<1>2. CASE n # 0
  <2>1. Len(P) \in Nat /\ Len(P) >= 1
    BY <1>2
  <2>2. PICK f : /\ FlattenSeq(P) = f[Len(P)] /\ f[1] = P[1]
                 /\ \A i \in 2 .. Len(P) : f[i] = f[i - 1] \o P[i]
    BY <2>1, FlattenIs
  <2> DEFINE T == {k \in 1 .. n : ~ Leads(f[k], at[0], at[k], l)}
  <2>3. CASE T = {}
    <3>1. n \in 1 .. n
      BY <1>2
    <3>2. Leads(f[n], at[0], at[n], l)
      BY <2>3, <3>1
    <3> QED BY <2>2, <3>2
  <2>4. CASE T # {}
    <3>1. T \subseteq Nat
      OBVIOUS
    <3> HIDE DEF T
    <3>2. PICK k \in T : \A j \in T : k <= j
      BY <2>4, <3>1, LeastNat
    <3>3. k \in 1 .. n /\ ~ Leads(f[k], at[0], at[k], l)
      BY <3>2 DEF T
    <3>4. CASE k = 1
      <4>1. Leads(P[1], at[1 - 1], at[1], l) /\ 1 - 1 = 0
        BY <3>3, <3>4
      <4> QED BY <2>2, <3>3, <3>4, <4>1
    <3>5. CASE k # 1
      <4>1. k - 1 \in 1 .. n /\ k \in 2 .. Len(P) /\ ~ k <= k - 1
        BY <3>3, <3>5
      <4>2. Leads(f[k - 1], at[0], at[k - 1], l)
        <5>1. k - 1 \notin T
          BY <3>2, <4>1
        <5> QED BY <4>1, <5>1 DEF T
      <4>3. Leads(P[k], at[k - 1], at[k], l)
        BY <3>3
      <4>4. f[k] = f[k - 1] \o P[k]
        BY <2>2, <4>1
      <4>5. Leads(f[k], at[0], at[k], l)
        BY <4>2, <4>3, <4>4, LeadsOn
      <4> QED BY <3>3, <4>5
    <3> QED BY <3>4, <3>5
  <2> QED BY <2>3, <2>4
<1> QED BY <1>1, <1>2

\* Points that go on as far as c does, and on to point b.
Onward(c, d, s, r, b) == r[Len(c \o d) + 1] = b /\ \A k \in 1 .. Len(c) + 1 : r[k] = s[k]

LEMMA BodyLeads ==
  ASSUME NEW c, NEW s, NEW at, NEW kinds, NEW l, Body(c, s, at, kinds, l), NEW g, l \subseteq g,
         NEW d, NEW b, Leads(d, s[Len(c) + 1], b, g)
  PROVE  \E r : Body(c \o d, r, at, kinds, g) /\ Onward(c, d, s, r, b)
<1> DEFINE n == Len(c)  m == Len(d)
<1>1. d \in Seq(Instrs) /\ Plain(d) /\ Flat(d)
  BY DEF Leads, Plain, Flat
<1>2. PICK w : Way(d, w, s[n + 1], b, g)
  BY DEF Leads
<1> DEFINE u == [k \in 1 .. m |-> w[k]]  r == s \o u
<1>3. /\ c \in Seq(Instrs) /\ s \in Seq(Points) /\ Len(s) = n + 1 /\ n \in Nat /\ m \in Nat
  BY <1>1, BodyTypes
<1>4. /\ w \in [0 .. m -> Points] /\ w[0] = s[n + 1] /\ w[m] = b
      /\ \A k \in 1 .. m : Straight(d[k], w[k - 1], w[k], g)
  BY <1>2 DEF Way
<1>5. u \in Seq(Points) /\ Len(u) = m /\ \A k \in 1 .. m : u[k] = w[k]
  <2>1. \A k \in 1 .. m : k \in 0 .. m /\ w[k] \in Points
    BY <1>3, <1>4
  <2>2. u \in [1 .. m -> Points]
    BY <2>1
  <2> QED BY <1>3, <2>2
<1> HIDE DEF u
<1>6. /\ \A k \in 1 .. n + 1 : r[k] = s[k]
      /\ \A k \in 0 .. m : r[n + 1 + k] = w[k]
      /\ \A k \in 1 .. m : (c \o d)[n + k] = d[k]
      /\ Len(c \o d) = n + m
  <2>1. \A k \in 1 .. n + 1 : r[k] = s[k]
    BY <1>3, <1>5, Joins
  <2>2. \A k \in 1 .. m : r[n + 1 + k] = w[k]
    BY <1>3, <1>5, Joins
  <2>3. r[n + 1 + 0] = w[0]
    <3>1. n + 1 + 0 = n + 1 /\ n + 1 \in 1 .. n + 1
      BY <1>3
    <3> QED BY <1>4, <2>1, <3>1
  <2>4. \A k \in 0 .. m : k = 0 \/ k \in 1 .. m
    BY <1>3
  <2>5. (\A k \in 1 .. m : (c \o d)[n + k] = d[k]) /\ Len(c \o d) = n + m
    BY <1>1, <1>3, Joins
  <2> QED BY <2>1, <2>2, <2>3, <2>4, <2>5
<1> HIDE DEF r
<1>7. ASSUME NEW p \in n + 1 .. n + m PROVE Step(c \o d, r, g, p)
  <2>1. p - n \in 1 .. m /\ n + (p - n) = p /\ (p - n) - 1 \in 0 .. m /\ n + 1 + ((p - n) - 1) = p
        /\ p - n \in 0 .. m /\ n + 1 + (p - n) = p + 1
    BY <1>3
  <2>2. r[n + 1 + ((p - n) - 1)] = w[(p - n) - 1] /\ r[n + 1 + (p - n)] = w[p - n] /\ (c \o d)[n + (p - n)] = d[p - n]
    BY <1>6, <2>1
  <2>3. Straight((c \o d)[p], r[p], r[p + 1], g)
    BY <1>4, <2>1, <2>2
  <2>4. (c \o d)[p].op \notin Openers \cup {"end", "else", "break", "continue"}
    BY <1>1, <2>1, <2>2 DEF Plain
  <2> QED BY <2>3, <2>4 DEF Step
<1>8. Body(c \o d, r, at, kinds, g)
  <2>1. \A p \in n + 1 .. n + m : Step(c \o d, s \o u, g, p)
    BY <1>7 DEF r
  <2> QED BY <1>1, <1>5, <2>1, BodyFlat DEF r
<1>9. r[Len(c \o d) + 1] = b
  <2>1. m \in 0 .. m /\ n + 1 + m = Len(c \o d) + 1
    BY <1>3, <1>6
  <2> QED BY <1>4, <1>6, <2>1
<1> QED BY <1>6, <1>8, <1>9 DEF Onward

-----------------------------------------------------------------------------
(* What the lists keep alive *)

\* The variables among the first m entries of a list, those of a list and those
\* of the first i scopes.
Kept(d, m) == {d[k].meant : k \in {h \in 1 .. m : d[h].kind = "var"}}
Owns(scope) == Kept(scope.drops, Len(scope.drops))
Live(stack, i) == UNION {Owns(stack[j]) : j \in 1 .. i}

\* A variable is declared after all that was listed before it, in its scope and
\* in the scopes around it.
Sorted(d) == \A k, h \in 1 .. Len(d) : k < h /\ d[h].kind = "var" => d[k].meant < d[h].meant
Below(c, d) == \A k \in 1 .. Len(c), h \in 1 .. Len(d) : d[h].kind = "var" => c[k].meant < d[h].meant
Ordered(stack, top) ==
  \A i \in 1 .. Len(stack) :
    /\ Sorted(stack[i].drops)
    /\ \A k \in 1 .. Len(stack[i].drops) : stack[i].drops[k].meant \in 1 .. top
    /\ \A j \in 1 .. Len(stack) : i < j => Below(stack[i].drops, stack[j].drops)

\* What was not moved away is listed.
Unmoved(stack, g) ==
  \A i \in 1 .. Len(stack), n \in Names :
    stack[i].vars[n] # NoSlot /\ stack[i].vars[n] \notin g => Lists(stack[i], n)

LEMMA OwnsIs ==
  ASSUME NEW scope \in Scopes, WellListed(scope), NEW x
  PROVE  x \in Owns(scope) <=> \E n \in Names : Lists(scope, n) /\ scope.vars[n] = x
<1>1. scope.drops \in Seq(Entries)
  BY DEF Scopes
<1>2. ASSUME x \in Owns(scope) PROVE \E n \in Names : Lists(scope, n) /\ scope.vars[n] = x
  <2>1. PICK k \in 1 .. Len(scope.drops) : scope.drops[k].kind = "var" /\ scope.drops[k].meant = x
    BY <1>2 DEF Owns, Kept
  <2>2. scope.drops[k].name \in Names
    <3>1. scope.drops[k] \in Entries
      BY <1>1
    <3> QED BY <3>1 DEF Entries
  <2> QED BY <2>1, <2>2 DEF WellListed, Lists, IsVar
<1>3. ASSUME NEW n \in Names, Lists(scope, n), scope.vars[n] = x PROVE x \in Owns(scope)
  <2>1. PICK k \in 1 .. Len(scope.drops) : IsVar(scope.drops[k], n)
    BY <1>3 DEF Lists
  <2>2. scope.drops[k].kind = "var" /\ scope.drops[k].meant = x
    BY <1>3, <2>1 DEF WellListed, IsVar
  <2> QED BY <2>2 DEF Owns, Kept
<1> QED BY <1>2, <1>3

LEMMA EntryTypes ==
  ASSUME DropInv, NEW i \in 1 .. Len(scopes)
  PROVE  /\ scopes[i] \in Scopes /\ scopes[i].drops \in Seq(Entries) /\ WellListed(scopes[i])
         /\ Len(scopes[i].drops) \in Nat
         /\ \A k \in 1 .. Len(scopes[i].drops) :
              /\ scopes[i].drops[k] \in Entries /\ scopes[i].drops[k].name \in Names
              /\ scopes[i].drops[k].meant \in Nat /\ scopes[i].drops[k].kind \in {"var", "defer"}
<1>1. scopes[i] \in Scopes /\ WellListed(scopes[i])
  BY DEF DropInv, ShapeInv, ListInv
<1>2. scopes[i].drops \in Seq(Entries)
  BY <1>1 DEF Scopes
<1>3. ASSUME NEW e \in Entries PROVE e.name \in Names /\ e.meant \in Nat /\ e.kind \in {"var", "defer"}
  BY DEF Entries
<1>4. \A k \in 1 .. Len(scopes[i].drops) : scopes[i].drops[k] \in Entries
  BY <1>2
<1> QED BY <1>1, <1>2, <1>3, <1>4

\* No two entries stand for one variable.
LEMMA EntriesApart ==
  ASSUME DropInv, NEW i \in 1 .. Len(scopes), NEW j \in 1 .. Len(scopes),
         NEW k \in 1 .. Len(scopes[i].drops), NEW h \in 1 .. Len(scopes[j].drops),
         scopes[i].drops[k].kind = "var", scopes[j].drops[h].kind = "var",
         scopes[i].drops[k].meant = scopes[j].drops[h].meant
  PROVE  i = j /\ k = h
<1> DEFINE e == scopes[i].drops[k]  f == scopes[j].drops[h]
<1>1. e.name \in Names /\ f.name \in Names
  BY EntryTypes
<1>2. scopes[i].vars[e.name] = e.meant /\ e.meant # NoSlot /\ scopes[j].vars[f.name] = f.meant
  BY EntryTypes DEF WellListed
<1>3. i = j /\ e.name = f.name
  <2>1. scopes[i].vars[e.name] = scopes[j].vars[f.name] /\ scopes[i].vars[e.name] # NoSlot
    BY <1>2
  <2> HIDE DEF e, f
  <2> QED BY <1>1, <2>1 DEF DropInv, SlotInv
<1>4. IsVar(scopes[i].drops[k], f.name) /\ IsVar(scopes[i].drops[h], f.name) /\ h \in 1 .. Len(scopes[i].drops)
  BY <1>3 DEF IsVar
<1>5. k = h
  BY <1>3, <1>4, EntryTypes DEF WellListed
<1> QED BY <1>3, <1>5

-----------------------------------------------------------------------------
(* Leaving scopes *)

\* The variables whose drop an exit suppresses.
Spared(suppressed) ==
  UNION {{scopes[i].drops[k].meant :
            k \in {h \in 1 .. Len(scopes[i].drops) : scopes[i].drops[h].kind = "var"
                                                      /\ scopes[i].drops[h].name \in suppressed}} :
         i \in 1 .. Len(scopes)}

\* What is alive when the first m entries of scope i are left, of the exit whose
\* result was loaded from slot res.
Leaving(i, m, suppressed, res) ==
  [live |-> Live(scopes, i - 1) \cup Kept(scopes[i].drops, m) \cup Spared(suppressed),
   res |-> res, dead |-> FALSE]

\* With no lapse, defers mean what they meant and a return spares its result only.
Lawful(to, suppressed, res, l) ==
  /\ res = NoSlot \/ \E n \in suppressed \cap Names : FindVar(n) = res /\ res # NoSlot
  /\ l = {} => /\ \A i \in to .. Len(scopes) : \A k \in 1 .. Len(scopes[i].drops) :
                    scopes[i].drops[k].kind = "defer" =>
                      /\ FindVar(scopes[i].drops[k].name) = scopes[i].drops[k].meant
                      /\ scopes[i].drops[k].meant \notin gone
               /\ Spared(suppressed) \subseteq {res}

ListsInv == Ordered(scopes, slots) /\ Unmoved(scopes, gone) /\ slots \in Slots

LEMMA LeavingIsPoint ==
  ASSUME DropInv, ListsInv, NEW i \in 1 .. Len(scopes), NEW m \in 0 .. Len(scopes[i].drops),
         NEW suppressed, NEW res \in Nat
  PROVE  Leaving(i, m, suppressed, res) \in Points
<1>1. \A j \in 1 .. Len(scopes) : \A k \in 1 .. Len(scopes[j].drops) : scopes[j].drops[k].meant \in Slots
  BY OwnershipAssumption DEF ListsInv, Ordered, Slots
<1>2. Spared(suppressed) \subseteq Slots
  BY <1>1 DEF Spared
<1>3. Kept(scopes[i].drops, m) \subseteq Slots
  <2>1. ASSUME NEW k \in 1 .. m PROVE k \in 1 .. Len(scopes[i].drops)
    BY EntryTypes
  <2> QED BY <1>1, <2>1 DEF Kept
<1>4. Live(scopes, i - 1) \subseteq Slots
  <2>1. ASSUME NEW j \in 1 .. i - 1 PROVE j \in 1 .. Len(scopes)
    OBVIOUS
  <2>2. ASSUME NEW j \in 1 .. i - 1 PROVE Owns(scopes[j]) \subseteq Slots
    BY <1>1, <2>1 DEF Owns, Kept
  <2> QED BY <2>2 DEF Live
<1> QED BY <1>2, <1>3, <1>4 DEF Leaving, Points

\* The name of a defer stands for a variable that is listed before it.
LEMMA DeferReadsLive ==
  ASSUME DropInv, ListsInv, NEW i \in 1 .. Len(scopes), NEW m \in 1 .. Len(scopes[i].drops),
         NEW e, e = scopes[i].drops[m], e.kind = "defer", FindVar(e.name) = e.meant, e.meant \notin gone
  PROVE  e.meant \in Live(scopes, i - 1) \cup Kept(scopes[i].drops, m - 1)
<1>1. e.name \in Names /\ e.meant \in 1 .. slots
  BY EntryTypes DEF ListsInv, Ordered
<1> DEFINE j == Max(Declaring(e.name))
<1>2. j \in 1 .. Len(scopes) /\ scopes[j].vars[e.name] = e.meant
  <2>1. FindVar(e.name) # NoSlot
    BY <1>1 DEF NoSlot
  <2> QED BY <1>1, <2>1, NameStandsForSlot
<1> HIDE DEF j
<1>3. Lists(scopes[j], e.name)
  BY <1>1, <1>2 DEF ListsInv, Unmoved, NoSlot
<1>4. PICK k \in 1 .. Len(scopes[j].drops) : IsVar(scopes[j].drops[k], e.name)
  BY <1>3 DEF Lists
<1>5. scopes[j].drops[k].kind = "var" /\ scopes[j].drops[k].meant = e.meant
  <2>1. scopes[j].drops[k].kind = "var" /\ scopes[j].drops[k].name = e.name
    BY <1>4 DEF IsVar
  <2>2. WellListed(scopes[j])
    BY <1>2, EntryTypes
  <2>3. scopes[j].vars[scopes[j].drops[k].name] = scopes[j].drops[k].meant
    BY <2>1, <2>2 DEF WellListed
  <2> QED BY <1>2, <2>1, <2>3
<1>6. CASE j < i
  <2>1. j \in 1 .. i - 1
    BY <1>2, <1>6
  <2>2. e.meant \in Owns(scopes[j])
    BY <1>5 DEF Owns, Kept
  <2> QED BY <2>1, <2>2 DEF Live
<1>7. CASE j = i
  <2>1. k # m
    BY <1>5, <1>7
  <2>2. ~ m < k
    <3>1. m < k => scopes[i].drops[m].meant < scopes[i].drops[k].meant
      BY <1>4, <1>5, <1>7 DEF ListsInv, Ordered, Sorted
    <3> QED BY <1>1, <1>5, <1>7, <3>1
  <2>3. k \in 1 .. m - 1
    BY <1>4, <1>7, <2>1, <2>2, EntryTypes
  <2> QED BY <1>5, <1>7, <2>3 DEF Kept
<1>8. CASE i < j
  <2>1. scopes[i].drops[m].meant < scopes[j].drops[k].meant
    BY <1>2, <1>4, <1>5, <1>8 DEF ListsInv, Ordered, Below
  <2> QED BY <1>1, <1>5, <2>1
<1> QED BY <1>2, <1>6, <1>7, <1>8

LEMMA KeptOne ==
  ASSUME NEW d, NEW m \in Nat \ {0}
  PROVE  Kept(d, m) = Kept(d, m - 1) \cup (IF d[m].kind = "var" THEN {d[m].meant} ELSE {})
<1>1. \A k : k \in 1 .. m <=> k \in 1 .. m - 1 \/ k = m
  OBVIOUS
<1> QED BY <1>1 DEF Kept

LEMMA InstrTypes ==
  ASSUME DropInv, ListsInv
  PROVE  /\ \A n \in Names : FindVar(n) \in 0 .. MaxLength + 1
         /\ \A op \in OpNames, s, t \in 0 .. MaxLength + 1 : Instr(op, s, t) \in Instrs
         /\ NoSlot \in 0 .. MaxLength + 1
<1>1. slots \in 1 .. MaxLength + 1 /\ MaxLength \in Nat
  BY OwnershipAssumption DEF ListsInv, Slots
<1>2. ASSUME NEW n \in Names PROVE FindVar(n) \in 0 .. MaxLength + 1
  <2>1. CASE FindVar(n) = NoSlot
    BY <1>1, <2>1 DEF NoSlot
  <2>2. CASE FindVar(n) # NoSlot
    <3>1. FindVar(n) \in 1 .. slots
      BY <2>2, NameStandsForSlot
    <3> QED BY <1>1, <3>1
  <2> QED BY <2>1, <2>2
<1>3. NoSlot \in 0 .. MaxLength + 1
  BY <1>1 DEF NoSlot
<1> QED BY <1>2, <1>3 DEF Instr, Instrs

LEMMA SparedTwice ==
  ASSUME DropInv, NEW suppressed, NEW i \in 1 .. Len(scopes), NEW m \in 1 .. Len(scopes[i].drops),
         scopes[i].drops[m].kind = "var"
  PROVE  scopes[i].drops[m].meant \in Spared(suppressed) <=> scopes[i].drops[m].name \in suppressed
<1>1. ASSUME scopes[i].drops[m].meant \in Spared(suppressed) PROVE scopes[i].drops[m].name \in suppressed
  <2>1. PICK j \in 1 .. Len(scopes) : \E k \in 1 .. Len(scopes[j].drops) :
          /\ scopes[j].drops[k].kind = "var" /\ scopes[j].drops[k].name \in suppressed
          /\ scopes[j].drops[k].meant = scopes[i].drops[m].meant
    <3> DEFINE Named(j) == {h \in 1 .. Len(scopes[j].drops) :
                              scopes[j].drops[h].kind = "var" /\ scopes[j].drops[h].name \in suppressed}
               Part(j) == {scopes[j].drops[k].meant : k \in Named(j)}
    <3>1. PICK j \in 1 .. Len(scopes) : scopes[i].drops[m].meant \in Part(j)
      <4> HIDE DEF Part
      <4>1. scopes[i].drops[m].meant \in UNION {Part(j) : j \in 1 .. Len(scopes)}
        BY <1>1 DEF Spared, Part
      <4> QED BY <4>1
    <3>2. PICK k \in Named(j) : scopes[i].drops[m].meant = scopes[j].drops[k].meant
      BY <3>1
    <3> QED BY <3>2
  <2>2. PICK k \in 1 .. Len(scopes[j].drops) :
          /\ scopes[j].drops[k].kind = "var" /\ scopes[j].drops[k].name \in suppressed
          /\ scopes[j].drops[k].meant = scopes[i].drops[m].meant
    BY <2>1
  <2>3. i = j /\ m = k
    BY <2>2, EntriesApart
  <2> QED BY <2>2, <2>3
<1>2. scopes[i].drops[m].name \in suppressed => scopes[i].drops[m].meant \in Spared(suppressed)
  BY DEF Spared
<1> QED BY <1>1, <1>2

\* A variable's drop leaves what was listed before it, and the spared.
LEMMA DropLeads ==
  ASSUME DropInv, ListsInv, NEW to \in 1 .. Len(scopes), NEW i \in to .. Len(scopes),
         NEW m \in 1 .. Len(scopes[i].drops), NEW suppressed, NEW res \in Nat, NEW l,
         Lawful(to, suppressed, res, l),
         NEW e, e = scopes[i].drops[m], e.kind = "var", e.name \notin suppressed
  PROVE  LET a == Leaving(i, m, suppressed, res)
         IN /\ e.meant \in a.live /\ e.meant # res
            /\ Leaving(i, m - 1, suppressed, res) = [live |-> a.live \ {e.meant}, res |-> a.res, dead |-> FALSE]
            /\ l = {} => \A v \in a.live \ {res} : v <= e.meant
<1> DEFINE d == scopes[i].drops  a == Leaving(i, m, suppressed, res)
           rest == Live(scopes, i - 1) \cup Kept(d, m - 1) \cup Spared(suppressed)
<1>1. i \in 1 .. Len(scopes) /\ e.name \in Names /\ e.meant \in Nat /\ m \in Nat \ {0} /\ Len(d) \in Nat
  BY EntryTypes
<1>2. a.live = rest \cup {e.meant} /\ a.res = res /\ a.dead = FALSE
  BY <1>1, KeptOne DEF Leaving
<1>3. e.meant \notin Live(scopes, i - 1)
  <2>1. ASSUME NEW j \in 1 .. i - 1, e.meant \in Owns(scopes[j]) PROVE FALSE
    <3>1. j \in 1 .. Len(scopes) /\ i # j
      BY <1>1
    <3>2. PICK k \in 1 .. Len(scopes[j].drops) : scopes[j].drops[k].kind = "var" /\ scopes[j].drops[k].meant = e.meant
      BY <2>1 DEF Owns, Kept
    <3> QED BY <1>1, <3>1, <3>2, EntriesApart
  <2> QED BY <2>1 DEF Live
<1>4. ASSUME NEW k \in 1 .. m - 1, d[k].kind = "var" PROVE d[k].meant # e.meant
  <2>1. k \in 1 .. Len(d) /\ k # m
    BY <1>1
  <2> QED BY <1>1, <1>4, <2>1, EntriesApart
<1>5. e.meant \notin rest
  <2>1. e.meant \notin Spared(suppressed)
    BY <1>1, SparedTwice
  <2> QED BY <1>3, <1>4, <2>1 DEF Kept
<1>6. e.meant # res
  <2>1. e.meant # NoSlot /\ scopes[i].vars[e.name] = e.meant
    BY <1>1, EntryTypes DEF WellListed
  <2>2. CASE res = NoSlot
    BY <2>1, <2>2
  <2>3. CASE \E n \in suppressed \cap Names : FindVar(n) = res /\ res # NoSlot
    <3>1. PICK n \in suppressed \cap Names : FindVar(n) = res /\ res # NoSlot
      BY <2>3
    <3>2. Max(Declaring(n)) \in 1 .. Len(scopes) /\ scopes[Max(Declaring(n))].vars[n] = res
      BY <3>1, NameStandsForSlot
    <3>3. res = e.meant => n = e.name
      BY <1>1, <2>1, <3>1, <3>2 DEF DropInv, SlotInv
    <3> QED BY <3>1, <3>3
  <2> QED BY <2>2, <2>3 DEF Lawful
<1>7. Leaving(i, m - 1, suppressed, res) = [live |-> a.live \ {e.meant}, res |-> a.res, dead |-> FALSE]
  <2>1. a.live \ {e.meant} = rest
    BY <1>2, <1>5
  <2> QED BY <1>2, <2>1 DEF Leaving
<1>8. ASSUME l = {}, NEW v \in a.live \ {res} PROVE v <= e.meant
  <2>1. v \notin Spared(suppressed)
    BY <1>8 DEF Lawful
  <2>2. CASE v = e.meant
    BY <1>1, <2>2
  <2>3. CASE v \in Live(scopes, i - 1)
    <3>1. PICK j \in 1 .. i - 1 : v \in Owns(scopes[j])
      BY <2>3 DEF Live
    <3>2. PICK k \in 1 .. Len(scopes[j].drops) : scopes[j].drops[k].meant = v
      BY <3>1 DEF Owns, Kept
    <3>3. j \in 1 .. Len(scopes) /\ j < i
      BY <1>1
    <3>4. scopes[j].drops[k].meant < scopes[i].drops[m].meant /\ scopes[j].drops[k].meant \in Nat
      BY <1>1, <3>3, EntryTypes DEF ListsInv, Ordered, Below
    <3> QED BY <1>1, <3>2, <3>4
  <2>4. CASE v \in Kept(d, m - 1)
    <3>1. PICK k \in 1 .. m - 1 : d[k].meant = v
      BY <2>4 DEF Kept
    <3>2. k \in 1 .. Len(d) /\ k < m
      BY <1>1
    <3>3. d[k].meant < d[m].meant /\ d[k].meant \in Nat
      BY <1>1, <3>2, EntryTypes DEF ListsInv, Ordered, Sorted
    <3> QED BY <1>1, <3>1, <3>3
  <2> QED BY <1>2, <2>1, <2>2, <2>3, <2>4
<1> QED BY <1>2, <1>6, <1>7, <1>8

LEMMA EntryLeads ==
  ASSUME DropInv, ListsInv, NEW to \in 1 .. Len(scopes), NEW i \in to .. Len(scopes),
         NEW m \in 1 .. Len(scopes[i].drops), NEW suppressed, NEW res \in Nat, NEW l,
         Lawful(to, suppressed, res, l)
  PROVE  Leads(EntryDrop(i, scopes[i].drops[m], suppressed),
               Leaving(i, m, suppressed, res), Leaving(i, m - 1, suppressed, res), l)
<1> DEFINE e == scopes[i].drops[m]  a == Leaving(i, m, suppressed, res)  b == Leaving(i, m - 1, suppressed, res)
<1>1. i \in 1 .. Len(scopes) /\ e.name \in Names /\ e.meant \in Nat /\ m \in Nat \ {0}
      /\ m \in 0 .. Len(scopes[i].drops) /\ m - 1 \in 0 .. Len(scopes[i].drops) /\ e.kind \in {"var", "defer"}
  BY EntryTypes
<1>2. a \in Points /\ b \in Points
  BY <1>1, LeavingIsPoint
<1>3. a.dead = FALSE /\ a.res = res
  BY DEF Leaving
<1>4. Kept(scopes[i].drops, m)
        = Kept(scopes[i].drops, m - 1) \cup (IF e.kind = "var" THEN {e.meant} ELSE {})
  BY <1>1, KeptOne
<1>5. CASE e.kind = "defer"
  <2> DEFINE u == Instr("use", FindVar(e.name), NoSlot)
  <2>1. EntryDrop(i, e, suppressed) = <<u>> /\ a = b
    BY <1>4, <1>5 DEF EntryDrop, Leaving
  <2>2. u \in Instrs /\ u.op = "use" /\ u.s = FindVar(e.name)
    BY <1>1, InstrTypes DEF Instr, OpNames
  <2>3. ASSUME l = {} PROVE u.s \in a.live
    <3>1. FindVar(e.name) = e.meant /\ e.meant \notin gone
      BY <1>5, <2>3 DEF Lawful
    <3>2. e.meant \in Live(scopes, i - 1) \cup Kept(scopes[i].drops, m - 1)
      BY <1>1, <1>5, <3>1, DeferReadsLive
    <3> QED BY <1>4, <2>2, <3>1, <3>2 DEF Leaving
  <2> HIDE DEF u, a, b
  <2>4. Straight(u, a, b, l)
    BY <1>3, <2>1, <2>2, <2>3 DEF Straight
  <2>5. Leads(<<u>>, a, b, l)
    BY <1>2, <2>2, <2>4, LeadsOne DEF Openers
  <2> QED BY <2>1, <2>5 DEF a, b
<1>6. CASE e.kind = "var" /\ e.name \in suppressed
  <2>1. e.meant \in Spared(suppressed)
    BY <1>1, <1>6, SparedTwice
  <2>2. EntryDrop(i, e, suppressed) = <<>> /\ a = b
    BY <1>4, <1>6, <2>1 DEF EntryDrop, Leaving
  <2> QED BY <1>2, <2>2, LeadsNowhere
<1>7. CASE e.kind = "var" /\ e.name \notin suppressed
  <2> DEFINE u == Instr("drop", scopes[i].vars[e.name], NoSlot)
  <2>1. EntryDrop(i, e, suppressed) = <<u>>
    BY <1>7 DEF EntryDrop
  <2>2. u.op = "drop" /\ u.s = e.meant
    BY <1>1, <1>7, EntryTypes DEF Instr, WellListed
  <2>3. u \in Instrs
    <3>1. scopes[i].vars[e.name] \in 0 .. slots
      <4>1. scopes[i].vars[e.name] \in Nat
        <5>1. \A sc \in Scopes : \A n \in Names : sc.vars[n] \in Nat
          BY DEF Scopes
        <5> QED BY <1>1, <5>1, EntryTypes
      <4>2. scopes[i].vars[e.name] <= slots /\ slots \in Nat
        BY <1>1 DEF DropInv, SlotInv, ShapeInv
      <4> QED BY <4>1, <4>2
    <3>2. slots \in 1 .. MaxLength + 1 /\ MaxLength \in Nat
      BY OwnershipAssumption DEF ListsInv, Slots
    <3>3. scopes[i].vars[e.name] \in 0 .. MaxLength + 1
      BY <3>1, <3>2
    <3> QED BY <3>3, InstrTypes DEF OpNames
  <2>4. /\ e.meant \in a.live /\ e.meant # res
        /\ b = [live |-> a.live \ {e.meant}, res |-> a.res, dead |-> FALSE]
        /\ l = {} => \A v \in a.live \ {res} : v <= e.meant
    BY <1>7, DropLeads
  <2> HIDE DEF u, a, b, e
  <2>5. Straight(u, a, b, l)
    BY <1>3, <2>2, <2>4 DEF Straight
  <2>6. Leads(<<u>>, a, b, l)
    BY <1>2, <2>2, <2>3, <2>5, LeadsOne DEF Openers
  <2> QED BY <2>1, <2>6 DEF a, b, e
<1> QED BY <1>1, <1>5, <1>6, <1>7

\* What is alive behind the exits of all scopes inside scope i.
Behind(i, suppressed, res) ==
  [live |-> Live(scopes, i) \cup Spared(suppressed), res |-> res, dead |-> FALSE]

LEMMA LiveStep ==
  ASSUME NEW stack, NEW i \in Nat \ {0}
  PROVE  Live(stack, i) = Live(stack, i - 1) \cup Owns(stack[i])
<1>1. \A j : j \in 1 .. i <=> j \in 1 .. i - 1 \/ j = i
  OBVIOUS
<1> QED BY <1>1 DEF Live

LEMMA ScopeLeads ==
  ASSUME DropInv, ListsInv, NEW to \in 1 .. Len(scopes), NEW i \in to .. Len(scopes),
         NEW suppressed, NEW res \in Nat, NEW l, Lawful(to, suppressed, res, l)
  PROVE  Leads(ScopeDrops(i, suppressed), Behind(i, suppressed, res), Behind(i - 1, suppressed, res), l)
<1> DEFINE d == scopes[i].drops  n == Len(d)  due == Reverse(d)
           P == [k \in 1 .. n |-> EntryDrop(i, due[k], suppressed)]
           at == [k \in 0 .. n |-> Leaving(i, n - k, suppressed, res)]
<1>1. i \in 1 .. Len(scopes) /\ n \in Nat /\ i \in Nat \ {0}
  BY EntryTypes
<1>2. Len(due) = n /\ \A k \in 1 .. n : due[k] = d[(n - k) + 1]
  <2>1. due = [k \in 1 .. n |-> d[(n - k) + 1]]
    BY DEF Reverse
  <2> HIDE DEF due, n, d
  <2> QED BY <1>1, <2>1
<1>3. ScopeDrops(i, suppressed) = FlattenSeq(P)
  BY <1>2 DEF ScopeDrops
<1> HIDE DEF due
<1>4. ASSUME NEW k \in 1 .. n PROVE Leads(P[k], at[k - 1], at[k], l)
  <2>1. /\ (n - k) + 1 \in 1 .. n /\ n - (k - 1) = (n - k) + 1 /\ ((n - k) + 1) - 1 = n - k
        /\ k \in 0 .. n /\ k - 1 \in 0 .. n
    BY <1>1
  <2>2. Leads(EntryDrop(i, d[(n - k) + 1], suppressed), Leaving(i, (n - k) + 1, suppressed, res),
              Leaving(i, ((n - k) + 1) - 1, suppressed, res), l)
    BY <2>1, EntryLeads
  <2>3. /\ P[k] = EntryDrop(i, d[(n - k) + 1], suppressed)
        /\ at[k - 1] = Leaving(i, (n - k) + 1, suppressed, res)
        /\ at[k] = Leaving(i, ((n - k) + 1) - 1, suppressed, res)
    BY <1>2, <2>1
  <2> QED BY <2>2, <2>3
<1>5. at[0] \in Points /\ at[0] = Leaving(i, n, suppressed, res) /\ at[n] = Leaving(i, 0, suppressed, res)
  <2>1. 0 \in 0 .. n /\ n \in 0 .. n /\ n - 0 = n /\ n - n = 0
    BY <1>1
  <2>2. Leaving(i, n, suppressed, res) \in Points
    BY <1>1, <2>1, LeavingIsPoint
  <2> QED BY <2>1, <2>2
<1> HIDE DEF at
<1>6. P \in Seq(Seq(Instrs)) /\ Len(P) = n
  <2>1. \A k \in 1 .. n : P[k] \in Seq(Instrs)
    BY <1>4 DEF Leads
  <2>2. P \in [1 .. n -> Seq(Instrs)]
    BY <2>1
  <2> QED BY <1>1, <2>2
<1> HIDE DEF P
<1>7. Leads(FlattenSeq(P), at[0], at[n], l)
  BY <1>1, <1>4, <1>5, <1>6, LeadsThrough
<1>8. Leaving(i, n, suppressed, res) = Behind(i, suppressed, res)
  BY <1>1, LiveStep DEF Leaving, Behind, Owns
<1>9. Leaving(i, 0, suppressed, res) = Behind(i - 1, suppressed, res)
  <2>1. Kept(d, 0) = {}
    BY DEF Kept
  <2> QED BY <2>1 DEF Leaving, Behind
<1> QED BY <1>3, <1>5, <1>7, <1>8, <1>9

LEMMA UnwindLeads ==
  ASSUME DropInv, ListsInv, NEW to \in 1 .. Len(scopes),
         NEW suppressed, NEW res \in Nat, NEW l, Lawful(to, suppressed, res, l)
  PROVE  Leads(Unwind(to, suppressed), Behind(Len(scopes), suppressed, res), Behind(to - 1, suppressed, res), l)
<1> DEFINE L == Len(scopes)  n == (L - to) + 1
           P == [k \in 1 .. n |-> ScopeDrops(L - k + 1, suppressed)]
           at == [k \in 0 .. n |-> Behind(L - k, suppressed, res)]
<1>1. L \in Nat /\ n \in Nat
  BY DEF DropInv, ShapeInv
<1>2. Unwind(to, suppressed) = FlattenSeq(P)
  BY DEF Unwind
<1>3. ASSUME NEW k \in 1 .. n PROVE Leads(P[k], at[k - 1], at[k], l)
  <2>1. L - k + 1 \in to .. L /\ L - (k - 1) = L - k + 1 /\ (L - k + 1) - 1 = L - k /\ k \in 0 .. n /\ k - 1 \in 0 .. n
    BY <1>1
  <2>2. Leads(ScopeDrops(L - k + 1, suppressed), Behind(L - k + 1, suppressed, res),
              Behind((L - k + 1) - 1, suppressed, res), l)
    BY <2>1, ScopeLeads
  <2>3. /\ P[k] = ScopeDrops(L - k + 1, suppressed)
        /\ at[k - 1] = Behind(L - k + 1, suppressed, res)
        /\ at[k] = Behind((L - k + 1) - 1, suppressed, res)
    BY <2>1
  <2> QED BY <2>2, <2>3
<1>4. at[0] = Behind(L, suppressed, res) /\ at[n] = Behind(to - 1, suppressed, res)
  <2>1. 0 \in 0 .. n /\ n \in 0 .. n /\ L - 0 = L /\ L - n = to - 1
    BY <1>1
  <2> QED BY <2>1
<1>5. at[0] \in Points
  <2>1. L \in 1 .. L /\ L \in Nat \ {0} /\ Len(scopes[L].drops) \in 0 .. Len(scopes[L].drops)
    BY <1>1, EntryTypes
  <2>2. Leaving(L, Len(scopes[L].drops), suppressed, res) \in Points
    BY <2>1, LeavingIsPoint
  <2>3. Leaving(L, Len(scopes[L].drops), suppressed, res) = Behind(L, suppressed, res)
    BY <2>1, LiveStep DEF Leaving, Behind, Owns
  <2> QED BY <1>4, <2>2, <2>3
<1> HIDE DEF at
<1>6. P \in Seq(Seq(Instrs)) /\ Len(P) = n
  <2>1. \A k \in 1 .. n : P[k] \in Seq(Instrs)
    BY <1>3 DEF Leads
  <2>2. P \in [1 .. n -> Seq(Instrs)]
    BY <2>1
  <2> HIDE DEF P, n
  <2> QED BY <1>1, <2>2
<1> HIDE DEF P
<1>7. Leads(FlattenSeq(P), at[0], at[n], l)
  BY <1>1, <1>3, <1>5, <1>6, LeadsThrough
<1> QED BY <1>2, <1>4, <1>7

\* What an exit is free of, with none of the lapses it may add.
LEMMA ExitIsLawful ==
  ASSUME DropInv, NEW to \in 1 .. Len(scopes), NEW suppressed
  PROVE  /\ Exit(to, suppressed) = {} =>
              \A i \in to .. Len(scopes) : \A k \in 1 .. Len(scopes[i].drops) :
                scopes[i].drops[k].kind = "defer" =>
                  /\ FindVar(scopes[i].drops[k].name) = scopes[i].drops[k].meant
                  /\ scopes[i].drops[k].meant \notin gone
         /\ \A n : "shadow" \notin Exit(1, {n}) => Spared({n}) \subseteq {FindVar(n)}
<1>1. ASSUME NEW from \in 1 .. Len(scopes), NEW i \in from .. Len(scopes), NEW k \in 1 .. Len(scopes[i].drops)
      PROVE  scopes[i].drops[k] \in Left(from)
  <2>1. i \in 1 .. Len(scopes)
    OBVIOUS
  <2>2. DOMAIN scopes[i].drops = 1 .. Len(scopes[i].drops)
    BY <2>1, EntryTypes
  <2> QED BY <2>2 DEF Left, ToSet
<1>2. ASSUME Exit(to, suppressed) = {}, NEW i \in to .. Len(scopes), NEW k \in 1 .. Len(scopes[i].drops),
             scopes[i].drops[k].kind = "defer"
      PROVE  /\ FindVar(scopes[i].drops[k].name) = scopes[i].drops[k].meant
             /\ scopes[i].drops[k].meant \notin gone
  <2> DEFINE e == scopes[i].drops[k]  defers == {d \in Left(to) : d.kind = "defer"}
  <2>1. e \in defers
    BY <1>1, <1>2
  <2>2. /\ {"deferred" : d \in {x \in defers : FindVar(x.name) \in gone}} \subseteq Exit(to, suppressed)
        /\ {"shadow" : d \in {x \in defers : FindVar(x.name) # x.meant}} \subseteq Exit(to, suppressed)
    BY DEF Exit
  <2> HIDE DEF e, defers
  <2>3. FindVar(e.name) = e.meant /\ e.meant \notin gone
    BY <1>2, <2>1, <2>2
  <2> QED BY <2>3 DEF e
<1>3. ASSUME NEW n, "shadow" \notin Exit(1, {n}), NEW x \in Spared({n}) PROVE x = FindVar(n)
  <2>1. PICK i \in 1 .. Len(scopes) : \E k \in 1 .. Len(scopes[i].drops) :
          scopes[i].drops[k].kind = "var" /\ scopes[i].drops[k].name = n /\ scopes[i].drops[k].meant = x
    BY DEF Spared
  <2>2. PICK k \in 1 .. Len(scopes[i].drops) :
          scopes[i].drops[k].kind = "var" /\ scopes[i].drops[k].name = n /\ scopes[i].drops[k].meant = x
    BY <2>1
  <2> DEFINE e == scopes[i].drops[k]
  <2>3. e \in Left(1)
    <3>1. 1 \in 1 .. Len(scopes)
      OBVIOUS
    <3> QED BY <1>1, <3>1
  <2>4. {"shadow" : d \in {y \in Left(1) : y.kind = "var" /\ y.name \in {n} /\ y.meant # FindVar(n)}} \subseteq Exit(1, {n})
    <3>1. \A y : y.name \in {n} => y.name = n
      OBVIOUS
    <3>2. {y \in Left(1) : y.kind = "var" /\ y.name \in {n} /\ y.meant # FindVar(n)}
            = {y \in Left(1) : y.kind = "var" /\ y.name \in {n} /\ y.meant # FindVar(y.name)}
      BY <3>1
    <3> QED BY <3>2 DEF Exit
  <2> HIDE DEF e
  <2>5. e.kind = "var" /\ e.name = n /\ e.meant = x
    BY <2>2 DEF e
  <2> QED BY <1>3, <2>3, <2>4, <2>5
<1> QED BY <1>2, <1>3

LEMMA NothingSpared == Spared({}) = {}
BY DEF Spared

LEMMA BehindIsCalm ==
  ASSUME NEW i
  PROVE  Behind(i, {}, NoSlot) = Calm(Live(scopes, i))
BY NothingSpared DEF Behind, Calm, NoSlot

\* The end of a block, of a turn and of the function.
LEMMA PopLeads ==
  ASSUME DropInv, ListsInv, NEW l, l = {} => Exit(Len(scopes), {}) = {}
  PROVE  Leads(ScopeDrops(Len(scopes), {}), Calm(Live(scopes, Len(scopes))), Calm(Live(scopes, Len(scopes) - 1)), l)
<1> DEFINE L == Len(scopes)
<1>1. L \in 1 .. L /\ L \in L .. L /\ NoSlot \in Nat
  BY DEF DropInv, ShapeInv, NoSlot
<1>2. Lawful(L, {}, NoSlot, l)
  BY <1>1, ExitIsLawful, NothingSpared DEF Lawful
<1>3. Leads(ScopeDrops(L, {}), Behind(L, {}, NoSlot), Behind(L - 1, {}, NoSlot), l)
  BY <1>1, <1>2, ScopeLeads
<1> QED BY <1>3, BehindIsCalm

LEMMA LeaveLeads ==
  ASSUME DropInv, ListsInv, NEW to \in 1 .. Len(scopes), NEW l, l = {} => Exit(to, {}) = {}
  PROVE  Leads(Unwind(to, {}), Calm(Live(scopes, Len(scopes))), Calm(Live(scopes, to - 1)), l)
<1>1. NoSlot \in Nat
  BY DEF NoSlot
<1>2. Lawful(to, {}, NoSlot, l)
  BY ExitIsLawful, NothingSpared DEF Lawful
<1>3. Leads(Unwind(to, {}), Behind(Len(scopes), {}, NoSlot), Behind(to - 1, {}, NoSlot), l)
  BY <1>1, <1>2, UnwindLeads
<1> QED BY <1>3, BehindIsCalm

LEMMA ReturnLeads ==
  ASSUME DropInv, ListsInv, NEW n \in Names, FindVar(n) # NoSlot, NEW l, l = {} => Exit(1, {n}) = {}
  PROVE  LET a == [live |-> Live(scopes, Len(scopes)), res |-> FindVar(n), dead |-> FALSE]
             b == Behind(0, {n}, FindVar(n))
         IN /\ a \in Points /\ Leads(Unwind(1, {n}), a, b, l)
            /\ b.res = FindVar(n) /\ b.dead = FALSE
            /\ "shadow" \notin Exit(1, {n}) => b.live \subseteq {FindVar(n)}
<1> DEFINE L == Len(scopes)  x == FindVar(n)
<1>1. L \in 1 .. L /\ 1 \in 1 .. L /\ L \in Nat \ {0} /\ x \in Nat
  <2>1. x \in 1 .. slots /\ slots \in Nat
    BY NameStandsForSlot DEF DropInv, ShapeInv
  <2> QED BY <2>1 DEF DropInv, ShapeInv
<1>2. /\ Exit(1, {n}) = {} =>
           \A i \in 1 .. Len(scopes) : \A k \in 1 .. Len(scopes[i].drops) :
             scopes[i].drops[k].kind = "defer" =>
               /\ FindVar(scopes[i].drops[k].name) = scopes[i].drops[k].meant
               /\ scopes[i].drops[k].meant \notin gone
      /\ "shadow" \notin Exit(1, {n}) => Spared({n}) \subseteq {FindVar(n)}
  BY <1>1, ExitIsLawful
<1>3. Lawful(1, {n}, x, l)
  BY <1>2 DEF Lawful
<1>4. Leads(Unwind(1, {n}), Behind(L, {n}, x), Behind(1 - 1, {n}, x), l)
  BY <1>1, <1>3, UnwindLeads
<1>5. Spared({n}) \subseteq Live(scopes, L)
  <2>1. ASSUME NEW i \in 1 .. L, NEW k \in 1 .. Len(scopes[i].drops), scopes[i].drops[k].kind = "var"
        PROVE  scopes[i].drops[k].meant \in Live(scopes, L)
    <3>1. scopes[i].drops[k].meant \in Owns(scopes[i])
      BY <2>1 DEF Owns, Kept
    <3> QED BY <3>1 DEF Live
  <2> QED BY <2>1 DEF Spared
<1>6. Behind(L, {n}, x) = [live |-> Live(scopes, L), res |-> x, dead |-> FALSE]
  BY <1>5 DEF Behind
<1>7. Behind(L, {n}, x) \in Points
  <2>1. Leaving(L, Len(scopes[L].drops), {n}, x) \in Points
    <3>1. Len(scopes[L].drops) \in 0 .. Len(scopes[L].drops)
      BY <1>1, EntryTypes
    <3> QED BY <1>1, <3>1, LeavingIsPoint
  <2>2. Leaving(L, Len(scopes[L].drops), {n}, x) = Behind(L, {n}, x)
    BY <1>1, LiveStep DEF Leaving, Behind, Owns
  <2> QED BY <2>1, <2>2
<1>8. Behind(0, {n}, x).live = Spared({n}) /\ Behind(0, {n}, x).res = x /\ Behind(0, {n}, x).dead = FALSE
  BY DEF Behind, Live
<1>9. 1 - 1 = 0
  OBVIOUS
<1> HIDE DEF x, L
<1> QED BY <1>2, <1>4, <1>6, <1>7, <1>8, <1>9 DEF x, L

-----------------------------------------------------------------------------
(* What the statements do to the lists *)

\* The list d is c without some of its entries.
Thinned(c, d) ==
  \E f \in [1 .. Len(d) -> 1 .. Len(c)] :
    /\ \A j \in 1 .. Len(d) : d[j] = c[f[j]]
    /\ \A j, h \in 1 .. Len(d) : j < h => f[j] < f[h]

LEMMA WithoutThins ==
  ASSUME NEW drops \in Seq(Entries), NEW n, NEW k \in 1 .. Len(drops), IsVar(drops[k], n),
         \A j \in 1 .. Len(drops) : IsVar(drops[j], n) => j = k
  PROVE  Thinned(drops, Without(drops, n))
<1> DEFINE less == Without(drops, n)  len == Len(drops)
           f == [j \in 1 .. len - 1 |-> IF j < k THEN j ELSE j + 1]
<1>1. len \in Nat /\ Len(less) = len - 1 /\ \A j \in 1 .. len - 1 : less[j] = IF j < k THEN drops[j] ELSE drops[j + 1]
  BY WithoutOne
<1> HIDE DEF less
<1>2. ASSUME NEW j \in 1 .. len - 1 PROVE f[j] \in 1 .. len /\ f[j] = IF j < k THEN j ELSE j + 1
  BY <1>1
<1>3. f \in [1 .. len - 1 -> 1 .. len]
  BY <1>2
<1>4. ASSUME NEW j \in 1 .. len - 1, NEW h \in 1 .. len - 1, j < h PROVE f[j] < f[h]
  BY <1>1, <1>2, <1>4
<1> HIDE DEF f
<1>5. Thinned(drops, less)
  <2>1. \A j \in 1 .. len - 1 : less[j] = drops[f[j]]
    BY <1>1, <1>2
  <2>2. Len(less) = len - 1
    BY <1>1
  <2>3. /\ f \in [1 .. Len(less) -> 1 .. len] /\ \A j \in 1 .. Len(less) : less[j] = drops[f[j]]
        /\ \A j, h \in 1 .. Len(less) : j < h => f[j] < f[h]
    BY <1>3, <1>4, <2>1, <2>2
  <2> QED BY <2>3 DEF Thinned
<1> QED BY <1>5 DEF less

LEMMA OrderedThinned ==
  ASSUME NEW stack, NEW top, Ordered(stack, top), NEW new, Len(new) = Len(stack),
         \A i \in 1 .. Len(stack) : Thinned(stack[i].drops, new[i].drops)
  PROVE  Ordered(new, top)
<1>1. ASSUME NEW i \in 1 .. Len(new), NEW j \in 1 .. Len(new), i < j
      PROVE  Below(new[i].drops, new[j].drops)
  <2> DEFINE c == stack[i].drops  d == stack[j].drops  x == new[i].drops  y == new[j].drops
  <2>1. Below(c, d)
    BY <1>1 DEF Ordered
  <2>2. PICK f \in [1 .. Len(x) -> 1 .. Len(c)] : \A k \in 1 .. Len(x) : x[k] = c[f[k]]
    BY DEF Thinned
  <2>3. PICK g \in [1 .. Len(y) -> 1 .. Len(d)] : \A k \in 1 .. Len(y) : y[k] = d[g[k]]
    BY DEF Thinned
  <2>4. ASSUME NEW k \in 1 .. Len(x), NEW h \in 1 .. Len(y), y[h].kind = "var" PROVE x[k].meant < y[h].meant
    <3>1. f[k] \in 1 .. Len(c) /\ g[h] \in 1 .. Len(d) /\ x[k] = c[f[k]] /\ y[h] = d[g[h]]
      BY <2>2, <2>3
    <3> HIDE DEF x, y, c, d
    <3> QED BY <2>1, <2>4, <3>1 DEF Below
  <2> QED BY <2>4 DEF Below
<1>2. ASSUME NEW i \in 1 .. Len(new)
      PROVE  Sorted(new[i].drops) /\ \A k \in 1 .. Len(new[i].drops) : new[i].drops[k].meant \in 1 .. top
  <2> DEFINE c == stack[i].drops  x == new[i].drops
  <2>1. Sorted(c) /\ \A k \in 1 .. Len(c) : c[k].meant \in 1 .. top
    BY DEF Ordered
  <2>2. PICK f \in [1 .. Len(x) -> 1 .. Len(c)] :
          /\ \A k \in 1 .. Len(x) : x[k] = c[f[k]]
          /\ \A k, h \in 1 .. Len(x) : k < h => f[k] < f[h]
    BY DEF Thinned
  <2>3. ASSUME NEW k \in 1 .. Len(x) PROVE f[k] \in 1 .. Len(c) /\ x[k] = c[f[k]]
    BY <2>2
  <2> HIDE DEF x, c
  <2>4. ASSUME NEW k \in 1 .. Len(x), NEW h \in 1 .. Len(x), k < h, x[h].kind = "var" PROVE x[k].meant < x[h].meant
    BY <2>1, <2>2, <2>3, <2>4 DEF Sorted
  <2> QED BY <2>1, <2>3, <2>4 DEF Sorted, x
<1> QED BY <1>1, <1>2 DEF Ordered

LEMMA ThinnedSame ==
  ASSUME NEW c, Len(c) \in Nat
  PROVE  Thinned(c, c)
<1> DEFINE f == [j \in 1 .. Len(c) |-> j]
<1>1. f \in [1 .. Len(c) -> 1 .. Len(c)] /\ \A j \in 1 .. Len(c) : f[j] = j
  OBVIOUS
<1> QED BY <1>1 DEF Thinned

\* The innermost list has one entry more.
Grown(stack, new, L, e) ==
  /\ Len(stack) = L /\ Len(new) = L /\ \A i \in 1 .. L : i # L => new[i] = stack[i]
  /\ new[L].drops = Append(stack[L].drops, e)

LEMMA OrderedAppend ==
  ASSUME NEW stack \in Seq(Scopes), NEW new \in Seq(Scopes), NEW L \in Nat \ {0},
         NEW e \in Entries, Grown(stack, new, L, e), NEW low \in Nat, NEW top \in Nat, low <= top, Ordered(stack, low), e.meant \in 1 .. top,
         e.kind = "var" => low < e.meant
  PROVE  /\ Ordered(new, top)
         /\ Owns(new[L]) = Owns(stack[L]) \cup (IF e.kind = "var" THEN {e.meant} ELSE {})
<1> USE DEF Grown
<1> DEFINE d == stack[L].drops  n == Len(d)  x == new[L].drops
<1>1. L \in 1 .. L /\ \A i \in 1 .. L : stack[i] \in Scopes /\ stack[i].drops \in Seq(Entries)
  <2>1. \A sc \in Scopes : sc.drops \in Seq(Entries)
    BY DEF Scopes
  <2> QED BY <2>1
<1>2. /\ n \in Nat /\ Len(x) = n + 1 /\ x[n + 1] = e
      /\ \A k \in 1 .. n : x[k] = d[k] /\ k \in 1 .. n + 1
      /\ \A k \in 1 .. n + 1 : k \in 1 .. n \/ k = n + 1
  BY <1>1
<1>3. ASSUME NEW i \in 1 .. L
      PROVE  /\ Sorted(stack[i].drops)
             /\ \A k \in 1 .. Len(stack[i].drops) : stack[i].drops[k].meant \in 1 .. low
             /\ \A j \in 1 .. L : i < j => Below(stack[i].drops, stack[j].drops)
  BY DEF Ordered
<1>4. d = stack[L].drops
  OBVIOUS
<1> HIDE DEF x, d, n
<1>5. Sorted(x) /\ \A k \in 1 .. Len(x) : x[k].meant \in 1 .. top
  <2>1. Sorted(d) /\ \A k \in 1 .. n : d[k].meant \in 1 .. low
    BY <1>1, <1>3 DEF n, d
  <2>2. ASSUME NEW k \in 1 .. n + 1, NEW h \in 1 .. n + 1, k < h, x[h].kind = "var" PROVE x[k].meant < x[h].meant
    <3>1. k \in 1 .. n
      BY <1>2, <2>2
    <3>2. CASE h \in 1 .. n
      BY <1>2, <2>1, <2>2, <3>1, <3>2 DEF Sorted, n
    <3>3. CASE h = n + 1
      BY <1>2, <2>1, <2>2, <3>1, <3>3
    <3> QED BY <1>2, <3>2, <3>3
  <2>3. ASSUME NEW k \in 1 .. n + 1 PROVE x[k].meant \in 1 .. top
    BY <1>2, <2>1
  <2> QED BY <1>2, <2>2, <2>3 DEF Sorted
<1>6. ASSUME NEW i \in 1 .. L, i < L PROVE Below(stack[i].drops, x)
  <2>1. Below(stack[i].drops, d)
    BY <1>1, <1>3, <1>6 DEF d
  <2>2. ASSUME NEW k \in 1 .. Len(stack[i].drops), NEW h \in 1 .. n + 1, x[h].kind = "var"
        PROVE  stack[i].drops[k].meant < x[h].meant
    <3>1. CASE h \in 1 .. n
      BY <1>2, <2>1, <2>2, <3>1 DEF Below, n
    <3>2. CASE h = n + 1
      <4>1. x[h] = e /\ low < e.meant
        BY <1>2, <2>2, <3>2
      <4>2. stack[i].drops[k].meant \in 1 .. low
        BY <1>3, <2>2
      <4>3. e.meant \in 1 .. top
        OBVIOUS
      <4> QED BY <4>1, <4>2, <4>3
    <3> QED BY <1>2, <3>1, <3>2
  <2> QED BY <1>2, <2>2 DEF Below
<1>7. ASSUME NEW i \in 1 .. L
      PROVE  /\ Sorted(new[i].drops) /\ \A k \in 1 .. Len(new[i].drops) : new[i].drops[k].meant \in 1 .. top
             /\ \A j \in 1 .. L : i < j => Below(new[i].drops, new[j].drops)
  <2>1. CASE i = L
    <3>1. new[i].drops = x /\ \A j \in 1 .. L : ~ i < j
      BY <2>1 DEF x
    <3> QED BY <1>5, <3>1
  <2>2. CASE i # L
    <3>1. new[i] = stack[i] /\ i < L
      BY <2>2
    <3>2. \A k \in 1 .. Len(stack[i].drops) : stack[i].drops[k].meant \in 1 .. top
      BY <1>3
    <3>3. ASSUME NEW j \in 1 .. L, i < j PROVE Below(new[i].drops, new[j].drops)
      <4>1. CASE j = L
        BY <1>6, <3>1, <4>1 DEF x
      <4>2. CASE j # L
        BY <1>3, <3>1, <3>3, <4>2
      <4> QED BY <4>1, <4>2
    <3> QED BY <1>3, <3>1, <3>2, <3>3
  <2> QED BY <2>1, <2>2
<1>8. Ordered(new, top)
  BY <1>7 DEF Ordered
<1>9. Owns(new[L]) = Kept(x, n + 1) /\ Owns(stack[L]) = Kept(d, n)
  BY <1>2 DEF Owns, x, d, n
<1>10. Kept(x, n + 1) = Kept(x, n) \cup (IF e.kind = "var" THEN {e.meant} ELSE {})
  <2>1. n + 1 \in Nat \ {0} /\ (n + 1) - 1 = n
    BY <1>2
  <2> QED BY <1>2, <2>1, KeptOne
<1>11. Kept(x, n) = Kept(d, n)
  BY <1>2 DEF Kept
<1> QED BY <1>8, <1>9, <1>10, <1>11

\* Scopes are opened empty; those below stay.
LEMMA OrderedBlock ==
  ASSUME NEW stack, NEW top, NEW g, Ordered(stack, top), Unmoved(stack, g), NEW new,
         \A i \in 1 .. Len(new) : (i \in 1 .. Len(stack) /\ new[i] = stack[i]) \/ new[i] = EmptyScope
  PROVE  Ordered(new, top) /\ Unmoved(new, g)
<1>1. Len(EmptyScope.drops) = 0 /\ \A n \in Names : EmptyScope.vars[n] = NoSlot
  BY DEF EmptyScope
<1>2. Sorted(EmptyScope.drops) /\ \A d : Below(EmptyScope.drops, d) /\ Below(d, EmptyScope.drops)
  BY <1>1 DEF Sorted, Below
<1>3. ASSUME NEW i \in 1 .. Len(new)
      PROVE  /\ Sorted(new[i].drops) /\ \A k \in 1 .. Len(new[i].drops) : new[i].drops[k].meant \in 1 .. top
             /\ \A j \in 1 .. Len(new) : i < j => Below(new[i].drops, new[j].drops)
  <2>1. CASE new[i] = EmptyScope
    BY <1>1, <1>2, <2>1
  <2>2. CASE i \in 1 .. Len(stack) /\ new[i] = stack[i]
    <3>1. /\ Sorted(new[i].drops) /\ \A k \in 1 .. Len(new[i].drops) : new[i].drops[k].meant \in 1 .. top
          /\ \A j \in 1 .. Len(stack) : i < j => Below(stack[i].drops, stack[j].drops)
      BY <2>2 DEF Ordered
    <3>2. ASSUME NEW j \in 1 .. Len(new), i < j PROVE Below(new[i].drops, new[j].drops)
      BY <1>2, <2>2, <3>1, <3>2
    <3> QED BY <3>1, <3>2
  <2> QED BY <2>1, <2>2
<1>4. Unmoved(new, g)
  BY <1>1 DEF Unmoved
<1> QED BY <1>3, <1>4 DEF Ordered

\* A move out of the innermost scope takes one slot off the live ones.
LEMMA TopMove ==
  ASSUME DropInv, ListsInv, NEW n \in Names, FindVar(n) # NoSlot, FindVar(n) \notin gone, Far(n) = {}
  PROVE  LET new == MarkMovedOut(n)  x == FindVar(n)  L == Len(scopes)
         IN /\ x \in Owns(scopes[L]) /\ x \notin Live(scopes, L - 1)
            /\ new \in Seq(Scopes) /\ Len(new) = L
            /\ \A i \in 1 .. L : new[i].vars = scopes[i].vars /\ WellListed(new[i])
            /\ \A i \in 1 .. L : i # L => new[i] = scopes[i]
            /\ Owns(new[L]) = Owns(scopes[L]) \ {x}
            /\ Ordered(new, slots) /\ Unmoved(new, gone \cup {x})
<1> DEFINE new == MarkMovedOut(n)  x == FindVar(n)  L == Len(scopes)
<1>1. L \in 1 .. L /\ L \in Nat \ {0} /\ scopes \in Seq(Scopes)
  BY DEF DropInv, ShapeInv
<1>2. Max(Declaring(n)) = L /\ x = scopes[L].vars[n]
  <2>1. ~ (Max(Declaring(n)) < L)
    BY DEF Far
  <2>2. Max(Declaring(n)) \in 1 .. L /\ x = scopes[Max(Declaring(n))].vars[n]
    BY NameStandsForSlot
  <2> QED BY <1>1, <2>1, <2>2
<1>3. Lists(scopes[L], n)
  BY <1>1, <1>2 DEF ListsInv, Unmoved
<1>4. SameNames(new) /\ MovedAway(n, new)
  BY <1>3, MarkMovedOutMoves
<1>5. ASSUME NEW i \in 1 .. L PROVE i \in Listing(n) <=> Lists(scopes[i], n)
  <2>1. DOMAIN scopes[i].drops = 1 .. Len(scopes[i].drops) /\ i \in DOMAIN scopes
    BY <1>1, EntryTypes
  <2> QED BY <2>1 DEF Listing, Lists, ToSet
<1>6. Max(Listing(n)) = L
  <2>1. L \in Listing(n) /\ Listing(n) \subseteq 1 .. L
    BY <1>1, <1>3, <1>5 DEF Listing
  <2>2. \A i \in Listing(n) : i \in Int /\ i <= L
    BY <2>1
  <2> QED BY <2>1, <2>2, MaxIs
<1> DEFINE d == scopes[L].drops  less == [scopes[L] EXCEPT !.drops = Without(@, n)]
<1>7. new = [scopes EXCEPT ![L] = less]
  <2>1. Listing(n) # {}
    BY <1>1, <1>3, <1>5
  <2> QED BY <1>6, <2>1 DEF MarkMovedOut
<1>8. less.drops = Without(d, n) /\ less \in Scopes
  <2>1. scopes[L] \in Scopes /\ WellListed(scopes[L])
    BY <1>1, EntryTypes
  <2>2. less \in Scopes
    BY <1>3, <2>1, ScopeWithoutOne
  <2>3. less.drops = Without(d, n)
    BY <2>1 DEF Scopes
  <2> QED BY <2>2, <2>3
<1> HIDE DEF less
<1>9. new[L] = less /\ \A i \in 1 .. L : i # L => new[i] = scopes[i]
  BY <1>1, <1>7, <1>8
<1> HIDE DEF new, x
<1>10. Thinned(d, Without(d, n))
  <2>1. PICK k \in 1 .. Len(d) : IsVar(d[k], n)
    BY <1>3 DEF Lists
  <2>2. \A j \in 1 .. Len(d) : IsVar(d[j], n) => j = k
    BY <1>1, <2>1, EntryTypes DEF WellListed, IsVar
  <2>3. d \in Seq(Entries)
    BY <1>1, EntryTypes
  <2> HIDE DEF d
  <2> QED BY <2>1, <2>2, <2>3, WithoutThins
<1>11. Ordered(new, slots)
  <2>1. Len(new) = Len(scopes)
    BY <1>4 DEF SameNames
  <2>2. ASSUME NEW i \in 1 .. L PROVE Thinned(scopes[i].drops, new[i].drops)
    <3>1. CASE i = L
      BY <1>8, <1>9, <1>10, <3>1
    <3>2. CASE i # L
      BY <1>9, <3>2, EntryTypes, ThinnedSame
    <3> QED BY <3>1, <3>2
  <2>3. Ordered(scopes, slots)
    BY DEF ListsInv
  <2> QED BY <2>1, <2>2, <2>3, OrderedThinned
<1>12. \A i, j \in 1 .. L, m, k \in Names :
         scopes[i].vars[m] = scopes[j].vars[k] /\ scopes[i].vars[m] # NoSlot => i = j /\ m = k
  BY DEF DropInv, SlotInv
<1>13. Owns(new[L]) = Owns(scopes[L]) \ {x}
  <2>1. scopes[L] \in Scopes /\ WellListed(scopes[L]) /\ new[L] \in Scopes /\ WellListed(new[L])
        /\ new[L].vars = scopes[L].vars
    BY <1>1, <1>4, EntryTypes DEF SameNames
  <2>2. \A y : y \in Owns(scopes[L]) <=> \E m \in Names : Lists(scopes[L], m) /\ scopes[L].vars[m] = y
    BY <2>1, OwnsIs
  <2>3. \A y : y \in Owns(new[L]) <=> \E m \in Names : Lists(new[L], m) /\ new[L].vars[m] = y
    BY <2>1, OwnsIs
  <2>4. \A m \in Names : Lists(new[L], m) <=> Lists(scopes[L], m) /\ m # n
    BY <1>1, <1>4 DEF MovedAway
  <2>5. \A m \in Names : scopes[L].vars[m] = x => m = n
    BY <1>1, <1>2, <1>12 DEF x
  <2> QED BY <1>2, <2>1, <2>2, <2>3, <2>4, <2>5
<1>14. x \in Owns(scopes[L])
  BY <1>1, <1>2, <1>3, EntryTypes, OwnsIs
<1>15. x \notin Live(scopes, L - 1)
  <2>1. ASSUME NEW j \in 1 .. L - 1, x \in Owns(scopes[j]) PROVE FALSE
    <3>1. j \in 1 .. L /\ j # L
      BY <1>1
    <3>2. PICK m \in Names : scopes[j].vars[m] = x
      BY <2>1, <3>1, EntryTypes, OwnsIs
    <3> QED BY <1>1, <1>2, <1>12, <3>1, <3>2 DEF x
  <2> QED BY <2>1 DEF Live
<1>16. Unmoved(new, gone \cup {x})
  <2>1. ASSUME NEW i \in 1 .. L, NEW m \in Names, scopes[i].vars[m] # NoSlot, scopes[i].vars[m] \notin gone \cup {x}
        PROVE  Lists(new[i], m)
    <3>1. Lists(scopes[i], m) /\ ~ (i = L /\ m = n)
      BY <1>2, <2>1 DEF ListsInv, Unmoved
    <3> QED BY <1>4, <3>1 DEF MovedAway
  <2> QED BY <1>4, <2>1 DEF Unmoved, SameNames
<1> QED BY <1>4, <1>9, <1>11, <1>13, <1>14, <1>15, <1>16 DEF SameNames, new, x

LEMMA LiveSame ==
  ASSUME NEW stack, NEW new, NEW k \in Int, \A j \in 1 .. k : new[j] = stack[j]
  PROVE  Live(new, k) = Live(stack, k)
BY DEF Live

LEMMA LiveIsBelow ==
  ASSUME NEW stack, NEW top, Ordered(stack, top), NEW i \in 0 .. Len(stack)
  PROVE  Live(stack, i) \subseteq 1 .. top
<1>1. ASSUME NEW j \in 1 .. i PROVE Owns(stack[j]) \subseteq 1 .. top
  <2>1. j \in 1 .. Len(stack)
    OBVIOUS
  <2>2. \A k \in 1 .. Len(stack[j].drops) : stack[j].drops[k].meant \in 1 .. top
    BY <2>1 DEF Ordered
  <2> QED BY <2>2 DEF Owns, Kept
<1> QED BY <1>1 DEF Live

\* The source of a let or an assignment.
LEMMA AfterMoveLists ==
  ASSUME DropInv, ListsInv, NEW n \in Names, NEW src \in Names \cup {"new"},
         src # "new" => FindVar(src) # NoSlot /\ FindVar(src) \notin gone /\ Far(src) = {}
  PROVE  LET new == AfterMove(src, n)  t == SourceSlot(src)  L == Len(scopes)
         IN /\ new \in Seq(Scopes) /\ Len(new) = L
            /\ \A i \in 1 .. L : new[i].vars = scopes[i].vars /\ WellListed(new[i])
            /\ \A i \in 1 .. L : i # L => new[i] = scopes[i]
            /\ t \in Owns(scopes[L]) \cup {NoSlot} /\ t \notin Live(scopes, L - 1)
            /\ Owns(new[L]) = IF src = n THEN Owns(scopes[L]) ELSE Owns(scopes[L]) \ {t}
            /\ Ordered(new, slots) /\ Unmoved(new, gone \cup ({t} \ {NoSlot}))
<1> DEFINE new == AfterMove(src, n)  t == SourceSlot(src)  L == Len(scopes)
<1>1. L \in 1 .. L /\ L \in Nat \ {0} /\ scopes \in Seq(Scopes) /\ n # "new"
      /\ Ordered(scopes, slots) /\ Unmoved(scopes, gone)
      /\ \A i \in 1 .. L : WellListed(scopes[i])
  BY OwnershipAssumption, EntryTypes DEF DropInv, ShapeInv, ListsInv
<1>2. NoSlot \notin Live(scopes, L - 1) /\ NoSlot \notin Owns(scopes[L])
  <2>1. Live(scopes, L) = Live(scopes, L - 1) \cup Owns(scopes[L])
    BY <1>1, LiveStep
  <2>2. Live(scopes, L) \subseteq 1 .. slots
    <3>1. L \in 0 .. Len(scopes)
      BY <1>1
    <3> QED BY <1>1, <3>1, LiveIsBelow
  <2>3. NoSlot \notin 1 .. slots
    BY DEF NoSlot
  <2> QED BY <2>1, <2>2, <2>3
<1>3. CASE src = "new"
  <2>1. new = scopes /\ t = NoSlot /\ src # n /\ {t} \ {NoSlot} = {}
    BY <1>1, <1>3 DEF AfterMove, SourceSlot
  <2>2. Unmoved(new, gone \cup ({t} \ {NoSlot}))
    BY <1>1, <2>1
  <2> HIDE DEF new, t
  <2> QED BY <1>1, <1>2, <2>1, <2>2 DEF new, t
<1>4. CASE src # "new"
  <2>1. /\ src \in Names /\ FindVar(src) # NoSlot /\ FindVar(src) \notin gone /\ Far(src) = {}
        /\ t = FindVar(src) /\ {t} \ {NoSlot} = {FindVar(src)}
    BY <1>4 DEF SourceSlot
  <2>2. LET moved2 == MarkMovedOut(src)
        IN /\ t \in Owns(scopes[L]) /\ t \notin Live(scopes, L - 1)
           /\ moved2 \in Seq(Scopes) /\ Len(moved2) = L
           /\ \A i \in 1 .. L : moved2[i].vars = scopes[i].vars /\ WellListed(moved2[i])
           /\ \A i \in 1 .. L : i # L => moved2[i] = scopes[i]
           /\ Owns(moved2[L]) = Owns(scopes[L]) \ {t}
           /\ Ordered(moved2, slots) /\ Unmoved(moved2, gone \cup {t})
    BY <2>1, TopMove
  <2>3. CASE src = n
    <3>1. new = scopes
      BY <2>3 DEF AfterMove
    <3>2. Unmoved(new, gone \cup ({t} \ {NoSlot}))
      BY <1>1, <3>1 DEF Unmoved
    <3> HIDE DEF new, t
    <3> QED BY <1>1, <2>2, <2>3, <3>1, <3>2 DEF new, t
  <2>4. CASE src # n
    <3>1. new = MarkMovedOut(src)
      BY <1>4, <2>4 DEF AfterMove
    <3>2. {t} \ {NoSlot} = {t}
      BY <2>1
    <3> HIDE DEF new, t
    <3> QED BY <2>2, <2>4, <3>1, <3>2 DEF new, t
  <2> QED BY <2>3, <2>4
<1> QED BY <1>3, <1>4

\* A body whose values are not touched after they were passed, moved from an inner
\* block or replaced by an assignment.
Tame == lapses \cap {"touch", "far", "overwrite"} = {}

LEMMA TameMoves ==
  ASSUME NEW src, NEW n, Moves(src, n) \cap {"touch", "far", "overwrite"} = {}, src # "new"
  PROVE  FindVar(src) \notin gone /\ Far(src) = {}
<1>1. Touch(FindVar(src)) \subseteq {"touch"} /\ Far(src) \subseteq {"far"}
  BY DEF Touch, Far
<1>2. Touch(FindVar(src)) \subseteq Moves(src, n) /\ Far(src) \subseteq Moves(src, n)
  BY DEF Moves
<1>3. Touch(FindVar(src)) = {} /\ Far(src) = {}
  BY <1>1, <1>2
<1> QED BY <1>3 DEF Touch

LEMMA LetLists ==
  ASSUME DropInv, ListsInv, NEW n \in Names, NEW src \in Names \cup {"new"}, Let(n, src), WalkInv', Tame'
  PROVE  LET t == SourceSlot(src)  L == Len(scopes)
         IN /\ ListsInv' /\ Len(scopes') = L
            /\ \A k \in 0 .. L - 1 : Live(scopes', k) = Live(scopes, k)
            /\ t \in Live(scopes, L) \cup {NoSlot}
            /\ Live(scopes', L) = (Live(scopes, L) \ {t}) \cup {slots'}
            /\ slots' \in Slots /\ slots' \notin Live(scopes, L)
<1> DEFINE stack == AfterMove(src, n)  t == SourceSlot(src)  g == gone \cup ({t} \ {NoSlot})
           L == Len(scopes)  e == Entry("var", n, slots + 1)
<1>1. /\ src # "new" => FindVar(src) # NoSlot
      /\ scopes[L].vars[n] = NoSlot
      /\ slots' = slots + 1 /\ scopes' = Declare(stack, n, slots + 1) /\ gone' = g
      /\ Moves(src, n) \cap {"touch", "far", "overwrite"} = {}
  BY DEF Let, Admitted, Top, Last, Tame
<1>2. src # "new" => FindVar(src) \notin gone /\ Far(src) = {}
  BY <1>1, TameMoves
<1>3. L \in 1 .. L /\ L \in Nat \ {0} /\ slots \in Nat /\ L \in 0 .. L
  BY DEF DropInv, ShapeInv
<1>4. /\ stack \in Seq(Scopes) /\ Len(stack) = L
      /\ \A i \in 1 .. L : stack[i].vars = scopes[i].vars /\ WellListed(stack[i])
      /\ \A i \in 1 .. L : i # L => stack[i] = scopes[i]
      /\ t \in Owns(scopes[L]) \cup {NoSlot} /\ t \notin Live(scopes, L - 1)
      /\ Owns(stack[L]) = IF src = n THEN Owns(scopes[L]) ELSE Owns(scopes[L]) \ {t}
      /\ Ordered(stack, slots) /\ Unmoved(stack, g)
  BY <1>1, <1>2, AfterMoveLists
<1>5. src # n
  <2>1. ASSUME src = n PROVE FALSE
    <3>1. src # "new" /\ FindVar(n) # NoSlot /\ Far(n) = {}
      BY <1>1, <1>2, <2>1, OwnershipAssumption
    <3>2. ~ (Max(Declaring(n)) < L)
      BY <3>1 DEF Far
    <3>3. Max(Declaring(n)) \in 1 .. L /\ FindVar(n) = scopes[Max(Declaring(n))].vars[n]
      BY <3>1, NameStandsForSlot
    <3>4. Max(Declaring(n)) = L
      BY <1>3, <3>2, <3>3
    <3> QED BY <1>1, <3>1, <3>3, <3>4
  <2> QED BY <2>1
<1> HIDE DEF stack, t, g
<1>6. /\ scopes' \in Seq(Scopes) /\ Len(scopes') = L
      /\ \A i \in 1 .. L : i # L => scopes'[i] = stack[i]
      /\ \A m \in Names : scopes'[L].vars[m] = IF m = n THEN slots + 1 ELSE stack[L].vars[m]
      /\ \A m \in Names : Lists(scopes'[L], m) <=> Lists(stack[L], m) \/ m = n
  <2>1. slots + 1 \in Nat \ {0} /\ Len(stack) > 0 /\ stack[Len(stack)].vars[n] = NoSlot
    BY <1>1, <1>3, <1>4
  <2>2. WellListed(stack[Len(stack)])
    BY <1>3, <1>4
  <2> QED BY <1>1, <1>4, <2>1, <2>2, DeclareOne
<1>7. scopes'[L].drops = Append(stack[L].drops, e)
  <2> DEFINE scope == [vars |-> [stack[L].vars EXCEPT ![n] = slots + 1], drops |-> Append(stack[L].drops, e)]
  <2>1. scopes' = [stack EXCEPT ![L] = scope]
    BY <1>1, <1>4 DEF Declare
  <2>2. scope.drops = Append(stack[L].drops, e)
    OBVIOUS
  <2> HIDE DEF scope, e
  <2>3. scopes'[L] = scope
    BY <1>3, <1>4, <2>1
  <2> QED BY <2>2, <2>3
<1>8. e \in Entries /\ e.kind = "var" /\ e.meant = slots + 1
  BY <1>3 DEF Entry, Entries
<1> HIDE DEF e
<1>9. Ordered(scopes', slots + 1) /\ Owns(scopes'[L]) = Owns(stack[L]) \cup {slots + 1}
  <2>1. slots <= slots + 1 /\ slots + 1 \in Nat /\ e.meant \in 1 .. slots + 1 /\ slots < e.meant
    BY <1>3, <1>8
  <2>2. L \in Nat \ {0} /\ slots \in Nat /\ stack \in Seq(Scopes) /\ scopes' \in Seq(Scopes)
        /\ Len(stack) = L /\ Len(scopes') = L /\ Ordered(stack, slots)
    BY <1>3, <1>4, <1>6
  <2> DEFINE new == scopes'  top == slots + 1
  <2>3. Grown(stack, new, L, e)
    BY <1>6, <1>7, <2>2 DEF Grown
  <2>4. /\ slots <= top /\ e.meant \in 1 .. top /\ e \in Entries /\ e.kind = "var" /\ slots < e.meant
        /\ top \in Nat /\ slots \in Nat /\ L \in Nat \ {0} /\ stack \in Seq(Scopes) /\ new \in Seq(Scopes)
        /\ Grown(stack, new, L, e) /\ Ordered(stack, slots)
    BY <1>8, <2>1, <2>2, <2>3
  <2> HIDE DEF L, new, top
  <2>5. Ordered(new, top)
    BY <2>4, OrderedAppend
  <2>6. Owns(new[L]) = Owns(stack[L]) \cup (IF e.kind = "var" THEN {e.meant} ELSE {})
    BY <2>4, <2>5, OrderedAppend
  <2> QED BY <1>8, <2>5, <2>6 DEF new, top
<1>10. Unmoved(scopes', g)
  <2>1. ASSUME NEW i \in 1 .. L, NEW m \in Names, scopes'[i].vars[m] # NoSlot, scopes'[i].vars[m] \notin g
        PROVE  Lists(scopes'[i], m)
    <3>1. CASE i # L
      BY <1>4, <1>6, <2>1, <3>1 DEF Unmoved
    <3>2. CASE i = L /\ m # n
      BY <1>4, <1>6, <2>1, <3>2 DEF Unmoved
    <3>3. CASE i = L /\ m = n
      BY <1>6, <3>3
    <3> QED BY <3>1, <3>2, <3>3
  <2> QED BY <1>6, <2>1 DEF Unmoved
<1>11. slots' \in Slots
  <2>1. written' \in 0 .. MaxLength /\ slots' \in 1 .. written' + 1 /\ MaxLength \in Nat
    BY OwnershipAssumption DEF WalkInv
  <2>2. \A w \in 0 .. MaxLength : \A x \in 1 .. w + 1 : x \in 1 .. MaxLength + 1
    BY <2>1
  <2> QED BY <2>1, <2>2 DEF Slots
<1>12. ListsInv'
  BY <1>1, <1>9, <1>10, <1>11 DEF ListsInv
<1>13. ASSUME NEW k \in 0 .. L - 1 PROVE Live(scopes', k) = Live(scopes, k)
  <2>1. \A j \in 1 .. k : scopes'[j] = scopes[j]
    BY <1>3, <1>4, <1>6
  <2> QED BY <2>1, LiveSame
<1>14. Live(scopes, L) = Live(scopes, L - 1) \cup Owns(scopes[L]) /\ Live(scopes', L) = Live(scopes', L - 1) \cup Owns(scopes'[L])
  BY <1>3, LiveStep
<1>15. Live(scopes', L - 1) = Live(scopes, L - 1)
  BY <1>3, <1>13
<1>16. slots + 1 \notin Live(scopes, L)
  <2>1. Live(scopes, L) \subseteq 1 .. slots
    BY <1>3, LiveIsBelow DEF ListsInv
  <2> QED BY <1>3, <2>1
<1>17. Live(scopes', L) = (Live(scopes, L) \ {t}) \cup {slots'}
  BY <1>1, <1>4, <1>5, <1>9, <1>14, <1>15
<1>18. t \in Live(scopes, L) \cup {NoSlot}
  BY <1>4, <1>14
<1> QED BY <1>1, <1>6, <1>11, <1>12, <1>13, <1>16, <1>17, <1>18 DEF t

LEMMA VarIsLive ==
  ASSUME DropInv, ListsInv, NEW n \in Names, FindVar(n) # NoSlot, FindVar(n) \notin gone
  PROVE  FindVar(n) \in Live(scopes, Len(scopes))
<1> DEFINE j == Max(Declaring(n))
<1>1. j \in 1 .. Len(scopes) /\ FindVar(n) = scopes[j].vars[n]
  BY NameStandsForSlot
<1> HIDE DEF j
<1>2. Lists(scopes[j], n)
  BY <1>1 DEF ListsInv, Unmoved
<1>3. FindVar(n) \in Owns(scopes[j])
  BY <1>1, <1>2, EntryTypes, OwnsIs
<1> QED BY <1>1, <1>3 DEF Live

LEMMA AssignLists ==
  ASSUME DropInv, ListsInv, NEW n \in Names, NEW src \in Names \cup {"new"}, Assign(n, src), Tame'
  PROVE  LET s == FindVar(n)  t == SourceSlot(src)  L == Len(scopes)
         IN /\ ListsInv' /\ Len(scopes') = L
            /\ \A k \in 0 .. L - 1 : Live(scopes', k) = Live(scopes, k)
            /\ s \in Live(scopes, L) /\ t \in Live(scopes, L) \cup {NoSlot}
            /\ Live(scopes', L) = IF t = s THEN Live(scopes, L) ELSE Live(scopes, L) \ {t}
            /\ t = s => "self" \in lapses'
<1> DEFINE new == AfterMove(src, n)  s == FindVar(n)  t == SourceSlot(src)  L == Len(scopes)
<1>1. /\ s # NoSlot /\ (src # "new" => FindVar(src) # NoSlot)
      /\ UNCHANGED <<frames, slots>> /\ scopes' = new
      /\ gone' = (gone \ {s}) \cup ({t} \ {NoSlot})
      /\ lapses' = lapses \cup Moves(src, n) \cup (IF s \in gone THEN {"overwrite"} ELSE {})
      /\ lapses' \cap {"touch", "far", "overwrite"} = {}
  BY DEF Assign, Admitted, Tame
<1>2. s \notin gone /\ Moves(src, n) \cap {"touch", "far", "overwrite"} = {}
  BY <1>1
<1>3. src # "new" => FindVar(src) \notin gone /\ Far(src) = {}
  BY <1>2, TameMoves
<1>4. L \in 1 .. L /\ L \in Nat \ {0} /\ slots \in Nat
  BY DEF DropInv, ShapeInv
<1>5. /\ new \in Seq(Scopes) /\ Len(new) = L
      /\ \A i \in 1 .. L : i # L => new[i] = scopes[i]
      /\ t \in Owns(scopes[L]) \cup {NoSlot} /\ t \notin Live(scopes, L - 1)
      /\ Owns(new[L]) = IF src = n THEN Owns(scopes[L]) ELSE Owns(scopes[L]) \ {t}
      /\ Ordered(new, slots) /\ Unmoved(new, gone \cup ({t} \ {NoSlot}))
  BY <1>1, <1>3, AfterMoveLists
<1>6. s \in Live(scopes, L)
  BY <1>1, <1>2, VarIsLive
<1>7. t = s <=> src = n
  <2>1. CASE src = "new"
    BY <1>1, <2>1, OwnershipAssumption DEF SourceSlot
  <2>2. CASE src # "new"
    <3>1. src \in Names /\ t = FindVar(src)
      BY <2>2 DEF SourceSlot
    <3>2. ASSUME t = s PROVE src = n
      <4>1. /\ Max(Declaring(n)) \in 1 .. L /\ s = scopes[Max(Declaring(n))].vars[n]
            /\ Max(Declaring(src)) \in 1 .. L /\ t = scopes[Max(Declaring(src))].vars[src]
        BY <1>1, <2>2, <3>1, NameStandsForSlot
      <4> QED BY <1>1, <3>1, <3>2, <4>1 DEF DropInv, SlotInv
    <3> QED BY <3>1, <3>2
  <2> QED BY <2>1, <2>2
<1>8. src = n => "self" \in lapses'
  BY <1>1, OwnershipAssumption DEF Moves
<1> HIDE DEF new, s, t
<1>9. ListsInv'
  <2>1. gone' = gone \cup ({t} \ {NoSlot})
    BY <1>1, <1>2
  <2> QED BY <1>1, <1>5, <2>1 DEF ListsInv
<1>10. ASSUME NEW k \in 0 .. L - 1 PROVE Live(scopes', k) = Live(scopes, k)
  <2>1. \A j \in 1 .. k : scopes'[j] = scopes[j]
    BY <1>1, <1>4, <1>5
  <2> QED BY <2>1, LiveSame
<1>11. Live(scopes, L) = Live(scopes, L - 1) \cup Owns(scopes[L]) /\ Live(scopes', L) = Live(scopes', L - 1) \cup Owns(scopes'[L])
  BY <1>4, LiveStep
<1>12. Live(scopes', L - 1) = Live(scopes, L - 1)
  BY <1>4, <1>10
<1>13. Live(scopes', L) = IF t = s THEN Live(scopes, L) ELSE Live(scopes, L) \ {t}
  BY <1>1, <1>5, <1>7, <1>11, <1>12
<1> QED BY <1>1, <1>5, <1>6, <1>7, <1>8, <1>9, <1>10, <1>11, <1>13 DEF s, t

LEMMA PassLists ==
  ASSUME DropInv, ListsInv, NEW n \in Names, Pass(n), Tame'
  PROVE  LET s == FindVar(n)  L == Len(scopes)
         IN /\ ListsInv' /\ Len(scopes') = L
            /\ \A k \in 0 .. L - 1 : Live(scopes', k) = Live(scopes, k)
            /\ s \in Live(scopes, L) /\ Live(scopes', L) = Live(scopes, L) \ {s}
<1> DEFINE new == MarkMovedOut(n)  s == FindVar(n)  L == Len(scopes)
<1>1. /\ s # NoSlot /\ UNCHANGED <<frames, slots>> /\ scopes' = new
      /\ gone' = gone \cup {s} /\ lapses' = lapses \cup Touch(s) \cup Far(n)
      /\ lapses' \cap {"touch", "far", "overwrite"} = {}
  BY DEF Pass, Admitted, Tame
<1>2. s \notin gone /\ Far(n) = {}
  <2>1. Touch(s) = {} /\ Far(n) = {}
    <3>1. Touch(s) \subseteq {"touch"} /\ Far(n) \subseteq {"far"}
      BY DEF Touch, Far
    <3> QED BY <1>1, <3>1
  <2> QED BY <2>1 DEF Touch
<1>3. L \in 1 .. L /\ L \in Nat \ {0}
  BY DEF DropInv, ShapeInv
<1>4. /\ s \in Owns(scopes[L]) /\ s \notin Live(scopes, L - 1)
      /\ new \in Seq(Scopes) /\ Len(new) = L
      /\ \A i \in 1 .. L : i # L => new[i] = scopes[i]
      /\ Owns(new[L]) = Owns(scopes[L]) \ {s}
      /\ Ordered(new, slots) /\ Unmoved(new, gone \cup {s})
  BY <1>1, <1>2, TopMove
<1> HIDE DEF new, s
<1>5. ListsInv'
  BY <1>1, <1>4 DEF ListsInv
<1>6. ASSUME NEW k \in 0 .. L - 1 PROVE Live(scopes', k) = Live(scopes, k)
  <2>1. \A j \in 1 .. k : scopes'[j] = scopes[j]
    BY <1>1, <1>3, <1>4
  <2> QED BY <2>1, LiveSame
<1>7. Live(scopes, L) = Live(scopes, L - 1) \cup Owns(scopes[L]) /\ Live(scopes', L) = Live(scopes', L - 1) \cup Owns(scopes'[L])
  BY <1>3, LiveStep
<1>8. Live(scopes', L - 1) = Live(scopes, L - 1)
  BY <1>3, <1>6
<1> QED BY <1>1, <1>4, <1>5, <1>6, <1>7, <1>8 DEF s

LEMMA DeferLists ==
  ASSUME DropInv, ListsInv, NEW n \in Names, Defer(n)
  PROVE  ListsInv' /\ Len(scopes') = Len(scopes) /\ \A k \in 0 .. Len(scopes) : Live(scopes', k) = Live(scopes, k)
<1> DEFINE L == Len(scopes)  e == Entry("defer", n, FindVar(n))  old == scopes[L]
           scope == [old EXCEPT !.drops = Append(@, e)]
<1>1. FindVar(n) # NoSlot /\ UNCHANGED <<slots, gone>> /\ scopes' = [scopes EXCEPT ![L] = scope]
  BY DEF Defer, Admitted
<1>2. scopes \in Seq(Scopes) /\ L \in 1 .. L /\ L \in Nat \ {0} /\ old \in Scopes /\ slots \in Nat
  BY DEF DropInv, ShapeInv
<1>3. e \in Entries /\ e.kind = "defer" /\ e.meant \in 1 .. slots
  <2>1. FindVar(n) \in 1 .. slots
    BY <1>1, NameStandsForSlot
  <2>2. FindVar(n) \in Nat
    BY <1>2, <2>1
  <2> QED BY <2>1, <2>2 DEF Entry, Entries
<1>4. old.drops \in Seq(Entries)
  BY <1>2 DEF Scopes
<1> HIDE DEF e, old
<1>5. scope \in Scopes /\ scope.vars = old.vars /\ scope.drops = Append(old.drops, e)
  <2>1. Append(old.drops, e) \in Seq(Entries)
    BY <1>3, <1>4
  <2> QED BY <1>2, <2>1 DEF Scopes
<1> HIDE DEF scope
<1>6. /\ scopes' \in Seq(Scopes) /\ Len(scopes') = L /\ scopes'[L] = scope
      /\ \A i \in 1 .. L : i # L => scopes'[i] = scopes[i]
  BY <1>1, <1>2, <1>5
<1>7. Ordered(scopes', slots) /\ Owns(scopes'[L]) = Owns(scopes[L]) \cup (IF e.kind = "var" THEN {e.meant} ELSE {})
  <2>1. scopes'[L].drops = Append(scopes[L].drops, e) /\ slots <= slots /\ e.kind # "var"
    BY <1>2, <1>3, <1>5, <1>6 DEF old
  <2>2. Ordered(scopes, slots) /\ Len(scopes) = L
    BY DEF ListsInv
  <2> HIDE DEF L
  <2>3. Grown(scopes, scopes', L, e)
    BY <1>6, <2>1, <2>2 DEF Grown
  <2> DEFINE new == scopes'
  <2>4. new \in Seq(Scopes) /\ Grown(scopes, new, L, e) /\ L \in Nat \ {0} /\ slots \in Nat /\ scopes \in Seq(Scopes)
    BY <1>2, <1>6, <2>3
  <2>5. slots <= slots /\ (e.kind = "var" => slots < e.meant)
    BY <2>1, <2>4
  <2> HIDE DEF new
  <2>6. Ordered(new, slots) /\ Owns(new[L]) = Owns(scopes[L]) \cup (IF e.kind = "var" THEN {e.meant} ELSE {})
    BY <1>3, <2>2, <2>4, <2>5, OrderedAppend
  <2> QED BY <2>6 DEF new
<1>8. Unmoved(scopes', gone)
  <2>1. ASSUME NEW m \in Names, Lists(scopes[L], m) PROVE Lists(scopes'[L], m)
    <3>1. PICK k \in 1 .. Len(old.drops) : IsVar(old.drops[k], m)
      BY <2>1 DEF Lists, old
    <3>2. k \in 1 .. Len(scope.drops) /\ scope.drops[k] = old.drops[k]
      BY <1>3, <1>4, <1>5
    <3> QED BY <1>6, <3>1, <3>2 DEF Lists
  <2>2. ASSUME NEW i \in 1 .. L, NEW m \in Names, scopes'[i].vars[m] # NoSlot, scopes'[i].vars[m] \notin gone
        PROVE  Lists(scopes'[i], m)
    <3>1. scopes'[i].vars = scopes[i].vars
      BY <1>5, <1>6 DEF old
    <3>2. Lists(scopes[i], m)
      BY <2>2, <3>1 DEF ListsInv, Unmoved
    <3> QED BY <1>6, <2>1, <3>2
  <2> QED BY <1>6, <2>2 DEF Unmoved
<1>9. ListsInv'
  BY <1>1, <1>7, <1>8 DEF ListsInv
<1>10. ASSUME NEW k \in 0 .. L - 1 PROVE Live(scopes', k) = Live(scopes, k)
  <2>1. \A j \in 1 .. k : scopes'[j] = scopes[j]
    BY <1>2, <1>6
  <2> QED BY <2>1, LiveSame
<1>11. Live(scopes', L) = Live(scopes, L)
  <2>1. Live(scopes, L) = Live(scopes, L - 1) \cup Owns(scopes[L]) /\ Live(scopes', L) = Live(scopes', L - 1) \cup Owns(scopes'[L])
    BY <1>2, LiveStep
  <2>2. Live(scopes', L - 1) = Live(scopes, L - 1) /\ Owns(scopes'[L]) = Owns(scopes[L])
    BY <1>2, <1>3, <1>7, <1>10
  <2> QED BY <2>1, <2>2
<1>12. \A k \in 0 .. L : k \in 0 .. L - 1 \/ k = L
  BY <1>2
<1> QED BY <1>6, <1>9, <1>10, <1>11, <1>12

\* Blocks that open, change arms and end.
LEMMA BlockLists ==
  ASSUME DropInv, ListsInv, NEW op, Open(op) \/ Else \/ EndBlock
  PROVE  LET L == Len(scopes)
         IN /\ ListsInv'
            /\ Open(op) => /\ Len(scopes') = L + 1 /\ Live(scopes', L + 1) = Live(scopes, L)
                           /\ \A k \in 0 .. L : Live(scopes', k) = Live(scopes, k)
            /\ Else => /\ Len(scopes') = L /\ Live(scopes', L) = Live(scopes, L - 1)
                       /\ \A k \in 0 .. L - 1 : Live(scopes', k) = Live(scopes, k)
            /\ EndBlock => Len(scopes') = L - 1 /\ \A k \in 0 .. L - 1 : Live(scopes', k) = Live(scopes, k)
<1> DEFINE L == Len(scopes)
<1>1. /\ scopes \in Seq(Scopes) /\ frames \in Seq(Frames) /\ L = Len(frames) + 1 /\ L \in Nat \ {0}
      /\ EmptyScope \in Scopes
  <2>1. [n \in Names |-> NoSlot] \in [Names -> Nat] /\ <<>> \in Seq(Entries)
    BY DEF NoSlot
  <2> QED BY <2>1 DEF DropInv, ShapeInv, EmptyScope, Scopes
<1>2. Owns(EmptyScope) = {}
  BY DEF Owns, Kept, EmptyScope
<1>3. UNCHANGED <<slots, gone>> /\ (Else \/ EndBlock => frames # <<>>)
  BY DEF Open, Else, EndBlock
<1>4. ASSUME frames # <<>>
      PROVE  /\ Front(scopes) \in Seq(Scopes) /\ Len(Front(scopes)) = L - 1 /\ L - 1 \in Nat \ {0}
             /\ \A i \in 1 .. L - 1 : i \in 1 .. L /\ Front(scopes)[i] = scopes[i]
  <2>1. Len(frames) \in Nat \ {0}
    BY <1>1, <1>4
  <2>2. L - 1 \in Nat /\ Len(scopes) = (L - 1) + 1
    BY <1>1
  <2> HIDE DEF L
  <2> QED BY <1>1, <2>1, <2>2, FrontOf
<1>5. ASSUME Open(op)
      PROVE  /\ Len(scopes') = L + 1 /\ scopes'[L + 1] = EmptyScope
             /\ \A i \in 1 .. L : scopes'[i] = scopes[i]
  <2>1. scopes' = Append(scopes, EmptyScope)
    BY <1>5 DEF Open
  <2> QED BY <1>1, <2>1
<1>6. ASSUME Else
      PROVE  /\ Len(scopes') = L /\ scopes'[L] = EmptyScope
             /\ \A i \in 1 .. L - 1 : i \in 1 .. L /\ scopes'[i] = scopes[i]
  <2> DEFINE low == Front(scopes)
  <2>1. scopes' = Append(low, EmptyScope)
    BY <1>6 DEF Else
  <2>2. /\ low \in Seq(Scopes) /\ Len(low) = L - 1 /\ L - 1 \in Nat \ {0}
        /\ \A i \in 1 .. L - 1 : i \in 1 .. L /\ low[i] = scopes[i]
    BY <1>3, <1>4, <1>6
  <2> HIDE DEF low, L
  <2>3. Len(scopes') = L /\ scopes'[(L - 1) + 1] = EmptyScope /\ \A i \in 1 .. L - 1 : scopes'[i] = low[i]
    BY <1>1, <2>1, <2>2
  <2>4. (L - 1) + 1 = L
    BY <1>1
  <2> QED BY <2>2, <2>3, <2>4
<1>7. ASSUME EndBlock
      PROVE  Len(scopes') = L - 1 /\ \A i \in 1 .. L - 1 : i \in 1 .. L /\ scopes'[i] = scopes[i]
  <2>1. scopes' = Front(scopes)
    BY <1>7 DEF EndBlock
  <2> QED BY <1>3, <1>4, <1>7, <2>1
<1>8. ListsInv'
  <2>1. \A i \in 1 .. Len(scopes') : (i \in 1 .. Len(scopes) /\ scopes'[i] = scopes[i]) \/ scopes'[i] = EmptyScope
    <3>1. CASE Open(op)
      <4>1. \A i \in 1 .. L + 1 : i \in 1 .. L \/ i = L + 1
        BY <1>1
      <4> QED BY <1>5, <3>1, <4>1
    <3>2. CASE Else
      <4>1. \A i \in 1 .. L : i \in 1 .. L - 1 \/ i = L
        BY <1>1
      <4> QED BY <1>6, <3>2, <4>1
    <3>3. CASE EndBlock
      BY <1>7, <3>3
    <3> QED BY <3>1, <3>2, <3>3
  <2>2. Ordered(scopes', slots) /\ Unmoved(scopes', gone)
    <3>1. Ordered(scopes, slots) /\ Unmoved(scopes, gone)
      BY DEF ListsInv
    <3> QED BY <2>1, <3>1, OrderedBlock
  <2> QED BY <1>3, <2>2 DEF ListsInv
<1>9. ASSUME NEW k \in Int, \A i \in 1 .. k : scopes'[i] = scopes[i]
      PROVE  Live(scopes', k) = Live(scopes, k)
  BY <1>9, LiveSame
<1>10. Open(op) => /\ Len(scopes') = L + 1 /\ Live(scopes', L + 1) = Live(scopes, L)
                   /\ \A k \in 0 .. L : Live(scopes', k) = Live(scopes, k)
  <2> SUFFICES ASSUME Open(op)
               PROVE  /\ Len(scopes') = L + 1 /\ Live(scopes', L + 1) = Live(scopes, L)
                      /\ \A k \in 0 .. L : Live(scopes', k) = Live(scopes, k)
    OBVIOUS
  <2>1. \A k \in 0 .. L : Live(scopes', k) = Live(scopes, k)
    <3>1. ASSUME NEW k \in 0 .. L PROVE Live(scopes', k) = Live(scopes, k)
      BY <1>1, <1>5, <1>9
    <3> QED BY <3>1
  <2>2. L + 1 \in Nat \ {0} /\ (L + 1) - 1 = L /\ L \in 0 .. L
    BY <1>1
  <2>3. Live(scopes', L + 1) = Live(scopes', (L + 1) - 1) \cup Owns(scopes'[L + 1])
    BY <2>2, LiveStep
  <2> QED BY <1>2, <1>5, <2>1, <2>2, <2>3
<1>11. Else => /\ Len(scopes') = L /\ Live(scopes', L) = Live(scopes, L - 1)
               /\ \A k \in 0 .. L - 1 : Live(scopes', k) = Live(scopes, k)
  <2> SUFFICES ASSUME Else
               PROVE  /\ Len(scopes') = L /\ Live(scopes', L) = Live(scopes, L - 1)
                      /\ \A k \in 0 .. L - 1 : Live(scopes', k) = Live(scopes, k)
    OBVIOUS
  <2>1. \A k \in 0 .. L - 1 : Live(scopes', k) = Live(scopes, k)
    <3>1. ASSUME NEW k \in 0 .. L - 1 PROVE Live(scopes', k) = Live(scopes, k)
      BY <1>1, <1>6, <1>9
    <3> QED BY <3>1
  <2>2. L - 1 \in 0 .. L - 1
    BY <1>1
  <2>3. Live(scopes', L) = Live(scopes', L - 1) \cup Owns(scopes'[L])
    BY <1>1, LiveStep
  <2> QED BY <1>2, <1>6, <2>1, <2>2, <2>3
<1>12. EndBlock => Len(scopes') = L - 1 /\ \A k \in 0 .. L - 1 : Live(scopes', k) = Live(scopes, k)
  <2> SUFFICES ASSUME EndBlock
               PROVE  Len(scopes') = L - 1 /\ \A k \in 0 .. L - 1 : Live(scopes', k) = Live(scopes, k)
    OBVIOUS
  <2>1. ASSUME NEW k \in 0 .. L - 1 PROVE Live(scopes', k) = Live(scopes, k)
    BY <1>1, <1>7, <1>9
  <2> QED BY <1>7, <2>1
<1> QED BY <1>8, <1>10, <1>11, <1>12

-----------------------------------------------------------------------------
(* What is written *)

\* The code c so far, with its points s and its open blocks: where a block starts,
\* what the scopes around it hold is alive, and at the end what all of them hold.
Written(c, s, at, kinds, stack, stopped, l) ==
  /\ Body(c, s, at, kinds, l)
  /\ \A k \in 1 .. Len(at) : s[at[k]] = Calm(Live(stack, k))
  /\ IF stopped THEN s[Len(c) + 1].dead ELSE s[Len(c) + 1] = Calm(Live(stack, Len(stack)))

LEMMA Regroup ==
  ASSUME NEW S, NEW c \in Seq(S), NEW d \in Seq(S), NEW i \in S
  PROVE  c \o (d \o <<i>>) = Append(c \o d, i)
<1>1. <<i>> \in Seq(S) /\ c \o d \in Seq(S)
  OBVIOUS
<1>2. c \o (d \o <<i>>) = (c \o d) \o <<i>>
  BY <1>1, ConcatAssociative
<1> QED BY <1>1, <1>2, OneMore

\* Points of c that agree where the open blocks start, and go on to point b.
Same(c, at, s, r, b) == r[Len(c) + 1] = b /\ \A k \in 1 .. Len(at) : r[at[k]] = s[at[k]]

\* Straight code at the end.
LEMMA WriteStraight ==
  ASSUME NEW c, NEW s, NEW at, NEW kinds, NEW l, Body(c, s, at, kinds, l),
         NEW g, l \subseteq g, NEW d, NEW b, Leads(d, s[Len(c) + 1], b, g)
  PROVE  /\ c \in Seq(Instrs) /\ d \in Seq(Instrs)
         /\ \E r : Body(c \o d, r, at, kinds, g) /\ Same(c \o d, at, s, r, b)
<1>1. Body(c, s, at, kinds, l)
  OBVIOUS
<1>2. PICK r : Body(c \o d, r, at, kinds, g) /\ Onward(c, d, s, r, b)
  BY BodyLeads
<1>3. ASSUME NEW k \in 1 .. Len(at) PROVE at[k] \in 1 .. Len(c) + 1
  <2>1. at[k] \in 1 .. Len(c)
    BY <1>1 DEF Body, OpenAt
  <2>2. Len(c) \in Nat
    BY <1>1, BodyTypes
  <2> QED BY <2>1, <2>2
<1>4. c \in Seq(Instrs) /\ d \in Seq(Instrs)
  BY <1>1 DEF Body, Leads
<1> QED BY <1>2, <1>3, <1>4 DEF Onward, Same

LEMMA WriteOne ==
  ASSUME NEW c, NEW s, NEW at, NEW kinds, NEW stack, NEW l, Written(c, s, at, kinds, stack, FALSE, l),
         NEW g, l \subseteq g, NEW i \in Instrs, i.op \notin Openers \cup {"end", "else", "break", "continue"},
         NEW new, Len(new) = Len(stack), Len(stack) = Len(at) + 1, \A k \in 0 .. Len(stack) - 1 : Live(new, k) = Live(stack, k),
         Calm(Live(stack, Len(stack))) \in Points, Calm(Live(new, Len(new))) \in Points,
         Straight(i, Calm(Live(stack, Len(stack))), Calm(Live(new, Len(new))), g)
  PROVE  \E r : Written(c \o <<i>>, r, at, kinds, new, FALSE, g)
<1> DEFINE a == Calm(Live(stack, Len(stack)))  b == Calm(Live(new, Len(new)))
<1>1. s[Len(c) + 1] = a /\ \A k \in 1 .. Len(at) : s[at[k]] = Calm(Live(stack, k))
  BY DEF Written
<1> HIDE DEF a, b
<1>2. Leads(<<i>>, a, b, g)
  BY LeadsOne DEF a, b
<1>3. PICK r : Body(c \o <<i>>, r, at, kinds, g) /\ Same(c \o <<i>>, at, s, r, b)
  <2>1. Body(c, s, at, kinds, l) /\ Leads(<<i>>, s[Len(c) + 1], b, g)
    BY <1>1, <1>2 DEF Written
  <2> QED BY <2>1, WriteStraight
<1>4. ASSUME NEW k \in 1 .. Len(at) PROVE r[at[k]] = Calm(Live(new, k))
  <2>1. Len(at) \in Nat
    BY BodyTypes DEF Written
  <2>2. k \in 0 .. Len(stack) - 1
    BY <2>1
  <2> QED BY <1>1, <1>3, <2>2 DEF Same
<1> QED BY <1>3, <1>4 DEF Written, b, Same

Nowhere == [live |-> {}, res |-> 0, dead |-> TRUE]

LEMMA NowhereIsPoint == Nowhere \in Points /\ Nowhere.dead
BY DEF Nowhere, Points

\* A return.
LEMMA WriteReturn ==
  ASSUME NEW c, NEW s, NEW at, NEW kinds, NEW stack, NEW l, Written(c, s, at, kinds, stack, FALSE, l),
         NEW g, l \subseteq g, NEW d, NEW b, Leads(d, Calm(Live(stack, Len(stack))), b, g),
         NEW i \in Instrs, i.op = "ret", ~ b.dead, "shadow" \in g \/ b.live \subseteq {b.res}
  PROVE  \E r : Written(c \o (d \o <<i>>), r, at, kinds, stack, TRUE, g)
<1>1. s[Len(c) + 1] = Calm(Live(stack, Len(stack))) /\ \A k \in 1 .. Len(at) : s[at[k]] = Calm(Live(stack, k))
  BY DEF Written
<1>2. PICK r : Body(c \o d, r, at, kinds, g) /\ Same(c \o d, at, s, r, b)
  <2>1. Body(c, s, at, kinds, l) /\ Leads(d, s[Len(c) + 1], b, g)
    BY <1>1 DEF Written
  <2> QED BY <2>1, WriteStraight
<1> DEFINE e == c \o d
<1>3. c \o (d \o <<i>>) = Append(e, i)
  BY <1>1, WriteStraight, Regroup
<1> HIDE DEF e
<1>4. Body(e, r, at, kinds, g) /\ r[Len(e) + 1] = b
  BY <1>2 DEF e, Same
<1>5. Straight(i, b, Nowhere, g)
  BY DEF Straight
<1>6. Body(Append(e, i), Append(r, Nowhere), at, kinds, g)
  <2>1. i.op \notin Openers \cup {"end", "else", "break", "continue"}
    BY DEF Openers
  <2> QED BY <1>4, <1>5, <2>1, NowhereIsPoint, BodyOne
<1>7. /\ Append(r, Nowhere)[Len(Append(e, i)) + 1] = Nowhere
      /\ \A k \in 1 .. Len(at) : Append(r, Nowhere)[at[k]] = r[at[k]]
  <2>1. /\ e \in Seq(Instrs) /\ r \in Seq(Points) /\ Len(r) = Len(e) + 1 /\ Len(e) \in Nat
    BY <1>4, BodyTypes
  <2>2. \A k \in 1 .. Len(at) : at[k] \in 1 .. Len(e)
    BY <1>4 DEF Body, OpenAt
  <2>3. Len(Append(e, i)) + 1 = Len(r) + 1
    BY <2>1
  <2> QED BY <2>1, <2>2, <2>3, NowhereIsPoint
<1>8. Written(Append(e, i), Append(r, Nowhere), at, kinds, stack, TRUE, g)
  BY <1>1, <1>2, <1>6, <1>7, NowhereIsPoint DEF Written, Same
<1> QED BY <1>3, <1>8

\* A break or a continue.
LEMMA WriteJump ==
  ASSUME NEW c, NEW s, NEW at, NEW kinds, NEW stack, NEW l, Written(c, s, at, kinds, stack, FALSE, l),
         NEW g, l \subseteq g, NEW m \in 1 .. Len(at), kinds[m] = "while",
         \A k \in 1 .. Len(at) : kinds[k] = "while" => k <= m,
         \A k \in 1 .. Len(at) : kinds[k] \in {"if", "else", "while"},
         NEW d, Leads(d, Calm(Live(stack, Len(stack))), Calm(Live(stack, m)), g),
         NEW i \in Instrs, i.op \in {"break", "continue"}
  PROVE  \E r : Written(c \o (d \o <<i>>), r, at, kinds, stack, TRUE, g)
<1> DEFINE b == Calm(Live(stack, m))
<1>1. s[Len(c) + 1] = Calm(Live(stack, Len(stack))) /\ \A k \in 1 .. Len(at) : s[at[k]] = Calm(Live(stack, k))
  BY DEF Written
<1> HIDE DEF b
<1>2. PICK r : Body(c \o d, r, at, kinds, g) /\ Same(c \o d, at, s, r, b)
  <2>1. Body(c, s, at, kinds, l) /\ Leads(d, s[Len(c) + 1], b, g)
    BY <1>1 DEF b, Written
  <2> QED BY <2>1, WriteStraight
<1> DEFINE e == c \o d
<1>3. c \o (d \o <<i>>) = Append(e, i)
  BY <1>1, WriteStraight, Regroup
<1> HIDE DEF e
<1>4. Body(e, r, at, kinds, g) /\ r[Len(e) + 1] = b /\ ~ b.dead /\ r[at[m]] = b
  BY <1>1, <1>2 DEF e, b, Same, Calm
<1>5. Body(Append(e, i), Append(r, Nowhere), at, kinds, g)
  <2>1. g \subseteq g /\ ~ r[Len(e) + 1].dead /\ r[Len(e) + 1] = r[at[m]]
    BY <1>4
  <2> QED BY <1>4, <2>1, NowhereIsPoint, BodyJump
<1>6. /\ Append(r, Nowhere)[Len(Append(e, i)) + 1] = Nowhere
      /\ \A k \in 1 .. Len(at) : Append(r, Nowhere)[at[k]] = r[at[k]]
  <2>1. /\ e \in Seq(Instrs) /\ r \in Seq(Points) /\ Len(r) = Len(e) + 1 /\ Len(e) \in Nat
    BY <1>4, BodyTypes
  <2>2. \A k \in 1 .. Len(at) : at[k] \in 1 .. Len(e)
    BY <1>4 DEF Body, OpenAt
  <2>3. Len(Append(e, i)) + 1 = Len(r) + 1
    BY <2>1
  <2> QED BY <2>1, <2>2, <2>3, NowhereIsPoint
<1>7. Written(Append(e, i), Append(r, Nowhere), at, kinds, stack, TRUE, g)
  BY <1>1, <1>2, <1>5, <1>6, NowhereIsPoint DEF Written, Same
<1> QED BY <1>3, <1>7

\* The open blocks start with what the scopes around them hold.
Placed(s, at, stack) == \A k \in 1 .. Len(at) : s[at[k]] = Calm(Live(stack, k))

\* The code d behind c leads back to the start of the innermost block, or nowhere.
Closing(d, c, s, at, stack, g, b) ==
  Leads(d, s[Len(c) + 1], b, g) /\ (b.dead \/ b = Calm(Live(stack, Len(at))))

\* The innermost block turns to its second arm.
SecondArm(ks, at, kinds) ==
  /\ Len(ks) = Len(at) /\ ks[Len(at)] = "else" /\ \A k \in 1 .. Len(at) - 1 : ks[k] = kinds[k]

AliveTo(new, stack, n) == \A k \in 0 .. n : Live(new, k) = Live(stack, k)

\* The end of a first arm.
LEMMA WriteElse ==
  ASSUME NEW c, NEW s, NEW at, NEW kinds, NEW stack, NEW l, Body(c, s, at, kinds, l),
         Placed(s, at, stack), NEW g, l \subseteq g, NEW d, NEW b, Closing(d, c, s, at, stack, g, b),
         NEW i \in Instrs, i.op = "else", Len(at) >= 1, kinds[Len(at)] = "if",
         NEW ks, SecondArm(ks, at, kinds),
         NEW new, Len(new) = Len(at) + 1, AliveTo(new, stack, Len(at)), Live(new, Len(at) + 1) = Live(stack, Len(at))
  PROVE  \E r : Written(c \o (d \o <<i>>), r, at, ks, new, FALSE, g)
<1> USE DEF Placed, Closing, SecondArm, AliveTo
<1> DEFINE q == s[at[Len(at)]]  e == c \o d
<1>1. PICK r : Body(c \o d, r, at, kinds, g) /\ Same(c \o d, at, s, r, b)
  BY WriteStraight
<1>2. c \o (d \o <<i>>) = Append(e, i)
  BY WriteStraight, Regroup
<1> HIDE DEF e
<1>3. /\ Body(e, r, at, kinds, g) /\ r[Len(e) + 1] = b /\ \A k \in 1 .. Len(at) : r[at[k]] = s[at[k]]
  BY <1>1 DEF e, Same
<1>4. /\ e \in Seq(Instrs) /\ r \in Seq(Points) /\ Len(r) = Len(e) + 1 /\ Len(e) \in Nat /\ Len(at) \in Nat
      /\ \A k \in 1 .. Len(at) : at[k] \in 1 .. Len(e) /\ k \in 0 .. Len(at)
  <2>1. /\ e \in Seq(Instrs) /\ r \in Seq(Points) /\ Len(r) = Len(e) + 1 /\ Len(e) \in Nat /\ Len(at) \in Nat
    BY <1>3, BodyTypes
  <2>2. \A k \in 1 .. Len(at) : at[k] \in 1 .. Len(e)
    BY <1>3 DEF Body, OpenAt
  <2> QED BY <2>1, <2>2
<1>5. Len(at) \in 1 .. Len(at) /\ q = Calm(Live(stack, Len(at))) /\ r[at[Len(at)]] = q /\ q \in Points
  <2>1. Len(at) \in 1 .. Len(at)
    BY <1>4
  <2>2. r[at[Len(at)]] \in Points
    BY <1>4, <2>1
  <2> QED BY <1>3, <2>1, <2>2
<1> HIDE DEF q
<1>6. Body(Append(e, i), Append(r, q), at, ks, g)
  <2>1. g \subseteq g /\ (r[Len(e) + 1].dead \/ r[Len(e) + 1] = r[at[Len(at)]])
    BY <1>3, <1>5
  <2>2. Body(Append(e, i), Append(r, r[at[Len(at)]]), at, ks, g)
    <3>1. /\ Body(e, r, at, kinds, g) /\ g \subseteq g
          /\ r[Len(e) + 1].dead \/ r[Len(e) + 1] = r[at[Len(at)]]
          /\ Len(at) >= 1 /\ kinds[Len(at)] = "if"
          /\ Len(ks) = Len(at) /\ ks[Len(at)] = "else" /\ \A k \in 1 .. Len(at) - 1 : ks[k] = kinds[k]
      BY <1>3, <2>1
    <3> HIDE DEF SecondArm
    <3> QED BY <3>1, BodyElse
  <2> QED BY <1>5, <2>2
<1>7. Append(r, q)[Len(Append(e, i)) + 1] = q /\ \A k \in 1 .. Len(at) : Append(r, q)[at[k]] = r[at[k]]
  BY <1>4, <1>5
<1>8. \A k \in 1 .. Len(at) : Append(r, q)[at[k]] = Calm(Live(new, k))
  BY <1>3, <1>4, <1>7
<1>9. Written(Append(e, i), Append(r, q), at, ks, new, FALSE, g)
  BY <1>5, <1>6, <1>7, <1>8 DEF Written
<1> QED BY <1>2, <1>9

\* The end of a block.
LEMMA WriteEnd ==
  ASSUME NEW c, NEW s, NEW at, NEW kinds, NEW stack, NEW l, Body(c, s, at, kinds, l),
         Placed(s, at, stack), kinds \in Seq(Frames), NEW g, l \subseteq g,
         NEW d, NEW b, Closing(d, c, s, at, stack, g, b),
         NEW i \in Instrs, i.op = "end", Len(at) >= 1,
         NEW low \in Seq(Nat), NEW ks, Outer(low, ks, at, kinds),
         NEW new, Len(new) = Len(at), AliveTo(new, stack, Len(at))
  PROVE  \E r : Written(c \o (d \o <<i>>), r, low, ks, new, FALSE, g)
<1> USE DEF Placed, Closing, AliveTo
<1> DEFINE q == s[at[Len(at)]]  e == c \o d
<1>1. PICK r : Body(c \o d, r, at, kinds, g) /\ Same(c \o d, at, s, r, b)
  BY WriteStraight
<1>2. c \o (d \o <<i>>) = Append(e, i)
  BY WriteStraight, Regroup
<1> HIDE DEF e
<1>3. /\ Body(e, r, at, kinds, g) /\ r[Len(e) + 1] = b /\ \A k \in 1 .. Len(at) : r[at[k]] = s[at[k]]
  BY <1>1 DEF e, Same
<1>4. /\ e \in Seq(Instrs) /\ r \in Seq(Points) /\ Len(r) = Len(e) + 1 /\ Len(e) \in Nat /\ Len(at) \in Nat
      /\ \A k \in 1 .. Len(at) : at[k] \in 1 .. Len(e) /\ k \in 0 .. Len(at)
  <2>1. /\ e \in Seq(Instrs) /\ r \in Seq(Points) /\ Len(r) = Len(e) + 1 /\ Len(e) \in Nat /\ Len(at) \in Nat
    BY <1>3, BodyTypes
  <2>2. \A k \in 1 .. Len(at) : at[k] \in 1 .. Len(e)
    BY <1>3 DEF Body, OpenAt
  <2> QED BY <2>1, <2>2
<1>5. Len(at) \in 1 .. Len(at) /\ q = Calm(Live(stack, Len(at))) /\ r[at[Len(at)]] = q /\ q \in Points
  <2>1. Len(at) \in 1 .. Len(at)
    BY <1>4
  <2>2. r[at[Len(at)]] \in Points
    BY <1>4, <2>1
  <2> QED BY <1>3, <2>1, <2>2
<1> HIDE DEF q
<1>6. Body(Append(e, i), Append(r, q), low, ks, g)
  <2>1. g \subseteq g /\ (r[Len(e) + 1].dead \/ r[Len(e) + 1] = r[at[Len(at)]])
    BY <1>3, <1>5
  <2>2. Body(Append(e, i), Append(r, r[at[Len(at)]]), low, ks, g)
    <3>1. \A k \in 1 .. Len(at) : kinds[k] \in {"if", "else", "while"}
      <4>1. Len(kinds) = Len(at)
        BY BodyTypes
      <4> QED BY <4>1 DEF Frames
    <3> QED BY <1>3, <2>1, <3>1, BodyEnd
  <2> QED BY <1>5, <2>2
<1>7. Append(r, q)[Len(Append(e, i)) + 1] = q /\ \A k \in 1 .. Len(at) : Append(r, q)[at[k]] = r[at[k]]
  BY <1>4, <1>5
<1>8. \A k \in 1 .. Len(low) : Append(r, q)[low[k]] = Calm(Live(new, k))
  <2>1. \A k \in 1 .. Len(low) : k \in 1 .. Len(at) /\ low[k] = at[k]
    BY <1>4 DEF Outer
  <2> QED BY <1>3, <1>4, <1>7, <2>1
<1>9. q = Calm(Live(new, Len(new)))
  <2>1. Len(at) \in 0 .. Len(at)
    BY <1>4
  <2> QED BY <1>5, <2>1
<1>10. Written(Append(e, i), Append(r, q), low, ks, new, FALSE, g)
  BY <1>6, <1>7, <1>8, <1>9 DEF Written
<1> QED BY <1>2, <1>10

\* A block that opens.
LEMMA WriteOpen ==
  ASSUME NEW c, NEW s, NEW at, NEW kinds \in Seq(Frames), NEW stack, NEW l, Written(c, s, at, kinds, stack, FALSE, l),
         NEW i \in Instrs, i.op \in {"if", "while"}, Len(stack) = Len(at) + 1,
         NEW new, Len(new) = Len(at) + 2, \A k \in 0 .. Len(at) + 1 : Live(new, k) = Live(stack, k),
         Live(new, Len(at) + 2) = Live(stack, Len(at) + 1)
  PROVE  \E r : Written(c \o <<i>>, r, Append(at, Len(c) + 1), Append(kinds, i.op), new, FALSE, l)
<1> DEFINE q == s[Len(c) + 1]  r == Append(s, q)  wide == Append(at, Len(c) + 1)
<1>1. /\ Body(c, s, at, kinds, l) /\ q = Calm(Live(stack, Len(at) + 1)) /\ ~ q.dead
      /\ \A k \in 1 .. Len(at) : s[at[k]] = Calm(Live(stack, k))
  BY DEF Written, Calm
<1>2. /\ c \in Seq(Instrs) /\ s \in Seq(Points) /\ Len(s) = Len(c) + 1 /\ Len(c) \in Nat
      /\ at \in Seq(Nat) /\ Len(at) \in Nat /\ q \in Points
      /\ \A k \in 1 .. Len(at) : at[k] \in 1 .. Len(c)
  <2>1. \A k \in 1 .. Len(at) : at[k] \in 1 .. Len(c)
    BY <1>1 DEF Body, OpenAt
  <2> QED BY <1>1, <2>1, BodyTypes
<1>3. Body(Append(c, i), r, wide, Append(kinds, i.op), l)
  BY <1>1, BodyOpen
<1> HIDE DEF q
<1>4. c \o <<i>> = Append(c, i) /\ Len(Append(c, i)) = Len(c) + 1
  BY <1>2, OneMore
<1>5. /\ r[(Len(c) + 1) + 1] = q /\ r[Len(c) + 1] = q /\ \A k \in 1 .. Len(at) : r[at[k]] = s[at[k]]
  BY <1>2 DEF q
<1>6. Len(wide) = Len(at) + 1 /\ wide[Len(at) + 1] = Len(c) + 1 /\ \A k \in 1 .. Len(at) : wide[k] = at[k]
  BY <1>2
<1> HIDE DEF r, wide
<1>7. ASSUME NEW k \in 1 .. Len(at) + 1 PROVE r[wide[k]] = Calm(Live(new, k))
  <2>1. Live(new, k) = Live(stack, k)
    BY <1>2
  <2>2. CASE k = Len(at) + 1
    BY <1>1, <1>5, <1>6, <2>1, <2>2
  <2>3. CASE k \in 1 .. Len(at)
    BY <1>1, <1>5, <1>6, <2>1, <2>3
  <2> QED BY <1>2, <2>2, <2>3
<1>8. q = Calm(Live(new, Len(new)))
  BY <1>1
<1>9. Written(Append(c, i), r, wide, Append(kinds, i.op), new, FALSE, l)
  BY <1>3, <1>4, <1>5, <1>6, <1>7, <1>8 DEF Written
<1> QED BY <1>4, <1>9 DEF wide

-----------------------------------------------------------------------------
(* The body *)

\* What is written so far is code whose points the drop lists describe.
Stands(s, at) ==
  IF terminated THEN Written(ir, s, at, frames, scopes, TRUE, lapses)
                ELSE Written(ir, s, at, frames, scopes, FALSE, lapses)
BodyIs == \E s, at : Stands(s, at)

LEMMA CalmIsPoint ==
  ASSUME NEW stack, NEW top \in Slots, Ordered(stack, top), NEW i \in 0 .. Len(stack)
  PROVE  Calm(Live(stack, i)) \in Points
<1>1. Live(stack, i) \subseteq 1 .. top
  BY LiveIsBelow
<1>2. 1 .. top \subseteq Slots
  BY OwnershipAssumption DEF Slots
<1> QED BY <1>1, <1>2 DEF Calm, Points

\* A statement that emits one instruction.
LEMMA OneStatement ==
  ASSUME BodyIs, DropInv, ListsInv, ListsInv', terminated = FALSE, terminated' = FALSE, lapses \subseteq lapses',
         NEW i \in Instrs, i.op \notin Openers \cup {"end", "else", "break", "continue"},
         ir' = ir \o <<i>>, frames' = frames, Len(scopes') = Len(scopes),
         \A k \in 0 .. Len(scopes) - 1 : Live(scopes', k) = Live(scopes, k),
         Straight(i, Calm(Live(scopes, Len(scopes))), Calm(Live(scopes', Len(scopes'))), lapses')
  PROVE  BodyIs'
<1>1. PICK s, at : Written(ir, s, at, frames, scopes, FALSE, lapses)
  BY DEF BodyIs, Stands
<1>2. Len(scopes) = Len(at) + 1 /\ Len(scopes) \in Nat
  BY <1>1, BodyTypes DEF Written, DropInv, ShapeInv
<1>3. Calm(Live(scopes, Len(scopes))) \in Points /\ Calm(Live(scopes', Len(scopes'))) \in Points
  <2>1. Len(scopes) \in 0 .. Len(scopes) /\ Len(scopes') \in 0 .. Len(scopes')
    BY <1>2
  <2>2. slots \in Slots /\ slots' \in Slots /\ Ordered(scopes, slots) /\ Ordered(scopes', slots')
    BY DEF ListsInv
  <2> QED BY <2>1, <2>2, CalmIsPoint
<1>4. \E r : Written(ir \o <<i>>, r, at, frames, scopes', FALSE, lapses')
  BY <1>1, <1>2, <1>3, WriteOne
<1> QED BY <1>4 DEF BodyIs, Stands

LEMMA BodyLet ==
  ASSUME BodyIs, DropInv, ListsInv, NEW n \in Names, NEW src \in Names \cup {"new"}, Let(n, src), WalkInv', Tame'
  PROVE  BodyIs' /\ ListsInv'
<1> DEFINE t == SourceSlot(src)  L == Len(scopes)  i == Instr("let", slots', t)
<1>1. /\ ListsInv' /\ Len(scopes') = L
      /\ \A k \in 0 .. L - 1 : Live(scopes', k) = Live(scopes, k)
      /\ t \in Live(scopes, L) \cup {NoSlot}
      /\ Live(scopes', L) = (Live(scopes, L) \ {t}) \cup {slots'}
      /\ slots' \in Slots /\ slots' \notin Live(scopes, L)
  BY LetLists
<1>2. /\ ir' = ir \o <<i>> /\ frames' = frames /\ terminated = FALSE /\ terminated' = FALSE /\ lapses \subseteq lapses'
  BY DEF Let, Statement, Emit, WalkInv
<1>3. t \in 0 .. MaxLength + 1 /\ slots' \in 0 .. MaxLength + 1 /\ slots' # 0
  <2>1. slots' \in 0 .. MaxLength + 1 /\ slots' # 0
    BY <1>1, OwnershipAssumption DEF Slots
  <2>2. t \in 0 .. MaxLength + 1
    BY InstrTypes DEF SourceSlot
  <2> QED BY <2>1, <2>2
<1>4. i \in Instrs /\ i.op = "let" /\ i.s = slots' /\ i.t = t
  <2>1. "let" \in OpNames
    BY DEF OpNames
  <2> HIDE DEF t
  <2> QED BY <1>3, <2>1, InstrTypes DEF Instr
<1> HIDE DEF i, t, L
<1>5. Straight(i, Calm(Live(scopes, L)), Calm(Live(scopes', L)), lapses')
  BY <1>1, <1>3, <1>4 DEF Straight, Calm, NoSlot
<1>6. i.op \notin Openers \cup {"end", "else", "break", "continue"}
  BY <1>4 DEF Openers
<1> QED BY <1>1, <1>2, <1>4, <1>5, <1>6, OneStatement DEF L

LEMMA BodyAssign ==
  ASSUME BodyIs, DropInv, ListsInv, NEW n \in Names, NEW src \in Names \cup {"new"}, Assign(n, src), Tame'
  PROVE  BodyIs' /\ ListsInv'
<1> DEFINE s == FindVar(n)  t == SourceSlot(src)  L == Len(scopes)  i == Instr("assign", s, t)
<1>1. /\ ListsInv' /\ Len(scopes') = L
      /\ \A k \in 0 .. L - 1 : Live(scopes', k) = Live(scopes, k)
      /\ s \in Live(scopes, L) /\ t \in Live(scopes, L) \cup {NoSlot}
      /\ Live(scopes', L) = IF t = s THEN Live(scopes, L) ELSE Live(scopes, L) \ {t}
      /\ t = s => "self" \in lapses'
  BY AssignLists
<1>2. /\ ir' = ir \o <<i>> /\ frames' = frames /\ terminated = FALSE /\ terminated' = FALSE /\ lapses \subseteq lapses'
  BY DEF Assign, Statement, Emit, WalkInv
<1>3. t \in 0 .. MaxLength + 1 /\ s \in 0 .. MaxLength + 1
  BY InstrTypes DEF SourceSlot
<1>4. i \in Instrs /\ i.op = "assign" /\ i.s = s /\ i.t = t
  <2>1. "assign" \in OpNames
    BY DEF OpNames
  <2> HIDE DEF t, s
  <2> QED BY <1>3, <2>1, InstrTypes DEF Instr
<1> HIDE DEF i, t, s, L
<1>5. Straight(i, Calm(Live(scopes, L)), Calm(Live(scopes', L)), lapses')
  BY <1>1, <1>3, <1>4 DEF Straight, Calm, NoSlot
<1>6. i.op \notin Openers \cup {"end", "else", "break", "continue"}
  BY <1>4 DEF Openers
<1> QED BY <1>1, <1>2, <1>4, <1>5, <1>6, OneStatement DEF L

LEMMA BodyPass ==
  ASSUME BodyIs, DropInv, ListsInv, NEW n \in Names, Pass(n), Tame'
  PROVE  BodyIs' /\ ListsInv'
<1> DEFINE s == FindVar(n)  L == Len(scopes)  i == Instr("pass", s, NoSlot)
<1>1. /\ ListsInv' /\ Len(scopes') = L
      /\ \A k \in 0 .. L - 1 : Live(scopes', k) = Live(scopes, k)
      /\ s \in Live(scopes, L) /\ Live(scopes', L) = Live(scopes, L) \ {s}
  BY PassLists
<1>2. /\ ir' = ir \o <<i>> /\ frames' = frames /\ terminated = FALSE /\ terminated' = FALSE /\ lapses \subseteq lapses'
  BY DEF Pass, Statement, Emit, WalkInv
<1>4. i \in Instrs /\ i.op = "pass" /\ i.s = s
  <2>1. "pass" \in OpNames /\ s \in 0 .. MaxLength + 1
    BY InstrTypes DEF OpNames
  <2> HIDE DEF s
  <2> QED BY <2>1, InstrTypes DEF Instr
<1> HIDE DEF i, s, L
<1>5. Straight(i, Calm(Live(scopes, L)), Calm(Live(scopes', L)), lapses')
  BY <1>1, <1>4 DEF Straight, Calm
<1>6. i.op \notin Openers \cup {"end", "else", "break", "continue"}
  BY <1>4 DEF Openers
<1> QED BY <1>1, <1>2, <1>4, <1>5, <1>6, OneStatement DEF L

LEMMA BodyUse ==
  ASSUME BodyIs, DropInv, ListsInv, NEW n \in Names, Use(n), Tame'
  PROVE  BodyIs' /\ ListsInv'
<1> DEFINE s == FindVar(n)  L == Len(scopes)  i == Instr("use", s, NoSlot)
<1>1. /\ ir' = ir \o <<i>> /\ frames' = frames /\ terminated = FALSE /\ terminated' = FALSE
      /\ lapses' = lapses \cup Touch(s) /\ scopes' = scopes /\ slots' = slots /\ gone' = gone /\ s # NoSlot
  BY DEF Use, Statement, Emit, Admitted
<1>2. ListsInv'
  BY <1>1 DEF ListsInv
<1>3. s \in Live(scopes, L)
  <2>1. s \notin gone
    BY <1>1 DEF Touch, Tame
  <2> QED BY <1>1, <2>1, VarIsLive
<1>4. i \in Instrs /\ i.op = "use" /\ i.s = s
  <2>1. "use" \in OpNames /\ s \in 0 .. MaxLength + 1
    BY InstrTypes DEF OpNames
  <2> HIDE DEF s
  <2> QED BY <2>1, InstrTypes DEF Instr
<1> HIDE DEF i, s, L
<1>5. Straight(i, Calm(Live(scopes, L)), Calm(Live(scopes', L)), lapses')
  BY <1>1, <1>3, <1>4 DEF Straight, Calm
<1>6. i.op \notin Openers \cup {"end", "else", "break", "continue"}
  BY <1>4 DEF Openers
<1>7. Len(scopes') = Len(scopes) /\ lapses \subseteq lapses'
      /\ \A k \in 0 .. Len(scopes) - 1 : Live(scopes', k) = Live(scopes, k)
  BY <1>1
<1> QED BY <1>1, <1>2, <1>4, <1>5, <1>6, <1>7, OneStatement DEF L

LEMMA BodyDefer ==
  ASSUME BodyIs, DropInv, ListsInv, NEW n \in Names, Defer(n)
  PROVE  BodyIs' /\ ListsInv'
<1>1. ListsInv' /\ Len(scopes') = Len(scopes) /\ \A k \in 0 .. Len(scopes) : Live(scopes', k) = Live(scopes, k)
  BY DeferLists
<1>2. ir' = ir /\ frames' = frames /\ terminated = FALSE /\ terminated' = FALSE /\ lapses \subseteq lapses'
  BY DEF Defer, Statement
<1>3. PICK s, at : Written(ir, s, at, frames, scopes, FALSE, lapses)
  BY <1>2 DEF BodyIs, Stands
<1>4. Body(ir, s, at, frames, lapses) /\ Len(scopes) = Len(at) + 1 /\ Len(at) \in Nat
  BY <1>3, BodyTypes DEF Written, DropInv, ShapeInv
<1>5. Body(ir, s, at, frames, lapses')
  <2>1. \A p \in 1 .. Len(ir) : Step(ir, s, lapses', p)
    BY <1>2, <1>4, StraightGrows DEF Step, Body
  <2> QED BY <1>4, <2>1 DEF Body
<1>6. \A k \in 1 .. Len(at) : s[at[k]] = Calm(Live(scopes', k))
  BY <1>1, <1>3, <1>4 DEF Written
<1>7. s[Len(ir) + 1] = Calm(Live(scopes', Len(scopes')))
  BY <1>1, <1>3, <1>4 DEF Written
<1>8. Written(ir', s, at, frames', scopes', FALSE, lapses')
  <2>1. Written(ir, s, at, frames, scopes', FALSE, lapses')
    BY <1>5, <1>6, <1>7 DEF Written
  <2> QED BY <1>2, <2>1
<1>9. \E r, o : Written(ir', r, o, frames', scopes', FALSE, lapses')
  BY <1>8
<1> QED BY <1>1, <1>2, <1>9 DEF BodyIs, Stands

\* A block opens.
LEMMA BodyBlock ==
  ASSUME BodyIs, DropInv, ListsInv, NEW op \in {"if", "while"}, Open(op)
  PROVE  BodyIs' /\ ListsInv'
<1> DEFINE L == Len(scopes)  i == Instr(op, NoSlot, NoSlot)
<1>1. /\ ListsInv' /\ Len(scopes') = L + 1 /\ Live(scopes', L + 1) = Live(scopes, L)
      /\ \A k \in 0 .. L : Live(scopes', k) = Live(scopes, k)
  BY BlockLists
<1>2. /\ ir' = ir \o <<i>> /\ frames' = Append(frames, op) /\ terminated = FALSE /\ terminated' = FALSE /\ lapses' = lapses
  BY DEF Open, Statement, Emit
<1>3. i \in Instrs /\ i.op = op
  <2>1. op \in OpNames
    BY DEF OpNames
  <2> QED BY <2>1, InstrTypes DEF Instr
<1> HIDE DEF i
<1>4. PICK s, at : Written(ir, s, at, frames, scopes, FALSE, lapses)
  BY <1>2 DEF BodyIs, Stands
<1>5. Body(ir, s, at, frames, lapses) /\ L = Len(at) + 1 /\ Len(at) \in Nat /\ frames \in Seq(Frames)
  BY <1>4, BodyTypes DEF Written, DropInv, ShapeInv
<1>6. Len(scopes') = Len(at) + 2 /\ Live(scopes', Len(at) + 2) = Live(scopes, Len(at) + 1)
      /\ \A k \in 0 .. Len(at) + 1 : Live(scopes', k) = Live(scopes, k)
  <2>1. L + 1 = Len(at) + 2
    BY <1>5
  <2> QED BY <1>1, <1>5, <2>1
<1>7. \E r : Written(ir \o <<i>>, r, Append(at, Len(ir) + 1), Append(frames, i.op), scopes', FALSE, lapses)
  BY <1>3, <1>4, <1>5, <1>6, WriteOpen
<1>8. \E r, o : Written(ir', r, o, frames', scopes', FALSE, lapses')
  BY <1>2, <1>3, <1>7
<1> QED BY <1>1, <1>2, <1>8 DEF BodyIs, Stands

\* What a fall-through end adds to the lapses.
PopLapses == IF terminated THEN lapses ELSE lapses \cup Exit(Len(scopes), {})

\* The drops at the end of a block lead back to its start, unless nothing gets there.
LEMMA PopWay ==
  ASSUME DropInv, ListsInv, NEW s, NEW at,
         Stands(s, at), NEW g, g = PopLapses
  PROVE  /\ Body(ir, s, at, frames, lapses) /\ Placed(s, at, scopes)
         /\ Len(scopes) = Len(at) + 1 /\ Len(at) \in Nat /\ Len(frames) = Len(at) /\ at \in Seq(Nat)
         /\ lapses \subseteq g
         /\ \E b : Closing(PopDrops, ir, s, at, scopes, g, b)
<1> USE DEF Stands, Placed, Closing, PopLapses
<1>1. Body(ir, s, at, frames, lapses) /\ \A k \in 1 .. Len(at) : s[at[k]] = Calm(Live(scopes, k))
  BY DEF Written
<1>2. /\ Len(scopes) = Len(at) + 1 /\ Len(at) \in Nat /\ Len(frames) = Len(at) /\ at \in Seq(Nat)
      /\ s[Len(ir) + 1] \in Points
  BY <1>1, BodyTypes DEF DropInv, ShapeInv
<1>3. CASE terminated
  <2>1. Leads(PopDrops, s[Len(ir) + 1], s[Len(ir) + 1], g)
    BY <1>2, <1>3, LeadsNowhere DEF PopDrops
  <2>2. s[Len(ir) + 1].dead
    BY <1>3 DEF Written
  <2> QED BY <1>1, <1>2, <1>3, <2>1, <2>2
<1>4. CASE ~ terminated
  <2>1. g = lapses \cup Exit(Len(scopes), {})
    BY <1>4
  <2>2. g = {} => Exit(Len(scopes), {}) = {}
    BY <2>1
  <2>3. Leads(ScopeDrops(Len(scopes), {}), Calm(Live(scopes, Len(scopes))), Calm(Live(scopes, Len(scopes) - 1)), g)
    BY <2>2, PopLeads
  <2>4. s[Len(ir) + 1] = Calm(Live(scopes, Len(scopes))) /\ PopDrops = ScopeDrops(Len(scopes), {}) /\ Len(scopes) - 1 = Len(at)
    BY <1>2, <1>4 DEF Written, PopDrops
  <2>5. Leads(PopDrops, s[Len(ir) + 1], Calm(Live(scopes, Len(at))), g)
    BY <2>3, <2>4
  <2> QED BY <1>1, <1>2, <2>1, <2>5
<1> QED BY <1>3, <1>4

LEMMA BodyElseArm ==
  ASSUME BodyIs, DropInv, ListsInv, Else
  PROVE  BodyIs' /\ ListsInv'
<1> DEFINE L == Len(scopes)  i == Instr("else", NoSlot, NoSlot)
<1>1. /\ ListsInv' /\ Len(scopes') = L /\ Live(scopes', L) = Live(scopes, L - 1)
      /\ \A k \in 0 .. L - 1 : Live(scopes', k) = Live(scopes, k)
  BY BlockLists
<1>2. /\ ir' = ir \o (PopDrops \o <<i>>) /\ frames' = Append(Front(frames), "else") /\ terminated' = FALSE
      /\ lapses' = PopLapses
      /\ frames # <<>> /\ Last(frames) = "if"
  BY DEF Else, Emit, PopLapses
<1>3. i \in Instrs /\ i.op = "else"
  <2>1. "else" \in OpNames
    BY DEF OpNames
  <2> QED BY <2>1, InstrTypes DEF Instr
<1> HIDE DEF i
<1>4. PICK s, at : Stands(s, at)
  BY DEF BodyIs
<1>5. /\ Body(ir, s, at, frames, lapses) /\ Placed(s, at, scopes)
      /\ L = Len(at) + 1 /\ Len(at) \in Nat /\ Len(frames) = Len(at)
      /\ lapses \subseteq lapses'
      /\ \E b : Closing(PopDrops, ir, s, at, scopes, lapses', b)
  BY <1>2, <1>4, PopWay
<1>6. PICK b : Closing(PopDrops, ir, s, at, scopes, lapses', b)
  BY <1>5
<1>7. Len(at) >= 1 /\ frames[Len(at)] = "if" /\ SecondArm(frames', at, frames)
  <2>1. frames \in Seq(Frames) /\ Len(frames) >= 1 /\ frames[Len(frames)] = "if"
    BY <1>2 DEF DropInv, ShapeInv, Last
  <2>2. Len(frames) - 1 \in Nat /\ Len(frames) = (Len(frames) - 1) + 1
    BY <2>1
  <2>3. /\ Front(frames) \in Seq(Frames) /\ Len(Front(frames)) = Len(frames) - 1
        /\ \A k \in 1 .. Len(frames) - 1 : Front(frames)[k] = frames[k]
    BY <2>1, <2>2, FrontOf
  <2>4. "else" \in Frames
    BY DEF Frames
  <2> QED BY <1>2, <1>5, <2>1, <2>2, <2>3, <2>4 DEF SecondArm
<1>8. Len(scopes') = Len(at) + 1 /\ Live(scopes', Len(at) + 1) = Live(scopes, Len(at))
      /\ AliveTo(scopes', scopes, Len(at))
  <2>1. L - 1 = Len(at)
    BY <1>5
  <2> QED BY <1>1, <1>5, <2>1 DEF AliveTo
<1>9. \E r : Written(ir \o (PopDrops \o <<i>>), r, at, frames', scopes', FALSE, lapses')
  BY <1>3, <1>5, <1>6, <1>7, <1>8, WriteElse
<1>10. \E r, o : Written(ir', r, o, frames', scopes', FALSE, lapses')
  BY <1>2, <1>9
<1> QED BY <1>1, <1>2, <1>10 DEF BodyIs, Stands

LEMMA BodyBlockEnd ==
  ASSUME BodyIs, DropInv, ListsInv, EndBlock
  PROVE  BodyIs' /\ ListsInv'
<1> DEFINE L == Len(scopes)  i == Instr("end", NoSlot, NoSlot)
<1>1. ListsInv' /\ Len(scopes') = L - 1 /\ \A k \in 0 .. L - 1 : Live(scopes', k) = Live(scopes, k)
  BY BlockLists
<1>2. /\ ir' = ir \o (PopDrops \o <<i>>) /\ frames' = Front(frames) /\ terminated' = FALSE
      /\ lapses' = PopLapses
      /\ frames # <<>>
  BY DEF EndBlock, Emit, PopLapses
<1>3. i \in Instrs /\ i.op = "end"
  <2>1. "end" \in OpNames
    BY DEF OpNames
  <2> QED BY <2>1, InstrTypes DEF Instr
<1> HIDE DEF i
<1>4. PICK s, at : Stands(s, at)
  BY DEF BodyIs
<1>5. /\ Body(ir, s, at, frames, lapses) /\ Placed(s, at, scopes)
      /\ L = Len(at) + 1 /\ Len(at) \in Nat /\ Len(frames) = Len(at) /\ at \in Seq(Nat)
      /\ lapses \subseteq lapses'
      /\ \E b : Closing(PopDrops, ir, s, at, scopes, lapses', b)
  BY <1>2, <1>4, PopWay
<1>6. PICK b : Closing(PopDrops, ir, s, at, scopes, lapses', b)
  BY <1>5
<1> DEFINE low == Front(at)
<1>7. /\ Len(at) >= 1 /\ low \in Seq(Nat) /\ Outer(low, frames', at, frames)
      /\ frames \in Seq(Frames)
  <2>1. frames \in Seq(Frames) /\ Len(frames) >= 1 /\ at \in Seq(Nat)
    BY <1>2, <1>5 DEF DropInv, ShapeInv
  <2>2. Len(at) - 1 \in Nat /\ Len(at) = (Len(at) - 1) + 1 /\ Len(frames) = (Len(at) - 1) + 1
    BY <1>5, <2>1
  <2>3. /\ Len(Front(frames)) = Len(at) - 1 /\ \A k \in 1 .. Len(at) - 1 : Front(frames)[k] = frames[k]
    BY <2>1, <2>2, FrontOf
  <2>4. low \in Seq(Nat) /\ Len(low) = Len(at) - 1 /\ \A k \in 1 .. Len(at) - 1 : low[k] = at[k]
    <3>1. at \in Seq(Nat) /\ Len(at) - 1 \in Nat /\ Len(at) = (Len(at) - 1) + 1
      BY <2>1, <2>2
    <3> DEFINE S == Nat  n == Len(at) - 1
    <3>2. at \in Seq(S) /\ n \in Nat /\ Len(at) = n + 1
      BY <3>1
    <3> HIDE DEF S, n
    <3>3. Front(at) \in Seq(S) /\ Len(Front(at)) = n /\ \A k \in 1 .. n : Front(at)[k] = at[k]
      BY <3>2, FrontOf
    <3> QED BY <3>3 DEF S, n
  <2> QED BY <1>2, <1>5, <2>1, <2>3, <2>4 DEF Outer
<1> HIDE DEF low
<1>8. Len(scopes') = Len(at) /\ AliveTo(scopes', scopes, Len(at))
  <2>1. L - 1 = Len(at)
    BY <1>5
  <2> QED BY <1>1, <1>5, <2>1 DEF AliveTo
<1>9. \E r : Written(ir \o (PopDrops \o <<i>>), r, low, frames', scopes', FALSE, lapses')
  BY <1>3, <1>5, <1>6, <1>7, <1>8, WriteEnd
<1>10. \E r, o : Written(ir', r, o, frames', scopes', FALSE, lapses')
  BY <1>2, <1>9
<1> QED BY <1>1, <1>2, <1>10 DEF BodyIs, Stands

\* An exit that ends the block: a jump leaves the innermost loop's scopes, a return all.
LEMMA BodyLeaveTurn ==
  ASSUME BodyIs, DropInv, ListsInv, NEW op \in {"break", "continue"}, LeaveTurn(op)
  PROVE  BodyIs' /\ ListsInv'
<1> DEFINE i == Instr(op, NoSlot, NoSlot)  W == {k \in DOMAIN frames : frames[k] = "while"}  m == Max(W)  d == Unwind(LoopScope, {})
<1>1. /\ ir' = ir \o (d \o <<i>>) /\ frames' = frames /\ scopes' = scopes /\ terminated = FALSE /\ terminated' = TRUE
      /\ lapses' = lapses \cup Exit(LoopScope, {}) /\ slots' = slots /\ gone' = gone /\ "while" \in ToSet(frames)
  BY DEF LeaveTurn, Statement, Emit
<1>2. i \in Instrs /\ i.op = op
  <2>1. op \in OpNames
    BY DEF OpNames
  <2> QED BY <2>1, InstrTypes DEF Instr
<1>3. PICK s, at : Written(ir, s, at, frames, scopes, FALSE, lapses)
  BY <1>1 DEF BodyIs, Stands
<1>4. /\ Body(ir, s, at, frames, lapses) /\ Len(scopes) = Len(at) + 1 /\ Len(at) \in Nat
      /\ frames \in Seq(Frames) /\ Len(frames) = Len(at)
  BY <1>3, BodyTypes DEF Written, DropInv, ShapeInv
<1>5. m \in W /\ \A k \in W : k <= m
  <2>1. W \in SUBSET (1 .. Len(at))
    BY <1>4
  <2>2. W # {}
    BY <1>1, <1>4 DEF ToSet
  <2> HIDE DEF W
  <2> QED BY <1>4, <2>1, <2>2, GreatestUpTo
<1>6. /\ m \in 1 .. Len(at) /\ frames[m] = "while"
      /\ \A k \in 1 .. Len(at) : frames[k] = "while" => k <= m
  BY <1>4, <1>5
<1>7. LoopScope = 1 + m
  BY DEF LoopScope
<1> HIDE DEF i, W, m
<1>8. Leads(d, Calm(Live(scopes, Len(scopes))), Calm(Live(scopes, m)), lapses')
  <2>1. LoopScope \in 1 .. Len(scopes) /\ LoopScope - 1 = m
    BY <1>4, <1>6, <1>7
  <2>2. lapses' = {} => Exit(LoopScope, {}) = {}
    BY <1>1
  <2>3. Leads(d, Calm(Live(scopes, Len(scopes))), Calm(Live(scopes, LoopScope - 1)), lapses')
    BY <2>1, <2>2, LeaveLeads
  <2> QED BY <2>1, <2>3
<1> HIDE DEF d
<1>9. \E r : Written(ir \o (d \o <<i>>), r, at, frames, scopes, TRUE, lapses')
  <2>1. lapses \subseteq lapses' /\ \A k \in 1 .. Len(at) : frames[k] \in {"if", "else", "while"}
    BY <1>1, <1>4 DEF Frames
  <2> QED BY <1>2, <1>3, <1>6, <1>8, <2>1, WriteJump
<1>10. \E r, o : Written(ir', r, o, frames', scopes', TRUE, lapses')
  BY <1>1, <1>9
<1> QED BY <1>1, <1>10 DEF BodyIs, Stands, ListsInv

LEMMA LiveNone ==
  ASSUME NEW stack
  PROVE  Live(stack, 0) = {}
<1>1. \A j : ~ (j \in 1 .. 0)
  OBVIOUS
<1> QED BY <1>1 DEF Live

\* The walk has left the function: its code is complete.
LEMMA BodyReturn ==
  ASSUME BodyIs, DropInv, ListsInv, Return
  PROVE  BodyIs' /\ ListsInv'
<1> DEFINE i == Instr("ret", NoSlot, NoSlot)  d == Unwind(1, {})
<1>1. /\ ir' = ir \o (d \o <<i>>) /\ frames' = frames /\ scopes' = scopes /\ terminated = FALSE /\ terminated' = TRUE
      /\ lapses' = lapses \cup Exit(1, {}) /\ slots' = slots /\ gone' = gone
  BY DEF Return, Statement, Emit
<1>2. i \in Instrs /\ i.op = "ret"
  <2>1. "ret" \in OpNames
    BY DEF OpNames
  <2> QED BY <2>1, InstrTypes DEF Instr
<1>3. PICK s, at : Written(ir, s, at, frames, scopes, FALSE, lapses)
  BY <1>1 DEF BodyIs, Stands
<1> HIDE DEF i
<1>4. Leads(d, Calm(Live(scopes, Len(scopes))), Calm({}), lapses')
  <2>1. 1 \in 1 .. Len(scopes) /\ 1 - 1 = 0
    BY DEF DropInv, ShapeInv
  <2>2. lapses' = {} => Exit(1, {}) = {}
    BY <1>1
  <2>3. Leads(d, Calm(Live(scopes, Len(scopes))), Calm(Live(scopes, 1 - 1)), lapses')
    BY <2>1, <2>2, LeaveLeads
  <2> QED BY <2>1, <2>3, LiveNone
<1> HIDE DEF d
<1>5. \E r : Written(ir \o (d \o <<i>>), r, at, frames, scopes, TRUE, lapses')
  <2>1. lapses \subseteq lapses' /\ ~ Calm({}).dead /\ Calm({}).live \subseteq {Calm({}).res}
    BY <1>1 DEF Calm
  <2> QED BY <1>2, <1>3, <1>4, <2>1, WriteReturn
<1>6. \E r, o : Written(ir', r, o, frames', scopes', TRUE, lapses')
  BY <1>1, <1>5
<1> QED BY <1>1, <1>6 DEF BodyIs, Stands, ListsInv

LEMMA BodyReturnValue ==
  ASSUME BodyIs, DropInv, ListsInv, NEW n \in Names, ReturnValue(n), Tame'
  PROVE  BodyIs' /\ ListsInv'
<1> DEFINE i == Instr("ret", NoSlot, NoSlot)  x == FindVar(n)  j == Instr("load", x, NoSlot)  u == Unwind(1, {n})
           d == <<j>> \o u  a == [live |-> Live(scopes, Len(scopes)), res |-> x, dead |-> FALSE]  b == Behind(0, {n}, x)
<1>1. /\ ir' = ir \o ((<<j>> \o u) \o <<i>>) /\ frames' = frames /\ scopes' = scopes
      /\ terminated = FALSE /\ terminated' = TRUE
      /\ lapses' = lapses \cup Touch(x) \cup Exit(1, {n}) /\ slots' = slots /\ gone' = gone /\ x # NoSlot
  BY DEF ReturnValue, Statement, Emit, Suppressed, Admitted
<1>2. /\ i \in Instrs /\ i.op = "ret" /\ j \in Instrs /\ j.op = "load" /\ j.s = x
  <2>1. "ret" \in OpNames /\ "load" \in OpNames
    BY DEF OpNames
  <2> HIDE DEF x
  <2>2. x \in 0 .. MaxLength + 1
    BY InstrTypes DEF x
  <2> QED BY <2>1, <2>2, InstrTypes DEF Instr
<1>3. PICK s, at : Written(ir, s, at, frames, scopes, FALSE, lapses)
  BY <1>1 DEF BodyIs, Stands
<1>4. x \in Live(scopes, Len(scopes))
  <2>1. x \notin gone
    BY <1>1 DEF Touch, Tame
  <2> QED BY <1>1, <2>1, VarIsLive
<1>5. /\ a \in Points /\ Leads(u, a, b, lapses') /\ b.res = x /\ b.dead = FALSE
      /\ "shadow" \notin Exit(1, {n}) => b.live \subseteq {x}
  <2>1. lapses' = {} => Exit(1, {n}) = {}
    BY <1>1
  <2> QED BY <1>1, <2>1, ReturnLeads
<1>6. Calm(Live(scopes, Len(scopes))) \in Points
  <2>1. Len(scopes) \in 0 .. Len(scopes)
    BY DEF DropInv, ShapeInv
  <2> QED BY <2>1, CalmIsPoint DEF ListsInv
<1> HIDE DEF i, j, x, u, b
<1>7. Leads(<<j>>, Calm(Live(scopes, Len(scopes))), a, lapses')
  <2>1. j.op \notin Openers \cup {"end", "else", "break", "continue"}
    BY <1>2 DEF Openers
  <2>2. Straight(j, Calm(Live(scopes, Len(scopes))), a, lapses')
    BY <1>2, <1>4 DEF Straight, Calm
  <2> QED BY <1>2, <1>5, <1>6, <2>1, <2>2, LeadsOne
<1> HIDE DEF a
<1>8. Leads(d, Calm(Live(scopes, Len(scopes))), b, lapses')
  BY <1>5, <1>7, LeadsOn
<1>9. ir' = ir \o (d \o <<i>>)
  BY <1>1
<1> HIDE DEF d
<1>10. \E r : Written(ir \o (d \o <<i>>), r, at, frames, scopes, TRUE, lapses')
  <2>1. lapses \subseteq lapses' /\ ~ b.dead /\ ("shadow" \in lapses' \/ b.live \subseteq {b.res})
    BY <1>1, <1>5
  <2> QED BY <1>2, <1>3, <1>8, <2>1, WriteReturn
<1>11. \E r, o : Written(ir', r, o, frames', scopes', TRUE, lapses')
  BY <1>1, <1>9, <1>10
<1> QED BY <1>1, <1>11 DEF BodyIs, Stands, ListsInv

\* The code is complete: all blocks are closed, and nothing gets behind its end.
Complete(c, s, l) ==
  /\ c \in Seq(Instrs) /\ s \in Seq(Points) /\ Len(s) = Len(c) + 1 /\ s[1] = Calm({1}) /\ s[Len(c) + 1].dead
  /\ \A p \in 1 .. Len(c) : Step(c, s, l, p) /\ Nested(c, <<>>, p)
CodeIs == \E s : Complete(ir, s, lapses)

LEMMA Completes ==
  ASSUME NEW c, NEW s, NEW at, NEW kinds, kinds = <<>>, NEW stack, NEW l, Written(c, s, at, kinds, stack, TRUE, l)
  PROVE  Complete(c, s, l)
<1>1. Body(c, s, at, kinds, l) /\ s[Len(c) + 1].dead
  BY DEF Written
<1>2. at = <<>>
  <2>1. at \in Seq(Nat) /\ Len(at) = 0
    BY <1>1, BodyTypes
  <2> QED BY <2>1
<1> QED BY <1>1, <1>2 DEF Complete, Body

LEMMA BodyFinish ==
  ASSUME BodyIs, DropInv, ListsInv, Finish
  PROVE  CodeIs'
<1> DEFINE i == Instr("ret", NoSlot, NoSlot)
<1>1. frames = <<>> /\ frames' = frames /\ scopes' = scopes
  BY DEF Finish
<1>2. PICK s, at : Stands(s, at)
  BY DEF BodyIs
<1>3. CASE terminated
  <2>1. ir' = ir \o (<<>> \o <<>>) /\ lapses' = lapses
    BY <1>3 DEF Finish, Emit, PopDrops
  <2>2. Written(ir, s, at, frames, scopes, TRUE, lapses)
    BY <1>2, <1>3 DEF Stands
  <2>3. ir \in Seq(Instrs)
    BY <2>2, BodyTypes DEF Written
  <2>4. ir' = ir
    BY <2>1, <2>3
  <2>5. \E r, o : Written(ir', r, o, frames', scopes', TRUE, lapses')
    BY <1>1, <2>1, <2>2, <2>4
  <2> QED BY <1>1, <2>5, Completes DEF CodeIs
<1>4. CASE ~ terminated
  <2> DEFINE d == ScopeDrops(Len(scopes), {})
  <2>1. ir' = ir \o (d \o <<i>>) /\ lapses' = lapses \cup Exit(1, {})
    BY <1>4 DEF Finish, Emit, PopDrops
  <2>2. Written(ir, s, at, frames, scopes, FALSE, lapses)
    BY <1>2, <1>4 DEF Stands
  <2>3. i \in Instrs /\ i.op = "ret"
    <3>1. "ret" \in OpNames
      BY DEF OpNames
    <3> QED BY <3>1, InstrTypes DEF Instr
  <2> HIDE DEF i
  <2>4. Leads(d, Calm(Live(scopes, Len(scopes))), Calm({}), lapses')
    <3>1. Len(scopes) = 1 /\ Len(scopes) - 1 = 0
      BY <1>1 DEF DropInv, ShapeInv
    <3>2. lapses' = {} => Exit(Len(scopes), {}) = {}
      BY <2>1, <3>1
    <3>3. Leads(d, Calm(Live(scopes, Len(scopes))), Calm(Live(scopes, Len(scopes) - 1)), lapses')
      BY <3>2, PopLeads
    <3> QED BY <3>1, <3>3, LiveNone
  <2> HIDE DEF d
  <2>5. \E r : Written(ir \o (d \o <<i>>), r, at, frames, scopes, TRUE, lapses')
    <3>1. lapses \subseteq lapses' /\ ~ Calm({}).dead /\ Calm({}).live \subseteq {Calm({}).res}
      BY <2>1 DEF Calm
    <3> QED BY <2>2, <2>3, <2>4, <3>1, WriteReturn
  <2>6. \E r, o : Written(ir', r, o, frames', scopes', TRUE, lapses')
    BY <1>1, <2>1, <2>5
  <2> QED BY <1>1, <2>6, Completes DEF CodeIs
<1> QED BY <1>3, <1>4

-----------------------------------------------------------------------------
(* The run *)

\* At a point that the run may get to: every value that is alive is in one of the
\* live slots, and, unless a variable was moved to its own name, each of these
\* holds one, and by right.
Holds(live, c, now, own, l) ==
  /\ \A v \in now : \E x \in live : c[x] = v
  /\ "self" \notin l => \A x \in live : c[x] \in now /\ own[c[x]] = x
Result(a, c, r) == a.res \in a.live \cup {0} /\ r = IF a.res = 0 THEN 0 ELSE c[a.res]
RunsAt(a, c, now, own, r, l) == ~ a.dead /\ Holds(a.live, c, now, own, l) /\ Result(a, c, r)

LEMMA OwnerTypes ==
  ASSUME ValueInv
  PROVE  /\ Len(owner) \in Nat /\ \A v \in alive : v \in 1 .. Len(owner)
         /\ content \in [Slots -> 0 .. Len(owner)] /\ DOMAIN content = Slots
         /\ \A s : /\ Append(owner, s)[Len(owner) + 1] = s
                   /\ \A v \in 1 .. Len(owner) : Append(owner, s)[v] = owner[v]
         /\ \A s, h : \A v \in 1 .. Len(owner) : [owner EXCEPT ![h] = s][v] = IF v = h THEN s ELSE owner[v]
<1>1. PICK S : owner \in Seq(S)
  BY DEF ValueInv
<1>2. Len(owner) \in Nat /\ DOMAIN owner = 1 .. Len(owner)
  BY <1>1
<1>3. ASSUME NEW s
      PROVE  /\ Append(owner, s)[Len(owner) + 1] = s
             /\ \A v \in 1 .. Len(owner) : Append(owner, s)[v] = owner[v]
  <2>1. owner \in Seq(S \cup {s})
    <3>1. owner = [k \in 1 .. Len(owner) |-> owner[k]] /\ \A k \in 1 .. Len(owner) : owner[k] \in S \cup {s}
      BY <1>1, <1>2
    <3> QED BY <1>2, <3>1
  <2> QED BY <2>1
<1>4. ASSUME NEW s, NEW h, NEW v \in 1 .. Len(owner)
      PROVE  [owner EXCEPT ![h] = s][v] = IF v = h THEN s ELSE owner[v]
  BY <1>2
<1> QED BY <1>2, <1>3, <1>4 DEF ValueInv

\* A new value is put into a slot that may hold one, which is then given up.
LEMMA StoreNew ==
  ASSUME ValueInv, NEW live \in SUBSET Slots, NEW s \in Slots, Holds(live, content, alive, owner, lapses), Store(s, NoSlot),
         \/ s \notin live /\ alive' = alive \cup {Incoming(NoSlot)}
         \/ s \in live /\ alive' = (alive \cup {Incoming(NoSlot)}) \ {content[s]}
  PROVE  Holds(live \cup {s}, content', alive', owner', lapses)
<1> DEFINE N == Len(owner)
<1>1. /\ N \in Nat /\ \A v \in alive : v \in 1 .. N
      /\ content \in [Slots -> 0 .. N] /\ owner' = Append(owner, s)
      /\ owner'[N + 1] = s /\ \A v \in 1 .. N : owner'[v] = owner[v]
  BY OwnerTypes DEF Store
<1>2. /\ content' = [content EXCEPT ![s] = N + 1]
      /\ \/ s \notin live /\ alive' = alive \cup {N + 1}
         \/ s \in live /\ alive' = (alive \cup {N + 1}) \ {content[s]}
  BY DEF Store, Incoming, NoSlot
<1> HIDE DEF N
<1>3. content'[s] = N + 1 /\ \A x \in live : x # s => content'[x] = content[x]
  BY <1>1, <1>2
<1>4. content[s] \in 0 .. N /\ content[s] # N + 1
  BY <1>1
<1>5. ASSUME NEW v \in alive' PROVE \E x \in live \cup {s} : content'[x] = v
  <2>1. CASE v = N + 1
    BY <1>3, <2>1
  <2>2. CASE v # N + 1
    <3>1. v \in alive /\ (s \in live => v # content[s])
      BY <1>2, <2>2
    <3>2. PICK x \in live : content[x] = v
      BY <3>1 DEF Holds
    <3>3. x # s
      BY <3>1, <3>2
    <3> QED BY <1>3, <3>2, <3>3
  <2> QED BY <2>1, <2>2
<1>6. ASSUME "self" \notin lapses, NEW x \in live \cup {s}
      PROVE  content'[x] \in alive' /\ owner'[content'[x]] = x
  <2>1. CASE x = s
    BY <1>1, <1>2, <1>3, <1>4, <2>1
  <2>2. CASE x # s
    <3>1. x \in live /\ content[x] \in alive /\ owner[content[x]] = x /\ content'[x] = content[x]
      BY <1>3, <1>6, <2>2 DEF Holds
    <3>2. s \in live => content[x] # content[s]
      BY <1>6, <2>2, <3>1 DEF Holds
    <3>3. content[x] \in alive'
      BY <1>2, <3>1, <3>2
    <3>4. owner'[content[x]] = owner[content[x]]
      BY <1>1, <3>1
    <3> QED BY <3>1, <3>3, <3>4
  <2> QED BY <2>1, <2>2
<1> QED BY <1>5, <1>6 DEF Holds

\* A value moves from slot t to slot s, whose value is given up.
LEMMA StoreMoved ==
  ASSUME ValueInv, NEW live \in SUBSET Slots, NEW s \in Slots, NEW t \in live, s # t, t # NoSlot, ~ Dead(t),
         Holds(live, content, alive, owner, lapses), Store(s, t),
         \/ s \notin live /\ alive' = alive \cup {Incoming(t)}
         \/ s \in live /\ alive' = (alive \cup {Incoming(t)}) \ {content[s]}
  PROVE  Holds((live \ {t}) \cup {s}, content', alive', owner', lapses)
<1> DEFINE v == content[t]
<1>1. v \in alive /\ Incoming(t) = v /\ v \in 1 .. Len(owner)
  BY OwnerTypes DEF Dead, Held, Incoming
<1>2. /\ content' = [content EXCEPT ![s] = v] /\ owner' = [owner EXCEPT ![v] = s]
      /\ DOMAIN content = Slots
      /\ \/ s \notin live /\ alive' = alive \cup {v}
         \/ s \in live /\ alive' = (alive \cup {v}) \ {content[s]}
  BY <1>1, OwnerTypes DEF Store, Held
<1>3. \A w \in alive : owner'[w] = IF w = v THEN s ELSE owner[w]
  BY <1>2, OwnerTypes
<1>4. content'[s] = v /\ \A x \in live : x # s => content'[x] = content[x]
  BY <1>2
<1>5. ASSUME NEW w \in alive' PROVE \E x \in (live \ {t}) \cup {s} : content'[x] = w
  <2>1. CASE w = v
    BY <1>4, <2>1
  <2>2. CASE w # v
    <3>1. w \in alive /\ (s \in live => w # content[s])
      BY <1>2, <2>2
    <3>2. PICK x \in live : content[x] = w
      BY <3>1 DEF Holds
    <3>3. x # s /\ x # t
      BY <2>2, <3>1, <3>2
    <3> QED BY <1>4, <3>2, <3>3
  <2> QED BY <2>1, <2>2
<1>6. ASSUME "self" \notin lapses, NEW x \in (live \ {t}) \cup {s}
      PROVE  content'[x] \in alive' /\ owner'[content'[x]] = x
  <2>1. \A y \in live : content[y] \in alive /\ owner[content[y]] = y
    BY <1>6 DEF Holds
  <2>2. CASE x = s
    <3>1. s \in live => v # content[s]
      BY <2>1
    <3> QED BY <1>1, <1>2, <1>3, <1>4, <2>2, <3>1
  <2>3. CASE x # s
    <3>1. x \in live /\ x # t /\ content'[x] = content[x]
      BY <1>4, <2>3
    <3>2. content[x] \in alive /\ owner[content[x]] = x /\ content[x] # v /\ (s \in live => content[x] # content[s])
      BY <2>1, <2>3, <3>1
    <3> QED BY <1>2, <1>3, <3>1, <3>2
  <2> QED BY <2>2, <2>3
<1> QED BY <1>5, <1>6 DEF Holds

\* A value is given up.
LEMMA GivenUp ==
  ASSUME NEW live, NEW s \in live, Holds(live, content, alive, owner, lapses), UNCHANGED <<content, owner>>, alive' = alive \ {content[s]}
  PROVE  Holds(live \ {s}, content', alive', owner', lapses)
<1>1. ASSUME NEW w \in alive' PROVE \E x \in live \ {s} : content'[x] = w
  <2>1. w \in alive /\ w # content[s]
    OBVIOUS
  <2>2. PICK x \in live : content[x] = w
    BY <2>1 DEF Holds
  <2> QED BY <2>1, <2>2
<1>2. ASSUME "self" \notin lapses, NEW x \in live \ {s}
      PROVE  content'[x] \in alive' /\ owner'[content'[x]] = x
  <2>1. \A y \in live : content[y] \in alive /\ owner[content[y]] = y
    BY <1>2 DEF Holds
  <2>2. content[x] # content[s]
    BY <2>1
  <2> QED BY <2>1, <2>2
<1> QED BY <1>1, <1>2 DEF Holds

\* What holds behind an instruction: the next point, or a failure and its lapse.
Proceeds(b) == pos' = pos + 1 /\ outcome' = "running" /\ RunsAt(b, content', alive', owner', result', lapses)
Fails ==
  \/ outcome' = "double drop" /\ "self" \in lapses
  \/ outcome' = "dead touch" /\ lapses # {}
  \/ outcome' = "leak" /\ "shadow" \in lapses
  \/ outcome' = "clean"

LEMMA LiveIsNotDead ==
  ASSUME NEW live, Holds(live, content, alive, owner, lapses), NEW s \in live \cup {NoSlot}, Dead(s)
  PROVE  "self" \in lapses
BY DEF Holds, Dead, Held

LEMMA CalmRuns ==
  ASSUME NEW live, Holds(live, content', alive', owner', lapses), result' = 0
  PROVE  RunsAt(Calm(live), content', alive', owner', result', lapses)
BY DEF RunsAt, Calm, Result

LEMMA LetRuns ==
  ASSUME ValueInv, NEW a \in Points, NEW b, Straight(Here, a, b, lapses), RunsAt(a, content, alive, owner, result, lapses), RunLet, Here \in Instrs
  PROVE  Proceeds(b) \/ Fails
<1> DEFINE live == a.live  s == Here.s  t == Here.t
<1>1. /\ a.res = 0 /\ s # 0 /\ s \notin live /\ t \in live \cup {0} /\ b = Calm((live \ {t}) \cup {s})
      /\ live \in SUBSET Slots /\ s \in 0 .. MaxLength + 1 /\ outcome = "running" /\ Holds(live, content, alive, owner, lapses) /\ result = 0
  BY DEF RunLet, Running, Straight, Points, Instrs, Here, RunsAt, Result
<1>2. s \in Slots /\ 0 \notin Slots
  BY <1>1, OwnershipAssumption DEF Slots
<1> HIDE DEF live, s, t
<1>3. CASE Dead(t) /\ Stop("dead touch")
  <2>1. "self" \in lapses
    BY <1>1, <1>3, LiveIsNotDead DEF NoSlot
  <2> QED BY <1>3, <2>1 DEF Fails, Stop
<1>4. CASE ~ Dead(t) /\ Store(s, t) /\ alive' = alive \cup {Incoming(t)} /\ GoTo(pos + 1)
  <2>1. pos' = pos + 1 /\ outcome' = "running" /\ result' = 0 /\ lapses' = lapses
    BY <1>1, <1>4 DEF GoTo, walkVars
  <2>2. CASE t = 0
    <3>1. Holds(live \cup {s}, content', alive', owner', lapses)
      BY <1>1, <1>2, <1>4, <2>1, <2>2, StoreNew DEF NoSlot
    <3>2. live \cup {s} = (live \ {t}) \cup {s}
      BY <1>1, <1>2, <2>2
    <3>3. Holds((live \ {t}) \cup {s}, content', alive', owner', lapses)
      BY <3>1, <3>2
    <3> QED BY <1>1, <2>1, <3>3, CalmRuns DEF Proceeds
  <2>3. CASE t # 0
    <3>1. t \in live /\ s # t
      BY <1>1, <2>3
    <3>2. Holds((live \ {t}) \cup {s}, content', alive', owner', lapses)
      BY <1>1, <1>2, <1>4, <2>1, <2>3, <3>1, StoreMoved DEF NoSlot
    <3> QED BY <1>1, <2>1, <3>2, CalmRuns DEF Proceeds
  <2> QED BY <2>2, <2>3
<1> QED BY <1>3, <1>4 DEF RunLet, s, t

LEMMA AssignRuns ==
  ASSUME ValueInv, NEW a \in Points, NEW b, Straight(Here, a, b, lapses), RunsAt(a, content, alive, owner, result, lapses), RunAssign, Here \in Instrs
  PROVE  Proceeds(b) \/ Fails
<1> DEFINE live == a.live  s == Here.s  t == Here.t
<1>1. /\ a.res = 0 /\ s \in live /\ t \in live \cup {0} /\ (t = s => "self" \in lapses)
      /\ b = Calm(IF t = s THEN live ELSE live \ {t})
      /\ live \in SUBSET Slots /\ outcome = "running" /\ Holds(live, content, alive, owner, lapses) /\ result = 0
  BY DEF RunAssign, Running, Straight, Points, Here, RunsAt, Result
<1>2. s \in Slots /\ 0 \notin Slots
  BY <1>1, OwnershipAssumption DEF Slots
<1> HIDE DEF live, s, t
<1>3. CASE Dead(t) /\ Stop("dead touch")
  <2>1. "self" \in lapses
    BY <1>1, <1>3, LiveIsNotDead DEF NoSlot
  <2> QED BY <1>3, <2>1 DEF Fails, Stop
<1>4. CASE Dead(s) /\ Stop("double drop")
  <2>1. "self" \in lapses
    BY <1>1, <1>4, LiveIsNotDead
  <2> QED BY <1>4, <2>1 DEF Fails, Stop
<1>5. CASE ~ Dead(t) /\ ~ Dead(s) /\ Store(s, t) /\ alive' = (alive \cup {Incoming(t)}) \ {Held(s)} /\ GoTo(pos + 1)
  <2>1. pos' = pos + 1 /\ outcome' = "running" /\ result' = 0 /\ lapses' = lapses
    BY <1>1, <1>5 DEF GoTo, walkVars
  <2>2. CASE t = 0
    <3>1. Holds(live \cup {s}, content', alive', owner', lapses)
      BY <1>1, <1>2, <1>5, <2>1, <2>2, StoreNew DEF NoSlot, Held
    <3>2. live \cup {s} = live /\ b = Calm(live)
      <4>1. t \notin live /\ t # s
        BY <1>1, <1>2, <2>2
      <4>2. live \ {t} = live
        BY <4>1
      <4> QED BY <1>1, <4>1, <4>2
    <3>3. Holds(live, content', alive', owner', lapses)
      BY <3>1, <3>2
    <3> QED BY <2>1, <3>2, <3>3, CalmRuns DEF Proceeds
  <2>3. CASE t # 0 /\ t # s
    <3>1. t \in live
      BY <1>1, <2>3
    <3>2. Holds((live \ {t}) \cup {s}, content', alive', owner', lapses)
      BY <1>1, <1>2, <1>5, <2>1, <2>3, <3>1, StoreMoved DEF NoSlot, Held
    <3>3. (live \ {t}) \cup {s} = live \ {t} /\ b = Calm(live \ {t})
      BY <1>1, <2>3
    <3>4. Holds(live \ {t}, content', alive', owner', lapses)
      BY <3>2, <3>3
    <3> QED BY <2>1, <3>3, <3>4, CalmRuns DEF Proceeds
  <2>4. CASE t # 0 /\ t = s
    <3>1. "self" \in lapses /\ b = Calm(live)
      BY <1>1, <2>4
    <3>2. content' = [content EXCEPT ![s] = content[s]] /\ alive' = (alive \cup {content[s]}) \ {content[s]}
      BY <1>5, <2>4 DEF Store, Incoming, Held, NoSlot
    <3>3. content' = content /\ alive' \subseteq alive
      <4>1. content \in [Slots -> 0 .. Len(owner)]
        BY DEF ValueInv
      <4> QED BY <1>2, <3>2, <4>1
    <3>4. Holds(live, content', alive', owner', lapses)
      BY <1>1, <2>1, <3>1, <3>3 DEF Holds
    <3> QED BY <2>1, <3>1, <3>4, CalmRuns DEF Proceeds
  <2> QED BY <2>2, <2>3, <2>4
<1> QED BY <1>3, <1>4, <1>5 DEF RunAssign, s, t

LEMMA DropRuns ==
  ASSUME NEW a \in Points, NEW b, Straight(Here, a, b, lapses), RunsAt(a, content, alive, owner, result, lapses), RunDrop
  PROVE  Proceeds(b) \/ Fails
<1> DEFINE live == a.live  s == Here.s
<1>1. /\ s \in live /\ s # a.res /\ b = [live |-> live \ {s}, res |-> a.res, dead |-> FALSE]
      /\ outcome = "running" /\ Holds(live, content, alive, owner, lapses) /\ Result(a, content, result)
  BY DEF RunDrop, Running, Straight, Here, RunsAt
<1> HIDE DEF live, s
<1>2. CASE Dead(s) /\ Stop("double drop")
  <2>1. "self" \in lapses
    BY <1>1, <1>2, LiveIsNotDead
  <2> QED BY <1>2, <2>1 DEF Fails, Stop
<1>3. CASE ~ Dead(s) /\ alive' = alive \ {Held(s)} /\ GoTo(pos + 1) /\ UNCHANGED <<content, owner>>
  <2>1. pos' = pos + 1 /\ outcome' = "running" /\ result' = result /\ lapses' = lapses
    BY <1>1, <1>3 DEF GoTo, walkVars
  <2>2. Holds(live \ {s}, content', alive', owner', lapses)
    BY <1>1, <1>3, <2>1, GivenUp DEF Held
  <2>3. b.live = live \ {s} /\ b.res = a.res /\ ~ b.dead
    BY <1>1
  <2>4. Result(b, content', result')
    BY <1>1, <1>3, <2>1, <2>3 DEF Result, live
  <2> QED BY <2>1, <2>2, <2>3, <2>4 DEF Proceeds, RunsAt
<1> QED BY <1>2, <1>3 DEF RunDrop, s

LEMMA PassRuns ==
  ASSUME NEW a \in Points, NEW b, Straight(Here, a, b, lapses), RunsAt(a, content, alive, owner, result, lapses), RunPass
  PROVE  Proceeds(b) \/ Fails
<1> DEFINE live == a.live  s == Here.s
<1>1. /\ s \in live /\ a.res = 0 /\ b = Calm(live \ {s}) /\ outcome = "running" /\ Holds(live, content, alive, owner, lapses) /\ result = 0
  BY DEF RunPass, Running, Straight, Here, RunsAt, Result
<1> HIDE DEF live, s
<1>2. CASE Dead(s) /\ Stop("dead touch")
  <2>1. "self" \in lapses
    BY <1>1, <1>2, LiveIsNotDead
  <2> QED BY <1>2, <2>1 DEF Fails, Stop
<1>3. CASE ~ Dead(s) /\ alive' = alive \ {Held(s)} /\ GoTo(pos + 1) /\ UNCHANGED <<content, owner>>
  <2>1. pos' = pos + 1 /\ outcome' = "running" /\ result' = 0 /\ lapses' = lapses
    BY <1>1, <1>3 DEF GoTo, walkVars
  <2>2. Holds(live \ {s}, content', alive', owner', lapses)
    BY <1>1, <1>3, <2>1, GivenUp DEF Held
  <2> QED BY <1>1, <2>1, <2>2, CalmRuns DEF Proceeds
<1> QED BY <1>2, <1>3 DEF RunPass, s

LEMMA ReadRuns ==
  ASSUME NEW a \in Points, NEW b, Straight(Here, a, b, lapses), RunsAt(a, content, alive, owner, result, lapses), RunUse \/ RunLoad
  PROVE  Proceeds(b) \/ Fails
<1> DEFINE live == a.live  s == Here.s
<1>1. ~ a.dead /\ Holds(live, content, alive, owner, lapses) /\ Result(a, content, result) /\ outcome = "running"
  BY DEF RunUse, RunLoad, Running, RunsAt
<1>2. CASE RunUse
  <2>1. b = a /\ (lapses = {} => s \in live)
    BY <1>2 DEF RunUse, Running, Straight, Here
  <2>2. CASE Dead(s) /\ Stop("dead touch")
    <3>1. lapses # {}
      BY <1>1, <2>1, <2>2, LiveIsNotDead
    <3> QED BY <2>2, <3>1 DEF Fails, Stop
  <2>3. CASE ~ Dead(s) /\ GoTo(pos + 1) /\ Untouched
    <3>1. /\ pos' = pos + 1 /\ outcome' = "running" /\ result' = result /\ lapses' = lapses
          /\ UNCHANGED <<content, alive, owner>>
      BY <1>1, <2>3 DEF GoTo, walkVars, Untouched
    <3> QED BY <1>1, <2>1, <3>1 DEF Proceeds, RunsAt, Holds, Result
  <2> QED BY <1>2, <2>2, <2>3 DEF RunUse
<1>3. CASE RunLoad
  <2>1. s \in live /\ b = [live |-> live, res |-> s, dead |-> FALSE]
    BY <1>3 DEF RunLoad, Running, Straight, Here
  <2>2. CASE Dead(s) /\ Stop("dead touch")
    <3>1. "self" \in lapses
      BY <1>1, <2>1, <2>2, LiveIsNotDead
    <3> QED BY <2>2, <3>1 DEF Fails, Stop
  <2>3. CASE ~ Dead(s) /\ result' = Held(s) /\ pos' = pos + 1 /\ UNCHANGED outcome /\ Untouched /\ UNCHANGED walkVars
    <3>1. /\ outcome' = "running" /\ result' = content[s] /\ lapses' = lapses
          /\ UNCHANGED <<content, alive, owner>>
      BY <1>1, <2>3 DEF walkVars, Untouched, Held
    <3>2. s # 0
      <4>1. live \in SUBSET Slots /\ 0 \notin Slots
        BY OwnershipAssumption DEF Points, Slots
      <4> QED BY <2>1, <4>1
    <3> QED BY <1>1, <2>1, <2>3, <3>1, <3>2 DEF Proceeds, RunsAt, Holds, Result
  <2> QED BY <1>3, <2>2, <2>3 DEF RunLoad
<1> QED BY <1>2, <1>3

-----------------------------------------------------------------------------
(* Where control goes in complete code *)

LEMMA BlocksClosed ==
  ASSUME NEW c, NEW s, NEW l, Complete(c, s, l)
  PROVE  /\ Len(c) \in Nat /\ Finished(c)
         /\ \A p \in 1 .. Len(c) :
              /\ c[p].op \in Openers =>
                   \E e \in 1 .. Len(c) : Closes(c, p, e) /\ (c[p].op = "if" => OneElse(c, p, e))
              /\ c[p].op = "end" => \E o \in 1 .. p - 1 : Closes(c, o, p)
              /\ c[p].op = "else" => \E o \in 1 .. p - 1 : IfOf(c, o, p)
<1>1. Len(c) \in Nat /\ \A p \in 1 .. Len(c) : Nested(c, <<>>, p)
  BY DEF Complete
<1>2. ASSUME NEW p \in 1 .. Len(c), c[p].op \in Openers
      PROVE  \E e \in 1 .. Len(c) : Closes(c, p, e) /\ (c[p].op = "if" => OneElse(c, p, e))
  <2>1. ~ \E k \in 1 .. Len(<<>>) : <<>>[k] = p
    OBVIOUS
  <2> QED BY <1>1, <1>2, <2>1 DEF Nested
<1>3. Finished(c)
  BY <1>2 DEF Finished
<1> QED BY <1>1, <1>2, <1>3 DEF Nested

\* Behind the end of a block all is as at its start.
LEMMA BehindEnd ==
  ASSUME NEW c, NEW s, NEW l, Complete(c, s, l), NEW o, NEW e, Closes(c, o, e)
  PROVE  /\ e \in 1 .. Len(c) /\ o \in 1 .. e - 1 /\ EndOf(c, o) = e /\ Returns(s, o, e)
         /\ e + 1 \in 1 .. Len(c) + 1 /\ s[e + 1] = s[o]
<1>1. Len(c) \in Nat
  BY BlocksClosed
<1>2. e \in 1 .. Len(c) /\ o \in 1 .. e - 1
  BY DEF Closes, Around
<1>3. c[e].op = "end"
  BY ClosesEnd
<1>4. Returns(s, o, e)
  <2>1. Step(c, s, l, e)
    BY <1>2 DEF Complete
  <2> QED BY <1>2, <1>3, <2>1 DEF Step
<1>5. EndOf(c, o) = e
  BY <1>1, EndIs
<1> QED BY <1>1, <1>2, <1>4, <1>5 DEF Returns

LEMMA IfGoes ==
  ASSUME NEW c, NEW s, NEW l, Complete(c, s, l), NEW p \in 1 .. Len(c), c[p].op = "if"
  PROVE  /\ s[p + 1] = s[p]
         /\ ElseArm(c, p) + 1 \in 1 .. Len(c) + 1 /\ s[ElseArm(c, p) + 1] = s[p]
<1>1. s[p + 1] = s[p]
  <2>1. Step(c, s, l, p)
    BY DEF Complete
  <2> QED BY <2>1 DEF Step, Straight
<1>2. PICK e \in 1 .. Len(c) : Closes(c, p, e) /\ OneElse(c, p, e)
  <2>1. c[p].op \in Openers
    BY DEF Openers
  <2> QED BY <2>1, BlocksClosed
<1>3. Len(c) \in Nat
  BY BlocksClosed
<1>4. CASE ElsesOf(c, p, e) = {}
  <2>1. ElseArm(c, p) = e
    BY <1>2, <1>3, <1>4, ElseArmIs
  <2> QED BY <1>1, <1>2, <2>1, BehindEnd
<1>5. ASSUME NEW a, ElsesOf(c, p, e) = {a}
      PROVE  ElseArm(c, p) + 1 \in 1 .. Len(c) + 1 /\ s[ElseArm(c, p) + 1] = s[p]
  <2>1. ElseArm(c, p) = a
    BY <1>2, <1>3, <1>5, ElseArmIs
  <2>2. a \in p .. e /\ c[a].op = "else" /\ Level(c, p, a) = 1
    BY <1>5 DEF ElsesOf, Among
  <2>3. a \in 1 .. Len(c) /\ p \in 1 .. a - 1
    <3>1. a # p
      BY <2>2
    <3> QED BY <1>3, <2>2, <3>1
  <2>4. IfOf(c, p, a)
    <3>1. Around(c, p, e)
      BY <1>2 DEF Closes
    <3>2. \A j \in p .. a - 1 : j \in p .. e - 1
      BY <2>2
    <3>3. Around(c, p, a)
      BY <2>3, <3>1, <3>2 DEF Around
    <3> QED BY <2>2, <3>3 DEF IfOf
  <2>5. Step(c, s, l, a)
    BY <2>3 DEF Complete
  <2>6. Returns(s, p, a)
    BY <2>2, <2>3, <2>4, <2>5 DEF Step
  <2> QED BY <1>3, <2>1, <2>3, <2>6 DEF Returns
<1> QED BY <1>1, <1>2, <1>4, <1>5 DEF OneElse

LEMMA ElseGoes ==
  ASSUME NEW c, NEW s, NEW l, Complete(c, s, l), NEW p \in 1 .. Len(c), c[p].op = "else", ~ s[p].dead
  PROVE  LET q == EndOf(c, Innermost(c, {"if"}, p)) + 1
         IN q \in 1 .. Len(c) + 1 /\ s[q] = s[p]
<1>1. PICK o \in 1 .. p - 1 : IfOf(c, o, p)
  BY BlocksClosed
<1>2. Len(c) \in Nat /\ Finished(c)
  BY BlocksClosed
<1>3. Innermost(c, {"if"}, p) = o
  <2>1. c[p].op \notin Openers /\ c[p].op # "end"
    BY DEF Openers
  <2> QED BY <1>1, <1>2, <2>1, InnermostIs DEF IfOf
<1>4. s[p] = s[o]
  <2>1. Step(c, s, l, p)
    BY DEF Complete
  <2> QED BY <1>1, <2>1 DEF Step, Returns
<1>5. PICK e : Closes(c, o, e)
  <2>1. o \in 1 .. Len(c) /\ c[o].op \in Openers
    BY <1>1, <1>2 DEF IfOf, Openers
  <2> QED BY <1>2, <2>1 DEF Finished
<1>6. EndOf(c, o) = e /\ e + 1 \in 1 .. Len(c) + 1 /\ s[e + 1] = s[o]
  BY <1>5, BehindEnd
<1> QED BY <1>3, <1>4, <1>6

LEMMA WhileGoes ==
  ASSUME NEW c, NEW s, NEW l, Complete(c, s, l), NEW p \in 1 .. Len(c), c[p].op = "while"
  PROVE  s[p + 1] = s[p] /\ EndOf(c, p) + 1 \in 1 .. Len(c) + 1 /\ s[EndOf(c, p) + 1] = s[p]
<1>1. s[p + 1] = s[p]
  <2>1. Step(c, s, l, p)
    BY DEF Complete
  <2> QED BY <2>1 DEF Step, Straight
<1>2. PICK e : Closes(c, p, e)
  <2>1. c[p].op \in Openers
    BY DEF Openers
  <2> QED BY <2>1, BlocksClosed
<1>3. EndOf(c, p) = e /\ e + 1 \in 1 .. Len(c) + 1 /\ s[e + 1] = s[p]
  BY <1>2, BehindEnd
<1> QED BY <1>1, <1>3

LEMMA JumpGoes ==
  ASSUME NEW c, NEW s, NEW l, Complete(c, s, l), NEW p \in 1 .. Len(c), c[p].op \in {"break", "continue"}
  PROVE  LET o == Innermost(c, {"while"}, p)
         IN /\ o \in 1 .. Len(c) + 1 /\ s[o] = s[p]
            /\ EndOf(c, o) + 1 \in 1 .. Len(c) + 1 /\ s[EndOf(c, o) + 1] = s[p]
<1>1. PICK o \in 1 .. p - 1 : LoopOf(c, o, p) /\ s[p] = s[o]
  <2>1. Step(c, s, l, p)
    BY DEF Complete
  <2> QED BY <2>1 DEF Step
<1>2. Len(c) \in Nat /\ Finished(c)
  BY BlocksClosed
<1>3. Innermost(c, {"while"}, p) = o
  <2> DEFINE S == Enclosing(c, {"while"}, p)
  <2>1. \A k : k \in S <=> Around(c, k, p) /\ c[k].op \in {"while"}
    <3>1. {"while"} \subseteq Openers /\ p \in 1 .. Len(c) + 1
      BY <1>2 DEF Openers
    <3> QED BY <1>2, <3>1, EnclosingIs
  <2>2. o \in S
    BY <1>1, <2>1 DEF LoopOf
  <2>3. \A k \in S : k \in Int /\ k <= o
    <3>1. ASSUME NEW k \in S PROVE k \in Int /\ k <= o
      <4>1. Around(c, k, p) /\ c[k].op = "while"
        BY <2>1
      <4>2. k \in 1 .. p - 1
        BY <4>1 DEF Around
      <4> QED BY <1>1, <4>1, <4>2 DEF LoopOf
    <3> QED BY <3>1
  <2> HIDE DEF S
  <2>4. Max(S) = o
    BY <2>2, <2>3, MaxIs
  <2> QED BY <2>4 DEF S, Innermost
<1>4. o \in 1 .. Len(c) /\ o \in 1 .. Len(c) + 1 /\ c[o].op \in Openers
  BY <1>1, <1>2 DEF LoopOf, Openers
<1>5. PICK e : Closes(c, o, e)
  BY <1>2, <1>4 DEF Finished
<1>6. EndOf(c, o) = e /\ e + 1 \in 1 .. Len(c) + 1 /\ s[e + 1] = s[o]
  BY <1>5, BehindEnd
<1> QED BY <1>1, <1>3, <1>4, <1>6

LEMMA EndGoes ==
  ASSUME NEW c, NEW s, NEW l, Complete(c, s, l), NEW p \in 1 .. Len(c), c[p].op = "end", ~ s[p].dead
  PROVE  LET q == IF c[OpenerOf(c, p)].op = "while" THEN OpenerOf(c, p) ELSE p + 1
         IN q \in 1 .. Len(c) + 1 /\ s[q] = s[p]
<1>1. PICK o \in 1 .. p - 1 : Closes(c, o, p)
  BY BlocksClosed
<1>2. Len(c) \in Nat /\ Finished(c)
  BY BlocksClosed
<1>3. OpenerOf(c, p) = o
  BY <1>1, <1>2, OpenerIs
<1>4. s[p] = s[o] /\ s[p + 1] = s[o]
  BY <1>1, BehindEnd DEF Returns
<1>5. o \in 1 .. Len(c) + 1 /\ p + 1 \in 1 .. Len(c) + 1
  BY <1>2
<1> QED BY <1>3, <1>4, <1>5

-----------------------------------------------------------------------------
(* Runs *)

\* The run is at a point of complete code, where the live slots hold what is alive.
RunIs ==
  \E s : /\ Complete(ir, s, lapses) /\ pos \in 1 .. Len(ir) + 1
         /\ outcome = "running" => RunsAt(s[pos], content, alive, owner, result, lapses)
Lapsed ==
  /\ outcome = "leak" => "shadow" \in lapses
  /\ outcome = "double drop" => "self" \in lapses
  /\ outcome = "dead touch" => lapses # {}

LEMMA RetRuns ==
  ASSUME NEW a \in Points, NEW b, Straight(Here, a, b, lapses), RunsAt(a, content, alive, owner, result, lapses), RunRet
  PROVE  Fails /\ pos' = pos
<1>1. /\ Holds(a.live, content, alive, owner, lapses) /\ Result(a, content, result)
      /\ "shadow" \in lapses \/ a.live \subseteq {a.res}
  BY DEF RunRet, Running, Here, Straight, RunsAt
<1>2. a.live \in SUBSET Slots /\ 0 \notin Slots
  BY OwnershipAssumption DEF Points, Slots
<1>3. /\ outcome' = (IF result # 0 /\ result \notin alive THEN "dead touch"
                     ELSE IF alive \subseteq {result} THEN "clean" ELSE "leak")
      /\ pos' = pos
  BY DEF RunRet, Stop
<1>4. ASSUME result # 0, result \notin alive PROVE lapses # {}
  <2>1. a.res \in a.live /\ result = content[a.res]
    BY <1>1, <1>4 DEF Result
  <2> QED BY <1>1, <1>4, <2>1 DEF Holds
<1>5. ASSUME ~ (alive \subseteq {result}) PROVE "shadow" \in lapses
  <2>1. PICK v \in alive : v # result
    BY <1>5
  <2>2. PICK x \in a.live : content[x] = v
    BY <1>1 DEF Holds
  <2>3. ASSUME a.live \subseteq {a.res} PROVE FALSE
    <3>1. x = a.res /\ a.res # 0
      BY <1>2, <2>2, <2>3
    <3>2. result = content[x]
      BY <1>1, <3>1 DEF Result
    <3> QED BY <2>1, <2>2, <3>2
  <2> QED BY <1>1, <2>3
<1> QED BY <1>3, <1>4, <1>5 DEF Fails

\* A step to a point where all is as it was.
LEMMA Branches ==
  ASSUME RunIs, Lapsed,
         \/ RunIf \/ RunElse \/ RunWhile \/ RunBreak \/ RunContinue \/ RunEnd
  PROVE  RunIs' /\ Lapsed'
<1>1. PICK s : /\ Complete(ir, s, lapses) /\ pos \in 1 .. Len(ir) + 1
               /\ outcome = "running" => RunsAt(s[pos], content, alive, owner, result, lapses)
  BY DEF RunIs
<1>2. /\ outcome = "running" /\ pos \in DOMAIN ir /\ Untouched /\ UNCHANGED <<result, outcome>> /\ UNCHANGED walkVars
  BY DEF RunIf, RunElse, RunWhile, RunBreak, RunContinue, RunEnd, Running, GoTo
<1>3. pos \in 1 .. Len(ir)
  BY <1>1, <1>2 DEF Complete
<1>4. RunsAt(s[pos], content, alive, owner, result, lapses) /\ ~ s[pos].dead
  BY <1>1, <1>2 DEF RunsAt
<1>5. pos' \in 1 .. Len(ir) + 1 /\ s[pos'] = s[pos]
  <2>1. pos + 1 \in 1 .. Len(ir) + 1
    <3>1. Len(ir) \in Nat
      BY <1>1, BlocksClosed
    <3> QED BY <1>3, <3>1
  <2>2. CASE RunIf
    BY <1>1, <1>3, <2>1, <2>2, IfGoes DEF RunIf, Running, GoTo
  <2>3. CASE RunElse
    BY <1>1, <1>3, <1>4, <2>3, ElseGoes DEF RunElse, Running, GoTo
  <2>4. CASE RunWhile
    BY <1>1, <1>3, <2>1, <2>4, WhileGoes DEF RunWhile, Running, GoTo
  <2>5. CASE RunBreak \/ RunContinue
    <3>1. ir[pos].op \in {"break", "continue"}
      BY <2>5 DEF RunBreak, RunContinue, Running
    <3> QED BY <1>1, <1>3, <2>5, <3>1, JumpGoes DEF RunBreak, RunContinue, GoTo
  <2>6. CASE RunEnd
    BY <1>1, <1>3, <1>4, <2>6, EndGoes DEF RunEnd, Running, GoTo
  <2> QED BY <2>2, <2>3, <2>4, <2>5, <2>6
<1>6. RunIs'
  <2>1. ir' = ir /\ lapses' = lapses /\ UNCHANGED <<content, alive, owner, result, outcome>>
    BY <1>2 DEF walkVars, Untouched
  <2>2. RunsAt(s[pos'], content', alive', owner', result', lapses')
    BY <1>4, <1>5, <2>1
  <2>3. Complete(ir', s, lapses') /\ pos' \in 1 .. Len(ir') + 1
    BY <1>1, <1>5, <2>1
  <2> QED BY <2>2, <2>3 DEF RunIs
<1> QED BY <1>2, <1>6 DEF Lapsed, walkVars

LEMMA Straights ==
  ASSUME RunIs, Lapsed, ValueInv,
         \/ RunLet \/ RunAssign \/ RunDrop \/ RunPass \/ RunUse \/ RunLoad \/ RunRet
  PROVE  RunIs' /\ Lapsed'
<1>1. PICK s : /\ Complete(ir, s, lapses) /\ pos \in 1 .. Len(ir) + 1
               /\ outcome = "running" => RunsAt(s[pos], content, alive, owner, result, lapses)
  BY DEF RunIs
<1>2. outcome = "running" /\ pos \in DOMAIN ir
  BY DEF RunLet, RunAssign, RunDrop, RunPass, RunUse, RunLoad, RunRet, Running
<1>3. pos \in 1 .. Len(ir) /\ Len(ir) \in Nat
  BY <1>1, <1>2, BlocksClosed DEF Complete
<1>4. UNCHANGED walkVars
  BY DEF RunLet, RunAssign, RunDrop, RunPass, RunUse, RunLoad, RunRet, GoTo, Stop
<1> DEFINE a == s[pos]  b == s[pos + 1]
<1>5. a \in Points /\ Here \in Instrs
  <2>1. ir \in Seq(Instrs) /\ s \in Seq(Points) /\ Len(s) = Len(ir) + 1 /\ pos \in 1 .. Len(s)
    BY <1>1 DEF Complete
  <2> QED BY <1>3, <2>1 DEF Here
<1>6. Straight(Here, a, b, lapses)
  <2>1. Step(ir, s, lapses, pos)
    BY <1>1, <1>3 DEF Complete
  <2> QED BY <2>1 DEF Step, Here
<1>7. RunsAt(a, content, alive, owner, result, lapses)
  BY <1>1, <1>2
<1> HIDE DEF a
<1>8. Proceeds(b) \/ (Fails /\ pos' = pos)
  <2> HIDE DEF b
  <2>1. \/ pos' = pos
        \/ Proceeds(b)
    <3>1. CASE RunLet \/ RunAssign
      <4>1. pos' = pos \/ outcome' = "running"
        BY <1>2, <3>1 DEF RunLet, RunAssign, GoTo, Stop
      <4>2. Fails => outcome' # "running"
        BY DEF Fails
      <4> QED BY <1>5, <1>6, <1>7, <3>1, <4>1, <4>2, LetRuns, AssignRuns
    <3>2. CASE RunDrop \/ RunPass \/ RunUse \/ RunLoad \/ RunRet
      <4>1. pos' = pos \/ outcome' = "running"
        BY <1>2, <3>2 DEF RunDrop, RunPass, RunUse, RunLoad, RunRet, GoTo, Stop
      <4>2. Fails => outcome' # "running"
        BY DEF Fails
      <4> QED BY <1>5, <1>6, <1>7, <3>2, <4>1, <4>2, DropRuns, PassRuns, ReadRuns, RetRuns
    <3> QED BY <3>1, <3>2
  <2>2. Proceeds(b) \/ Fails
    BY <1>5, <1>6, <1>7, LetRuns, AssignRuns, DropRuns, PassRuns, ReadRuns, RetRuns
  <2> QED BY <2>1, <2>2
<1>9. ir' = ir /\ lapses' = lapses
  BY <1>4 DEF walkVars
<1>10. CASE Proceeds(b)
  <2>1. pos' = pos + 1 /\ outcome' = "running" /\ RunsAt(s[pos'], content', alive', owner', result', lapses')
    BY <1>9, <1>10 DEF Proceeds
  <2>2. Complete(ir', s, lapses') /\ pos' \in 1 .. Len(ir') + 1
    BY <1>1, <1>3, <1>9, <2>1
  <2> QED BY <2>1, <2>2 DEF RunIs, Lapsed
<1>11. CASE Fails /\ pos' = pos
  <2>1. outcome' # "running" /\ Lapsed'
    BY <1>9, <1>11 DEF Fails, Lapsed
  <2>2. Complete(ir', s, lapses') /\ pos' \in 1 .. Len(ir') + 1
    BY <1>1, <1>9, <1>11
  <2> QED BY <2>1, <2>2 DEF RunIs
<1> QED BY <1>8, <1>10, <1>11

-----------------------------------------------------------------------------
(* What the runs do not do *)

\* Until the code is run, only the parameter has a value.
StartInv ==
  pos = 0 /\ Tame => content[1] = 1 /\ alive = {1} /\ owner = <<1>> /\ result = 0 /\ outcome = "running"

BodyInv == pos = 0 /\ Tame => ListsInv /\ BodyIs
RunInv == pos # 0 /\ Tame => RunIs /\ Lapsed

CleanInv == DropInv /\ WalkInv /\ ValueInv /\ StartInv /\ BodyInv /\ RunInv

LEMMA CleanInit == Init => CleanInv
<1> SUFFICES ASSUME Init PROVE CleanInv
  OBVIOUS
<1>1. WalkInv /\ ValueInv
  BY WalkValueInit
<1>2. StartInv /\ pos = 0 /\ terminated = FALSE /\ lapses = {} /\ frames = <<>> /\ ir = <<>> /\ slots = 1 /\ gone = {}
  <2>1. 1 \in Slots
    BY OwnershipAssumption DEF Slots
  <2> QED BY <2>1 DEF Init, StartInv
<1> DEFINE e == Entry("var", Param, 1)  start == <<EmptyScope>>
<1>3. /\ start \in Seq(Scopes) /\ Len(start) = 1 /\ start[1] = EmptyScope
      /\ EmptyScope.drops = <<>> /\ \A n \in Names : EmptyScope.vars[n] = NoSlot
  <2>1. EmptyScope \in Scopes /\ EmptyScope.drops = <<>> /\ \A n \in Names : EmptyScope.vars[n] = NoSlot
    <3>1. [n \in Names |-> NoSlot] \in [Names -> Nat] /\ <<>> \in Seq(Entries)
      BY DEF NoSlot
    <3> QED BY <3>1 DEF EmptyScope, Scopes
  <2> QED BY <2>1
<1>4. /\ scopes \in Seq(Scopes) /\ Len(scopes) = 1 /\ scopes[1].drops = <<e>>
      /\ scopes[1].vars = [EmptyScope.vars EXCEPT ![Param] = 1]
  <2>1. scopes = Declare(start, Param, 1)
    BY DEF Init
  <2>2. scopes \in Seq(Scopes)
    BY DropInvInit DEF DropInv, ShapeInv
  <2> HIDE DEF start
  <2>3. scopes = [start EXCEPT ![1] = [vars |-> [start[1].vars EXCEPT ![Param] = 1], drops |-> Append(start[1].drops, e)]]
    BY <1>3, <2>1 DEF Declare
  <2>4. Len(scopes) = 1 /\ scopes[1] = [vars |-> [start[1].vars EXCEPT ![Param] = 1], drops |-> Append(start[1].drops, e)]
    BY <1>3, <2>3
  <2> HIDE DEF e
  <2>5. scopes[1].vars = [start[1].vars EXCEPT ![Param] = 1] /\ scopes[1].drops = Append(start[1].drops, e)
    BY <2>4
  <2>6. start[1].drops = <<>> /\ start[1].vars = EmptyScope.vars
    BY <1>3
  <2>7. Append(start[1].drops, e) = <<e>>
    BY <2>6
  <2>8. scopes[1].drops = <<e>>
    BY <2>5, <2>7
  <2>9. scopes[1].vars = [EmptyScope.vars EXCEPT ![Param] = 1]
    BY <2>5, <2>6
  <2> QED BY <2>2, <2>4, <2>8, <2>9
<1>5. e.kind = "var" /\ e.name = Param /\ e.meant = 1
  BY DEF Entry
<1> HIDE DEF e, start
<1>6. Len(<<e>>) = 1 /\ <<e>>[1] = e /\ \A k : k \in 1 .. 1 <=> k = 1
  OBVIOUS
<1>7. ListsInv
  <2>1. Ordered(scopes, slots)
    BY <1>2, <1>4, <1>5, <1>6 DEF Ordered, Sorted, Below
  <2>2. Unmoved(scopes, gone)
    <3>1. ASSUME NEW i \in 1 .. Len(scopes), NEW n \in Names, scopes[i].vars[n] # NoSlot PROVE Lists(scopes[i], n)
      <4>1. i = 1 /\ EmptyScope.vars[n] = NoSlot
        BY <1>3, <1>4
      <4>2. n = Param
        <5>1. DOMAIN EmptyScope.vars = Names
          BY DEF EmptyScope
        <5> SUFFICES ASSUME n # Param PROVE FALSE
          OBVIOUS
        <5>2. scopes[1].vars[n] = EmptyScope.vars[n]
          BY <1>4, <5>1
        <5> QED BY <3>1, <4>1, <5>2
      <4> QED BY <1>4, <1>5, <1>6, <4>1, <4>2 DEF Lists, IsVar
    <3> QED BY <3>1 DEF Unmoved
  <2>3. slots \in Slots
    BY <1>2, OwnershipAssumption DEF Slots
  <2> QED BY <2>1, <2>2, <2>3 DEF ListsInv
<1>8. BodyIs
  <2> DEFINE s == <<Calm({1})>>
  <2>1. Calm({1}) \in Points
    BY OwnershipAssumption DEF Calm, Points, Slots
  <2>2. s \in Seq(Points) /\ Len(s) = 1 /\ s[1] = Calm({1})
    BY <2>1
  <2> HIDE DEF s
  <2>3. Body(<<>>, s, <<>>, <<>>, {})
    <3>1. <<>> \in Seq(Instrs) /\ <<>> \in Seq(Nat) /\ Len(<<>>) = 0 /\ \A k : ~ (k \in 1 .. 0)
      OBVIOUS
    <3> QED BY <2>2, <3>1 DEF Body
  <2>4. Live(scopes, 1) = {1}
    <3>1. Owns(scopes[1]) = {1}
      BY <1>4, <1>5, <1>6 DEF Owns, Kept
    <3>2. 1 \in Nat \ {0} /\ 1 - 1 = 0
      OBVIOUS
    <3>3. Live(scopes, 1) = Live(scopes, 0) \cup Owns(scopes[1])
      BY <3>2, LiveStep
    <3> QED BY <3>1, <3>3, LiveNone
  <2>5. Written(<<>>, s, <<>>, <<>>, scopes, FALSE, {})
    <3>1. Len(<<>>) = 0 /\ \A k : ~ (k \in 1 .. 0)
      OBVIOUS
    <3> DEFINE none == <<>>
    <3>2. Len(none) = 0 /\ Body(none, s, none, none, {})
      BY <2>3, <3>1
    <3> HIDE DEF none
    <3>3. \A k \in 1 .. Len(none) : s[none[k]] = Calm(Live(scopes, k))
      BY <3>1, <3>2
    <3>4. s[Len(none) + 1] = Calm(Live(scopes, Len(scopes)))
      <4>1. Len(none) + 1 = 1
        BY <3>2
      <4> QED BY <1>4, <2>2, <2>4, <4>1
    <3>5. Written(none, s, none, none, scopes, FALSE, {})
      BY <3>2, <3>3, <3>4 DEF Written
    <3> QED BY <3>5 DEF none
  <2>6. Stands(s, <<>>)
    BY <1>2, <2>5 DEF Stands
  <2> QED BY <2>6 DEF BodyIs
<1> QED BY <1>1, <1>2, <1>7, <1>8, DropInvInit DEF CleanInv, BodyInv, RunInv

LEMMA Grows ==
  ASSUME [Next]_vars
  PROVE  lapses \subseteq lapses'
<1>1. CASE UNCHANGED walkVars
  BY <1>1 DEF walkVars
<1>2. CASE \E n \in Names : \/ \E src \in Names \cup {"new"} : Let(n, src) \/ Assign(n, src)
                            \/ Pass(n) \/ Use(n) \/ Defer(n) \/ ReturnValue(n)
  BY <1>2 DEF Let, Assign, Pass, Use, Defer, ReturnValue
<1>3. CASE Open("if") \/ Open("while") \/ Else \/ EndBlock \/ LeaveTurn("break") \/ LeaveTurn("continue")
           \/ Return \/ Finish
  BY <1>3 DEF Open, Else, EndBlock, LeaveTurn, Return, Finish
<1>4. CASE \/ RunLet \/ RunAssign \/ RunDrop \/ RunPass \/ RunUse \/ RunLoad
           \/ RunIf \/ RunElse \/ RunWhile \/ RunBreak \/ RunContinue \/ RunEnd \/ RunRet
  <2>1. UNCHANGED walkVars
    BY <1>4 DEF RunLet, RunAssign, RunDrop, RunPass, RunUse, RunLoad, RunIf, RunElse, RunWhile,
       RunBreak, RunContinue, RunEnd, RunRet, GoTo, Stop
  <2> QED BY <1>1, <2>1
<1>5. CASE UNCHANGED vars
  BY <1>1, <1>5 DEF vars
<1> QED BY <1>2, <1>3, <1>4, <1>5 DEF Next

\* The statements leave the run where it starts.
LEMMA Walks ==
  ASSUME CleanInv, NEW n \in Names,
         \/ \E src \in Names \cup {"new"} : Let(n, src) \/ Assign(n, src)
         \/ Pass(n) \/ Use(n) \/ Defer(n) \/ ReturnValue(n)
         \/ Open("if") \/ Open("while") \/ Else \/ EndBlock \/ LeaveTurn("break") \/ LeaveTurn("continue") \/ Return,
         WalkInv', lapses \subseteq lapses'
  PROVE  StartInv' /\ BodyInv' /\ RunInv'
<1>1. pos = 0 /\ UNCHANGED runVars
  BY DEF Let, Assign, Pass, Use, Defer, ReturnValue, Open, Else, EndBlock, LeaveTurn, Return, Statement, Write
<1>2. pos' = 0 /\ UNCHANGED <<content, alive, owner, result, outcome>>
  BY <1>1 DEF runVars
<1>3. StartInv' /\ RunInv'
  <2>1. Tame' => Tame
    BY DEF Tame
  <2> QED BY <1>1, <1>2, <2>1 DEF CleanInv, StartInv, RunInv
<1>4. ASSUME Tame' PROVE BodyIs' /\ ListsInv'
  <2>1. Tame
    BY <1>4 DEF Tame
  <2>2. BodyIs /\ ListsInv /\ DropInv
    BY <1>1, <2>1 DEF CleanInv, BodyInv
  <2>3. ASSUME NEW src \in Names \cup {"new"}, Let(n, src) \/ Assign(n, src) PROVE BodyIs' /\ ListsInv'
    BY <1>4, <2>2, <2>3, BodyLet, BodyAssign
  <2>4. CASE Pass(n) \/ Use(n) \/ Defer(n) \/ ReturnValue(n)
    BY <1>4, <2>2, <2>4, BodyPass, BodyUse, BodyDefer, BodyReturnValue
  <2>5. CASE Open("if") \/ Open("while")
    BY <2>2, <2>5, BodyBlock
  <2>6. CASE Else \/ EndBlock \/ Return
    BY <2>2, <2>6, BodyElseArm, BodyBlockEnd, BodyReturn
  <2>7. CASE LeaveTurn("break") \/ LeaveTurn("continue")
    BY <2>2, <2>7, BodyLeaveTurn
  <2> QED BY <2>3, <2>4, <2>5, <2>6, <2>7
<1> QED BY <1>3, <1>4 DEF BodyInv

\* The run starts with the parameter's value in its slot.
LEMMA Starts ==
  ASSUME CleanInv, Finish, lapses \subseteq lapses'
  PROVE  StartInv' /\ BodyInv' /\ RunInv'
<1>1. pos = 0 /\ pos' = 1 /\ UNCHANGED <<content, alive, owner, result, outcome>>
  BY DEF Finish
<1>2. Tame' => content[1] = 1 /\ alive = {1} /\ owner = <<1>> /\ result = 0 /\ outcome = "running"
  <2>1. Tame' => Tame
    BY DEF Tame
  <2> QED BY <1>1, <2>1 DEF CleanInv, StartInv
<1>3. ASSUME Tame' PROVE RunIs' /\ Lapsed'
  <2>1. Tame
    BY <1>3 DEF Tame
  <2>2. CodeIs'
    BY <1>1, <2>1, BodyFinish DEF CleanInv, BodyInv
  <2>3. PICK s : Complete(ir', s, lapses')
    BY <2>2 DEF CodeIs
  <2>4. s[1] = Calm({1}) /\ Len(ir') \in Nat
    BY <2>3 DEF Complete
  <2>5. RunsAt(Calm({1}), content', alive', owner', result', lapses')
    <3>1. owner[1] = 1
      BY <1>2, <1>3
    <3> QED BY <1>1, <1>2, <1>3, <3>1 DEF RunsAt, Holds, Result, Calm
  <2>6. pos' \in 1 .. Len(ir') + 1 /\ RunsAt(s[pos'], content', alive', owner', result', lapses')
    BY <1>1, <2>4, <2>5
  <2> QED BY <1>1, <1>2, <1>3, <2>3, <2>6 DEF RunIs, Lapsed
<1> QED BY <1>1, <1>3 DEF StartInv, BodyInv, RunInv

\* Code that can be run has instructions, so that the walk behind it is over.
LEMMA NotBefore ==
  ASSUME BodyIs
  PROVE  0 \notin DOMAIN ir
<1>1. ir \in Seq(Instrs)
  <2>1. PICK s, at : Stands(s, at)
    BY DEF BodyIs
  <2> QED BY <2>1, BodyTypes DEF Stands, Written
<1> QED BY <1>1

LEMMA Runs ==
  ASSUME CleanInv,
         \/ RunLet \/ RunAssign \/ RunDrop \/ RunPass \/ RunUse \/ RunLoad
         \/ RunIf \/ RunElse \/ RunWhile \/ RunBreak \/ RunContinue \/ RunEnd \/ RunRet
  PROVE  StartInv' /\ BodyInv' /\ RunInv'
<1>1. UNCHANGED walkVars /\ pos \in DOMAIN ir
  BY DEF RunLet, RunAssign, RunDrop, RunPass, RunUse, RunLoad, RunIf, RunElse, RunWhile,
     RunBreak, RunContinue, RunEnd, RunRet, GoTo, Stop, Running
<1>2. lapses' = lapses
  BY <1>1 DEF walkVars
<1>3. ASSUME Tame' PROVE RunIs' /\ Lapsed' /\ pos' # 0
  <2>1. Tame
    BY <1>2, <1>3 DEF Tame
  <2>2. pos # 0
    BY <1>1, <2>1, NotBefore DEF CleanInv, BodyInv
  <2>3. RunIs /\ Lapsed /\ ValueInv
    BY <2>1, <2>2 DEF CleanInv, RunInv
  <2>4. RunIs' /\ Lapsed'
    <3>1. CASE RunLet \/ RunAssign \/ RunDrop \/ RunPass \/ RunUse \/ RunLoad \/ RunRet
      BY <2>3, <3>1, Straights
    <3>2. CASE RunIf \/ RunElse \/ RunWhile \/ RunBreak \/ RunContinue \/ RunEnd
      BY <2>3, <3>2, Branches
    <3> QED BY <3>1, <3>2
  <2>5. pos' # 0
    BY <2>4 DEF RunIs
  <2> QED BY <2>4, <2>5
<1> QED BY <1>3 DEF StartInv, BodyInv, RunInv

LEMMA CleanNext == CleanInv /\ [Next]_vars => CleanInv'
<1> SUFFICES ASSUME CleanInv, [Next]_vars PROVE CleanInv'
  OBVIOUS
<1>1. DropInv' /\ WalkInv' /\ ValueInv'
  <2>1. DropInv /\ WalkInv /\ ValueInv
    BY DEF CleanInv
  <2> QED BY <2>1, DropInvNext, WalkInvNext, ValueInvNext
<1>2. lapses \subseteq lapses'
  BY Grows
<1>3. StartInv' /\ BodyInv' /\ RunInv'
  <2>1. ASSUME NEW n \in Names,
               \/ \E src \in Names \cup {"new"} : Let(n, src) \/ Assign(n, src)
               \/ Pass(n) \/ Use(n) \/ Defer(n) \/ ReturnValue(n)
        PROVE  StartInv' /\ BodyInv' /\ RunInv'
    BY <1>1, <1>2, <2>1, Walks
  <2>2. CASE Open("if") \/ Open("while") \/ Else \/ EndBlock \/ LeaveTurn("break") \/ LeaveTurn("continue") \/ Return
    <3>1. Param \in Names
      BY OwnershipAssumption
    <3> QED BY <1>1, <1>2, <2>2, <3>1, Walks
  <2>3. CASE Finish
    BY <1>2, <2>3, Starts
  <2>4. CASE \/ RunLet \/ RunAssign \/ RunDrop \/ RunPass \/ RunUse \/ RunLoad
             \/ RunIf \/ RunElse \/ RunWhile \/ RunBreak \/ RunContinue \/ RunEnd \/ RunRet
    BY <2>4, Runs
  <2>5. CASE UNCHANGED vars
    <3>1. UNCHANGED walkVars /\ UNCHANGED runVars
      BY <2>5 DEF vars
    <3>2. (StartInv /\ BodyInv /\ RunInv) = (StartInv' /\ BodyInv' /\ RunInv')
      BY <3>1 DEF walkVars, runVars, StartInv, BodyInv, RunInv, Tame, BodyIs, Stands, ListsInv, RunIs, Lapsed
    <3> QED BY <3>2 DEF CleanInv
  <2> QED BY <2>1, <2>2, <2>3, <2>4, <2>5 DEF Next
<1> QED BY <1>1, <1>3 DEF CleanInv

LEMMA CleanAlways == Spec => []CleanInv
BY CleanInit, CleanNext, PTL DEF Spec

\* "Each value is dropped exactly once" (docs/02-language.md:316), as far as the
\* generated code keeps it: a run leaks, drops twice or touches what is gone only
\* after a statement that IRGen admits although it breaks the discipline, and each
\* of the three only for the statements named (genDrops, IRGen.cpp).
THEOREM RunsAreClean == Spec => []FailuresHaveALapse
<1>1. CleanInv => FailuresHaveALapse
  <2> SUFFICES ASSUME CleanInv PROVE FailuresHaveALapse
    OBVIOUS
  <2>1. CASE ~ Tame
    BY <2>1 DEF Tame, FailuresHaveALapse
  <2>2. CASE Tame /\ pos = 0
    BY <2>2 DEF CleanInv, StartInv, FailuresHaveALapse
  <2>3. CASE Tame /\ pos # 0
    <3>1. Lapsed /\ lapses \subseteq Lapses
      BY <2>3 DEF CleanInv, RunInv, WalkInv
    <3> QED BY <3>1 DEF Lapsed, Lapses, FailuresHaveALapse
  <2> QED BY <2>1, <2>2, <2>3
<1> QED BY <1>1, CleanAlways, PTL

\* "Drops run in reverse declaration order of the live locals"
\* (docs/02-language.md:318), in every body whose statements keep the discipline:
\* the slots of what is alive when the code drops one were all declared before it.
THEOREM DropsAreInReverse == Spec => []DropsRunInReverse
<1>1. CleanInv => DropsRunInReverse
  <2> SUFFICES ASSUME CleanInv, Running("drop"), lapses = {}, NEW v \in alive \ {result}
               PROVE  owner[v] <= Here.s
    BY DEF DropsRunInReverse
  <2>1. Tame /\ pos \in DOMAIN ir /\ outcome = "running" /\ Here.op = "drop"
    BY DEF Tame, Running, Here
  <2>2. RunIs
    BY <2>1, NotBefore DEF CleanInv, BodyInv, RunInv
  <2>3. PICK s : Complete(ir, s, lapses) /\ RunsAt(s[pos], content, alive, owner, result, lapses)
    BY <2>1, <2>2 DEF RunIs
  <2>4. Straight(Here, s[pos], s[pos + 1], {})
    <3>1. pos \in 1 .. Len(ir)
      BY <2>1, <2>3 DEF Complete
    <3>2. Step(ir, s, lapses, pos)
      BY <2>3, <3>1 DEF Complete
    <3> QED BY <3>2 DEF Step, Here
  <2> DEFINE a == s[pos]  b == s[pos + 1]
  <2>5. Straight(Here, a, b, {}) /\ Holds(a.live, content, alive, owner, {}) /\ Result(a, content, result)
    BY <2>3, <2>4 DEF RunsAt
  <2> HIDE DEF a, b
  <2>6. PICK x \in a.live : content[x] = v /\ owner[v] = x
    BY <2>5 DEF Holds
  <2>7. x # a.res
    <3> SUFFICES ASSUME x = a.res PROVE FALSE
      OBVIOUS
    <3>1. a.res # 0 => result = content[a.res]
      BY <2>5 DEF Result
    <3>2. a.res # 0
      <4>1. 0 \notin a.live
        <5>1. a \in Points
          <6>1. s \in Seq(Points) /\ Len(s) = Len(ir) + 1 /\ ir \in Seq(Instrs)
            BY <2>3 DEF Complete
          <6> QED BY <2>1, <6>1 DEF a
        <5> QED BY <5>1 DEF Points, Slots
      <4> QED BY <2>6, <4>1
    <3> QED BY <2>6, <3>1, <3>2
  <2> QED BY <2>1, <2>5, <2>6, <2>7 DEF Straight
<1> QED BY <1>1, CleanAlways, PTL
=============================================================================
