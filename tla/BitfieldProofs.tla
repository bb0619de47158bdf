--------------------------- MODULE BitfieldProofs ---------------------------
(***************************************************************************)
(* The methods of a bitfield, for words of every width and any number of   *)
(* fields: what MCStages checks on words of three bits and two fields.     *)
(***************************************************************************)
EXTENDS Bitfield, TLAPS

Fields == [name : STRING, lo : Int, hi : Int]

\* A field that is not misplaced has as many mask bits as it is long.
LEMMA MaskOfField ==
  ASSUME Width \in Nat, NEW f \in Fields, ~Misplaced(f)
  PROVE  Mask(f) = 0 .. f.hi - f.lo
BY DEF Fields, Misplaced, Mask

\* Bit n of what the accessor returns is bit lo + n of the word.
LEMMA AccessorBits ==
  ASSUME Width \in Nat, NEW f \in Fields, ~Misplaced(f), NEW raw \in Words
  PROVE  /\ Accessor(f, raw) \subseteq 0 .. f.hi - f.lo
         /\ \A n \in 0 .. f.hi - f.lo : n \in Accessor(f, raw) <=> n + f.lo \in raw
<1>1. \A n \in Int : n \in Shr(raw, f.lo) <=> n >= 0 /\ n + f.lo \in raw
  <2> SUFFICES ASSUME NEW n \in Int PROVE n \in Shr(raw, f.lo) <=> n >= 0 /\ n + f.lo \in raw
    OBVIOUS
  <2>1. ASSUME n \in Shr(raw, f.lo) PROVE n >= 0 /\ n + f.lo \in raw
    <3>1. PICK i \in raw : i >= f.lo /\ n = i - f.lo
      BY <2>1 DEF Shr
    <3> QED BY <3>1 DEF Fields, Words
  <2>2. ASSUME n >= 0, n + f.lo \in raw PROVE n \in Shr(raw, f.lo)
    <3>1. n + f.lo >= f.lo /\ n = (n + f.lo) - f.lo
      BY <2>2 DEF Fields
    <3> QED BY <2>2, <3>1 DEF Shr
  <2> QED BY <2>1, <2>2
<1> QED BY <1>1, MaskOfField DEF Accessor, Fields

\* The setter writes the value's bits from lo on and leaves the others.
LEMMA SetterBits ==
  ASSUME Width \in Nat, NEW f \in Fields, ~Misplaced(f), NEW raw \in Words, NEW v, SetterRequires(f, v)
  PROVE  /\ Setter(f, raw, v) \in Words
         /\ \A b \in 0 .. Width - 1 :
              b \in Setter(f, raw, v) <=> IF b \in Bits(f) THEN b - f.lo \in v ELSE b \in raw
<1>1. Mask(f) = 0 .. f.hi - f.lo /\ v \subseteq 0 .. f.hi - f.lo
  BY MaskOfField DEF SetterRequires
<1>2. \A x : x \subseteq 0 .. f.hi - f.lo =>
        \A b \in 0 .. Width - 1 : b \in Shl(x, f.lo) <=> b - f.lo \in x
  <2> SUFFICES ASSUME NEW x, x \subseteq 0 .. f.hi - f.lo, NEW b \in 0 .. Width - 1
               PROVE  b \in Shl(x, f.lo) <=> b - f.lo \in x
    OBVIOUS
  <2>1. ASSUME b \in Shl(x, f.lo) PROVE b - f.lo \in x
    <3>1. PICK i \in x : b = i + f.lo
      BY <2>1 DEF Shl
    <3> QED BY <3>1 DEF Fields
  <2>2. ASSUME b - f.lo \in x PROVE b \in Shl(x, f.lo)
    <3>1. b = (b - f.lo) + f.lo
      BY DEF Fields
    <3> QED BY <2>2, <3>1 DEF Shl
  <2> QED BY <2>1, <2>2
<1>3. v \cap Mask(f) = v
  BY <1>1
<1>4. \A b \in 0 .. Width - 1 : b \in Shl(Mask(f), f.lo) <=> b \in Bits(f)
  BY <1>1, <1>2 DEF Bits, Fields
<1>5. Setter(f, raw, v) \in Words
  BY DEF Setter, Shl, Words
<1>6. \A b \in 0 .. Width - 1 : b \in Shl(v, f.lo) => b \in Bits(f)
  <2> SUFFICES ASSUME NEW b \in 0 .. Width - 1, b \in Shl(v, f.lo) PROVE b \in Bits(f)
    OBVIOUS
  <2>1. b - f.lo \in 0 .. f.hi - f.lo
    BY <1>1, <1>2
  <2> QED BY <2>1 DEF Bits, Fields
<1> QED BY <1>1, <1>2, <1>3, <1>4, <1>5, <1>6 DEF Setter, Not

-----------------------------------------------------------------------------
\* What a setter stored its accessor gives back, for every word before.
LEMMA AccessorAfterSetter ==
  ASSUME Width \in Nat, NEW f \in Fields, ~Misplaced(f), NEW raw \in Words, NEW v, SetterRequires(f, v)
  PROVE  Accessor(f, Setter(f, raw, v)) = v
<1> DEFINE new == Setter(f, raw, v)
<1>1. new \in Words /\ v \subseteq 0 .. f.hi - f.lo
  BY SetterBits, MaskOfField DEF SetterRequires
<1>2. ASSUME NEW n \in 0 .. f.hi - f.lo PROVE n + f.lo \in new <=> n \in v
  <2>1. n + f.lo \in 0 .. Width - 1 /\ n + f.lo \in Bits(f) /\ (n + f.lo) - f.lo = n
    BY DEF Misplaced, Bits, Fields
  <2> QED BY <2>1, SetterBits
<1> QED BY <1>1, <1>2, AccessorBits

\* A setter does not change what the accessor of a field beside it returns.
LEMMA AccessorBesideSetter ==
  ASSUME Width \in Nat, NEW f \in Fields, ~Misplaced(f), NEW g \in Fields, ~Misplaced(g),
         Bits(f) \cap Bits(g) = {}, NEW raw \in Words, NEW v, SetterRequires(f, v)
  PROVE  Accessor(g, Setter(f, raw, v)) = Accessor(g, raw)
<1> DEFINE new == Setter(f, raw, v)
<1>1. new \in Words
  BY SetterBits
<1>2. ASSUME NEW n \in 0 .. g.hi - g.lo PROVE n + g.lo \in new <=> n + g.lo \in raw
  <2>1. n + g.lo \in 0 .. Width - 1 /\ n + g.lo \in Bits(g)
    BY DEF Misplaced, Bits, Fields
  <2>2. n + g.lo \notin Bits(f)
    BY <2>1
  <2> QED BY <2>1, <2>2, SetterBits
<1>3. Accessor(g, new) \subseteq 0 .. g.hi - g.lo /\ Accessor(g, raw) \subseteq 0 .. g.hi - g.lo
  BY <1>1, AccessorBits
<1>4. \A n \in 0 .. g.hi - g.lo : n \in Accessor(g, new) <=> n \in Accessor(g, raw)
  BY <1>1, <1>2, AccessorBits
<1> QED BY <1>3, <1>4

\* Of fields that share a bit the setter of one changes the other.
LEMMA SharedBitIsChanged ==
  ASSUME Width \in Nat, NEW f \in Fields, ~Misplaced(f), NEW g \in Fields, ~Misplaced(g),
         NEW b \in Bits(f) \cap Bits(g)
  PROVE  /\ SetterRequires(f, {b - f.lo}) /\ {b - f.lo} \in Words
         /\ Accessor(g, Setter(f, {}, {b - f.lo})) # Accessor(g, {})
<1> DEFINE v == {b - f.lo}  new == Setter(f, {}, v)
<1>1. b \in Int /\ b - f.lo \in 0 .. f.hi - f.lo /\ b - g.lo \in 0 .. g.hi - g.lo /\ b \in 0 .. Width - 1
  BY DEF Bits, Fields, Misplaced
<1>2. SetterRequires(f, v) /\ {} \in Words
  BY <1>1, MaskOfField DEF SetterRequires, Words
<1>3. b \in new /\ new \in Words
  BY <1>1, <1>2, SetterBits
<1>4. (b - g.lo) + g.lo = b
  BY <1>1 DEF Fields
<1>5. b - g.lo \in Accessor(g, new) /\ b - g.lo \notin Accessor(g, {})
  BY <1>1, <1>2, <1>3, <1>4, AccessorBits
<1>6. v \in Words
  BY <1>1 DEF Words, Misplaced, Fields
<1> QED BY <1>2, <1>5, <1>6

-----------------------------------------------------------------------------
\* For every width, and every list of fields whose layout the parser accepts: the
\* generated methods keep their clauses, for all words, exactly when no two
\* fields share a bit.
THEOREM DisjointIffContractsKept ==
  ASSUME Width \in Nat, NEW fs \in Seq(Fields), ~Rejected(fs)
  PROVE  MethodsMeetContracts(fs, Lower(fs)) <=> ~Overlap(fs)
<1> DEFINE out == Lower(fs)
<1>1. ASSUME NEW i \in DOMAIN fs PROVE fs[i] \in Fields /\ ~Misplaced(fs[i])
  BY DEF Rejected
<1>2. ASSUME NEW i \in DOMAIN fs, NEW raw \in Words, NEW v \in Words
      PROVE  out.set[i][<<raw, v>>] = Setter(fs[i], raw, v) /\ out.get[i][raw] = Accessor(fs[i], raw)
  BY DEF Lower
<1>3. ASSUME NEW i \in DOMAIN fs, NEW j \in DOMAIN fs, i # j PROVE fs[i].name # fs[j].name
  BY <1>3, <1>1 DEF Rejected
<1>4. ASSUME ~Overlap(fs), NEW i \in DOMAIN fs, NEW raw \in Words, NEW v \in Words, SetterRequires(fs[i], v)
      PROVE  SetterEnsures(fs, fs[i], raw, v, Setter(fs[i], raw, v))
  <2>1. Accessor(fs[i], Setter(fs[i], raw, v)) = v
    BY <1>1, <1>4, AccessorAfterSetter
  <2>2. ASSUME NEW j \in DOMAIN fs, fs[j].name # fs[i].name
        PROVE  Accessor(fs[j], Setter(fs[i], raw, v)) = Accessor(fs[j], raw)
    <3>1. Bits(fs[i]) \cap Bits(fs[j]) = {}
      BY <1>4, <2>2 DEF Overlap
    <3> QED BY <1>1, <1>4, <3>1, AccessorBesideSetter
  <2> QED BY <2>1, <2>2 DEF SetterEnsures
<1>5. ASSUME NEW i \in DOMAIN fs, NEW raw \in Words, NEW v \in Words, SetterRequires(fs[i], v)
      PROVE  Setter(fs[i], raw, v) \ Bits(fs[i]) = raw \ Bits(fs[i])
  BY <1>1, <1>5, SetterBits DEF Words
<1>6. ASSUME NEW i \in DOMAIN fs, NEW raw \in Words
      PROVE  Accessor(fs[i], raw) \in Words /\ Setter(fs[i], raw, Accessor(fs[i], raw)) = raw
  <2> DEFINE f == fs[i]  v == Accessor(f, raw)
  <2>1. f \in Fields /\ ~Misplaced(f)
    BY <1>1
  <2> HIDE DEF f
  <2>2. v \subseteq 0 .. f.hi - f.lo /\ (\A n \in 0 .. f.hi - f.lo : n \in v <=> n + f.lo \in raw)
    BY <2>1, AccessorBits
  <2>3. SetterRequires(f, v) /\ v \in Words
    <3>1. Mask(f) = 0 .. f.hi - f.lo
      BY <1>1, <2>1, MaskOfField
    <3>2. v \subseteq 0 .. Width - 1
      <4>1. f.hi - f.lo <= Width - 1 /\ f.hi - f.lo \in Int /\ Width - 1 \in Int
        BY <1>1, <2>1 DEF Misplaced, Fields
      <4>2. 0 .. f.hi - f.lo \subseteq 0 .. Width - 1
        BY <4>1
      <4> QED BY <2>2, <4>2
    <3> QED BY <2>2, <3>1, <3>2 DEF SetterRequires, Words
  <2>4. ASSUME NEW b \in 0 .. Width - 1, b \in Bits(f) PROVE b - f.lo \in v <=> b \in raw
    <3>1. b - f.lo \in 0 .. f.hi - f.lo /\ (b - f.lo) + f.lo = b
      BY <2>1, <2>4 DEF Bits, Fields
    <3> QED BY <2>2, <3>1
  <2>5. Setter(f, raw, v) \in Words /\ \A b \in 0 .. Width - 1 : b \in Setter(f, raw, v) <=> b \in raw
    BY <2>1, <2>3, <2>4, SetterBits
  <2>6. Setter(f, raw, v) = raw
    BY <2>5 DEF Words
  <2> QED BY <2>3, <2>6 DEF f
<1>7. ASSUME ~Overlap(fs) PROVE MethodsMeetContracts(fs, out)
  <2> SUFFICES ASSUME NEW i \in DOMAIN fs, NEW raw \in Words, NEW v \in Words, SetterRequires(fs[i], v)
               PROVE  /\ SetterEnsures(fs, fs[i], raw, v, out.set[i][<<raw, v>>])
                      /\ out.set[i][<<raw, v>>] \ Bits(fs[i]) = raw \ Bits(fs[i])
                      /\ out.set[i][<<raw, out.get[i][raw]>>] = raw
    BY DEF MethodsMeetContracts
  <2>1. out.set[i][<<raw, v>>] = Setter(fs[i], raw, v) /\ out.get[i][raw] = Accessor(fs[i], raw)
    BY <1>2
  <2>2. Accessor(fs[i], raw) \in Words /\ Setter(fs[i], raw, Accessor(fs[i], raw)) = raw
    BY <1>6
  <2>3. out.set[i][<<raw, Accessor(fs[i], raw)>>] = raw
    BY <1>2, <2>2
  <2> HIDE DEF out
  <2> QED BY <1>4, <1>5, <1>7, <2>1, <2>3
<1>8. ASSUME Overlap(fs), MethodsMeetContracts(fs, out) PROVE FALSE
  <2>1. PICK i \in DOMAIN fs, j \in DOMAIN fs : i # j /\ Bits(fs[i]) \cap Bits(fs[j]) # {}
    BY <1>8 DEF Overlap
  <2>2. PICK b : b \in Bits(fs[i]) \cap Bits(fs[j])
    BY <2>1
  <2> DEFINE v == {b - fs[i].lo}
  <2>3. /\ SetterRequires(fs[i], v) /\ v \in Words
        /\ Accessor(fs[j], Setter(fs[i], {}, v)) # Accessor(fs[j], {})
    BY <1>1, <2>2, SharedBitIsChanged
  <2>4. {} \in Words
    BY DEF Words
  <2>5. out.set[i][<<{}, v>>] = Setter(fs[i], {}, v)
    BY <1>2, <2>3, <2>4
  <2> HIDE DEF out, v
  <2>6. SetterEnsures(fs, fs[i], {}, v, Setter(fs[i], {}, v))
    <3>1. \A raw, w \in Words : SetterRequires(fs[i], w) => SetterEnsures(fs, fs[i], raw, w, out.set[i][<<raw, w>>])
      BY <1>8, <2>1 DEF MethodsMeetContracts
    <3>2. SetterRequires(fs[i], v) => SetterEnsures(fs, fs[i], {}, v, out.set[i][<<{}, v>>])
      BY <2>3, <2>4, <3>1
    <3> QED BY <2>3, <2>5, <3>2
  <2> QED BY <1>3, <2>1, <2>3, <2>6 DEF SetterEnsures
<1> QED BY <1>7, <1>8
=============================================================================
