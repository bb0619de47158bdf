------------------------------ MODULE Bitfield ------------------------------
(***************************************************************************)
(* The bitfield declaration of src/src/Parser.cpp: the checks of its       *)
(* layout and the methods lowerBitfield writes for it.  A word of Width    *)
(* bits (u64) is the set of its bits that are one; a field is a name and   *)
(* the two literals of its position.  A literal is cut to IntBits bits,    *)
(* with a sign, when it becomes a position (an int).                       *)
(***************************************************************************)
EXTENDS Integers, Sequences, FiniteSets

CONSTANTS Width, IntBits

Words == SUBSET (0 .. Width - 1)
Shr(x, k) == {i - k : i \in {j \in x : j >= k}}
Shl(x, k) == {i + k : i \in x} \cap (0 .. Width - 1)
Not(x) == (0 .. Width - 1) \ x

Position(n) == LET m == n % 2 ^ IntBits IN IF m < 2 ^ (IntBits - 1) THEN m ELSE m - 2 ^ IntBits
Field(name, first, last) == [name |-> name, lo |-> Position(first), hi |-> Position(last)]

\* The layout's errors; two fields may share bits.
Misplaced(f) == f.lo < 0 \/ f.hi < f.lo \/ f.hi >= Width
Rejected(fs) == \/ \E i \in DOMAIN fs : Misplaced(fs[i])
                \/ \E i, j \in DOMAIN fs : i < j /\ fs[i].name = fs[j].name

\* A field of the whole word is spelled out: 1 << 64 would overflow.
Mask(f) == LET w == f.hi - f.lo + 1 IN 0 .. (IF w >= Width THEN Width ELSE w) - 1

Accessor(f, raw) == Shr(raw, f.lo) \cap Mask(f)
SetterRequires(f, v) == v \subseteq Mask(f)             \* v <= mask
\* Mutant: the field is not cleared before the new value is put in.
SetterOrs(f, raw, v) == raw \cup Shl(v \cap Mask(f), f.lo)
Setter(f, raw, v) == (raw \cap Not(Shl(Mask(f), f.lo))) \cup Shl(v \cap Mask(f), f.lo)
SetterEnsures(fs, f, raw, v, new) ==
  /\ Accessor(f, new) = v
  /\ \A i \in DOMAIN fs : fs[i].name # f.name => Accessor(fs[i], new) = Accessor(fs[i], raw)

\* What a program sees of a declaration: whether it is accepted, and the methods.
Lower(fs) == [rejected |-> Rejected(fs),
              get |-> [i \in DOMAIN fs |-> [raw \in Words |-> Accessor(fs[i], raw)]],
              set |-> [i \in DOMAIN fs |-> [s \in Words \X Words |-> Setter(fs[i], s[1], s[2])]]]
-----------------------------------------------------------------------------
Bits(f) == f.lo .. f.hi
Overlap(fs) == \E i, j \in DOMAIN fs : i # j /\ Bits(fs[i]) \cap Bits(fs[j]) # {}

\* Every setter meets the clauses generated for it, keeps every bit outside its
\* field, and what it stored is what the accessor gives back.
MethodsMeetContracts(fs, out) ==
  \A i \in DOMAIN fs : \A raw, v \in Words :
    LET new == out.set[i][<<raw, v>>] IN
    SetterRequires(fs[i], v) =>
      /\ SetterEnsures(fs, fs[i], raw, v, new)
      /\ new \ Bits(fs[i]) = raw \ Bits(fs[i])
      /\ out.set[i][<<raw, out.get[i][raw]>>] = raw
=============================================================================
