---------------------------- MODULE ObjectChecks ----------------------------
(***************************************************************************)
(* What the layouts and the calls of Objects.tla are to be, and the        *)
(* programs they are checked over.                                         *)
(***************************************************************************)
EXTENDS Objects

RECURSIVE SizedTooSoon(_, _, _)

DeclaredAt(p, s) == CHOOSE i \in 1 .. Len(p.ss) : p.ss[i].n = s
FieldTypes(p, s) == {p.ss[DeclaredAt(p, s)].fields[i].t : i \in 1 .. Len(p.ss[DeclaredAt(p, s)].fields)}

\* A struct declared before its base gets the base's own fields only.
OutOfOrder(p, tab, s) ==
  ~HasVirtuals(p, tab, s) /\ \E d \in Range(Chain(tab, s)) :
     tab[d].base # None /\ tab[tab[d].base].base # None /\ DeclaredAt(p, d) < DeclaredAt(p, tab[d].base)
\* A field whose struct had no size yet, or not all of it, when it was placed.
SizedTooSoon(p, tab, s) ==
  \E d \in Range(Chain(tab, s)) : \E t \in FieldTypes(p, d) \cap DOMAIN tab :
    \/ tab[t].base # None \/ HasVirtuals(p, tab, t)
    \/ DeclaredAt(p, d) < DeclaredAt(p, t)
    \/ SizedTooSoon(p, tab, t)
\* An alias that a virtual tree brings back is no type.
AliasReturns(p, tab) == \E s \in DOMAIN tab : HasVirtuals(p, tab, s) /\ "alias" \in FieldTypes(p, s)

\* A reference to s is one to its base: the base's fields stand first in it.
UpcastsFindTheirFields(p, tab) ==
  \A s \in DOMAIN tab : \A t \in Ancestors(tab, s) :
    IsPrefix(tab[t].fields, tab[s].fields) \/ OutOfOrder(p, tab, s)
\* A container gives an element the room the struct has in the code.
SizesSuffice(p, tab) ==
  \A s \in DOMAIN tab : Size(LlvmLay(tab, s)) <= tab[s].size \/ SizedTooSoon(p, tab, s)

\* The method meant: the nearest override, if the one found for t can be overridden.
Meant(p, tab, s, t, m) ==
  LET d == Resolve(p, tab, t, m) IN
  IF HasVirtuals(p, tab, d) /\ Overridable(p, d, m) THEN Nearest(tab, s, {x \in DOMAIN tab : Overridable(p, x, m)}) ELSE d
\* A plain method below it takes its slot.
Hidden(p, tab, s, t, m) ==
  HasVirtuals(p, tab, s) /\ Overridable(p, Resolve(p, tab, t, m), m) /\ ~Overridable(p, Resolve(p, tab, s, m), m)
CallsReachTheOverride(p, tab) ==
  \A s \in DOMAIN tab : \A t \in Range(Chain(tab, s)), m \in {"f", "g"} :
    Resolve(p, tab, t, m) # None =>
      (Called(p, tab, s, t, m) = Meant(p, tab, s, t, m) <=> ~Hidden(p, tab, s, t, m))
\* An override overrides something of its own signature: nobody looks where
\* nothing is virtual.
OverridesOverride(p, tab) ==
  \A s \in DOMAIN tab : \A x \in Range(MethodsOf(p, s)) :
    x.how = "override" =>
      \/ ~HasVirtuals(p, tab, s)
      \/ \E t \in Ancestors(tab, s) : \E y \in Own(p, t, x.m) : y.how = "virtual" /\ y.sig = x.sig

LayoutsHold(p, tab) ==
  IF Defined(tab) THEN UpcastsFindTheirFields(p, tab) /\ SizesSuffice(p, tab) ELSE AliasReturns(p, tab)
CallsHold(p, tab) == CallsReachTheOverride(p, tab) /\ OverridesOverride(p, tab)

-----------------------------------------------------------------------------
Struct(n, base, ts) == [n |-> n, base |-> base, fields |-> [i \in 1 .. Len(ts) |-> [f |-> <<n, i>>, t |-> ts[i]]]]
Method(m, how, sig, byRef) == [m |-> m, how |-> how, sig |-> sig, byRef |-> byRef]

\* Three structs in any order, each over those before it in the alphabet, and the
\* one that has a virtual method, if any.
Own1 == {<<"i64">>, <<"u8">>, <<"u8", "i64">>, <<"alias">>}
Shapes(bs, ts) == <<Struct("A", None, ts[1]), Struct("B", bs[1], ts[2]), Struct("C", bs[2], ts[3])>>
Orders == {o \in [1 .. 3 -> 1 .. 3] : IsInjective(o)}
Layouts == {[ss |-> [i \in 1 .. 3 |-> Shapes(bs, ts)[o[i]]],
             ms |-> [s \in v |-> <<Method("f", "virtual", 1, TRUE)>>]] :
             o \in Orders, bs \in {None, "A"} \X {None, "A", "B"},
             ts \in Own1 \X (Own1 \cup {<<"A">>}) \X (Own1 \cup {<<"A", "u8">>, <<"B">>}), v \in {{}, {"A"}, {"B"}}}

\* A chain of three, or one with an error in it, and what each declares.
Declarations == {<<>>} \cup {<<Method("f", h, s, TRUE)>> : h \in {"plain", "virtual", "override"}, s \in {1, 2}}
                  \cup {<<Method("f", h, 1, FALSE)>> : h \in {"plain", "override"}}
                  \cup {<<Method("g", "virtual", 1, TRUE), Method("f", h, 1, TRUE)>> : h \in {"virtual", "override"}}
                  \cup {<<Method("f", "virtual", 1, TRUE), Method("f", "plain", 1, TRUE)>>}
Families == {[ss |-> <<Struct("A", r, <<>>), Struct("B", "A", <<>>), Struct("C", b, <<>>)>>,
              ms |-> [s \in {"A", "B", "C"} |-> IF s = "A" THEN x ELSE IF s = "B" THEN y ELSE z]] :
              r \in {None, "C"}, b \in {"A", "B", "D"}, x \in Declarations, y \in Declarations, z \in Declarations}
=============================================================================
