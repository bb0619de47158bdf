------------------------------ MODULE Objects ------------------------------
(***************************************************************************)
(* Structs with a base: the layouts Sema computes for them, their vtables, *)
(* the struct types and the calls IRGen emits.  A program is a record: the *)
(* struct declarations in source order (ss: name n, base, fields), and the *)
(* methods of each struct in the order of its impls (ms).  A field has a   *)
(* name f and a type t: an i64, a u8, an alias of u8 or a struct.  A       *)
(* method has a name m, how it is declared ("plain", "virtual" or          *)
(* "override"), a signature and whether self is passed by reference.       *)
(***************************************************************************)
EXTENDS Naturals, FiniteSets, SequencesExt

None == ""
Words == [t \in {"i64", "u8"} |-> IF t = "i64" THEN 8 ELSE 1]
Bind(b, x, t) == [y \in DOMAIN b \cup {x} |-> IF y = x THEN t ELSE b[y]]
RoundUp(n, a) == ((n + a - 1) \div a) * a
MethodsOf(p, s) == IF s \in DOMAIN p.ms THEN p.ms[s] ELSE <<>>

RECURSIVE Chain(_, _), LlvmLay(_, _)
-----------------------------------------------------------------------------
(* Types: what a field takes, as far as the table knows it by now.         *)
Width(tab, t) == IF t \in DOMAIN Words THEN Words[t]
                 ELSE IF t \in DOMAIN tab THEN tab[t].size ELSE 0
Align(tab, t) == IF t \in DOMAIN Words THEN Words[t]
                 ELSE IF t \in DOMAIN tab THEN tab[t].align ELSE 8
\* An alias is resolved where a type is used.
Fix(t) == IF t = "alias" THEN "u8" ELSE t

Place(tab, at, f) ==
  LET a == Align(tab, f.t) IN
  [end |-> RoundUp(at.end, a) + Width(tab, f.t), align |-> Max({at.align, a})]
Lay(tab, at, fields) == FoldLeft(LAMBDA x, f : Place(tab, x, f), at, fields)
Size(at) == RoundUp(at.end, at.align)

-----------------------------------------------------------------------------
(* Sema.  tab maps a struct to its base, its fields and its size so far.   *)
\* Pass 1: a struct's own fields, from 0.
OwnFields(tab, d) ==
  LET fields == [i \in 1 .. Len(d.fields) |-> [d.fields[i] EXCEPT !.t = Fix(@)]]
      at == Lay(tab, [end |-> 0, align |-> 1], fields)
  IN Bind(tab, d.n, [base |-> None, fields |-> fields, size |-> Size(at), align |-> at.align])

\* The struct and those above it.
Chain(tab, s) == IF s = None THEN <<>> ELSE <<s>> \o Chain(tab, tab[s].base)
Ancestors(tab, s) == Range(Tail(Chain(tab, s)))
FieldNames(tab, s) == {tab[s].fields[i].f : i \in 1 .. Len(tab[s].fields)}

BaseError(tab, d) == \/ d.base \notin DOMAIN tab
                     \/ d.n \in Range(Chain(tab, d.base))
                     \/ FieldNames(tab, d.base) \cap FieldNames(tab, d.n) # {}
\* Mutant: the base's fields come after the struct's own.
SpliceAfter(tab, d) ==
  IF d.base = None \/ BaseError(tab, d) THEN tab
  ELSE LET b == tab[d.base]  align == Max({b.align, tab[d.n].align}) IN
       [tab EXCEPT ![d.n] = [base |-> d.base, fields |-> @.fields \o b.fields, align |-> align,
                             size |-> RoundUp(b.size + @.size, align)]]
\* Pass 2: the base's fields as they are by now, then the struct's own.
Splice(tab, d) ==
  IF d.base = None \/ BaseError(tab, d) THEN tab
  ELSE LET b == tab[d.base]  align == Max({b.align, tab[d.n].align}) IN
       [tab EXCEPT ![d.n] = [base |-> d.base, fields |-> b.fields \o @.fields, align |-> align,
                             size |-> RoundUp(b.size + @.size, align)]]

\* resolveVtables: one virtual method makes every struct of its tree virtual.
DeclaresVirtual(p, s) == \E i \in 1 .. Len(MethodsOf(p, s)) : MethodsOf(p, s)[i].how = "virtual"
HasVirtuals(p, tab, s) ==
  \E r \in DOMAIN tab : DeclaresVirtual(p, r) /\ Last(Chain(tab, r)) = Last(Chain(tab, s))
NamesOf(ms) == [i \in 1 .. Len(ms) |-> ms[i].m]
OwnSlots(p, s) == NamesOf(SelectSeq(MethodsOf(p, s), LAMBDA m : m.how = "virtual"))
\* The slots of the base, then the struct's own in the order of its methods.
Slots(p, tab, s) == LET c == Reverse(Chain(tab, s)) IN
                    FlattenSeq([i \in 1 .. Len(c) |-> OwnSlots(p, c[i])])

\* The struct's own method of that name: none or one, once redefinitions are out.
Own(p, s, m) == {x \in Range(MethodsOf(p, s)) : x.m = m}
Overridable(p, s, m) == \E x \in Own(p, s, m) : x.how # "plain"
\* The nearest struct from s upwards that has such a method.
Nearest(tab, s, owners) == LET c == SelectSeq(Chain(tab, s), LAMBDA d : d \in owners) IN IF c = <<>> THEN None ELSE c[1]
Resolve(p, tab, s, m) == Nearest(tab, s, {d \in DOMAIN tab : Own(p, d, m) # {}})

MethodError(p, tab, s, x) ==
  LET b == Nearest(tab, tab[s].base, {d \in DOMAIN tab : Overridable(p, d, x.m)}) IN
  \/ Cardinality(Own(p, s, x.m)) > 1
  \/ /\ HasVirtuals(p, tab, s) /\ x.how = "virtual"
     /\ ~x.byRef \/ (tab[s].base # None /\ x.m \in Range(Slots(p, tab, tab[s].base)))
  \/ /\ HasVirtuals(p, tab, s) /\ x.how = "override"
     /\ b = None \/ ~x.byRef \/ \E y \in Own(p, b, x.m) : x.sig # y.sig

\* recomputeVtableLayout, bases first: the root of a virtual tree starts with the
\* vtable pointer.  The fields are read again as declared, aliases and all.
VtableField == [f |-> "__oxvt", t |-> "i64"]
Virtualize(tab, d) ==
  LET b == tab[d.n].base
      above == IF b = None THEN [fields |-> <<VtableField>>, end |-> 8, align |-> 8]
               ELSE [fields |-> tab[b].fields, end |-> tab[b].size, align |-> tab[b].align]
      at == Lay(tab, [end |-> above.end, align |-> above.align], d.fields)
  IN [tab EXCEPT ![d.n] = [base |-> b, fields |-> above.fields \o d.fields,
                           size |-> Size(at), align |-> at.align]]
ByDepth(tab, ds) == LET depth(d) == Len(Chain(tab, d.n)) IN
                    FlattenSeq([n \in 1 .. Len(ds) |-> SelectSeq(ds, LAMBDA d : depth(d) = n)])

Spliced(p) == FoldLeft(Splice, FoldLeft(OwnFields, <<>>, p.ss), p.ss)
Virtualized(p, tab) ==
  FoldLeft(Virtualize, tab, ByDepth(tab, SelectSeq(p.ss, LAMBDA d : HasVirtuals(p, tab, d.n))))
Rejected(p, tab) ==
  \/ \E i \in 1 .. Len(p.ss) : p.ss[i].base # None /\ tab[p.ss[i].n].base = None
  \/ \E s \in DOMAIN tab : \E x \in Range(MethodsOf(p, s)) : MethodError(p, tab, s, x)
Checked(p) == LET tab == Spliced(p) IN
              IF Rejected(p, tab) THEN [rejected |-> TRUE]
              ELSE [rejected |-> FALSE, tab |-> Virtualized(p, tab)]

-----------------------------------------------------------------------------
(* IRGen.  A struct is a type of its fields in their order, each at the    *)
(* next place its own alignment allows; a name without a struct has none.  *)
LlvmLay(tab, s) ==
  LET type(t) == IF t \in DOMAIN Words THEN [end |-> Words[t], align |-> Words[t]]
                 ELSE LET at == LlvmLay(tab, t) IN [end |-> Size(at), align |-> at.align]
      next(at, f) == LET a == type(f.t) IN
                     [end |-> RoundUp(at.end, a.align) + a.end, align |-> Max({at.align, a.align})]
  IN FoldLeft(next, [end |-> 0, align |-> 1], tab[s].fields)
Defined(tab) == \A s \in DOMAIN tab : \A f \in Range(tab[s].fields) : f.t \in DOMAIN Words \cup DOMAIN tab

\* Mutant: the vtable holds the method each slot was declared with.
VtableOfDeclarers(p, tab, s) ==
  LET slots == Slots(p, tab, s) IN
  [i \in 1 .. Len(slots) |-> CHOOSE d \in DOMAIN tab : \E x \in Own(p, d, slots[i]) : x.how = "virtual"]
\* emitVtables, and the call of m on a reference to a t that is an s: a slot of
\* the object's vtable where the method found for t is in one, else that method.
Vtable(p, tab, s) == LET slots == Slots(p, tab, s) IN
                     [i \in 1 .. Len(slots) |-> Resolve(p, tab, s, slots[i])]
SlotOf(p, tab, s, m) == LET slots == Slots(p, tab, s) IN
                        {i \in 1 .. Len(slots) : slots[i] = m /\ Overridable(p, s, m)}
Called(p, tab, s, t, m) ==
  LET d == Resolve(p, tab, t, m)  slot == SlotOf(p, tab, d, m) IN
  IF slot = {} THEN d ELSE Vtable(p, tab, s)[Min(slot)]
=============================================================================
