----------------------------- MODULE LoopChecks -----------------------------
(***************************************************************************)
(* What a foreach loop promises about the container it walks, whatever its *)
(* body does to it, and the loops it is checked on.                        *)
(***************************************************************************)
EXTENDS Loops

Keys(b) == {e[1] : e \in Range(b)}
Place(b, k) == SelectInSeq(b, LAMBDA e : e[1] = k)
Logged(r) == Range(r.log)
Walked(r) == {l \in Logged(r) : l.walked}

\* The keys an assignment names.
Named(j, l) == IF l.st.op # "set" THEN {}
               ELSE IF j.kind \in Maps THEN Range(l.st.places)
               ELSE {l.from[p + 1][1] : p \in {q \in Range(l.st.places) : q < Len(l.from)}}
\* What an assignment or a deletion leaves.
MeantEntries(j, l) == LET gone == IF l.st.op = "delete" THEN {l.st.k} ELSE Named(j, l) IN
  {e \in Range(l.from) : e[1] \notin gone} \cup {<<k, 1>> : k \in Named(j, l)}
    \cup {<<k, 0>> : k \in IF l.st.op = "add" THEN {l.st.k} ELSE {}}
MeantElements(l) ==
  CASE l.st.op = "remove" -> RemoveAt(l.from, l.st.k + 1)
    [] l.st.op = "insert" -> InsertAt(l.from, 1 + (IF l.st.k > Len(l.from) THEN Len(l.from) ELSE l.st.k), <<Fresh, 0>>)
    [] l.st.op = "set" -> [n \in 1 .. Len(l.from) |-> IF n - 1 \in Range(l.st.places) THEN <<l.from[n][1], 1>> ELSE l.from[n]]
Ascending(b) == \A p, q \in 1 .. Len(b) : p < q => b[p][1] < b[q][1]
StoresAsMeant(j, l) ==
  /\ j.kind \in Sorted => Ascending(l.to)
  /\ l.st.op \in {"set", "add", "delete", "remove", "insert"} =>
       IF j.kind \in Maps \cup Sets
       THEN Range(l.to) = MeantEntries(j, l) /\ Len(l.to) = Cardinality(Range(l.to))
       ELSE l.to = MeantElements(l)

\* The elements that were there from the beginning of the loop to its end.
Stayed(j, r) == {k \in Keys(j.init) : \A l \in Walked(r) : k \in Keys(l.to)}
Times(r, k) == Cardinality({n \in 1 .. Len(r.seen) : r.seen[n].e[1] = k})
Stored1(j, r, v) == \E n \in 1 .. v.after : r.log[n].walked /\ v.e[1] \in Named(j, r.log[n])
VisitsEach(j, r) ==
  /\ \A k \in Stayed(j, r) : IF r.ended = "done" THEN Times(r, k) = 1 ELSE Times(r, k) <= 1
  /\ \A v \in Range(r.seen) : v.e[1] # Fresh => v.e[2] = (IF Stored1(j, r, v) THEN 1 ELSE 0)
  /\ j.kind \in Sorted => Ascending([n \in 1 .. Len(r.seen) |-> r.seen[n].e])

Counted(j) == IF j.incl THEN j.lo .. j.hi ELSE j.lo .. j.hi - 1
VisitsRange(j, r) ==
  /\ [n \in 1 .. Len(r.seen) |-> r.seen[n].e[1]] = [n \in 1 .. Len(r.seen) |-> j.lo + n - 1]
  /\ \A v \in Range(r.seen) : v.e[1] \in Counted(j)
  /\ r.ended = "done" => Len(r.seen) = Cardinality(Counted(j))

-----------------------------------------------------------------------------
\* A statement moved an element from ahead of the loop's position to behind it,
\* or the other way: the next of a vec slides under the position, the last of a
\* hash map fills a hole already passed.
Crosses(j, r) == \E l \in Walked(r) : \E k \in Keys(l.from) \cap Keys(l.to) \cap Stayed(j, r) :
                   (Place(l.from, k) <= l.i + 1) # (Place(l.to, k) <= l.i + 1)
\* Every iteration adds an element, or the last value is the greatest word.
Endless(j) == \/ \E st \in Range(j.body) : st.op \in {"push", "insert"} /\ st.at = 0
              \/ j.kind = "range" /\ j.incl /\ j.hi = Word \div 2 - 1
\* A body that makes strings while the elements are such strings.
Builds(j) == j.made /\ \E st \in Range(j.body) : (st.op = "build" \/ (st.op = "renew" /\ j.kind = "str"))
Tears(j) == j.kind = "bools" /\ \E st \in Range(j.body) : st.op \in {"remove", "insert"}
Chained(j) == j.kind # "array" /\ \E st \in Range(j.body) : st.op = "set" /\ Len(st.places) > 1

KeepsItsPromise(j, r) ==
  /\ IF j.kind = "range" THEN VisitsRange(j, r) \/ Endless(j) ELSE VisitsEach(j, r) \/ Crosses(j, r) \/ Tears(j)
  /\ r.ended = "running" => Crosses(j, r) \/ Endless(j)
  /\ r.ended = "freed" => Builds(j)
  /\ r.ended = "trap" => \E st \in Range(j.body) : st.op \in {"set", "remove"}
  /\ \A l \in Logged(r) : StoresAsMeant(j, l) \/ Chained(j) \/ Tears(j)

-----------------------------------------------------------------------------
Job(kind, keys, init, body) ==
  [kind |-> kind, keys |-> keys, init |-> [n \in 1 .. Len(init) |-> <<init[n], 0>>], body |-> body,
   lo |-> 0, hi |-> 0, incl |-> FALSE, made |-> FALSE, used |-> 0]
St(at, op, k) == [at |-> at, op |-> op, k |-> k, places |-> <<k>>]
Chain(at, k, l) == [at |-> at, op |-> "set", k |-> k, places |-> <<k, l>>]
Plain(ops, ats) == {St(at, op, 0) : at \in ats, op \in ops}
Keyed(ops, ats, ks) == {St(at, op, k) : at \in ats, op \in ops, k \in ks}

MapStmts(ats) == Plain({"clear", "renew", "break", "continue"}, ats) \cup Keyed({"set", "delete"}, ats, 1 .. 4)
                   \cup {Chain(at, 1, 3) : at \in ats}
SetStmts(ats) == Plain({"clear", "renew", "break", "continue"}, ats) \cup Keyed({"add", "delete"}, ats, 1 .. 4)
VecStmts(ats) == Plain({"clear", "renew", "break", "continue", "push", "pop"}, ats)
                   \cup Keyed({"set", "remove", "insert"}, ats, {0, 2}) \cup {Chain(at, 0, 1) : at \in ats}
ArrayStmts(ats) == Plain({"break", "continue"}, ats) \cup Keyed({"set"}, ats, 0 .. 2) \cup {Chain(at, 0, 1) : at \in ats}
BodiesOf(s, t) == {<<a>> : a \in s} \cup {<<a, b>> : a \in s, b \in t}

MapLoops == {Job(kind, keys, init, body) : kind \in Maps, keys \in BOOLEAN, init \in {<<1, 3>>, <<1, 2, 3>>},
               body \in BodiesOf(MapStmts(0 .. 3), MapStmts({0}))}
SetLoops == {Job(kind, TRUE, init, body) : kind \in Sets, init \in {<<1, 3>>, <<1, 2, 3>>},
               body \in BodiesOf(SetStmts(0 .. 3), SetStmts({0}))}
VecLoops == {Job(kind, FALSE, init, body) : kind \in {"vec", "bools"}, init \in {<<1, 2>>, <<1, 2, 3>>}, body \in BodiesOf(VecStmts(0 .. 3), VecStmts({0}))}
ArrayLoops == {Job("array", FALSE, <<1, 2, 3>>, body) : body \in BodiesOf(ArrayStmts(0 .. 3), ArrayStmts({0}))}
StringLoops == {[Job(k, FALSE, <<1, 2>>, body) EXCEPT !.made = (u > 0), !.used = u] :
                  k \in {"str", "vec", "map", "hmap"}, u \in 0 .. ArenaCap,
                  body \in BodiesOf(Plain({"build", "break"}, 0 .. 2), Plain({"build", "renew"}, {0}) \cup Keyed({"set"}, {0}, {1}))}
RangeLoops == {[Job("range", FALSE, <<>>, body) EXCEPT !.lo = lo, !.hi = hi, !.incl = i] :
                 lo \in -(Word \div 2) .. Word \div 2 - 1, hi \in -(Word \div 2) .. Word \div 2 - 1, i \in BOOLEAN,
                 body \in {<<>>} \cup {<<st>> : st \in Plain({"break", "continue"}, 0 .. 2)}}
=============================================================================
