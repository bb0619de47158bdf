---------------------------- MODULE ImportChecks ----------------------------
(***************************************************************************)
(* What the splice of imports is to make of the files, and the programs it *)
(* is checked over: the input file m, a file a next to it and b in a       *)
(* directory d.  The declaration of a file has the file's place as name.   *)
(***************************************************************************)
EXTENDS Imports, FiniteSets

\* The imports of a file as it is written, wherever it is named from.
ImportsOf(f, at) == {x.path : x \in {y \in Range(f[at].items) : y.op = "import"}}
Target(at, path) == Place(Front(at) \o path)

\* The spellings of files that an import can meet, from the input file on, none
\* of them longer than can be opened.
RECURSIVE Spelled(_, _)
Spelled(f, ps) ==
  LET more == UNION {{JoinPath(PathDir(p), r) : r \in ImportsOf(f, Place(p))} :
                       p \in {q \in ps : Opens(f, q) /\ f[Place(q)].lexes}}
  IN IF more \subseteq ps THEN ps ELSE Spelled(f, ps \cup more)
RECURSIVE Reached(_, _)
Reached(f, S) ==
  LET more == UNION {{Target(at, r) : r \in ImportsOf(f, at)} : at \in {x \in S : x \in DOMAIN f /\ f[x].lexes}}
  IN IF more \subseteq S THEN S ELSE Reached(f, S \cup more)
Below(f, at) == Reached(f, {Target(at, r) : r \in ImportsOf(f, at)})

\* Paths that differ in their separators alone are one spelling.
SameNames(p, q) ==
  Len(p) = Len(q) /\ \A i \in 1 .. Len(p) : p[i] = q[i] \/ {p[i], q[i]} \subseteq Seps

\* Lapses.  A file that is imported by two names, or that is the input file: a
\* visited file is known by the spelling of its path.  And files that import one
\* another by way of "..": each turn spells a longer path, until none is opened.
Respelled(f, input) ==
  \E p, q \in Spelled(f, {input}) : Place(p) = Place(q) /\ Place(p) \in DOMAIN f /\ ~SameNames(p, q)
ImportsInput(f, input) == Place(input) \in Below(f, Place(input))
Climbs(f, input) == \E p \in Spelled(f, {input}) : Len(p) > PathMax

Missing(f, input) == \E at \in Reached(f, {Place(input)}) : at \notin DOMAIN f \/ ~f[at].lexes

Times(out, name) == Cardinality({i \in 1 .. Len(out) : out[i] = name})
EachOnce(f, input, out) == \A at \in Reached(f, {Place(input)}) : Times(out, at) = 1
\* What stands after an import comes after what it imports, all of it, but where
\* the files import one another.
AfterImports(f, input, out) ==
  \A at \in Reached(f, {Place(input)}) : \A i, j \in 1 .. Len(f[at].items) :
    i < j /\ f[at].items[i].op = "import" /\ f[at].items[j].op = "decl" =>
      LET g == Target(at, f[at].items[i].path) IN
      at \notin Reached(f, {g}) =>
        \A n, m \in 1 .. Len(out) : out[n] \in Reached(f, {g}) /\ out[m] = at => n < m

SplicesOnce(j, r) ==
  /\ r.errs = {} <=> ~Missing(j.files, j.input) /\ ~Climbs(j.files, j.input)
  /\ r.errs = {} =>
       /\ EachOnce(j.files, j.input, r.out) <=>
            ~Respelled(j.files, j.input) /\ ~ImportsInput(j.files, j.input)
       /\ EachOnce(j.files, j.input, r.out) => AfterImports(j.files, j.input, r.out)

-----------------------------------------------------------------------------
M == <<"m">>
A == <<"a">>
B == <<"d", "b">>
Optional(paths) == {<<>>} \cup {<<Import(p)>> : p \in paths}
File(items) == [lexes |-> TRUE, items |-> items]
Contents(at, before, after) == {File(x \o <<Decl(at)>> \o y) : x \in before, y \in after}
Broken == [lexes |-> FALSE, items |-> <<>>]

\* How the files are named from the directory of m and a, and from d.
AtTop == {A, M, <<"d", "/", "b">>, <<"d", "\\", "b">>, <<".", "/", "d", "/", "b">>, <<"d", "/", "..", "/", "a">>, <<"z">>}
InD == {<<"b">>, <<"..", "/", "a">>, <<"..", "\\", "a">>, <<"..", "/", "m">>, <<"..", "/", "d", "/", "b">>, <<"z">>}
Jobs == {[input |-> M, files |-> (M :> m @@ A :> a @@ B :> b)] :
           m \in {File(x \o y \o <<Decl(M)>>) : x \in Optional(AtTop), y \in Optional(AtTop)},
           a \in {Broken} \cup Contents(A, Optional(AtTop), {<<>>}) \cup Contents(A, {<<>>}, Optional(AtTop)),
           b \in {Broken} \cup Contents(B, Optional(InD), {<<>>}) \cup Contents(B, {<<>>}, Optional(InD))}
=============================================================================
