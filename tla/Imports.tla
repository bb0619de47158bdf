------------------------------ MODULE Imports ------------------------------
(***************************************************************************)
(* The splice of imported files (resolveImports).  A path is the sequence  *)
(* of its names and separators.  The files are a function from paths       *)
(* without "." and ".." to contents: a sequence of imports and other       *)
(* items, or what the lexer refuses.  The state s of a compilation is what *)
(* it has visited, its errors and the items it has put out.                *)
(***************************************************************************)
EXTENDS Naturals, SequencesExt

CONSTANT PathMax   \* the longest path that can be opened (of the file system)

Seps == {"/", "\\"}
Import(path) == [op |-> "import", path |-> path]
Decl(name) == [op |-> "decl", name |-> name]

RECURSIVE Strip(_), Resolve(_, _, _, _)

PathDir(p) ==
  LET i == SelectLastInSeq(p, LAMBDA x : x \in Seps) IN IF i = 0 THEN <<".">> ELSE SubSeq(p, 1, i - 1)
Strip(r) == IF Len(r) >= 2 /\ r[1] = "." /\ r[2] \in Seps THEN Strip(SubSeq(r, 3, Len(r))) ELSE r
JoinPath(dir, rel) ==
  IF dir \in {<<>>, <<".">>} THEN Strip(rel)
  ELSE dir \o <<IF Contains(dir, "\\") THEN "\\" ELSE "/">> \o Strip(rel)
CanonAsWritten(path) == path               \* mutant: separators are told apart
Canon(path) == [i \in 1 .. Len(path) |-> IF path[i] = "\\" THEN "/" ELSE path[i]]

\* What the file system opens: either separator parts the names, "." is where
\* one is, ".." the directory above.
Place(path) ==
  FoldLeft(LAMBDA at, x : IF x \in Seps \cup {"."} THEN at
                          ELSE IF x = ".." /\ at # <<>> THEN Front(at)
                          ELSE Append(at, x), <<>>, path)
Opens(files, path) == Len(path) <= PathMax /\ Place(path) \in DOMAIN files

Fail(s, what) == [s EXCEPT !.errs = @ \cup {what}]
Visit(s, canon) == [s EXCEPT !.visited = @ \cup {canon}]
Emit(s, item) == [s EXCEPT !.out = Append(@, item.name)]

\* The items in place of one import.
Splice(files, path, s) ==
  IF Canon(path) \in s.visited THEN s
  ELSE LET v == Visit(s, Canon(path)) IN
       IF ~Opens(files, path) THEN Fail(v, "not found")
       ELSE IF ~files[Place(path)].lexes THEN Fail(v, "lex")
       ELSE Resolve(files, files[Place(path)].items, PathDir(path), v)
Resolve(files, items, dir, s) ==
  FoldLeft(LAMBDA t, x : IF x.op = "import" THEN Splice(files, JoinPath(dir, x.path), t) ELSE Emit(t, x),
           s, items)

\* The input file is read first, and counts as visited only once it is imported.
Compile(files, input) ==
  Resolve(files, files[Place(input)].items, PathDir(input), [visited |-> {}, errs |-> {}, out |-> <<>>])
=============================================================================
