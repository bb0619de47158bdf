------------------------------- MODULE Parser -------------------------------
(***************************************************************************)
(* The recursive descent parser of src/src/Parser.cpp: types, expressions, *)
(* statements, declarations and the loop over a program with its recovery. *)
(*                                                                         *)
(* A token is a string; the sequence ends with "end".  A tree is a node    *)
(* [op, kids].  A cursor c is the parser's state: the tokens s, the        *)
(* position p (p_), the number of reported errors e (errs_), the two mode  *)
(* flags spec (inSpec_) and lit (allowStructLit_), and stop, which records *)
(* behaviour the code leaves undefined: "over" when a token is read past   *)
(* the end marker, "null" when a match arm is appended through a null      *)
(* pointer.  A parse function maps a cursor to [t, c]: the tree it         *)
(* returns and the cursor it leaves.  Source positions, messages and the   *)
(* text of literals are left out.                                          *)
(***************************************************************************)
EXTENDS Naturals, Sequences, FiniteSets

CONSTANT Names                      \* the identifiers that occur in an input

Node(op, kids) == [op |-> op, kids |-> kids]
Leaf(op) == Node(op, <<>>)
Zero == Leaf("0")                   \* the literal that stands for a failed parse
Nothing == Leaf("nullptr")          \* a parse function that returned nullptr

Cursor(toks) == [s |-> toks, p |-> 1, e |-> 0,
                 spec |-> FALSE, lit |-> TRUE, stop |-> "no"]

Peek(c, n) == IF c.p + n <= Len(c.s) THEN c.s[c.p + n] ELSE "end"
Tok(c) == Peek(c, 0)
At(c, toks) == Tok(c) \in toks
Skip(c) == [c EXCEPT !.p = @ + 1,
                     !.stop = IF c.p >= Len(c.s) /\ @ = "no" THEN "over" ELSE @]
Error(c) == [c EXCEPT !.e = @ + 1]
Accept(c, t) == IF Tok(c) = t THEN Skip(c) ELSE c
\* Mutant: a missing token is passed over in silence.
ExpectQuietly(c, t) == Accept(c, t)
Expect(c, t) == IF Tok(c) = t THEN Skip(c) ELSE Error(c)
AtName(c) == At(c, Names \cup {"_"})
Got(t, c) == [t |-> t, c |-> c]

\* p_++ while the current token is outside a set, never past "end".
RECURSIVE SkipTo(_, _)
SkipTo(c, toks) == IF At(c, toks \cup {"end"}) THEN c ELSE SkipTo(Skip(c), toks)

\* The parse functions that call each other go through one operator: TLC, which
\* profiles an operator per chain of calls, would unfold their recursion in every
\* order otherwise.
RECURSIVE Parse(_, _)
ParseType(c) == Parse("type", c)
ParseExpr(c) == Parse("expr", c)
ParseAssign(c) == Parse("assign", c)
ParseUnary(c) == Parse("unary", c)
ParsePrimary(c) == Parse("primary", c)
ParseTernary(c) == Parse("ternary", c)
ParseSpecExpr(c) == Parse("spec", c)
ParseStmt(c) == Parse("stmt", c)
ParseBlock(c) == Parse("block", c)
TypeParams(c) == Parse("typeparams", c)
ParseFunc(c) == Parse("func", c)
ParseDecl(c) == Parse("decl", c)

RECURSIVE TypeList(_, _), FnTypeTail(_, _), ParseBinary(_, _), BinaryTail(_, _),
          ParseImplies(_), ImpliesTail(_), CastTail(_), PostfixTail(_),
          ArgTail(_, _, _), ParseIf(_)

-----------------------------------------------------------------------------
(* Types                                                                   *)

Prims == {"i64", "f64", "f32", "bool", "void", "str", "char", "i8", "i16",
          "i32", "u8", "u16", "u32", "u64", "usize"}
OneBox == {"vec", "set", "hset", "Channel"}       \* box[T]
TwoBox == {"map", "hmap"}                         \* box[K, V]

BoxType(c, box) ==
  IF Tok(c) # "[" THEN Got(Node(box, <<Leaf("i64")>>), Error(c))
  ELSE LET k == ParseType(Skip(c)) IN
       IF box \in OneBox THEN Got(Node(box, <<k.t>>), Expect(k.c, "]"))
       ELSE LET v == ParseType(Expect(k.c, ",")) IN
            Got(Node(box, <<k.t, v.t>>), Expect(v.c, "]"))

ArrayType(c) ==
  LET el == ParseType(c)
      n  == Expect(el.c, ";")
  IN  IF Tok(el.c) # ";" THEN Got(Node("array", <<el.t>>), n)
      ELSE Got(Node("array", <<el.t>>),
               Expect(IF Tok(n) = "1" THEN Skip(n) ELSE Error(n), "]"))

\* After a name: type arguments are tried and undone when no ">" closes them;
\* the errors met on the way are dropped either way.
TypeArgs(c) ==
  LET a == TypeList(Skip(c), <<>>) IN
  IF Tok(c) # "<" THEN [ok |-> FALSE, t |-> <<>>, c |-> c]
  ELSE IF Tok(a.c) = ">" THEN [ok |-> TRUE, t |-> a.t, c |-> Skip([a.c EXCEPT !.e = c.e])]
  ELSE [ok |-> FALSE, t |-> <<>>, c |-> [c EXCEPT !.stop = a.c.stop]]

TypeList(c, ts) ==
  IF At(c, {">", "end"}) THEN Got(ts, c)
  ELSE LET x == ParseType(c) IN
       IF Tok(x.c) = "," THEN TypeList(Skip(x.c), Append(ts, x.t))
       ELSE Got(Append(ts, x.t), x.c)

FnTypeTail(c, ts) ==
  LET x == ParseType(c) IN
  IF Tok(x.c) = "," /\ Peek(x.c, 1) # ")" THEN FnTypeTail(Skip(x.c), Append(ts, x.t))
  ELSE Got(Append(ts, x.t), Accept(x.c, ","))

FnType(c) ==
  IF Tok(c) # "(" THEN Got(Leaf("i64"), Error(c))
  ELSE LET ps  == IF Tok(Skip(c)) = ")" THEN Got(<<>>, Skip(c)) ELSE FnTypeTail(Skip(c), <<>>)
           cl  == Expect(ps.c, ")")
           ret == IF Tok(cl) = "->" THEN ParseType(Skip(cl)) ELSE Got(Leaf("void"), cl)
       IN  Got(Node("fntype", Append(ps.t, ret.t)), ret.c)

TypeAt(c) ==
  LET k == Tok(c)  n == Skip(c) IN
  CASE k \in {"*", "&"} -> LET x == ParseType(n) IN Got(Node("ptr", <<x.t>>), x.c)
    [] k \in Prims -> Got(Leaf(k), n)
    [] k = "fn" -> FnType(n)
    [] k \in OneBox \cup TwoBox -> BoxType(n, k)
    [] k = "[" -> ArrayType(n)
    [] AtName(c) -> LET a == TypeArgs(n) IN
                    IF Tok(n) = "<" /\ Peek(n, 1) # "<" /\ a.ok
                    THEN Got(Node(k, a.t), a.c)
                    ELSE Got(Leaf(k), IF Tok(n) = "<" /\ Peek(n, 1) # "<" THEN a.c ELSE n)
    [] OTHER -> Got(Leaf("i64"), Skip(Error(c)))

-----------------------------------------------------------------------------
(* Expressions: the binary levels, loosest first                           *)

None == Leaf("none")
\* Mutant: the ban on struct literals outlives the form that set it.
RestoreSpecOnly(r, c) == Got(r.t, [r.c EXCEPT !.spec = c.spec])
Restore(r, c) == Got(r.t, [r.c EXCEPT !.spec = c.spec, !.lit = c.lit])
Headed(c) == [c EXCEPT !.lit = FALSE]      \* the head of an if, while, match

Levels == << {"||"}, {"&&"}, {"==", "!="}, {"<", ">", "<=", ">="}, {"|"}, {"^"},
             {"&"}, {"<<", ">>"}, {"+", "-"}, {"*", "/", "%", "\\"} >>

CastTail(l) ==
  IF Tok(l.c) # "as" THEN l
  ELSE LET ty == ParseType(Skip(l.c)) IN CastTail(Got(Node("as", <<l.t, ty.t>>), ty.c))

\* The ten functions, one per level, taken together: an operator of level n or
\* tighter is read with a right operand of the next level, so that each level
\* is left associative.
LevelOf == [t \in UNION {Levels[n] : n \in 1 .. Len(Levels)} |->
              CHOOSE n \in 1 .. Len(Levels) : t \in Levels[n]]
\* Mutant: the right operand may hold operators of the same level.
BinaryTailToTheRight(n, l) ==
  LET op == Tok(l.c)
      r  == ParseBinary(LevelOf[op], Skip(l.c))
  IN  IF op \notin DOMAIN LevelOf \/ LevelOf[op] < n THEN l
      ELSE BinaryTail(n, Got(Node(op, <<l.t, r.t>>), r.c))

BinaryTail(n, l) ==
  LET op == Tok(l.c)
      r  == ParseBinary(LevelOf[op] + 1, Skip(l.c))
  IN  IF op \notin DOMAIN LevelOf \/ LevelOf[op] < n THEN l
      ELSE BinaryTail(n, Got(Node(op, <<l.t, r.t>>), r.c))

ParseBinary(n, c) == BinaryTail(n, CastTail(ParseUnary(c)))

ParseAdd(c) == ParseBinary(9, c)

\* "a implies b" is "!a || b", right associative, only inside a contract.
ImpliesTail(l) ==
  IF Tok(l.c) # "implies" THEN l
  ELSE LET r == ParseImplies(Skip(l.c)) IN
       ImpliesTail(Got(Node("||", <<Node("!", <<l.t>>), r.t>>), r.c))

ParseImplies(c) ==
  LET l == ParseBinary(1, c) IN IF c.spec THEN ImpliesTail(l) ELSE l

Ternary(c) ==
  LET cond == ParseImplies(c)
      th   == ParseAssign(Skip(cond.c))
      el   == ParseAssign(Expect(th.c, ":"))
  IN  IF Tok(cond.c) # "?" THEN cond
      ELSE Got(Node("?", <<cond.t, th.t, el.t>>), el.c)

AssignOps == {"=", "+=", "-=", "*=", "/=", "%=", "&=", "|=", "^=", "<<=", ">>="}
IsVar(t) == t.kids = <<>> /\ t.op \in Names \cup {"_", "self", "$"}
IsPlace(t) == \/ IsVar(t)
              \/ t.op \in {"index", "field"}
              \/ t.op = "*" /\ Len(t.kids) = 1

AssignExpr(c) ==
  LET l == ParseTernary(c)
      r == ParseAssign(Skip(l.c))
  IN  CASE Tok(l.c) = "<-" -> Got(Node("<-", <<l.t, r.t>>), r.c)
        [] Tok(l.c) \in AssignOps -> IF IsPlace(l.t)
                                     THEN Got(Node(Tok(l.c), <<l.t, r.t>>), r.c)
                                     ELSE Got(l.t, Error(r.c))
        [] OTHER -> l

RangeExpr(c) ==                                              \* parseRange
  LET lo == ParseAssign(c)
      hi == ParseAssign(Skip(lo.c))
  IN  IF At(lo.c, {"..", "..="}) THEN Got(Node(Tok(lo.c), <<lo.t, hi.t>>), hi.c) ELSE lo

\* A contract clause: contract forms on, struct literals off.
SpecExpr(c) == Restore(ParseTernary([c EXCEPT !.spec = TRUE, !.lit = FALSE]), c)

-----------------------------------------------------------------------------
(* Expressions: prefix, power, postfix                                     *)

MakeIncDec(op, r) ==
  IF IsPlace(r.t) THEN Got(Node(op, <<r.t>>), r.c) ELSE Got(r.t, Error(r.c))

ParsePower(c) ==
  LET b == PostfixTail(ParsePrimary(c))
      e == ParseUnary(Skip(b.c))
  IN  IF Tok(b.c) = "**" THEN Got(Node("**", <<b.t, e.t>>), e.c) ELSE b

UnaryExpr(c) ==
  LET k == Tok(c)  r == ParseUnary(Skip(c)) IN
  CASE k \in {"!", "~", "&", "*", "-", "<-"} -> Got(Node(k, <<r.t>>), r.c)
    [] k \in {"++", "--"} -> MakeIncDec(k, r)
    [] OTHER -> ParsePower(c)

\* while (!at(close) && !at(end)) { parseExpr(); if (!accept(comma)) break; }
ArgTail(c, close, ts) ==
  IF At(c, {close, "end"}) THEN Got(ts, c)
  ELSE LET x == ParseExpr(c) IN
       IF Tok(x.c) = "," THEN ArgTail(Skip(x.c), close, Append(ts, x.t))
       ELSE Got(Append(ts, x.t), x.c)

Args(op, c, first) ==
  LET a == ArgTail(c, ")", first) IN Got(Node(op, a.t), Expect(a.c, ")"))

PostfixTail(l) ==
  LET k == Tok(l.c)  n == Skip(l.c)  m == Skip(n) IN
  CASE k = "[" -> LET x == ParseExpr(n) IN
                  PostfixTail(Got(Node("index", <<l.t, x.t>>), Expect(x.c, "]")))
    [] k = "." /\ ~AtName(n) -> Got(l.t, Error(n))
    [] k = "." /\ AtName(n) /\ Tok(m) = "(" ->
                  PostfixTail(Args("method", Skip(m), <<l.t, Leaf(Tok(n))>>))
    [] k = "." /\ AtName(n) /\ Tok(m) # "(" ->
                  PostfixTail(Got(Node("field", <<l.t, Leaf(Tok(n))>>), m))
    [] k = "(" -> PostfixTail(Args("callexpr", n, <<l.t>>))
    [] k \in {"pow2", "pow3"} ->
                  PostfixTail(Got(Node("**", <<l.t, Leaf(IF k = "pow2" THEN "2" ELSE "3")>>), n))
    [] k \in {"++", "--"} ->
                  PostfixTail(MakeIncDec(IF k = "++" THEN "post++" ELSE "post--", Got(l.t, n)))
    [] OTHER -> l

-----------------------------------------------------------------------------
(* Expressions: primaries                                                  *)

Literals == {"0", "1", "1.0", "'c'", "str", "null", "true", "false", "pi"}

RECURSIVE FieldTail(_, _)                 \* the fields of a struct literal
FieldTail(c, ts) ==
  LET colon == Expect(Skip(c), ":")  v == ParseExpr(colon)  f == Leaf(Tok(c)) IN
  IF At(c, {"}", "end"}) THEN Got(ts, c)
  ELSE IF ~AtName(c) THEN Got(ts, Error(c))
  ELSE IF Tok(Skip(c)) # ":" THEN Got(Append(ts, f), colon)
  ELSE IF Tok(v.c) = "," THEN FieldTail(Skip(v.c), Append(ts, Node("fld", <<f, v.t>>)))
  ELSE Got(Append(ts, Node("fld", <<f, v.t>>)), v.c)

StructLit(c, name) ==
  LET f == FieldTail(c, <<>>) IN Got(Node("lit", <<Leaf(name)>> \o f.t), Expect(f.c, "}"))

\* A name: a call, an associated call, a struct literal or a variable.  A "<"
\* after it is tried as type arguments first; when they close and neither a
\* call nor a literal follows, the variable is returned without them.
NamedPrimary(c) ==
  LET name == Tok(c)  n == Skip(c)  m == Skip(n)
      ga == TypeArgs(n)
      generic == name # "print" /\ Tok(n) = "<" /\ ga.ok
      b == IF name # "print" /\ Tok(n) = "<" THEN ga.c ELSE n
      targs == IF generic THEN <<Node("<>", ga.t)>> ELSE <<>>
  IN  CASE Tok(b) = "(" -> Args("call", Skip(b), <<Leaf(name)>> \o targs)
        [] Tok(b) = "{" /\ c.lit /\ name # "print" ->
             LET l == StructLit(Skip(b), name) IN Got(Node("lit", l.t.kids \o targs), l.c)
        [] Tok(n) = "::" /\ name # "print" ->
             IF ~AtName(m) THEN Got(Zero, Error(m))
             ELSE IF Tok(Skip(m)) # "(" THEN Got(Zero, Error(Skip(m)))
             ELSE Args("assoc", Skip(Skip(m)), <<Leaf(name), Leaf(Tok(m))>>)
        [] OTHER -> Got(Leaf(name), b)

RECURSIVE CaptureTail(_, _), ParamTail(_, _)
CaptureTail(c, ts) ==
  LET n == Accept(c, "&") IN
  IF At(c, {"]", "end"}) THEN Got(ts, c)
  ELSE IF ~AtName(n) THEN Got(ts, Error(n))
  ELSE LET t == Node(IF n = c THEN "byval" ELSE "byref", <<Leaf(Tok(n))>>) IN
       IF Tok(Skip(n)) = "," THEN CaptureTail(Skip(Skip(n)), Append(ts, t))
       ELSE Got(Append(ts, t), Skip(n))

ParamTail(c, ts) ==
  LET ty == ParseType(Skip(Skip(c)))  t == Node("param", <<Leaf(Tok(c)), ty.t>>) IN
  IF At(c, {")", "end"}) THEN Got(ts, c)
  ELSE IF ~AtName(c) THEN Got(ts, Error(c))
  ELSE IF Tok(Skip(c)) # ":" THEN Got(ts, Error(Skip(c)))
  ELSE IF Tok(ty.c) = "," THEN ParamTail(Skip(ty.c), Append(ts, t))
  ELSE Got(Append(ts, t), ty.c)

Lambda(c) ==                              \* c is after "fn"
  LET all  == At(Skip(c), {"=", "&"}) /\ Peek(c, 2) = "]"
      cap  == IF Tok(c) # "[" THEN Got(<<>>, c)
              ELSE IF all THEN Got(<<Leaf(Peek(c, 1))>>, Skip(Skip(Skip(c))))
              ELSE LET t == CaptureTail(Skip(c), <<>>) IN Got(t.t, Accept(t.c, "]"))
      ps   == ParamTail(Skip(cap.c), <<>>)
      cl   == Expect(ps.c, ")")
      ret  == IF Tok(cl) = "->" THEN ParseType(Skip(cl)) ELSE Got(Leaf("void"), cl)
      body == ParseBlock([ret.c EXCEPT !.lit = TRUE])
  IN  IF Tok(cap.c) # "(" THEN Got(Zero, Error(cap.c))
      ELSE IF Tok(ret.c) # "{" THEN Got(Zero, Error(ret.c))
      ELSE Got(Node("lambda", cap.t \o ps.t \o <<ret.t, Node("{}", body.t)>>),
               [body.c EXCEPT !.lit = c.lit])

\* Only a block of one expression statement is kept as the thread's body.
Spawn(c) ==
  LET b == ParseBlock(c)  x == ParseExpr(c)
      one == Len(b.t) = 1 /\ b.t[1].op = "expr"
  IN  IF Tok(c) # "{" THEN Got(Node("spawn", <<x.t>>), x.c)
      ELSE Got(Node("spawn", <<IF one THEN b.t[1].kids[1] ELSE Zero>>), b.c)

\* "forall i: T in lo..hi implies P": the bounds are parsed outside contract
\* mode, so that the "implies" before the body is left to the quantifier.
Quant(c) ==
  LET b   == Skip(Skip(c))
      col == Expect(b, ":")
      ty  == IF Tok(col) = "in" THEN Got(Leaf("i64"), col) ELSE ParseType(col)
      lo  == ParseAssign([Expect(ty.c, "in") EXCEPT !.spec = FALSE, !.lit = FALSE])
      rng == IF Tok(lo.c) = "..=" THEN Skip(lo.c) ELSE Expect(lo.c, "..")
      hi  == Restore(ParseAssign(rng), c)
      p   == ParseSpecExpr(Expect(hi.c, "implies"))
  IN  IF ~AtName(Skip(c)) THEN Got(Leaf("false"), Error(Skip(c)))
      ELSE Got(Node(Tok(c), <<Leaf(Peek(c, 1)), ty.t,
                              Leaf(IF Tok(lo.c) = "..=" THEN "..=" ELSE ".."),
                              lo.t, hi.t, p.t>>), p.c)

\* Is there a ";" outside nested brackets before the matching "]"?
RECURSIVE MatrixScan(_, _, _)
MatrixScan(c, k, depth) ==
  LET t == Peek(c, k) IN
  CASE t = "end" -> FALSE
    [] t \in {"[", "("} -> MatrixScan(c, k + 1, depth + 1)
    [] t = "]" -> depth > 0 /\ MatrixScan(c, k + 1, depth - 1)
    [] t = ")" -> MatrixScan(c, k + 1, IF depth > 0 THEN depth - 1 ELSE 0)
    [] t = ";" /\ depth = 0 -> TRUE
    [] OTHER -> MatrixScan(c, k + 1, depth)

RECURSIVE FlatRow(_, _), RowTail(_, _, _)
FlatRow(c, ts) ==
  IF At(c, {"]", ")", "end", ";", ","}) THEN Got(ts, c)
  ELSE LET x == ParseExpr(c) IN
       IF Tok(x.c) = "," THEN FlatRow(Skip(x.c), Append(ts, x.t)) ELSE Got(Append(ts, x.t), x.c)

MixedRow(c) ==                            \* a row that is itself a bracketed group
  LET g == ParsePrimary(c)  x == ParseExpr(Error(c)) IN
  IF Tok(c) # "[" THEN Got(<<x.t>>, x.c)
  ELSE IF g.t.op = "array" THEN Got(g.t.kids, g.c) ELSE Got(<<g.t>>, Error(g.c))

RowTail(c, mixed, rows) ==
  LET r == IF mixed THEN MixedRow(c) ELSE FlatRow(c, <<>>)
      d == IF mixed /\ Tok(r.c) = "," THEN Skip(Error(r.c)) ELSE r.c
      all == Append(rows, Node("row", r.t))
  IN  IF At(c, {"]", "end"}) THEN Got(rows, c)
      ELSE IF Tok(d) = ";" THEN RowTail(Skip(d), mixed, all) ELSE Got(all, d)

Bracketed(c) ==                           \* c is at "["
  LET a == ArgTail(Skip(c), "]", <<>>)
      m == RowTail(Skip(c), Peek(c, 1) = "[", <<>>)
  IN  IF MatrixScan(c, 1, 0) THEN Got(Node("matrix", m.t), Expect(m.c, "]"))
      ELSE Got(Node("array", a.t), Expect(a.c, "]"))

BoxNew(c, box) ==                         \* vec[T], map[K, V], ... as a value
  LET k == ParseType(Expect(c, "["))
      v == ParseType(Expect(k.c, ","))
  IN  IF box \in TwoBox THEN Got(Node("new", <<Leaf(box), k.t, v.t>>), Expect(v.c, "]"))
      ELSE Got(Node("new", <<Leaf(box), k.t>>), Expect(k.c, "]"))

ChannelNew(c) ==                          \* Channel[T]::new()
  LET el == IF At(c, {"<", "["}) THEN ParseType(Skip(c)) ELSE Got(Leaf("i64"), Error(c))
      cl == IF Tok(c) = "<" THEN Expect(el.c, ">")
            ELSE IF Tok(c) = "[" THEN Expect(el.c, "]") ELSE el.c
      ch == Node("new", <<Leaf("Channel"), el.t>>)
      nm == Skip(cl)
  IN  IF Tok(cl) # "::" THEN Got(ch, cl)
      ELSE IF ~AtName(nm) THEN Got(Zero, Error(nm))
      ELSE IF Peek(nm, 1) # "(" THEN Got(Zero, Error(Skip(nm)))
      ELSE Got(ch, Expect(Skip(Skip(nm)), ")"))

RECURSIVE AsmTail(_, _)                   \* the clauses of an asm! block
AsmTail(c, ts) ==
  LET k == Peek(c, 1)  n == Skip(Skip(c))
      v == ParseUnary(Expect(Skip(Skip(n)), ")"))
      value == IF k = "clobbers" THEN {"str"} ELSE {"true", "false"}
  IN  IF Tok(c) # "," THEN Got(ts, c)
      ELSE IF k \in {"in", "out", "inout"}
      THEN IF Tok(n) # "(" THEN Got(ts, Error(n))
           ELSE IF Peek(n, 1) # "str" THEN Got(ts, Error(Skip(n)))
           ELSE AsmTail(v.c, Append(ts, Node(k, <<v.t>>)))
      ELSE IF k \in {"clobbers", "sideeffect", "memory"}
      THEN IF Tok(n) # "=" THEN Got(ts, Error(n))
           ELSE IF Peek(n, 1) \in value THEN AsmTail(Skip(Skip(n)), Append(ts, Leaf(k)))
           ELSE IF k = "clobbers" THEN Got(ts, Error(Skip(n)))
           ELSE AsmTail(Error(Skip(n)), ts)
      ELSE LET d == Skip(Error(Skip(c))) IN
           IF At(d, {")", "end"}) THEN Got(ts, d) ELSE AsmTail(d, ts)

Asm(c) ==                                 \* c is after "asm"
  LET open == Expect(Skip(c), "(")
      cl   == AsmTail(Skip(open), <<>>)
      done == Expect(cl.c, ")")
      nm   == Skip(done)
      args == ArgTail(Skip(Skip(nm)), ")", <<>>)
  IN  IF Tok(c) # "!" THEN Got(Zero, Error(c))
      ELSE IF Tok(open) # "str" THEN Got(Zero, Error(open))
      ELSE IF Tok(done) # "implements" THEN Got(Node("asm", cl.t), done)
      ELSE IF ~AtName(nm) THEN Got(Node("asm", cl.t), Error(nm))
      ELSE IF Peek(nm, 1) # "(" THEN Got(Node("asm", cl.t), Error(Skip(nm)))
      ELSE Got(Node("asm", cl.t \o <<Node("implements", <<Leaf(Tok(nm))>> \o args.t)>>),
               Expect(args.c, ")"))

Integrate(c) ==                           \* the ASCII form: errors are reported, parsing goes on
  LET b  == ParseUnary(c)
      lo == ParseAdd(Expect(b.c, "from"))
      hi == ParseAdd(Expect(lo.c, "to"))
  IN  Got(Node("integrate", <<b.t, lo.t, hi.t>>), hi.c)

Expand(c) ==
  IF ~AtName(c) THEN Got(Zero, Error(c))
  ELSE IF Peek(c, 1) # "(" THEN Got(Zero, Error(Skip(c)))
  ELSE Args("expand", Skip(Skip(c)), <<Leaf(Tok(c))>>)

PrimaryExpr(c) ==
  LET k == Tok(c)  n == Skip(c) IN
  CASE k \in Literals \cup {"self"} -> Got(Leaf(k), n)
    [] k = "expand" -> Expand(n)
    [] k = "$" -> IF AtName(n) THEN Got(Leaf("$"), Skip(n)) ELSE Got(Zero, Error(n))
    [] k = "fn" -> Lambda(n)
    [] k = "sizeof" -> LET ty == ParseType(Expect(n, "(")) IN
                       Got(Node("sizeof", <<ty.t>>), Expect(ty.c, ")"))
    [] k = "spawn" -> Spawn(n)
    [] k = "Channel" -> ChannelNew(n)
    [] k = "old" /\ c.spec -> LET x == ParseSpecExpr(Expect(n, "(")) IN
                              Got(Node("old", <<x.t>>), Expect(x.c, ")"))
    [] k \in {"forall", "exists"} /\ c.spec -> Quant(c)
    [] k = "asm" -> Asm(n)
    [] k = "(" -> LET x == ParseExpr(n) IN Got(x.t, Expect(x.c, ")"))
    [] k \in (OneBox \ {"Channel"}) \cup TwoBox -> BoxNew(n, k)
    [] k = "[" -> Bracketed(c)
    [] k = "sqrt" -> LET x == ParseUnary(n) IN Got(Node("sqrt", <<x.t>>), x.c)
    [] k = "integrate" -> Integrate(n)
    [] AtName(c) \/ k = "print" -> NamedPrimary(c)
    [] OTHER -> Got(Zero, Skip(Error(c)))

-----------------------------------------------------------------------------
(* Statements                                                              *)

Block(ts) == Node("{}", ts)

RECURSIVE StmtTail(_, _)
StmtTail(c, ts) ==
  LET x == ParseStmt(c) IN
  IF At(c, {"}", "end"}) THEN Got(ts, c)
  ELSE IF x.t = Nothing THEN StmtTail(Accept(SkipTo(x.c, {";", "}"}), ";"), ts)
  ELSE StmtTail(x.c, Append(ts, x.t))

\* Mutant: the end of the file closes a block.
BracedToTheEnd(c) ==
  LET b == StmtTail(Expect(c, "{"), <<>>) IN
  Got(b.t, IF Tok(b.c) = "end" THEN b.c ELSE Expect(b.c, "}"))
Braced(c) ==
  LET b == StmtTail(Expect(c, "{"), <<>>) IN Got(b.t, Expect(b.c, "}"))

\* "{ ... }", or one statement without braces.
ParseBody(c) ==
  LET b == ParseBlock(c)  x == ParseStmt(c) IN
  IF Tok(c) = "{" THEN Got(Block(b.t), b.c)
  ELSE Got(Block(IF x.t = Nothing THEN <<>> ELSE <<x.t>>), x.c)

LetMut(c, mut) ==
  LET n   == Accept(c, "mut")
      ty  == IF Peek(n, 1) = ":" THEN ParseType(Skip(Skip(n))) ELSE Got(None, Skip(n))
      ini == IF Tok(ty.c) = "=" /\ Peek(ty.c, 1) # ";" THEN ParseExpr(Skip(ty.c))
             ELSE Got(None, Accept(ty.c, "="))
  IN  IF ~AtName(n) THEN Got(Nothing, Error(n))
      ELSE Got(Node(IF mut \/ n # c THEN "mut" ELSE "let", <<Leaf(Tok(n)), ty.t, ini.t>>),
               Expect(ini.c, ";"))

GhostLet(c) ==
  LET l == LetMut(Skip(c), FALSE) IN
  IF Tok(c) # "let" THEN Got(Nothing, Error(c))
  ELSE IF l.t = Nothing THEN l ELSE Got(Node("ghost", <<l.t>>), l.c)

Return(c) ==
  LET x == IF Tok(c) = ";" THEN Got(None, c) ELSE ParseExpr(c) IN
  Got(Node("return", <<x.t>>), Expect(x.c, ";"))

\* A head: an optional "(" is taken as the head's own, and asked back after it.
ParseHead(c) ==
  LET paren == Tok(c) = "("
      x     == Restore(ParseExpr(Headed(Accept(c, "("))), c)
  IN  Got(x.t, IF paren THEN Expect(x.c, ")") ELSE x.c)

ParseIf(c) ==                             \* c is at "if"
  LET h  == ParseHead(Skip(c))
      th == ParseBody(h.c)
      el == IF Tok(th.c) # "else" THEN Got(Block(<<>>), th.c)
            ELSE IF Peek(th.c, 1) = "if"
            THEN LET i == ParseIf(Skip(th.c)) IN Got(Block(<<i.t>>), i.c)
            ELSE ParseBody(Skip(th.c))
  IN  Got(Node("if", <<h.t, th.t, el.t>>), el.c)

RECURSIVE InvariantTail(_, _)
InvariantTail(c, ts) ==
  IF Tok(c) # "invariant" THEN Got(ts, c)
  ELSE LET x == ParseSpecExpr(Skip(c)) IN InvariantTail(x.c, Append(ts, x.t))

While(c) ==
  LET h == ParseHead(c)
      i == InvariantTail(h.c, <<>>)
      b == ParseBody(i.c)
  IN  Got(Node("while", <<h.t, Node("inv", i.t), b.t>>), b.c)

\* The arms of a match; a default arm has no pattern.
RECURSIVE ArmTail(_, _)
ArmTail(c, arms) ==
  LET pat == IF Tok(c) = "_" THEN Got(None, Skip(c)) ELSE Restore(ParseExpr(Headed(c)), c)
      b   == ParseBody(Skip(pat.c))
  IN  IF At(c, {"}", "end"}) THEN Got(arms, c)
      ELSE IF Tok(pat.c) # "=>" THEN Got(arms, Error(pat.c))
      ELSE ArmTail(Accept(b.c, ","), Append(arms, Node("arm", <<pat.t, b.t>>)))

Scrutinee == Leaf("__match_scrut")

\* The arms as a chain of ifs, each in the else branch of the one before.
RECURSIVE MatchChain(_)
MatchChain(arms) ==
  IF arms = <<>> THEN <<>>
  ELSE LET pat  == arms[1].kids[1]
           cond == IF pat = None THEN Leaf("true") ELSE Node("==", <<Scrutinee, pat>>)
       IN  << Node("if", <<cond, arms[1].kids[2],
                           Block(IF pat = None THEN <<>> ELSE MatchChain(Tail(arms)))>>) >>

\* A default arm leaves no place for the next arm: the code appends it through
\* a null pointer.
HasDeadArm(arms) == \E i \in 1 .. Len(arms) - 1 : arms[i].kids[1] = None

Match(c) ==
  LET h == Restore(ParseExpr(Headed(c)), c)
      a == ArmTail(Skip(h.c), <<>>)
      d == Expect(a.c, "}")
  IN  IF Tok(h.c) # "{" THEN Got(Nothing, Error(h.c))
      ELSE Got(Block(<<Node("let", <<Scrutinee, None, h.t>>)>> \o MatchChain(a.t)),
               IF HasDeadArm(a.t) /\ d.stop = "no" THEN [d EXCEPT !.stop = "null"] ELSE d)

For(c) ==
  LET n   == Accept(Accept(Accept(c, "("), "let"), "mut")
      m   == Skip(n)
      two == Tok(m) = ","
      v   == IF two THEN Skip(Skip(m)) ELSE m
      close(d) == IF Tok(c) = "(" THEN Expect(d, ")") ELSE d
      var == IF two THEN <<Leaf(Tok(n)), Leaf(Peek(m, 1))>> ELSE <<Leaf(Tok(n))>>
      it  == Restore(ParseExpr(Headed(Skip(v))), v)
      st  == ParseExpr(Expect(v, "="))
      en  == Restore(ParseExpr(Headed(Expect(st.c, ";"))), v)
      sp  == ParseExpr(Expect(en.c, ";"))
      each == Tok(v) = "in"
      i   == InvariantTail(close(IF each THEN it.c ELSE sp.c), <<>>)
      b   == ParseBody(i.c)
  IN  IF ~AtName(n) THEN Got(Nothing, Error(n))
      ELSE IF two /\ ~AtName(Skip(m)) THEN Got(Nothing, Error(Skip(m)))
      ELSE Got(Node(IF each THEN "foreach" ELSE "for",
                    var \o (IF each THEN <<it.t>> ELSE <<st.t, en.t, sp.t>>)
                        \o <<Node("inv", i.t), b.t>>), b.c)

-----------------------------------------------------------------------------
(* Proof statements                                                        *)

Assert(c) ==
  LET paren == Tok(c) = "("
      x == ParseSpecExpr(Accept(c, "("))
      d == IF paren THEN Expect(x.c, ")") ELSE x.c
      b == IF Tok(d) = "by" THEN ParseBlock(Skip(d)) ELSE Got(<<>>, d)
  IN  Got(Node("assert", <<x.t, Block(b.t)>>), Expect(b.c, ";"))

\* After "source" the string is already consumed when the text is taken: what
\* is kept as the citation, and skipped, is the token after the string.
Assume(c) ==
  LET k == Skip(c)
      a == IF Tok(c) = "trusted" THEN Expect(k, "assume") ELSE k
      x == ParseSpecExpr(a)
      s == Skip(x.c)
      q == Skip(s)
  IN  IF Tok(c) = "trusted" /\ Tok(k) # "assume" THEN Got(Nothing, Error(k))
      ELSE IF Tok(x.c) # "source" THEN Got(Node(Tok(c), <<x.t, None>>), Expect(x.c, ";"))
      ELSE IF Tok(s) # "str" THEN Got(Nothing, Error(s))
      ELSE Got(Node(Tok(c), <<x.t, Leaf(Tok(q))>>), Expect(Skip(q), ";"))

RECURSIVE PatternTail(_, _)
PatternTail(c, ts) ==
  LET x == ParseSpecExpr(c) IN
  IF Tok(x.c) = "," THEN PatternTail(Skip(x.c), Append(ts, x.t)) ELSE Got(Append(ts, x.t), x.c)

IsQuant(t) == t.op \in {"forall", "exists"}

Instantiate(c) ==
  LET q  == ParseSpecExpr(c)
      on == Expect(q.c, "on")
      ground == AtName(on) /\ Tok(on) = q.t.kids[1].op /\ Peek(on, 1) = "="
      w  == ParseSpecExpr(Skip(Skip(on)))
      ps == PatternTail(on, <<>>)
  IN  IF ~IsQuant(q.t) THEN Got(Nothing, Error(q.c))
      ELSE IF ground THEN Got(Node("instantiate", <<q.t, Node("at", <<w.t>>)>>), Expect(w.c, ";"))
      ELSE Got(Node("instantiate", <<q.t, Node("triggers", ps.t)>>), Expect(ps.c, ";"))

Proof(c) ==
  LET k  == Accept(c, "that")
      b  == ParseBlock(k)
      th == ParseSpecExpr(k)
      on == Expect(Expect(Expect(th.c, "by"), "induction"), "on")
      ba == ParseSpecExpr(Expect(Expect(Expect(Skip(on), ":"), "base"), ":"))
      ih == ParseSpecExpr(Expect(Expect(Expect(ba.c, "step"), ":"), "assume"))
      gl == ParseSpecExpr(Expect(ih.c, "prove"))
  IN  IF Tok(k) = "{" THEN Got(Node("proofblock", <<Block(b.t)>>), Accept(b.c, ";"))
      ELSE IF th.t.op # "forall" THEN Got(Nothing, Error(th.c))
      ELSE IF ~AtName(on) THEN Got(Nothing, Error(on))
      ELSE Got(Node("proof", <<th.t, Leaf(Tok(on)), ba.t, ih.t, gl.t>>), Expect(gl.c, ";"))

Relations == {"==", "!=", "<=", ">=", "<", ">"}
RECURSIVE CalcTail(_, _)
CalcTail(c, ts) ==
  LET h == IF Peek(c, 1) = "{" THEN ParseBlock(Skip(c)) ELSE Got(<<>>, Skip(c))
      x == ParseSpecExpr(h.c)
      step == Node(Tok(c), <<Block(h.t), x.t>>)
  IN  IF At(c, {"}", "end"}) THEN Got(ts, c)
      ELSE IF Tok(c) \notin Relations
      THEN Got(ts, Accept(SkipTo(Error(c), {";", "}"}), ";"))
      ELSE CalcTail(Expect(x.c, ";"), Append(ts, step))

Calc(c) ==
  LET x == ParseSpecExpr(Expect(c, "{"))
      r == CalcTail(Expect(x.c, ";"), <<x.t>>)
  IN  Got(Node("calc", r.t), Accept(Expect(r.c, "}"), ";"))

Defer(c) ==
  LET b == ParseBody(c) IN Got(Node("defer", <<b.t>>), b.c)

Statement(c) ==
  LET k == Tok(c)  n == Skip(c) IN
  CASE k = "ghost" -> GhostLet(n)
    [] k = "let" -> LetMut(n, FALSE)
    [] k = "mut" -> LetMut(n, TRUE)
    [] k = "return" -> Return(n)
    [] k = "if" -> ParseIf(c)
    [] k = "while" -> While(n)
    [] k = "for" -> For(n)
    [] k = "match" -> Match(n)
    [] k = "assert" -> Assert(n)
    [] k \in {"assume", "trusted"} -> Assume(c)
    [] k = "instantiate" -> Instantiate(n)
    [] k = "proof" -> Proof(n)
    [] k = "calc" -> Calc(n)
    [] k = "defer" -> Defer(n)
    [] k \in {"break", "continue"} -> Got(Leaf(k), Accept(n, ";"))
    [] k \in {"atomic", "sync", "unsafe"} ->
         IF Tok(n) # "{" THEN Got(Nothing, Error(n))
         ELSE LET b == ParseBlock(n) IN Got(Node(k, b.t), b.c)
    [] k = "{" -> LET b == ParseBlock(c) IN Got(Block(b.t), b.c)
    [] OTHER -> LET x == ParseExpr(c) IN Got(Node("expr", <<x.t>>), Accept(x.c, ";"))

-----------------------------------------------------------------------------
(* Declarations                                                            *)

RECURSIVE NamesUntil(_, _, _)
NamesUntil(c, close, ts) ==
  IF At(c, {close, "end"}) THEN Got(ts, c)
  ELSE IF ~AtName(c) THEN Got(ts, Error(c))
  ELSE IF Peek(c, 1) = "," THEN NamesUntil(Skip(Skip(c)), close, Append(ts, Leaf(Tok(c))))
  ELSE Got(Append(ts, Leaf(Tok(c))), Skip(c))

\* One name, then more after commas; ok says every name was there.
RECURSIVE NameList(_, _)
NameList(c, ts) ==
  IF ~AtName(c) THEN [ok |-> FALSE, t |-> ts, c |-> Error(c)]
  ELSE IF Peek(c, 1) = "," THEN NameList(Skip(Skip(c)), Append(ts, Leaf(Tok(c))))
  ELSE [ok |-> TRUE, t |-> Append(ts, Leaf(Tok(c))), c |-> Skip(c)]

-----------------------------------------------------------------------------
(* Type parameters and contract clauses                                    *)

RECURSIVE TypeParamTail(_, _)
TypeParamTail(c, ts) ==
  LET con == IF Peek(c, 1) = ":" THEN Skip(Skip(c)) ELSE Skip(c)
      cst == IF Peek(c, 1) = ":" THEN <<Leaf(Tok(con))>> ELSE <<>>
      dft == IF Peek(c, 1) = ":" THEN Skip(con) ELSE con
      ty  == IF Tok(dft) = "=" THEN ParseType(Skip(dft)) ELSE Got(None, dft)
      t   == Node("tparam", <<Leaf(Tok(c))>> \o cst \o <<ty.t>>)
  IN  IF At(c, {">", "end"}) THEN Got(ts, c)
      ELSE IF ~AtName(c) THEN Got(ts, Error(c))
      ELSE IF Peek(c, 1) = ":" /\ ~AtName(con) THEN Got(ts, Error(con))
      ELSE IF Tok(ty.c) = "," THEN TypeParamTail(Skip(ty.c), Append(ts, t))
      ELSE Got(Append(ts, t), ty.c)

RECURSIVE WhereTail(_, _)
WhereTail(c, ts) ==
  LET t == Node("where", <<Leaf(Tok(c)), Leaf(Peek(c, 2))>>)  n == Skip(Skip(Skip(c))) IN
  IF Tok(c) = "end" THEN Got(ts, c)
  ELSE IF ~AtName(c) THEN Got(ts, Error(c))
  ELSE IF Peek(c, 1) # ":" THEN Got(ts, Error(Skip(c)))
  ELSE IF ~AtName(Skip(Skip(c))) THEN Got(ts, Error(Skip(Skip(c))))
  ELSE IF Tok(n) = "," THEN WhereTail(Skip(n), Append(ts, t))
  ELSE Got(Append(ts, t), n)

Where(c) == IF Tok(c) = "where" THEN WhereTail(Skip(c), <<>>) ELSE Got(<<>>, c)

\* "<" that no ">" closes is undone with its errors: it is a less-than.
TypeParamsAt(c) ==
  LET ps == TypeParamTail(Skip(c), <<>>)
      wh == Where(Skip(ps.c))
  IN  IF Tok(c) # "<" \/ Peek(c, 1) \notin Names \cup {"_"} THEN Got(<<>>, c)
      ELSE IF Tok(ps.c) # ">" THEN Got(<<>>, [c EXCEPT !.stop = ps.c.stop])
      ELSE Got(ps.t \o wh.t, wh.c)

Effects(c) ==                             \* c is after "effects"
  LET ns == NamesUntil(Skip(c), "}", <<>>) IN
  IF Tok(c) # "{" THEN Got(<<>>, Error(c))
  ELSE IF ns.c.e > c.e THEN Got(ns.t, ns.c)
  ELSE Got(ns.t, Expect(ns.c, "}"))

Clauses == {"requires", "ensures", "decreases", "modifies", "effects"}

\* Contract clauses in any order, as long as one starts here.
RECURSIVE ClauseTail(_, _, _)
ClauseTail(c, allowed, ts) ==
  LET k == Tok(c)
      x == CASE k = "modifies" -> NameList(Skip(c), <<>>)
             [] k = "effects"  -> Effects(Skip(c))
             [] OTHER -> LET e == ParseSpecExpr(Skip(c)) IN Got(<<e.t>>, e.c)
  IN  IF k \notin allowed THEN Got(ts, c)
      ELSE ClauseTail(x.c, allowed, Append(ts, Node(k, x.t)))

-----------------------------------------------------------------------------
(* Functions                                                               *)

\* self, &self or &mut self, and whether the list goes on after it.
Receiver(c) ==
  LET n == IF Tok(c) = "&" THEN IF Peek(c, 1) = "mut" THEN 2 ELSE 1 ELSE 0
      after == IF n = 0 THEN Skip(c) ELSE IF n = 1 THEN Skip(Skip(c)) ELSE Skip(Skip(Skip(c)))
  IN  IF Peek(c, n) # "self" THEN [t |-> <<>>, c |-> c, closed |-> FALSE]
      ELSE [t |-> <<Leaf(IF n = 0 THEN "self" ELSE "&self")>>,
            closed |-> Tok(after) # ",",
            c |-> IF Tok(after) = "," THEN Skip(after) ELSE Expect(after, ")")]

RECURSIVE DefaultTail(_, _, _)            \* parameters, with default values unless extern
DefaultTail(c, defaults, ts) ==
  LET ty == ParseType(Skip(Skip(c)))
      dv == IF defaults /\ Tok(ty.c) = "=" THEN ParseAssign(Skip(ty.c)) ELSE Got(None, ty.c)
      t  == Node("param", <<Leaf(Tok(c)), ty.t, dv.t>>)
  IN  IF At(c, {")", "end"}) THEN Got(ts, c)
      ELSE IF ~AtName(c) THEN Got(ts, Error(c))
      ELSE IF Peek(c, 1) # ":" THEN Got(ts, Error(Skip(c)))
      ELSE IF Tok(dv.c) = "," THEN DefaultTail(Skip(dv.c), defaults, Append(ts, t))
      ELSE Got(Append(ts, t), dv.c)

ReturnType(c, otherwise) ==
  IF Tok(c) = "->" THEN ParseType(Skip(c)) ELSE Got(Leaf(otherwise), c)

\* After the signature h: contract clauses, where and a body, or ";" if extern.
FunctionBody(h, extern) ==
  IF extern THEN Got(Node("extern", h.t), Expect(h.c, ";"))
  ELSE IF Tok(h.c) # "{" THEN Got(Nothing, Error(h.c))
  ELSE LET b == ParseBlock(h.c) IN Got(Node("fn", Append(h.t, Block(b.t))), b.c)

FunctionRest(h, extern) ==
  LET cl == IF extern THEN Got(<<>>, h.c) ELSE ClauseTail(h.c, Clauses, <<>>)
      wh == Where(cl.c)
  IN  FunctionBody(Got(h.t \o cl.t \o wh.t, wh.c), extern)

\* fn name<T>(receiver, params) -> R, and the rest.
Function(c, extern) ==
  LET q   == Accept(Accept(c, "virtual"), "override")
      nm  == Skip(q)
      tps == TypeParams(Skip(nm))
      rc  == Receiver(Skip(tps.c))
      ps  == IF rc.closed THEN Got(<<>>, rc.c) ELSE DefaultTail(rc.c, ~extern, <<>>)
      ret == ReturnType(IF rc.closed THEN ps.c ELSE Expect(ps.c, ")"), "void")
  IN  IF Tok(q) # "fn" THEN Got(Nothing, Error(q))
      ELSE IF ~AtName(nm) THEN Got(Nothing, Error(nm))
      ELSE IF Tok(tps.c) # "(" THEN Got(Nothing, Error(tps.c))
      ELSE FunctionRest(Got(<<Leaf(Tok(nm))>> \o tps.t \o rc.t \o ps.t \o <<ret.t>>, ret.c), extern)

\* export fn, lemma fn, unsafe fn, ghost fn: the keyword marks the function.
MarkedFunc(c, mark) ==
  LET f == ParseFunc(c) IN
  IF f.t = Nothing THEN f ELSE Got(Node(mark, <<f.t>>), f.c)

ExportOrLemma(c, mark) ==                 \* any other token than "fn" is skipped
  IF Tok(c) # "fn" THEN Got(Nothing, Skip(Error(c))) ELSE MarkedFunc(c, mark)

SpecFn(c) ==                              \* c is after "spec"
  LET nm  == Skip(c)
      tps == TypeParams(Skip(nm))
      ps  == ParamTail(Skip(tps.c), <<>>)
      ret == ReturnType(Expect(ps.c, ")"), "bool")
      x   == ParseSpecExpr(Skip(ret.c))
  IN  IF Tok(c) # "fn" THEN Got(Nothing, Error(c))
      ELSE IF ~AtName(nm) THEN Got(Nothing, Error(nm))
      ELSE IF Tok(tps.c) # "(" THEN Got(Nothing, Error(tps.c))
      ELSE IF Tok(ret.c) # "=" THEN Got(Nothing, Error(ret.c))
      ELSE Got(Node("spec", <<Leaf(Tok(nm))>> \o ps.t \o <<ret.t, x.t>>), Expect(x.c, ";"))

AsmSpec(c) ==                             \* c is after "asm spec"
  LET nm  == Accept(c, "fn")
      tps == TypeParams(Skip(nm))
      ps  == ParamTail(Skip(tps.c), <<>>)
      ret == ReturnType(Expect(ps.c, ")"), "bool")
      cl  == ClauseTail(ret.c, {"requires", "ensures"}, <<>>)
  IN  IF ~AtName(nm) THEN Got(Nothing, Error(nm))
      ELSE IF Tok(tps.c) # "(" THEN Got(Nothing, Error(tps.c))
      ELSE Got(Node("asmspec", <<Leaf(Tok(nm))>> \o ps.t \o <<ret.t>> \o cl.t), Expect(cl.c, ";"))

\* A trap handler: what follows the head, "{" or ";", decides which form it is.
TrapBody(h) ==
  IF Tok(h.c) = "{" THEN LET b == ParseBlock(h.c) IN Got(Node("trap", Append(h.t, Block(b.t))), b.c)
  ELSE Got(Node("trap", h.t), Expect(h.c, ";"))
Trap(c) ==                                \* c is after "trap [handler]"
  LET tps == TypeParams(Skip(c))
      ps  == DefaultTail(Skip(tps.c), TRUE, <<>>)
      ret == ReturnType(Expect(ps.c, ")"), "void")
      dis == IF Tok(ret.c) = "discharge" THEN <<Leaf("discharge")>> ELSE <<>>
      cl  == ClauseTail(Accept(ret.c, "discharge"), Clauses, <<>>)
      wh  == Where(cl.c)
  IN  IF ~AtName(c) THEN Got(Nothing, Error(c))
      ELSE IF Tok(tps.c) # "(" THEN Got(Nothing, Error(tps.c))
      ELSE TrapBody(Got(<<Leaf(Tok(c))>> \o tps.t \o ps.t \o <<ret.t>> \o dis \o cl.t \o wh.t, wh.c))

-----------------------------------------------------------------------------
(* Types and data                                                          *)

\* At a name and a given token after it: the shape every named declaration opens with.
Opens(c, t) == AtName(c) /\ Peek(c, 1) = t
Unopened(c) == Got(Nothing, Error(IF AtName(c) THEN Skip(c) ELSE c))

Enum(c) ==
  LET vs == NamesUntil(Skip(Skip(c)), "}", <<>>) IN
  IF ~Opens(c, "{") THEN Unopened(c)
  ELSE Got(Node("enum", <<Leaf(Tok(c))>> \o vs.t), Expect(vs.c, "}"))

MethodStart == {"fn", "virtual", "override"}
RECURSIVE MethodTail(_, _)
MethodTail(c, ts) ==
  LET f == ParseFunc(c)  q == SkipTo(Error(c), MethodStart \cup {"}"}) IN
  IF At(c, {"}", "end"}) THEN Got(ts, c)
  ELSE IF At(c, MethodStart)
  THEN IF f.t = Nothing THEN MethodTail(SkipTo(f.c, MethodStart \cup {"}"}), ts)
       ELSE MethodTail(f.c, Append(ts, f.t))
  ELSE IF At(q, MethodStart) THEN MethodTail(q, ts) ELSE Got(ts, q)

Impl(c) ==
  LET ms == MethodTail(Skip(Skip(c)), <<>>) IN
  IF ~Opens(c, "{") THEN Unopened(c)
  ELSE Got(Node("impl", <<Leaf(Tok(c))>> \o ms.t), Expect(ms.c, "}"))

RECURSIVE MemberTail(_, _)                \* the fields of a struct, separated or not
MemberTail(c, ts) ==
  LET n == Accept(c, "private")
      ty == ParseType(Skip(Skip(n)))
      t  == Node(IF n = c THEN "member" ELSE "private", <<Leaf(Tok(n)), ty.t>>)
  IN  IF At(c, {"}", "end"}) THEN Got(ts, c)
      ELSE IF ~Opens(n, ":") THEN Got(ts, Unopened(n).c)
      ELSE MemberTail(Accept(Accept(ty.c, ";"), ","), Append(ts, t))

Struct(c) ==
  LET tps  == TypeParams(Skip(c))
      base == Tok(tps.c) = ":"
      body == IF base THEN Skip(Skip(tps.c)) ELSE tps.c
      fs   == MemberTail(Skip(body), <<>>)
  IN  IF ~AtName(c) THEN Unopened(c)
      ELSE IF base /\ ~AtName(Skip(tps.c)) THEN Got(Nothing, Error(Skip(tps.c)))
      ELSE IF Tok(body) # "{" THEN Got(Nothing, Error(body))
      ELSE Got(Node("struct", <<Leaf(Tok(c))>> \o tps.t \o
                    (IF base THEN <<Node("base", <<Leaf(Peek(tps.c, 1))>>)>> ELSE <<>>) \o fs.t),
               Expect(fs.c, "}"))

OpaqueStruct(c) ==                        \* extern struct Name;
  IF ~AtName(c) THEN Got(Nothing, Error(c))
  ELSE Got(Node("opaque", <<Leaf(Tok(c))>>), Expect(Skip(c), ";"))

\* The required signatures of a concept; a receiver's comma is optional.
RECURSIVE RequirementTail(_, _)
RequirementTail(c, ts) ==
  LET n   == Skip(c)
      o   == Skip(Skip(n))
      k   == IF Tok(o) = "self" THEN 1
             ELSE IF Tok(o) = "&" /\ Peek(o, 1) = "self" THEN 2
             ELSE IF Tok(o) = "&" /\ Peek(o, 1) = "mut" /\ Peek(o, 2) = "self" THEN 3 ELSE 0
      rc  == IF k = 0 THEN o ELSE Accept([o EXCEPT !.p = @ + k], ",")
      me  == IF k = 0 THEN <<>> ELSE <<Leaf(IF k = 1 THEN "self" ELSE "&self")>>
      ps  == ParamTail(rc, <<>>)
      ret == ReturnType(Expect(ps.c, ")"), "void")
      t   == Node("require", <<Leaf(Tok(n))>> \o me \o ps.t \o <<ret.t>>)
  IN  IF At(c, {"}", "end"}) THEN Got(ts, c)
      ELSE IF Tok(c) # "fn" THEN Got(ts, Error(c))
      ELSE IF ~Opens(n, "(") THEN Got(ts, Unopened(n).c)
      ELSE RequirementTail(Expect(ret.c, ";"), Append(ts, t))

Concept(c) ==
  LET gen  == Peek(c, 1) = "<"
      self == Skip(Skip(c))
      open == IF gen THEN Expect(Skip(self), ">") ELSE Skip(c)
      rs   == RequirementTail(Skip(open), <<>>)
      of   == IF gen /\ Peek(self, 1) = ">" THEN <<Node("of", <<Leaf(Tok(self))>>)>> ELSE <<>>
  IN  IF ~AtName(c) THEN Got(Nothing, Error(c))
      ELSE IF gen /\ ~AtName(self) THEN Got(Nothing, Error(self))
      ELSE IF Tok(open) # "{" THEN Got(Nothing, Error(open))
      ELSE Got(Node("concept", <<Leaf(Tok(c))>> \o of \o rs.t), Expect(rs.c, "}"))

Typedef(c) ==
  LET ty == ParseType(Skip(Skip(c)))
      rg == IF Tok(ty.c) = "where" THEN ParseSpecExpr(Skip(ty.c)) ELSE Got(None, ty.c)
  IN  IF ~Opens(c, "=") THEN Unopened(c)
      ELSE Got(Node("typedef", <<Leaf(Tok(c)), ty.t, rg.t>>), Expect(rg.c, ";"))

Global(c) ==                              \* c is at "let" or "const"
  LET n   == IF Tok(c) = "let" THEN Accept(Skip(c), "mut") ELSE Skip(c)
      ty  == IF Peek(n, 1) = ":" THEN ParseType(Skip(Skip(n))) ELSE Got(None, Skip(n))
      ini == IF Tok(ty.c) = "=" /\ Peek(ty.c, 1) # ";" THEN ParseExpr(Skip(ty.c))
             ELSE Got(None, Accept(ty.c, "="))
  IN  IF ~AtName(n) THEN Got(Nothing, Error(n))
      ELSE Got(Node(IF Tok(c) = "let" /\ Peek(c, 1) = "mut" THEN "mut" ELSE Tok(c),
                    <<Leaf(Tok(n)), ty.t, ini.t>>),
               Expect(ini.c, ";"))

-----------------------------------------------------------------------------
(* Proof declarations, macros, bitfields                                   *)

Region(c) ==
  LET open == Skip(Skip(c))
      ms == NamesUntil(Skip(open), "}", <<>>)
  IN  IF ~Opens(c, "=") THEN Unopened(c)
      ELSE IF Tok(open) # "{" THEN Got(Nothing, Error(open))
      ELSE Got(Node("region", <<Leaf(Tok(c))>> \o ms.t), Expect(Expect(ms.c, "}"), ";"))

\* f <= Spec;  for refines and preserves one handler, else a list of them.
Discharge(c, op, many) ==
  LET hs == IF many THEN NameList(c, <<>>)
            ELSE [ok |-> AtName(c), t |-> <<Leaf(Tok(c))>>, c |-> Skip(c)]
      sp == Skip(hs.c)
  IN  IF ~hs.ok THEN Got(Nothing, IF many THEN hs.c ELSE Error(c))
      ELSE IF Tok(hs.c) # "<=" THEN Got(Nothing, Error(hs.c))
      ELSE IF ~AtName(sp) THEN Got(Nothing, Error(sp))
      ELSE Got(Node(op, Append(hs.t, Leaf(Tok(sp)))), Expect(Skip(sp), ";"))

Axiom(c) ==                               \* c is at "axiom" or "trusted"
  LET ax   == Expect(Accept(c, "trusted"), "axiom")
      long == Opens(ax, "::")
      nm   == Skip(Skip(ax))
      name == IF long THEN <<Node("name", <<Leaf(Tok(ax)), Leaf(Tok(nm))>>)>>
              ELSE IF Opens(ax, ":") THEN <<Node("name", <<Leaf(Tok(ax))>>)>> ELSE <<>>
      x    == ParseSpecExpr(IF long THEN Skip(Skip(nm)) ELSE IF Opens(ax, ":") THEN nm ELSE ax)
      src  == Skip(x.c)
      t    == Node(IF Tok(c) = "trusted" THEN "trusted axiom" ELSE "axiom", Append(name, x.t))
  IN  IF long /\ ~Opens(nm, ":") THEN Unopened(nm)
      ELSE IF Tok(x.c) # "source" THEN Got(t, Expect(x.c, ";"))
      ELSE IF Tok(src) # "str" THEN Got(Nothing, Error(src))
      ELSE Got([t EXCEPT !.kids = Append(@, Leaf(Tok(src)))], Expect(Skip(src), ";"))

RECURSIVE MacroLets(_, _)
MacroLets(c, ts) ==
  LET l == LetMut(Skip(c), Tok(c) = "mut") IN
  IF ~At(c, {"let", "mut"}) THEN Got(ts, c)
  ELSE MacroLets(l.c, IF l.t = Nothing THEN ts ELSE Append(ts, l.t))

Macro(c) ==
  LET ps   == NamesUntil(Skip(Skip(c)), ")", <<>>)
      open == Expect(ps.c, ")")
      ls   == MacroLets([Skip(open) EXCEPT !.lit = FALSE], <<>>)
      x    == ParseExpr(ls.c)
      cl   == Expect([x.c EXCEPT !.lit = c.lit], "}")
  IN  IF ~Opens(c, "(") THEN Unopened(c)
      ELSE IF Tok(open) # "{" THEN Got(Nothing, Error(open))
      ELSE Got(Node("macro", <<Leaf(Tok(c))>> \o ps.t \o <<Block(ls.t), x.t>>), Accept(cl, ";"))

\* The fields of a bitfield; one that is neither form is skipped.
RECURSIVE BitTail(_, _)
BitTail(c, ts) ==
  LET k  == Peek(c, 2)
      n  == Skip(Skip(Skip(c)))
      hi == IF k = "bit" THEN n ELSE Skip(Skip(n))
      t  == Node(k, <<Leaf(Tok(c))>>)
  IN  IF At(c, {"}", "end"}) THEN Got(ts, c)
      ELSE IF ~Opens(c, ":") THEN Got(ts, Unopened(c).c)
      ELSE IF k \notin {"bit", "bits"}
      THEN BitTail(Accept(SkipTo(Error(Skip(Skip(c))), {";", "}"}), ";"), ts)
      ELSE IF Tok(n) # "1" THEN Got(ts, Error(n))
      ELSE IF k = "bits" /\ Peek(n, 1) # ".." THEN Got(ts, Error(Skip(n)))
      ELSE IF Tok(hi) # "1" THEN Got(ts, Error(hi))
      ELSE IF Peek(hi, 1) # ";" THEN Got(ts, Error(Skip(hi)))
      ELSE BitTail(Skip(Skip(hi)), Append(ts, t))

IntTypes == {"i64", "i8", "i16", "i32", "u8", "u16", "u32", "u64", "usize", "char"}
Bitfield(c) ==
  LET ty == ParseType(Skip(Skip(c)))
      fs == BitTail(Skip(ty.c), <<>>)
  IN  IF ~Opens(c, ":") THEN Unopened(c)
      ELSE IF ty.t.op \notin IntTypes \/ ty.t.kids # <<>>
      THEN Got(Nothing, Accept(SkipTo(Error(ty.c), {"}"}), "}"))
      ELSE IF Tok(ty.c) # "{" THEN Got(Nothing, Error(ty.c))
      ELSE Got(Node("bitfield", <<Leaf(Tok(c)), ty.t>> \o fs.t), Expect(fs.c, "}"))

-----------------------------------------------------------------------------
(* The program                                                             *)

TopLevel == {"fn", "struct", "enum", "typedef", "extern", "export", "impl", "bitfield",
             "let", "const", "concept", "ghost", "spec", "region", "refines", "preserves",
             "noninterference", "cycle_preserves", "axiom", "trusted", "trap", "macro",
             "lemma", "asm"}
Terminated == {"typedef", "let", "const", "region", "refines", "preserves",
               "noninterference", "cycle_preserves", "axiom", "trusted"}

\* After "extern" an unknown token is reported and skipped, and a global that
\* cannot be parsed is left where it failed: neither looks for a boundary.
Extern(c) ==
  CASE Tok(c) = "fn" -> Parse("extern fn", c)
    [] At(c, {"let", "const"}) -> Global(c)
    [] Tok(c) = "struct" -> OpaqueStruct(Skip(c))
    [] OTHER -> Got(None, Skip(Error(c)))

Declaration(c) ==
  LET k == Tok(c)  n == Skip(c) IN
  CASE k = "struct" -> Struct(n)
    [] k = "enum" -> Enum(n)
    [] k = "impl" -> Impl(n)
    [] k = "bitfield" -> Bitfield(n)
    [] k = "typedef" -> Typedef(n)
    [] k = "extern" -> Extern(n)
    [] k = "export" -> ExportOrLemma(n, "export")
    [] k = "lemma" -> ExportOrLemma(n, "lemma")
    [] k = "unsafe" /\ Tok(n) = "fn" -> MarkedFunc(n, "unsafe")
    [] k \in {"let", "const"} -> Global(c)
    [] k = "concept" -> Concept(n)
    [] k = "ghost" -> IF Tok(n) = "fn" THEN MarkedFunc(n, "ghost") ELSE Got(Nothing, Error(n))
    [] k = "asm" -> IF Tok(n) = "spec" THEN AsmSpec(Skip(n)) ELSE Got(Nothing, Skip(Error(c)))
    [] k = "spec" -> SpecFn(n)
    [] k = "region" -> Region(n)
    [] k \in {"refines", "preserves"} -> Discharge(n, k, FALSE)
    [] k \in {"noninterference", "cycle_preserves"} -> Discharge(n, k, TRUE)
    [] k \in {"axiom", "trusted"} -> Axiom(c)
    [] k = "trap" -> Trap(Accept(n, "handler"))
    [] k = "macro" -> Macro(n)
    [] OTHER -> ParseFunc(c)

\* Mutant: every declaration that fails is given up to a semicolon.
RecoverToSemicolon(k, c) == Accept(SkipTo(c, {";"}), ";")

Recover(k, c) ==
  IF k \in Terminated THEN Accept(SkipTo(c, {";"}), ";") ELSE SkipTo(c, TopLevel)

RECURSIVE ProgramTail(_, _)
ProgramTail(c, ts) ==
  LET d == ParseDecl(c)
      bareExtern == Tok(c) = "extern" /\ Peek(c, 1) \in {"let", "const"}
  IN  IF Tok(c) = "end" THEN Got(ts, c)
      ELSE IF d.t = None \/ (d.t = Nothing /\ bareExtern) THEN ProgramTail(d.c, ts)
      ELSE IF d.t = Nothing THEN ProgramTail(Recover(Tok(c), d.c), ts)
      ELSE ProgramTail(d.c, Append(ts, d.t))

\* The hub of the recursion.
Parse(what, c) ==
  CASE what = "expr" -> RangeExpr(c)
    [] what = "unary" -> UnaryExpr(c)
    [] what = "primary" -> PrimaryExpr(c)
    [] what = "assign" -> AssignExpr(c)
    [] what = "ternary" -> Ternary(c)
    [] what = "type" -> TypeAt(c)
    [] what = "spec" -> SpecExpr(c)
    [] what = "stmt" -> Statement(c)
    [] what = "block" -> Braced(c)
    [] what = "typeparams" -> TypeParamsAt(c)
    [] what \in {"func", "extern fn"} -> Function(c, what = "extern fn")
    [] what = "decl" -> Declaration(c)
    [] what = "program" -> ProgramTail(c, <<>>)

ParseProgram(toks) == Parse("program", Cursor(toks))
=============================================================================
