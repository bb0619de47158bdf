----------------------------- MODULE ParserChecks -----------------------------
(***************************************************************************)
(* What the parser promises, against a printer.  Text(t) is the token      *)
(* sequence a programmer writes for the tree t, with only the parentheses  *)
(* that the precedence of the operators asks for; reading it back must     *)
(* give t.  The *Lapse operators name the inputs where the code is known   *)
(* not to; outside them the promises hold.                                 *)
(***************************************************************************)
EXTENDS Parser

RECURSIVE Flat(_)
Flat(ss) == IF ss = <<>> THEN <<>> ELSE Head(ss) \o Flat(Tail(ss))
Each(F(_), ts) == Flat([i \in 1 .. Len(ts) |-> F(ts[i])])
RECURSIVE Joined(_, _)
Joined(ss, sep) == IF Len(ss) <= 1 THEN Flat(ss) ELSE Head(ss) \o <<sep>> \o Joined(Tail(ss), sep)

-----------------------------------------------------------------------------
(* How tightly each form binds: a form is put in parentheses where a       *)
(* tighter one is expected.                                                *)

BinaryOps == UNION {Levels[n] : n \in 1 .. Len(Levels)}
Prefix == {"!", "~", "&", "*", "-", "<-"}

Binds(t) ==
  LET two == Len(t.kids) = 2 IN
  CASE t.op \in BinaryOps /\ two -> 3 + (CHOOSE n \in 1 .. Len(Levels) : t.op \in Levels[n])
    [] t.op \in {"..", "..=", "forall", "exists", "integrate", "spawn"} /\ t.kids # <<>> -> 0
    [] t.op \in AssignOps \/ (t.op = "<-" /\ two) -> 1
    [] t.op = "?" -> 2
    [] t.op = "implies" -> 3
    [] t.op = "as" -> 14
    [] t.op \in Prefix \cup {"++", "--", "sqrt"} -> 15
    [] t.op = "**" -> 16
    [] t.op \in {"index", "field", "method", "callexpr", "post++", "post--"} -> 17
    [] OTHER -> 18

RECURSIVE TypeText(_)
TypeText(t) ==
  LET args == [i \in 1 .. Len(t.kids) |-> TypeText(t.kids[i])] IN
  CASE t.op = "ptr" -> <<"*">> \o args[1]
    [] t.op = "array" -> <<"[">> \o args[1] \o <<";", "1", "]">>
    [] t.op = "fntype" -> <<"fn", "(">> \o Joined(SubSeq(args, 1, Len(args) - 1), ",")
                          \o <<")", "->">> \o args[Len(args)]
    [] t.op \in OneBox \cup TwoBox -> <<t.op, "[">> \o Joined(args, ",") \o <<"]">>
    [] OTHER -> IF args = <<>> THEN <<t.op>> ELSE <<t.op, "<">> \o Joined(args, ",") \o <<">">>

TypesText(ts) == Joined([i \in 1 .. Len(ts) |-> TypeText(ts[i])], ",")

RECURSIVE Text(_, _), BlockText(_)
AStatement == 99                          \* the level a statement is written at
StmtText(t) == Text(t, AStatement)
RowText(row) == Joined([i \in 1 .. Len(row.kids) |-> Text(row.kids[i], 0)], ",")
ListText(ts) == Joined([i \in 1 .. Len(ts) |-> Text(ts[i], 0)], ",")
ParamText(p) == p.kids[1].op
ParamsText(ps) == Joined([i \in 1 .. Len(ps) |->
                            <<ps[i].kids[1].op, ":">> \o TypeText(ps[i].kids[2])], ",")
Captured(ts) == SelectSeq(ts, LAMBDA t : t.op \in {"byval", "byref"})
CaptureText(ts) ==
  IF ts = <<>> THEN <<>>
  ELSE <<"[">> \o Joined([i \in 1 .. Len(ts) |->
           (IF ts[i].op = "byref" THEN <<"&">> ELSE <<>>) \o <<ts[i].kids[1].op>>], ",") \o <<"]">>
FieldText(f) == IF f.op = "fld" THEN <<f.kids[1].op, ":">> \o Text(f.kids[2], 0) ELSE <<f.op>>

\* The tokens of t, where something binding at least as tightly as b is expected.
ExprText(t, b) ==
  LET k(i, l) == Text(t.kids[i], l)
      p == Binds(t)
      rest(i) == SubSeq(t.kids, i, Len(t.kids))
      n == Len(t.kids)
      gen == n > 1 /\ t.op \in {"call", "lit"}
      targs(i) == IF n >= i /\ t.kids[i].op = "<>"
                  THEN <<"<">> \o TypesText(t.kids[i].kids) \o <<">">> ELSE <<>>
      body ==
        CASE t.op \in BinaryOps /\ n = 2 -> k(1, p) \o <<t.op>> \o k(2, p + 1)
          [] t.op \in {"..", "..="} /\ n = 2 -> k(1, 1) \o <<t.op>> \o k(2, 1)
          [] t.op \in AssignOps \/ (t.op = "<-" /\ n = 2) -> k(1, 3) \o <<t.op>> \o k(2, 1)
          [] t.op = "?" -> k(1, 3) \o <<"?">> \o k(2, 1) \o <<":">> \o k(3, 1)
          [] t.op = "implies" -> k(1, 4) \o <<"implies">> \o k(2, 3)
          [] t.op = "as" -> k(1, 14) \o <<"as">> \o TypeText(t.kids[2])
          [] t.op \in Prefix \cup {"++", "--", "sqrt"} -> <<t.op>> \o k(1, 15)
          [] t.op = "**" -> k(1, 17) \o <<"**">> \o k(2, 15)
          [] t.op = "index" -> k(1, 17) \o <<"[">> \o k(2, 0) \o <<"]">>
          [] t.op = "field" -> k(1, 17) \o <<".", t.kids[2].op>>
          [] t.op = "method" -> k(1, 17) \o <<".", t.kids[2].op, "(">> \o ListText(rest(3)) \o <<")">>
          [] t.op = "callexpr" -> (IF IsVar(t.kids[1]) \/ t.kids[1].op = "field" THEN <<"(">> \o k(1, 0) \o <<")">> ELSE k(1, 17))
                                  \o <<"(">> \o ListText(rest(2)) \o <<")">>
          [] t.op \in {"post++", "post--"} -> k(1, 17) \o <<IF t.op = "post++" THEN "++" ELSE "--">>
          [] t.op = "call" -> <<t.kids[1].op>> \o targs(2) \o <<"(">>
                              \o ListText(rest(IF targs(2) = <<>> THEN 2 ELSE 3)) \o <<")">>
          [] t.op = "assoc" -> <<t.kids[1].op, "::", t.kids[2].op, "(">> \o ListText(rest(3)) \o <<")">>
          [] t.op = "lit" -> <<t.kids[1].op>> \o targs(n) \o <<"{">>
                             \o Joined([i \in 1 .. (IF targs(n) = <<>> THEN n - 1 ELSE n - 2) |->
                                          FieldText(t.kids[i + 1])], ",") \o <<"}">>
          [] t.op = "array" -> <<"[">> \o ListText(t.kids) \o <<"]">>
          [] t.op = "matrix" -> <<"[">> \o Joined([i \in 1 .. n |-> RowText(t.kids[i])], ";") \o <<"]">>
          [] t.op = "new" -> <<t.kids[1].op, "[">> \o TypesText(rest(2)) \o <<"]">>
          [] t.op = "sizeof" -> <<"sizeof", "(">> \o TypeText(t.kids[1]) \o <<")">>
          [] t.op = "old" -> <<"old", "(">> \o k(1, 2) \o <<")">>
          [] t.op = "expand" -> <<"expand", t.kids[1].op, "(">> \o ListText(rest(2)) \o <<")">>
          [] t.op = "integrate" -> <<"integrate">> \o k(1, 15) \o <<"from">> \o k(2, 12) \o <<"to">> \o k(3, 12)
          [] t.op = "spawn" -> <<"spawn">> \o (IF t.kids[1].op = "{}" THEN BlockText(t.kids[1]) ELSE k(1, 0))
          [] t.op \in {"forall", "exists"} ->
               <<t.op, t.kids[1].op, ":">> \o TypeText(t.kids[2]) \o <<"in">> \o k(4, 4)
               \o <<t.kids[3].op>> \o k(5, 4) \o <<"implies">> \o k(6, 2)
          [] t.op = "lambda" ->
               LET cs == Captured(t.kids) IN
               <<"fn">> \o CaptureText(cs) \o <<"(">> \o ParamsText(SubSeq(t.kids, Len(cs) + 1, n - 2))
               \o <<")", "->">> \o TypeText(t.kids[n - 1]) \o BlockText(t.kids[n])
          [] OTHER -> <<t.op>>
  IN  IF p < b THEN <<"(">> \o body \o <<")">> ELSE body

Spec1(t) == Text(t, 2)                    \* a contract expression
Opt(F(_), word, t) == IF t = None THEN <<>> ELSE <<word>> \o F(t)
BlockText(b) == <<"{">> \o Each(StmtText, b.kids) \o <<"}">>
InvText(i) == Each(LAMBDA t : <<"invariant">> \o Spec1(t), i.kids)
Expr0(t) == Text(t, 0)
ArmText(a) == (IF a.kids[1] = None THEN <<"_">> ELSE Text(a.kids[1], 0)) \o <<"=>">> \o BlockText(a.kids[2])

StatementText(t) ==
  LET k(i) == t.kids[i]  n == Len(t.kids) IN
  CASE t.op = "expr" -> Text(k(1), 0) \o <<";">>
    [] t.op \in {"let", "mut"} ->
         (IF t.op = "mut" THEN <<"let", "mut">> ELSE <<"let">>) \o <<k(1).op>>
         \o Opt(TypeText, ":", k(2)) \o Opt(Expr0, "=", k(3)) \o <<";">>
    [] t.op = "ghost" -> <<"ghost">> \o StmtText(k(1))
    [] t.op = "return" -> <<"return">> \o (IF k(1) = None THEN <<>> ELSE Text(k(1), 0)) \o <<";">>
    [] t.op = "if" -> <<"if">> \o Text(k(1), 0) \o BlockText(k(2))
                      \o (IF k(3).kids = <<>> THEN <<>>
                          ELSE IF Len(k(3).kids) = 1 /\ k(3).kids[1].op = "if"
                          THEN <<"else">> \o StmtText(k(3).kids[1]) ELSE <<"else">> \o BlockText(k(3)))
    [] t.op = "while" -> <<"while">> \o Text(k(1), 0) \o InvText(k(2)) \o BlockText(k(3))
    [] t.op = "match" -> <<"match">> \o Text(k(1), 0) \o <<"{">>
                         \o Each(ArmText, SubSeq(t.kids, 2, n)) \o <<"}">>
    [] t.op = "foreach" -> <<"for">> \o Joined([i \in 1 .. n - 3 |-> <<k(i).op>>], ",") \o <<"in">>
                           \o Text(k(n - 2), 0) \o InvText(k(n - 1)) \o BlockText(k(n))
    [] t.op = "for" -> <<"for", k(1).op, "=">> \o Text(k(2), 0) \o <<";">> \o Text(k(3), 0) \o <<";">>
                       \o Text(k(4), 0) \o InvText(k(5)) \o BlockText(k(6))
    [] t.op = "assert" -> <<"assert">> \o Spec1(k(1))
                          \o (IF k(2).kids = <<>> THEN <<>> ELSE <<"by">> \o BlockText(k(2))) \o <<";">>
    [] t.op \in {"assume", "trusted"} ->
         (IF t.op = "assume" THEN <<"assume">> ELSE <<"trusted", "assume">>) \o Spec1(k(1))
         \o (IF k(2) = None THEN <<>> ELSE <<"source", "str">>) \o <<";">>
    [] t.op = "instantiate" ->
         <<"instantiate">> \o Spec1(k(1)) \o <<"on">>
         \o (IF k(2).op = "at" THEN <<k(1).kids[1].op, "=">> \o Spec1(k(2).kids[1])
             ELSE Joined([i \in 1 .. Len(k(2).kids) |-> Spec1(k(2).kids[i])], ",")) \o <<";">>
    [] t.op = "proof" ->
         <<"proof", "that">> \o Spec1(k(1)) \o <<"by", "induction", "on", k(2).op, ":", "base", ":">>
         \o Spec1(k(3)) \o <<"step", ":", "assume">> \o Spec1(k(4)) \o <<"prove">> \o Spec1(k(5)) \o <<";">>
    [] t.op = "proofblock" -> <<"proof">> \o BlockText(k(1))
    [] t.op = "calc" -> <<"calc", "{">> \o Spec1(k(1)) \o <<";">>
                        \o Each(LAMBDA s : <<s.op>> \o BlockText(s.kids[1]) \o Spec1(s.kids[2]) \o <<";">>,
                                SubSeq(t.kids, 2, n)) \o <<"}">>
    [] t.op = "defer" -> <<"defer">> \o BlockText(k(1))
    [] t.op \in {"break", "continue"} -> <<t.op, ";">>
    [] t.op \in {"atomic", "sync", "unsafe"} -> <<t.op>> \o BlockText(Block(t.kids))
    [] OTHER -> BlockText(t)
Text(t, b) == IF b = AStatement THEN StatementText(t) ELSE ExprText(t, b)

-----------------------------------------------------------------------------
(* The inputs: every pair of forms one inside the other, at every place;   *)
(* statements around them; cut and damaged declarations.                   *)

A == Leaf("a")
B == Leaf("b")
One == Leaf("1")
TypeT == Leaf("T")
Lambda1(body) == Node("lambda", <<Node("byref", <<A>>), Node("param", <<B, Leaf("i64")>>),
                                  Leaf("i64"), Block(body)>>)

\* The forms of one level whose i-th operand is a given tree.
Around(x) ==
  LET bin(ops) == UNION {{Node(op, <<x, B>>), Node(op, <<A, x>>)} : op \in ops}
      place == IF IsPlace(x) THEN {Node("=", <<x, B>>), Node("+=", <<x, B>>), Node("++", <<x>>),
                                   Node("post++", <<x>>)} ELSE {}
  IN  bin(BinaryOps \cup {"**", "index", "<-", "..", "..="}) \cup place
      \cup {Node(op, <<x>>) : op \in Prefix \cup {"sqrt", "spawn", "old"}}
      \cup {Node("?", <<x, A, B>>), Node("?", <<A, x, B>>), Node("?", <<A, B, x>>),
            Node("=", <<A, x>>), Node("-=", <<Node("*", <<A>>), x>>),
            Node("implies", <<x, B>>), Node("implies", <<A, x>>),
            Node("as", <<x, TypeT>>), Node("field", <<x, B>>), Node("method", <<x, A, B>>),
            Node("method", <<A, B, x, One>>), Node("callexpr", <<x, B>>),
            Node("call", <<A, x, B>>), Node("call", <<A, Node("<>", <<TypeT>>), x>>),
            Node("assoc", <<TypeT, A, x>>), Node("lit", <<TypeT, Node("fld", <<A, x>>), Node("fld", <<B, One>>)>>),
            Node("array", <<A, x>>), Node("matrix", <<Node("row", <<A, x>>), Node("row", <<B, One>>)>>),
            Node("integrate", <<x, A, B>>), Node("integrate", <<A, B, x>>), Node("expand", <<A, x>>),
            Node("forall", <<A, Leaf("i64"), Leaf(".."), One, x, B>>),
            Node("exists", <<A, TypeT, Leaf("..="), x, B, A>>),
            Node("forall", <<A, Leaf("i64"), Leaf(".."), One, B, x>>),
            Lambda1(<<Node("return", <<x>>)>>)}

Flats == Around(A) \cup {A, One, Node("new", <<Leaf("map"), TypeT, Node("vec", <<Leaf("u8")>>)>>),
                         Node("sizeof", <<Node("ptr", <<TypeT>>)>>),
                         Node("call", <<A>>), Node("index", <<A, B>>)}
Pairs == UNION {Around(x) : x \in Flats}
Spines == {Node("-", <<A, B>>), Node("*", <<A, B>>), Node("-", <<A>>), Node("==", <<A, B>>),
           Node("<", <<A, B>>), Node("&&", <<A, B>>), Node("**", <<A, B>>), Node("?", <<A, B, One>>),
           Node("=", <<A, B>>), Node("as", <<A, TypeT>>), Node("index", <<A, B>>),
           Node("implies", <<A, B>>), Node("array", <<A, B>>)}

\* Contract forms and "implies" are read in contract mode only.
RECURSIVE HasOp(_, _)
HasOp(t, ops) == t.op \in ops \/ \E i \in 1 .. Len(t.kids) : HasOp(t.kids[i], ops)
ContractOps == {"implies", "old", "forall", "exists"}
RECURSIVE Canon(_)
Canon(t) ==                               \* the tree the code builds for t
  LET ks == [i \in 1 .. Len(t.kids) |-> Canon(t.kids[i])]
      arm(a) == [pat |-> a.kids[1], body |-> a.kids[2]]
      chain[i \in 2 .. Len(ks) + 1] ==
        IF i > Len(ks) THEN <<>>
        ELSE LET a == arm(ks[i]) IN
             IF a.pat = None THEN <<Node("if", <<Leaf("true"), a.body, Block(<<>>)>>)>>
             ELSE <<Node("if", <<Node("==", <<Scrutinee, a.pat>>), a.body, Block(chain[i + 1])>>)>>
  IN  CASE t.op = "implies" -> Node("||", <<Node("!", <<ks[1]>>), ks[2]>>)
        [] t.op = "spawn" /\ ks[1].op = "{}" /\ ks[1].kids[1].op = "expr" -> Node("spawn", ks[1].kids[1].kids)
        [] t.op = "match" -> Block(<<Node("let", <<Scrutinee, None, ks[1]>>)>> \o chain[2])
        [] OTHER -> Node(t.op, ks)

ExprCursor(t) == [Cursor(Append(Text(t, 0), "end"))
                    EXCEPT !.spec = HasOp(t, ContractOps), !.lit = TRUE]
ReadsBack(r, t) == /\ r.t = Canon(t)
                   /\ Tok(r.c) = "end"
                   /\ r.c.e = 0
                   /\ r.c.stop = "no"

-----------------------------------------------------------------------------
(* Lapses of the expressions, in the tree that is written.                 *)

RECURSIVE Within(_)
Within(t) == {t} \cup UNION {Within(t.kids[i]) : i \in 1 .. Len(t.kids)}

\* A comparison whose operands close like type arguments: name < names >.
AngleLapse(toks) ==
  \E i, j \in 1 .. Len(toks) :
    /\ i + 2 < j
    /\ toks[i] \in Names /\ toks[i + 1] = "<" /\ toks[j] = ">"
    /\ \A m \in i + 2 .. j - 1 : toks[m] \in Names \cup {",", "1", "*", "&"}

\* A statement inside the brackets of an array makes it a matrix.
MatrixLapse(t) == \E x \in Within(t) : x.op = "array" /\ HasOp(x, {"lambda"})

\* The bounds of a quantifier are read outside contract mode, literals off.
BoundLapse(t) == \E x \in Within(t) : /\ x.op \in {"forall", "exists"}
                                      /\ \E i \in {4, 5} : HasOp(x.kids[i], ContractOps \cup {"lit"})

\* No struct literal is read below a contract form that resets the mode.
LiteralLapse(t) ==
  \E x \in Within(t) : \/ x.op = "old" /\ HasOp(x, {"lit"})
                       \/ x.op \in {"forall", "exists"} /\ HasOp(x.kids[6], {"lit"})

ExprLapse(t) == \/ \E x \in Within(t) : x.op = "<" /\ AngleLapse(Text(t, 0))
                \/ MatrixLapse(t) \/ BoundLapse(t) \/ LiteralLapse(t)

-----------------------------------------------------------------------------
(* Statements around an expression e and around a statement b.             *)

Do(e) == Node("expr", <<e>>)
Inv(es) == Node("inv", es)
Arm(p, b) == Node("arm", <<p, Block(<<b>>)>>)
Quantified(p) == Node("forall", <<A, Leaf("i64"), Leaf(".."), One, B, p>>)

CodeForms(e, b) ==
  {Do(e), Node("return", <<e>>), Node("let", <<A, None, e>>), Node("mut", <<A, TypeT, e>>),
   Node("ghost", <<Node("let", <<A, TypeT, e>>)>>),
   Node("if", <<e, Block(<<b>>), Block(<<>>)>>), Node("if", <<e, Block(<<b>>), Block(<<b>>)>>),
   Node("if", <<A, Block(<<>>), Block(<<Node("if", <<e, Block(<<b>>), Block(<<Do(B)>>)>>)>>)>>),
   Node("while", <<e, Inv(<<>>), Block(<<b>>)>>),
   Node("foreach", <<A, e, Inv(<<>>), Block(<<b>>)>>),
   Node("foreach", <<A, B, e, Inv(<<B>>), Block(<<b>>)>>),
   Node("for", <<A, e, B, Node("post++", <<A>>), Inv(<<>>), Block(<<b>>)>>),
   Node("for", <<A, One, e, Node("post++", <<A>>), Inv(<<B>>), Block(<<b>>)>>),
   Node("for", <<A, One, B, e, Inv(<<>>), Block(<<b>>)>>),
   Node("match", <<e, Arm(One, b), Arm(e, Do(B)), Arm(None, b)>>),
   Node("match", <<A, Arm(None, b), Arm(One, Do(A))>>),
   Node("defer", <<Block(<<b, Do(e)>>)>>), Node("atomic", <<b, Do(e)>>), Node("unsafe", <<b>>),
   Block(<<b, Node("break", <<>>), Do(e)>>), Do(Lambda1(<<b, Node("return", <<e>>)>>)),
   Do(Node("spawn", <<e>>)), Do(Node("spawn", <<Block(<<Do(e)>>)>>)),
   Do(Node("spawn", <<Block(<<b, Do(e)>>)>>))}

ProofForms(e, b) ==
  {Node("while", <<A, Inv(<<e, B>>), Block(<<b>>)>>),
   Node("assert", <<e, Block(<<>>)>>), Node("assert", <<e, Block(<<b>>)>>),
   Node("assume", <<e, None>>), Node("trusted", <<e, Leaf("str")>>),
   Node("instantiate", <<Quantified(e), Node("at", <<e>>)>>),
   Node("instantiate", <<Quantified(B), Node("triggers", <<e, B>>)>>),
   Node("proof", <<Quantified(e), A, e, B, e>>), Node("proofblock", <<Block(<<b>>)>>),
   Node("calc", <<e, Node("==", <<Block(<<b>>), B>>), Node("<=", <<Block(<<>>), e>>)>>)}

CodeOperands ==
  {A, One, Node("<", <<A, B>>), Node("*", <<Node("+", <<A, B>>), One>>), Node("=", <<A, B>>),
   Node("+=", <<A, One>>), Node("..", <<One, B>>), Node("lit", <<TypeT, Node("fld", <<A, One>>)>>),
   Node("call", <<A, Node("lit", <<TypeT>>)>>), Node("-", <<A>>), Node("array", <<A, B>>),
   Node("?", <<A, B, One>>), Lambda1(<<Do(A)>>), Node("callexpr", <<A, B>>),
   Node("array", <<Lambda1(<<Do(A)>>)>>), Node("index", <<A, B>>), Node("*", <<A>>),
   Node(">", <<Node("<", <<A, B>>), B>>), Node("spawn", <<A>>)}
ProofOperands ==
  {A, Node("==", <<A, B>>), Node("-", <<Node("-", <<A, B>>), One>>), Node("==", <<A, Quantified(B)>>),
   Node("implies", <<A, Node("implies", <<B, A>>)>>), Node("old", <<Node("field", <<A, B>>)>>),
   Node("*", <<Node("-", <<A, B>>), One>>), Quantified(Node("lit", <<TypeT>>))}
Bodies == UNION {CodeForms(e, Do(A)) : e \in {A, Node("*", <<Node("+", <<A, B>>), One>>)}}
          \cup ProofForms(Node("implies", <<A, B>>), Do(A))

StmtCursor(t) == Cursor(Append(StmtText(t), "end"))

-----------------------------------------------------------------------------
(* Lapses of the statements.                                               *)

\* A head that opens with "(" is read as far as the matching ")".
HeadLapse(t) == \E x \in Within(t) : /\ x.op \in {"if", "while", "assert"}
                                     /\ Text(x.kids[1], IF x.op = "assert" THEN 2 ELSE 0)[1] = "("
\* No struct literal is read in a head, not even inside parentheses.
HeadLiteralLapse(t) ==
  \E x \in Within(t) :
    \/ x.op \in {"if", "while", "match", "assert", "arm"} /\ HasOp(x.kids[1], {"lit"})
    \/ x.op = "foreach" /\ HasOp(x.kids[Len(x.kids) - 2], {"lit"})
    \/ x.op = "for" /\ HasOp(x.kids[3], {"lit"})
    \/ x.op \in {"inv", "instantiate", "assume", "trusted", "proof", "calc"} /\ HasOp(x, {"lit"})
\* The step of a for, not in parentheses, that ends in a name takes the body
\* for a struct literal.
StepLapse(t) == \E x \in Within(t) :
  x.op = "for" /\ x.kids[5].kids = <<>> /\ LET s == Text(x.kids[4], 0) IN s[Len(s)] \in Names
\* Arms after a default arm; a citation after an assumption; a thread's body
\* that is not one expression; a lambda in an array.
ArmLapse(t) == \E x \in Within(t) : x.op = "match" /\ HasDeadArm(Tail(x.kids))
CiteLapse(t) == \E x \in Within(t) : x.op \in {"assume", "trusted"} /\ x.kids[2] # None
SpawnLapse(t) == \E x \in Within(t) : /\ x.op = "spawn"
                                      /\ x.kids[1].op = "{}"
                                      /\ Len(x.kids[1].kids) # 1 \/ x.kids[1].kids[1].op # "expr"

SilentLapse(t, toks) == \/ HeadLapse(t) \/ SpawnLapse(t) \/ MatrixLapse(t)
                        \/ HasOp(t, {"<"}) /\ AngleLapse(toks)
StmtLapse(t, toks) == \/ SilentLapse(t, toks) \/ HeadLiteralLapse(t) \/ StepLapse(t) \/ ArmLapse(t)
                      \/ CiteLapse(t) \/ BoundLapse(t) \/ LiteralLapse(t)

-----------------------------------------------------------------------------
(* Declarations, one of every form; what is left of one when its end is    *)
(* cut off, and a program in which a token of it is missing or repeated.   *)

Samples == <<
  <<"fn", "f", "<", "T", ":", "a", "=", "i64", ">", "(", "&", "mut", "self", ",", "a",
    ":", "T", ",", "b", ":", "vec", "[", "i64", "]", "=", "1", ")", "->", "T",
    "requires", "a", "<", "b", "ensures", "a", "==", "old", "(", "b", ")", "modifies",
    "a", ",", "b", "effects", "{", "a", "}", "decreases", "a", "where", "T", ":", "b",
    "{", "return", "a", "+", "1", ";", "}">>,
  <<"fn", "f", "(", ")", "{", "if", "a", "{", "b", "=", "1", ";", "}", "else", "{",
    "while", "a", "<", "b", "invariant", "a", "{", "a", "++", ";", "}", "}", "}">>,
  <<"extern", "fn", "f", "(", "a", ":", "*", "T", ")", "->", "fn", "(", "i64", ")",
    "->", "bool", ";">>,
  <<"export", "fn", "f", "(", "self", ")", "->", "map", "[", "i64", ",", "T", "]", "{",
    "a", ";", "}">>,
  <<"unsafe", "fn", "f", "(", ")", "{", "a", ";", "}">>,
  <<"ghost", "fn", "f", "(", ")", "{", "a", ";", "}">>,
  <<"lemma", "fn", "f", "(", "a", ":", "i64", ")", "requires", "a", "ensures", "b",
    "{", "assert", "a", ";", "}">>,
  <<"spec", "fn", "f", "(", "a", ":", "i64", ")", "->", "bool", "=", "forall", "a", ":", "i64",
    "in", "1", "..", "b", "implies", "a", ";">>,
  <<"asm", "spec", "f", "(", "a", ":", "i64", ")", "->", "i64", "requires", "a",
    "ensures", "b", ";">>,
  <<"trap", "handler", "f", "(", "a", ":", "i64", ")", "->", "i64", "discharge",
    "requires", "a", "{", "return", "a", ";", "}">>,
  <<"trap", "f", "(", "a", ":", "i64", ")", ";">>,
  <<"struct", "T", "<", "a", ">", ":", "b", "{", "private", "a", ":", "i64", ";", "b",
    ":", "[", "T", ";", "1", "]", ",", "}">>,
  <<"extern", "struct", "T", ";">>,
  <<"enum", "T", "{", "a", ",", "b", ",", "}">>,
  <<"impl", "T", "{", "fn", "f", "(", "&", "self", ")", "{", "a", ";", "}", "virtual",
    "fn", "a", "(", "self", ",", "b", ":", "T", ")", "->", "T", "{", "b", ";", "}",
    "override", "fn", "b", "(", ")", "{", "}", "}">>,
  <<"concept", "T", "<", "a", ">", "{", "fn", "f", "(", "&", "self", ",", "a", ":",
    "i64", ")", "->", "i64", ";", "fn", "b", "(", ")", ";", "}">>,
  <<"typedef", "a", "=", "i64", "where", "a", "<", "b", ";">>,
  <<"let", "mut", "a", ":", "T", "=", "T", "{", "b", ":", "1", "}", ";">>,
  <<"const", "a", ":", "T", "<", "i64", ">", "=", "1", ";">>,
  <<"extern", "let", "a", ":", "i64", ";">>,
  <<"region", "a", "=", "{", "a", ",", "b", "}", ";">>,
  <<"refines", "a", "<=", "b", ";">>,
  <<"preserves", "a", "<=", "b", ";">>,
  <<"noninterference", "a", ",", "b", "<=", "f", ";">>,
  <<"cycle_preserves", "a", ",", "b", "<=", "f", ";">>,
  <<"axiom", "a", ":", "b", ";">>,
  <<"trusted", "axiom", "a", "::", "b", ":", "a", "==", "b", "source", "str", ";">>,
  <<"macro", "f", "(", "a", ",", "b", ")", "{", "let", "a", "=", "1", ";", "f", "(",
    "a", ",", "$", "b", ")", "}">>,
  <<"bitfield", "T", ":", "u64", "{", "a", ":", "bit", "1", ";", "b", ":", "bits", "1",
    "..", "1", ";", "}">> >>

Without(s, i) == SubSeq(s, 1, i - 1) \o SubSeq(s, i + 1, Len(s))
Twice(s, i) == SubSeq(s, 1, i) \o SubSeq(s, i, Len(s))
\* A job is a declaration, what happens to its token n, and the one after it.
Program(j) ==
  CASE j.how = "cut"     -> SubSeq(Samples[j.d], 1, j.n) \o <<"end">>
    [] j.how = "whole"   -> Samples[j.d] \o Samples[j.then] \o <<"end">>
    [] j.how = "without" -> Without(Samples[j.d], j.n) \o Samples[j.then] \o <<"end">>
    [] j.how = "twice"   -> Twice(Samples[j.d], j.n) \o Samples[j.then] \o <<"end">>
\* The program, its declaration alone and the next alone.
Programs(j) == <<Cursor(Program(j)), Cursor(Append(Samples[j.d], "end")),
                 Cursor(Append(Samples[j.then], "end"))>>
Jobs(hows, last) ==
  {j \in [how : hows, d : 1 .. Len(Samples), n : 1 .. 60, then : last] : j.n <= Len(Samples[j.d])}

\* Damage that leaves a brace open hands the next declaration to the body.
Count(s, t) == Cardinality({i \in 1 .. Len(s) : s[i] = t})
BraceLapse(toks) == Count(toks, "{") > Count(toks, "}")
\* "unsafe" is not a token recovery stops at: the function is read without it.
Unmarked(t) == IF t.op = "unsafe" THEN t.kids[1] ELSE t
=============================================================================
