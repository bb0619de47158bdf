------------------------------ MODULE WpEncoder ------------------------------
(***************************************************************************)
(* The body walk of the contract encoder (smtEncodeStmts) against the runs *)
(* of the same body.  A body over one variable x is written one statement  *)
(* at a time, each walked as the encoder walks it; an accepted body (every *)
(* query discharged) is then run from every input.                         *)
(*                                                                         *)
(* An SMT constant is a symbol, a world gives every symbol a value, a term *)
(* is a function of the world and a formula a set of worlds.  A query is   *)
(* discharged iff what it assumes is included in what it claims: the       *)
(* solver is ideal, so what goes wrong here is the encoding's own.  Symbol *)
(* 0 is the parameter, the others are minted at loop exits and calls.      *)
(***************************************************************************)
EXTENDS Blocks

CONSTANTS Values,      \* the values a symbol may have, those x takes in a run
          Inputs,      \* the parameter's values that `requires' admits
          Exprs,       \* right-hand sides: "zero", "succ"
          Claims,      \* conditions of assert, assume
          Guards,      \* conditions of if and while
          Invariants,  \* loop invariants, NoInvariant for a loop without
          Ensures,     \* the condition on the result
          Ops,         \* the kinds of statement that bodies are made of
          MaxLength,   \* bound: instructions of a body
          MaxSymbols   \* bound: minted symbols

Cond == [rel: {"eq", "le"}, k: Int]
NoInvariant == [rel |-> "none", k |-> 0]

ASSUME WpAssumption ==
  /\ Values \subseteq Int /\ Inputs \subseteq Values /\ Exprs \subseteq {"zero", "succ"}
  /\ Claims \cup Guards \cup {Ensures} \subseteq Cond
  /\ Invariants \subseteq Cond \cup {NoInvariant}
  /\ MaxLength \in Nat /\ MaxSymbols \in Nat

VARIABLES code,     \* the body: a sequence of instructions
          before,   \* history: for each instruction, walk and facts when it was met
          walk,     \* the walker's store, path condition, premises and dead flag
          frames,   \* the enclosing statements being walked, innermost last
          facts,    \* what the file asserts at its top level
          minted,   \* symbols minted so far
          accepted, \* every query so far was discharged
          dropped,  \* history: ifs and whiles inside a call whose return was dropped
          pos,      \* the instruction about to run; 0 while the body is written
          input, x, \* the run's parameter and the value of x
          gap,      \* history: the run took a step that the encoding does not cover
          outcome   \* "running", "ended" or "failed" (a contract gate traps)

walkVars == <<code, before, walk, frames, facts, minted, accepted, dropped>>
runVars == <<pos, input, x, gap, outcome>>
vars == <<walkVars, runVars>>

(***************************************************************************)
(* Expressions, conditions, terms and formulas.                            *)
(***************************************************************************)
Eval(e, v) == IF e = "zero" THEN 0 ELSE v + 1
Holds(c, v) == CASE c.rel = "eq" -> v = c.k
                 [] c.rel = "le" -> v <= c.k
                 [] c.rel = "none" -> TRUE

Worlds == [0..MaxSymbols -> Values]
Symbol(n) == [w \in Worlds |-> w[n]]
Where(c, term) == {w \in Worlds : Holds(c, term[w])}
Ite(formula, t, e) == [w \in Worlds |-> IF w \in formula THEN t[w] ELSE e[w]]

(***************************************************************************)
(* The walker.                                                             *)
(***************************************************************************)
Instr(op, c, inv, e) == [op |-> op, c |-> c, inv |-> inv, e |-> e]
Plain(op) == Instr(op, Ensures, NoInvariant, "zero")
Conditional(op, c) == Instr(op, c, NoInvariant, "zero")

Init ==
  /\ code = <<>> /\ before = <<>> /\ frames = <<>> /\ dropped = {}
  /\ walk = [x |-> Symbol(0), result |-> Symbol(0), path |-> Worlds,
             prem |-> {w \in Worlds : w[0] \in Inputs}, dead |-> FALSE]
  /\ facts = Worlds /\ minted = 0 /\ accepted = TRUE
  /\ pos = 0 /\ input = 0 /\ x = 0 /\ gap = FALSE /\ outcome = "running"

Kinds == {frames[i].kind : i \in DOMAIN frames}
Top == frames[Len(frames)]
Pop == SubSeq(frames, 1, Len(frames) - 1)
InCall == "call" \in Kinds
Frame(kind, cond) == [kind |-> kind, at |-> Len(code) + 1, outer |-> walk,
                      cond |-> cond, then |-> walk]

\* The source has no statement after a jump in the same list.
Jumped == code # <<>> /\ code[Len(code)].op \in {"return", "break"}

\* Room is kept for the `end' of every open block.
Write(i) == /\ pos = 0 /\ accepted
            /\ Len(code) + Len(frames) + (IF i.op \in Openers THEN 1 ELSE IF i.op = "end" THEN -1 ELSE 0)
                 < MaxLength
            /\ i.op \in Ops \cup {"else", "end"}
            /\ code' = Append(code, i) /\ before' = Append(before, [walk |-> walk, facts |-> facts])
            /\ UNCHANGED runVars

\* `if (returned) return': in a dead list nothing is walked.
WalkTo(new) == walk' = IF walk.dead THEN walk ELSE new
Discharge(assumed, claim) ==
  accepted' = (walk.dead \/ assumed \cap facts \subseteq claim)

Assign(e) ==
  /\ ~Jumped /\ Write(Instr("assign", Ensures, NoInvariant, e))
  /\ WalkTo([walk EXCEPT !.x = [w \in Worlds |-> Eval(e, walk.x[w])]])
  /\ UNCHANGED <<frames, facts, minted, accepted, dropped>>

Assert(c) ==
  /\ ~Jumped /\ Write(Conditional("assert", c))
  /\ Discharge(walk.prem \cap walk.path, Where(c, walk.x))
  /\ UNCHANGED <<walk, frames, facts, minted, dropped>>

\* The premise list it extends is a copy; the top-level (assert) stays.
Assume(c) ==
  /\ ~Jumped /\ Write(Conditional("assume", c))
  /\ facts' = IF walk.dead THEN facts ELSE facts \cap Where(c, walk.x)
  /\ UNCHANGED <<walk, frames, minted, accepted, dropped>>

If(c) ==
  /\ ~Jumped /\ Write(Conditional("if", c))
  /\ frames' = Append(frames, Frame("if", Where(c, walk.x)))
  /\ WalkTo([walk EXCEPT !.path = @ \cap Where(c, walk.x)])
  /\ UNCHANGED <<facts, minted, accepted, dropped>>

ElsePath(f) == [f.outer EXCEPT !.path = @ \ f.cond]

Else ==
  /\ frames # <<>> /\ Top.kind = "if" /\ Write(Plain("else"))
  /\ frames' = Append(Pop, [Top EXCEPT !.kind = "else", !.then = walk])
  /\ walk' = ElsePath(Top)
  /\ UNCHANGED <<facts, minted, accepted, dropped>>

\* Mutant: a returning arm's store is the one kept.
MergeKeepsReturned(outer, cond, t, e) ==
  CASE t.dead /\ e.dead -> [outer EXCEPT !.dead = TRUE]
    [] t.dead /\ ~e.dead -> [outer EXCEPT !.x = t.x, !.result = t.result]
    [] ~t.dead /\ e.dead -> [outer EXCEPT !.x = e.x, !.result = e.result]
    [] OTHER -> [outer EXCEPT !.x = Ite(cond, t.x, e.x), !.result = Ite(cond, t.result, e.result)]

\* mergeStores; the path is the one before the if.
Merge(outer, cond, t, e) ==
  CASE t.dead /\ e.dead -> [outer EXCEPT !.dead = TRUE]
    [] t.dead /\ ~e.dead -> [outer EXCEPT !.x = e.x, !.result = e.result]
    [] ~t.dead /\ e.dead -> [outer EXCEPT !.x = t.x, !.result = t.result]
    [] OTHER -> [outer EXCEPT !.x = Ite(cond, t.x, e.x), !.result = Ite(cond, t.result, e.result)]

EndIf ==
  /\ frames # <<>> /\ Top.kind \in {"if", "else"} /\ Write(Plain("end"))
  /\ LET then == IF Top.kind = "if" THEN walk ELSE Top.then
         else == IF Top.kind = "if" THEN ElsePath(Top) ELSE walk
     IN /\ walk' = Merge(Top.outer, Top.cond, then, else)
        /\ dropped' = IF InCall /\ then.dead # else.dead THEN dropped \cup {Top.at} ELSE dropped
  /\ frames' = Pop
  /\ UNCHANGED <<facts, minted, accepted>>

\* The entry check assumes the guard.  A body without invariant is walked under
\* `false'; else its premises get the path, the guard and the invariant.
While(c, inv) ==
  /\ ~Jumped /\ Write(Instr("while", c, inv, "zero"))
  /\ LET guard == Where(c, walk.x)
     IN /\ Discharge(walk.prem \cap walk.path \cap guard, Where(inv, walk.x))
        /\ frames' = Append(frames, Frame("while", guard))
        /\ WalkTo(IF inv = NoInvariant THEN [walk EXCEPT !.path = {}]
                  ELSE [walk EXCEPT !.path = @ \cap guard,
                                    !.prem = @ \cap walk.path \cap guard \cap Where(inv, walk.x)])
  /\ dropped' = IF InCall THEN dropped \cup {Len(code) + 1} ELSE dropped
  /\ UNCHANGED <<facts, minted>>

\* collectMutatedVarNames: the names that the loop's own body assigns.
Mutated(at) == \E k \in at..Len(code) : code[k].op \in {"assign", "call"}

\* Mutant: the exit formula over the values before the loop (the vacuous
\* discharge that the source says it had).
LoopExitVacuous(outer, loop, v) ==
  [outer EXCEPT !.x = v, !.path = (@ \ Where(loop.c, outer.x)) \cap Where(loop.inv, outer.x)]

LoopExit(outer, loop, v) ==
  [outer EXCEPT !.x = v, !.path = (@ \ Where(loop.c, v)) \cap Where(loop.inv, v)]

\* Preservation is discharged under the body's premises unless the body
\* returned; the loop leaves a fresh symbol that its exit formula constrains.
EndWhile ==
  /\ frames # <<>> /\ Top.kind = "while" /\ Write(Plain("end"))
  /\ LET loop == code[Top.at]
     IN \/ /\ loop.inv = NoInvariant
           /\ walk' = [Top.outer EXCEPT !.dead = TRUE]
           /\ UNCHANGED <<accepted, minted>>
        \/ /\ loop.inv # NoInvariant
           /\ Discharge(walk.prem, Where(loop.inv, walk.x))
           /\ minted' = IF Mutated(Top.at) THEN minted + 1 ELSE minted
           /\ minted' <= MaxSymbols
           /\ walk' = IF Top.outer.dead THEN Top.outer
                      ELSE LoopExit(Top.outer, loop,
                                    IF Mutated(Top.at) THEN Symbol(minted') ELSE Top.outer.x)
  /\ frames' = Pop
  /\ UNCHANGED <<facts, dropped>>

\* x = f(x) with an inlined callee that has no requires: its premises are
\* empty and its result starts as a fresh symbol.  Calls do not nest.
Call ==
  /\ ~Jumped /\ ~InCall /\ minted < MaxSymbols /\ Write(Plain("call"))
  /\ frames' = Append(frames, Frame("call", Worlds))
  /\ minted' = minted + 1
  /\ WalkTo([walk EXCEPT !.prem = Worlds, !.result = Symbol(minted')])
  /\ UNCHANGED <<facts, accepted, dropped>>

\* A callee ends with a return; the caller keeps only the result.
EndCall ==
  /\ frames # <<>> /\ Top.kind = "call" /\ code[Len(code)].op = "return" /\ Write(Plain("end"))
  /\ walk' = IF Top.outer.dead THEN Top.outer ELSE [Top.outer EXCEPT !.x = walk.result]
  /\ frames' = Pop
  /\ UNCHANGED <<facts, minted, accepted, dropped>>

\* A callee's return site binds `result'; the body's own discharges ensures.
Return ==
  /\ ~Jumped /\ Write(Plain("return"))
  /\ WalkTo([walk EXCEPT !.result = walk.x, !.dead = TRUE])
  /\ IF InCall THEN UNCHANGED accepted
               ELSE Discharge(walk.prem \cap walk.path, Where(Ensures, walk.x))
  /\ UNCHANGED <<frames, facts, minted, dropped>>

Break ==
  /\ ~Jumped /\ "while" \in Kinds /\ Top.kind # "call" /\ ~InCall /\ Write(Plain("break"))
  /\ WalkTo([walk EXCEPT !.dead = TRUE])
  /\ UNCHANGED <<frames, facts, minted, accepted, dropped>>

(***************************************************************************)
(* The run of the generated code.                                          *)
(***************************************************************************)
StartRun ==
  /\ pos = 0 /\ accepted /\ frames = <<>> /\ code # <<>>
  /\ \E v \in Inputs : input' = v /\ x' = v
  /\ pos' = 1
  /\ UNCHANGED <<gap, outcome>> /\ UNCHANGED walkVars

Running(op) == pos \in DOMAIN code /\ outcome = "running" /\ code[pos].op = op
Here == code[pos]

\* Jumping over an assume: its fact was asserted for the whole file.
GoTo(q, uncovered) ==
  /\ pos' = q
  /\ gap' = (gap \/ uncovered \/ Among(code, {"assume"}, pos, q - 1) \ {pos} # {})
  /\ UNCHANGED <<input, outcome>> /\ UNCHANGED walkVars
Stop(how, uncovered) == /\ outcome' = how /\ gap' = (gap \/ uncovered)
                        /\ UNCHANGED <<pos, input, x>> /\ UNCHANGED walkVars

RunAssign == /\ Running("assign") /\ Eval(Here.e, x) \in Values
             /\ x' = Eval(Here.e, x) /\ GoTo(pos + 1, FALSE)

RunAssert == /\ Running("assert")
             /\ \/ Holds(Here.c, x) /\ GoTo(pos + 1, FALSE) /\ UNCHANGED x
                \/ ~Holds(Here.c, x) /\ Stop("failed", FALSE)

\* A run that breaks an assume is outside what is promised.
RunAssume == /\ Running("assume")
             /\ \/ Holds(Here.c, x) /\ GoTo(pos + 1, FALSE) /\ UNCHANGED x
                \/ ~Holds(Here.c, x) /\ Stop("ended", FALSE)

RunIf == /\ Running("if") /\ UNCHANGED x
         /\ \/ Holds(Here.c, x) /\ GoTo(pos + 1, FALSE)
            \/ ~Holds(Here.c, x) /\ GoTo(ElseArm(code, pos) + 1, FALSE)

RunElse == /\ Running("else") /\ UNCHANGED x
           /\ GoTo(EndOf(code, Innermost(code, {"if"}, pos)) + 1, FALSE)

RunEnd == /\ Running("end") /\ code[OpenerOf(code, pos)].op = "if" /\ UNCHANGED x
          /\ GoTo(pos + 1, FALSE)

\* The head of a loop's body has a gate for its invariant on every iteration.
EnterBody(loop, again) ==
  IF Holds(code[loop].inv, x) THEN GoTo(loop + 1, again \/ code[loop].inv = NoInvariant)
                              ELSE Stop("failed", again)

\* Not covered: a loop without invariant, one left unentered with its
\* invariant false, a second iteration, a break.
RunWhile == /\ Running("while") /\ UNCHANGED x
            /\ \/ Holds(Here.c, x) /\ EnterBody(pos, FALSE)
               \/ ~Holds(Here.c, x)
                  /\ GoTo(EndOf(code, pos) + 1, Here.inv = NoInvariant \/ ~Holds(Here.inv, x))

RunEndWhile == /\ Running("end") /\ code[OpenerOf(code, pos)].op = "while" /\ UNCHANGED x
               /\ LET loop == OpenerOf(code, pos)
                  IN \/ Holds(code[loop].c, x) /\ EnterBody(loop, TRUE)
                     \/ ~Holds(code[loop].c, x) /\ GoTo(pos + 1, FALSE)

RunBreak == /\ Running("break") /\ UNCHANGED x
            /\ GoTo(EndOf(code, Innermost(code, {"while"}, pos)) + 1, TRUE)

RunReturn ==
  /\ Running("return")
  /\ \/ \E call \in Enclosing(code, {"call"}, pos) :
          /\ GoTo(EndOf(code, call) + 1, Enclosing(code, {"if", "while"}, pos) \cap dropped # {})
          /\ UNCHANGED x
     \/ Enclosing(code, {"call"}, pos) = {} /\ Stop(IF Holds(Ensures, x) THEN "ended" ELSE "failed", FALSE)

Next ==
  \/ \E e \in Exprs : Assign(e)
  \/ \E c \in Claims : Assert(c) \/ Assume(c)
  \/ \E c \in Guards : If(c) \/ \E inv \in Invariants : While(c, inv)
  \/ Else \/ EndIf \/ EndWhile \/ Call \/ EndCall \/ Return \/ Break
  \/ StartRun
  \/ RunAssign \/ RunAssert \/ RunAssume \/ RunIf \/ RunElse \/ RunEnd
  \/ RunWhile \/ RunEndWhile \/ RunBreak \/ RunReturn

Spec == Init /\ [][Next]_vars

(***************************************************************************)
(* Properties.                                                             *)
(***************************************************************************)
\* Where the encoder covers a run, the run is one of the worlds it reasons
\* about: at each instruction it reaches the walk was alive, and some choice of
\* the minted symbols satisfies the path condition, the premises and the facts
\* of that point and gives the store's term for x the value x has.
StoreDescribesRun ==
  pos \in DOMAIN code /\ outcome = "running" /\ ~gap =>
    LET w == before[pos].walk
    IN ~w.dead /\ \E world \in w.path \cap w.prem \cap before[pos].facts :
                    world[0] = input /\ w.x[world] = x

\* A body whose queries are all discharged trips one of its contract gates only
\* after a step that the encoding does not cover: a second iteration, a loop
\* left unentered with its invariant false, a loop without invariant, a break,
\* a return dropped at a merge, or an assume that the run went around.
OnlyUncoveredRunsFail == outcome = "failed" => gap

\* "Preservation: assuming I /\ cond at body entry, I holds at body exit"
\* (smtEncodeStmt): in an accepted body, whenever the end of a loop's body is
\* reached the loop's invariant holds.
InvariantHoldsAtBodyExit ==
  Running("end") => LET loop == code[OpenerOf(code, pos)] IN loop.op = "while" => Holds(loop.inv, x)
=============================================================================
