------------------------------ MODULE Ownership ------------------------------
(***************************************************************************)
(* Values of a type with a destructor, from Sema's set of moved names and  *)
(* IRGen's drop lists, both kept while a body is walked from top to        *)
(* bottom, to what the generated code then does with the values.  A body   *)
(* is written one statement at a time, as Sema admits it, and walked as    *)
(* IRGen walks it; the finished code is run, its branches taken freely.    *)
(*                                                                         *)
(* Every variable has a slot and holds a value of one such type; a move    *)
(* copies the bytes and leaves them in the source's slot too.              *)
(***************************************************************************)
EXTENDS Blocks, SequencesExt

CONSTANTS Names,      \* names of variables
          Param,      \* the name of the parameter, passed by value
          Ops,        \* the kinds of statement that bodies are made of
          MaxLength,  \* bound: statements of a body, its "end"s included
          MaxValues   \* bound: values that a run creates

ASSUME OwnershipAssumption ==
  /\ Param \in Names /\ "new" \notin Names
  /\ MaxLength \in Nat /\ MaxValues \in Nat \ {0}

VARIABLES
  scopes,      \* scopes_ and scopeDropVars_, innermost last
  frames,      \* the open blocks: frames[i] opened scopes[i + 1]
  moved,       \* movedVars_ of Sema
  terminated,  \* terminated_ of IRGen: the block ended in a jump
  returns,     \* what the function returns: "open", "nothing" or "value"
  ir,          \* the generated code
  written,     \* statements written so far
  slots,       \* slots allocated so far
  gone,        \* history: slots whose value the body moves away
  lapses,      \* history: the statements of the body that the lists mistake
  pos,         \* the instruction about to run; 0 while the body is written
  content,     \* the value in each slot, 0 for undefined bytes
  alive,       \* values created and neither dropped nor handed over
  owner,       \* history: the slot that holds each value by right
  result,      \* the value in the return slot, 0 for none
  outcome      \* "running", "clean", "leak", "double drop" or "dead touch"

walkVars == <<scopes, frames, moved, terminated, returns, ir, written, slots, gone, lapses>>
runVars == <<pos, content, alive, owner, result, outcome>>
vars == <<walkVars, runVars>>

Slots == 1..(MaxLength + 1)
Instr(op, s, t) == [op |-> op, s |-> s, t |-> t]
NoSlot == 0

(***************************************************************************)
(* Scopes and drop lists.                                                  *)
(***************************************************************************)
EmptyScope == [vars |-> [n \in Names |-> NoSlot], drops |-> <<>>]
Top == Last(scopes)

\* A variable to destroy or a defer to run; `meant' is history, the slot that
\* the name stood for when the entry was made.
Entry(kind, n, slot) == [kind |-> kind, name |-> n, meant |-> slot]

\* Declaring a name gives it a slot and an entry in the innermost scope.
Declare(stack, n, slot) ==
  [stack EXCEPT ![Len(stack)] =
     [vars |-> [@.vars EXCEPT ![n] = slot], drops |-> Append(@.drops, Entry("var", n, slot))]]

\* The innermost declaration of a name.
Declaring(n) == {i \in DOMAIN scopes : scopes[i].vars[n] # NoSlot}
FindVar(n) == IF Declaring(n) = {} THEN NoSlot ELSE scopes[Max(Declaring(n))].vars[n]

IsVar(e, n) == e.kind = "var" /\ e.name = n
Listing(n) == {i \in DOMAIN scopes : \E e \in ToSet(scopes[i].drops) : IsVar(e, n)}
\* A list without its first entry for a variable.
Without(drops, n) == RemoveAt(drops, Min({k \in DOMAIN drops : IsVar(drops[k], n)}))

\* Mutant: the search starts with the outermost list.
MarkMovedOutOutermost(n) ==
  IF Listing(n) = {} THEN scopes
  ELSE [scopes EXCEPT ![Min(Listing(n))].drops = Without(@, n)]

\* A move takes the name off the innermost list that has it.
MarkMovedOut(n) ==
  IF Listing(n) = {} THEN scopes
  ELSE [scopes EXCEPT ![Max(Listing(n))].drops = Without(@, n)]

\* What an entry of scope i emits: a defer's body inline, where a name means
\* whatever it means at the exit; the drop of a variable, unless suppressed.
EntryDrop(i, e, suppressed) ==
  IF e.kind = "defer" THEN <<Instr("use", FindVar(e.name), NoSlot)>>
  ELSE IF e.name \in suppressed THEN <<>>
  ELSE <<Instr("drop", scopes[i].vars[e.name], NoSlot)>>

\* Mutant: a scope's entries in the order of their declaration.
ScopeDropsForward(i, suppressed) ==
  LET due == scopes[i].drops
  IN FlattenSeq([k \in 1..Len(due) |-> EntryDrop(i, due[k], suppressed)])

\* What leaving scope i emits: its entries in reverse.
ScopeDrops(i, suppressed) ==
  LET due == Reverse(scopes[i].drops)
  IN FlattenSeq([k \in 1..Len(due) |-> EntryDrop(i, due[k], suppressed)])

\* Leaving every scope from the innermost out to scope `to'.
Unwind(to, suppressed) ==
  FlattenSeq([k \in 1..(Len(scopes) - to + 1) |-> ScopeDrops(Len(scopes) - k + 1, suppressed)])

\* The fall-through end of the innermost scope.
PopDrops == IF terminated THEN <<>> ELSE ScopeDrops(Len(scopes), {})

(***************************************************************************)
(* Lapses: statements that Sema admits and that break what the lists stand *)
(* for.  They are recorded, they change nothing.                           *)
(*   touch     a value is read that was passed to a call before            *)
(*   far       a value is moved in a block inside its variable's scope     *)
(*   overwrite a variable is assigned after its value was moved away       *)
(*   self      a variable is moved to a variable of its own name           *)
(*   deferred  a defer reads a value that was moved after it was written   *)
(*   shadow    a defer, or the value of a return, has the name of a        *)
(*             variable in another scope that is left with it              *)
(***************************************************************************)
Touch(slot) == IF slot \in gone THEN {"touch"} ELSE {}
Far(n) == IF Max(Declaring(n)) < Len(scopes) THEN {"far"} ELSE {}
Left(to) == UNION {ToSet(scopes[i].drops) : i \in to..Len(scopes)}
Exit(to, suppressed) ==
  LET defers == {e \in Left(to) : e.kind = "defer"}
  IN {"deferred" : e \in {d \in defers : FindVar(d.name) \in gone}}
     \cup {"shadow" : e \in {d \in defers : FindVar(d.name) # d.meant}}
     \cup {"shadow" : e \in {d \in Left(to) : d.kind = "var" /\ d.name \in suppressed
                                                 /\ d.meant # FindVar(d.name)}}

(***************************************************************************)
(* The walk.                                                               *)
(***************************************************************************)
Init ==
  /\ scopes = Declare(<<EmptyScope>>, Param, 1)
  /\ frames = <<>> /\ moved = {} /\ terminated = FALSE /\ returns = "open"
  /\ ir = <<>> /\ written = 0 /\ slots = 1 /\ gone = {} /\ lapses = {}
  /\ pos = 0 /\ content = [s \in Slots |-> IF s = 1 THEN 1 ELSE 0]
  /\ alive = {1} /\ owner = <<1>> /\ result = 0 /\ outcome = "running"

\* Room is kept for the `end' of every open block.
Write(op, opens) ==
  /\ pos = 0 /\ op \in Ops \cup {"else", "end"}
  /\ written + Len(frames) + opens < MaxLength
  /\ written' = written + 1
  /\ UNCHANGED runVars

\* Nothing follows a jump in the same block.
Statement(op, opens) == ~terminated /\ Write(op, opens)
Emit(code) == ir' = ir \o code

\* Sema: a name must be declared and not moved from.
Admitted(n, movedNow) == FindVar(n) # NoSlot /\ n \notin movedNow
Moves(src, n) == IF src = "new" THEN {} ELSE
                 Touch(FindVar(src)) \cup Far(src) \cup (IF src = n THEN {"self"} ELSE {})
SourceSlot(src) == IF src = "new" THEN NoSlot ELSE FindVar(src)
MovedFrom(src) == IF src = "new" THEN {} ELSE {src}

\* IRGen compares names: a variable bound from one of its own name keeps both.
AfterMove(src, n) == IF src \in {"new", n} THEN scopes ELSE MarkMovedOut(src)

Let(n, src) ==
  /\ Statement("let", 0) /\ Top.vars[n] = NoSlot
  /\ src # "new" => Admitted(src, moved)
  /\ slots' = slots + 1
  /\ scopes' = Declare(AfterMove(src, n), n, slots')
  /\ moved' = moved \cup MovedFrom(src)
  /\ Emit(<<Instr("let", slots', SourceSlot(src))>>)
  /\ gone' = gone \cup ({SourceSlot(src)} \ {NoSlot})
  /\ lapses' = lapses \cup Moves(src, n)
  /\ UNCHANGED <<frames, terminated, returns>>

\* Sema takes the target off the moved set before it checks the value.
Assign(n, src) ==
  /\ Statement("assign", 0) /\ FindVar(n) # NoSlot
  /\ src # "new" => Admitted(src, moved \ {n})
  /\ scopes' = AfterMove(src, n)
  /\ moved' = (moved \ {n}) \cup MovedFrom(src)
  /\ Emit(<<Instr("assign", FindVar(n), SourceSlot(src))>>)
  /\ gone' = (gone \ {FindVar(n)}) \cup ({SourceSlot(src)} \ {NoSlot})
  /\ lapses' = lapses \cup Moves(src, n)
                 \cup (IF FindVar(n) \in gone THEN {"overwrite"} ELSE {})
  /\ UNCHANGED <<frames, terminated, returns, slots>>

\* A by-value argument: IRGen moves it, Sema takes no note.
Pass(n) ==
  /\ Statement("pass", 0) /\ Admitted(n, moved)
  /\ scopes' = MarkMovedOut(n)
  /\ Emit(<<Instr("pass", FindVar(n), NoSlot)>>)
  /\ gone' = gone \cup {FindVar(n)}
  /\ lapses' = lapses \cup Touch(FindVar(n)) \cup Far(n)
  /\ UNCHANGED <<frames, moved, terminated, returns, slots>>

Use(n) ==
  /\ Statement("use", 0) /\ Admitted(n, moved)
  /\ Emit(<<Instr("use", FindVar(n), NoSlot)>>)
  /\ lapses' = lapses \cup Touch(FindVar(n))
  /\ UNCHANGED <<scopes, frames, moved, terminated, returns, slots, gone>>

\* The body of a defer is checked here and generated at each exit.
Defer(n) ==
  /\ Statement("defer", 0) /\ Admitted(n, moved)
  /\ scopes' = [scopes EXCEPT ![Len(scopes)].drops = Append(@, Entry("defer", n, FindVar(n)))]
  /\ lapses' = lapses \cup Touch(FindVar(n))
  /\ UNCHANGED <<frames, moved, terminated, returns, ir, slots, gone>>

\* An if or a while: a scope of its own.
Open(op) ==
  /\ Statement(op, 1)
  /\ frames' = Append(frames, op) /\ scopes' = Append(scopes, EmptyScope)
  /\ Emit(<<Instr(op, NoSlot, NoSlot)>>)
  /\ UNCHANGED <<moved, terminated, returns, slots, gone, lapses>>

Else ==
  /\ frames # <<>> /\ Last(frames) = "if" /\ Write("else", 0)
  /\ Emit(PopDrops \o <<Instr("else", NoSlot, NoSlot)>>)
  /\ frames' = Append(Front(frames), "else") /\ scopes' = Append(Front(scopes), EmptyScope)
  /\ terminated' = FALSE
  /\ lapses' = IF terminated THEN lapses ELSE lapses \cup Exit(Len(scopes), {})
  /\ UNCHANGED <<moved, returns, slots, gone>>

\* Mutant: the scope stays on the stack.
EndBlockKeepsScope ==
  /\ frames # <<>> /\ Write("end", -1)
  /\ Emit(PopDrops \o <<Instr("end", NoSlot, NoSlot)>>)
  /\ frames' = Front(frames)
  /\ terminated' = FALSE
  /\ lapses' = IF terminated THEN lapses ELSE lapses \cup Exit(Len(scopes), {})
  /\ UNCHANGED <<scopes, moved, returns, slots, gone>>

EndBlock ==
  /\ frames # <<>> /\ Write("end", -1)
  /\ Emit(PopDrops \o <<Instr("end", NoSlot, NoSlot)>>)
  /\ frames' = Front(frames) /\ scopes' = Front(scopes)
  /\ terminated' = FALSE
  /\ lapses' = IF terminated THEN lapses ELSE lapses \cup Exit(Len(scopes), {})
  /\ UNCHANGED <<moved, returns, slots, gone>>

\* Mutant: the exit leaves the innermost scope only.
LoopScopeInnermost == Len(scopes)

\* The scope of the innermost loop's body: a break and a continue leave it, and
\* every scope inside it.
LoopScope == 1 + Max({i \in DOMAIN frames : frames[i] = "while"})

LeaveTurn(op) ==
  /\ "while" \in ToSet(frames) /\ Statement(op, 0)
  /\ Emit(Unwind(LoopScope, {}) \o <<Instr(op, NoSlot, NoSlot)>>)
  /\ terminated' = TRUE
  /\ lapses' = lapses \cup Exit(LoopScope, {})
  /\ UNCHANGED <<scopes, frames, moved, returns, slots, gone>>

Return ==
  /\ returns # "value" /\ Statement("return", 0)
  /\ returns' = "nothing"
  /\ Emit(Unwind(1, {}) \o <<Instr("ret", NoSlot, NoSlot)>>)
  /\ terminated' = TRUE
  /\ lapses' = lapses \cup Exit(1, {})
  /\ UNCHANGED <<scopes, frames, moved, slots, gone>>

\* suppressDrop_: names, whatever their scope.
Suppressed(n) == {n}

\* The value is loaded first; no entry of its name is dropped at this exit.
ReturnValue(n) ==
  /\ returns # "nothing" /\ Statement("return", 0) /\ Admitted(n, moved)
  /\ returns' = "value"
  /\ Emit(<<Instr("load", FindVar(n), NoSlot)>> \o Unwind(1, Suppressed(n))
            \o <<Instr("ret", NoSlot, NoSlot)>>)
  /\ terminated' = TRUE
  /\ lapses' = lapses \cup Touch(FindVar(n)) \cup Exit(1, {n})
  /\ UNCHANGED <<scopes, frames, moved, slots, gone>>

\* The end of the function's body, which may be reached where a value is due:
\* the function then returns zeros.  The finished code is run.
Finish ==
  /\ pos = 0 /\ frames = <<>>
  /\ Emit(PopDrops \o (IF terminated THEN <<>> ELSE <<Instr("ret", NoSlot, NoSlot)>>))
  /\ pos' = 1
  /\ lapses' = IF terminated THEN lapses ELSE lapses \cup Exit(1, {})
  /\ UNCHANGED <<scopes, frames, moved, terminated, returns, written, slots, gone>>
  /\ UNCHANGED <<content, alive, owner, result, outcome>>

(***************************************************************************)
(* The run.                                                                *)
(***************************************************************************)
Running(op) == pos \in DOMAIN ir /\ outcome = "running" /\ ir[pos].op = op
Here == ir[pos]
Held(s) == content[s]

GoTo(q) == pos' = q /\ UNCHANGED <<result, outcome>> /\ UNCHANGED walkVars
Stop(how) == /\ outcome' = how
             /\ UNCHANGED <<pos, content, alive, owner, result>> /\ UNCHANGED walkVars
Untouched == UNCHANGED <<content, alive, owner>>

\* The value that goes into slot s: that of slot t, or a new one.
Incoming(t) == IF t = NoSlot THEN Len(owner) + 1 ELSE Held(t)
Store(s, t) == /\ Incoming(t) <= MaxValues
               /\ content' = [content EXCEPT ![s] = Incoming(t)]
               /\ owner' = IF t = NoSlot THEN Append(owner, s) ELSE [owner EXCEPT ![Held(t)] = s]

Dead(t) == t # NoSlot /\ Held(t) \notin alive

RunLet ==
  /\ Running("let")
  /\ \/ Dead(Here.t) /\ Stop("dead touch")
     \/ /\ ~Dead(Here.t) /\ Store(Here.s, Here.t)
        /\ alive' = alive \cup {Incoming(Here.t)}
        /\ GoTo(pos + 1)

\* The old value is dropped between the evaluation of the new one and its store.
RunAssign ==
  /\ Running("assign")
  /\ \/ Dead(Here.t) /\ Stop("dead touch")
     \/ ~Dead(Here.t) /\ Dead(Here.s) /\ Stop("double drop")
     \/ /\ ~Dead(Here.t) /\ ~Dead(Here.s) /\ Store(Here.s, Here.t)
        /\ alive' = (alive \cup {Incoming(Here.t)}) \ {Held(Here.s)}
        /\ GoTo(pos + 1)

RunDrop ==
  /\ Running("drop")
  /\ \/ Dead(Here.s) /\ Stop("double drop")
     \/ /\ ~Dead(Here.s) /\ alive' = alive \ {Held(Here.s)}
        /\ GoTo(pos + 1) /\ UNCHANGED <<content, owner>>

\* The callee owns the argument and drops it.
RunPass ==
  /\ Running("pass")
  /\ \/ Dead(Here.s) /\ Stop("dead touch")
     \/ /\ ~Dead(Here.s) /\ alive' = alive \ {Held(Here.s)}
        /\ GoTo(pos + 1) /\ UNCHANGED <<content, owner>>

RunUse ==
  /\ Running("use")
  /\ \/ Dead(Here.s) /\ Stop("dead touch")
     \/ ~Dead(Here.s) /\ GoTo(pos + 1) /\ Untouched

RunLoad ==
  /\ Running("load")
  /\ \/ Dead(Here.s) /\ Stop("dead touch")
     \/ /\ ~Dead(Here.s) /\ result' = Held(Here.s) /\ pos' = pos + 1
        /\ UNCHANGED outcome /\ Untouched /\ UNCHANGED walkVars

RunIf == Running("if") /\ (GoTo(pos + 1) \/ GoTo(ElseArm(ir, pos) + 1)) /\ Untouched
RunElse == Running("else") /\ GoTo(EndOf(ir, Innermost(ir, {"if"}, pos)) + 1) /\ Untouched
RunWhile == Running("while") /\ (GoTo(pos + 1) \/ GoTo(EndOf(ir, pos) + 1)) /\ Untouched
RunBreak == Running("break") /\ GoTo(EndOf(ir, Innermost(ir, {"while"}, pos)) + 1) /\ Untouched
RunContinue == Running("continue") /\ GoTo(Innermost(ir, {"while"}, pos)) /\ Untouched
RunEnd == /\ Running("end") /\ Untouched
          /\ GoTo(IF ir[OpenerOf(ir, pos)].op = "while" THEN OpenerOf(ir, pos) ELSE pos + 1)

\* The caller takes the result; whatever else is alive has no owner any more.
RunRet ==
  /\ Running("ret")
  /\ Stop(IF result # 0 /\ result \notin alive THEN "dead touch"
          ELSE IF alive \subseteq {result} THEN "clean" ELSE "leak")

Next ==
  \/ \E n \in Names : \/ \E src \in Names \cup {"new"} : Let(n, src) \/ Assign(n, src)
                      \/ Pass(n) \/ Use(n) \/ Defer(n) \/ ReturnValue(n)
  \/ Open("if") \/ Open("while") \/ Else \/ EndBlock \/ LeaveTurn("break") \/ LeaveTurn("continue")
  \/ Return \/ Finish
  \/ RunLet \/ RunAssign \/ RunDrop \/ RunPass \/ RunUse \/ RunLoad
  \/ RunIf \/ RunElse \/ RunWhile \/ RunBreak \/ RunContinue \/ RunEnd \/ RunRet

Spec == Init /\ [][Next]_vars

(***************************************************************************)
(* Properties.                                                             *)
(***************************************************************************)
Lapses == {"touch", "far", "overwrite", "self", "deferred", "shadow"}

\* The scopes match the open blocks, every listed variable is declared where it
\* is listed and listed once, and a slot's value is one that was created.
TypeOK ==
  /\ Len(scopes) = Len(frames) + 1
  /\ \A i \in DOMAIN scopes :
       /\ scopes[i].vars \in [Names -> {NoSlot} \cup 1..slots]
       /\ \A k \in DOMAIN scopes[i].drops :
            LET e == scopes[i].drops[k]
            IN e.kind = "var" => /\ scopes[i].vars[e.name] = e.meant /\ e.meant # NoSlot
                                 /\ \A j \in DOMAIN scopes[i].drops :
                                      IsVar(scopes[i].drops[j], e.name) => j = k
  /\ moved \subseteq Names /\ gone \subseteq 1..slots /\ slots \in Slots
  /\ terminated \in BOOLEAN /\ returns \in {"open", "nothing", "value"}
  /\ lapses \subseteq Lapses
  /\ content \in [Slots -> 0..Len(owner)] /\ alive \subseteq DOMAIN owner
  /\ outcome \in {"running", "clean", "leak", "double drop", "dead touch"}

\* While the body has no lapse, IRGen's drop lists say what they are read as: a
\* variable is on its scope's list exactly if its value was not moved away.
ListedIffOwned ==
  pos = 0 /\ lapses = {} =>
    \A i \in DOMAIN scopes, n \in Names :
      scopes[i].vars[n] # NoSlot =>
        ((\E e \in ToSet(scopes[i].drops) : IsVar(e, n)) <=> scopes[i].vars[n] \notin gone)

\* On every path of a body with no lapse, through every branch, break, continue,
\* early return and defer, each value is dropped exactly once or handed over, and
\* none is read afterwards; and each way to fail has the lapses that can bring it
\* about: none of them leaks because of a defer's late reading, for one.
FailuresHaveALapse ==
  /\ outcome = "leak" => lapses \cap {"touch", "far", "overwrite", "shadow"} # {}
  /\ outcome = "double drop" => lapses \cap {"touch", "far", "overwrite", "self"} # {}
  /\ outcome = "dead touch" => lapses \cap {"touch", "far", "overwrite", "self", "deferred", "shadow"} # {}

\* "Drops run in reverse declaration order of the live locals"
\* (docs/02-language.md:318): when a scope exit drops a variable, no variable
\* declared after it still holds a value, other than the one being returned.
DropsRunInReverse ==
  Running("drop") /\ lapses = {} => \A v \in alive \ {result} : owner[v] <= Here.s

\* "After the move `a` is invalid and touching it is a compile time error"
\* (docs/02-language.md:320): no run of an admitted body reads, drops or hands
\* over a value that it dropped or passed on before.
MovedValuesAreNotTouched == outcome # "dead touch"
=============================================================================
