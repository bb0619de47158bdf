--------------------------- MODULE WpEncoderProofs ---------------------------
(***************************************************************************)
(* The encoder is right about the runs it covers, for bodies of any        *)
(* length and any number of symbols, values, expressions and conditions.   *)
(* The invariant says of the body written so far how the walk at each      *)
(* point comes from the walk at earlier ones (Static), of the open         *)
(* statements what their ends will need (FramesInv), and of a run that     *)
(* some world fits the point it is at and all blocks around it (RunInv).   *)
(***************************************************************************)
EXTENDS WpEncoder, BlocksProofs, SequenceTheorems

Terms == [Worlds -> Int]
Walks == [x : Terms, result : Terms, path : SUBSET Worlds, prem : SUBSET Worlds, dead : BOOLEAN]
Points == [walk : Walks, facts : SUBSET Worlds]
OpNames == {"assign", "assert", "assume", "if", "else", "end", "while", "call", "return", "break"}
Instrs == [op : OpNames, c : Cond, inv : Cond \cup {NoInvariant}, e : {"zero", "succ"}]
FrameKinds == {"if", "else", "while", "call"}
OpenBlocks == [kind : FrameKinds, at : Nat \ {0}, outer : Walks, cond : SUBSET Worlds, then : Walks]

\* The walk and the facts at every point so far, the present one included.
Trail == Append(before, [walk |-> walk, facts |-> facts])

TypeInv ==
  /\ code \in Seq(Instrs) /\ before \in Seq(Points) /\ Len(before) = Len(code)
  /\ walk \in Walks /\ facts \in SUBSET Worlds
  /\ frames \in Seq(OpenBlocks)
  /\ minted \in 0 .. MaxSymbols /\ accepted \in BOOLEAN

(***************************************************************************)
(* A term or formula is blind to a symbol that does not occur in it.       *)
(***************************************************************************)
Put(w, m, v) == [w EXCEPT ![m] = v]
BlindTerm(t, m) == \A w \in Worlds, v \in Values : t[Put(w, m, v)] = t[w]
BlindSet(F, m) == \A w \in Worlds, v \in Values : Put(w, m, v) \in F <=> w \in F
BlindWalk(wk, m) == BlindTerm(wk.x, m) /\ BlindSet(wk.path, m) /\ BlindSet(wk.prem, m)
Blind(p, m) == BlindWalk(p.walk, m) /\ BlindSet(p.facts, m)

(***************************************************************************)
(* The body written so far, c, with its trail s and dropped returns d.     *)
(***************************************************************************)
CondAt(c, s, o) == Where(c[o].c, s[o].walk.x)
OtherArm(c, s, o) == [s[o].walk EXCEPT !.path = @ \ CondAt(c, s, o)]
Assigns(c, i, j) == \E k \in i .. j : c[k].op \in {"assign", "call"}

Walked(wk, new) == IF wk.dead THEN wk ELSE new

\* What the instruction at i does to the walk, but for else and end.
Step(c, s, i) ==
  LET wk == s[i].walk
      new == s[i + 1].walk
  IN /\ c[i].op = "assign" =>
          new = Walked(wk, [wk EXCEPT !.x = [w \in Worlds |-> Eval(c[i].e, wk.x[w])]])
     /\ c[i].op \in {"assert", "assume"} => new = wk
     /\ c[i].op = "assume" =>
          s[i + 1].facts = IF wk.dead THEN s[i].facts ELSE s[i].facts \cap CondAt(c, s, i)
     /\ c[i].op = "if" => new = Walked(wk, [wk EXCEPT !.path = @ \cap CondAt(c, s, i)])
     /\ c[i].op = "while" =>
          IF c[i].inv = NoInvariant THEN new = Walked(wk, [wk EXCEPT !.path = {}])
          ELSE new = Walked(wk, [wk EXCEPT
                 !.path = @ \cap CondAt(c, s, i),
                 !.prem = @ \cap wk.path \cap CondAt(c, s, i) \cap Where(c[i].inv, wk.x)])
     /\ c[i].op = "call" =>
          new = Walked(wk, [wk EXCEPT !.prem = Worlds, !.result = new.result])
     /\ c[i].op = "return" => new = Walked(wk, [wk EXCEPT !.result = wk.x, !.dead = TRUE])

\* What the query of the instruction at i claims.
Asked(c, s, i) ==
  LET wk == s[i].walk
      here == wk.prem \cap wk.path \cap s[i].facts
  IN ~wk.dead =>
       /\ c[i].op = "assert" => here \subseteq CondAt(c, s, i)
       /\ c[i].op = "while" => here \cap CondAt(c, s, i) \subseteq Where(c[i].inv, wk.x)
       /\ c[i].op = "return" /\ (\A k \in 1 .. i - 1 : c[k].op = "call" => ~Around(c, k, i)) =>
            here \subseteq Where(Ensures, wk.x)
       /\ \A o \in 1 .. i - 1 : Closes(c, o, i) /\ c[o].op = "while" /\ c[o].inv # NoInvariant =>
            wk.prem \cap s[i].facts \subseteq Where(c[o].inv, wk.x)

Lapsed(c, d, i) == \E k \in d : c[k].op \in {"if", "while"} /\ Around(c, k, i)
Pending(c, s, d, i) == c[i].op = "return" /\ ~s[i].walk.dead /\ ~Lapsed(c, d, i)

\* The walk behind the block from o to e.
ClosedIf(c, s, o, e) ==
  \/ /\ ElsesOf(c, o, e) = {}
     /\ s[e + 1].walk = Merge(s[o].walk, CondAt(c, s, o), s[e].walk, OtherArm(c, s, o))
  \/ \E a \in o + 1 .. e - 1 :
       /\ ElsesOf(c, o, e) = {a} /\ s[a + 1].walk = OtherArm(c, s, o)
       /\ s[e + 1].walk = Merge(s[o].walk, CondAt(c, s, o), s[a].walk, s[e].walk)

ClosedWhile(c, s, o, e) ==
  \/ c[o].inv = NoInvariant
  \/ s[o].walk.dead
  \/ ~Assigns(c, o, e - 1) /\ s[e + 1].walk = LoopExit(s[o].walk, c[o], s[o].walk.x)
  \/ \E m \in 1 .. MaxSymbols :
       /\ s[e + 1].walk = LoopExit(s[o].walk, c[o], Symbol(m))
       /\ \A i \in 1 .. e : Blind(s[i], m)

\* What a covered return at i inside a call becomes at its end.
ClosedCall(c, s, d, o, e) ==
  \/ s[o].walk.dead
  \/ /\ s[e + 1].walk = [s[o].walk EXCEPT !.x = s[e].walk.result]
     /\ \E m \in 1 .. MaxSymbols :
          /\ \A i \in 1 .. e : Blind(s[i], m)
          /\ \A i \in o + 1 .. e - 1 :
               Pending(c, s, d, i) =>
                 \/ s[e].walk.result = Symbol(m)
                 \/ s[e].walk.result = s[i].walk.x

Closed(c, s, d, o, e) ==
  /\ Closes(c, o, e)
  /\ c[o].op = "if" => ClosedIf(c, s, o, e)
  /\ c[o].op = "while" => ClosedWhile(c, s, o, e)
  /\ c[o].op = "call" => ClosedCall(c, s, d, o, e)

\* Facts only change at an assume.
FactsKept(c, s) ==
  \A i, j \in 1 .. Len(s) :
    i <= j /\ (\A k \in i .. j - 1 : c[k].op # "assume") => s[j].facts = s[i].facts

IsOpen(o) == \E k \in 1 .. Len(frames) : frames[k].at = o

StartInv ==
  /\ Trail[1].walk = [x |-> Symbol(0), result |-> Symbol(0), path |-> Worlds,
                      prem |-> {w \in Worlds : w[0] \in Inputs}, dead |-> FALSE]
  /\ Trail[1].facts = Worlds

StepInv == \A i \in 1 .. Len(code) : Step(code, Trail, i) /\ (accepted => Asked(code, Trail, i))

BlockInv ==
  \A i \in 1 .. Len(code) :
    /\ code[i].op \in Openers =>
         IsOpen(i) \/ \E e \in 1 .. Len(code) : Closed(code, Trail, dropped, i, e)
    /\ code[i].op = "end" => \E o \in 1 .. i - 1 : Closes(code, o, i)
    /\ code[i].op = "else" =>
         \E o \in 1 .. i - 1 : code[o].op = "if" /\ Around(code, o, i) /\ Level(code, o, i) = 1

\* A symbol that is not yet minted occurs nowhere.
BlindInv ==
  \A m \in minted + 1 .. MaxSymbols, i \in 1 .. Len(Trail) :
    Blind(Trail[i], m) /\ BlindTerm(Trail[i].walk.result, m)

Static == StartInv /\ FactsKept(code, Trail) /\ StepInv /\ BlockInv /\ BlindInv

(***************************************************************************)
(* The open statements.                                                    *)
(***************************************************************************)
FrameOK(k) ==
  LET f == frames[k]
  IN /\ f.at \in 1 .. Len(code)
     /\ code[f.at].op = (IF f.kind = "else" THEN "if" ELSE f.kind)
     /\ Around(code, f.at, Len(code) + 1)
     /\ Level(code, f.at, Len(code)) = Len(frames) - k + 1
     /\ f.outer = Trail[f.at].walk
     /\ f.kind # "call" => f.cond = CondAt(code, Trail, f.at)
     /\ f.kind = "if" => ElsesOf(code, f.at, Len(code)) = {}
     /\ f.kind = "else" => \E a \in f.at + 1 .. Len(code) :
                             /\ ElsesOf(code, f.at, Len(code)) = {a}
                             /\ f.then = Trail[a].walk
                             /\ Trail[a + 1].walk = OtherArm(code, Trail, f.at)
     /\ f.outer.dead => \A i \in f.at + 1 .. Len(Trail) : Trail[i].walk.dead

\* The walk of the list that frame k is in the middle of.
ListWalk(k) == IF k = Len(frames) THEN walk ELSE frames[k + 1].outer

\* The return at i ended its list, which frame k opened, and the end of the
\* call will still see that, unless the return is dropped before.
Waits(i, k, m) ==
  \/ frames[k].kind = "while"
  \/ frames[k].kind = "if" /\ ListWalk(k).dead
  \/ frames[k].kind = "else" /\ (frames[k].then.dead \/ ListWalk(k).dead)
  \/ /\ frames[k].kind = "call" /\ ListWalk(k).dead
     /\ \/ ListWalk(k).result = Symbol(m)
        \/ i = Len(code) /\ k = Len(frames) /\ walk.result = Trail[i].walk.x

\* In the call that frame k opened, m is the symbol of its result.
CallWaits(k, m) ==
  /\ walk.result = Symbol(m) \/ (walk.dead /\ Jumped)
  /\ \A j \in k + 1 .. Len(frames) :
       /\ frames[j].outer.result = Symbol(m)
       /\ ~frames[j].then.dead => frames[j].then.result = Symbol(m)
  /\ \A i \in 1 .. Len(code), j \in k .. Len(frames) :
       /\ Pending(code, Trail, dropped, i)
       /\ frames[j].at < i /\ (j < Len(frames) => i < frames[j + 1].at)
       => Waits(i, j, m)

OpenCall(k) ==
  \E m \in 1 .. minted :
    /\ \A i \in 1 .. Len(Trail) : Blind(Trail[i], m)
    /\ ~frames[k].outer.dead => CallWaits(k, m)

FramesInv ==
  /\ \A k \in 1 .. Len(frames) : FrameOK(k) /\ (frames[k].kind = "call" => OpenCall(k))
  /\ \A j, k \in 1 .. Len(frames) :
       /\ j < k => frames[j].at < frames[k].at
       /\ frames[j].kind = "call" /\ frames[k].kind = "call" => j = k
       /\ frames[j].kind = "call" /\ frames[k].kind = "while" /\ j < k => frames[k].at \in dropped

(***************************************************************************)
(* The run.                                                                *)
(***************************************************************************)
\* The world w fits the block that k opens, inside of which the run is at i
\* with v for the value of x.
FitsBlock(w, k, i, v) ==
  LET wk == Trail[k].walk
  IN /\ ~wk.dead /\ w \in wk.path \cap wk.prem
     /\ code[k].op = "while" =>
          /\ code[k].inv # NoInvariant
          /\ ~Assigns(code, k, EndOf(code, k) - 1) => wk.x[w] = v
     /\ code[k].op = "if" => (w \in CondAt(code, Trail, k) <=> i <= ElseArm(code, k))

Fits(w, i, v) ==
  LET wk == Trail[i].walk
  IN /\ w[0] = input /\ ~wk.dead
     /\ w \in wk.path \cap wk.prem \cap Trail[i].facts
     /\ wk.x[w] = v
     /\ \A k \in 1 .. i - 1 : Around(code, k, i) => FitsBlock(w, k, i, v)

RunInv ==
  /\ pos # 0 /\ ~gap =>
       /\ accepted /\ frames = <<>> /\ x \in Values /\ pos \in 1 .. Len(code) + 1
       /\ outcome = "running" => \E w \in Worlds : Fits(w, pos, x)
  /\ OnlyUncoveredRunsFail

IInv == TypeInv /\ Static /\ FramesInv /\ RunInv

(***************************************************************************)
(* Terms, formulas and walks.                                              *)
(***************************************************************************)
LEMMA SymbolType ==
  ASSUME NEW n \in 0 .. MaxSymbols
  PROVE  Symbol(n) \in Terms /\ \A w \in Worlds : w[n] \in Values
BY WpAssumption DEF Symbol, Terms, Worlds

LEMMA WhereType ==
  ASSUME NEW c, NEW t
  PROVE  Where(c, t) \in SUBSET Worlds
BY DEF Where

LEMMA EvalType ==
  ASSUME NEW e, NEW t \in Terms
  PROVE  [w \in Worlds |-> Eval(e, t[w])] \in Terms
BY DEF Terms, Eval

LEMMA IteType ==
  ASSUME NEW F, NEW t \in Terms, NEW e \in Terms
  PROVE  /\ Ite(F, t, e) \in Terms
         /\ \A w \in Worlds : Ite(F, t, e)[w] = IF w \in F THEN t[w] ELSE e[w]
         /\ Ite(F, t, t) = t
<1>1. Ite(F, t, e) \in Terms /\ \A w \in Worlds : Ite(F, t, e)[w] = IF w \in F THEN t[w] ELSE e[w]
  BY DEF Ite, Terms
<1>2. Ite(F, t, t) = t  BY DEF Ite, Terms
<1> QED  BY <1>1, <1>2

LEMMA MergeType ==
  ASSUME NEW outer \in Walks, NEW F, NEW t \in Walks, NEW e \in Walks
  PROVE  /\ Merge(outer, F, t, e) \in Walks
         /\ Merge(outer, F, t, e).path = outer.path
         /\ Merge(outer, F, t, e).prem = outer.prem
         /\ t.dead /\ e.dead => Merge(outer, F, t, e) = [outer EXCEPT !.dead = TRUE]
         /\ ~(t.dead /\ e.dead) => Merge(outer, F, t, e).dead = outer.dead
         /\ t.dead /\ ~e.dead => /\ Merge(outer, F, t, e).x = e.x
                                 /\ Merge(outer, F, t, e).result = e.result
         /\ ~t.dead /\ e.dead => /\ Merge(outer, F, t, e).x = t.x
                                 /\ Merge(outer, F, t, e).result = t.result
         /\ ~t.dead /\ ~e.dead => /\ Merge(outer, F, t, e).x = Ite(F, t.x, e.x)
                                  /\ Merge(outer, F, t, e).result = Ite(F, t.result, e.result)
<1>1. t.x \in Terms /\ e.x \in Terms /\ t.result \in Terms /\ e.result \in Terms
      /\ t.dead \in BOOLEAN /\ e.dead \in BOOLEAN
  BY DEF Walks
<1>2. Ite(F, t.x, e.x) \in Terms /\ Ite(F, t.result, e.result) \in Terms  BY <1>1, IteType
<1>3. CASE t.dead /\ e.dead  BY <1>1, <1>2, <1>3 DEF Merge, Walks
<1>4. CASE t.dead /\ ~e.dead  BY <1>1, <1>2, <1>4 DEF Merge, Walks
<1>5. CASE ~t.dead /\ e.dead  BY <1>1, <1>2, <1>5 DEF Merge, Walks
<1>6. CASE ~t.dead /\ ~e.dead  BY <1>1, <1>2, <1>6 DEF Merge, Walks
<1> QED  BY <1>3, <1>4, <1>5, <1>6

LEMMA MergeDead ==
  ASSUME NEW outer \in Walks, NEW F, NEW t \in Walks, NEW e \in Walks,
         outer.dead \/ (t.dead /\ e.dead)
  PROVE  Merge(outer, F, t, e).dead
<1>1. CASE t.dead /\ e.dead
  <2>1. Merge(outer, F, t, e) = [outer EXCEPT !.dead = TRUE]  BY <1>1, MergeType
  <2> QED  BY <2>1 DEF Walks
<1>2. CASE ~(t.dead /\ e.dead)  BY <1>2, MergeType
<1> QED  BY <1>1, <1>2

LEMMA LoopExitType ==
  ASSUME NEW outer \in Walks, NEW loop, NEW v \in Terms
  PROVE  /\ LoopExit(outer, loop, v) \in Walks
         /\ LoopExit(outer, loop, v).x = v
         /\ LoopExit(outer, loop, v).path = (outer.path \ Where(loop.c, v)) \cap Where(loop.inv, v)
         /\ LoopExit(outer, loop, v).prem = outer.prem
         /\ LoopExit(outer, loop, v).result = outer.result
         /\ LoopExit(outer, loop, v).dead = outer.dead
BY DEF LoopExit, Walks

LEMMA ElsePathType ==
  ASSUME NEW f, f.outer \in Walks
  PROVE  ElsePath(f) \in Walks /\ ElsePath(f) = [f.outer EXCEPT !.path = f.outer.path \ f.cond]
BY DEF ElsePath, Walks

LEMMA PutType ==
  ASSUME NEW w \in Worlds, NEW m \in 1 .. MaxSymbols, NEW v \in Values
  PROVE  Put(w, m, v) \in Worlds /\ Put(w, m, v)[m] = v /\ Put(w, m, v)[0] = w[0]
<1>1. m \in 0 .. MaxSymbols /\ 0 \in 0 .. MaxSymbols /\ m # 0  BY WpAssumption
<1> QED  BY <1>1 DEF Put, Worlds

(***************************************************************************)
(* Blindness.                                                              *)
(***************************************************************************)
LEMMA BlindSymbol ==
  ASSUME NEW n \in 0 .. MaxSymbols, NEW m \in 1 .. MaxSymbols, n # m
  PROVE  BlindTerm(Symbol(n), m)
<1> SUFFICES ASSUME NEW w \in Worlds, NEW v \in Values
             PROVE  Symbol(n)[Put(w, m, v)] = Symbol(n)[w]
  BY DEF BlindTerm
<1>1. Put(w, m, v) \in Worlds  BY PutType
<1>2. Put(w, m, v)[n] = w[n]  BY DEF Put, Worlds
<1> QED  BY <1>1, <1>2 DEF Symbol

LEMMA BlindWhere ==
  ASSUME NEW c, NEW t \in Terms, NEW m \in 1 .. MaxSymbols, BlindTerm(t, m)
  PROVE  BlindSet(Where(c, t), m)
<1> SUFFICES ASSUME NEW w \in Worlds, NEW v \in Values
             PROVE  Put(w, m, v) \in Where(c, t) <=> w \in Where(c, t)
  BY DEF BlindSet
<1>1. Put(w, m, v) \in Worlds  BY PutType
<1>2. t[Put(w, m, v)] = t[w]  BY DEF BlindTerm
<1> QED  BY <1>1, <1>2 DEF Where

LEMMA BlindEval ==
  ASSUME NEW e, NEW t \in Terms, NEW m \in 1 .. MaxSymbols, BlindTerm(t, m)
  PROVE  BlindTerm([w \in Worlds |-> Eval(e, t[w])], m)
<1> SUFFICES ASSUME NEW w \in Worlds, NEW v \in Values
             PROVE  [u \in Worlds |-> Eval(e, t[u])][Put(w, m, v)] = [u \in Worlds |-> Eval(e, t[u])][w]
  BY DEF BlindTerm
<1>1. Put(w, m, v) \in Worlds  BY PutType
<1>2. t[Put(w, m, v)] = t[w]  BY DEF BlindTerm
<1> QED  BY <1>1, <1>2

LEMMA BlindIte ==
  ASSUME NEW F, NEW t \in Terms, NEW e \in Terms, NEW m \in 1 .. MaxSymbols,
         BlindSet(F, m), BlindTerm(t, m), BlindTerm(e, m)
  PROVE  BlindTerm(Ite(F, t, e), m)
<1> SUFFICES ASSUME NEW w \in Worlds, NEW v \in Values
             PROVE  Ite(F, t, e)[Put(w, m, v)] = Ite(F, t, e)[w]
  BY DEF BlindTerm
<1>1. Put(w, m, v) \in Worlds  BY PutType
<1>2. t[Put(w, m, v)] = t[w] /\ e[Put(w, m, v)] = e[w]  BY DEF BlindTerm
<1>3. Put(w, m, v) \in F <=> w \in F  BY DEF BlindSet
<1>4. Ite(F, t, e)[Put(w, m, v)] = IF Put(w, m, v) \in F THEN t[Put(w, m, v)] ELSE e[Put(w, m, v)]
  BY <1>1 DEF Ite
<1>5. Ite(F, t, e)[w] = IF w \in F THEN t[w] ELSE e[w]  BY DEF Ite
<1> QED  BY <1>2, <1>3, <1>4, <1>5

LEMMA BlindSets ==
  ASSUME NEW m \in 1 .. MaxSymbols
  PROVE  /\ BlindSet(Worlds, m) /\ BlindSet({}, m)
         /\ \A F, G : BlindSet(F, m) /\ BlindSet(G, m) =>
                      BlindSet(F \cap G, m) /\ BlindSet(F \ G, m)
<1>1. BlindSet(Worlds, m)  BY PutType DEF BlindSet
<1>2. BlindSet({}, m)  BY DEF BlindSet
<1>3. \A F, G : BlindSet(F, m) /\ BlindSet(G, m) => BlindSet(F \cap G, m) /\ BlindSet(F \ G, m)
  BY DEF BlindSet
<1> QED  BY <1>1, <1>2, <1>3

LEMMA BlindMerge ==
  ASSUME NEW outer \in Walks, NEW F, NEW t \in Walks, NEW e \in Walks, NEW m \in 1 .. MaxSymbols,
         BlindSet(F, m), BlindWalk(outer, m), BlindWalk(t, m), BlindWalk(e, m)
  PROVE  /\ BlindWalk(Merge(outer, F, t, e), m)
         /\ BlindTerm(outer.result, m) /\ BlindTerm(t.result, m) /\ BlindTerm(e.result, m) =>
              BlindTerm(Merge(outer, F, t, e).result, m)
<1>1. t.x \in Terms /\ e.x \in Terms /\ t.result \in Terms /\ e.result \in Terms
      /\ t.dead \in BOOLEAN /\ e.dead \in BOOLEAN
  BY DEF Walks
<1>2. BlindTerm(Ite(F, t.x, e.x), m)  BY <1>1, BlindIte DEF BlindWalk
<1>3. BlindTerm(t.result, m) /\ BlindTerm(e.result, m) => BlindTerm(Ite(F, t.result, e.result), m)
  BY <1>1, BlindIte
<1>4. /\ [outer EXCEPT !.dead = TRUE].x = outer.x
      /\ [outer EXCEPT !.dead = TRUE].result = outer.result
  BY DEF Walks
<1>5. CASE t.dead /\ e.dead
  <2>1. Merge(outer, F, t, e) = [outer EXCEPT !.dead = TRUE]  BY <1>5, MergeType
  <2>2. Merge(outer, F, t, e).path = outer.path /\ Merge(outer, F, t, e).prem = outer.prem
    BY MergeType
  <2>3. /\ Merge(outer, F, t, e).x = outer.x
        /\ Merge(outer, F, t, e).result = outer.result
    BY <2>1, <1>4
  <2> QED  BY <2>2, <2>3 DEF BlindWalk
<1>6. CASE t.dead /\ ~e.dead  BY <1>6, MergeType DEF BlindWalk
<1>7. CASE ~t.dead /\ e.dead  BY <1>7, MergeType DEF BlindWalk
<1>8. CASE ~t.dead /\ ~e.dead  BY <1>8, <1>2, <1>3, MergeType DEF BlindWalk
<1> QED  BY <1>5, <1>6, <1>7, <1>8

LEMMA BlindLoopExit ==
  ASSUME NEW outer \in Walks, NEW loop, NEW v \in Terms, NEW m \in 1 .. MaxSymbols,
         BlindWalk(outer, m), BlindTerm(v, m)
  PROVE  BlindWalk(LoopExit(outer, loop, v), m)
<1>1. BlindSet(Where(loop.c, v), m) /\ BlindSet(Where(loop.inv, v), m)  BY BlindWhere
<1>2. BlindSet(outer.path \ Where(loop.c, v), m)  BY <1>1, BlindSets DEF BlindWalk
<1>3. BlindSet((outer.path \ Where(loop.c, v)) \cap Where(loop.inv, v), m)  BY <1>1, <1>2, BlindSets
<1>4. /\ LoopExit(outer, loop, v).x = v
      /\ LoopExit(outer, loop, v).path = (outer.path \ Where(loop.c, v)) \cap Where(loop.inv, v)
      /\ LoopExit(outer, loop, v).prem = outer.prem
  BY LoopExitType
<1> QED  BY <1>3, <1>4 DEF BlindWalk

(***************************************************************************)
(* What was said of the body stays true when an instruction is appended.   *)
(***************************************************************************)
LEMMA StepSame ==
  ASSUME NEW c, NEW s, NEW b, NEW r, NEW i,
         b[i] = c[i], r[i] = s[i], r[i + 1] = s[i + 1], Step(c, s, i)
  PROVE  Step(b, r, i)
<1>1. CondAt(b, r, i) = CondAt(c, s, i)  BY DEF CondAt
<1> QED  BY <1>1 DEF Step

LEMMA AppendAt ==
  ASSUME NEW S, NEW c \in Seq(S), NEW a \in S
  PROVE  /\ Append(c, a) \in Seq(S) /\ Len(Append(c, a)) = Len(c) + 1
         /\ \A i \in 1 .. Len(c) : Append(c, a)[i] = c[i]
         /\ Append(c, a)[Len(c) + 1] = a
OBVIOUS

LEMMA AskedAppend ==
  ASSUME NEW c \in Seq(Instrs), NEW s \in Seq(Points), Len(s) = Len(c) + 1,
         NEW op \in Instrs, NEW pt \in Points, NEW i \in 1 .. Len(c), Asked(c, s, i)
  PROVE  Asked(Append(c, op), Append(s, pt), i)
<1> DEFINE b == Append(c, op)
           r == Append(s, pt)
<1>1. b[i] = c[i] /\ r[i] = s[i]  OBVIOUS
<1>2. CondAt(b, r, i) = CondAt(c, s, i)  BY <1>1 DEF CondAt
<1>3. \A k \in 1 .. i - 1 : b[k] = c[k]  OBVIOUS
<1>4. \A k : Around(b, k, i) <=> Around(c, k, i)
  <2> i \in 1 .. Len(c) + 1  OBVIOUS
  <2> QED  BY AroundAppend, Zenon
<1>5. \A k : Closes(b, k, i) <=> Closes(c, k, i)  BY ClosesAppend, Zenon
<1> HIDE DEF b, r
<1>6. (\A k \in 1 .. i - 1 : b[k].op = "call" => ~Around(b, k, i))
        => (\A k \in 1 .. i - 1 : c[k].op = "call" => ~Around(c, k, i))
  BY <1>3, <1>4
<1>7. \A o \in 1 .. i - 1 : Closes(b, o, i) /\ b[o].op = "while" /\ b[o].inv # NoInvariant =>
         Closes(c, o, i) /\ c[o].op = "while" /\ c[o].inv # NoInvariant /\ b[o] = c[o]
  BY <1>3, <1>5
<1> SUFFICES ASSUME ~r[i].walk.dead
             PROVE  LET wk == r[i].walk
                        here == wk.prem \cap wk.path \cap r[i].facts
                    IN /\ b[i].op = "assert" => here \subseteq CondAt(b, r, i)
                       /\ b[i].op = "while" => here \cap CondAt(b, r, i) \subseteq Where(b[i].inv, wk.x)
                       /\ b[i].op = "return" /\ (\A k \in 1 .. i - 1 : b[k].op = "call" => ~Around(b, k, i)) =>
                            here \subseteq Where(Ensures, wk.x)
                       /\ \A o \in 1 .. i - 1 : Closes(b, o, i) /\ b[o].op = "while" /\ b[o].inv # NoInvariant =>
                            wk.prem \cap r[i].facts \subseteq Where(b[o].inv, wk.x)
  BY DEF Asked, b, r
<1>8. ~s[i].walk.dead  BY <1>1
<1>9. \A o \in 1 .. i - 1 : Closes(c, o, i) /\ c[o].op = "while" /\ c[o].inv # NoInvariant =>
         s[i].walk.prem \cap s[i].facts \subseteq Where(c[o].inv, s[i].walk.x)
  BY <1>8 DEF Asked
<1>10. \A o \in 1 .. i - 1 : Closes(b, o, i) /\ b[o].op = "while" /\ b[o].inv # NoInvariant =>
         r[i].walk.prem \cap r[i].facts \subseteq Where(b[o].inv, r[i].walk.x)
  BY <1>1, <1>7, <1>9
<1>11. LET wk == s[i].walk
           here == wk.prem \cap wk.path \cap s[i].facts
       IN /\ c[i].op = "assert" => here \subseteq CondAt(c, s, i)
          /\ c[i].op = "while" => here \cap CondAt(c, s, i) \subseteq Where(c[i].inv, wk.x)
          /\ c[i].op = "return" /\ (\A k \in 1 .. i - 1 : c[k].op = "call" => ~Around(c, k, i)) =>
               here \subseteq Where(Ensures, wk.x)
  BY <1>8 DEF Asked
<1> QED  BY <1>1, <1>2, <1>6, <1>10, <1>11

LEMMA LapsedAppend ==
  ASSUME NEW c \in Seq(Instrs), NEW op \in Instrs, NEW i \in 1 .. Len(c) + 1,
         NEW d, NEW d2, d \subseteq d2, Lapsed(c, d, i)
  PROVE  Lapsed(Append(c, op), d2, i)
<1>1. PICK k \in d : c[k].op \in {"if", "while"} /\ Around(c, k, i)  BY DEF Lapsed
<1>2. k \in 1 .. Len(c)  BY <1>1 DEF Around
<1>3. Append(c, op)[k] = c[k]  BY <1>2
<1>4. Around(Append(c, op), k, i)  BY <1>1, AroundAppend, Zenon
<1> QED  BY <1>1, <1>3, <1>4 DEF Lapsed

LEMMA ClosedAppend ==
  ASSUME NEW c \in Seq(Instrs), NEW s \in Seq(Points), Len(s) = Len(c) + 1,
         NEW op \in Instrs, NEW pt \in Points, NEW d, NEW d2, d \subseteq d2,
         NEW o, NEW e \in 1 .. Len(c), Closed(c, s, d, o, e)
  PROVE  Closed(Append(c, op), Append(s, pt), d2, o, e)
<1> DEFINE b == Append(c, op)
           r == Append(s, pt)
<1>1. Closes(b, o, e)  BY ClosesAppend, Zenon DEF Closed
<1>2. o \in 1 .. e - 1  BY DEF Closed, Closes, Around
<1>3. \A k \in 1 .. Len(c) : b[k] = c[k] /\ r[k] = s[k] /\ r[k + 1] = s[k + 1]  OBVIOUS
<1>4. ElsesOf(b, o, e) = ElsesOf(c, o, e)  BY <1>2, ElsesAppend
<1>5. \A i \in 1 .. Len(c) : Lapsed(c, d, i) => Lapsed(b, d2, i)
  <2> TAKE i \in 1 .. Len(c)
  <2> i \in 1 .. Len(c) + 1  OBVIOUS
  <2> QED  BY LapsedAppend, Zenon
<1> HIDE DEF b, r
<1>6. o \in 1 .. Len(c) /\ \A i \in o .. e : i \in 1 .. Len(c)  BY <1>2
<1>7. b[o] = c[o] /\ r[o] = s[o] /\ r[e] = s[e] /\ r[e + 1] = s[e + 1]  BY <1>3, <1>6
<1>8. CondAt(b, r, o) = CondAt(c, s, o) /\ OtherArm(b, r, o) = OtherArm(c, s, o)
  BY <1>7 DEF CondAt, OtherArm
<1>9. ClosedIf(c, s, o, e) => ClosedIf(b, r, o, e)
  <2>1. \A a \in o + 1 .. e - 1 : r[a] = s[a] /\ r[a + 1] = s[a + 1]
    <3>1. \A a \in o + 1 .. e - 1 : a \in 1 .. Len(c)  BY <1>2
    <3> QED  BY <3>1, <1>3
  <2> QED  BY <2>1, <1>4, <1>7, <1>8 DEF ClosedIf
<1>10. \A i \in 1 .. e : r[i] = s[i]  BY <1>3
<1>11. ClosedWhile(c, s, o, e) => ClosedWhile(b, r, o, e)
  <2>1. Assigns(b, o, e - 1) => Assigns(c, o, e - 1)
    <3>1. \A k \in o .. e - 1 : b[k] = c[k]  BY <1>3, <1>6
    <3> QED  BY <3>1 DEF Assigns
  <2> QED  BY <2>1, <1>7, <1>10 DEF ClosedWhile
<1>12. ClosedCall(c, s, d, o, e) => ClosedCall(b, r, d2, o, e)
  <2>1. \A i \in o + 1 .. e - 1 : b[i] = c[i] /\ r[i] = s[i] /\ (Lapsed(c, d, i) => Lapsed(b, d2, i))
    BY <1>3, <1>2, <1>5
  <2> QED  BY <2>1, <1>7, <1>10 DEF ClosedCall, Pending
<1>13. /\ c[o].op = "if" => ClosedIf(c, s, o, e)
       /\ c[o].op = "while" => ClosedWhile(c, s, o, e)
       /\ c[o].op = "call" => ClosedCall(c, s, d, o, e)
  BY DEF Closed
<1>14. Closed(b, r, d2, o, e)  BY <1>1, <1>7, <1>9, <1>11, <1>12, <1>13 DEF Closed
<1> QED  BY <1>14 DEF b, r

LEMMA FactsKeptAppend ==
  ASSUME NEW c \in Seq(Instrs), NEW s \in Seq(Points), Len(s) = Len(c) + 1,
         NEW op \in Instrs, NEW pt \in Points, FactsKept(c, s),
         op.op # "assume" => pt.facts = s[Len(s)].facts
  PROVE  FactsKept(Append(c, op), Append(s, pt))
<1> DEFINE b == Append(c, op)
           r == Append(s, pt)
<1>1. \A k \in 1 .. Len(c) : b[k] = c[k]  OBVIOUS
<1>2. b[Len(c) + 1] = op  OBVIOUS
<1>3. \A k \in 1 .. Len(c) + 1 : r[k] = s[k]  OBVIOUS
<1>4. r[Len(c) + 2] = pt /\ Len(r) = Len(c) + 2 /\ Len(c) \in Nat  OBVIOUS
<1> SUFFICES FactsKept(b, r)  OBVIOUS
<1> HIDE DEF b, r
<1>5. SUFFICES ASSUME NEW i \in 1 .. Len(c) + 2, NEW j \in 1 .. Len(c) + 2, i <= j,
                      \A k \in i .. j - 1 : b[k].op # "assume"
               PROVE  r[j].facts = r[i].facts
  BY <1>4 DEF FactsKept
<1>6. CASE j <= Len(c) + 1
  <2>1. \A k \in i .. j - 1 : c[k].op # "assume"
    <3> SUFFICES ASSUME NEW k \in i .. j - 1  PROVE  c[k].op # "assume"  OBVIOUS
    <3>1. k \in 1 .. Len(c)  BY <1>6
    <3> QED  BY <3>1, <1>1, <1>5
  <2>2. i \in 1 .. Len(s) /\ j \in 1 .. Len(s)  BY <1>5, <1>6
  <2>3. s[j].facts = s[i].facts  BY <2>1, <2>2, <1>5 DEF FactsKept
  <2>4. r[i] = s[i] /\ r[j] = s[j]  BY <1>3, <2>2
  <2> QED  BY <2>3, <2>4
<1>7. CASE j = Len(c) + 2 /\ i <= Len(c) + 1
  <2>1. \A k \in i .. Len(c) : c[k].op # "assume"  BY <1>5, <1>1, <1>7
  <2>2. s[Len(c) + 1].facts = s[i].facts  BY <2>1, <1>7 DEF FactsKept
  <2>3. Len(c) + 1 \in i .. j - 1  BY <1>7
  <2>4. op.op # "assume"  BY <2>3, <1>5, <1>2
  <2> QED  BY <2>2, <2>4, <1>3, <1>4, <1>7
<1> QED  BY <1>6, <1>7, <1>4

(***************************************************************************)
(* Types.                                                                  *)
(***************************************************************************)
LEMMA TrailType ==
  ASSUME TypeInv
  PROVE  /\ Trail \in Seq(Points) /\ Len(Trail) = Len(code) + 1
         /\ Trail[Len(code) + 1] = [walk |-> walk, facts |-> facts]
         /\ \A i \in 1 .. Len(code) : Trail[i] = before[i]
<1>1. [walk |-> walk, facts |-> facts] \in Points  BY DEF TypeInv, Points
<1>2. before \in Seq(Points) /\ Len(before) = Len(code)  BY DEF TypeInv
<1> QED  BY <1>1, <1>2, AppendAt DEF Trail

LEMMA WriteTrail ==
  ASSUME TypeInv, before' = Append(before, [walk |-> walk, facts |-> facts])
  PROVE  Trail' = Append(Trail, [walk |-> walk', facts |-> facts'])
BY DEF Trail

LEMMA InstrTypes ==
  /\ \A e \in Exprs : Instr("assign", Ensures, NoInvariant, e) \in Instrs
  /\ \A op \in OpNames : Plain(op) \in Instrs /\ Plain(op).op = op
  /\ \A op \in OpNames, c \in Cond : Conditional(op, c) \in Instrs
  /\ \A c \in Cond, inv \in Invariants : Instr("while", c, inv, "zero") \in Instrs
  /\ Claims \subseteq Cond /\ Guards \subseteq Cond /\ Ensures \in Cond
BY WpAssumption DEF Instr, Instrs, Plain, Conditional, OpNames

LEMMA FrameType ==
  ASSUME TypeInv, NEW kind \in FrameKinds, NEW F \in SUBSET Worlds
  PROVE  Frame(kind, F) \in OpenBlocks
BY DEF TypeInv, Frame, OpenBlocks

LEMMA TopType ==
  ASSUME TypeInv, frames # <<>>
  PROVE  /\ Len(frames) \in 1 .. Len(frames) /\ Top \in OpenBlocks
         /\ Pop \in Seq(OpenBlocks) /\ Len(Pop) = Len(frames) - 1
         /\ \A k \in 1 .. Len(frames) - 1 : Pop[k] = frames[k]
<1>1. frames \in Seq(OpenBlocks)  BY DEF TypeInv
<1>2. Len(frames) \in 1 .. Len(frames)  BY <1>1
<1>3. Top \in OpenBlocks  BY <1>1, <1>2 DEF Top
<1>4. /\ Pop \in Seq(OpenBlocks) /\ Len(Pop) = Len(frames) - 1
      /\ \A k \in 1 .. Len(frames) - 1 : Pop[k] = frames[k]
  <2>1. PICK n \in Nat : Len(frames) = n + 1  BY <1>1, <1>2
  <2>2. SubSeq(frames, 1, n) = [k \in 1 .. n |-> frames[k]]  BY <1>1, <2>1
  <2>3. SubSeq(frames, 1, n) \in Seq(OpenBlocks)  BY <1>1, <2>1, <2>2
  <2>4. Len(SubSeq(frames, 1, n)) = n  BY <2>1, <2>2
  <2>5. Pop = SubSeq(frames, 1, n)  BY <2>1 DEF Pop
  <2> QED  BY <2>1, <2>2, <2>3, <2>4, <2>5
<1> QED  BY <1>2, <1>3, <1>4

LEMMA InitTypes ==
  ASSUME Init
  PROVE  TypeInv
<1>1. Symbol(0) \in Terms
  <2> 0 \in 0 .. MaxSymbols  BY WpAssumption
  <2> QED  BY SymbolType
<1>2. walk \in Walks  BY <1>1 DEF Init, Walks
<1> QED  BY <1>2, WpAssumption DEF Init, TypeInv

\* Each action of the walker that writes an instruction.
LEMMA WriteTypes ==
  ASSUME TypeInv, NEW i \in Instrs, Write(i)
  PROVE  /\ code' \in Seq(Instrs) /\ before' \in Seq(Points) /\ Len(before') = Len(code')
         /\ code' = Append(code, i) /\ Len(code') = Len(code) + 1 /\ pos = 0 /\ pos' = 0 /\ accepted
         /\ before' = Append(before, [walk |-> walk, facts |-> facts])
<1>1. [walk |-> walk, facts |-> facts] \in Points  BY DEF TypeInv, Points
<1> QED  BY <1>1, AppendAt DEF Write, TypeInv, runVars

LEMMA WalkToType ==
  ASSUME TypeInv, NEW new \in Walks, WalkTo(new)
  PROVE  walk' \in Walks /\ walk' = Walked(walk, new)
BY DEF WalkTo, Walked, TypeInv

LEMMA AssignTypes ==
  ASSUME TypeInv, NEW e \in Exprs, Assign(e)
  PROVE  TypeInv'
<1> DEFINE t == [w \in Worlds |-> Eval(e, walk.x[w])]
<1>1. t \in Terms  BY EvalType DEF TypeInv, Walks
<1>2. [walk EXCEPT !.x = t] \in Walks  BY <1>1 DEF TypeInv, Walks
<1>3. walk' \in Walks  BY <1>2, WalkToType DEF Assign
<1>4. Write(Instr("assign", Ensures, NoInvariant, e))  BY DEF Assign
<1> QED  BY <1>3, <1>4, InstrTypes, WriteTypes DEF Assign, TypeInv

LEMMA AssertTypes ==
  ASSUME TypeInv, NEW c \in Claims, Assert(c)
  PROVE  TypeInv'
<1>1. Conditional("assert", c) \in Instrs  BY InstrTypes DEF OpNames
<1>2. accepted' \in BOOLEAN  BY DEF Assert, Discharge, TypeInv, Walks
<1> QED  BY <1>1, <1>2, WriteTypes DEF Assert, TypeInv

LEMMA AssumeTypes ==
  ASSUME TypeInv, NEW c \in Claims, Assume(c)
  PROVE  TypeInv'
<1>1. Conditional("assume", c) \in Instrs  BY InstrTypes DEF OpNames
<1>2. facts' \in SUBSET Worlds  BY DEF Assume, TypeInv
<1> QED  BY <1>1, <1>2, WriteTypes DEF Assume, TypeInv

LEMMA IfTypes ==
  ASSUME TypeInv, NEW c \in Guards, If(c)
  PROVE  TypeInv'
<1>1. Conditional("if", c) \in Instrs  BY InstrTypes DEF OpNames
<1>2. [walk EXCEPT !.path = @ \cap Where(c, walk.x)] \in Walks  BY DEF TypeInv, Walks
<1>3. walk' \in Walks  BY <1>2, WalkToType DEF If
<1>4. Frame("if", Where(c, walk.x)) \in OpenBlocks  BY FrameType, WhereType DEF FrameKinds
<1>5. frames' \in Seq(OpenBlocks)  BY <1>4, AppendAt DEF If, TypeInv
<1> QED  BY <1>1, <1>3, <1>5, WriteTypes DEF If, TypeInv

LEMMA ElseTypes ==
  ASSUME TypeInv, Else
  PROVE  TypeInv'
<1>1. Plain("else") \in Instrs  BY InstrTypes DEF OpNames
<1>2. Top \in OpenBlocks /\ Pop \in Seq(OpenBlocks)  BY TopType DEF Else
<1>3. walk' \in Walks  BY <1>2, ElsePathType DEF Else, OpenBlocks
<1>4. [Top EXCEPT !.kind = "else", !.then = walk] \in OpenBlocks
  BY <1>2 DEF OpenBlocks, FrameKinds, TypeInv
<1>5. frames' \in Seq(OpenBlocks)  BY <1>2, <1>4, AppendAt DEF Else
<1> QED  BY <1>1, <1>3, <1>5, WriteTypes DEF Else, TypeInv

LEMMA EndIfTypes ==
  ASSUME TypeInv, EndIf
  PROVE  TypeInv'
<1> DEFINE then == IF Top.kind = "if" THEN walk ELSE Top.then
           else == IF Top.kind = "if" THEN ElsePath(Top) ELSE walk
<1>1. Plain("end") \in Instrs  BY InstrTypes DEF OpNames
<1>2. Top \in OpenBlocks /\ Pop \in Seq(OpenBlocks)  BY TopType DEF EndIf
<1>3. then \in Walks /\ else \in Walks /\ Top.outer \in Walks
  BY <1>2, ElsePathType DEF OpenBlocks, TypeInv
<1>4. walk' = Merge(Top.outer, Top.cond, then, else)  BY DEF EndIf
<1>5. walk' \in Walks
  <2> HIDE DEF then, else
  <2> QED  BY <1>3, <1>4, MergeType
<1> QED  BY <1>1, <1>2, <1>5, WriteTypes DEF EndIf, TypeInv

LEMMA WhileTypes ==
  ASSUME TypeInv, NEW c \in Guards, NEW inv \in Invariants, While(c, inv)
  PROVE  TypeInv'
<1> DEFINE guard == Where(c, walk.x)
           new == IF inv = NoInvariant THEN [walk EXCEPT !.path = {}]
                  ELSE [walk EXCEPT !.path = @ \cap guard,
                                    !.prem = @ \cap walk.path \cap guard \cap Where(inv, walk.x)]
<1>1. Instr("while", c, inv, "zero") \in Instrs  BY InstrTypes
<1>2. new \in Walks  BY DEF TypeInv, Walks
<1>3. walk' \in Walks
  <2>1. WalkTo(new)  BY DEF While
  <2> HIDE DEF new
  <2> QED  BY <1>2, <2>1, WalkToType
<1>4. Frame("while", guard) \in OpenBlocks  BY FrameType, WhereType DEF FrameKinds
<1>5. frames' \in Seq(OpenBlocks)  BY <1>4, AppendAt DEF While, TypeInv
<1>6. accepted' \in BOOLEAN  BY DEF While, Discharge, TypeInv, Walks
<1>7. Write(Instr("while", c, inv, "zero"))  BY DEF While
<1> QED  BY <1>1, <1>3, <1>5, <1>6, <1>7, WriteTypes DEF While, TypeInv

LEMMA EndWhileTypes ==
  ASSUME TypeInv, EndWhile
  PROVE  TypeInv'
<1>1. Plain("end") \in Instrs  BY InstrTypes DEF OpNames
<1>2. Top \in OpenBlocks /\ Pop \in Seq(OpenBlocks)  BY TopType DEF EndWhile
<1>3. Top.outer \in Walks  BY <1>2 DEF OpenBlocks
<1>4. CASE walk' = [Top.outer EXCEPT !.dead = TRUE] /\ UNCHANGED <<accepted, minted>>
  <2>1. walk' \in Walks  BY <1>3, <1>4 DEF Walks
  <2> QED  BY <1>1, <1>2, <1>4, <2>1, WriteTypes DEF EndWhile, TypeInv
<1>5. CASE /\ Discharge(walk.prem, Where(code[Top.at].inv, walk.x))
           /\ minted' = IF Mutated(Top.at) THEN minted + 1 ELSE minted
           /\ minted' <= MaxSymbols
           /\ walk' = IF Top.outer.dead THEN Top.outer
                      ELSE LoopExit(Top.outer, code[Top.at],
                                    IF Mutated(Top.at) THEN Symbol(minted') ELSE Top.outer.x)
  <2>1. minted' \in 0 .. MaxSymbols  BY <1>5, WpAssumption DEF TypeInv
  <2>2. Symbol(minted') \in Terms  BY <2>1, SymbolType
  <2>3. Top.outer.x \in Terms  BY <1>3 DEF Walks
  <2>4. walk' \in Walks  BY <1>3, <1>5, <2>2, <2>3, LoopExitType
  <2>5. accepted' \in BOOLEAN  BY <1>5 DEF Discharge, TypeInv, Walks
  <2> QED  BY <1>1, <1>2, <2>1, <2>4, <2>5, WriteTypes DEF EndWhile, TypeInv
<1> QED  BY <1>4, <1>5 DEF EndWhile

LEMMA CallTypes ==
  ASSUME TypeInv, Call
  PROVE  TypeInv'
<1>1. Plain("call") \in Instrs  BY InstrTypes DEF OpNames
<1>2. minted' \in 0 .. MaxSymbols  BY WpAssumption DEF Call, TypeInv
<1>3. Symbol(minted') \in Terms  BY <1>2, SymbolType
<1>4. [walk EXCEPT !.prem = Worlds, !.result = Symbol(minted')] \in Walks
  BY <1>3 DEF TypeInv, Walks
<1>5. walk' \in Walks  BY <1>4, WalkToType DEF Call
<1>6. Frame("call", Worlds) \in OpenBlocks  BY FrameType DEF FrameKinds
<1>7. frames' \in Seq(OpenBlocks)  BY <1>6, AppendAt DEF Call, TypeInv
<1> QED  BY <1>1, <1>2, <1>5, <1>7, WriteTypes DEF Call, TypeInv

LEMMA EndCallTypes ==
  ASSUME TypeInv, EndCall
  PROVE  TypeInv'
<1>1. Plain("end") \in Instrs  BY InstrTypes DEF OpNames
<1>2. Top \in OpenBlocks /\ Pop \in Seq(OpenBlocks)  BY TopType DEF EndCall
<1>3. walk' \in Walks  BY <1>2 DEF EndCall, OpenBlocks, TypeInv, Walks
<1> QED  BY <1>1, <1>2, <1>3, WriteTypes DEF EndCall, TypeInv

LEMMA ReturnTypes ==
  ASSUME TypeInv, Return
  PROVE  TypeInv'
<1>1. Plain("return") \in Instrs  BY InstrTypes DEF OpNames
<1>2. [walk EXCEPT !.result = walk.x, !.dead = TRUE] \in Walks  BY DEF TypeInv, Walks
<1>3. walk' \in Walks  BY <1>2, WalkToType DEF Return
<1>4. accepted' \in BOOLEAN  BY DEF Return, Discharge, TypeInv, Walks
<1> QED  BY <1>1, <1>3, <1>4, WriteTypes DEF Return, TypeInv

LEMMA BreakTypes ==
  ASSUME TypeInv, Break
  PROVE  TypeInv'
<1>1. Plain("break") \in Instrs  BY InstrTypes DEF OpNames
<1>2. [walk EXCEPT !.dead = TRUE] \in Walks  BY DEF TypeInv, Walks
<1>3. walk' \in Walks  BY <1>2, WalkToType DEF Break
<1> QED  BY <1>1, <1>3, WriteTypes DEF Break, TypeInv

\* A run leaves the walk alone.
LEMMA RunStepsKeepWalk ==
  ASSUME StartRun \/ RunAssign \/ RunAssert \/ RunAssume \/ RunIf \/ RunElse \/ RunEnd
           \/ RunWhile \/ RunEndWhile \/ RunBreak \/ RunReturn \/ UNCHANGED vars
  PROVE  UNCHANGED walkVars
BY DEF StartRun, RunAssign, RunAssert, RunAssume, RunIf, RunElse, RunEnd, RunWhile, RunEndWhile,
       RunBreak, RunReturn, GoTo, Stop, EnterBody, vars

LEMMA UnchangedTypes ==
  ASSUME TypeInv, UNCHANGED walkVars
  PROVE  TypeInv'
BY DEF TypeInv, walkVars

(***************************************************************************)
(* Writing an instruction: what all actions of the walker have in common.  *)
(***************************************************************************)
LEMMA FewerSymbols ==
  ASSUME NEW i \in Int, NEW j \in Int, NEW n \in Int, j >= i
  PROVE  \A m \in j + 1 .. n : m \in i + 1 .. n
OBVIOUS

LEMMA WriteStatic ==
  ASSUME TypeInv, TypeInv', Static, NEW i \in Instrs, Write(i),
         minted' >= minted, dropped \subseteq dropped',
         i.op # "assume" => facts' = facts,
         Step(code', Trail', Len(code) + 1),
         accepted' => Asked(code', Trail', Len(code) + 1),
         \A o \in 1 .. Len(code) : code[o].op \in Openers /\ IsOpen(o) =>
           IsOpen(o)' \/ Closed(code', Trail', dropped', o, Len(code) + 1),
         i.op \in Openers => \E k \in 1 .. Len(frames') : frames'[k].at = Len(code) + 1,
         i.op = "end" => \E o \in 1 .. Len(code) : Closes(code', o, Len(code) + 1),
         i.op = "else" => \E o \in 1 .. Len(code) :
           code'[o].op = "if" /\ Around(code', o, Len(code) + 1) /\ Level(code', o, Len(code) + 1) = 1,
         \A m \in minted' + 1 .. MaxSymbols :
           Blind([walk |-> walk', facts |-> facts'], m) /\ BlindTerm(walk'.result, m)
  PROVE  Static'
<1> DEFINE pt == [walk |-> walk', facts |-> facts']
<1>1. /\ code \in Seq(Instrs) /\ Trail \in Seq(Points) /\ Len(Trail) = Len(code) + 1
      /\ Trail[Len(code) + 1] = [walk |-> walk, facts |-> facts] /\ Len(code) \in Nat
  BY TrailType DEF TypeInv
<1>2. /\ code' = Append(code, i) /\ Len(code') = Len(code) + 1 /\ accepted
      /\ before' = Append(before, [walk |-> walk, facts |-> facts])
  BY WriteTypes
<1>3. Trail' = Append(Trail, pt)  BY <1>2, WriteTrail
<1>4. pt \in Points  BY DEF TypeInv, Points
<1>5. \A k \in 1 .. Len(code) : code'[k] = code[k]  BY <1>1, <1>2
<1>6. \A k \in 1 .. Len(code) + 1 : Trail'[k] = Trail[k]  BY <1>1, <1>3, <1>4
<1>7. /\ code'[Len(code) + 1] = i /\ Trail'[Len(code) + 2] = pt /\ Len(Trail') = Len(code) + 2
  BY <1>1, <1>2, <1>3, <1>4
<1>8. StartInv'
  <2>1. Trail'[1] = Trail[1]  BY <1>1, <1>6
  <2> QED  BY <2>1 DEF Static, StartInv
<1>9. FactsKept(code', Trail')
  <2>1. i.op # "assume" => pt.facts = Trail[Len(Trail)].facts  BY <1>1
  <2>2. FactsKept(code, Trail)  BY DEF Static
  <2> HIDE DEF pt
  <2> QED  BY <1>1, <1>2, <1>3, <1>4, <2>1, <2>2, FactsKeptAppend, Zenon
<1>10. StepInv'
  <2> SUFFICES ASSUME NEW k \in 1 .. Len(code) + 1
               PROVE  Step(code', Trail', k) /\ (accepted' => Asked(code', Trail', k))
    BY <1>2 DEF StepInv
  <2>1. CASE k = Len(code) + 1  BY <2>1
  <2>2. CASE k \in 1 .. Len(code)
    <3>1. Step(code, Trail, k) /\ Asked(code, Trail, k)  BY <1>2, <2>2 DEF Static, StepInv
    <3>2. Step(code', Trail', k)
      <4>1. code'[k] = code[k] /\ Trail'[k] = Trail[k] /\ Trail'[k + 1] = Trail[k + 1]
        BY <2>2, <1>5, <1>6
      <4> QED  BY <4>1, <3>1, StepSame, Zenon
    <3>3. Asked(code', Trail', k)
      <4> HIDE DEF pt
      <4> QED  BY <3>1, <1>1, <1>2, <1>3, <1>4, <2>2, AskedAppend, Zenon
    <3> QED  BY <3>2, <3>3
  <2> QED  BY <2>1, <2>2, <1>1
<1>11. BlockInv'
  <2> SUFFICES ASSUME NEW k \in 1 .. Len(code) + 1
               PROVE  /\ code'[k].op \in Openers =>
                           IsOpen(k)' \/ \E e \in 1 .. Len(code) + 1 : Closed(code', Trail', dropped', k, e)
                      /\ code'[k].op = "end" => \E o \in 1 .. k - 1 : Closes(code', o, k)
                      /\ code'[k].op = "else" =>
                           \E o \in 1 .. k - 1 :
                             code'[o].op = "if" /\ Around(code', o, k) /\ Level(code', o, k) = 1
    BY <1>2 DEF BlockInv
  <2>1. CASE k = Len(code) + 1
    <3>1. code'[k] = i /\ k - 1 = Len(code)  BY <2>1, <1>7, <1>1
    <3>2. i.op \in Openers => IsOpen(k)'  BY <2>1 DEF IsOpen
    <3>3. i.op = "end" => \E o \in 1 .. k - 1 : Closes(code', o, k)  BY <2>1, <3>1
    <3>4. i.op = "else" =>
            \E o \in 1 .. k - 1 : code'[o].op = "if" /\ Around(code', o, k) /\ Level(code', o, k) = 1
      BY <2>1, <3>1
    <3> QED  BY <3>1, <3>2, <3>3, <3>4
  <2>2. CASE k \in 1 .. Len(code)
    <3>1. ASSUME code[k].op \in Openers
          PROVE  IsOpen(k)' \/ \E e \in 1 .. Len(code) + 1 : Closed(code', Trail', dropped', k, e)
      <4>1. CASE IsOpen(k)  BY <4>1, <3>1, <2>2, <1>1
      <4>2. CASE \E e \in 1 .. Len(code) : Closed(code, Trail, dropped, k, e)
        <5>1. PICK e \in 1 .. Len(code) : Closed(code, Trail, dropped, k, e)  BY <4>2
        <5>2. Closed(code', Trail', dropped', k, e)
          <6> HIDE DEF pt
          <6> QED  BY <5>1, <1>1, <1>2, <1>3, <1>4, ClosedAppend, Zenon
        <5> QED  BY <5>2, <1>1
      <4> QED  BY <4>1, <4>2, <3>1, <2>2 DEF Static, BlockInv
    <3>2. ASSUME code[k].op = "end" PROVE \E o \in 1 .. k - 1 : Closes(code', o, k)
      <4>1. PICK o \in 1 .. k - 1 : Closes(code, o, k)  BY <3>2, <2>2 DEF Static, BlockInv
      <4>2. Closes(code', o, k)  BY <4>1, <2>2, <1>1, <1>2, ClosesAppend, Zenon
      <4> QED  BY <4>2
    <3>3. ASSUME code[k].op = "else"
          PROVE  \E o \in 1 .. k - 1 : code'[o].op = "if" /\ Around(code', o, k) /\ Level(code', o, k) = 1
      <4>1. PICK o \in 1 .. k - 1 : code[o].op = "if" /\ Around(code, o, k) /\ Level(code, o, k) = 1
        BY <3>3, <2>2 DEF Static, BlockInv
      <4>2. Around(code', o, k)
        <5>1. k \in 1 .. Len(code) + 1  OBVIOUS
        <5> QED  BY <4>1, <5>1, <1>1, <1>2, AroundAppend, Zenon
      <4>3. Level(code', o, k) = 1
        <5>1. o \in 1 .. Len(code) + 1 /\ k \in Int /\ k <= Len(code)  BY <2>2
        <5> QED  BY <4>1, <5>1, <1>1, <1>2, LevelAppend, Zenon
      <4>4. code'[o] = code[o]  BY <2>2, <1>5
      <4> QED  BY <4>1, <4>2, <4>3, <4>4
    <3>4. code'[k] = code[k]  BY <2>2, <1>5
    <3> QED  BY <3>1, <3>2, <3>3, <3>4
  <2> QED  BY <2>1, <2>2, <1>1
<1>12. BlindInv'
  <2> SUFFICES ASSUME NEW m \in minted' + 1 .. MaxSymbols, NEW k \in 1 .. Len(code) + 2
               PROVE  Blind(Trail'[k], m) /\ BlindTerm(Trail'[k].walk.result, m)
    BY <1>7 DEF BlindInv
  <2>1. CASE k = Len(code) + 2  BY <2>1, <1>7
  <2>2. CASE k \in 1 .. Len(code) + 1
    <3>1. m \in minted + 1 .. MaxSymbols
      <4>1. minted \in Int /\ minted' \in Int /\ MaxSymbols \in Int  BY WpAssumption DEF TypeInv
      <4> QED  BY <4>1, FewerSymbols
    <3>2. Blind(Trail[k], m) /\ BlindTerm(Trail[k].walk.result, m)
      BY <3>1, <2>2, <1>1 DEF Static, BlindInv
    <3> QED  BY <3>2, <1>6, <2>2
  <2> QED  BY <2>1, <2>2, <1>1
<1> QED  BY <1>8, <1>9, <1>10, <1>11, <1>12 DEF Static

\* What a write does to the code, the trail and the levels.
LEMMA WriteFacts ==
  ASSUME TypeInv, TypeInv', NEW i \in Instrs, Write(i)
  PROVE  /\ code \in Seq(Instrs) /\ Trail \in Seq(Points) /\ Len(Trail) = Len(code) + 1
         /\ Len(code) \in Nat /\ Len(code') = Len(code) + 1 /\ Len(Trail') = Len(code) + 2
         /\ code' = Append(code, i) /\ code'[Len(code) + 1] = i
         /\ \A k \in 1 .. Len(code) : code'[k] = code[k]
         /\ \A k \in 1 .. Len(code) + 1 : Trail'[k] = Trail[k]
         /\ Trail[Len(code) + 1] = [walk |-> walk, facts |-> facts]
         /\ Trail'[Len(code) + 2] = [walk |-> walk', facts |-> facts']
<1>1. /\ code \in Seq(Instrs) /\ Trail \in Seq(Points) /\ Len(Trail) = Len(code) + 1
      /\ Trail[Len(code) + 1] = [walk |-> walk, facts |-> facts] /\ Len(code) \in Nat
  BY TrailType DEF TypeInv
<1>2. /\ code' = Append(code, i) /\ Len(code') = Len(code) + 1
      /\ before' = Append(before, [walk |-> walk, facts |-> facts])
  BY WriteTypes
<1>3. Trail' = Append(Trail, [walk |-> walk', facts |-> facts'])  BY <1>2, WriteTrail
<1>4. [walk |-> walk', facts |-> facts'] \in Points  BY DEF TypeInv, Points
<1>5. \A k \in 1 .. Len(code) + 1 : Trail'[k] = Trail[k]  BY <1>1, <1>3, <1>4
<1>6. Trail'[Len(code) + 2] = [walk |-> walk', facts |-> facts'] /\ Len(Trail') = Len(code) + 2
  BY <1>1, <1>3, <1>4
<1> QED  BY <1>1, <1>2, <1>5, <1>6

\* A statement that stays open and gets no else.
LEMMA KeptFrame ==
  ASSUME TypeInv, TypeInv', NEW i \in Instrs, Write(i),
         NEW k \in 1 .. Len(frames), k <= Len(frames'), frames'[k] = frames[k],
         FrameOK(k), Len(frames') = Len(frames) + Delta(i),
         k < Len(frames) \/ i.op # "else",
         frames[k].outer.dead => walk'.dead
  PROVE  FrameOK(k)'
<1>1. /\ code \in Seq(Instrs) /\ Len(Trail) = Len(code) + 1 /\ Len(code) \in Nat
      /\ Len(code') = Len(code) + 1 /\ Len(Trail') = Len(code) + 2 /\ code' = Append(code, i)
      /\ \A j \in 1 .. Len(code) : code'[j] = code[j]
      /\ \A j \in 1 .. Len(code) + 1 : Trail'[j] = Trail[j]
      /\ Trail'[Len(code) + 2].walk = walk'
  BY WriteFacts
<1> DEFINE f == frames[k]
           a == f.at
<1>2. /\ a \in 1 .. Len(code)
      /\ code[a].op = (IF f.kind = "else" THEN "if" ELSE f.kind)
      /\ Around(code, a, Len(code) + 1)
      /\ Level(code, a, Len(code)) = Len(frames) - k + 1
      /\ f.outer = Trail[a].walk
      /\ f.kind # "call" => f.cond = CondAt(code, Trail, a)
      /\ f.kind = "if" => ElsesOf(code, a, Len(code)) = {}
      /\ f.kind = "else" => \E j \in a + 1 .. Len(code) :
                              /\ ElsesOf(code, a, Len(code)) = {j}
                              /\ f.then = Trail[j].walk
                              /\ Trail[j + 1].walk = OtherArm(code, Trail, a)
      /\ f.outer.dead => \A j \in a + 1 .. Len(Trail) : Trail[j].walk.dead
  BY DEF FrameOK
<1>3. frames' \in Seq(OpenBlocks) /\ frames \in Seq(OpenBlocks)  BY DEF TypeInv
<1>4. Len(frames) \in Nat /\ Len(frames') \in Nat  BY <1>3
<1> HIDE DEF a, f
<1>5. code'[a] = code[a] /\ Trail'[a] = Trail[a]  BY <1>1, <1>2
<1>6. CondAt(code', Trail', a) = CondAt(code, Trail, a) /\ OtherArm(code', Trail', a) = OtherArm(code, Trail, a)
  BY <1>5 DEF CondAt, OtherArm
<1>7. Level(code', a, Len(code) + 1) = Level(code, a, Len(code)) + Delta(i)
  <2>1. a \in 1 .. Len(code) + 1 /\ Len(code) \in Int  BY <1>1, <1>2
  <2> QED  BY <2>1, <1>1, LevelAppend, Zenon
<1>8. Delta(i) \in Int  BY DEF Delta
<1>9. Level(code', a, Len(code)' ) = Len(frames') - k + 1
  BY <1>1, <1>2, <1>4, <1>7, <1>8
<1>10. Around(code', a, Len(code) + 2)
  <2>1. Level(code, a, Len(code)) + Delta(i) >= 1  BY <1>2, <1>4, <1>8
  <2> QED  BY <1>1, <1>2, <2>1, AroundNext, Zenon
<1>11. ElsesOf(code', a, Len(code) + 1) = ElsesOf(code, a, Len(code))
  <2>1. ~(i.op = "else" /\ Level(code, a, Len(code)) = 1)  BY <1>2, <1>4
  <2>2. Len(code) \in 1 .. Len(code)  BY <1>1, <1>2
  <2>3. ElsesOf(code', a, Len(code) + 1)
          = ElsesOf(code, a, Len(code))
              \cup IF i.op = "else" /\ Level(code, a, Len(code)) = 1 THEN {Len(code) + 1} ELSE {}
    <3>1. /\ ElsesOf(Append(code, i), a, Len(code)) = ElsesOf(code, a, Len(code))
          /\ ElsesOf(Append(code, i), a, Len(code) + 1)
               = ElsesOf(code, a, Len(code))
                   \cup IF i.op = "else" /\ Level(code, a, Len(code)) = 1 THEN {Len(code) + 1} ELSE {}
      <4>1. a \in 1 .. Len(code) /\ code \in Seq(Instrs)  BY <1>1, <1>2
      <4> QED  BY <4>1, <2>2, ElsesAppend
    <3> QED  BY <3>1, <1>1
  <2> QED  BY <2>1, <2>3
<1>12. f.kind = "else" => \E j \in a + 1 .. Len(code) + 1 :
                            /\ ElsesOf(code', a, Len(code) + 1) = {j}
                            /\ f.then = Trail'[j].walk
                            /\ Trail'[j + 1].walk = OtherArm(code', Trail', a)
  <2> SUFFICES ASSUME f.kind = "else"
               PROVE  \E j \in a + 1 .. Len(code) + 1 :
                        /\ ElsesOf(code', a, Len(code) + 1) = {j}
                        /\ f.then = Trail'[j].walk
                        /\ Trail'[j + 1].walk = OtherArm(code', Trail', a)
    OBVIOUS
  <2>1. PICK j \in a + 1 .. Len(code) : /\ ElsesOf(code, a, Len(code)) = {j}
                                        /\ f.then = Trail[j].walk
                                        /\ Trail[j + 1].walk = OtherArm(code, Trail, a)
    BY <1>2
  <2>3. a \in 1 .. Len(code) /\ Len(code) \in Nat  BY <1>1, <1>2
  <2>4. j \in 1 .. Len(code) + 1 /\ j + 1 \in 1 .. Len(code) + 1 /\ j \in a + 1 .. Len(code) + 1
    BY <2>3
  <2>2. Trail'[j] = Trail[j] /\ Trail'[j + 1] = Trail[j + 1] /\ j \in a + 1 .. Len(code) + 1
    BY <1>1, <2>4
  <2> QED  BY <2>1, <2>2, <1>6, <1>11
<1>13. f.outer.dead => \A j \in a + 1 .. Len(code) + 2 : Trail'[j].walk.dead
  <2> SUFFICES ASSUME f.outer.dead, NEW j \in a + 1 .. Len(code) + 2 PROVE Trail'[j].walk.dead
    OBVIOUS
  <2>1. CASE j = Len(code) + 2  BY <2>1, <1>1 DEF f
  <2>2. CASE j \in a + 1 .. Len(code) + 1
    <3>1. Trail'[j] = Trail[j]  BY <2>2, <1>1, <1>2
    <3> QED  BY <3>1, <2>2, <1>1, <1>2
  <2>3. a \in 1 .. Len(code) /\ Len(code) \in Nat  BY <1>1, <1>2
  <2>4. j = Len(code) + 2 \/ j \in a + 1 .. Len(code) + 1  BY <2>3
  <2> QED  BY <2>1, <2>2, <2>4
<1>14. f' = f /\ a' = a  BY DEF f, a
<1>15. /\ a \in 1 .. Len(code')
       /\ code'[a].op = (IF f.kind = "else" THEN "if" ELSE f.kind)
       /\ Around(code', a, Len(code') + 1)
       /\ f.outer = Trail'[a].walk
       /\ f.kind # "call" => f.cond = CondAt(code', Trail', a)
       /\ f.kind = "if" => ElsesOf(code', a, Len(code')) = {}
  <2>1. Len(code') + 1 = Len(code) + 2  BY <1>1
  <2> QED  BY <1>1, <1>2, <1>5, <1>6, <1>10, <1>11, <2>1
<1>16. /\ Level(code', a, Len(code')) = Len(frames') - k + 1
       /\ f.kind = "else" => \E j \in a + 1 .. Len(code') :
                            /\ ElsesOf(code', a, Len(code')) = {j}
                            /\ f.then = Trail'[j].walk
                            /\ Trail'[j + 1].walk = OtherArm(code', Trail', a)
       /\ f.outer.dead => \A j \in a + 1 .. Len(Trail') : Trail'[j].walk.dead
  BY <1>1, <1>9, <1>12, <1>13
<1>17. frames'[k] = f /\ f.at = a  BY DEF f, a
<1> QED  BY <1>15, <1>16, <1>17 DEF FrameOK

LEMMA PendingBefore ==
  ASSUME TypeInv, TypeInv', NEW i \in Instrs, Write(i), dropped \subseteq dropped',
         NEW p \in 1 .. Len(code), Pending(code', Trail', dropped', p)
  PROVE  Pending(code, Trail, dropped, p)
<1>1. code \in Seq(Instrs) /\ code' = Append(code, i) /\ code'[p] = code[p] /\ Trail'[p] = Trail[p]
  BY WriteFacts
<1>2. Lapsed(code, dropped, p) => Lapsed(code', dropped', p)
  <2>1. p \in 1 .. Len(code) + 1  OBVIOUS
  <2> QED  BY <2>1, <1>1, LapsedAppend, Zenon
<1> QED  BY <1>1, <1>2 DEF Pending

\* The symbols that do not occur before a step and do not occur after it.
StaysBlind ==
  \A m \in 1 .. MaxSymbols :
    Blind([walk |-> walk, facts |-> facts], m) => Blind([walk |-> walk', facts |-> facts'], m)

LEMMA BlindTrail ==
  ASSUME TypeInv, TypeInv', NEW i \in Instrs, Write(i), StaysBlind, NEW m \in 1 .. MaxSymbols,
         \A j \in 1 .. Len(Trail) : Blind(Trail[j], m)
  PROVE  \A j \in 1 .. Len(Trail') : Blind(Trail'[j], m)
<1>1. /\ Len(Trail) = Len(code) + 1 /\ Len(code) \in Nat /\ Len(Trail') = Len(code) + 2
      /\ \A j \in 1 .. Len(code) + 1 : Trail'[j] = Trail[j]
      /\ Trail[Len(code) + 1] = [walk |-> walk, facts |-> facts]
      /\ Trail'[Len(code) + 2] = [walk |-> walk', facts |-> facts']
  BY WriteFacts
<1>2. Blind(Trail[Len(code) + 1], m)  BY <1>1
<1>3. Blind(Trail'[Len(code) + 2], m)  BY <1>1, <1>2 DEF StaysBlind
<1> TAKE j \in 1 .. Len(Trail')
<1>4. j \in 1 .. Len(code) + 1 \/ j = Len(code) + 2  BY <1>1
<1> QED  BY <1>1, <1>3, <1>4

\* In a list that ended nothing is walked; an open statement in a dead list
\* is dead.
LEMMA DeadOuter ==
  ASSUME TypeInv, NEW k \in 1 .. Len(frames), FrameOK(k), frames[k].outer.dead
  PROVE  walk.dead
<1>1. /\ Len(Trail) = Len(code) + 1 /\ Len(code) \in Nat
      /\ Trail[Len(code) + 1] = [walk |-> walk, facts |-> facts]
  BY TrailType DEF TypeInv
<1>2. frames[k].at \in 1 .. Len(code)  BY DEF FrameOK
<1>3. Len(code) + 1 \in frames[k].at + 1 .. Len(Trail)  BY <1>1, <1>2
<1> QED  BY <1>1, <1>3 DEF FrameOK

(***************************************************************************)
(* Statements that open and close nothing.                                 *)
(***************************************************************************)
PlainOps == {"assign", "assert", "assume", "return", "break"}

PlainStep(i) ==
  /\ ~Jumped /\ Write(i) /\ i.op \in PlainOps
  /\ frames' = frames /\ dropped' = dropped /\ minted' = minted
  /\ walk.dead => walk' = walk
  /\ i.op \notin {"return", "break"} => walk'.result = walk.result
  /\ i.op = "break" => ~InCall
  /\ i.op = "return" => walk'.dead /\ (~walk.dead => walk'.result = walk.x)
  /\ StaysBlind

LEMMA PlainCall ==
  ASSUME TypeInv, TypeInv', FramesInv, NEW i \in Instrs, PlainStep(i),
         NEW k \in 1 .. Len(frames), frames[k].kind = "call"
  PROVE  OpenCall(k)'
<1>0. Write(i) /\ frames' = frames /\ dropped' = dropped /\ minted' = minted /\ ~Jumped /\ StaysBlind
  BY DEF PlainStep
<1>1. /\ code \in Seq(Instrs) /\ Len(Trail) = Len(code) + 1 /\ Len(code) \in Nat
      /\ Len(code') = Len(code) + 1 /\ Len(Trail') = Len(code) + 2
      /\ code'[Len(code) + 1] = i
      /\ \A j \in 1 .. Len(code) + 1 : Trail'[j] = Trail[j]
      /\ Trail[Len(code) + 1] = [walk |-> walk, facts |-> facts]
  BY <1>0, WriteFacts
<1>2. PICK m \in 1 .. minted : /\ \A j \in 1 .. Len(Trail) : Blind(Trail[j], m)
                               /\ ~frames[k].outer.dead => CallWaits(k, m)
  BY DEF FramesInv, OpenCall
<1>3. m \in 1 .. MaxSymbols  BY <1>2, WpAssumption DEF TypeInv
<1>4. \A j \in 1 .. Len(Trail') : Blind(Trail'[j], m)  BY <1>0, <1>2, <1>3, BlindTrail
<1>5. ASSUME ~frames[k].outer.dead PROVE CallWaits(k, m)'
  <2>0. CallWaits(k, m)  BY <1>2, <1>5
  <2>1. walk.result = Symbol(m)  BY <2>0, <1>0 DEF CallWaits
  <2>2. InCall  BY DEF InCall, Kinds
  <2>3. walk'.result = Symbol(m) \/ (walk'.dead /\ Jumped')
    <3>1. CASE i.op = "return"
      <4>1. walk'.dead  BY <3>1 DEF PlainStep
      <4>2. code'[Len(code')].op = "return" /\ code' # <<>>  BY <1>1, <3>1
      <4> QED  BY <4>1, <4>2 DEF Jumped
    <3>2. CASE i.op # "return"
      <4>1. i.op # "break"  BY <2>2 DEF PlainStep
      <4>2. walk'.result = walk.result  BY <3>2, <4>1 DEF PlainStep
      <4> QED  BY <4>2, <2>1
    <3> QED  BY <3>1, <3>2
  <2>4. \A j \in k + 1 .. Len(frames') :
          /\ frames'[j].outer.result = Symbol(m)
          /\ ~frames'[j].then.dead => frames'[j].then.result = Symbol(m)
    BY <1>0, <2>0 DEF CallWaits
  <2>5. ASSUME NEW p \in 1 .. Len(code'), NEW j \in k .. Len(frames'),
               Pending(code', Trail', dropped', p),
               frames'[j].at < p, j < Len(frames') => p < frames'[j + 1].at
        PROVE  Waits(p, j, m)'
    <3>1. CASE p \in 1 .. Len(code)
      <4>1. Pending(code, Trail, dropped, p)  BY <3>1, <2>5, <1>0, PendingBefore
      <4>2. Waits(p, j, m)  BY <4>1, <3>1, <2>5, <2>0, <1>0 DEF CallWaits
      <4>3. p # Len(code)  BY <4>1, <1>0, <1>1 DEF Jumped, Pending
      <4>4. ListWalk(j).dead => ListWalk(j)' = ListWalk(j)
        BY <1>0 DEF ListWalk, PlainStep
      <4> QED  BY <4>2, <4>3, <4>4, <1>0 DEF Waits
    <3>2. CASE p = Len(code) + 1
      <4>1. i.op = "return" /\ ~walk.dead  BY <3>2, <2>5, <1>1 DEF Pending
      <4>2. walk'.dead /\ walk'.result = walk.x  BY <4>1 DEF PlainStep
      <4>3. j = Len(frames)
        <5>1. SUFFICES ASSUME j < Len(frames) PROVE FALSE  BY <1>0, <2>5
        <5>2. j + 1 \in 1 .. Len(frames)  BY <5>1, <2>5
        <5>3. frames[j + 1].at \in 1 .. Len(code)  BY <5>2 DEF FramesInv, FrameOK
        <5> QED  BY <5>1, <5>3, <2>5, <3>2, <1>0, <1>1
      <4>4. ListWalk(j)' = walk'  BY <4>3, <1>0 DEF ListWalk
      <4>5. Trail'[p].walk = walk  BY <3>2, <1>1
      <4>6. frames[j].kind \in FrameKinds
        <5>1. frames[j] \in OpenBlocks  BY <4>3, <2>5 DEF TypeInv
        <5> QED  BY <5>1 DEF OpenBlocks
      <4> QED  BY <4>2, <4>3, <4>4, <4>5, <4>6, <3>2, <1>0, <1>1 DEF Waits, FrameKinds
    <3> QED  BY <3>1, <3>2, <1>1
  <2> QED  BY <2>3, <2>4, <2>5 DEF CallWaits
<1> QED  BY <1>0, <1>2, <1>4, <1>5 DEF OpenCall

StaysUnminted ==
  \A m \in minted' + 1 .. MaxSymbols :
    Blind([walk |-> walk, facts |-> facts], m) /\ BlindTerm(walk.result, m) =>
      Blind([walk |-> walk', facts |-> facts'], m) /\ BlindTerm(walk'.result, m)

\* What BlindInv needs of a step that writes.
LEMMA UnmintedAfter ==
  ASSUME TypeInv, TypeInv', BlindInv, minted' >= minted, StaysUnminted
  PROVE  \A m \in minted' + 1 .. MaxSymbols :
           Blind([walk |-> walk', facts |-> facts'], m) /\ BlindTerm(walk'.result, m)
<1> TAKE m \in minted' + 1 .. MaxSymbols
<1>1. minted \in Int /\ minted' \in Int /\ MaxSymbols \in Int  BY WpAssumption DEF TypeInv
<1>2. m \in minted + 1 .. MaxSymbols  BY <1>1, FewerSymbols
<1>3. Len(Trail) = Len(code) + 1 /\ Len(code) \in Nat /\ Trail[Len(code) + 1] = [walk |-> walk, facts |-> facts]
  BY TrailType DEF TypeInv
<1>4. Len(code) + 1 \in 1 .. Len(Trail)  BY <1>3
<1>5. Blind(Trail[Len(code) + 1], m) /\ BlindTerm(Trail[Len(code) + 1].walk.result, m)
  BY <1>2, <1>4 DEF BlindInv
<1> QED  BY <1>3, <1>5 DEF StaysUnminted

LEMMA PlainInv ==
  ASSUME TypeInv, TypeInv', Static, FramesInv, NEW i \in Instrs, PlainStep(i),
         Step(code', Trail', Len(code) + 1),
         accepted' => Asked(code', Trail', Len(code) + 1),
         i.op # "assume" => facts' = facts,
         StaysUnminted
  PROVE  Static' /\ FramesInv'
<1>1. Write(i) /\ frames' = frames /\ dropped' = dropped /\ minted' = minted  BY DEF PlainStep
<1>2. i.op \notin Openers /\ i.op # "end" /\ i.op # "else" /\ Delta(i) = 0
  BY DEF PlainStep, PlainOps, Openers, Delta
<1>3. Static'
  <2>1. \A o : IsOpen(o) => IsOpen(o)'  BY <1>1 DEF IsOpen
  <2>2. minted' >= minted  BY <1>1 DEF TypeInv
  <2>3. \A m \in minted' + 1 .. MaxSymbols :
          Blind([walk |-> walk', facts |-> facts'], m) /\ BlindTerm(walk'.result, m)
    BY <2>2, UnmintedAfter DEF Static
  <2> QED  BY <1>1, <1>2, <2>1, <2>2, <2>3, WriteStatic
<1>4. \A k \in 1 .. Len(frames) : FrameOK(k)'
  <2> TAKE k \in 1 .. Len(frames)
  <2>1. FrameOK(k)  BY DEF FramesInv
  <2>2. frames[k].outer.dead => walk'.dead  BY <2>1, DeadOuter DEF PlainStep
  <2>3. Len(frames') = Len(frames) + Delta(i) /\ k <= Len(frames')  BY <1>1, <1>2 DEF TypeInv
  <2> QED  BY <1>1, <1>2, <2>1, <2>2, <2>3, KeptFrame
<1>5. \A k \in 1 .. Len(frames) : frames[k].kind = "call" => OpenCall(k)'  BY PlainCall
<1> QED  BY <1>1, <1>3, <1>4, <1>5 DEF FramesInv

LEMMA NewStep ==
  ASSUME TypeInv, TypeInv', NEW i \in Instrs, Write(i)
  PROVE  \E n \in Nat :
           /\ n = Len(code) + 1 /\ code'[n] = i
           /\ Trail'[n] = [walk |-> walk, facts |-> facts]
           /\ Trail'[n + 1] = [walk |-> walk', facts |-> facts']
           /\ Trail'[n].walk = walk /\ Trail'[n].facts = facts
           /\ Trail'[n + 1].walk = walk' /\ Trail'[n + 1].facts = facts'
<1>1. /\ Len(code) \in Nat /\ code'[Len(code) + 1] = i
      /\ \A k \in 1 .. Len(code) + 1 : Trail'[k] = Trail[k]
      /\ Trail[Len(code) + 1] = [walk |-> walk, facts |-> facts]
      /\ Trail'[Len(code) + 2] = [walk |-> walk', facts |-> facts']
  BY WriteFacts
<1>2. Len(code) + 2 = (Len(code) + 1) + 1 /\ Len(code) + 1 \in Nat /\ Len(code) + 1 \in 1 .. Len(code) + 1
  BY <1>1
<1> QED  BY <1>1, <1>2

\* Most statements ask nothing.
LEMMA AskedNothing ==
  ASSUME NEW c, NEW s, NEW i, c[i].op \notin {"assert", "while", "return", "end"}
  PROVE  Asked(c, s, i)
<1>1. \A o : ~Closes(c, o, i)  BY ClosesEnd
<1> QED  BY <1>1 DEF Asked

LEMMA AssignInv ==
  ASSUME TypeInv, Static, FramesInv, NEW e \in Exprs, Assign(e)
  PROVE  Static' /\ FramesInv'
<1> DEFINE i == Instr("assign", Ensures, NoInvariant, e)
           t == [w \in Worlds |-> Eval(e, walk.x[w])]
<1>1. TypeInv'  BY AssignTypes
<1>2. i \in Instrs  BY InstrTypes
<1>3. Write(i) /\ ~Jumped /\ frames' = frames /\ facts' = facts /\ minted' = minted /\ dropped' = dropped
      /\ walk' = Walked(walk, [walk EXCEPT !.x = t])
  BY DEF Assign, WalkTo, Walked
<1>4. i.op = "assign" /\ i.e = e  BY DEF Instr
<1>5. walk \in Walks /\ walk.x \in Terms /\ t \in Terms  BY EvalType DEF TypeInv, Walks
<1>6. walk' = walk \/ walk' = [walk EXCEPT !.x = t]  BY <1>3 DEF Walked
<1>7. /\ [walk EXCEPT !.x = t].x = t /\ [walk EXCEPT !.x = t].path = walk.path
      /\ [walk EXCEPT !.x = t].prem = walk.prem /\ [walk EXCEPT !.x = t].result = walk.result
  BY <1>5 DEF Walks
<1>8. \A m \in 1 .. MaxSymbols : BlindTerm(walk.x, m) => BlindTerm(t, m)
  BY <1>5, BlindEval
<1> HIDE DEF i, t
<1>9. StaysBlind  BY <1>3, <1>6, <1>7, <1>8 DEF StaysBlind, Blind, BlindWalk
<1>10. walk'.result = walk.result  BY <1>6, <1>7
<1>11. StaysUnminted
  <2>1. \A m \in minted' + 1 .. MaxSymbols : m \in 1 .. MaxSymbols  BY <1>3 DEF TypeInv
  <2> QED  BY <2>1, <1>9, <1>10 DEF StaysBlind, StaysUnminted
<1>12. PlainStep(i)  BY <1>3, <1>4, <1>9, <1>10 DEF PlainStep, PlainOps, Walked
<1>13. PICK n \in Nat : /\ n = Len(code) + 1 /\ code'[n] = i /\ Trail'[n].walk = walk
                        /\ Trail'[n + 1].walk = walk'
  BY <1>1, <1>2, <1>3, NewStep
<1>14. Step(code', Trail', n)
  BY <1>3, <1>4, <1>13 DEF Step, t
<1>15. Asked(code', Trail', n)  BY <1>4, <1>13, AskedNothing
<1> QED  BY <1>1, <1>2, <1>3, <1>4, <1>11, <1>12, <1>13, <1>14, <1>15, PlainInv

LEMMA AssertInv ==
  ASSUME TypeInv, Static, FramesInv, NEW c \in Claims, Assert(c)
  PROVE  Static' /\ FramesInv'
<1> DEFINE i == Conditional("assert", c)
<1>1. TypeInv'  BY AssertTypes
<1>2. i \in Instrs  BY InstrTypes DEF OpNames
<1>3. Write(i) /\ ~Jumped /\ frames' = frames /\ facts' = facts /\ minted' = minted /\ dropped' = dropped
      /\ walk' = walk
      /\ accepted' = (walk.dead \/ (walk.prem \cap walk.path) \cap facts \subseteq Where(c, walk.x))
  BY DEF Assert, Discharge
<1>4. i.op = "assert" /\ i.c = c  BY DEF Conditional, Instr
<1> HIDE DEF i
<1>5. StaysBlind /\ StaysUnminted  BY <1>3 DEF StaysBlind, StaysUnminted
<1>6. PlainStep(i)  BY <1>3, <1>4, <1>5 DEF PlainStep, PlainOps
<1>7. PICK n \in Nat : /\ n = Len(code) + 1 /\ code'[n] = i /\ Trail'[n].walk = walk
                       /\ Trail'[n + 1].walk = walk' /\ Trail'[n].facts = facts
  BY <1>1, <1>2, <1>3, NewStep
<1>8. Step(code', Trail', n)  BY <1>3, <1>4, <1>7 DEF Step
<1>9. accepted' => Asked(code', Trail', n)
  <2>1. \A o : ~Closes(code', o, n)  BY <1>4, <1>7, ClosesEnd
  <2>2. CondAt(code', Trail', n) = Where(c, walk.x)  BY <1>4, <1>7 DEF CondAt
  <2> QED  BY <1>3, <1>4, <1>7, <2>1, <2>2 DEF Asked
<1> QED  BY <1>1, <1>2, <1>3, <1>4, <1>5, <1>6, <1>7, <1>8, <1>9, PlainInv

LEMMA AssumeInv ==
  ASSUME TypeInv, Static, FramesInv, NEW c \in Claims, Assume(c)
  PROVE  Static' /\ FramesInv'
<1> DEFINE i == Conditional("assume", c)
<1>1. TypeInv'  BY AssumeTypes
<1>2. i \in Instrs  BY InstrTypes DEF OpNames
<1>3. Write(i) /\ ~Jumped /\ frames' = frames /\ minted' = minted /\ dropped' = dropped /\ walk' = walk
      /\ facts' = (IF walk.dead THEN facts ELSE facts \cap Where(c, walk.x))
  BY DEF Assume
<1>4. i.op = "assume" /\ i.c = c  BY DEF Conditional, Instr
<1>5. walk.x \in Terms  BY DEF TypeInv, Walks
<1> HIDE DEF i
<1>6. StaysBlind
  <2> SUFFICES ASSUME NEW m \in 1 .. MaxSymbols, Blind([walk |-> walk, facts |-> facts], m)
               PROVE  Blind([walk |-> walk', facts |-> facts'], m)
    BY DEF StaysBlind
  <2>1. BlindTerm(walk.x, m) /\ BlindSet(facts, m) /\ BlindWalk(walk, m)  BY DEF Blind, BlindWalk
  <2>2. BlindSet(facts \cap Where(c, walk.x), m)  BY <2>1, <1>5, BlindWhere, BlindSets
  <2> QED  BY <1>3, <2>1, <2>2 DEF Blind
<1>7. StaysUnminted
  <2>1. \A m \in minted' + 1 .. MaxSymbols : m \in 1 .. MaxSymbols  BY <1>3 DEF TypeInv
  <2> QED  BY <2>1, <1>3, <1>6 DEF StaysBlind, StaysUnminted
<1>8. PlainStep(i)  BY <1>3, <1>4, <1>6 DEF PlainStep, PlainOps
<1>9. PICK n \in Nat : /\ n = Len(code) + 1 /\ code'[n] = i /\ Trail'[n].walk = walk
                       /\ Trail'[n].facts = facts
                       /\ Trail'[n + 1].walk = walk' /\ Trail'[n + 1].facts = facts'
  BY <1>1, <1>2, <1>3, NewStep
<1>10. Step(code', Trail', n)
  <2>1. CondAt(code', Trail', n) = Where(c, walk.x)  BY <1>4, <1>9 DEF CondAt
  <2> QED  BY <1>3, <1>4, <1>9, <2>1 DEF Step
<1>11. Asked(code', Trail', n)  BY <1>4, <1>9, AskedNothing
<1> QED  BY <1>1, <1>2, <1>3, <1>4, <1>7, <1>8, <1>9, <1>10, <1>11, PlainInv

LEMMA ReturnInv ==
  ASSUME TypeInv, Static, FramesInv, Return
  PROVE  Static' /\ FramesInv'
<1> DEFINE i == Plain("return")
           new == [walk EXCEPT !.result = walk.x, !.dead = TRUE]
<1>1. TypeInv'  BY ReturnTypes
<1>2. i \in Instrs  BY InstrTypes DEF OpNames
<1>3. Write(i) /\ ~Jumped /\ frames' = frames /\ facts' = facts /\ minted' = minted /\ dropped' = dropped
      /\ walk' = Walked(walk, new)
      /\ (~InCall => accepted' = (walk.dead
                        \/ (walk.prem \cap walk.path) \cap facts \subseteq Where(Ensures, walk.x)))
  BY DEF Return, WalkTo, Walked, Discharge
<1>4. i.op = "return"  BY DEF Plain, Instr
<1>5. /\ new.x = walk.x /\ new.result = walk.x /\ new.path = walk.path /\ new.prem = walk.prem
      /\ new.dead /\ walk.dead \in BOOLEAN
  BY DEF TypeInv, Walks
<1>6. walk' = (IF walk.dead THEN walk ELSE new)  BY <1>3 DEF Walked
<1> HIDE DEF i, new
<1>7. walk'.dead /\ (~walk.dead => walk'.result = walk.x) /\ (walk.dead => walk' = walk)
  BY <1>5, <1>6
<1>8. StaysBlind  BY <1>3, <1>5, <1>6 DEF StaysBlind, Blind, BlindWalk
<1>9. StaysUnminted
  <2>1. \A m \in minted' + 1 .. MaxSymbols : m \in 1 .. MaxSymbols  BY <1>3 DEF TypeInv
  <2> QED  BY <2>1, <1>7, <1>8 DEF StaysBlind, StaysUnminted, Blind, BlindWalk
<1>10. PlainStep(i)  BY <1>3, <1>4, <1>7, <1>8 DEF PlainStep, PlainOps
<1>11. PICK n \in Nat : /\ n = Len(code) + 1 /\ code'[n] = i /\ Trail'[n].walk = walk
                        /\ Trail'[n].facts = facts /\ Trail'[n + 1].walk = walk'
  BY <1>1, <1>2, <1>3, NewStep
<1>12. Step(code', Trail', n)  BY <1>3, <1>4, <1>11 DEF Step, new
<1>13. accepted' => Asked(code', Trail', n)
  <2>1. \A o : ~Closes(code', o, n)  BY <1>4, <1>11, ClosesEnd
  <2>2. (\A k \in 1 .. n - 1 : code'[k].op = "call" => ~Around(code', k, n)) => ~InCall
    <3> SUFFICES ASSUME InCall PROVE \E k \in 1 .. n - 1 : code'[k].op = "call" /\ Around(code', k, n)
      OBVIOUS
    <3>1. PICK k \in 1 .. Len(frames) : frames[k].kind = "call"  BY DEF InCall, Kinds, TypeInv
    <3>2. FrameOK(k)  BY DEF FramesInv
    <3>3. /\ frames[k].at \in 1 .. Len(code) /\ code[frames[k].at].op = "call"
          /\ Around(code, frames[k].at, Len(code) + 1)
      BY <3>1, <3>2 DEF FrameOK
    <3>4. /\ code \in Seq(Instrs) /\ code' = Append(code, i) /\ Len(code) \in Nat
          /\ code'[frames[k].at] = code[frames[k].at]
      BY <1>1, <1>2, <1>3, <3>3, WriteFacts
    <3>5. Around(code', frames[k].at, n)
      <4>1. n \in 1 .. Len(code) + 1  BY <1>11, <3>4
      <4>2. Around(Append(code, i), frames[k].at, n) <=> Around(code, frames[k].at, n)
        BY <1>2, <3>4, <4>1, AroundAppend, Zenon
      <4> QED  BY <1>11, <3>3, <3>4, <4>2
    <3>6. frames[k].at \in 1 .. n - 1  BY <1>11, <3>3, <3>4
    <3> QED  BY <3>3, <3>4, <3>5, <3>6
  <2> QED  BY <1>3, <1>4, <1>11, <2>1, <2>2 DEF Asked
<1> QED  BY <1>1, <1>2, <1>3, <1>4, <1>9, <1>10, <1>11, <1>12, <1>13, PlainInv

LEMMA BreakInv ==
  ASSUME TypeInv, Static, FramesInv, Break
  PROVE  Static' /\ FramesInv'
<1> DEFINE i == Plain("break")
           new == [walk EXCEPT !.dead = TRUE]
<1>1. TypeInv'  BY BreakTypes
<1>2. i \in Instrs  BY InstrTypes DEF OpNames
<1>3. Write(i) /\ ~Jumped /\ frames' = frames /\ facts' = facts /\ minted' = minted /\ dropped' = dropped
      /\ walk' = Walked(walk, new) /\ ~InCall
  BY DEF Break, WalkTo, Walked
<1>4. i.op = "break"  BY DEF Plain, Instr
<1>5. /\ new.x = walk.x /\ new.result = walk.result /\ new.path = walk.path /\ new.prem = walk.prem
  BY DEF TypeInv, Walks
<1>6. walk' = (IF walk.dead THEN walk ELSE new)  BY <1>3 DEF Walked
<1> HIDE DEF i, new
<1>7. walk'.result = walk.result /\ (walk.dead => walk' = walk)  BY <1>5, <1>6
<1>8. StaysBlind  BY <1>3, <1>5, <1>6 DEF StaysBlind, Blind, BlindWalk
<1>9. StaysUnminted
  <2>1. \A m \in minted' + 1 .. MaxSymbols : m \in 1 .. MaxSymbols  BY <1>3 DEF TypeInv
  <2> QED  BY <2>1, <1>7, <1>8 DEF StaysBlind, StaysUnminted
<1>10. PlainStep(i)  BY <1>3, <1>4, <1>7, <1>8 DEF PlainStep, PlainOps
<1>11. PICK n \in Nat : n = Len(code) + 1 /\ code'[n] = i
  BY <1>1, <1>2, <1>3, NewStep
<1>12. Step(code', Trail', n)  BY <1>4, <1>11 DEF Step
<1>13. Asked(code', Trail', n)  BY <1>4, <1>11, AskedNothing
<1> QED  BY <1>1, <1>2, <1>3, <1>4, <1>9, <1>10, <1>11, <1>12, <1>13, PlainInv

(***************************************************************************)
(* Statements that open a block.                                           *)
(***************************************************************************)
OpenStep(i, F) ==
  /\ ~Jumped /\ Write(i) /\ i.op \in Openers
  /\ frames' = Append(frames, Frame(i.op, F)) /\ F \in SUBSET Worlds
  /\ i.op # "call" => F = Where(i.c, walk.x)
  /\ dropped \subseteq dropped' /\ minted' >= minted /\ facts' = facts
  /\ walk.dead => walk' = walk
  /\ i.op = "while" /\ InCall => Len(code) + 1 \in dropped'

LEMMA OpenFacts ==
  ASSUME TypeInv, TypeInv', NEW i \in Instrs, NEW F, OpenStep(i, F)
  PROVE  \E n \in Nat, top \in OpenBlocks :
           /\ n = Len(frames) /\ Len(frames') = n + 1 /\ frames'[n + 1] = top
           /\ \A k \in 1 .. n : frames'[k] = frames[k]
           /\ top.kind = i.op /\ top.at = Len(code) + 1 /\ top.outer = walk
           /\ top.cond = F /\ top.then = walk
<1>1. frames' = Append(frames, Frame(i.op, F)) /\ F \in SUBSET Worlds /\ i.op \in Openers  BY DEF OpenStep
<1>2. Frame(i.op, F) \in OpenBlocks  BY <1>1, FrameType DEF Openers, FrameKinds
<1>3. frames \in Seq(OpenBlocks)  BY DEF TypeInv
<1>4. /\ Frame(i.op, F).kind = i.op /\ Frame(i.op, F).at = Len(code) + 1 /\ Frame(i.op, F).outer = walk
      /\ Frame(i.op, F).cond = F /\ Frame(i.op, F).then = walk
  BY DEF Frame
<1>5. Len(frames) \in Nat  BY <1>3
<1>6. /\ Len(frames') = Len(frames) + 1 /\ frames'[Len(frames) + 1] = Frame(i.op, F)
      /\ \A k \in 1 .. Len(frames) : frames'[k] = frames[k]
  BY <1>1, <1>2, <1>3
<1> QED  BY <1>2, <1>4, <1>5, <1>6

LEMMA NewFrameOK ==
  ASSUME TypeInv, TypeInv', NEW i \in Instrs, NEW F, OpenStep(i, F), NEW n \in Nat, n = Len(frames)
  PROVE  FrameOK(n + 1)'
<1>0. Write(i) /\ i.op \in Openers /\ (i.op # "call" => F = Where(i.c, walk.x)) /\ (walk.dead => walk' = walk)
  BY DEF OpenStep
<1>1. PICK top \in OpenBlocks :
           /\ Len(frames') = n + 1 /\ frames'[n + 1] = top
           /\ top.kind = i.op /\ top.at = Len(code) + 1 /\ top.outer = walk
           /\ top.cond = F /\ top.then = walk
  BY OpenFacts
<1>2. /\ code \in Seq(Instrs) /\ code' = Append(code, i) /\ Len(code) \in Nat
      /\ Len(code') = Len(code) + 1 /\ Len(Trail') = Len(code) + 2
      /\ code'[Len(code) + 1] = i
      /\ \A j \in 1 .. Len(code) + 1 : Trail'[j] = Trail[j]
      /\ Trail[Len(code) + 1] = [walk |-> walk, facts |-> facts]
      /\ Trail'[Len(code) + 2] = [walk |-> walk', facts |-> facts']
  BY <1>0, WriteFacts
<1>3. PICK a \in Nat : a = Len(code) + 1  BY <1>2
<1>4. Trail'[a] = [walk |-> walk, facts |-> facts] /\ code'[a] = i /\ Len(code') = a /\ a \in 1 .. a
      /\ Trail'[a + 1] = [walk |-> walk', facts |-> facts'] /\ Len(Trail') = a + 1
  BY <1>2, <1>3
<1>5. Around(code', a, a + 1)
  <2>1. Around(Append(code, i), Len(code) + 1, Len(code) + 2)  BY <1>0, <1>2, AroundNext, Zenon
  <2>2. Len(code) + 2 = a + 1  BY <1>3, <1>2
  <2> QED  BY <1>2, <1>3, <2>1, <2>2
<1>6. Level(code', a, a) = 1
  <2>1. Level(code', a, a) = Delta(code'[a])  BY LevelOne
  <2> QED  BY <2>1, <1>0, <1>4 DEF Delta
<1>7. ElsesOf(code', a, a) = {}  BY <1>0, <1>4 DEF ElsesOf, Among, Openers
<1>8. top.kind # "else" /\ top.at = a  BY <1>0, <1>1, <1>3 DEF Openers
<1>9. i.op # "call" => F = CondAt(code', Trail', a)  BY <1>0, <1>4 DEF CondAt
<1>10. walk.dead => \A j \in a + 1 .. a + 1 : Trail'[j].walk.dead
  <2>1. \A j \in a + 1 .. a + 1 : j = a + 1  OBVIOUS
  <2> QED  BY <2>1, <1>0, <1>4
<1>11. Len(frames') - (n + 1) + 1 = 1  BY <1>1
<1>12. /\ top.at \in 1 .. Len(code')
       /\ code'[top.at].op = (IF top.kind = "else" THEN "if" ELSE top.kind)
       /\ Around(code', top.at, Len(code') + 1)
       /\ Level(code', top.at, Len(code')) = Len(frames') - (n + 1) + 1
       /\ top.outer = Trail'[top.at].walk
       /\ top.kind # "call" => top.cond = CondAt(code', Trail', top.at)
       /\ top.kind = "if" => ElsesOf(code', top.at, Len(code')) = {}
       /\ top.outer.dead => \A j \in top.at + 1 .. Len(Trail') : Trail'[j].walk.dead
  BY <1>1, <1>4, <1>5, <1>6, <1>7, <1>8, <1>9, <1>10, <1>11
<1> QED  BY <1>1, <1>8, <1>12 DEF FrameOK

LEMMA OpenKeepsCall ==
  ASSUME TypeInv, TypeInv', FramesInv, NEW i \in Instrs, NEW F, OpenStep(i, F),
         StaysBlind, walk'.result = walk.result, minted' = minted,
         NEW k \in 1 .. Len(frames), frames[k].kind = "call"
  PROVE  OpenCall(k)'
<1>0. Write(i) /\ ~Jumped /\ dropped \subseteq dropped' /\ (walk.dead => walk' = walk) /\ i.op \in Openers
  BY DEF OpenStep
<1>1. PICK n \in Nat, top \in OpenBlocks :
           /\ n = Len(frames) /\ Len(frames') = n + 1 /\ frames'[n + 1] = top
           /\ \A j \in 1 .. n : frames'[j] = frames[j]
           /\ top.kind = i.op /\ top.at = Len(code) + 1 /\ top.outer = walk
           /\ top.cond = F /\ top.then = walk
  BY OpenFacts
<1>2. Len(code) \in Nat /\ Len(code') = Len(code) + 1 /\ code'[Len(code) + 1] = i
  BY <1>0, WriteFacts
<1>3. PICK m \in 1 .. minted : /\ \A j \in 1 .. Len(Trail) : Blind(Trail[j], m)
                               /\ ~frames[k].outer.dead => CallWaits(k, m)
  BY DEF FramesInv, OpenCall
<1>4. m \in 1 .. MaxSymbols  BY <1>3, WpAssumption DEF TypeInv
<1>5. \A j \in 1 .. Len(Trail') : Blind(Trail'[j], m)  BY <1>0, <1>3, <1>4, BlindTrail
<1>6. ASSUME ~frames[k].outer.dead PROVE CallWaits(k, m)'
  <2>0. CallWaits(k, m)  BY <1>3, <1>6
  <2>1. walk.result = Symbol(m) /\ walk'.result = Symbol(m)  BY <2>0, <1>0 DEF CallWaits
  <2>2. \A j \in k + 1 .. Len(frames') :
          /\ frames'[j].outer.result = Symbol(m)
          /\ ~frames'[j].then.dead => frames'[j].then.result = Symbol(m)
    <3> TAKE j \in k + 1 .. Len(frames')
    <3>1. CASE j = n + 1  BY <3>1, <1>1, <2>1
    <3>2. CASE j \in k + 1 .. n
      <4>1. frames'[j] = frames[j]  BY <3>2, <1>1
      <4> QED  BY <4>1, <3>2, <1>1, <2>0 DEF CallWaits
    <3> QED  BY <3>1, <3>2, <1>1
  <2>3. ASSUME NEW p \in 1 .. Len(code'), NEW j \in k .. Len(frames'),
               Pending(code', Trail', dropped', p),
               frames'[j].at < p, j < Len(frames') => p < frames'[j + 1].at
        PROVE  Waits(p, j, m)'
    <3>1. p \in 1 .. Len(code)
      <4>1. p # Len(code) + 1  BY <2>3, <1>0, <1>2 DEF Pending, Openers
      <4> QED  BY <4>1, <1>2
    <3>2. j \in k .. n
      <4>1. j # n + 1  BY <2>3, <3>1, <1>1, <1>2
      <4> QED  BY <4>1, <1>1
    <3>3. Pending(code, Trail, dropped, p)  BY <3>1, <2>3, <1>0, PendingBefore
    <3>4. frames'[j] = frames[j]  BY <3>2, <1>1
    <3>5. j < n => p < frames[j + 1].at
      <4> SUFFICES ASSUME j < n PROVE p < frames[j + 1].at  OBVIOUS
      <4>1. frames'[j + 1] = frames[j + 1]  BY <3>2, <1>1
      <4> QED  BY <4>1, <2>3, <1>1
    <3>6. Waits(p, j, m)  BY <3>1, <3>2, <3>3, <3>4, <3>5, <2>3, <2>0, <1>1 DEF CallWaits
    <3>7. p # Len(code)  BY <3>3, <1>0, <1>2 DEF Jumped, Pending
    <3>8. ListWalk(j)' = ListWalk(j)
      <4>1. CASE j = n  BY <4>1, <1>1 DEF ListWalk
      <4>2. CASE j < n
        <5>1. frames'[j + 1] = frames[j + 1]  BY <3>2, <4>2, <1>1
        <5> QED  BY <5>1, <4>2, <1>1, <3>2 DEF ListWalk
      <4> QED  BY <4>1, <4>2, <3>2
    <3> QED  BY <3>4, <3>6, <3>7, <3>8 DEF Waits
  <2> QED  BY <2>1, <2>2, <2>3 DEF CallWaits
<1>7. frames'[k] = frames[k] /\ minted' = minted  BY <1>1
<1> QED  BY <1>3, <1>5, <1>6, <1>7 DEF OpenCall

LEMMA OpenInv ==
  ASSUME TypeInv, TypeInv', Static, FramesInv, NEW i \in Instrs, NEW F, OpenStep(i, F),
         Step(code', Trail', Len(code) + 1),
         accepted' => Asked(code', Trail', Len(code) + 1),
         StaysUnminted,
         i.op = "call" => ~InCall /\ \A n \in Nat : n = Len(frames) => OpenCall(n + 1)',
         i.op # "call" => StaysBlind /\ walk'.result = walk.result /\ minted' = minted
  PROVE  Static' /\ FramesInv'
<1>0. Write(i) /\ dropped \subseteq dropped' /\ (walk.dead => walk' = walk) /\ i.op \in Openers
      /\ facts' = facts /\ minted' >= minted /\ (i.op = "while" /\ InCall => Len(code) + 1 \in dropped')
  BY DEF OpenStep
<1>1. PICK n \in Nat, top \in OpenBlocks :
           /\ n = Len(frames) /\ Len(frames') = n + 1 /\ frames'[n + 1] = top
           /\ \A j \in 1 .. n : frames'[j] = frames[j]
           /\ top.kind = i.op /\ top.at = Len(code) + 1 /\ top.outer = walk
           /\ top.cond = F /\ top.then = walk
  BY OpenFacts
<1>2. i.op # "end" /\ i.op # "else" /\ Delta(i) = 1  BY <1>0 DEF Openers, Delta
<1>3. Static'
  <2>1. \A o : IsOpen(o) => IsOpen(o)'
    <3> TAKE o
    <3> HAVE IsOpen(o)
    <3>1. PICK j \in 1 .. n : frames[j].at = o  BY <1>1 DEF IsOpen
    <3>2. frames'[j].at = o /\ j \in 1 .. Len(frames')  BY <3>1, <1>1
    <3> QED  BY <3>2 DEF IsOpen
  <2>2. \E j \in 1 .. Len(frames') : frames'[j].at = Len(code) + 1
    <3>1. n + 1 \in 1 .. Len(frames')  BY <1>1
    <3> QED  BY <3>1, <1>1
  <2>3. \A m \in minted' + 1 .. MaxSymbols :
          Blind([walk |-> walk', facts |-> facts'], m) /\ BlindTerm(walk'.result, m)
    BY <1>0, UnmintedAfter DEF Static
  <2> QED  BY <1>0, <1>2, <2>1, <2>2, <2>3, WriteStatic
<1>4. \A k \in 1 .. Len(frames') : FrameOK(k)'
  <2> TAKE k \in 1 .. Len(frames')
  <2>1. CASE k = n + 1
    <3>1. FrameOK(n + 1)'  BY <1>1, NewFrameOK
    <3> QED  BY <3>1, <2>1
  <2>2. CASE k \in 1 .. n
    <3>1. FrameOK(k)  BY <2>2, <1>1 DEF FramesInv
    <3>2. frames[k].outer.dead => walk'.dead  BY <3>1, <2>2, <1>1, <1>0, DeadOuter
    <3>3. Len(frames') = Len(frames) + Delta(i) /\ k <= Len(frames') /\ frames'[k] = frames[k]
          /\ k \in 1 .. Len(frames)
      BY <1>1, <1>2, <2>2
    <3> QED  BY <1>0, <1>2, <3>1, <3>2, <3>3, KeptFrame
  <2> QED  BY <2>1, <2>2, <1>1
<1>5. \A k \in 1 .. Len(frames') : frames'[k].kind = "call" => OpenCall(k)'
  <2> SUFFICES ASSUME NEW k \in 1 .. Len(frames'), frames'[k].kind = "call" PROVE OpenCall(k)'  OBVIOUS
  <2>1. CASE k = n + 1
    <3>1. OpenCall(n + 1)'  BY <2>1, <1>1
    <3> QED  BY <3>1, <2>1, <1>1
  <2>2. CASE k \in 1 .. n
    <3>1. frames[k].kind = "call" /\ k \in 1 .. Len(frames)  BY <2>2, <1>1
    <3>2. InCall  BY <3>1 DEF InCall, Kinds
    <3> QED  BY <3>1, <3>2, OpenKeepsCall
  <2> QED  BY <2>1, <2>2, <1>1
<1>6. \A j, k \in 1 .. Len(frames') :
       /\ j < k => frames'[j].at < frames'[k].at
       /\ frames'[j].kind = "call" /\ frames'[k].kind = "call" => j = k
       /\ frames'[j].kind = "call" /\ frames'[k].kind = "while" /\ j < k => frames'[k].at \in dropped'
  <2> TAKE j, k \in 1 .. Len(frames')
  <2>0. \A l \in 1 .. n : /\ frames'[l] = frames[l] /\ frames[l].at \in 1 .. Len(code)
                          /\ frames[l].kind = "call" => InCall
    BY <1>1 DEF FramesInv, FrameOK, InCall, Kinds
  <2>1. CASE j \in 1 .. n /\ k \in 1 .. n
    <3>1. frames'[j] = frames[j] /\ frames'[k] = frames[k]  BY <2>0, <2>1
    <3> QED  BY <2>1, <3>1, <1>0, <1>1 DEF FramesInv
  <2>2. CASE j \in 1 .. n /\ k = n + 1
    <3>1. frames'[k] = top /\ frames'[j] = frames[j] /\ frames[j].at < top.at
      BY <2>0, <2>2, <1>1
    <3> QED  BY <3>1, <2>0, <2>2, <1>0, <1>1
  <2>3. CASE j = n + 1 /\ k \in 1 .. n
    <3>1. ~(j < k) /\ frames'[j] = top /\ frames'[k] = frames[k]  BY <2>0, <2>3, <1>1
    <3> QED  BY <3>1, <2>0, <2>3, <1>0, <1>1
  <2>4. CASE j = n + 1 /\ k = n + 1  BY <2>4
  <2> QED  BY <2>1, <2>2, <2>3, <2>4, <1>1
<1> QED  BY <1>3, <1>4, <1>5, <1>6 DEF FramesInv

LEMMA IfInv ==
  ASSUME TypeInv, Static, FramesInv, NEW c \in Guards, If(c)
  PROVE  Static' /\ FramesInv'
<1> DEFINE i == Conditional("if", c)
           F == Where(c, walk.x)
           new == [walk EXCEPT !.path = @ \cap F]
<1>1. TypeInv'  BY IfTypes
<1>2. i \in Instrs  BY InstrTypes DEF OpNames
<1>3. /\ Write(i) /\ ~Jumped /\ frames' = Append(frames, Frame("if", F))
      /\ facts' = facts /\ minted' = minted /\ dropped' = dropped
      /\ walk' = Walked(walk, new)
  BY DEF If, WalkTo, Walked
<1>4. i.op = "if" /\ i.c = c  BY DEF Conditional, Instr
<1>5. /\ new.x = walk.x /\ new.result = walk.result /\ new.path = walk.path \cap F
      /\ new.prem = walk.prem /\ walk.dead \in BOOLEAN /\ walk.x \in Terms
  BY DEF TypeInv, Walks
<1>6. F \in SUBSET Worlds  BY WhereType
<1>7. \A m \in 1 .. MaxSymbols : BlindTerm(walk.x, m) => BlindSet(F, m)  BY <1>5, BlindWhere
<1> HIDE DEF i, F
<1>8. OpenStep(i, F)
  <2>1. walk.dead => walk' = walk  BY <1>3 DEF Walked
  <2>2. F = Where(i.c, walk.x)  BY <1>4 DEF F
  <2>3. minted' >= minted  BY <1>3 DEF TypeInv
  <2> QED  BY <1>3, <1>4, <1>6, <2>1, <2>2, <2>3 DEF OpenStep, Openers
<1> HIDE DEF new
<1>9. walk' = walk \/ walk' = new  BY <1>3 DEF Walked
<1>10. StaysBlind
  <2> SUFFICES ASSUME NEW m \in 1 .. MaxSymbols, Blind([walk |-> walk, facts |-> facts], m)
               PROVE  Blind([walk |-> walk', facts |-> facts'], m)
    BY DEF StaysBlind
  <2>1. BlindTerm(walk.x, m) /\ BlindSet(walk.path, m) /\ BlindSet(walk.prem, m) /\ BlindSet(facts, m)
    BY DEF Blind, BlindWalk
  <2>2. BlindSet(walk.path \cap F, m)  BY <2>1, <1>7, BlindSets
  <2> QED  BY <1>3, <1>5, <1>9, <2>1, <2>2 DEF Blind, BlindWalk
<1>11. walk'.result = walk.result  BY <1>5, <1>9
<1>12. StaysUnminted
  <2>1. \A m \in minted' + 1 .. MaxSymbols : m \in 1 .. MaxSymbols  BY <1>3 DEF TypeInv
  <2> QED  BY <2>1, <1>10, <1>11 DEF StaysBlind, StaysUnminted
<1>13. PICK n \in Nat : /\ n = Len(code) + 1 /\ code'[n] = i /\ Trail'[n].walk = walk
                        /\ Trail'[n + 1].walk = walk'
  BY <1>1, <1>2, <1>3, NewStep
<1>14. Step(code', Trail', n)
  <2>1. CondAt(code', Trail', n) = F  BY <1>4, <1>13 DEF CondAt, F
  <2> QED  BY <1>3, <1>4, <1>13, <2>1 DEF Step, new
<1>15. Asked(code', Trail', n)  BY <1>4, <1>13, AskedNothing
<1> QED  BY <1>1, <1>2, <1>3, <1>4, <1>8, <1>10, <1>11, <1>12, <1>13, <1>14, <1>15, OpenInv

LEMMA WhileInv ==
  ASSUME TypeInv, Static, FramesInv, NEW c \in Guards, NEW inv \in Invariants, While(c, inv)
  PROVE  Static' /\ FramesInv'
<1> DEFINE i == Instr("while", c, inv, "zero")
           F == Where(c, walk.x)
           J == Where(inv, walk.x)
           new == IF inv = NoInvariant THEN [walk EXCEPT !.path = {}]
                  ELSE [walk EXCEPT !.path = @ \cap F, !.prem = @ \cap walk.path \cap F \cap J]
<1>1. TypeInv'  BY WhileTypes
<1>2. i \in Instrs  BY InstrTypes
<1>3. /\ Write(i) /\ ~Jumped /\ frames' = Append(frames, Frame("while", F))
      /\ facts' = facts /\ minted' = minted
      /\ dropped' = IF InCall THEN dropped \cup {Len(code) + 1} ELSE dropped
      /\ walk' = Walked(walk, new)
      /\ accepted' = (walk.dead \/ (walk.prem \cap walk.path \cap F) \cap facts \subseteq J)
  BY DEF While, WalkTo, Walked, Discharge
<1>4. i.op = "while" /\ i.c = c /\ i.inv = inv  BY DEF Instr
<1>5. /\ new.x = walk.x /\ new.result = walk.result
      /\ new.path = {} \/ new.path = walk.path \cap F
      /\ new.prem = walk.prem \/ new.prem = walk.prem \cap walk.path \cap F \cap J
      /\ walk.dead \in BOOLEAN /\ walk.x \in Terms
  BY DEF TypeInv, Walks
<1>6. F \in SUBSET Worlds  BY WhereType
<1>7. \A m \in 1 .. MaxSymbols : BlindTerm(walk.x, m) => BlindSet(F, m) /\ BlindSet(J, m)
  BY <1>5, BlindWhere
<1> HIDE DEF i, F, J, new
<1>8. OpenStep(i, F)
  <2>1. walk.dead => walk' = walk  BY <1>3 DEF Walked
  <2>2. F = Where(i.c, walk.x)  BY <1>4 DEF F
  <2>3. minted' >= minted /\ dropped \subseteq dropped' /\ (InCall => Len(code) + 1 \in dropped')
    BY <1>3 DEF TypeInv
  <2> QED  BY <1>3, <1>4, <1>6, <2>1, <2>2, <2>3 DEF OpenStep, Openers
<1>9. walk' = walk \/ walk' = new  BY <1>3 DEF Walked
<1>10. StaysBlind
  <2> SUFFICES ASSUME NEW m \in 1 .. MaxSymbols, Blind([walk |-> walk, facts |-> facts], m)
               PROVE  Blind([walk |-> walk', facts |-> facts'], m)
    BY DEF StaysBlind
  <2>1. BlindTerm(walk.x, m) /\ BlindSet(walk.path, m) /\ BlindSet(walk.prem, m) /\ BlindSet(facts, m)
    BY DEF Blind, BlindWalk
  <2>2. BlindSet({}, m) /\ BlindSet(walk.path \cap F, m)  BY <2>1, <1>7, BlindSets
  <2>3. BlindSet(walk.prem \cap walk.path, m)  BY <2>1, BlindSets
  <2>4. BlindSet(walk.prem \cap walk.path \cap F, m)  BY <2>1, <2>3, <1>7, BlindSets
  <2>5. BlindSet(walk.prem \cap walk.path \cap F \cap J, m)  BY <2>1, <2>4, <1>7, BlindSets
  <2>6. BlindSet(new.path, m) /\ BlindSet(new.prem, m)  BY <1>5, <2>1, <2>2, <2>5
  <2> QED  BY <1>3, <1>5, <1>9, <2>1, <2>6 DEF Blind, BlindWalk
<1>11. walk'.result = walk.result  BY <1>5, <1>9
<1>12. StaysUnminted
  <2>1. \A m \in minted' + 1 .. MaxSymbols : m \in 1 .. MaxSymbols  BY <1>3 DEF TypeInv
  <2> QED  BY <2>1, <1>10, <1>11 DEF StaysBlind, StaysUnminted
<1>13. PICK n \in Nat : /\ n = Len(code) + 1 /\ code'[n] = i /\ Trail'[n].walk = walk
                        /\ Trail'[n].facts = facts /\ Trail'[n + 1].walk = walk'
  BY <1>1, <1>2, <1>3, NewStep
<1>14. CondAt(code', Trail', n) = F  BY <1>4, <1>13 DEF CondAt, F
<1>15. Step(code', Trail', n)
  <2>1. inv = NoInvariant => walk' = Walked(walk, [walk EXCEPT !.path = {}])  BY <1>3 DEF new
  <2>2. inv # NoInvariant => walk' = Walked(walk,
          [walk EXCEPT !.path = @ \cap F, !.prem = @ \cap walk.path \cap F \cap J])
    BY <1>3 DEF new
  <2> QED  BY <1>4, <1>13, <1>14, <2>1, <2>2 DEF Step, J
<1>16. accepted' => Asked(code', Trail', n)
  <2>1. \A o : ~Closes(code', o, n)  BY <1>4, <1>13, ClosesEnd
  <2> QED  BY <1>3, <1>4, <1>13, <1>14, <2>1 DEF Asked, J
<1> QED  BY <1>1, <1>2, <1>3, <1>4, <1>8, <1>10, <1>11, <1>12, <1>13, <1>15, <1>16, OpenInv

LEMMA CallInv ==
  ASSUME TypeInv, Static, FramesInv, Call
  PROVE  Static' /\ FramesInv'
<1>0. PICK q \in Nat : q = minted + 1  BY DEF TypeInv
<1> DEFINE i == Plain("call")
           new == [walk EXCEPT !.prem = Worlds, !.result = Symbol(q)]
<1>1. TypeInv'  BY CallTypes
<1>2. i \in Instrs  BY InstrTypes DEF OpNames
<1>3. /\ Write(i) /\ ~Jumped /\ ~InCall /\ frames' = Append(frames, Frame("call", Worlds))
      /\ facts' = facts /\ minted' = q /\ dropped' = dropped /\ minted < MaxSymbols
      /\ walk' = Walked(walk, new)
  BY <1>0 DEF Call, WalkTo, Walked
<1>4. i.op = "call"  BY DEF Plain, Instr
<1>5. /\ new.x = walk.x /\ new.result = Symbol(q) /\ new.path = walk.path
      /\ new.prem = Worlds /\ walk.dead \in BOOLEAN /\ new.dead = walk.dead
      /\ (~walk.dead => new = [walk EXCEPT !.prem = Worlds, !.result = new.result])
  BY DEF TypeInv, Walks
<1>6. minted \in 0 .. MaxSymbols /\ q \in 1 .. MaxSymbols /\ q \in minted + 1 .. MaxSymbols /\ q > minted
  BY <1>0, <1>3, WpAssumption DEF TypeInv
<1> HIDE DEF i, new
<1>7. OpenStep(i, Worlds)
  <2>1. walk.dead => walk' = walk  BY <1>3 DEF Walked
  <2>2. minted' >= minted  BY <1>3, <1>6
  <2> QED  BY <1>3, <1>4, <2>1, <2>2 DEF OpenStep, Openers
<1>8. walk' = (IF walk.dead THEN walk ELSE new)  BY <1>3 DEF Walked
<1>9. StaysBlind
  <2> SUFFICES ASSUME NEW m \in 1 .. MaxSymbols, Blind([walk |-> walk, facts |-> facts], m)
               PROVE  Blind([walk |-> walk', facts |-> facts'], m)
    BY DEF StaysBlind
  <2>1. BlindTerm(walk.x, m) /\ BlindSet(walk.path, m) /\ BlindSet(walk.prem, m) /\ BlindSet(facts, m)
    BY DEF Blind, BlindWalk
  <2>2. BlindSet(Worlds, m)  BY BlindSets
  <2> QED  BY <1>3, <1>5, <1>8, <2>1, <2>2 DEF Blind, BlindWalk
<1>10. StaysUnminted
  <2> SUFFICES ASSUME NEW m \in minted' + 1 .. MaxSymbols, BlindTerm(walk.result, m)
               PROVE  BlindTerm(walk'.result, m)
    <3>1. \A m \in minted' + 1 .. MaxSymbols : m \in 1 .. MaxSymbols  BY <1>3, <1>6
    <3> QED  BY <3>1, <1>9 DEF StaysBlind, StaysUnminted
  <2>1. m \in 1 .. MaxSymbols /\ m # q /\ q \in 0 .. MaxSymbols  BY <1>3, <1>6
  <2>2. BlindTerm(Symbol(q), m)  BY <2>1, BlindSymbol
  <2> QED  BY <2>2, <1>5, <1>8
<1>11. ASSUME NEW n \in Nat, n = Len(frames) PROVE OpenCall(n + 1)'
  <2>1. PICK top \in OpenBlocks :
           /\ Len(frames') = n + 1 /\ frames'[n + 1] = top
           /\ top.at = Len(code) + 1 /\ top.outer = walk /\ top.kind = "call"
    BY <1>1, <1>2, <1>4, <1>7, <1>11, OpenFacts
  <2>2. q \in 1 .. minted'  BY <1>3, <1>6
  <2>3. \A j \in 1 .. Len(Trail') : Blind(Trail'[j], q)
    <3>1. \A j \in 1 .. Len(Trail) : Blind(Trail[j], q)  BY <1>6 DEF Static, BlindInv
    <3> QED  BY <3>1, <1>1, <1>2, <1>3, <1>6, <1>9, BlindTrail
  <2>4. ASSUME ~walk.dead PROVE CallWaits(n + 1, q)'
    <3>1. walk'.result = Symbol(q)  BY <2>4, <1>5, <1>8
    <3>2. \A j \in n + 2 .. Len(frames') : FALSE  BY <2>1
    <3>3. Len(code') = Len(code) + 1 /\ code'[Len(code) + 1] = i /\ Len(code) \in Nat
      BY <1>1, <1>2, <1>3, WriteFacts
    <3>4. ASSUME NEW p \in 1 .. Len(code'), NEW j \in n + 1 .. Len(frames'),
                 Pending(code', Trail', dropped', p), frames'[j].at < p
          PROVE  FALSE
      <4>1. j = n + 1  BY <2>1
      <4> QED  BY <4>1, <3>3, <3>4, <2>1
    <3>5. \A j \in (n + 1) + 1 .. Len(frames') : FALSE  BY <2>1
    <3> QED  BY <3>1, <3>4, <3>5 DEF CallWaits
  <2> QED  BY <2>1, <2>2, <2>3, <2>4 DEF OpenCall
<1>12. PICK n \in Nat : /\ n = Len(code) + 1 /\ code'[n] = i /\ Trail'[n].walk = walk
                        /\ Trail'[n + 1].walk = walk'
  BY <1>1, <1>2, <1>3, NewStep
<1>13. Step(code', Trail', n)
  <2>1. walk' = Walked(walk, [walk EXCEPT !.prem = Worlds, !.result = walk'.result])
    BY <1>5, <1>8 DEF Walked
  <2> QED  BY <1>4, <1>12, <2>1 DEF Step
<1>14. Asked(code', Trail', n)  BY <1>4, <1>12, AskedNothing
<1> QED  BY <1>1, <1>2, <1>3, <1>4, <1>7, <1>10, <1>11, <1>12, <1>13, <1>14, OpenInv

(***************************************************************************)
(* The else of an if.                                                      *)
(***************************************************************************)
\* An open statement inside one that is in a dead list is in a dead list.
LEMMA OuterDead ==
  ASSUME TypeInv, FramesInv, NEW j \in 1 .. Len(frames), NEW k \in 1 .. Len(frames), j < k,
         frames[j].outer.dead
  PROVE  frames[k].outer.dead
<1>1. FrameOK(j) /\ FrameOK(k) /\ frames[j].at < frames[k].at  BY DEF FramesInv
<1>2. Len(Trail) = Len(code) + 1 /\ Len(code) \in Nat  BY TrailType DEF TypeInv
<1>3. /\ frames[j].at \in 1 .. Len(code) /\ frames[k].at \in 1 .. Len(code)
      /\ frames[k].outer = Trail[frames[k].at].walk
      /\ \A i \in frames[j].at + 1 .. Len(Trail) : Trail[i].walk.dead
  BY <1>1 DEF FrameOK
<1>4. frames[k].at \in frames[j].at + 1 .. Len(Trail)  BY <1>1, <1>2, <1>3
<1> QED  BY <1>3, <1>4

LEMMA BlindAfter ==
  ASSUME TypeInv, TypeInv', NEW i \in Instrs, Write(i), NEW m,
         \A j \in 1 .. Len(Trail) : Blind(Trail[j], m),
         Blind([walk |-> walk', facts |-> facts'], m)
  PROVE  \A j \in 1 .. Len(Trail') : Blind(Trail'[j], m)
<1>1. /\ Len(Trail) = Len(code) + 1 /\ Len(code) \in Nat /\ Len(Trail') = Len(code) + 2
      /\ \A j \in 1 .. Len(code) + 1 : Trail'[j] = Trail[j]
      /\ Trail'[Len(code) + 2] = [walk |-> walk', facts |-> facts']
  BY WriteFacts
<1> TAKE j \in 1 .. Len(Trail')
<1>2. j \in 1 .. Len(code) + 1 \/ j = Len(code) + 2  BY <1>1
<1> QED  BY <1>1, <1>2

\* The innermost open statement, n of them being open.
LEMMA TopFacts ==
  ASSUME TypeInv, FramesInv, frames # <<>>
  PROVE  \E n \in Nat, a \in Nat :
           /\ n = Len(frames) /\ n \in 1 .. Len(frames) /\ Top = frames[n] /\ Top \in OpenBlocks
           /\ a = Top.at /\ FrameOK(n)
           /\ a \in 1 .. Len(code) /\ Around(code, a, Len(code) + 1) /\ Level(code, a, Len(code)) = 1
           /\ code[a].op = (IF Top.kind = "else" THEN "if" ELSE Top.kind)
           /\ Top.outer = Trail[a].walk
           /\ Top.kind # "call" => Top.cond = CondAt(code, Trail, a)
           /\ Top.kind = "if" => ElsesOf(code, a, Len(code)) = {}
           /\ \A k \in 1 .. n - 1 : k < n /\ k \in 1 .. Len(frames)
<1>1. frames \in Seq(OpenBlocks) /\ Len(frames) \in 1 .. Len(frames) /\ Top \in OpenBlocks
  BY TopType DEF TypeInv
<1>2. PICK n \in Nat : n = Len(frames)  BY <1>1
<1>3. FrameOK(n) /\ Top = frames[n] /\ n \in 1 .. Len(frames)  BY <1>1, <1>2 DEF FramesInv, Top
<1>4. PICK a \in Nat : a = Top.at  BY <1>1 DEF OpenBlocks
<1>5. /\ a \in 1 .. Len(code) /\ Around(code, a, Len(code) + 1) /\ Level(code, a, Len(code)) = n - n + 1
      /\ code[a].op = (IF Top.kind = "else" THEN "if" ELSE Top.kind)
      /\ Top.outer = Trail[a].walk
      /\ Top.kind # "call" => Top.cond = CondAt(code, Trail, a)
      /\ Top.kind = "if" => ElsesOf(code, a, Len(code)) = {}
  BY <1>2, <1>3, <1>4 DEF FrameOK
<1>6. n - n + 1 = 1 /\ \A k \in 1 .. n - 1 : k < n /\ k \in 1 .. Len(frames)  BY <1>2
<1> QED  BY <1>1, <1>2, <1>3, <1>4, <1>5, <1>6

LEMMA ElseFrames ==
  ASSUME TypeInv, FramesInv, Else
  PROVE  \E n \in Nat, top \in OpenBlocks :
           /\ n = Len(frames) /\ n \in 1 .. n /\ Len(frames') = n /\ frames'[n] = top
           /\ \A k \in 1 .. n - 1 : frames'[k] = frames[k]
           /\ top.kind = "else" /\ top.at = Top.at /\ top.outer = Top.outer
           /\ top.cond = Top.cond /\ top.then = walk
<1> DEFINE top == [Top EXCEPT !.kind = "else", !.then = walk]
<1>1. /\ Len(frames) \in 1 .. Len(frames) /\ Top \in OpenBlocks /\ Pop \in Seq(OpenBlocks)
      /\ Len(Pop) = Len(frames) - 1 /\ \A k \in 1 .. Len(frames) - 1 : Pop[k] = frames[k]
      /\ frames' = Append(Pop, top)
  BY TopType DEF Else
<1>2. top \in OpenBlocks
  BY <1>1 DEF OpenBlocks, FrameKinds, TypeInv
<1>3. /\ top.kind = "else" /\ top.at = Top.at /\ top.outer = Top.outer
      /\ top.cond = Top.cond /\ top.then = walk
  BY <1>1 DEF OpenBlocks
<1> HIDE DEF top
<1>4. PICK n \in Nat : n = Len(frames)  BY <1>1
<1>5. n - 1 \in Nat /\ Len(Pop) + 1 = n /\ Len(Pop) = n - 1  BY <1>1, <1>4
<1>6. /\ Len(frames') = n /\ frames'[n] = top /\ \A k \in 1 .. n - 1 : frames'[k] = Pop[k]
  BY <1>1, <1>2, <1>5, AppendAt
<1> QED  BY <1>1, <1>2, <1>3, <1>4, <1>6

LEMMA ElseFrameOK ==
  ASSUME TypeInv, TypeInv', FramesInv, Else, NEW n \in Nat, n = Len(frames)
  PROVE  FrameOK(n)'
<1> DEFINE i == Plain("else")
<1>1. PICK a \in Nat :
           /\ Top = frames[n] /\ Top \in OpenBlocks /\ a = Top.at /\ FrameOK(n)
           /\ a \in 1 .. Len(code) /\ Around(code, a, Len(code) + 1) /\ Level(code, a, Len(code)) = 1
           /\ code[a].op = (IF Top.kind = "else" THEN "if" ELSE Top.kind)
           /\ Top.outer = Trail[a].walk
           /\ Top.kind # "call" => Top.cond = CondAt(code, Trail, a)
           /\ Top.kind = "if" => ElsesOf(code, a, Len(code)) = {}
  BY TopFacts DEF Else
<1>2. PICK top \in OpenBlocks :
           /\ Len(frames') = n /\ frames'[n] = top
           /\ top.kind = "else" /\ top.at = a /\ top.outer = Top.outer
           /\ top.cond = Top.cond /\ top.then = walk
  BY <1>1, ElseFrames
<1>3. i \in Instrs /\ i.op = "else" /\ Delta(i) = 0
  BY InstrTypes DEF OpNames, Delta, Openers
<1>4. Write(i) /\ Top.kind = "if" /\ walk' = ElsePath(Top)  BY DEF Else
<1> HIDE DEF i
<1>5. /\ code \in Seq(Instrs) /\ code' = Append(code, i) /\ Len(code) \in Nat
      /\ Len(code') = Len(code) + 1 /\ Len(Trail') = Len(code) + 2 /\ Len(Trail) = Len(code) + 1
      /\ \A j \in 1 .. Len(code) : code'[j] = code[j]
      /\ \A j \in 1 .. Len(code) + 1 : Trail'[j] = Trail[j]
      /\ Trail[Len(code) + 1] = [walk |-> walk, facts |-> facts]
      /\ Trail'[Len(code) + 2] = [walk |-> walk', facts |-> facts']
  BY <1>3, <1>4, WriteFacts
<1>6. code'[a] = code[a] /\ Trail'[a] = Trail[a]  BY <1>1, <1>5
<1>7. CondAt(code', Trail', a) = Top.cond  BY <1>1, <1>4, <1>6 DEF CondAt
<1>8. walk' = OtherArm(code', Trail', a)
  <2>1. Top.outer \in Walks  BY <1>1 DEF OpenBlocks
  <2>2. walk' = [Top.outer EXCEPT !.path = Top.outer.path \ Top.cond]  BY <1>4, <2>1, ElsePathType
  <2> QED  BY <2>2, <1>1, <1>6, <1>7 DEF OtherArm
<1>9. walk'.dead = Top.outer.dead
  <2>1. Top.outer \in Walks  BY <1>1 DEF OpenBlocks
  <2> QED  BY <2>1, <1>4, ElsePathType DEF Walks
<1>10. Around(code', a, Len(code) + 2)
  <2>1. Level(code, a, Len(code)) + Delta(i) >= 1  BY <1>1, <1>3
  <2> QED  BY <1>1, <1>3, <1>5, <2>1, AroundNext, Zenon
<1>11. Level(code', a, Len(code) + 1) = 1
  <2>1. a \in 1 .. Len(code) + 1 /\ Len(code) \in Int  BY <1>1, <1>5
  <2>2. Level(code', a, Len(code) + 1) = Level(code, a, Len(code)) + Delta(i)
    <3>1. code \in Seq(Instrs) /\ i \in Instrs /\ code' = Append(code, i)  BY <1>3, <1>5
    <3>2. Level(Append(code, i), a, Len(code) + 1) = Level(code, a, Len(code)) + Delta(i)
      BY <2>1, <3>1, LevelAppend, Zenon
    <3> QED  BY <3>1, <3>2
  <2> QED  BY <2>2, <1>1, <1>3
<1>12. ElsesOf(code', a, Len(code) + 1) = {Len(code) + 1}
  <2>1. Len(code) \in 1 .. Len(code)  BY <1>1, <1>5
  <2>2. ElsesOf(Append(code, i), a, Len(code) + 1)
          = ElsesOf(code, a, Len(code))
              \cup IF i.op = "else" /\ Level(code, a, Len(code)) = 1 THEN {Len(code) + 1} ELSE {}
    <3>1. a \in 1 .. Len(code) /\ code \in Seq(Instrs)  BY <1>1, <1>5
    <3> QED  BY <3>1, <2>1, <1>3, ElsesAppend
  <2> QED  BY <2>2, <1>1, <1>3, <1>4, <1>5
<1>13. PICK b \in Nat : b = Len(code) + 1  BY <1>5
<1>14. /\ b \in a + 1 .. Len(code') /\ ElsesOf(code', a, Len(code')) = {b}
       /\ top.then = Trail'[b].walk /\ Trail'[b + 1].walk = OtherArm(code', Trail', a)
  BY <1>1, <1>2, <1>5, <1>8, <1>12, <1>13
<1>15. Top.outer.dead => \A j \in a + 1 .. Len(Trail') : Trail'[j].walk.dead
  <2> SUFFICES ASSUME Top.outer.dead, NEW j \in a + 1 .. Len(Trail') PROVE Trail'[j].walk.dead
    OBVIOUS
  <2>1. CASE j = Len(code) + 2
    <3>1. Trail'[j].walk = walk'  BY <2>1, <1>5
    <3> QED  BY <3>1, <1>9
  <2>2. CASE j # Len(code) + 2
    <3>1. j \in 1 .. Len(code) + 1 /\ j \in a + 1 .. Len(Trail)  BY <2>2, <1>1, <1>5
    <3>2. Trail[j].walk.dead  BY <3>1, <1>1 DEF FrameOK
    <3> QED  BY <3>1, <3>2, <1>5
  <2> QED  BY <2>1, <2>2
<1>16. Len(frames') - n + 1 = 1 /\ Len(code') + 1 = Len(code) + 2 /\ a \in 1 .. Len(code')
  BY <1>1, <1>2, <1>5
<1>17. /\ top.at \in 1 .. Len(code')
       /\ code'[top.at].op = (IF top.kind = "else" THEN "if" ELSE top.kind)
       /\ Around(code', top.at, Len(code') + 1)
       /\ Level(code', top.at, Len(code')) = Len(frames') - n + 1
       /\ top.outer = Trail'[top.at].walk
       /\ top.cond = CondAt(code', Trail', top.at)
       /\ \E j \in top.at + 1 .. Len(code') :
            /\ ElsesOf(code', top.at, Len(code')) = {j}
            /\ top.then = Trail'[j].walk
            /\ Trail'[j + 1].walk = OtherArm(code', Trail', top.at)
       /\ top.outer.dead => \A j \in top.at + 1 .. Len(Trail') : Trail'[j].walk.dead
  BY <1>1, <1>2, <1>4, <1>5, <1>6, <1>7, <1>10, <1>11, <1>14, <1>15, <1>16
<1> QED  BY <1>2, <1>17 DEF FrameOK

LEMMA ElseBlind ==
  ASSUME TypeInv, FramesInv, Else, NEW m \in 1 .. MaxSymbols,
         \A j \in 1 .. Len(Trail) : Blind(Trail[j], m)
  PROVE  Blind([walk |-> walk', facts |-> facts'], m)
<1>1. PICK n \in Nat, a \in Nat :
           /\ Top = frames[n] /\ Top \in OpenBlocks
           /\ a \in 1 .. Len(code) /\ Top.outer = Trail[a].walk
           /\ Top.kind # "call" => Top.cond = CondAt(code, Trail, a)
  BY TopFacts DEF Else
<1>2. Len(Trail) = Len(code) + 1 /\ Len(code) \in Nat /\ Trail[Len(code) + 1] = [walk |-> walk, facts |-> facts]
  BY TrailType DEF TypeInv
<1>3. a \in 1 .. Len(Trail) /\ Len(code) + 1 \in 1 .. Len(Trail)  BY <1>1, <1>2
<1>4. BlindWalk(Top.outer, m) /\ BlindSet(facts, m)  BY <1>1, <1>2, <1>3 DEF Blind
<1>5. Top.outer \in Walks /\ Top.outer.x \in Terms  BY <1>1 DEF OpenBlocks, Walks
<1>6. BlindSet(Top.cond, m)
  <2>1. Top.cond = Where(code[a].c, Top.outer.x)  BY <1>1 DEF Else, CondAt
  <2> QED  BY <2>1, <1>4, <1>5, BlindWhere DEF BlindWalk
<1>7. BlindSet(Top.outer.path \ Top.cond, m)  BY <1>4, <1>6, BlindSets DEF BlindWalk
<1>8. walk' = [Top.outer EXCEPT !.path = Top.outer.path \ Top.cond] /\ facts' = facts
  BY <1>5, ElsePathType DEF Else
<1>9. walk'.x = Top.outer.x /\ walk'.path = Top.outer.path \ Top.cond /\ walk'.prem = Top.outer.prem
  BY <1>5, <1>8 DEF Walks
<1> QED  BY <1>4, <1>7, <1>8, <1>9 DEF Blind, BlindWalk

LEMMA ElseCall ==
  ASSUME TypeInv, TypeInv', FramesInv, Else, NEW k \in 1 .. Len(frames) - 1, frames[k].kind = "call"
  PROVE  OpenCall(k)'
<1> DEFINE i == Plain("else")
<1>1. PICK n \in Nat, top \in OpenBlocks :
           /\ n = Len(frames) /\ n \in 1 .. n /\ Len(frames') = n /\ frames'[n] = top
           /\ \A j \in 1 .. n - 1 : frames'[j] = frames[j]
           /\ top.kind = "else" /\ top.at = Top.at /\ top.outer = Top.outer
           /\ top.cond = Top.cond /\ top.then = walk
  BY ElseFrames
<1>2. Top = frames[n] /\ Top.kind = "if" /\ Top.outer \in Walks /\ k \in 1 .. n - 1
  BY <1>1, TopType DEF Else, Top, OpenBlocks
<1>3. i \in Instrs /\ i.op = "else"  BY InstrTypes DEF OpNames
<1>4. Write(i) /\ walk' = ElsePath(Top) /\ dropped' = dropped /\ minted' = minted  BY DEF Else
<1> HIDE DEF i
<1>5. walk'.result = Top.outer.result  BY <1>2, <1>4, ElsePathType DEF Walks
<1>6. Len(code) \in Nat /\ Len(code') = Len(code) + 1 /\ code'[Len(code) + 1] = i
  BY <1>3, <1>4, WriteFacts
<1>7. PICK m \in 1 .. minted : /\ \A j \in 1 .. Len(Trail) : Blind(Trail[j], m)
                               /\ ~frames[k].outer.dead => CallWaits(k, m)
  BY <1>1, <1>2 DEF FramesInv, OpenCall
<1>8. m \in 1 .. MaxSymbols  BY <1>7, WpAssumption DEF TypeInv
<1>9. \A j \in 1 .. Len(Trail') : Blind(Trail'[j], m)
  BY <1>3, <1>4, <1>7, <1>8, ElseBlind, BlindAfter
<1>10. ASSUME ~frames[k].outer.dead PROVE CallWaits(k, m)'
  <2>0. CallWaits(k, m)  BY <1>7, <1>10
  <2>1. walk'.result = Symbol(m)
    <3>1. n \in k + 1 .. Len(frames)  BY <1>1, <1>2
    <3> QED  BY <3>1, <2>0, <1>2, <1>5 DEF CallWaits
  <2>2. \A j \in k + 1 .. Len(frames') :
          /\ frames'[j].outer.result = Symbol(m)
          /\ ~frames'[j].then.dead => frames'[j].then.result = Symbol(m)
    <3> TAKE j \in k + 1 .. Len(frames')
    <3>0. j \in k + 1 .. Len(frames)  BY <1>1
    <3>1. CASE j = n
      <4>1. frames[j].outer.result = Symbol(m)  BY <3>0, <2>0 DEF CallWaits
      <4>2. ~walk.dead => walk.result = Symbol(m)  BY <2>0 DEF CallWaits
      <4> QED  BY <4>1, <4>2, <3>1, <1>1, <1>2
    <3>2. CASE j # n
      <4>1. frames'[j] = frames[j]  BY <3>0, <3>2, <1>1, <1>2
      <4> QED  BY <4>1, <3>0, <2>0 DEF CallWaits
    <3> QED  BY <3>1, <3>2
  <2>3. ASSUME NEW p \in 1 .. Len(code'), NEW j \in k .. Len(frames'),
               Pending(code', Trail', dropped', p),
               frames'[j].at < p, j < Len(frames') => p < frames'[j + 1].at
        PROVE  Waits(p, j, m)'
    <3>1. p \in 1 .. Len(code)
      <4>1. p # Len(code) + 1  BY <2>3, <1>3, <1>6 DEF Pending
      <4> QED  BY <4>1, <1>6
    <3>2. Pending(code, Trail, dropped, p)  BY <3>1, <2>3, <1>3, <1>4, PendingBefore
    <3>3. \A l \in 1 .. n : frames'[l].at = frames[l].at /\ frames'[l].outer = frames[l].outer
      <4> TAKE l \in 1 .. n
      <4>1. CASE l = n  BY <4>1, <1>1, <1>2
      <4>2. CASE l # n
        <5>1. l \in 1 .. n - 1  BY <4>2, <1>1
        <5> QED  BY <5>1, <1>1
      <4> QED  BY <4>1, <4>2
    <3>4. j \in 1 .. n /\ (j < n => j + 1 \in 1 .. n)  BY <1>1, <1>2
    <3>5. frames[j].at < p /\ (j < Len(frames) => p < frames[j + 1].at)
      BY <2>3, <3>3, <3>4, <1>1
    <3>6. j \in k .. Len(frames)  BY <1>1
    <3>7. Waits(p, j, m)  BY <3>1, <3>2, <3>5, <3>6, <2>0 DEF CallWaits
    <3>8. CASE j = n
      <4>1. walk.dead  BY <3>7, <3>8, <1>1, <1>2 DEF Waits, ListWalk
      <4> QED  BY <4>1, <3>8, <1>1 DEF Waits
    <3>9. CASE j # n
      <4>1. j \in 1 .. n - 1 /\ j # Len(frames) /\ j # Len(frames')  BY <3>4, <3>9, <1>1
      <4>2. frames'[j] = frames[j]  BY <4>1, <1>1
      <4>3. ListWalk(j)' = ListWalk(j)  BY <4>1, <3>3, <3>4, <1>1 DEF ListWalk
      <4> QED  BY <4>1, <4>2, <4>3, <3>7 DEF Waits
    <3> QED  BY <3>8, <3>9
  <2> QED  BY <2>1, <2>2, <2>3 DEF CallWaits
<1>11. frames'[k] = frames[k]  BY <1>1, <1>2
<1> QED  BY <1>4, <1>7, <1>9, <1>10, <1>11 DEF OpenCall

LEMMA ElseInv ==
  ASSUME TypeInv, Static, FramesInv, Else
  PROVE  Static' /\ FramesInv'
<1> DEFINE i == Plain("else")
<1>1. TypeInv'  BY ElseTypes
<1>2. i \in Instrs /\ i.op = "else" /\ Delta(i) = 0
  BY InstrTypes DEF OpNames, Delta, Openers
<1>3. /\ Write(i) /\ facts' = facts /\ minted' = minted /\ dropped' = dropped /\ frames # <<>>
      /\ walk' = ElsePath(Top) /\ Top.kind = "if"
  BY DEF Else
<1> HIDE DEF i
<1>4. PICK n \in Nat, top \in OpenBlocks :
           /\ n = Len(frames) /\ n \in 1 .. n /\ Len(frames') = n /\ frames'[n] = top
           /\ \A j \in 1 .. n - 1 : frames'[j] = frames[j]
           /\ top.kind = "else" /\ top.at = Top.at /\ top.outer = Top.outer
           /\ top.cond = Top.cond /\ top.then = walk
  BY ElseFrames
<1>5. PICK a \in Nat :
           /\ Top = frames[n] /\ Top \in OpenBlocks /\ a = Top.at
           /\ a \in 1 .. Len(code) /\ Around(code, a, Len(code) + 1) /\ Level(code, a, Len(code)) = 1
           /\ code[a].op = (IF Top.kind = "else" THEN "if" ELSE Top.kind)
           /\ Top.outer = Trail[a].walk
           /\ \A k \in 1 .. n - 1 : k < n /\ k \in 1 .. Len(frames)
  BY <1>3, <1>4, TopFacts
<1>6. /\ code \in Seq(Instrs) /\ code' = Append(code, i) /\ Len(code) \in Nat
      /\ Len(Trail) = Len(code) + 1
      /\ \A j \in 1 .. Len(code) : code'[j] = code[j]
  BY <1>1, <1>2, <1>3, WriteFacts
<1>7. \A l \in 1 .. n : frames'[l].at = frames[l].at /\ frames'[l].outer = frames[l].outer
                         /\ (frames'[l].kind \in {"call", "while"} => frames'[l].kind = frames[l].kind)
  <2> TAKE l \in 1 .. n
  <2>1. CASE l = n  BY <2>1, <1>4, <1>5
  <2>2. CASE l # n
    <3>1. l \in 1 .. n - 1  BY <2>2, <1>4
    <3> QED  BY <3>1, <1>4
  <2> QED  BY <2>1, <2>2
<1>8. Static'
  <2>1. \A o : IsOpen(o) => IsOpen(o)'  BY <1>4, <1>7 DEF IsOpen
  <2>2. PICK b \in Nat : b = Len(code) + 1 /\ code'[b] = i
    BY <1>1, <1>2, <1>3, NewStep
  <2>3. Step(code', Trail', b)  BY <1>2, <2>2 DEF Step
  <2>4. Asked(code', Trail', b)  BY <1>2, <2>2, AskedNothing
  <2>5. code'[a].op = "if" /\ Around(code', a, b) /\ Level(code', a, b) = 1
    <3>1. Around(code', a, b)
      <4>1. b \in 1 .. Len(code) + 1  BY <1>6, <2>2
      <4> QED  BY <4>1, <1>2, <1>5, <1>6, <2>2, AroundAppend, Zenon
    <3>2. Level(code', a, Len(code) + 1) = Level(code, a, Len(code)) + Delta(i)
      <4>1. a \in 1 .. Len(code) + 1 /\ Len(code) \in Int  BY <1>5, <1>6
      <4>2. code \in Seq(Instrs) /\ i \in Instrs /\ code' = Append(code, i)  BY <1>2, <1>6
      <4>3. Level(Append(code, i), a, Len(code) + 1) = Level(code, a, Len(code)) + Delta(i)
        BY <4>1, <4>2, LevelAppend, Zenon
      <4> QED  BY <4>2, <4>3
    <3>3. code'[a].op = "if"  BY <1>3, <1>5, <1>6
    <3> QED  BY <3>1, <3>2, <3>3, <2>2, <1>2, <1>5
  <2>6. \A m \in minted' + 1 .. MaxSymbols :
          Blind([walk |-> walk', facts |-> facts'], m) /\ BlindTerm(walk'.result, m)
    <3> TAKE m \in minted' + 1 .. MaxSymbols
    <3>1. m \in minted + 1 .. MaxSymbols /\ m \in 1 .. MaxSymbols  BY <1>3 DEF TypeInv
    <3>2. \A j \in 1 .. Len(Trail) : Blind(Trail[j], m) /\ BlindTerm(Trail[j].walk.result, m)
      BY <3>1 DEF Static, BlindInv
    <3>3. a \in 1 .. Len(Trail)  BY <1>5, <1>6
    <3>4. walk'.result = Trail[a].walk.result
      <4>1. Top.outer \in Walks  BY <1>5 DEF OpenBlocks
      <4> QED  BY <4>1, <1>3, <1>5, ElsePathType DEF Walks
    <3> QED  BY <3>1, <3>2, <3>3, <3>4, ElseBlind
  <2>7. minted' >= minted  BY <1>3 DEF TypeInv
  <2>8. i.op \notin Openers /\ i.op # "end" /\ i.op # "assume"  BY <1>2 DEF Openers
  <2> QED  BY <1>1, <1>2, <1>3, <1>5, <2>1, <2>2, <2>3, <2>4, <2>5, <2>6, <2>7, <2>8, WriteStatic
<1>9. \A k \in 1 .. n : FrameOK(k)'
  <2> TAKE k \in 1 .. n
  <2>1. CASE k = n  BY <2>1, <1>1, <1>4, ElseFrameOK
  <2>2. CASE k # n
    <3>1. k \in 1 .. n - 1 /\ k < n /\ k \in 1 .. Len(frames)  BY <2>2, <1>4
    <3>2. FrameOK(k)  BY <3>1 DEF FramesInv
    <3>3. frames[k].outer.dead => walk'.dead
      <4>1. frames[k].outer.dead => Top.outer.dead  BY <3>1, <1>4, <1>5, OuterDead
      <4>2. walk'.dead = Top.outer.dead
        <5>1. Top.outer \in Walks  BY <1>5 DEF OpenBlocks
        <5> QED  BY <5>1, <1>3, ElsePathType DEF Walks
      <4> QED  BY <4>1, <4>2
    <3>4. Len(frames') = Len(frames) + Delta(i) /\ k <= Len(frames') /\ frames'[k] = frames[k]
          /\ k < Len(frames)
      BY <3>1, <1>2, <1>4
    <3> QED  BY <1>1, <1>2, <1>3, <3>1, <3>2, <3>3, <3>4, KeptFrame
  <2> QED  BY <2>1, <2>2
<1>10. \A k \in 1 .. n : frames'[k].kind = "call" => OpenCall(k)'
  <2> TAKE k \in 1 .. n
  <2> HAVE frames'[k].kind = "call"
  <2>1. k # n  BY <1>4
  <2>2. k \in 1 .. Len(frames) - 1 /\ frames[k].kind = "call"  BY <2>1, <1>4, <1>7
  <2> QED  BY <2>2, <1>1, ElseCall
<1>11. \A j, k \in 1 .. n :
       /\ j < k => frames'[j].at < frames'[k].at
       /\ frames'[j].kind = "call" /\ frames'[k].kind = "call" => j = k
       /\ frames'[j].kind = "call" /\ frames'[k].kind = "while" /\ j < k => frames'[k].at \in dropped'
  <2> TAKE j, k \in 1 .. n
  <2>1. j \in 1 .. Len(frames) /\ k \in 1 .. Len(frames)  BY <1>4
  <2> QED  BY <2>1, <1>3, <1>7 DEF FramesInv
<1> QED  BY <1>4, <1>8, <1>9, <1>10, <1>11 DEF FramesInv

(***************************************************************************)
(* Statements that close a block.                                          *)
(***************************************************************************)
CloseStep ==
  /\ frames # <<>> /\ Write(Plain("end")) /\ frames' = Pop
  /\ dropped \subseteq dropped' /\ minted' >= minted /\ facts' = facts
  /\ Top.outer.dead => walk'.dead

\* What closing block n, which opened at a, at the instruction e comes to.
ClosedBlock(n, a, e) ==
  /\ n = Len(frames) /\ n \in 1 .. Len(frames) /\ Top = frames[n] /\ Top \in OpenBlocks
  /\ Len(frames') = n - 1
  /\ \A k \in 1 .. n - 1 : frames'[k] = frames[k] /\ k < n /\ k \in 1 .. Len(frames)
  /\ a = Top.at /\ e = Len(code) + 1 /\ a \in 1 .. e - 1
  /\ Len(Trail) = e /\ Len(code') = e /\ Len(Trail') = e + 1
  /\ Closes(code', a, e)
  /\ code'[a] = code[a] /\ Trail'[a] = Trail[a] /\ Trail[a].walk = Top.outer
  /\ code'[e].op = "end" /\ Trail'[e].walk = walk /\ Trail'[e].facts = facts
  /\ Trail'[e + 1].walk = walk' /\ Trail'[e] = Trail[e]
  /\ \A j \in 1 .. e : Trail'[j] = Trail[j]
  /\ code[a].op = (IF Top.kind = "else" THEN "if" ELSE Top.kind)
  /\ Top.kind # "call" => Top.cond = CondAt(code', Trail', a)
  /\ Top.kind = "if" => ElsesOf(code', a, e) = {}
  /\ Top.kind = "else" => \E b \in a + 1 .. e - 1 :
                            /\ ElsesOf(code', a, e) = {b}
                            /\ Top.then = Trail'[b].walk
                            /\ Trail'[b + 1].walk = OtherArm(code', Trail', a)

LEMMA CloseFacts ==
  ASSUME TypeInv, TypeInv', FramesInv, CloseStep
  PROVE  \E n, a, e \in Nat : ClosedBlock(n, a, e)
<1> DEFINE i == Plain("end")
<1>0. Write(i) /\ frames' = Pop /\ frames # <<>>  BY DEF CloseStep
<1>1. PICK n \in Nat, a \in Nat :
           /\ n = Len(frames) /\ n \in 1 .. Len(frames) /\ Top = frames[n] /\ Top \in OpenBlocks
           /\ a = Top.at /\ FrameOK(n)
           /\ a \in 1 .. Len(code) /\ Around(code, a, Len(code) + 1) /\ Level(code, a, Len(code)) = 1
           /\ code[a].op = (IF Top.kind = "else" THEN "if" ELSE Top.kind)
           /\ Top.outer = Trail[a].walk
           /\ Top.kind # "call" => Top.cond = CondAt(code, Trail, a)
           /\ Top.kind = "if" => ElsesOf(code, a, Len(code)) = {}
           /\ \A k \in 1 .. n - 1 : k < n /\ k \in 1 .. Len(frames)
  BY <1>0, TopFacts
<1>2. Len(frames') = n - 1 /\ \A k \in 1 .. n - 1 : frames'[k] = frames[k]
  BY <1>0, <1>1, TopType
<1>3. i \in Instrs /\ i.op = "end" /\ Delta(i) = -1
  BY InstrTypes DEF OpNames, Delta, Openers
<1> HIDE DEF i
<1>4. /\ code \in Seq(Instrs) /\ code' = Append(code, i) /\ Len(code) \in Nat
      /\ Len(code') = Len(code) + 1 /\ Len(Trail') = Len(code) + 2 /\ Len(Trail) = Len(code) + 1
      /\ code'[Len(code) + 1] = i
      /\ \A j \in 1 .. Len(code) : code'[j] = code[j]
      /\ \A j \in 1 .. Len(code) + 1 : Trail'[j] = Trail[j]
      /\ Trail[Len(code) + 1] = [walk |-> walk, facts |-> facts]
      /\ Trail'[Len(code) + 2] = [walk |-> walk', facts |-> facts']
  BY <1>0, <1>3, WriteFacts
<1>5. PICK e \in Nat : e = Len(code) + 1  BY <1>4
<1>6. e + 1 = Len(code) + 2 /\ e - 1 = Len(code) /\ e \in 1 .. Len(code) + 1  BY <1>4, <1>5
<1>7. code'[a] = code[a] /\ Trail'[a] = Trail[a]  BY <1>1, <1>4
<1>8. CondAt(code', Trail', a) = CondAt(code, Trail, a) /\ OtherArm(code', Trail', a) = OtherArm(code, Trail, a)
  BY <1>7 DEF CondAt, OtherArm
<1>9. Closes(code', a, e)
  <2>1. Level(code, a, Len(code)) + Delta(i) = 0  BY <1>1, <1>3
  <2> QED  BY <1>1, <1>3, <1>4, <1>5, <2>1, AroundNext, Zenon
<1>10. ElsesOf(code', a, e) = ElsesOf(code, a, Len(code))
  <2>1. Len(code) \in 1 .. Len(code) /\ a \in 1 .. Len(code) /\ code \in Seq(Instrs)  BY <1>1, <1>4
  <2>2. /\ ElsesOf(Append(code, i), a, Len(code)) = ElsesOf(code, a, Len(code))
        /\ ElsesOf(Append(code, i), a, Len(code) + 1)
             = ElsesOf(code, a, Len(code))
                 \cup IF i.op = "else" /\ Level(code, a, Len(code)) = 1 THEN {Len(code) + 1} ELSE {}
    <3>1. i \in Instrs  BY <1>3
    <3> QED  BY <2>1, <3>1, ElsesAppend
  <2> QED  BY <2>2, <1>3, <1>4, <1>5
<1>11. Top.kind = "else" => \E b \in a + 1 .. e - 1 :
                              /\ ElsesOf(code', a, e) = {b}
                              /\ Top.then = Trail'[b].walk
                              /\ Trail'[b + 1].walk = OtherArm(code', Trail', a)
  <2> SUFFICES ASSUME Top.kind = "else"
               PROVE  \E b \in a + 1 .. e - 1 :
                              /\ ElsesOf(code', a, e) = {b}
                              /\ Top.then = Trail'[b].walk
                              /\ Trail'[b + 1].walk = OtherArm(code', Trail', a)
    OBVIOUS
  <2>1. PICK b \in a + 1 .. Len(code) : /\ ElsesOf(code, a, Len(code)) = {b}
                                        /\ Top.then = Trail[b].walk
                                        /\ Trail[b + 1].walk = OtherArm(code, Trail, a)
    BY <1>1 DEF FrameOK
  <2>2. b \in 1 .. Len(code) + 1 /\ b + 1 \in 1 .. Len(code) + 1 /\ b \in a + 1 .. e - 1
    BY <1>1, <1>4, <1>6
  <2>3. Trail'[b] = Trail[b] /\ Trail'[b + 1] = Trail[b + 1]  BY <2>2, <1>4
  <2> QED  BY <2>1, <2>2, <2>3, <1>8, <1>10
<1>12. /\ code'[e].op = "end" /\ Trail'[e].walk = walk /\ Trail'[e].facts = facts
       /\ Trail'[e + 1].walk = walk' /\ Trail'[e] = Trail[e]
  BY <1>3, <1>4, <1>5, <1>6
<1>13. /\ a \in 1 .. e - 1 /\ Len(Trail) = e /\ Len(code') = e /\ Len(Trail') = e + 1
       /\ \A j \in 1 .. e : Trail'[j] = Trail[j]
  BY <1>1, <1>4, <1>5, <1>6
<1>14. /\ Top.kind # "call" => Top.cond = CondAt(code', Trail', a)
       /\ Top.kind = "if" => ElsesOf(code', a, e) = {}
  BY <1>1, <1>8, <1>10
<1>15. ClosedBlock(n, a, e)
  BY <1>1, <1>2, <1>5, <1>7, <1>9, <1>11, <1>12, <1>13, <1>14 DEF ClosedBlock
<1> QED  BY <1>5, <1>15

\* An end asks only what the loop that it closes claims.
LEMMA AskedEnd ==
  ASSUME NEW c, NEW s, NEW a, NEW e, Closes(c, a, e), c[e].op = "end",
         ~s[e].walk.dead /\ c[a].op = "while" /\ c[a].inv # NoInvariant =>
            s[e].walk.prem \cap s[e].facts \subseteq Where(c[a].inv, s[e].walk.x)
  PROVE  Asked(c, s, e)
<1>1. \A o : Closes(c, o, e) => o = a  BY OneOpener
<1> QED  BY <1>1 DEF Asked

LEMMA CloseKeepsCall ==
  ASSUME TypeInv, TypeInv', FramesInv, CloseStep, NEW n \in Nat, n = Len(frames),
         NEW k \in 1 .. n - 1, frames[k].kind = "call",
         \A m \in 1 .. minted : (\A j \in 1 .. Len(Trail) : Blind(Trail[j], m)) =>
           Blind([walk |-> walk', facts |-> facts'], m),
         \A m \in 1 .. minted : CallWaits(k, m) => walk'.result = Symbol(m),
         \A m \in 1 .. minted, p \in Top.at + 1 .. Len(code) :
           Pending(code', Trail', dropped', p) /\ Waits(p, n, m) => walk'.dead
  PROVE  OpenCall(k)'
<1> DEFINE i == Plain("end")
<1>0. Write(i) /\ dropped \subseteq dropped' /\ minted' >= minted /\ (Top.outer.dead => walk'.dead)
  BY DEF CloseStep
<1>1. PICK a, e \in Nat :
           /\ n \in 1 .. Len(frames) /\ Top = frames[n] /\ Top \in OpenBlocks
           /\ Len(frames') = n - 1
           /\ \A j \in 1 .. n - 1 : frames'[j] = frames[j] /\ j < n /\ j \in 1 .. Len(frames)
           /\ a = Top.at /\ e = Len(code) + 1 /\ a \in 1 .. e - 1
           /\ Len(code') = e /\ code'[e].op = "end"
           /\ code[a].op = (IF Top.kind = "else" THEN "if" ELSE Top.kind)
  <2>1. PICK m, a, e \in Nat : ClosedBlock(m, a, e)  BY CloseFacts
  <2>2. m = n  BY <2>1 DEF ClosedBlock
  <2>3. ClosedBlock(n, a, e)  BY <2>1, <2>2
  <2> QED  BY <2>3 DEF ClosedBlock
<1>2. i \in Instrs  BY InstrTypes DEF OpNames
<1>3. PICK m \in 1 .. minted : /\ \A j \in 1 .. Len(Trail) : Blind(Trail[j], m)
                               /\ ~frames[k].outer.dead => CallWaits(k, m)
  BY <1>1 DEF FramesInv, OpenCall
<1>4. \A j \in 1 .. Len(Trail') : Blind(Trail'[j], m)  BY <1>0, <1>2, <1>3, BlindAfter
<1>5. ASSUME ~frames[k].outer.dead PROVE CallWaits(k, m)'
  <2>0. CallWaits(k, m)  BY <1>3, <1>5
  <2>1. walk'.result = Symbol(m)  BY <2>0
  <2>2. \A j \in k + 1 .. Len(frames') :
          /\ frames'[j].outer.result = Symbol(m)
          /\ ~frames'[j].then.dead => frames'[j].then.result = Symbol(m)
    <3> TAKE j \in k + 1 .. Len(frames')
    <3>1. j \in k + 1 .. Len(frames) /\ j \in 1 .. n - 1  BY <1>1
    <3> QED  BY <3>1, <1>1, <2>0 DEF CallWaits
  <2>3. ASSUME NEW p \in 1 .. Len(code'), NEW j \in k .. Len(frames'),
               Pending(code', Trail', dropped', p),
               frames'[j].at < p, j < Len(frames') => p < frames'[j + 1].at
        PROVE  Waits(p, j, m)'
    <3>1. p \in 1 .. Len(code)
      <4>1. p # e  BY <2>3, <1>1 DEF Pending
      <4> QED  BY <4>1, <1>1
    <3>2. Pending(code, Trail, dropped, p)  BY <3>1, <2>3, <1>0, <1>2, PendingBefore
    <3>3. j \in 1 .. n - 1 /\ j \in k .. Len(frames) /\ frames'[j] = frames[j] /\ j # Len(frames)
      BY <1>1
    <3>4. CASE j # n - 1
      <4>1. j + 1 \in 1 .. n - 1 /\ j < n - 1 /\ j # Len(frames')  BY <3>3, <3>4, <1>1
      <4>2. frames'[j + 1] = frames[j + 1]  BY <4>1, <1>1
      <4>3. frames[j].at < p /\ p < frames[j + 1].at  BY <2>3, <3>3, <4>1, <4>2, <1>1
      <4>4. Waits(p, j, m)  BY <3>1, <3>2, <3>3, <4>3, <2>0 DEF CallWaits
      <4>5. ListWalk(j)' = ListWalk(j)  BY <3>3, <4>1, <4>2 DEF ListWalk
      <4> QED  BY <3>3, <4>4, <4>5 DEF Waits
    <3>5. CASE j = n - 1
      <4>1. j + 1 = n /\ j = Len(frames')  BY <3>5, <1>1
      <4>2. ListWalk(j)' = walk' /\ ListWalk(j) = Top.outer
        BY <3>3, <4>1, <1>1 DEF ListWalk
      <4>3. walk'.dead => Waits(p, j, m)'
        <5>1. frames[j].kind \in FrameKinds
          <6>1. frames \in Seq(OpenBlocks) /\ j \in 1 .. Len(frames)  BY <3>3, <1>1 DEF TypeInv
          <6>2. frames[j] \in OpenBlocks  BY <6>1
          <6> QED  BY <6>2 DEF OpenBlocks
        <5> QED  BY <5>1, <3>3, <4>2, <2>1 DEF Waits, FrameKinds
      <4>4. CASE p < a
        <5>1. frames[j].at < p /\ p < frames[j + 1].at  BY <2>3, <3>3, <4>1, <4>4, <1>1
        <5>2. Waits(p, j, m)  BY <3>1, <3>2, <3>3, <5>1, <2>0 DEF CallWaits
        <5> QED  BY <5>2, <3>3, <4>2, <4>3, <1>0 DEF Waits
      <4>5. CASE p > a
        <5>1. frames[n].at < p /\ n \in k .. Len(frames) /\ ~(n < Len(frames))  BY <4>5, <1>1
        <5>2. Waits(p, n, m)  BY <3>1, <3>2, <5>1, <2>0 DEF CallWaits
        <5>3. p \in Top.at + 1 .. Len(code)  BY <3>1, <4>5, <1>1
        <5> QED  BY <5>2, <5>3, <2>3, <4>3
      <4>6. p # a
        <5>1. code[p].op = "return"  BY <3>2 DEF Pending
        <5>2. code[a].op # "return"  BY <1>1 DEF OpenBlocks, FrameKinds
        <5> QED  BY <5>1, <5>2
      <4> QED  BY <4>4, <4>5, <4>6, <3>1, <1>1
    <3> QED  BY <3>4, <3>5
  <2> QED  BY <2>1, <2>2, <2>3 DEF CallWaits
<1>6. frames'[k] = frames[k]  BY <1>1
<1>7. m \in 1 .. minted'
  <2>1. minted \in Int /\ minted' \in Int  BY DEF TypeInv
  <2> QED  BY <2>1, <1>0
<1> QED  BY <1>4, <1>5, <1>6, <1>7 DEF OpenCall

LEMMA CloseInv ==
  ASSUME TypeInv, TypeInv', Static, FramesInv, CloseStep,
         NEW a \in Nat, NEW e \in Nat, a = Top.at, e = Len(code) + 1,
         accepted' => Asked(code', Trail', e),
         Closed(code', Trail', dropped', a, e),
         \A m \in minted' + 1 .. MaxSymbols :
           Blind([walk |-> walk', facts |-> facts'], m) /\ BlindTerm(walk'.result, m),
         \A k \in 1 .. Len(frames) - 1 : frames[k].kind = "call" => OpenCall(k)'
  PROVE  Static' /\ FramesInv'
<1> DEFINE i == Plain("end")
<1>0. /\ Write(i) /\ dropped \subseteq dropped' /\ minted' >= minted /\ facts' = facts
      /\ (Top.outer.dead => walk'.dead)
  BY DEF CloseStep
<1>1. PICK n \in Nat :
           /\ n = Len(frames) /\ n \in 1 .. Len(frames) /\ Top = frames[n] /\ Top \in OpenBlocks
           /\ Len(frames') = n - 1
           /\ \A k \in 1 .. n - 1 : frames'[k] = frames[k] /\ k < n /\ k \in 1 .. Len(frames)
           /\ a \in 1 .. e - 1 /\ Closes(code', a, e) /\ code'[e].op = "end"
  <2>1. PICK n, b, f \in Nat : ClosedBlock(n, b, f)  BY CloseFacts
  <2>2. b = a /\ f = e  BY <2>1 DEF ClosedBlock
  <2> QED  BY <2>1, <2>2 DEF ClosedBlock
<1>2. i \in Instrs /\ i.op = "end" /\ Delta(i) = -1
  BY InstrTypes DEF OpNames, Delta, Openers
<1> HIDE DEF i
<1>3. Static'
  <2>1. \A o \in 1 .. Len(code) : code[o].op \in Openers /\ IsOpen(o) =>
          IsOpen(o)' \/ Closed(code', Trail', dropped', o, e)
    <3> TAKE o \in 1 .. Len(code)
    <3> HAVE code[o].op \in Openers /\ IsOpen(o)
    <3>1. PICK j \in 1 .. n : frames[j].at = o  BY <1>1 DEF IsOpen
    <3>2. CASE j = n  BY <3>1, <3>2, <1>1
    <3>3. CASE j # n
      <4>1. j \in 1 .. n - 1 /\ j \in 1 .. Len(frames')  BY <3>3, <1>1
      <4>2. frames'[j].at = o  BY <3>1, <4>1, <1>1
      <4> QED  BY <4>1, <4>2 DEF IsOpen
    <3> QED  BY <3>2, <3>3
  <2>2. Step(code', Trail', e)  BY <1>1 DEF Step
  <2>3. \E o \in 1 .. Len(code) : Closes(code', o, e)
    <3>1. a \in 1 .. Len(code)  BY <1>1
    <3> QED  BY <3>1, <1>1
  <2>4. i.op \notin Openers /\ i.op # "else" /\ i.op # "assume"  BY <1>2 DEF Openers
  <2> QED  BY <1>0, <1>2, <2>1, <2>2, <2>3, <2>4, WriteStatic
<1>4. \A k \in 1 .. n - 1 : FrameOK(k)'
  <2> TAKE k \in 1 .. n - 1
  <2>1. k \in 1 .. Len(frames) /\ k < n /\ frames'[k] = frames[k]  BY <1>1
  <2>2. FrameOK(k)  BY <2>1 DEF FramesInv
  <2>3. frames[k].outer.dead => walk'.dead  BY <2>1, <1>0, <1>1, OuterDead
  <2>4. Len(frames') = Len(frames) + Delta(i) /\ k <= Len(frames') /\ k < Len(frames)
    BY <2>1, <1>1, <1>2
  <2> QED  BY <1>0, <1>2, <2>1, <2>2, <2>3, <2>4, KeptFrame
<1>5. \A k \in 1 .. n - 1 : frames'[k].kind = "call" => OpenCall(k)'  BY <1>1
<1>6. \A j, k \in 1 .. n - 1 :
       /\ j < k => frames'[j].at < frames'[k].at
       /\ frames'[j].kind = "call" /\ frames'[k].kind = "call" => j = k
       /\ frames'[j].kind = "call" /\ frames'[k].kind = "while" /\ j < k => frames'[k].at \in dropped'
  <2> TAKE j, k \in 1 .. n - 1
  <2>1. /\ frames'[j] = frames[j] /\ frames'[k] = frames[k]
        /\ j \in 1 .. Len(frames) /\ k \in 1 .. Len(frames)
    BY <1>1
  <2> QED  BY <2>1, <1>0 DEF FramesInv
<1> QED  BY <1>1, <1>3, <1>4, <1>5, <1>6 DEF FramesInv

\* The arms that an end of an if merges.
LEMMA EndIfArms ==
  ASSUME TypeInv, TypeInv', FramesInv, EndIf
  PROVE  \E t, u \in Walks :
           /\ Top.kind = "if" => t = walk /\ u = ElsePath(Top)
           /\ Top.kind = "else" => t = Top.then /\ u = walk
           /\ Top.outer \in Walks /\ walk' = Merge(Top.outer, Top.cond, t, u)
           /\ Top.kind \in {"if", "else"} /\ (Top.outer.dead => walk'.dead)
           /\ dropped' = IF InCall /\ t.dead # u.dead THEN dropped \cup {Top.at} ELSE dropped
           /\ \A m \in 1 .. MaxSymbols :
                (\A j \in 1 .. Len(Trail) : Blind(Trail[j], m)) =>
                  BlindWalk(Top.outer, m) /\ BlindSet(Top.cond, m) /\ BlindWalk(t, m) /\ BlindWalk(u, m)
           /\ \A m \in 1 .. MaxSymbols :
                (\A j \in 1 .. Len(Trail) : BlindTerm(Trail[j].walk.result, m)) =>
                  BlindTerm(Top.outer.result, m) /\ BlindTerm(t.result, m) /\ BlindTerm(u.result, m)
           /\ CloseStep
<1> DEFINE t == IF Top.kind = "if" THEN walk ELSE Top.then
           u == IF Top.kind = "if" THEN ElsePath(Top) ELSE walk
<1>1. /\ frames # <<>> /\ Top.kind \in {"if", "else"} /\ Write(Plain("end"))
      /\ walk' = Merge(Top.outer, Top.cond, t, u) /\ frames' = Pop
      /\ dropped' = IF InCall /\ t.dead # u.dead THEN dropped \cup {Top.at} ELSE dropped
      /\ facts' = facts /\ minted' = minted
  BY DEF EndIf
<1>2. Top \in OpenBlocks /\ Top.outer \in Walks /\ walk \in Walks /\ Top.then \in Walks
      /\ Top.outer.x \in Terms
  BY <1>1, TopType DEF OpenBlocks, TypeInv, Walks
<1>3. ElsePath(Top) \in Walks /\ ElsePath(Top) = [Top.outer EXCEPT !.path = Top.outer.path \ Top.cond]
  BY <1>2, ElsePathType
<1>4. t \in Walks /\ u \in Walks  BY <1>2, <1>3
<1>5. /\ Top.kind = "if" => t = walk /\ u = ElsePath(Top)
      /\ Top.kind = "else" => t = Top.then /\ u = walk
  OBVIOUS
<1> HIDE DEF t, u
<1>6. Top.outer.dead => walk'.dead
  <2> SUFFICES ASSUME Top.outer.dead PROVE Merge(Top.outer, Top.cond, t, u).dead  BY <1>1
  <2> QED  BY <1>2, <1>4, MergeDead
<1>7. minted' >= minted  BY <1>1 DEF TypeInv
<1>8. CloseStep  BY <1>1, <1>6, <1>7 DEF CloseStep
<1>9. PICK a, e \in Nat :
           /\ a \in 1 .. e - 1 /\ Len(Trail) = e /\ Len(code') = e /\ Trail'[a] = Trail[a]
           /\ Trail[a].walk = Top.outer /\ code'[a] = code[a] /\ Trail[e].walk = walk
           /\ Top.cond = CondAt(code', Trail', a)
           /\ Top.kind = "else" => \E b \in 1 .. e : Top.then = Trail[b].walk
  <2>1. PICK n, a, e \in Nat :
           /\ a \in 1 .. e - 1 /\ Len(Trail) = e /\ Len(code') = e /\ Trail'[a] = Trail[a]
           /\ Trail[a].walk = Top.outer /\ code'[a] = code[a] /\ Trail'[e].walk = walk /\ Trail'[e] = Trail[e]
           /\ Top.kind # "call" => Top.cond = CondAt(code', Trail', a)
           /\ \A j \in 1 .. e : Trail'[j] = Trail[j]
           /\ Top.kind = "else" => \E b \in a + 1 .. e - 1 :
                                     /\ ElsesOf(code', a, e) = {b}
                                     /\ Top.then = Trail'[b].walk
                                     /\ Trail'[b + 1].walk = OtherArm(code', Trail', a)
    <3>1. PICK n, a, e \in Nat : ClosedBlock(n, a, e)  BY <1>8, CloseFacts
    <3> QED  BY <3>1 DEF ClosedBlock
  <2>2. Top.kind = "else" => \E b \in 1 .. e : Top.then = Trail[b].walk
    <3>1. \A b \in a + 1 .. e - 1 : b \in 1 .. e  BY <2>1
    <3> QED  BY <2>1, <3>1
  <2> QED  BY <2>1, <2>2, <1>1
<1>10. a \in 1 .. Len(Trail) /\ e \in 1 .. Len(Trail)  BY <1>9
<1>11. ASSUME NEW m \in 1 .. MaxSymbols, \A j \in 1 .. Len(Trail) : Blind(Trail[j], m)
       PROVE  BlindWalk(Top.outer, m) /\ BlindSet(Top.cond, m) /\ BlindWalk(t, m) /\ BlindWalk(u, m)
  <2>1. BlindWalk(Top.outer, m) /\ BlindWalk(walk, m)  BY <1>9, <1>10, <1>11 DEF Blind
  <2>2. BlindSet(Top.cond, m)
    <3>1. Top.cond = Where(code[a].c, Top.outer.x)  BY <1>9 DEF CondAt
    <3> QED  BY <3>1, <2>1, <1>2, BlindWhere DEF BlindWalk
  <2>3. Top.kind = "else" => BlindWalk(Top.then, m)  BY <1>9, <1>10, <1>11 DEF Blind
  <2>4. BlindWalk(ElsePath(Top), m)
    <3>1. BlindSet(Top.outer.path \ Top.cond, m)  BY <2>1, <2>2, BlindSets DEF BlindWalk
    <3>2. /\ ElsePath(Top).x = Top.outer.x /\ ElsePath(Top).prem = Top.outer.prem
          /\ ElsePath(Top).path = Top.outer.path \ Top.cond
      BY <1>2, <1>3 DEF Walks
    <3> QED  BY <3>1, <3>2, <2>1 DEF BlindWalk
  <2> QED  BY <1>1, <1>5, <2>1, <2>2, <2>3, <2>4
<1>12. ASSUME NEW m \in 1 .. MaxSymbols, \A j \in 1 .. Len(Trail) : BlindTerm(Trail[j].walk.result, m)
       PROVE  BlindTerm(Top.outer.result, m) /\ BlindTerm(t.result, m) /\ BlindTerm(u.result, m)
  <2>1. BlindTerm(Top.outer.result, m) /\ BlindTerm(walk.result, m)  BY <1>9, <1>10, <1>12
  <2>2. Top.kind = "else" => BlindTerm(Top.then.result, m)  BY <1>9, <1>10, <1>12
  <2>3. ElsePath(Top).result = Top.outer.result  BY <1>2, <1>3 DEF Walks
  <2> QED  BY <1>1, <1>5, <2>1, <2>2, <2>3
<1> QED  BY <1>1, <1>2, <1>4, <1>5, <1>6, <1>8, <1>11, <1>12

\* In a call that has not returned, an arm that goes on keeps the symbol.
LEMMA MergeResult ==
  ASSUME NEW outer \in Walks, NEW F, NEW t \in Walks, NEW u \in Walks, NEW S \in Terms,
         outer.result = S, ~t.dead => t.result = S, ~u.dead => u.result = S
  PROVE  Merge(outer, F, t, u).result = S
<1>1. CASE t.dead /\ u.dead
  <2>1. Merge(outer, F, t, u) = [outer EXCEPT !.dead = TRUE]  BY <1>1, MergeType
  <2> QED  BY <2>1 DEF Walks
<1> DEFINE M == Merge(outer, F, t, u)
<1>0. /\ t.dead /\ ~u.dead => M.result = u.result
      /\ ~t.dead /\ u.dead => M.result = t.result
      /\ ~t.dead /\ ~u.dead => M.result = Ite(F, t.result, u.result)
  BY MergeType
<1> HIDE DEF M
<1>2. CASE t.dead /\ ~u.dead  BY <1>0, <1>2 DEF M
<1>3. CASE ~t.dead /\ u.dead  BY <1>0, <1>3 DEF M
<1>4. CASE ~t.dead /\ ~u.dead
  <2>1. Merge(outer, F, t, u).result = Ite(F, S, S)  BY <1>0, <1>4 DEF M
  <2> QED  BY <2>1, IteType
<1> QED  BY <1>1, <1>2, <1>3, <1>4

LEMMA EndIfInv ==
  ASSUME TypeInv, Static, FramesInv, EndIf
  PROVE  Static' /\ FramesInv'
<1>1. TypeInv'  BY EndIfTypes
<1>2. PICK t, u \in Walks :
           /\ Top.kind = "if" => t = walk /\ u = ElsePath(Top)
           /\ Top.kind = "else" => t = Top.then /\ u = walk
           /\ Top.outer \in Walks /\ walk' = Merge(Top.outer, Top.cond, t, u)
           /\ Top.kind \in {"if", "else"} /\ (Top.outer.dead => walk'.dead)
           /\ dropped' = IF InCall /\ t.dead # u.dead THEN dropped \cup {Top.at} ELSE dropped
           /\ \A m \in 1 .. MaxSymbols :
                (\A j \in 1 .. Len(Trail) : Blind(Trail[j], m)) =>
                  BlindWalk(Top.outer, m) /\ BlindSet(Top.cond, m) /\ BlindWalk(t, m) /\ BlindWalk(u, m)
           /\ \A m \in 1 .. MaxSymbols :
                (\A j \in 1 .. Len(Trail) : BlindTerm(Trail[j].walk.result, m)) =>
                  BlindTerm(Top.outer.result, m) /\ BlindTerm(t.result, m) /\ BlindTerm(u.result, m)
           /\ CloseStep
  BY <1>1, EndIfArms
<1>3. PICK n, a, e \in Nat :
           /\ n = Len(frames) /\ n \in 1 .. Len(frames) /\ Top = frames[n] /\ Top \in OpenBlocks
           /\ \A k \in 1 .. n - 1 : k < n /\ k \in 1 .. Len(frames)
           /\ a = Top.at /\ e = Len(code) + 1 /\ a \in 1 .. e - 1 /\ Len(Trail) = e
           /\ Closes(code', a, e)
           /\ Trail'[a] = Trail[a] /\ Trail[a].walk = Top.outer /\ code'[a] = code[a]
           /\ code'[e].op = "end" /\ Trail'[e].walk = walk /\ Trail'[e + 1].walk = walk'
           /\ code[a].op = (IF Top.kind = "else" THEN "if" ELSE Top.kind)
           /\ Top.kind # "call" => Top.cond = CondAt(code', Trail', a)
           /\ Top.kind = "if" => ElsesOf(code', a, e) = {}
           /\ Top.kind = "else" => \E b \in a + 1 .. e - 1 :
                                     /\ ElsesOf(code', a, e) = {b}
                                     /\ Top.then = Trail'[b].walk
                                     /\ Trail'[b + 1].walk = OtherArm(code', Trail', a)
  <2>1. PICK n, a, e \in Nat : ClosedBlock(n, a, e)  BY <1>1, <1>2, CloseFacts
  <2> QED  BY <2>1 DEF ClosedBlock
<1>4. facts' = facts /\ minted' = minted  BY DEF EndIf
<1>5. code'[a].op = "if"  BY <1>2, <1>3
<1>6. Asked(code', Trail', e)  BY <1>3, <1>5, AskedEnd
<1>7. Closed(code', Trail', dropped', a, e)
  <2>1. CASE Top.kind = "if"
    <3>1. ElsePath(Top) = OtherArm(code', Trail', a)
      <4>1. ElsePath(Top) = [Top.outer EXCEPT !.path = Top.outer.path \ Top.cond]
        BY <1>2, ElsePathType
      <4> QED  BY <4>1, <2>1, <1>3 DEF OtherArm
    <3>2. walk' = Merge(Top.outer, CondAt(code', Trail', a), walk, OtherArm(code', Trail', a))
      BY <3>1, <2>1, <1>2, <1>3
    <3>3. ClosedIf(code', Trail', a, e)  BY <3>2, <2>1, <1>3 DEF ClosedIf
    <3> QED  BY <3>3, <1>3, <1>5 DEF Closed
  <2>2. CASE Top.kind = "else"
    <3>1. PICK b \in a + 1 .. e - 1 : /\ ElsesOf(code', a, e) = {b}
                                      /\ Top.then = Trail'[b].walk
                                      /\ Trail'[b + 1].walk = OtherArm(code', Trail', a)
      BY <2>2, <1>3
    <3>2. walk' = Merge(Top.outer, CondAt(code', Trail', a), Trail'[b].walk, walk)
      BY <3>1, <2>2, <1>2, <1>3
    <3>3. ClosedIf(code', Trail', a, e)  BY <3>1, <3>2, <1>3 DEF ClosedIf
    <3> QED  BY <3>3, <1>3, <1>5 DEF Closed
  <2> QED  BY <2>1, <2>2, <1>2
<1>8. ASSUME NEW m \in 1 .. MaxSymbols, \A j \in 1 .. Len(Trail) : Blind(Trail[j], m)
      PROVE  Blind([walk |-> walk', facts |-> facts'], m)
  <2>1. BlindWalk(walk', m)  BY <1>2, <1>8, BlindMerge
  <2>2. BlindSet(facts, m)
    <3>1. e \in 1 .. Len(Trail) /\ Trail[e].facts = facts  BY <1>3, TrailType
    <3> QED  BY <3>1, <1>8 DEF Blind
  <2> QED  BY <2>1, <2>2, <1>4 DEF Blind
<1>9. ASSUME NEW m \in minted' + 1 .. MaxSymbols
      PROVE  Blind([walk |-> walk', facts |-> facts'], m) /\ BlindTerm(walk'.result, m)
  <2>1. m \in minted + 1 .. MaxSymbols /\ m \in 1 .. MaxSymbols  BY <1>4 DEF TypeInv
  <2>2. \A j \in 1 .. Len(Trail) : Blind(Trail[j], m) /\ BlindTerm(Trail[j].walk.result, m)
    BY <2>1 DEF Static, BlindInv
  <2>3. BlindTerm(walk'.result, m)  BY <2>1, <2>2, <1>2, BlindMerge
  <2> QED  BY <2>1, <2>2, <2>3, <1>8
<1>10. ASSUME NEW k \in 1 .. n - 1, frames[k].kind = "call" PROVE OpenCall(k)'
  <2>0. minted \in 0 .. MaxSymbols /\ \A m \in 1 .. minted : m \in 1 .. MaxSymbols /\ m \in 0 .. MaxSymbols
    BY WpAssumption DEF TypeInv
  <2>1. \A m \in 1 .. minted : (\A j \in 1 .. Len(Trail) : Blind(Trail[j], m)) =>
           Blind([walk |-> walk', facts |-> facts'], m)
    BY <2>0, <1>8
  <2>2. ASSUME NEW m \in 1 .. minted, CallWaits(k, m) PROVE walk'.result = Symbol(m)
    <3>1. Symbol(m) \in Terms  BY <2>0, SymbolType
    <3>2. n \in k + 1 .. Len(frames)  BY <1>3
    <3>3. Top.outer.result = Symbol(m) /\ (~Top.then.dead => Top.then.result = Symbol(m))
      BY <3>2, <2>2, <1>3 DEF CallWaits
    <3>4. ~walk.dead => walk.result = Symbol(m)  BY <2>2 DEF CallWaits
    <3>5. ElsePath(Top).result = Top.outer.result  BY <1>2, ElsePathType DEF Walks
    <3>6. (~t.dead => t.result = Symbol(m)) /\ (~u.dead => u.result = Symbol(m))
      BY <3>3, <3>4, <3>5, <1>2
    <3> QED  BY <3>1, <3>3, <3>6, <1>2, MergeResult
  <2>3. ASSUME NEW m \in 1 .. minted, NEW p \in Top.at + 1 .. Len(code),
               Pending(code', Trail', dropped', p), Waits(p, n, m)
        PROVE  walk'.dead
    <3>1. t.dead \/ u.dead
      <4>1. ListWalk(n) = walk  BY <1>3 DEF ListWalk
      <4> QED  BY <4>1, <2>3, <1>2, <1>3 DEF Waits
    <3>2. InCall
      <4>1. k \in 1 .. Len(frames)  BY <1>3
      <4> QED  BY <4>1, <1>10 DEF InCall, Kinds
    <3>3. Top.at \notin dropped'
      <4> SUFFICES ASSUME Top.at \in dropped' PROVE FALSE  OBVIOUS
      <4>1. Around(code', a, p)
        <5>1. Around(code', a, e)  BY <1>3 DEF Closes
        <5>2. e \in Int /\ p \in Int /\ a < p /\ p <= e  BY <1>3
        <5> QED  BY <5>1, <5>2, AroundEarlier
      <4> QED  BY <4>1, <1>3, <1>5, <2>3 DEF Pending, Lapsed
    <3>4. t.dead /\ u.dead  BY <3>1, <3>2, <3>3, <1>2 DEF Walks
    <3>5. Top.outer \in Walks  BY <1>2
    <3>6. Merge(Top.outer, Top.cond, t, u).dead  BY <3>4, <3>5, MergeDead
    <3> QED  BY <3>6, <1>2
  <2> QED  BY <1>1, <1>2, <1>3, <1>10, <2>1, <2>2, <2>3, CloseKeepsCall
<1> QED  BY <1>1, <1>2, <1>3, <1>6, <1>7, <1>9, <1>10, CloseInv

\* What the end of a loop leaves.
LEMMA EndWhileFacts ==
  ASSUME TypeInv, TypeInv', FramesInv, EndWhile
  PROVE  /\ CloseStep /\ Top.kind = "while" /\ Top.outer \in Walks /\ dropped' = dropped
         /\ minted' \in minted .. MaxSymbols
         /\ walk'.result = Top.outer.result
         /\ \/ /\ code[Top.at].inv = NoInvariant
               /\ walk' = [Top.outer EXCEPT !.dead = TRUE]
            \/ Top.outer.dead /\ walk' = Top.outer
            \/ /\ ~Mutated(Top.at)
               /\ walk' = LoopExit(Top.outer, code[Top.at], Top.outer.x)
            \/ /\ minted' = minted + 1 /\ minted' \in 1 .. MaxSymbols
               /\ walk' = LoopExit(Top.outer, code[Top.at], Symbol(minted'))
         /\ code[Top.at].inv # NoInvariant =>
              accepted' = (walk.dead \/ walk.prem \cap facts \subseteq Where(code[Top.at].inv, walk.x))
<1>1. /\ frames # <<>> /\ Top.kind = "while" /\ Write(Plain("end")) /\ frames' = Pop
      /\ facts' = facts /\ dropped' = dropped
  BY DEF EndWhile
<1>2. Top \in OpenBlocks /\ Top.outer \in Walks /\ Top.outer.x \in Terms /\ minted \in 0 .. MaxSymbols
  BY <1>1, TopType DEF OpenBlocks, TypeInv, Walks
<1>3. CASE /\ code[Top.at].inv = NoInvariant
           /\ walk' = [Top.outer EXCEPT !.dead = TRUE]
           /\ UNCHANGED <<accepted, minted>>
  <2>1. walk'.result = Top.outer.result /\ walk'.dead  BY <1>2, <1>3 DEF Walks
  <2>2. minted' \in minted .. MaxSymbols /\ minted' >= minted  BY <1>2, <1>3, WpAssumption
  <2>3. CloseStep  BY <1>1, <2>1, <2>2 DEF CloseStep
  <2> QED  BY <1>1, <1>2, <1>3, <2>1, <2>2, <2>3
<1>4. CASE /\ code[Top.at].inv # NoInvariant
           /\ Discharge(walk.prem, Where(code[Top.at].inv, walk.x))
           /\ minted' = IF Mutated(Top.at) THEN minted + 1 ELSE minted
           /\ minted' <= MaxSymbols
           /\ walk' = IF Top.outer.dead THEN Top.outer
                      ELSE LoopExit(Top.outer, code[Top.at],
                                    IF Mutated(Top.at) THEN Symbol(minted') ELSE Top.outer.x)
  <2>1. minted' \in minted .. MaxSymbols /\ minted' >= minted /\ minted' \in 0 .. MaxSymbols
    BY <1>2, <1>4, WpAssumption
  <2>2. Symbol(minted') \in Terms  BY <2>1, SymbolType
  <2>3. walk'.result = Top.outer.result /\ walk'.dead = Top.outer.dead
    <3>1. CASE Top.outer.dead  BY <1>4, <3>1
    <3>2. CASE ~Top.outer.dead /\ Mutated(Top.at)  BY <1>2, <1>4, <2>2, <3>2, LoopExitType
    <3>3. CASE ~Top.outer.dead /\ ~Mutated(Top.at)  BY <1>2, <1>4, <3>3, LoopExitType
    <3> QED  BY <3>1, <3>2, <3>3
  <2>4. CloseStep  BY <1>1, <2>1, <2>3 DEF CloseStep
  <2>5. \/ Top.outer.dead /\ walk' = Top.outer
        \/ ~Mutated(Top.at) /\ walk' = LoopExit(Top.outer, code[Top.at], Top.outer.x)
        \/ minted' = minted + 1 /\ walk' = LoopExit(Top.outer, code[Top.at], Symbol(minted'))
    BY <1>4
  <2>6. minted' = minted + 1 => minted' \in 1 .. MaxSymbols  BY <1>2, <2>1
  <2>7. accepted' = (walk.dead \/ walk.prem \cap facts \subseteq Where(code[Top.at].inv, walk.x))
    BY <1>4 DEF Discharge
  <2> QED  BY <1>1, <1>2, <2>1, <2>3, <2>4, <2>5, <2>6, <2>7
<1> QED  BY <1>3, <1>4 DEF EndWhile

LEMMA EndWhileInv ==
  ASSUME TypeInv, Static, FramesInv, EndWhile
  PROVE  Static' /\ FramesInv'
<1>1. TypeInv'  BY EndWhileTypes
<1>2. /\ CloseStep /\ Top.kind = "while" /\ Top.outer \in Walks /\ dropped' = dropped
      /\ minted' \in minted .. MaxSymbols
      /\ walk'.result = Top.outer.result
      /\ \/ /\ code[Top.at].inv = NoInvariant
            /\ walk' = [Top.outer EXCEPT !.dead = TRUE]
         \/ Top.outer.dead /\ walk' = Top.outer
         \/ /\ ~Mutated(Top.at)
            /\ walk' = LoopExit(Top.outer, code[Top.at], Top.outer.x)
         \/ /\ minted' = minted + 1 /\ minted' \in 1 .. MaxSymbols
            /\ walk' = LoopExit(Top.outer, code[Top.at], Symbol(minted'))
      /\ code[Top.at].inv # NoInvariant =>
           accepted' = (walk.dead \/ walk.prem \cap facts \subseteq Where(code[Top.at].inv, walk.x))
  BY <1>1, EndWhileFacts
<1>3. PICK n, a, e \in Nat :
           /\ n = Len(frames) /\ n \in 1 .. Len(frames) /\ Top = frames[n] /\ Top \in OpenBlocks
           /\ \A k \in 1 .. n - 1 : k < n /\ k \in 1 .. Len(frames)
           /\ a = Top.at /\ e = Len(code) + 1 /\ a \in 1 .. e - 1 /\ Len(Trail) = e
           /\ Len(code') = e /\ Closes(code', a, e)
           /\ Trail'[a] = Trail[a] /\ Trail[a].walk = Top.outer /\ code'[a] = code[a]
           /\ code'[e].op = "end" /\ Trail'[e].walk = walk /\ Trail'[e].facts = facts
           /\ Trail'[e + 1].walk = walk'
           /\ \A j \in 1 .. e : Trail'[j] = Trail[j]
           /\ code[a].op = (IF Top.kind = "else" THEN "if" ELSE Top.kind)
  <2>1. PICK n, a, e \in Nat : ClosedBlock(n, a, e)  BY <1>1, <1>2, CloseFacts
  <2> QED  BY <2>1 DEF ClosedBlock
<1>4. minted \in 0 .. MaxSymbols /\ facts' = facts /\ MaxSymbols \in Nat /\ Top.outer.x \in Terms
  BY <1>2, WpAssumption DEF TypeInv, EndWhile, Walks
<1>5. code'[a].op = "while" /\ code'[a].inv = code[a].inv  BY <1>2, <1>3
<1>6. accepted' => Asked(code', Trail', e)
  <2> HAVE accepted'
  <2>1. ~walk.dead /\ code[a].inv # NoInvariant => walk.prem \cap facts \subseteq Where(code[a].inv, walk.x)
    BY <1>2, <1>3
  <2> QED  BY <2>1, <1>3, <1>5, AskedEnd
<1>7. Closed(code', Trail', dropped', a, e)
  <2>1. ClosedWhile(code', Trail', a, e)
    <3>1. CASE code[a].inv = NoInvariant  BY <3>1, <1>5 DEF ClosedWhile
    <3>2. CASE Top.outer.dead  BY <3>2, <1>3 DEF ClosedWhile
    <3>3. CASE ~Mutated(Top.at) /\ walk' = LoopExit(Top.outer, code[Top.at], Top.outer.x)
      <4>1. ~Assigns(code', a, e - 1)
        <5>1. \A k \in a .. e - 1 : code'[k] = code[k]
          <6>1. \A k \in 1 .. Len(code) : code'[k] = code[k]
            <7>1. Plain("end") \in Instrs /\ Write(Plain("end"))
              BY InstrTypes DEF OpNames, EndWhile
            <7> QED  BY <7>1, <1>1, WriteFacts
          <6> QED  BY <6>1, <1>3
        <5>2. e - 1 = Len(code)  BY <1>3, TrailType
        <5> QED  BY <5>1, <5>2, <3>3, <1>3 DEF Assigns, Mutated
      <4> QED  BY <4>1, <3>3, <1>3 DEF ClosedWhile
    <3>4. CASE /\ minted' = minted + 1 /\ minted' \in 1 .. MaxSymbols
               /\ walk' = LoopExit(Top.outer, code[Top.at], Symbol(minted'))
      <4>1. minted' \in minted + 1 .. MaxSymbols  BY <3>4, <1>4
      <4>2. \A j \in 1 .. e : Blind(Trail'[j], minted')  BY <4>1, <1>3 DEF Static, BlindInv
      <4>3. Trail'[e + 1].walk = LoopExit(Trail'[a].walk, code'[a], Symbol(minted'))  BY <3>4, <1>3
      <4> QED  BY <4>2, <4>3, <3>4 DEF ClosedWhile
    <3> QED  BY <3>1, <3>2, <3>3, <3>4, <1>2, <1>3
  <2> QED  BY <2>1, <1>3, <1>5 DEF Closed
<1>8. ASSUME NEW m \in 1 .. MaxSymbols, \A j \in 1 .. Len(Trail) : Blind(Trail[j], m), m # minted + 1
      PROVE  Blind([walk |-> walk', facts |-> facts'], m)
  <2>0. a \in 1 .. Len(Trail) /\ e \in 1 .. Len(Trail) /\ Trail[e].facts = facts  BY <1>3, TrailType
  <2>1. BlindWalk(Top.outer, m) /\ BlindSet(facts, m) /\ BlindTerm(Top.outer.x, m)
    BY <2>0, <1>3, <1>8 DEF Blind, BlindWalk
  <2>2. BlindWalk(walk', m)
    <3>1. CASE walk' = [Top.outer EXCEPT !.dead = TRUE]
      <4>1. walk'.x = Top.outer.x /\ walk'.path = Top.outer.path /\ walk'.prem = Top.outer.prem
        BY <3>1, <1>2 DEF Walks
      <4> QED  BY <4>1, <2>1 DEF BlindWalk
    <3>2. CASE walk' = Top.outer  BY <3>2, <2>1
    <3>3. CASE walk' = LoopExit(Top.outer, code[Top.at], Top.outer.x)
      <4>1. BlindWalk(LoopExit(Top.outer, code[Top.at], Top.outer.x), m)
        BY <2>1, <1>2, <1>4, BlindLoopExit
      <4> QED  BY <3>3, <4>1
    <3>4. CASE /\ minted' = minted + 1 /\ minted' \in 1 .. MaxSymbols
               /\ walk' = LoopExit(Top.outer, code[Top.at], Symbol(minted'))
      <4>1. PICK q \in 0 .. MaxSymbols : q = minted' /\ q # m  BY <3>4, <1>8
      <4>2. Symbol(q) \in Terms /\ BlindTerm(Symbol(q), m)  BY <4>1, SymbolType, BlindSymbol
      <4>3. BlindWalk(LoopExit(Top.outer, code[Top.at], Symbol(q)), m)
        BY <2>1, <4>2, <1>2, BlindLoopExit
      <4> QED  BY <3>4, <4>1, <4>3
    <3> QED  BY <3>1, <3>2, <3>3, <3>4, <1>2
  <2> QED  BY <2>1, <2>2, <1>4 DEF Blind
<1>9. ASSUME NEW m \in minted' + 1 .. MaxSymbols
      PROVE  Blind([walk |-> walk', facts |-> facts'], m) /\ BlindTerm(walk'.result, m)
  <2>1. m \in minted + 1 .. MaxSymbols /\ m \in 1 .. MaxSymbols  BY <1>2, <1>4
  <2>2. \A j \in 1 .. Len(Trail) : Blind(Trail[j], m) /\ BlindTerm(Trail[j].walk.result, m)
    BY <2>1 DEF Static, BlindInv
  <2>3. a \in 1 .. Len(Trail)  BY <1>3
  <2>4. BlindTerm(walk'.result, m)  BY <2>2, <2>3, <1>2, <1>3
  <2>5. BlindWalk(walk', m)
    <3>1. CASE m # minted + 1  BY <3>1, <2>1, <2>2, <1>8 DEF Blind
    <3>2. CASE m = minted + 1
      <4>1. minted' = minted  BY <3>2, <1>2, <1>4
      <4>2. BlindWalk(Top.outer, m) /\ BlindTerm(Top.outer.x, m)
        BY <2>2, <2>3, <1>3 DEF Blind, BlindWalk
      <4>3. CASE walk' = [Top.outer EXCEPT !.dead = TRUE]
        <5>1. walk'.x = Top.outer.x /\ walk'.path = Top.outer.path /\ walk'.prem = Top.outer.prem
          BY <4>3, <1>2 DEF Walks
        <5> QED  BY <5>1, <4>2 DEF BlindWalk
      <4>4. CASE walk' = Top.outer  BY <4>4, <4>2
      <4>5. CASE walk' = LoopExit(Top.outer, code[Top.at], Top.outer.x)
        <5>1. BlindWalk(LoopExit(Top.outer, code[Top.at], Top.outer.x), m)
          BY <4>2, <2>1, <1>2, <1>4, BlindLoopExit
        <5> QED  BY <4>5, <5>1
      <4>6. minted' # minted + 1  BY <4>1, <1>4
      <4> QED  BY <4>3, <4>4, <4>5, <4>6, <1>2
    <3> QED  BY <3>1, <3>2
  <2>6. BlindSet(facts, m)
    <3>1. e \in 1 .. Len(Trail) /\ Trail[e].facts = facts  BY <1>3, TrailType
    <3> QED  BY <3>1, <2>2 DEF Blind
  <2> QED  BY <2>4, <2>5, <2>6, <1>4 DEF Blind
<1>10. ASSUME NEW k \in 1 .. n - 1, frames[k].kind = "call" PROVE OpenCall(k)'
  <2>1. \A m \in 1 .. minted : (\A j \in 1 .. Len(Trail) : Blind(Trail[j], m)) =>
           Blind([walk |-> walk', facts |-> facts'], m)
    <3>1. \A m \in 1 .. minted : m \in 1 .. MaxSymbols /\ m # minted + 1  BY <1>4
    <3> QED  BY <3>1, <1>8
  <2>2. ASSUME NEW m \in 1 .. minted, CallWaits(k, m) PROVE walk'.result = Symbol(m)
    <3>1. n \in k + 1 .. Len(frames)  BY <1>3
    <3> QED  BY <3>1, <2>2, <1>2, <1>3 DEF CallWaits
  <2>3. ASSUME NEW p \in Top.at + 1 .. Len(code), Pending(code', Trail', dropped', p)
        PROVE  FALSE
    <3>1. Top.at \in dropped'  BY <1>2, <1>3, <1>10 DEF FramesInv
    <3>2. Around(code', a, p)
      <4>1. Around(code', a, e)  BY <1>3 DEF Closes
      <4>2. e \in Int /\ p \in Int /\ a < p /\ p <= e  BY <1>3
      <4> QED  BY <4>1, <4>2, AroundEarlier
    <3> QED  BY <3>1, <3>2, <1>3, <1>5, <2>3 DEF Pending, Lapsed
  <2> QED  BY <1>1, <1>2, <1>3, <1>10, <2>1, <2>2, <2>3, CloseKeepsCall
<1> QED  BY <1>1, <1>2, <1>3, <1>6, <1>7, <1>9, <1>10, CloseInv

LEMMA EndCallInv ==
  ASSUME TypeInv, Static, FramesInv, EndCall
  PROVE  Static' /\ FramesInv'
<1>1. TypeInv'  BY EndCallTypes
<1>2. /\ frames # <<>> /\ Top.kind = "call" /\ Write(Plain("end")) /\ frames' = Pop
      /\ facts' = facts /\ dropped' = dropped /\ minted' = minted
      /\ walk' = IF Top.outer.dead THEN Top.outer ELSE [Top.outer EXCEPT !.x = walk.result]
  BY DEF EndCall
<1>3. Top \in OpenBlocks /\ Top.outer \in Walks /\ minted \in 0 .. MaxSymbols /\ MaxSymbols \in Nat
  BY <1>2, TopType, WpAssumption DEF OpenBlocks, TypeInv
<1>4. /\ Top.outer.dead => walk'.dead
      /\ walk'.x = Top.outer.x \/ walk'.x = walk.result
      /\ walk'.path = Top.outer.path /\ walk'.prem = Top.outer.prem
      /\ walk'.result = Top.outer.result
  BY <1>2, <1>3 DEF Walks
<1>5. minted' >= minted  BY <1>2, <1>3
<1>6. CloseStep  BY <1>2, <1>4, <1>5 DEF CloseStep
<1>7. PICK n, a, e \in Nat :
           /\ n = Len(frames) /\ n \in 1 .. Len(frames) /\ Top = frames[n]
           /\ \A k \in 1 .. n - 1 : k < n /\ k \in 1 .. Len(frames)
           /\ a = Top.at /\ e = Len(code) + 1 /\ a \in 1 .. e - 1 /\ Len(Trail) = e
           /\ Closes(code', a, e)
           /\ Trail'[a] = Trail[a] /\ Trail[a].walk = Top.outer /\ code'[a] = code[a]
           /\ code'[e].op = "end" /\ Trail'[e].walk = walk /\ Trail'[e + 1].walk = walk'
           /\ Trail'[e] = Trail[e]
           /\ \A j \in 1 .. e : Trail'[j] = Trail[j]
           /\ code[a].op = (IF Top.kind = "else" THEN "if" ELSE Top.kind)
  <2>1. PICK n, a, e \in Nat : ClosedBlock(n, a, e)  BY <1>1, <1>6, CloseFacts
  <2> QED  BY <2>1 DEF ClosedBlock
<1>8. code'[a].op = "call"  BY <1>2, <1>7
<1>9. Asked(code', Trail', e)  BY <1>7, <1>8, AskedEnd
<1>10. Plain("end") \in Instrs  BY InstrTypes DEF OpNames
<1>11. Closed(code', Trail', dropped', a, e)
  <2>1. ClosedCall(code', Trail', dropped', a, e)
    <3>1. CASE Top.outer.dead  BY <3>1, <1>7 DEF ClosedCall
    <3>2. CASE ~Top.outer.dead
      <4>1. PICK m \in 1 .. minted : /\ \A j \in 1 .. Len(Trail) : Blind(Trail[j], m)
                                     /\ CallWaits(n, m)
        BY <3>2, <1>2, <1>7 DEF FramesInv, OpenCall
      <4>2. m \in 1 .. MaxSymbols  BY <1>3
      <4>3. \A j \in 1 .. e : Blind(Trail'[j], m)  BY <4>1, <1>7
      <4>4. Trail'[e + 1].walk = [Trail'[a].walk EXCEPT !.x = Trail'[e].walk.result]
        BY <3>2, <1>2, <1>7
      <4>5. ASSUME NEW i \in a + 1 .. e - 1, Pending(code', Trail', dropped', i)
            PROVE  Trail'[e].walk.result = Symbol(m) \/ Trail'[e].walk.result = Trail'[i].walk.x
        <5>1. i \in 1 .. Len(code) /\ i \in 1 .. e  BY <1>7
        <5>2. Pending(code, Trail, dropped, i)  BY <5>1, <4>5, <1>1, <1>2, <1>10, PendingBefore
        <5>3. frames[n].at < i /\ n \in n .. Len(frames) /\ ~(n < Len(frames))  BY <1>7
        <5>4. Waits(i, n, m)  BY <5>1, <5>2, <5>3, <4>1 DEF CallWaits
        <5>5. ListWalk(n) = walk /\ Trail'[i] = Trail[i]  BY <5>1, <1>7 DEF ListWalk
        <5> QED  BY <5>4, <5>5, <1>2, <1>7 DEF Waits
      <4> QED  BY <4>2, <4>3, <4>4, <4>5 DEF ClosedCall
    <3> QED  BY <3>1, <3>2
  <2> QED  BY <2>1, <1>7, <1>8 DEF Closed
<1>12. ASSUME NEW m \in minted' + 1 .. MaxSymbols
       PROVE  Blind([walk |-> walk', facts |-> facts'], m) /\ BlindTerm(walk'.result, m)
  <2>1. m \in minted + 1 .. MaxSymbols  BY <1>2
  <2>2. \A j \in 1 .. Len(Trail) : Blind(Trail[j], m) /\ BlindTerm(Trail[j].walk.result, m)
    BY <2>1 DEF Static, BlindInv
  <2>3. a \in 1 .. Len(Trail) /\ e \in 1 .. Len(Trail) /\ Trail[e].facts = facts  BY <1>7, TrailType
  <2>4. /\ BlindWalk(Top.outer, m) /\ BlindTerm(walk.result, m) /\ BlindTerm(Top.outer.result, m)
        /\ BlindSet(facts, m)
    BY <2>2, <2>3, <1>7 DEF Blind
  <2> QED  BY <2>4, <1>2, <1>4 DEF Blind, BlindWalk
<1>13. ASSUME NEW k \in 1 .. n - 1, frames[k].kind = "call" PROVE OpenCall(k)'
  <2>1. k = n  BY <1>2, <1>7, <1>13 DEF FramesInv
  <2> QED  BY <2>1, <1>7
<1> QED  BY <1>1, <1>6, <1>7, <1>9, <1>11, <1>12, <1>13, CloseInv

(***************************************************************************)
(* The body as a run finds it.                                             *)
(***************************************************************************)
LEMMA InitInv ==
  ASSUME Init
  PROVE  Static /\ FramesInv
<1>1. TypeInv  BY InitTypes
<1>2. code = <<>> /\ frames = <<>> /\ before = <<>> /\ facts = Worlds /\ minted = 0
      /\ walk = [x |-> Symbol(0), result |-> Symbol(0), path |-> Worlds,
                 prem |-> {w \in Worlds : w[0] \in Inputs}, dead |-> FALSE]
  BY DEF Init
<1>3. Len(code) = 0 /\ Len(Trail) = 1 /\ Trail[1] = [walk |-> walk, facts |-> facts] /\ Len(frames) = 0
  BY <1>1, <1>2, TrailType
<1>4. StartInv  BY <1>2, <1>3 DEF StartInv
<1>5. FactsKept(code, Trail)
  <2> SUFFICES ASSUME NEW i \in 1 .. Len(Trail), NEW j \in 1 .. Len(Trail)
               PROVE  Trail[j].facts = Trail[i].facts
    BY DEF FactsKept
  <2>1. i = 1 /\ j = 1  BY <1>3
  <2> QED  BY <2>1
<1>6. StepInv /\ BlockInv
  <2>1. \A i \in 1 .. Len(code) : FALSE  BY <1>3
  <2> QED  BY <2>1 DEF StepInv, BlockInv
<1>7. BlindInv
  <2> SUFFICES ASSUME NEW m \in 1 .. MaxSymbols
               PROVE  Blind(Trail[1], m) /\ BlindTerm(Trail[1].walk.result, m)
    BY <1>2, <1>3 DEF BlindInv
  <2>1. 0 \in 0 .. MaxSymbols /\ 0 # m  BY WpAssumption
  <2>2. BlindTerm(Symbol(0), m)  BY <2>1, BlindSymbol
  <2>3. BlindSet(Worlds, m)  BY BlindSets
  <2>4. BlindSet({w \in Worlds : w[0] \in Inputs}, m)  BY PutType DEF BlindSet
  <2>5. /\ Trail[1].walk.x = Symbol(0) /\ Trail[1].walk.result = Symbol(0)
        /\ Trail[1].walk.path = Worlds /\ Trail[1].walk.prem = {w \in Worlds : w[0] \in Inputs}
        /\ Trail[1].facts = Worlds
    BY <1>2, <1>3
  <2> QED  BY <2>2, <2>3, <2>4, <2>5 DEF Blind, BlindWalk
<1>8. FramesInv
  <2>1. \A k \in 1 .. Len(frames) : FALSE  BY <1>3
  <2> QED  BY <2>1 DEF FramesInv
<1> QED  BY <1>4, <1>5, <1>6, <1>7, <1>8 DEF Static

LEMMA UnchangedInv ==
  ASSUME Static, FramesInv, UNCHANGED walkVars
  PROVE  Static' /\ FramesInv'
<1>1. /\ code' = code /\ before' = before /\ walk' = walk /\ frames' = frames /\ facts' = facts
      /\ minted' = minted /\ accepted' = accepted /\ dropped' = dropped
  BY DEF walkVars
<1>2. Trail' = Trail  BY <1>1 DEF Trail
<1>3. \A o : IsOpen(o)' <=> IsOpen(o)  BY <1>1 DEF IsOpen
<1>4. Static'
  BY <1>1, <1>2, <1>3 DEF Static, StartInv, StepInv, BlockInv, BlindInv
<1>5. \A k : FrameOK(k)' <=> FrameOK(k)  BY <1>1, <1>2 DEF FrameOK
<1>6. \A i, j, m : Waits(i, j, m)' <=> Waits(i, j, m)  BY <1>1, <1>2 DEF Waits, ListWalk
<1>7. \A k, m : CallWaits(k, m)' <=> CallWaits(k, m)
  BY <1>1, <1>2, <1>6 DEF CallWaits, Jumped
<1>8. \A k : OpenCall(k)' <=> OpenCall(k)  BY <1>1, <1>2, <1>7 DEF OpenCall
<1>9. FramesInv'  BY <1>1, <1>5, <1>8 DEF FramesInv
<1> QED  BY <1>4, <1>9

\* The body that a run runs: every block is closed, every query discharged.
Settled == TypeInv /\ Static /\ accepted /\ frames = <<>>

LEMMA SettledFacts ==
  ASSUME Settled
  PROVE  /\ Finished(code) /\ Len(code) \in Nat /\ Len(Trail) = Len(code) + 1 /\ code \in Seq(Instrs)
         /\ \A i \in 1 .. Len(code) + 1 : Trail[i] \in Points /\ Trail[i].walk \in Walks /\ Trail[i].walk.x \in Terms
         /\ \A i \in 1 .. Len(code) : Step(code, Trail, i) /\ Asked(code, Trail, i)
         /\ \A o \in 1 .. Len(code) : code[o].op \in Openers =>
              \E e \in 1 .. Len(code) : Closed(code, Trail, dropped, o, e)
         /\ \A o, e : Closes(code, o, e) => Closed(code, Trail, dropped, o, e)
<1>1. TypeInv /\ Static /\ accepted /\ frames = <<>>  BY DEF Settled
<1>2. /\ Len(code) \in Nat /\ Len(Trail) = Len(code) + 1 /\ code \in Seq(Instrs) /\ Trail \in Seq(Points)
  BY <1>1, TrailType DEF TypeInv
<1>3. \A i \in 1 .. Len(code) + 1 : Trail[i] \in Points /\ Trail[i].walk \in Walks /\ Trail[i].walk.x \in Terms
  <2> TAKE i \in 1 .. Len(code) + 1
  <2>1. Trail[i] \in Points  BY <1>2
  <2> QED  BY <2>1 DEF Points, Walks
<1>4. \A o : ~IsOpen(o)  BY <1>1 DEF IsOpen
<1>5. \A o \in 1 .. Len(code) : code[o].op \in Openers =>
              \E e \in 1 .. Len(code) : Closed(code, Trail, dropped, o, e)
  BY <1>1, <1>4 DEF Static, BlockInv
<1>6. Finished(code)  BY <1>5 DEF Finished, Closed
<1>7. \A i \in 1 .. Len(code) : Step(code, Trail, i) /\ Asked(code, Trail, i)
  BY <1>1 DEF Static, StepInv
<1>8. ASSUME NEW o, NEW e, Closes(code, o, e) PROVE Closed(code, Trail, dropped, o, e)
  <2>1. o \in 1 .. Len(code) /\ code[o].op \in Openers  BY <1>2, <1>8 DEF Closes, Around
  <2>2. PICK f \in 1 .. Len(code) : Closed(code, Trail, dropped, o, f)  BY <1>5, <2>1
  <2>3. f = e  BY <1>8, <2>2, OneEnd DEF Closed
  <2> QED  BY <2>2, <2>3
<1> QED  BY <1>2, <1>3, <1>5, <1>6, <1>7, <1>8

\* The else of an if, or the end when it has none.
LEMMA ArmFacts ==
  ASSUME Settled, NEW k, NEW g, Closes(code, k, g), code[k].op = "if"
  PROVE  /\ ElseArm(code, k) \in k + 1 .. g /\ code[ElseArm(code, k)].op \in {"else", "end"}
         /\ \/ ElsesOf(code, k, g) = {} /\ ElseArm(code, k) = g
            \/ ElsesOf(code, k, g) = {ElseArm(code, k)} /\ ElseArm(code, k) < g
<1>1. Len(code) \in Nat /\ Closed(code, Trail, dropped, k, g)  BY SettledFacts
<1>2. ClosedIf(code, Trail, k, g)  BY <1>1 DEF Closed
<1>3. k \in 1 .. g - 1 /\ g \in 1 .. Len(code)  BY DEF Closes, Around
<1>4. CASE ElsesOf(code, k, g) = {}
  <2>1. ElseArm(code, k) = g  BY <1>1, <1>4, ElseArmIs
  <2>2. code[g].op = "end"  BY ClosesEnd
  <2> QED  BY <1>3, <1>4, <2>1, <2>2
<1>5. CASE \E a \in k + 1 .. g - 1 : ElsesOf(code, k, g) = {a}
  <2>1. PICK a \in k + 1 .. g - 1 : ElsesOf(code, k, g) = {a}  BY <1>5
  <2>2. ElseArm(code, k) = a  BY <1>1, <2>1, ElseArmIs
  <2>3. code[a].op = "else"  BY <2>1 DEF ElsesOf, Among
  <2> QED  BY <1>3, <2>1, <2>2, <2>3
<1> QED  BY <1>2, <1>4, <1>5 DEF ClosedIf

(***************************************************************************)
(* The world of a run.                                                     *)
(***************************************************************************)
\* Two worlds that everything up to e takes for the same.
Alike(w, u, e) ==
  /\ u[0] = w[0]
  /\ \A i \in 1 .. e : /\ w \in Trail[i].walk.path <=> u \in Trail[i].walk.path
                       /\ w \in Trail[i].walk.prem <=> u \in Trail[i].walk.prem
                       /\ w \in Trail[i].facts <=> u \in Trail[i].facts
                       /\ Trail[i].walk.x[w] = Trail[i].walk.x[u]

LEMMA AlikeSame ==
  ASSUME NEW w, NEW e
  PROVE  Alike(w, w, e)
BY DEF Alike

LEMMA AlikePut ==
  ASSUME NEW w \in Worlds, NEW m \in 1 .. MaxSymbols, NEW v \in Values, NEW e,
         \A i \in 1 .. e : Blind(Trail[i], m)
  PROVE  Put(w, m, v) \in Worlds /\ Symbol(m)[Put(w, m, v)] = v /\ Alike(w, Put(w, m, v), e)
<1>1. Put(w, m, v) \in Worlds /\ Put(w, m, v)[m] = v /\ Put(w, m, v)[0] = w[0]  BY PutType
<1>2. Symbol(m)[Put(w, m, v)] = v  BY <1>1 DEF Symbol
<1>3. ASSUME NEW i \in 1 .. e
      PROVE  /\ w \in Trail[i].walk.path <=> Put(w, m, v) \in Trail[i].walk.path
             /\ w \in Trail[i].walk.prem <=> Put(w, m, v) \in Trail[i].walk.prem
             /\ w \in Trail[i].facts <=> Put(w, m, v) \in Trail[i].facts
             /\ Trail[i].walk.x[w] = Trail[i].walk.x[Put(w, m, v)]
  <2>1. /\ BlindTerm(Trail[i].walk.x, m) /\ BlindSet(Trail[i].walk.path, m)
        /\ BlindSet(Trail[i].walk.prem, m) /\ BlindSet(Trail[i].facts, m)
    BY DEF Blind, BlindWalk
  <2> QED  BY <2>1 DEF BlindTerm, BlindSet
<1> QED  BY <1>1, <1>2, <1>3 DEF Alike

\* A block around i is closed behind i, and its arm is not a plain statement.
LEMMA BlockAround ==
  ASSUME Settled, NEW i \in 1 .. Len(code) + 1, NEW k, Around(code, k, i)
  PROVE  \E g \in Nat :
           /\ Closes(code, k, g) /\ EndOf(code, k) = g /\ k \in 1 .. i - 1 /\ k \in Nat
           /\ g \in 1 .. Len(code) /\ i <= g
<1>1. /\ Finished(code) /\ Len(code) \in Nat  BY SettledFacts
<1>2. k \in 1 .. i - 1 /\ code[k].op \in Openers /\ k \in 1 .. Len(code)  BY <1>1 DEF Around
<1>3. PICK g : Closes(code, k, g)  BY <1>1, <1>2 DEF Finished
<1>4. EndOf(code, k) = g /\ g \in 1 .. Len(code)  BY <1>1, <1>3, EndIs DEF Closes
<1>5. i <= g
  <2> SUFFICES ASSUME g \in k .. i - 1 PROVE FALSE  BY <1>1, <1>2, <1>3, <1>4 DEF Closes, Around
  <2>1. Level(code, k, g) >= 1  BY DEF Around
  <2> QED  BY <2>1, <1>3 DEF Closes
<1> QED  BY <1>2, <1>3, <1>4, <1>5

\* Moving on by one statement inside a block.
LEMMA BlockNext ==
  ASSUME Settled, NEW i \in 1 .. Len(code), code[i].op \notin {"else", "end"},
         NEW k, Around(code, k, i), NEW w, NEW v, NEW v2, FitsBlock(w, k, i, v),
         code[i].op = "assign" \/ v2 = v
  PROVE  FitsBlock(w, k, i + 1, v2)
<1>1. Len(code) \in Nat  BY SettledFacts
<1>2. PICK g \in Nat : /\ Closes(code, k, g) /\ EndOf(code, k) = g /\ k \in 1 .. i - 1 /\ k \in Nat
                       /\ g \in 1 .. Len(code) /\ i <= g
  <2> i \in 1 .. Len(code) + 1  BY <1>1
  <2> QED  BY BlockAround
<1>3. code[g].op = "end" /\ i \in k .. g - 1
  <2>1. code[g].op = "end"  BY <1>2, ClosesEnd
  <2>2. i # g  BY <2>1
  <2> QED  BY <1>1, <1>2, <2>1, <2>2
<1>4. ~Assigns(code, k, EndOf(code, k) - 1) => v2 = v
  <2>1. code[i].op = "assign" => Assigns(code, k, g - 1)  BY <1>3 DEF Assigns
  <2> QED  BY <2>1, <1>2
<1>5. code[k].op = "if" => (i <= ElseArm(code, k) <=> i + 1 <= ElseArm(code, k))
  <2> HAVE code[k].op = "if"
  <2>1. ElseArm(code, k) \in k + 1 .. g /\ code[ElseArm(code, k)].op \in {"else", "end"}
    BY <1>2, ArmFacts
  <2>2. ElseArm(code, k) # i  BY <2>1
  <2> QED  BY <2>1, <2>2, <1>2
<1> QED  BY <1>4, <1>5 DEF FitsBlock

\* Behind a block: the blocks around it were fitted inside it, and are still.
LEMMA BlockBehind ==
  ASSUME Settled, NEW o, NEW e, Closes(code, o, e), NEW p \in o .. e, NEW w, NEW u, NEW v, NEW q,
         q \in o + 1 .. e + 1, Alike(w, u, e),
         NEW k, Around(code, k, o), FitsBlock(w, k, p, v)
  PROVE  FitsBlock(u, k, q, v)
<1>1. Len(code) \in Nat  BY SettledFacts
<1>2. o \in 1 .. e - 1 /\ e \in 1 .. Len(code)  BY DEF Closes, Around
<1>3. PICK g \in Nat : Closes(code, k, g) /\ EndOf(code, k) = g /\ k \in 1 .. o - 1
  <2> o \in 1 .. Len(code) + 1  BY <1>1, <1>2
  <2> QED  BY BlockAround
<1>4. k \in 1 .. e  BY <1>2, <1>3
<1>5. code[k].op = "if" => (p <= ElseArm(code, k) <=> q <= ElseArm(code, k))
  <2> HAVE code[k].op = "if"
  <2>1. \/ ElsesOf(code, k, g) = {} /\ ElseArm(code, k) = g
        \/ ElsesOf(code, k, g) = {ElseArm(code, k)} /\ ElseArm(code, k) < g
    BY <1>3, ArmFacts
  <2>2. PICK a : a = ElseArm(code, k) /\ (a = g \/ a \in ElsesOf(code, k, g))  BY <2>1
  <2>3. a \in Int /\ ~(a \in o .. e)  BY <1>3, <2>2, NoElseInside
  <2> QED  BY <2>2, <2>3, <1>2
<1>6. /\ w \in Trail[k].walk.path <=> u \in Trail[k].walk.path
      /\ w \in Trail[k].walk.prem <=> u \in Trail[k].walk.prem
      /\ Trail[k].walk.x[w] = Trail[k].walk.x[u]
  BY <1>4 DEF Alike
<1>7. w \in Trail[k].walk.path => (w \in CondAt(code, Trail, k) <=> u \in CondAt(code, Trail, k))
  <2> HAVE w \in Trail[k].walk.path
  <2>1. k \in 1 .. Len(code) + 1  BY <1>1, <1>2, <1>4
  <2>2. Trail[k].walk \in Walks  BY <2>1, SettledFacts
  <2>3. w \in Worlds /\ u \in Worlds  BY <2>2, <1>6 DEF Walks
  <2> QED  BY <2>3, <1>6 DEF CondAt, Where
<1> QED  BY <1>5, <1>6, <1>7 DEF FitsBlock

LEMMA FitsBehind ==
  ASSUME Settled, NEW o, NEW e, Closes(code, o, e), NEW p \in o .. e, NEW w, NEW u, NEW v,
         Fits(w, p, v), p = o \/ Around(code, o, p), Alike(w, u, e),
         ~Trail[e + 1].walk.dead, u \in Trail[e + 1].walk.path, u \in Trail[e + 1].walk.prem,
         u \in Trail[e + 1].facts, Trail[e + 1].walk.x[u] = v
  PROVE  Fits(u, e + 1, v)
<1>1. o \in 1 .. e - 1 /\ e \in 1 .. Len(code) /\ e \in Int /\ p \in Int  BY DEF Closes, Around
<1>2. ASSUME NEW k \in 1 .. e, Around(code, k, e + 1) PROVE FitsBlock(u, k, e + 1, v)
  <2>1. k < o /\ k \in Int /\ o \in Int /\ Around(code, k, o)  BY <1>2, AroundBehind
  <2>2. Around(code, k, p)
    <3>1. CASE p = o  BY <3>1, <2>1
    <3>2. CASE Around(code, o, p)  BY <3>2, <2>1, <1>1, AroundInner
    <3> QED  BY <3>1, <3>2
  <2>3. k \in 1 .. p - 1  BY <2>1, <1>1
  <2>4. FitsBlock(w, k, p, v)  BY <2>2, <2>3 DEF Fits
  <2>5. e + 1 \in o + 1 .. e + 1  BY <1>1
  <2> QED  BY <2>1, <2>4, <2>5, BlockBehind
<1>3. u[0] = input  BY DEF Alike, Fits
<1>4. (e + 1) - 1 = e  BY <1>1
<1> QED  BY <1>2, <1>3, <1>4 DEF Fits

\* The arm of an if that is not taken on the guard.
LEMMA FitsElse ==
  ASSUME Settled, NEW o, NEW e, Closes(code, o, e), code[o].op = "if",
         NEW a, ElsesOf(code, o, e) = {a}, ElseArm(code, o) = a, a \in o + 1 .. e - 1,
         Trail[a + 1].walk = OtherArm(code, Trail, o),
         NEW w, NEW v, Fits(w, o, v), w \notin CondAt(code, Trail, o), w \in Trail[a + 1].facts
  PROVE  Fits(w, a + 1, v)
<1>1. o \in 1 .. e - 1 /\ e \in 1 .. Len(code) /\ Len(code) \in Nat /\ a \in Int /\ o \in Int
  BY SettledFacts DEF Closes, Around
<1>2. Trail[o].walk \in Walks
  <2>1. o \in 1 .. Len(code) + 1  BY <1>1
  <2> QED  BY <2>1, SettledFacts
<1>3. /\ Trail[a + 1].walk.dead = Trail[o].walk.dead /\ Trail[a + 1].walk.x = Trail[o].walk.x
      /\ Trail[a + 1].walk.prem = Trail[o].walk.prem
      /\ Trail[a + 1].walk.path = Trail[o].walk.path \ CondAt(code, Trail, o)
  BY <1>2 DEF OtherArm, Walks
<1>4. Level(code, o, a) = 1 /\ code[a].op = "else"
  <2>1. a \in ElsesOf(code, o, e)  OBVIOUS
  <2> QED  BY <2>1 DEF ElsesOf, Among
<1>5. Around(code, o, a)
  <2>1. Around(code, o, e)  BY DEF Closes
  <2>2. e \in Int /\ o < a /\ a <= e  BY <1>1
  <2> QED  BY <1>1, <2>1, <2>2, AroundEarlier
<1>6. ASSUME NEW k \in 1 .. a, Around(code, k, a + 1) PROVE FitsBlock(w, k, a + 1, v)
  <2>1. k = o \/ (k < o /\ Around(code, k, o))
    <3>1. code[a].op \notin Openers  BY <1>4 DEF Openers
    <3> QED  BY <1>1, <1>4, <1>5, <1>6, <3>1, AroundElse
  <2>2. CASE k = o
    <3>1. ~(a + 1 <= ElseArm(code, o))  BY <1>1
    <3>2. code[k].op = "if" /\ code[k].op # "while"  BY <2>2
    <3> QED  BY <2>2, <3>1, <3>2 DEF FitsBlock, Fits
  <2>3. CASE k < o /\ Around(code, k, o)
    <3>1. k \in 1 .. o - 1 /\ o \in o .. e /\ a + 1 \in o + 1 .. e + 1  BY <2>3, <1>1
    <3>2. FitsBlock(w, k, o, v)  BY <2>3, <3>1 DEF Fits
    <3> QED  BY <2>3, <3>1, <3>2, AlikeSame, BlockBehind
  <2> QED  BY <2>1, <2>2, <2>3
<1>7. (a + 1) - 1 = a  BY <1>1
<1> QED  BY <1>3, <1>6, <1>7 DEF Fits

\* The arm that world w takes goes on.
GoesOn(w, F, t, u) == (w \in F => ~t.dead) /\ (w \notin F => ~u.dead)

\* A merge keeps the arm that the world took.
LEMMA MergeFits ==
  ASSUME NEW outer \in Walks, NEW F, NEW t \in Walks, NEW u \in Walks, NEW w \in Worlds,
         ~outer.dead, GoesOn(w, F, t, u)
  PROVE  /\ ~Merge(outer, F, t, u).dead
         /\ Merge(outer, F, t, u).path = outer.path /\ Merge(outer, F, t, u).prem = outer.prem
         /\ Merge(outer, F, t, u).x[w] = IF w \in F THEN t.x[w] ELSE u.x[w]
<1> DEFINE M == Merge(outer, F, t, u)
<1>0. /\ M.path = outer.path /\ M.prem = outer.prem
      /\ ~(t.dead /\ u.dead) => M.dead = outer.dead
      /\ t.dead /\ ~u.dead => M.x = u.x
      /\ ~t.dead /\ u.dead => M.x = t.x
      /\ ~t.dead /\ ~u.dead => M.x = Ite(F, t.x, u.x)
  BY MergeType
<1> USE DEF GoesOn
<1> HIDE DEF M
<1>2. CASE t.dead /\ ~u.dead  BY <1>0, <1>2 DEF M
<1>3. CASE ~t.dead /\ u.dead  BY <1>0, <1>3 DEF M
<1>4. CASE ~t.dead /\ ~u.dead
  <2>1. M.x = Ite(F, t.x, u.x)  BY <1>0, <1>4
  <2>2. Ite(F, t.x, u.x)[w] = IF w \in F THEN t.x[w] ELSE u.x[w]  BY DEF Ite
  <2> QED  BY <2>1, <2>2, <1>0, <1>4 DEF M
<1> QED  BY <1>2, <1>3, <1>4

\* A loop's exit fits a world of its own symbol for what x has become.
LEMMA LoopFits ==
  ASSUME Settled, NEW o, NEW e, Closes(code, o, e), code[o].op = "while", code[o].inv # NoInvariant,
         NEW w \in Worlds, NEW v \in Values, ~Trail[o].walk.dead,
         w \in Trail[o].walk.path, w \in Trail[o].walk.prem,
         Holds(code[o].inv, v), ~Holds(code[o].c, v),
         ~Assigns(code, o, e - 1) => Trail[o].walk.x[w] = v
  PROVE  \E u \in Worlds :
           /\ Alike(w, u, e) /\ ~Trail[e + 1].walk.dead
           /\ u \in Trail[e + 1].walk.path /\ u \in Trail[e + 1].walk.prem
           /\ Trail[e + 1].walk.x[u] = v
<1>1. o \in 1 .. e /\ o \in 1 .. Len(code) + 1  BY SettledFacts DEF Closes, Around
<1>2. Trail[o].walk \in Walks /\ Trail[o].walk.x \in Terms  BY <1>1, SettledFacts
<1>3. ClosedWhile(code, Trail, o, e)  BY SettledFacts DEF Closed
<1>4. CASE ~Assigns(code, o, e - 1) /\ Trail[e + 1].walk = LoopExit(Trail[o].walk, code[o], Trail[o].walk.x)
  <2>1. /\ Trail[e + 1].walk.x = Trail[o].walk.x /\ Trail[e + 1].walk.prem = Trail[o].walk.prem
        /\ Trail[e + 1].walk.dead = Trail[o].walk.dead
        /\ Trail[e + 1].walk.path = (Trail[o].walk.path \ Where(code[o].c, Trail[o].walk.x))
                                      \cap Where(code[o].inv, Trail[o].walk.x)
    BY <1>2, <1>4, LoopExitType
  <2>2. Trail[o].walk.x[w] = v  BY <1>4
  <2>3. w \notin Where(code[o].c, Trail[o].walk.x) /\ w \in Where(code[o].inv, Trail[o].walk.x)
    BY <2>2 DEF Where
  <2> QED  BY <2>1, <2>2, <2>3, AlikeSame
<1>5. CASE \E m \in 1 .. MaxSymbols :
             /\ Trail[e + 1].walk = LoopExit(Trail[o].walk, code[o], Symbol(m))
             /\ \A i \in 1 .. e : Blind(Trail[i], m)
  <2>1. PICK m \in 1 .. MaxSymbols :
             /\ Trail[e + 1].walk = LoopExit(Trail[o].walk, code[o], Symbol(m))
             /\ \A i \in 1 .. e : Blind(Trail[i], m)
    BY <1>5
  <2>2. Symbol(m) \in Terms
    <3>1. m \in 0 .. MaxSymbols  BY WpAssumption
    <3> QED  BY <3>1, SymbolType
  <2>3. PICK u \in Worlds : Symbol(m)[u] = v /\ Alike(w, u, e)  BY <2>1, AlikePut
  <2>4. /\ Trail[e + 1].walk.x = Symbol(m) /\ Trail[e + 1].walk.prem = Trail[o].walk.prem
        /\ Trail[e + 1].walk.dead = Trail[o].walk.dead
        /\ Trail[e + 1].walk.path = (Trail[o].walk.path \ Where(code[o].c, Symbol(m)))
                                      \cap Where(code[o].inv, Symbol(m))
    BY <1>2, <2>1, <2>2, LoopExitType
  <2>5. u \notin Where(code[o].c, Symbol(m)) /\ u \in Where(code[o].inv, Symbol(m))
    BY <2>3 DEF Where
  <2>6. u \in Trail[o].walk.path /\ u \in Trail[o].walk.prem  BY <1>1, <2>3 DEF Alike
  <2> QED  BY <2>3, <2>4, <2>5, <2>6
<1> QED  BY <1>3, <1>4, <1>5 DEF ClosedWhile

(***************************************************************************)
(* The steps of a run.                                                     *)
(***************************************************************************)
LEMMA RunFacts ==
  ASSUME IInv, pos \in DOMAIN code, outcome = "running", ~gap
  PROVE  /\ Settled /\ pos \in 1 .. Len(code) /\ pos \in Nat /\ x \in Values
         /\ \E w \in Worlds : Fits(w, pos, x)
<1>1. code \in Seq(Instrs)  BY DEF IInv, TypeInv
<1>2. pos \in 1 .. Len(code) /\ pos # 0  BY <1>1
<1> QED  BY <1>2 DEF IInv, RunInv, Settled

LEMMA GoToInv ==
  ASSUME IInv, pos \in DOMAIN code, outcome = "running", x' \in Values,
         NEW q \in 1 .. Len(code) + 1, NEW uncovered \in BOOLEAN, GoTo(q, uncovered),
         ~gap' => \E w \in Worlds : Fits(w, q, x')
  PROVE  RunInv'
<1>1. /\ pos' = q /\ input' = input /\ outcome' = outcome /\ code' = code /\ before' = before
      /\ walk' = walk /\ frames' = frames /\ facts' = facts /\ accepted' = accepted
      /\ ~gap' => ~gap
  BY DEF GoTo, walkVars
<1>2. Trail' = Trail  BY <1>1 DEF Trail
<1>3. \A w : Fits(w, q, x)' <=> Fits(w, q, x')
  <2>1. \A w, k : FitsBlock(w, k, q, x)' <=> FitsBlock(w, k, q, x')
    BY <1>1, <1>2 DEF FitsBlock
  <2> QED  BY <1>1, <1>2, <2>1 DEF Fits
<1>4. pos # 0 /\ (~gap' => Settled)  BY <1>1, RunFacts DEF IInv, TypeInv
<1>5. ~gap' => \E w \in Worlds : Fits(w, pos, x)'  BY <1>1, <1>3
<1> QED  BY <1>1, <1>4, <1>5 DEF RunInv, OnlyUncoveredRunsFail, Settled

\* No fact is asserted on the way of a covered step.
LEMMA GoToFacts ==
  ASSUME Settled, pos \in 1 .. Len(code), code[pos].op # "assume",
         NEW q \in pos .. Len(code) + 1, NEW uncovered \in BOOLEAN, GoTo(q, uncovered), ~gap'
  PROVE  ~gap /\ ~uncovered /\ Trail[q].facts = Trail[pos].facts
<1>1. /\ ~gap /\ ~uncovered /\ Among(code, {"assume"}, pos, q - 1) \ {pos} = {}  BY DEF GoTo
<1>2. \A k \in pos .. q - 1 : code[k].op # "assume"  BY <1>1 DEF Among
<1>3. Len(code) \in Nat /\ Len(Trail) = Len(code) + 1  BY SettledFacts
<1>4. pos \in 1 .. Len(Trail) /\ q \in 1 .. Len(Trail) /\ pos <= q  BY <1>3
<1> QED  BY <1>1, <1>2, <1>4 DEF Settled, Static, FactsKept

LEMMA StopInv ==
  ASSUME IInv, pos \in DOMAIN code, outcome = "running", NEW how, NEW uncovered \in BOOLEAN,
         Stop(how, uncovered), how # "running", how = "failed" => gap'
  PROVE  RunInv'
<1>1. /\ pos' = pos /\ x' = x /\ outcome' = how /\ code' = code /\ frames' = frames
      /\ accepted' = accepted
      /\ ~gap' => ~gap
  BY DEF Stop, walkVars
<1>2. /\ pos # 0 /\ ~gap => accepted /\ frames = <<>> /\ x \in Values /\ pos \in 1 .. Len(code) + 1
      /\ outcome' = "failed" => gap'
  BY <1>1 DEF IInv, RunInv
<1>3. pos' # 0 /\ ~gap' =>
        /\ accepted' /\ frames' = <<>> /\ x' \in Values /\ pos' \in 1 .. Len(code') + 1
        /\ outcome' # "running"
  BY <1>1, <1>2
<1> QED  BY <1>2, <1>3 DEF RunInv, OnlyUncoveredRunsFail

LEMMA RunAt ==
  ASSUME IInv, pos \in DOMAIN code
  PROVE  /\ pos \in 1 .. Len(code) /\ pos \in Nat /\ Len(code) \in Nat /\ pos + 1 \in 1 .. Len(code) + 1
         /\ pos \in pos .. Len(code) + 1 /\ pos + 1 \in pos .. Len(code) + 1
BY DEF IInv, TypeInv

LEMMA RunAssignInv ==
  ASSUME IInv, RunAssign
  PROVE  RunInv'
<1>1. /\ pos \in DOMAIN code /\ outcome = "running" /\ code[pos].op = "assign"
      /\ x' = Eval(code[pos].e, x) /\ x' \in Values /\ GoTo(pos + 1, FALSE)
  BY DEF RunAssign, Running, Here
<1>2. PICK p \in Nat : p = pos /\ p \in 1 .. Len(code) /\ p + 1 \in 1 .. Len(code) + 1
                       /\ p + 1 \in p .. Len(code) + 1 /\ Len(code) \in Nat
  BY <1>1, RunAt
<1>3. ASSUME ~gap' PROVE \E w \in Worlds : Fits(w, p + 1, x')
  <2>1. ~gap  BY <1>1, <1>3 DEF GoTo
  <2>2. Settled /\ x \in Values  BY <1>1, <2>1, RunFacts
  <2>3. PICK w \in Worlds : Fits(w, p, x)  BY <1>1, <1>2, <2>1, RunFacts
  <2>4. Trail[p + 1].facts = Trail[p].facts  BY <1>1, <1>2, <1>3, <2>2, GoToFacts
  <2>5. Trail[p].walk \in Walks /\ Step(code, Trail, p)
    <3>1. p \in 1 .. Len(code) + 1  BY <1>2
    <3> QED  BY <1>2, <2>2, <3>1, SettledFacts
  <2>6. ~Trail[p].walk.dead /\ Trail[p].walk.x[w] = x /\ w[0] = input
        /\ w \in Trail[p].walk.path /\ w \in Trail[p].walk.prem /\ w \in Trail[p].facts
    BY <2>3 DEF Fits
  <2>7. Trail[p + 1].walk = [Trail[p].walk EXCEPT !.x = [u \in Worlds |-> Eval(code[p].e, Trail[p].walk.x[u])]]
    BY <1>1, <1>2, <2>5, <2>6 DEF Step, Walked
  <2>8. /\ Trail[p + 1].walk.dead = Trail[p].walk.dead /\ Trail[p + 1].walk.path = Trail[p].walk.path
        /\ Trail[p + 1].walk.prem = Trail[p].walk.prem
        /\ Trail[p + 1].walk.x[w] = Eval(code[p].e, Trail[p].walk.x[w])
    BY <2>5, <2>7 DEF Walks
  <2>9. ASSUME NEW k \in 1 .. p, Around(code, k, p + 1) PROVE FitsBlock(w, k, p + 1, x')
    <3>1. Around(code, k, p)
      <4>1. k # p  BY <1>1, <1>2, <2>9 DEF Around, Openers
      <4> QED  BY <4>1, <1>2, <2>9, AroundStep
    <3>2. FitsBlock(w, k, p, x)  BY <3>1, <2>3 DEF Fits, Around
    <3> QED  BY <3>1, <3>2, <1>1, <1>2, <2>2, BlockNext
  <2>10. (p + 1) - 1 = p  BY <1>2
  <2> QED  BY <1>1, <1>2, <2>4, <2>6, <2>8, <2>9, <2>10 DEF Fits
<1> QED  BY <1>1, <1>2, <1>3, GoToInv

\* A step on to the next instruction that leaves the walk and x alone.
LEMMA FitsNext ==
  ASSUME Settled, NEW p \in 1 .. Len(code), code[p].op \notin {"else", "end"}, code[p].op \notin Openers,
         NEW w, NEW v, Fits(w, p, v), Trail[p + 1].walk = Trail[p].walk, w \in Trail[p + 1].facts
  PROVE  Fits(w, p + 1, v)
<1>1. Len(code) \in Nat /\ (p + 1) - 1 = p  BY SettledFacts
<1>2. ASSUME NEW k \in 1 .. p, Around(code, k, p + 1) PROVE FitsBlock(w, k, p + 1, v)
  <2>1. Around(code, k, p)
    <3>1. k # p  BY <1>2 DEF Around
    <3> QED  BY <3>1, <1>2, AroundStep
  <2>2. FitsBlock(w, k, p, v)  BY <2>1 DEF Fits, Around
  <2> QED  BY <2>1, <2>2, BlockNext
<1> QED  BY <1>1, <1>2 DEF Fits

LEMMA RunAssertInv ==
  ASSUME IInv, RunAssert
  PROVE  RunInv'
<1>1. /\ pos \in DOMAIN code /\ outcome = "running" /\ code[pos].op = "assert"
      /\ \/ Holds(code[pos].c, x) /\ GoTo(pos + 1, FALSE) /\ x' = x
         \/ ~Holds(code[pos].c, x) /\ Stop("failed", FALSE)
  BY DEF RunAssert, Running, Here
<1>2. PICK p \in Nat : p = pos /\ p \in 1 .. Len(code) /\ p + 1 \in 1 .. Len(code) + 1
                       /\ p + 1 \in p .. Len(code) + 1 /\ Len(code) \in Nat /\ p \in 1 .. Len(code) + 1
  BY <1>1, RunAt
<1>3. CASE Holds(code[pos].c, x) /\ GoTo(pos + 1, FALSE) /\ x' = x
  <2>1. ASSUME ~gap' PROVE x \in Values /\ \E w \in Worlds : Fits(w, p + 1, x')
    <3>1. ~gap  BY <1>3, <2>1 DEF GoTo
    <3>2. Settled /\ x \in Values  BY <1>1, <3>1, RunFacts
    <3>3. PICK w \in Worlds : Fits(w, p, x)  BY <1>1, <1>2, <3>1, RunFacts
    <3>4. Trail[p + 1].facts = Trail[p].facts  BY <1>1, <1>2, <1>3, <2>1, <3>2, GoToFacts
    <3>5. Trail[p + 1].walk = Trail[p].walk  BY <1>1, <1>2, <3>2, SettledFacts DEF Step
    <3>6. w \in Trail[p + 1].facts  BY <3>3, <3>4 DEF Fits
    <3>7. code[p].op \notin {"else", "end"} /\ code[p].op \notin Openers  BY <1>1, <1>2 DEF Openers
    <3>8. Fits(w, p + 1, x)  BY <1>2, <3>2, <3>3, <3>5, <3>6, <3>7, FitsNext
    <3> QED  BY <3>2, <3>8, <1>3
  <2>2. CASE gap'  BY <2>2, <1>1, <1>3 DEF RunInv, OnlyUncoveredRunsFail, GoTo
  <2>3. CASE ~gap'  BY <1>1, <1>2, <1>3, <2>1, <2>3, GoToInv
  <2> QED  BY <2>2, <2>3
<1>4. CASE ~Holds(code[pos].c, x) /\ Stop("failed", FALSE)
  <2>1. gap
    <3> SUFFICES ASSUME ~gap PROVE FALSE  OBVIOUS
    <3>1. Settled /\ \E w \in Worlds : Fits(w, pos, x)  BY <1>1, RunFacts
    <3>2. PICK w \in Worlds : Fits(w, p, x)  BY <1>2, <3>1
    <3>3. ~Trail[p].walk.dead /\ Trail[p].walk.x[w] = x
          /\ w \in Trail[p].walk.path /\ w \in Trail[p].walk.prem /\ w \in Trail[p].facts
      BY <3>2 DEF Fits
    <3>4. Asked(code, Trail, p)  BY <1>2, <3>1, SettledFacts
    <3>5. w \in CondAt(code, Trail, p)  BY <3>3, <3>4, <1>1, <1>2 DEF Asked
    <3> QED  BY <3>3, <3>5, <1>2, <1>4 DEF CondAt, Where
  <2>2. gap'  BY <2>1, <1>4 DEF Stop
  <2> QED  BY <1>1, <1>4, <2>2, StopInv
<1> QED  BY <1>1, <1>3, <1>4

LEMMA RunAssumeInv ==
  ASSUME IInv, RunAssume
  PROVE  RunInv'
<1>1. /\ pos \in DOMAIN code /\ outcome = "running" /\ code[pos].op = "assume"
      /\ \/ Holds(code[pos].c, x) /\ GoTo(pos + 1, FALSE) /\ x' = x
         \/ ~Holds(code[pos].c, x) /\ Stop("ended", FALSE)
  BY DEF RunAssume, Running, Here
<1>2. PICK p \in Nat : p = pos /\ p \in 1 .. Len(code) /\ p + 1 \in 1 .. Len(code) + 1
                       /\ Len(code) \in Nat
  BY <1>1, RunAt
<1>3. CASE Holds(code[pos].c, x) /\ GoTo(pos + 1, FALSE) /\ x' = x
  <2>1. ASSUME ~gap' PROVE x \in Values /\ \E w \in Worlds : Fits(w, p + 1, x')
    <3>1. ~gap  BY <1>3, <2>1 DEF GoTo
    <3>2. Settled /\ x \in Values  BY <1>1, <3>1, RunFacts
    <3>3. PICK w \in Worlds : Fits(w, p, x)  BY <1>1, <1>2, <3>1, RunFacts
    <3>4. Step(code, Trail, p)  BY <1>2, <3>2, SettledFacts
    <3>5. Trail[p + 1].walk = Trail[p].walk  BY <1>1, <1>2, <3>4 DEF Step
    <3>6. ~Trail[p].walk.dead /\ Trail[p].walk.x[w] = x /\ w \in Trail[p].facts  BY <3>3 DEF Fits
    <3>7. Trail[p + 1].facts = Trail[p].facts \cap CondAt(code, Trail, p)
      BY <1>1, <1>2, <3>4, <3>6 DEF Step
    <3>8. w \in CondAt(code, Trail, p)  BY <1>2, <1>3, <3>6 DEF CondAt, Where
    <3>9. code[p].op \notin {"else", "end"} /\ code[p].op \notin Openers  BY <1>1, <1>2 DEF Openers
    <3>10. Fits(w, p + 1, x)  BY <1>2, <3>2, <3>3, <3>5, <3>6, <3>7, <3>8, <3>9, FitsNext
    <3> QED  BY <3>2, <3>10, <1>3
  <2>2. CASE gap'  BY <2>2, <1>1, <1>3 DEF RunInv, OnlyUncoveredRunsFail, GoTo
  <2>3. CASE ~gap'  BY <1>1, <1>2, <1>3, <2>1, <2>3, GoToInv
  <2> QED  BY <2>2, <2>3
<1>4. CASE ~Holds(code[pos].c, x) /\ Stop("ended", FALSE)  BY <1>1, <1>4, StopInv
<1> QED  BY <1>1, <1>3, <1>4

(***************************************************************************)
(* A run that moves and leaves x alone.                                    *)
(***************************************************************************)
LEMMA MoveInv ==
  ASSUME IInv, pos \in DOMAIN code, outcome = "running", x' = x,
         NEW q, NEW uncovered \in BOOLEAN, GoTo(q, uncovered),
         Settled /\ x \in Values /\ ~gap' =>
           /\ q \in 1 .. Len(code) + 1
           /\ \A w \in Worlds : Fits(w, pos, x) => \E u \in Worlds : Fits(u, q, x)
  PROVE  RunInv'
<1>1. CASE gap'
  <2>1. outcome' = "running"  BY DEF GoTo
  <2> QED  BY <1>1, <2>1 DEF RunInv, OnlyUncoveredRunsFail
<1>2. CASE ~gap'
  <2>1. ~gap  BY <1>2 DEF GoTo
  <2>2. Settled /\ x \in Values /\ \E w \in Worlds : Fits(w, pos, x)  BY <2>1, RunFacts DEF IInv, RunInv
  <2>3. PICK w \in Worlds : Fits(w, pos, x)  BY <2>2
  <2>4. q \in 1 .. Len(code) + 1 /\ \E u \in Worlds : Fits(u, q, x)  BY <1>2, <2>2, <2>3
  <2>5. x' \in Values /\ \E u \in Worlds : Fits(u, q, x')  BY <2>2, <2>4
  <2> QED  BY <2>4, <2>5, GoToInv
<1> QED  BY <1>1, <1>2

\* Into the block that o opens.
LEMMA EnterFits ==
  ASSUME Settled, NEW o \in 1 .. Len(code), code[o].op \in {"if", "while"},
         NEW w \in Worlds, NEW v, Fits(w, o, v), Holds(code[o].c, v),
         code[o].op = "while" => code[o].inv # NoInvariant /\ Holds(code[o].inv, v),
         Trail[o + 1].facts = Trail[o].facts
  PROVE  Fits(w, o + 1, v)
<1>1. /\ Len(code) \in Nat /\ Step(code, Trail, o) /\ Trail[o].walk \in Walks
      /\ o \in Nat /\ o \in 1 .. Len(code) + 1 /\ o + 1 \in 1 .. Len(code) + 1 /\ (o + 1) - 1 = o
  <2>1. Len(code) \in Nat  BY SettledFacts
  <2>2. o \in Nat /\ o \in 1 .. Len(code) + 1 /\ o + 1 \in 1 .. Len(code) + 1 /\ (o + 1) - 1 = o  BY <2>1
  <2> QED  BY <2>1, <2>2, SettledFacts
<1>2. /\ w[0] = input /\ ~Trail[o].walk.dead /\ Trail[o].walk.x[w] = v
      /\ w \in Trail[o].walk.path /\ w \in Trail[o].walk.prem /\ w \in Trail[o].facts
  BY DEF Fits
<1>3. w \in CondAt(code, Trail, o)  BY <1>2 DEF CondAt, Where
<1>4. CASE code[o].op = "if"
  <2>1. Trail[o + 1].walk = [Trail[o].walk EXCEPT !.path = @ \cap CondAt(code, Trail, o)]
    BY <1>1, <1>2, <1>4 DEF Step, Walked
  <2>2. /\ ~Trail[o + 1].walk.dead /\ Trail[o + 1].walk.x[w] = v
        /\ w \in Trail[o + 1].walk.path /\ w \in Trail[o + 1].walk.prem
    BY <2>1, <1>1, <1>2, <1>3 DEF Walks
  <2>3. o + 1 <= ElseArm(code, o)
    <3>1. PICK e \in 1 .. Len(code) : Closes(code, o, e)  BY <1>4, SettledFacts DEF Closed, Openers
    <3>2. ElseArm(code, o) \in o + 1 .. e  BY <3>1, <1>4, ArmFacts
    <3> QED  BY <1>1, <3>1, <3>2
  <2>4. FitsBlock(w, o, o + 1, v)  BY <1>2, <1>3, <1>4, <2>3 DEF FitsBlock
  <2>5. ASSUME NEW k \in 1 .. o, Around(code, k, o + 1) PROVE FitsBlock(w, k, o + 1, v)
    <3>1. CASE k = o  BY <2>4, <3>1
    <3>2. CASE k # o
      <4>1. Around(code, k, o)  BY <1>1, <2>5, <3>2, AroundStep
      <4>2. FitsBlock(w, k, o, v)  BY <4>1 DEF Fits, Around
      <4> QED  BY <1>4, <4>1, <4>2, BlockNext
    <3> QED  BY <3>1, <3>2
  <2> QED  BY <1>1, <1>2, <2>2, <2>5 DEF Fits
<1>5. CASE code[o].op = "while"
  <2>0. code[o].inv # NoInvariant /\ w \in Where(code[o].inv, Trail[o].walk.x)  BY <1>2, <1>5 DEF Where
  <2>1. Trail[o + 1].walk = [Trail[o].walk EXCEPT
          !.path = @ \cap CondAt(code, Trail, o),
          !.prem = @ \cap Trail[o].walk.path \cap CondAt(code, Trail, o)
                     \cap Where(code[o].inv, Trail[o].walk.x)]
    BY <1>1, <1>2, <1>5, <2>0 DEF Step, Walked
  <2>2. /\ ~Trail[o + 1].walk.dead /\ Trail[o + 1].walk.x[w] = v
        /\ w \in Trail[o + 1].walk.path /\ w \in Trail[o + 1].walk.prem
    BY <2>0, <2>1, <1>1, <1>2, <1>3 DEF Walks
  <2>4. FitsBlock(w, o, o + 1, v)  BY <1>2, <1>5, <2>0 DEF FitsBlock
  <2>5. ASSUME NEW k \in 1 .. o, Around(code, k, o + 1) PROVE FitsBlock(w, k, o + 1, v)
    <3>1. CASE k = o  BY <2>4, <3>1
    <3>2. CASE k # o
      <4>1. Around(code, k, o)  BY <1>1, <2>5, <3>2, AroundStep
      <4>2. FitsBlock(w, k, o, v)  BY <4>1 DEF Fits, Around
      <4> QED  BY <1>5, <4>1, <4>2, BlockNext
    <3> QED  BY <3>1, <3>2
  <2> QED  BY <1>1, <1>2, <2>2, <2>5 DEF Fits
<1> QED  BY <1>4, <1>5

\* Behind an if, from the end of either arm or past both.
LEMMA BehindIfFits ==
  ASSUME Settled, NEW o, NEW e, Closes(code, o, e), code[o].op = "if",
         NEW p \in o .. e, NEW w \in Worlds, NEW v, Fits(w, p, v),
         \/ p = e
         \/ p \in ElsesOf(code, o, e) /\ Around(code, o, p)
         \/ p = o /\ ElsesOf(code, o, e) = {} /\ w \notin CondAt(code, Trail, o),
         Trail[e + 1].facts = Trail[p].facts
  PROVE  Fits(w, e + 1, v)
<1>1. o \in 1 .. e - 1 /\ e \in 1 .. Len(code) /\ Len(code) \in Nat /\ o \in Int /\ p \in Int
  BY SettledFacts DEF Closes, Around
<1>2. /\ ~Trail[p].walk.dead /\ Trail[p].walk.x[w] = v /\ w \in Trail[p].facts
      /\ w \in Trail[p].walk.path /\ w \in Trail[p].walk.prem
  BY DEF Fits
<1>3. p # o => Around(code, o, p) /\ FitsBlock(w, o, p, v)
  <2> HAVE p # o
  <2>1. Around(code, o, p)  BY <1>1 DEF Closes
  <2>2. o \in 1 .. p - 1  BY <2>1 DEF Around
  <2> QED  BY <2>1, <2>2 DEF Fits
<1>4. /\ ~Trail[o].walk.dead /\ w \in Trail[o].walk.path /\ w \in Trail[o].walk.prem
      /\ p # o => (w \in CondAt(code, Trail, o) <=> p <= ElseArm(code, o))
  BY <1>2, <1>3 DEF FitsBlock
<1>5. /\ Trail[o].walk \in Walks /\ Trail[e].walk \in Walks
      /\ \A a \in o + 1 .. e - 1 : Trail[a].walk \in Walks
  <2>1. /\ o \in 1 .. Len(code) + 1 /\ e \in 1 .. Len(code) + 1
        /\ \A a \in o + 1 .. e - 1 : a \in 1 .. Len(code) + 1
    BY <1>1
  <2> QED  BY <2>1, SettledFacts
<1>6. \E t \in Walks, u \in Walks :
        /\ Trail[e + 1].walk = Merge(Trail[o].walk, CondAt(code, Trail, o), t, u)
        /\ \/ w \in CondAt(code, Trail, o) /\ ~t.dead /\ t.x[w] = v
           \/ w \notin CondAt(code, Trail, o) /\ ~u.dead /\ u.x[w] = v
  <2>1. ClosedIf(code, Trail, o, e)  BY SettledFacts DEF Closed
  <2>2. CASE /\ ElsesOf(code, o, e) = {}
             /\ Trail[e + 1].walk = Merge(Trail[o].walk, CondAt(code, Trail, o), Trail[e].walk,
                                          OtherArm(code, Trail, o))
    <3>1. /\ OtherArm(code, Trail, o) \in Walks /\ OtherArm(code, Trail, o).dead = Trail[o].walk.dead
          /\ OtherArm(code, Trail, o).x = Trail[o].walk.x
      BY <1>5 DEF OtherArm, Walks
    <3>2. CASE p = o  BY <3>1, <3>2, <1>1, <1>2, <1>4, <1>5, <2>2
    <3>3. CASE p = e
      <4>1. ElseArm(code, o) = e  BY <1>1, <2>2, ElseArmIs
      <4>2. w \in CondAt(code, Trail, o)  BY <4>1, <1>1, <1>4, <3>3
      <4> QED  BY <4>2, <3>1, <3>3, <1>2, <1>5, <2>2
    <3> QED  BY <3>2, <3>3, <2>2
  <2>3. CASE \E a \in o + 1 .. e - 1 :
               /\ ElsesOf(code, o, e) = {a}
               /\ Trail[e + 1].walk = Merge(Trail[o].walk, CondAt(code, Trail, o), Trail[a].walk, Trail[e].walk)
    <3>1. PICK a \in o + 1 .. e - 1 :
               /\ ElsesOf(code, o, e) = {a}
               /\ Trail[e + 1].walk = Merge(Trail[o].walk, CondAt(code, Trail, o), Trail[a].walk, Trail[e].walk)
      BY <2>3
    <3>2. ElseArm(code, o) = a /\ Trail[a].walk \in Walks  BY <1>1, <1>5, <3>1, ElseArmIs
    <3>3. CASE p = e
      <4>1. w \notin CondAt(code, Trail, o)  BY <1>1, <1>4, <3>1, <3>2, <3>3
      <4> QED  BY <4>1, <3>1, <3>2, <3>3, <1>2, <1>5
    <3>4. CASE p = a
      <4>1. w \in CondAt(code, Trail, o)  BY <1>1, <1>4, <3>1, <3>2, <3>4
      <4> QED  BY <4>1, <3>1, <3>2, <3>4, <1>2, <1>5
    <3> QED  BY <3>1, <3>3, <3>4
  <2> QED  BY <2>1, <2>2, <2>3 DEF ClosedIf
<1>7. PICK t \in Walks, u \in Walks :
        /\ Trail[e + 1].walk = Merge(Trail[o].walk, CondAt(code, Trail, o), t, u)
        /\ \/ w \in CondAt(code, Trail, o) /\ ~t.dead /\ t.x[w] = v
           \/ w \notin CondAt(code, Trail, o) /\ ~u.dead /\ u.x[w] = v
  BY <1>6
<1>8. /\ ~Trail[e + 1].walk.dead /\ Trail[e + 1].walk.path = Trail[o].walk.path
      /\ Trail[e + 1].walk.prem = Trail[o].walk.prem /\ Trail[e + 1].walk.x[w] = v
  <2> DEFINE C == CondAt(code, Trail, o)
             outer == Trail[o].walk
  <2>1. outer \in Walks /\ ~outer.dead /\ t \in Walks /\ u \in Walks  BY <1>4, <1>5, <1>7
  <2>2. Trail[e + 1].walk = Merge(outer, C, t, u)  BY <1>7
  <2>3. /\ w \in C => ~t.dead /\ t.x[w] = v
        /\ w \notin C => ~u.dead /\ u.x[w] = v
    BY <1>7
  <2> HIDE DEF C, outer
  <2>4. GoesOn(w, C, t, u)  BY <2>3 DEF GoesOn
  <2>5. /\ ~Merge(outer, C, t, u).dead
        /\ Merge(outer, C, t, u).path = outer.path /\ Merge(outer, C, t, u).prem = outer.prem
        /\ Merge(outer, C, t, u).x[w] = IF w \in C THEN t.x[w] ELSE u.x[w]
    BY <2>1, <2>4, MergeFits
  <2> QED  BY <2>2, <2>3, <2>5 DEF outer
<1>9. p = o \/ Around(code, o, p)  BY <1>3
<1>10. /\ w \in Trail[e + 1].walk.path /\ w \in Trail[e + 1].walk.prem /\ w \in Trail[e + 1].facts
       /\ Alike(w, w, e)
  BY <1>2, <1>4, <1>8, AlikeSame
<1> QED  BY <1>8, <1>9, <1>10, FitsBehind

\* Behind a loop, left by the exit that the encoding describes.
LEMMA BehindWhileFits ==
  ASSUME Settled, NEW o, NEW e, Closes(code, o, e), code[o].op = "while", code[o].inv # NoInvariant,
         NEW p \in {o, e}, NEW w \in Worlds, NEW v \in Values, Fits(w, p, v),
         ~Holds(code[o].c, v), Holds(code[o].inv, v), Trail[e + 1].facts = Trail[p].facts
  PROVE  \E u \in Worlds : Fits(u, e + 1, v)
<1>1. o \in 1 .. e - 1 /\ e \in 1 .. Len(code) /\ Len(code) \in Nat /\ o \in Int /\ p \in o .. e
      /\ p \in 1 .. e
  BY SettledFacts DEF Closes, Around
<1>2. /\ ~Trail[p].walk.dead /\ Trail[p].walk.x[w] = v /\ w \in Trail[p].facts
      /\ w \in Trail[p].walk.path /\ w \in Trail[p].walk.prem
  BY DEF Fits
<1>3. /\ p = o \/ Around(code, o, p)
      /\ ~Trail[o].walk.dead /\ w \in Trail[o].walk.path /\ w \in Trail[o].walk.prem
      /\ ~Assigns(code, o, e - 1) => Trail[o].walk.x[w] = v
  <2>1. CASE p = o  BY <1>2, <2>1
  <2>2. CASE p = e
    <3>1. Around(code, o, p) /\ o \in 1 .. p - 1  BY <2>2 DEF Closes, Around
    <3>2. FitsBlock(w, o, p, v)  BY <3>1 DEF Fits
    <3>3. EndOf(code, o) = e  BY <1>1, EndIs
    <3> QED  BY <3>1, <3>2, <3>3 DEF FitsBlock
  <2> QED  BY <2>1, <2>2
<1>4. PICK u \in Worlds :
        /\ Alike(w, u, e) /\ ~Trail[e + 1].walk.dead
        /\ u \in Trail[e + 1].walk.path /\ u \in Trail[e + 1].walk.prem
        /\ Trail[e + 1].walk.x[u] = v
  BY <1>3, LoopFits
<1>5. u \in Trail[e + 1].facts
  <2>1. u \in Trail[p].facts  BY <1>1, <1>2, <1>4 DEF Alike
  <2> QED  BY <2>1
<1>6. Fits(u, e + 1, v)
  <2>1. /\ Alike(w, u, e) /\ ~Trail[e + 1].walk.dead
        /\ u \in Trail[e + 1].walk.path /\ u \in Trail[e + 1].walk.prem
        /\ Trail[e + 1].walk.x[u] = v
    BY <1>4
  <2>2. p \in o .. e /\ (p = o \/ Around(code, o, p))  BY <1>1, <1>3
  <2> QED  BY <1>5, <2>1, <2>2, FitsBehind
<1> QED  BY <1>6

\* Behind a call, by a return that no merge dropped.
LEMMA BehindCallFits ==
  ASSUME Settled, NEW o, NEW e, Closes(code, o, e), code[o].op = "call",
         NEW p \in o + 1 .. e - 1, Around(code, o, p), code[p].op = "return", ~Lapsed(code, dropped, p),
         NEW w \in Worlds, NEW v \in Values, Fits(w, p, v), Trail[e + 1].facts = Trail[p].facts
  PROVE  \E u \in Worlds : Fits(u, e + 1, v)
<1>1. /\ o \in 1 .. e - 1 /\ e \in 1 .. Len(code) /\ Len(code) \in Nat /\ o \in Int /\ p \in o .. e
      /\ p \in 1 .. e /\ o \in 1 .. p - 1 /\ o \in 1 .. Len(code) + 1 /\ o \in 1 .. e
  BY SettledFacts DEF Closes, Around
<1>2. /\ ~Trail[p].walk.dead /\ Trail[p].walk.x[w] = v /\ w \in Trail[p].facts
      /\ FitsBlock(w, o, p, v)
  BY <1>1 DEF Fits
<1>3. /\ ~Trail[o].walk.dead /\ w \in Trail[o].walk.path /\ w \in Trail[o].walk.prem
      /\ Trail[o].walk \in Walks
  BY <1>1, <1>2, SettledFacts DEF FitsBlock
<1>4. Pending(code, Trail, dropped, p)  BY <1>2 DEF Pending
<1>5. ClosedCall(code, Trail, dropped, o, e)  BY SettledFacts DEF Closed
<1>6. /\ Trail[e + 1].walk = [Trail[o].walk EXCEPT !.x = Trail[e].walk.result]
      /\ \E m \in 1 .. MaxSymbols :
           /\ \A i \in 1 .. e : Blind(Trail[i], m)
           /\ \A i \in o + 1 .. e - 1 :
                Pending(code, Trail, dropped, i) =>
                  \/ Trail[e].walk.result = Symbol(m)
                  \/ Trail[e].walk.result = Trail[i].walk.x
  BY <1>3, <1>5 DEF ClosedCall
<1>7. PICK m \in 1 .. MaxSymbols :
        /\ \A i \in 1 .. e : Blind(Trail[i], m)
        /\ \/ Trail[e].walk.result = Symbol(m)
           \/ Trail[e].walk.result = Trail[p].walk.x
  BY <1>4, <1>6
<1>8. /\ ~Trail[e + 1].walk.dead /\ Trail[e + 1].walk.path = Trail[o].walk.path
      /\ Trail[e + 1].walk.prem = Trail[o].walk.prem /\ Trail[e + 1].walk.x = Trail[e].walk.result
  BY <1>3, <1>6 DEF Walks
<1>9. PICK u \in Worlds : Alike(w, u, e) /\ Trail[e].walk.result[u] = v
  <2>1. CASE Trail[e].walk.result = Symbol(m)
    <3>1. Put(w, m, v) \in Worlds /\ Symbol(m)[Put(w, m, v)] = v /\ Alike(w, Put(w, m, v), e)
      BY <1>7, AlikePut
    <3> QED  BY <2>1, <3>1
  <2>2. CASE Trail[e].walk.result = Trail[p].walk.x  BY <1>2, <2>2, AlikeSame
  <2> QED  BY <1>7, <2>1, <2>2
<1>10. u \in Trail[o].walk.path /\ u \in Trail[o].walk.prem /\ u \in Trail[p].facts
  BY <1>1, <1>2, <1>3, <1>9 DEF Alike
<1>11. /\ u \in Trail[e + 1].walk.path /\ u \in Trail[e + 1].walk.prem /\ u \in Trail[e + 1].facts
       /\ Trail[e + 1].walk.x[u] = v
  BY <1>8, <1>9, <1>10
<1>12. Fits(u, e + 1, v)  BY <1>1, <1>8, <1>9, <1>11, FitsBehind
<1> QED  BY <1>12

(***************************************************************************)
(* The steps of a run that move between blocks.                            *)
(***************************************************************************)
LEMMA RunIfInv ==
  ASSUME IInv, RunIf
  PROVE  RunInv'
<1>1. /\ pos \in DOMAIN code /\ outcome = "running" /\ code[pos].op = "if" /\ x' = x
      /\ \/ Holds(code[pos].c, x) /\ GoTo(pos + 1, FALSE)
         \/ ~Holds(code[pos].c, x) /\ GoTo(ElseArm(code, pos) + 1, FALSE)
  BY DEF RunIf, Running, Here
<1>2. PICK p \in Nat : p = pos /\ p \in 1 .. Len(code) /\ p + 1 \in 1 .. Len(code) + 1
                       /\ p + 1 \in p .. Len(code) + 1 /\ Len(code) \in Nat
  BY <1>1, RunAt
<1>3. CASE Holds(code[pos].c, x) /\ GoTo(pos + 1, FALSE)
  <2>1. ASSUME Settled, ~gap', NEW w \in Worlds, Fits(w, p, x) PROVE Fits(w, p + 1, x)
    <3>1. Trail[p + 1].facts = Trail[p].facts  BY <1>1, <1>2, <1>3, <2>1, GoToFacts
    <3>2. code[p].op \in {"if", "while"} /\ code[p].op # "while" /\ Holds(code[p].c, x)  BY <1>1, <1>2, <1>3
    <3> QED  BY <1>2, <2>1, <3>1, <3>2, EnterFits
  <2>2. GoTo(p + 1, FALSE)  BY <1>2, <1>3
  <2> QED  BY <1>1, <1>2, <2>1, <2>2, MoveInv
<1>4. CASE ~Holds(code[pos].c, x) /\ GoTo(ElseArm(code, pos) + 1, FALSE)
  <2>0. PICK a : a = ElseArm(code, p)  OBVIOUS
  <2>1. GoTo(a + 1, FALSE)  BY <1>2, <1>4, <2>0
  <2>2. ASSUME Settled, ~gap'
        PROVE  a + 1 \in 1 .. Len(code) + 1
               /\ \A w \in Worlds : Fits(w, p, x) => Fits(w, a + 1, x)
    <3>1. PICK e \in 1 .. Len(code) : Closes(code, p, e) /\ ClosedIf(code, Trail, p, e)
      BY <1>1, <1>2, <2>2, SettledFacts DEF Closed, Openers
    <3>2. /\ a \in p + 1 .. e
          /\ \/ ElsesOf(code, p, e) = {} /\ a = e
             \/ ElsesOf(code, p, e) = {a} /\ a < e
      BY <1>1, <1>2, <2>0, <2>2, <3>1, ArmFacts
    <3>3. a + 1 \in 1 .. Len(code) + 1 /\ a + 1 \in p .. Len(code) + 1 /\ p \in p .. e  BY <1>2, <3>1, <3>2
    <3>4. Trail[a + 1].facts = Trail[p].facts  BY <1>1, <1>2, <2>1, <2>2, <3>3, GoToFacts
    <3>5. ASSUME NEW w \in Worlds, Fits(w, p, x) PROVE Fits(w, a + 1, x)
      <4>1. w \notin CondAt(code, Trail, p) /\ w \in Trail[a + 1].facts
        BY <1>2, <1>4, <3>4, <3>5 DEF CondAt, Where, Fits
      <4>2. code[p].op = "if"  BY <1>1, <1>2
      <4>3. CASE ElsesOf(code, p, e) = {} /\ a = e
        <5>1. Trail[e + 1].facts = Trail[p].facts  BY <3>4, <4>3
        <5>2. Fits(w, e + 1, x)  BY <2>2, <3>1, <3>3, <3>5, <4>1, <4>2, <4>3, <5>1, BehindIfFits
        <5> QED  BY <4>3, <5>2
      <4>4. CASE ElsesOf(code, p, e) = {a} /\ a < e
        <5>1. a \in p + 1 .. e - 1  BY <1>2, <3>1, <3>2, <4>4
        <5>2. Trail[a + 1].walk = OtherArm(code, Trail, p)
          <6>1. PICK b : ElsesOf(code, p, e) = {b} /\ Trail[b + 1].walk = OtherArm(code, Trail, p)
            BY <3>1, <4>4 DEF ClosedIf
          <6>2. a = b  BY <4>4, <6>1
          <6> QED  BY <6>1, <6>2
        <5>3. ElseArm(code, p) = a /\ ElsesOf(code, p, e) = {a}  BY <2>0, <4>4
        <5> QED  BY <2>2, <3>1, <3>5, <4>1, <4>2, <5>1, <5>2, <5>3, FitsElse
      <4> QED  BY <3>2, <4>3, <4>4
    <3> QED  BY <3>3, <3>5
  <2> QED  BY <1>1, <1>2, <2>1, <2>2, MoveInv
<1> QED  BY <1>1, <1>3, <1>4

LEMMA RunElseInv ==
  ASSUME IInv, RunElse
  PROVE  RunInv'
<1>1. /\ pos \in DOMAIN code /\ outcome = "running" /\ code[pos].op = "else" /\ x' = x
      /\ GoTo(EndOf(code, Innermost(code, {"if"}, pos)) + 1, FALSE)
  BY DEF RunElse, Running
<1>2. PICK p \in Nat : p = pos /\ p \in 1 .. Len(code) /\ Len(code) \in Nat
  BY <1>1, RunAt
<1>3. PICK e : e = EndOf(code, Innermost(code, {"if"}, p))  OBVIOUS
<1>4. GoTo(e + 1, FALSE)  BY <1>1, <1>2, <1>3
<1>5. ASSUME Settled, ~gap'
      PROVE  e + 1 \in 1 .. Len(code) + 1
             /\ \A w \in Worlds : Fits(w, p, x) => Fits(w, e + 1, x)
  <2>1. PICK o \in 1 .. p - 1 : code[o].op = "if" /\ Around(code, o, p) /\ Level(code, o, p) = 1
    BY <1>1, <1>2, <1>5 DEF Settled, Static, BlockInv
  <2>2. Finished(code) /\ code[p].op \notin Openers /\ code[p].op # "end"
    BY <1>1, <1>2, <1>5, SettledFacts DEF Openers
  <2>3. Innermost(code, {"if"}, p) = o  BY <1>2, <2>1, <2>2, InnermostIs
  <2>4. PICK g \in Nat : Closes(code, o, g) /\ EndOf(code, o) = g /\ g \in 1 .. Len(code) /\ p <= g
    <3>1. p \in 1 .. Len(code) + 1  BY <1>2
    <3> QED  BY <1>5, <2>1, <3>1, BlockAround
  <2>5. e = g  BY <1>3, <2>3, <2>4
  <2>6. code[e].op = "end"  BY <2>4, <2>5, ClosesEnd
  <2>7. p # e  BY <1>1, <1>2, <2>6
  <2>8. p \in o .. e /\ e + 1 \in p .. Len(code) + 1 /\ e + 1 \in 1 .. Len(code) + 1
    BY <1>2, <2>1, <2>4, <2>5
  <2>9. p \in ElsesOf(code, o, e)  BY <1>1, <1>2, <2>1, <2>8 DEF ElsesOf, Among
  <2>10. Trail[e + 1].facts = Trail[p].facts  BY <1>1, <1>2, <1>4, <1>5, <2>8, GoToFacts
  <2>11. Closes(code, o, e)  BY <2>4, <2>5
  <2>12. ASSUME NEW w \in Worlds, Fits(w, p, x) PROVE Fits(w, e + 1, x)
    BY <1>5, <2>1, <2>8, <2>9, <2>10, <2>11, <2>12, BehindIfFits
  <2> QED  BY <2>8, <2>12
<1> QED  BY <1>1, <1>2, <1>4, <1>5, MoveInv

LEMMA RunEndInv ==
  ASSUME IInv, RunEnd
  PROVE  RunInv'
<1>1. /\ pos \in DOMAIN code /\ outcome = "running" /\ code[pos].op = "end" /\ x' = x
      /\ code[OpenerOf(code, pos)].op = "if" /\ GoTo(pos + 1, FALSE)
  BY DEF RunEnd, Running
<1>2. PICK p \in Nat : p = pos /\ p \in 1 .. Len(code) /\ p + 1 \in 1 .. Len(code) + 1
                       /\ p + 1 \in p .. Len(code) + 1 /\ Len(code) \in Nat
  BY <1>1, RunAt
<1>3. ASSUME Settled, ~gap', NEW w \in Worlds, Fits(w, p, x) PROVE Fits(w, p + 1, x)
  <2>1. PICK o \in 1 .. p - 1 : Closes(code, o, p)
    BY <1>1, <1>2, <1>3 DEF Settled, Static, BlockInv
  <2>2. OpenerOf(code, p) = o  BY <1>2, <1>3, <2>1, SettledFacts, OpenerIs
  <2>3. code[o].op = "if" /\ p \in o .. p  BY <1>1, <1>2, <2>1, <2>2
  <2>4. Trail[p + 1].facts = Trail[p].facts  BY <1>1, <1>2, <1>3, GoToFacts
  <2> QED  BY <1>3, <2>1, <2>3, <2>4, BehindIfFits
<1>4. GoTo(p + 1, FALSE)  BY <1>1, <1>2
<1> QED  BY <1>1, <1>2, <1>3, <1>4, MoveInv

LEMMA RunWhileInv ==
  ASSUME IInv, RunWhile
  PROVE  RunInv'
<1>1. /\ pos \in DOMAIN code /\ outcome = "running" /\ code[pos].op = "while" /\ x' = x
      /\ \/ Holds(code[pos].c, x) /\ EnterBody(pos, FALSE)
         \/ /\ ~Holds(code[pos].c, x)
            /\ GoTo(EndOf(code, pos) + 1, code[pos].inv = NoInvariant \/ ~Holds(code[pos].inv, x))
  BY DEF RunWhile, Running, Here
<1>2. PICK p \in Nat : p = pos /\ p \in 1 .. Len(code) /\ p + 1 \in 1 .. Len(code) + 1
                       /\ p + 1 \in p .. Len(code) + 1 /\ Len(code) \in Nat
  BY <1>1, RunAt
<1>3. CASE /\ Holds(code[pos].c, x) /\ Holds(code[pos].inv, x)
           /\ GoTo(pos + 1, code[pos].inv = NoInvariant)
  <2>0. PICK u \in BOOLEAN : u = (code[p].inv = NoInvariant)  OBVIOUS
  <2>1. GoTo(p + 1, u)  BY <1>2, <1>3, <2>0
  <2>2. ASSUME Settled, ~gap', NEW w \in Worlds, Fits(w, p, x) PROVE Fits(w, p + 1, x)
    <3>1. ~u /\ Trail[p + 1].facts = Trail[p].facts  BY <1>1, <1>2, <2>1, <2>2, GoToFacts
    <3>2. /\ code[p].op \in {"if", "while"} /\ Holds(code[p].c, x)
          /\ code[p].inv # NoInvariant /\ Holds(code[p].inv, x)
      BY <1>1, <1>2, <1>3, <2>0, <3>1
    <3> QED  BY <1>2, <2>2, <3>1, <3>2, EnterFits
  <2> QED  BY <1>1, <1>2, <2>1, <2>2, MoveInv
<1>4. CASE Holds(code[pos].c, x) /\ ~Holds(code[pos].inv, x) /\ Stop("failed", FALSE)
  <2>1. gap
    <3> SUFFICES ASSUME ~gap PROVE FALSE  OBVIOUS
    <3>1. Settled /\ \E w \in Worlds : Fits(w, pos, x)  BY <1>1, RunFacts
    <3>2. PICK w \in Worlds : Fits(w, p, x)  BY <1>2, <3>1
    <3>3. ~Trail[p].walk.dead /\ Trail[p].walk.x[w] = x
          /\ w \in Trail[p].walk.path /\ w \in Trail[p].walk.prem /\ w \in Trail[p].facts
      BY <3>2 DEF Fits
    <3>4. Asked(code, Trail, p)  BY <1>2, <3>1, SettledFacts
    <3>5. w \in CondAt(code, Trail, p)  BY <1>2, <1>4, <3>3 DEF CondAt, Where
    <3>6. w \in Where(code[p].inv, Trail[p].walk.x)  BY <3>3, <3>4, <3>5, <1>1, <1>2 DEF Asked
    <3> QED  BY <3>3, <3>6, <1>2, <1>4 DEF Where
  <2>2. gap'  BY <2>1, <1>4 DEF Stop
  <2> QED  BY <1>1, <1>4, <2>2, StopInv
<1>5. CASE /\ ~Holds(code[pos].c, x)
           /\ GoTo(EndOf(code, pos) + 1, code[pos].inv = NoInvariant \/ ~Holds(code[pos].inv, x))
  <2>0. PICK u \in BOOLEAN : u = (code[p].inv = NoInvariant \/ ~Holds(code[p].inv, x))  OBVIOUS
  <2>1. PICK e : e = EndOf(code, p)  OBVIOUS
  <2>2. GoTo(e + 1, u)  BY <1>2, <1>5, <2>0, <2>1
  <2>3. ASSUME Settled, x \in Values, ~gap'
        PROVE  e + 1 \in 1 .. Len(code) + 1
               /\ \A w \in Worlds : Fits(w, p, x) => \E v \in Worlds : Fits(v, e + 1, x)
    <3>1. PICK g \in 1 .. Len(code) : Closes(code, p, g)
      BY <1>1, <1>2, <2>3, SettledFacts DEF Closed, Openers
    <3>2. e = g  BY <1>2, <2>1, <3>1, EndIs
    <3>3. Closes(code, p, e) /\ p \in {p, e}  BY <3>1, <3>2
    <3>4. e + 1 \in 1 .. Len(code) + 1 /\ e + 1 \in p .. Len(code) + 1
      BY <1>2, <3>1, <3>2 DEF Closes, Around
    <3>5. ~u /\ Trail[e + 1].facts = Trail[p].facts  BY <1>1, <1>2, <2>2, <2>3, <3>4, GoToFacts
    <3>6. /\ code[p].op = "while" /\ code[p].inv # NoInvariant
          /\ ~Holds(code[p].c, x) /\ Holds(code[p].inv, x)
      BY <1>1, <1>2, <1>5, <2>0, <3>5
    <3>7. ASSUME NEW w \in Worlds, Fits(w, p, x) PROVE \E v \in Worlds : Fits(v, e + 1, x)
      BY <2>3, <3>3, <3>5, <3>6, <3>7, BehindWhileFits
    <3> QED  BY <3>4, <3>7
  <2> QED  BY <1>1, <1>2, <2>2, <2>3, MoveInv
<1> QED
  <2>1. EnterBody(pos, FALSE) =>
          IF Holds(code[pos].inv, x) THEN GoTo(pos + 1, code[pos].inv = NoInvariant) ELSE Stop("failed", FALSE)
    BY DEF EnterBody
  <2> QED  BY <1>1, <1>3, <1>4, <1>5, <2>1

LEMMA RunEndWhileInv ==
  ASSUME IInv, RunEndWhile
  PROVE  RunInv'
<1>1. /\ pos \in DOMAIN code /\ outcome = "running" /\ code[pos].op = "end" /\ x' = x
      /\ code[OpenerOf(code, pos)].op = "while"
      /\ \/ EnterBody(OpenerOf(code, pos), TRUE)
         \/ ~Holds(code[OpenerOf(code, pos)].c, x) /\ GoTo(pos + 1, FALSE)
  BY DEF RunEndWhile, Running
<1>2. PICK p \in Nat : p = pos /\ p \in 1 .. Len(code) /\ p + 1 \in 1 .. Len(code) + 1
                       /\ p + 1 \in p .. Len(code) + 1 /\ Len(code) \in Nat
  BY <1>1, RunAt
<1>3. CASE EnterBody(OpenerOf(code, pos), TRUE)
  <2>1. PICK q : q = OpenerOf(code, pos) + 1  OBVIOUS
  <2>2. GoTo(q, TRUE) \/ Stop("failed", TRUE)  BY <1>3, <2>1 DEF EnterBody
  <2>3. CASE GoTo(q, TRUE)
    <3>1. gap'  BY <2>3 DEF GoTo
    <3> QED  BY <1>1, <2>3, <3>1, MoveInv
  <2>4. CASE Stop("failed", TRUE)
    <3>1. gap'  BY <2>4 DEF Stop
    <3> QED  BY <1>1, <2>4, <3>1, StopInv
  <2> QED  BY <2>2, <2>3, <2>4
<1>4. CASE ~Holds(code[OpenerOf(code, pos)].c, x) /\ GoTo(pos + 1, FALSE)
  <2>1. ASSUME Settled, x \in Values, ~gap', NEW w \in Worlds, Fits(w, p, x)
        PROVE  \E u \in Worlds : Fits(u, p + 1, x)
    <3>1. PICK o \in 1 .. p - 1 : Closes(code, o, p)
      BY <1>1, <1>2, <2>1 DEF Settled, Static, BlockInv
    <3>2. OpenerOf(code, p) = o  BY <1>2, <2>1, <3>1, SettledFacts, OpenerIs
    <3>3. code[o].op = "while" /\ ~Holds(code[o].c, x) /\ p \in {o, p}  BY <1>1, <1>2, <1>4, <3>2
    <3>4. Trail[p + 1].facts = Trail[p].facts  BY <1>1, <1>2, <1>4, <2>1, GoToFacts
    <3>5. code[o].inv # NoInvariant
      <4>1. FitsBlock(w, o, p, x)  BY <2>1, <3>1 DEF Fits, Closes
      <4> QED  BY <3>3, <4>1 DEF FitsBlock
    <3>6. Holds(code[o].inv, x)
      <4>1. /\ ~Trail[p].walk.dead /\ Trail[p].walk.x[w] = x
            /\ w \in Trail[p].walk.prem /\ w \in Trail[p].facts
        BY <2>1 DEF Fits
      <4>2. Asked(code, Trail, p)  BY <1>2, <2>1, SettledFacts
      <4>3. w \in Where(code[o].inv, Trail[p].walk.x)  BY <4>1, <4>2, <3>1, <3>3, <3>5 DEF Asked
      <4> QED  BY <4>1, <4>3 DEF Where
    <3> QED  BY <2>1, <3>1, <3>3, <3>4, <3>5, <3>6, BehindWhileFits
  <2>2. GoTo(p + 1, FALSE)  BY <1>2, <1>4
  <2> QED  BY <1>1, <1>2, <2>1, <2>2, MoveInv
<1> QED  BY <1>1, <1>3, <1>4

LEMMA RunBreakInv ==
  ASSUME IInv, RunBreak
  PROVE  RunInv'
<1>1. /\ pos \in DOMAIN code /\ outcome = "running" /\ x' = x
      /\ GoTo(EndOf(code, Innermost(code, {"while"}, pos)) + 1, TRUE)
  BY DEF RunBreak, Running
<1>2. PICK q : q = EndOf(code, Innermost(code, {"while"}, pos)) + 1  OBVIOUS
<1>3. GoTo(q, TRUE) /\ gap'  BY <1>1, <1>2 DEF GoTo
<1> QED  BY <1>1, <1>3, MoveInv

LEMMA RunReturnInv ==
  ASSUME IInv, RunReturn
  PROVE  RunInv'
<1>1. /\ pos \in DOMAIN code /\ outcome = "running" /\ code[pos].op = "return"
      /\ \/ /\ \E call \in Enclosing(code, {"call"}, pos) :
                 GoTo(EndOf(code, call) + 1, Enclosing(code, {"if", "while"}, pos) \cap dropped # {})
            /\ x' = x
         \/ /\ Enclosing(code, {"call"}, pos) = {}
            /\ Stop(IF Holds(Ensures, x) THEN "ended" ELSE "failed", FALSE)
  BY DEF RunReturn, Running
<1>2. PICK p \in Nat : p = pos /\ p \in 1 .. Len(code) /\ Len(code) \in Nat /\ p \in 1 .. Len(code) + 1
  BY <1>1, RunAt
<1>3. CASE /\ \E call \in Enclosing(code, {"call"}, pos) :
                GoTo(EndOf(code, call) + 1, Enclosing(code, {"if", "while"}, pos) \cap dropped # {})
           /\ x' = x
  <2>0. PICK o \in Enclosing(code, {"call"}, p) :
          GoTo(EndOf(code, o) + 1, Enclosing(code, {"if", "while"}, p) \cap dropped # {})
    BY <1>2, <1>3
  <2>1. PICK e, u : /\ e = EndOf(code, o) /\ GoTo(e + 1, u) /\ u \in BOOLEAN
                    /\ o \in Enclosing(code, {"call"}, p)
                    /\ u = (Enclosing(code, {"if", "while"}, p) \cap dropped # {})
    BY <2>0
  <2>2. ASSUME Settled, x \in Values, ~gap'
        PROVE  e + 1 \in 1 .. Len(code) + 1
               /\ \A w \in Worlds : Fits(w, p, x) => \E v \in Worlds : Fits(v, e + 1, x)
    <3>1. Finished(code) /\ {"call"} \subseteq Openers /\ {"if", "while"} \subseteq Openers
      BY <2>2, SettledFacts DEF Openers
    <3>2. Around(code, o, p) /\ code[o].op = "call"  BY <1>2, <2>1, <3>1, EnclosingIs
    <3>3. PICK g \in Nat : /\ Closes(code, o, g) /\ EndOf(code, o) = g /\ o \in 1 .. p - 1 /\ o \in Nat
                           /\ g \in 1 .. Len(code) /\ p <= g
      BY <1>2, <2>2, <3>2, BlockAround
    <3>4. e = g /\ Closes(code, o, e)  BY <2>1, <3>3
    <3>5. code[e].op = "end"  BY <3>4, ClosesEnd
    <3>6. p # e  BY <1>1, <1>2, <3>5
    <3>7. p \in o + 1 .. e - 1 /\ e + 1 \in p .. Len(code) + 1 /\ e + 1 \in 1 .. Len(code) + 1
      BY <1>2, <3>3, <3>4, <3>6
    <3>8. ~u /\ Trail[e + 1].facts = Trail[p].facts  BY <1>1, <1>2, <2>1, <2>2, <3>7, GoToFacts
    <3>9. ~Lapsed(code, dropped, p)
      <4>1. \A k : Around(code, k, p) /\ code[k].op \in {"if", "while"}
                     => k \in Enclosing(code, {"if", "while"}, p)
        BY <1>2, <3>1, EnclosingIs
      <4> QED  BY <2>1, <3>8, <4>1 DEF Lapsed
    <3>10. code[p].op = "return"  BY <1>1, <1>2
    <3>11. ASSUME NEW w \in Worlds, Fits(w, p, x) PROVE \E v \in Worlds : Fits(v, e + 1, x)
      BY <2>2, <3>2, <3>4, <3>7, <3>8, <3>9, <3>10, <3>11, BehindCallFits
    <3> QED  BY <3>7, <3>11
  <2> QED  BY <1>1, <1>2, <1>3, <2>1, <2>2, MoveInv
<1>4. CASE /\ Enclosing(code, {"call"}, pos) = {}
           /\ Stop(IF Holds(Ensures, x) THEN "ended" ELSE "failed", FALSE)
  <2>1. ~Holds(Ensures, x) => gap
    <3> SUFFICES ASSUME ~Holds(Ensures, x), ~gap PROVE FALSE  OBVIOUS
    <3>1. Settled /\ \E w \in Worlds : Fits(w, pos, x)  BY <1>1, RunFacts
    <3>2. PICK w \in Worlds : Fits(w, p, x)  BY <1>2, <3>1
    <3>3. ~Trail[p].walk.dead /\ Trail[p].walk.x[w] = x
          /\ w \in Trail[p].walk.path /\ w \in Trail[p].walk.prem /\ w \in Trail[p].facts
      BY <3>2 DEF Fits
    <3>4. Asked(code, Trail, p)  BY <1>2, <3>1, SettledFacts
    <3>5. \A k : ~(Around(code, k, p) /\ code[k].op \in {"call"})
      <4>1. Finished(code) /\ {"call"} \subseteq Openers  BY <3>1, SettledFacts DEF Openers
      <4>2. \A k : k \in Enclosing(code, {"call"}, p) <=> Around(code, k, p) /\ code[k].op \in {"call"}
        BY <1>2, <4>1, EnclosingIs
      <4> QED  BY <1>2, <1>4, <4>2
    <3>6. w \in Where(Ensures, Trail[p].walk.x)  BY <1>1, <1>2, <3>3, <3>4, <3>5 DEF Asked
    <3> QED  BY <3>3, <3>6 DEF Where
  <2>2. gap => gap'  BY <1>4 DEF Stop
  <2>3. PICK how : /\ how = (IF Holds(Ensures, x) THEN "ended" ELSE "failed")
                   /\ Stop(how, FALSE)
    BY <1>4
  <2>4. how # "running" /\ (how = "failed" => gap')  BY <2>1, <2>2, <2>3
  <2> QED  BY <1>1, <2>3, <2>4, StopInv
<1> QED  BY <1>1, <1>3, <1>4

LEMMA StartRunInv ==
  ASSUME IInv, StartRun
  PROVE  RunInv'
<1>1. PICK v \in Inputs : input' = v /\ x' = v  BY DEF StartRun
<1>2. v \in Values  BY WpAssumption
<1>3. /\ pos' = 1 /\ gap' = gap /\ outcome' = outcome /\ code' = code /\ before' = before
      /\ walk' = walk /\ facts' = facts /\ frames' = frames /\ accepted' = accepted
      /\ accepted /\ frames = <<>>
  BY DEF StartRun, walkVars
<1>4. Trail' = Trail  BY <1>3 DEF Trail
<1> DEFINE w == [i \in 0 .. MaxSymbols |-> v]
<1>5. w \in Worlds /\ w[0] = v  BY <1>2, WpAssumption DEF Worlds
<1> HIDE DEF w
<1>6. /\ Trail[1].walk = [x |-> Symbol(0), result |-> Symbol(0), path |-> Worlds,
                          prem |-> {u \in Worlds : u[0] \in Inputs}, dead |-> FALSE]
      /\ Trail[1].facts = Worlds
  BY DEF IInv, Static, StartInv
<1>7. /\ ~Trail[1].walk.dead /\ w \in Trail[1].walk.path /\ w \in Trail[1].walk.prem
      /\ w \in Trail[1].facts /\ Trail[1].walk.x[w] = v
  BY <1>5, <1>6 DEF Symbol
<1>8. Fits(w, 1, x)'  BY <1>1, <1>3, <1>4, <1>5, <1>7 DEF Fits
<1>9. (\E u \in Worlds : Fits(u, pos, x))'  BY <1>3, <1>5, <1>8
<1>10. Len(code) \in Nat /\ (outcome = "failed" => gap)  BY DEF IInv, TypeInv, RunInv, OnlyUncoveredRunsFail
<1> QED  BY <1>1, <1>2, <1>3, <1>9, <1>10 DEF RunInv, OnlyUncoveredRunsFail

(***************************************************************************)
(* The invariant and the theorems.                                         *)
(***************************************************************************)
\* While the body is written nothing is running.
LEMMA WriteKeepsRun ==
  ASSUME IInv, pos = 0, UNCHANGED runVars
  PROVE  RunInv'
BY DEF IInv, RunInv, OnlyUncoveredRunsFail, runVars

LEMMA WalkerInv ==
  ASSUME IInv,
         \/ \E e \in Exprs : Assign(e)
         \/ \E c \in Claims : Assert(c) \/ Assume(c)
         \/ \E c \in Guards : If(c) \/ \E inv \in Invariants : While(c, inv)
         \/ Else \/ EndIf \/ EndWhile \/ Call \/ EndCall \/ Return \/ Break
  PROVE  IInv'
<1>1. TypeInv /\ Static /\ FramesInv  BY DEF IInv
<1>2. RunInv'
  <2>1. \E i : Write(i)
    BY DEF Assign, Assert, Assume, If, While, Else, EndIf, EndWhile, Call, EndCall, Return, Break
  <2> QED  BY <2>1, WriteKeepsRun DEF Write
<1>3. TypeInv' /\ Static' /\ FramesInv'
  <2>1. CASE \E e \in Exprs : Assign(e)  BY <1>1, <2>1, AssignTypes, AssignInv
  <2>2. CASE \E c \in Claims : Assert(c)  BY <1>1, <2>2, AssertTypes, AssertInv
  <2>3. CASE \E c \in Claims : Assume(c)  BY <1>1, <2>3, AssumeTypes, AssumeInv
  <2>4. CASE \E c \in Guards : If(c)  BY <1>1, <2>4, IfTypes, IfInv
  <2>5. CASE \E c \in Guards, inv \in Invariants : While(c, inv)  BY <1>1, <2>5, WhileTypes, WhileInv
  <2>6. CASE Else  BY <1>1, <2>6, ElseTypes, ElseInv
  <2>7. CASE EndIf  BY <1>1, <2>7, EndIfTypes, EndIfInv
  <2>8. CASE EndWhile  BY <1>1, <2>8, EndWhileTypes, EndWhileInv
  <2>9. CASE Call  BY <1>1, <2>9, CallTypes, CallInv
  <2>10. CASE EndCall  BY <1>1, <2>10, EndCallTypes, EndCallInv
  <2>11. CASE Return  BY <1>1, <2>11, ReturnTypes, ReturnInv
  <2>12. CASE Break  BY <1>1, <2>12, BreakTypes, BreakInv
  <2> QED
    BY <2>1, <2>2, <2>3, <2>4, <2>5, <2>6, <2>7, <2>8, <2>9, <2>10, <2>11, <2>12
<1> QED  BY <1>2, <1>3 DEF IInv

LEMMA RunStepInv ==
  ASSUME IInv,
         \/ StartRun \/ RunAssign \/ RunAssert \/ RunAssume \/ RunIf \/ RunElse \/ RunEnd
         \/ RunWhile \/ RunEndWhile \/ RunBreak \/ RunReturn \/ UNCHANGED vars
  PROVE  IInv'
<1>1. UNCHANGED walkVars  BY RunStepsKeepWalk
<1>2. TypeInv' /\ Static' /\ FramesInv'  BY <1>1, UnchangedTypes, UnchangedInv DEF IInv
<1>3. CASE UNCHANGED vars
  <2>1. /\ pos' = pos /\ input' = input /\ x' = x /\ gap' = gap /\ outcome' = outcome
        /\ code' = code /\ accepted' = accepted /\ frames' = frames
    BY <1>1, <1>3 DEF vars, walkVars, runVars
  <2>2. Trail' = Trail  BY <1>1 DEF walkVars, Trail
  <2>3. \A w, k, i, v : FitsBlock(w, k, i, v)' <=> FitsBlock(w, k, i, v)
    BY <2>1, <2>2 DEF FitsBlock
  <2>4. \A w, i, v : Fits(w, i, v)' <=> Fits(w, i, v)  BY <2>1, <2>2, <2>3 DEF Fits
  <2>5. RunInv  BY DEF IInv
  <2>6. RunInv'  BY <2>1, <2>4, <2>5 DEF RunInv, OnlyUncoveredRunsFail
  <2> QED  BY <1>2, <2>6 DEF IInv
<1> QED
  BY <1>2, <1>3, StartRunInv, RunAssignInv, RunAssertInv, RunAssumeInv, RunIfInv, RunElseInv, RunEndInv,
     RunWhileInv, RunEndWhileInv, RunBreakInv, RunReturnInv DEF IInv

\* The inductive invariant: what the walk of every body so far is made of, and
\* that a run the encoding covers has a world.
THEOREM WpEncoderInvariant == Spec => []IInv
<1>1. ASSUME Init PROVE IInv
  <2>1. TypeInv /\ Static /\ FramesInv  BY <1>1, InitTypes, InitInv
  <2>2. RunInv  BY <1>1 DEF Init, RunInv, OnlyUncoveredRunsFail
  <2> QED  BY <2>1, <2>2 DEF IInv
<1>2. ASSUME IInv, [Next]_vars PROVE IInv'
  <2> QED  BY <1>2, WalkerInv, RunStepInv DEF Next
<1> QED  BY <1>1, <1>2, PTL DEF Spec

\* smtEncodeStmts: where its encoding covers a run, some world of the walk at
\* each instruction the run reaches has the run's input and the value of x.
THEOREM StoresDescribeRuns == Spec => []StoreDescribesRun
<1>1. ASSUME IInv PROVE StoreDescribesRun
  <2> SUFFICES ASSUME pos \in DOMAIN code, outcome = "running", ~gap
               PROVE  LET w == before[pos].walk
                      IN ~w.dead /\ \E world \in w.path \cap w.prem \cap before[pos].facts :
                                      world[0] = input /\ w.x[world] = x
    BY DEF StoreDescribesRun
  <2>1. pos \in 1 .. Len(code) /\ \E w \in Worlds : Fits(w, pos, x)  BY <1>1, RunFacts
  <2>2. Trail[pos] = before[pos]  BY <1>1, <2>1 DEF Trail, IInv, TypeInv
  <2> QED  BY <2>1, <2>2 DEF Fits
<1> QED  BY <1>1, WpEncoderInvariant, PTL

\* smtDischarge and the generated contract gates: a body whose queries are all
\* discharged trips a gate only behind a step that the encoding does not cover.
THEOREM CoveredRunsDoNotFail == Spec => []OnlyUncoveredRunsFail
<1>1. ASSUME IInv PROVE OnlyUncoveredRunsFail  BY <1>1 DEF IInv, RunInv
<1> QED  BY <1>1, WpEncoderInvariant, PTL
=============================================================================
