--------------------------- MODULE ChannelProofs ---------------------------
(***************************************************************************)
(* What the runs of Channel check on four threads, for any number of them: *)
(* the ring is a queue, no wakeup is lost, every copy has one owner.       *)
(***************************************************************************)
EXTENDS Channel, SequenceTheorems, FiniteSetTheorems, TLAPS

USE ThreadsAssumption, CapAssumption

Critical == {"locked", "stored", "fetched"}
Sending  == {"entry", "locked", "stored", "asleep"}

\* Exactly the holder of the lock is inside the critical section.
LockInv == \A t \in Threads : pc[t] \in Critical <=> lock = t

\* Whoever is on a wait list sleeps, and on the condition of its own side.
SleepInv ==
  /\ \A t \in sleepers["not_full"] : t \in Senders /\ pc[t] = "asleep"
  /\ \A t \in sleepers["not_empty"] : t \in Receivers /\ pc[t] = "asleep"

\* A sender inside a call holds the copy it made for that call.
HandInv ==
  \A s \in Senders : pc[s] \in Sending =>
    done[s] < Calls[s] /\ hand[s] = <<s, done[s] + 1>>

\* Only a receiver reaches "fetched", only a sender "stored"; a fetch found
\* the ring nonempty.
SideInv ==
  /\ \A s \in Senders : pc[s] # "fetched" /\ pc[s] # "copying"
  /\ \A r \in Receivers : pc[r] # "stored" /\ (pc[r] = "fetched" => count > 0)

TypeInv == TypeOK /\ LockInv /\ SleepInv /\ HandInv /\ SideInv

-----------------------------------------------------------------------------
(* Index arithmetic of the ring. *)

Wrap(n) == IF n < Ring THEN n ELSE n - Ring

\* Reducing an index modulo the ring is one conditional subtraction.
LEMMA ModIsWrap ==
  ASSUME NEW n \in 0 .. 2 * Ring - 1
  PROVE  n % Ring = Wrap(n) /\ Wrap(n) \in Slots
  BY DEF Wrap, Slots

\* The next slot of a slot is a slot.
LEMMA NextSlotIsWrap ==
  ASSUME NEW i \in Slots
  PROVE  NextSlot(i) = Wrap(i + 1) /\ NextSlot(i) \in Slots
  BY ModIsWrap DEF NextSlot, Slots

-----------------------------------------------------------------------------
(* Type correctness *)

LEMMA NextBlobIsBlob ==
  ASSUME NEW s \in Senders, NEW k \in Nat, k < Calls[s]
  PROVE  <<s, k + 1>> \in Blobs
  BY DEF Blobs, Threads

LEMMA InitTypeInv == Init => TypeInv
  BY DEF Init, TypeInv, TypeOK, LockInv, SleepInv, HandInv, SideInv, Slots,
         Places, Critical, Sending, Threads

\* The wakeup step: a signal moves one sleeper of the right side to "entry".
LEMMA WakeStep ==
  ASSUME TypeInv, NEW t \in Threads, NEW cv \in {"not_full", "not_empty"},
         NEW next \in {"idle", "copying"}, pc[t] = "waking", Wake(t, cv, next)
  PROVE  /\ sleepers' \in [{"not_full", "not_empty"} -> SUBSET Threads]
         /\ pc' \in [Threads -> Places]
         /\ pc'[t] = next
         /\ \A u \in Threads \ {t} : \/ pc'[u] = pc[u]
                                     \/ pc[u] = "asleep" /\ pc'[u] = "entry"
         /\ \A c \in {"not_full", "not_empty"} : \A u \in sleepers'[c] :
              u \in sleepers[c] /\ pc'[u] = "asleep"
<1> USE DEF TypeInv, TypeOK, Places
<1>1. CASE sleepers[cv] = {}
  BY <1>1 DEF SleepInv, Wake, NoSignal, Goto
<1>2. CASE sleepers[cv] # {}
  <2>1. PICK u \in sleepers[cv] :
          /\ sleepers' = [sleepers EXCEPT ![cv] = @ \ {u}]
          /\ pc' = [pc EXCEPT ![t] = next, ![u] = "entry"]
    BY <1>2 DEF Wake, Signal
  <2>2. u \in Threads /\ pc[u] = "asleep" /\ u # t
    BY DEF SleepInv, Threads
  <2>3. u \notin sleepers'["not_full"] /\ u \notin sleepers'["not_empty"]
    BY <2>1 DEF SleepInv
  <2> QED BY <2>1, <2>2, <2>3 DEF SleepInv
<1> QED BY <1>1, <1>2

LEMMA NextTypeInv == TypeInv /\ [Next]_vars => TypeInv'
<1> SUFFICES ASSUME TypeInv, [Next]_vars PROVE TypeInv'
  OBVIOUS
<1> USE DEF TypeInv, TypeOK, LockInv, SleepInv, HandInv, SideInv, Places,
            Critical, Sending, Threads
<1>1. ASSUME NEW s \in Senders, SendCall(s) PROVE TypeInv'
  BY <1>1, NextBlobIsBlob DEF SendCall, Goto, ring, history
<1>2. ASSUME NEW t \in Threads, Acquire(t) PROVE TypeInv'
  BY <1>2 DEF Acquire, Goto, ring, history
<1>3. ASSUME NEW s \in Senders, SendWait(s) PROVE TypeInv'
  BY <1>3 DEF SendWait, Sleep, Goto, ring, history
<1>4. ASSUME NEW s \in Senders, SendStore(s) PROVE TypeInv'
  BY <1>4 DEF SendStore, Goto, ring, history
<1>5. ASSUME NEW s \in Senders, SendAdvance(s) PROVE TypeInv'
  <2>1. hand[s] \in Blobs
    <3>1. done[s] \in Nat /\ done[s] < Calls[s] /\ hand[s] = <<s, done[s] + 1>>
      BY <1>5 DEF SendAdvance
    <3> QED BY <3>1, NextBlobIsBlob
  <2>2. NextSlot(tail) \in Slots
    BY NextSlotIsWrap
  <2> QED BY <1>5, <2>1, <2>2 DEF SendAdvance, Goto, ring, history
<1>6. ASSUME NEW s \in Senders, SendWake(s) PROVE TypeInv'
  <2>1. pc[s] = "waking" /\ Wake(s, "not_empty", "idle")
    BY <1>6 DEF SendWake
  <2>2. /\ UNCHANGED <<slot, head, tail, count, lock, hand, heap, put, taken>>
        /\ done' = [done EXCEPT ![s] = @ + 1]
    BY <1>6 DEF SendWake, ring, history
  <2> HIDE DEF Places, Critical, Sending
  <2>3. TypeOK'
    BY <2>1, <2>2, WakeStep
  <2>4. LockInv'
    <3>1. \A u \in Threads : pc'[u] = pc[u] \/ (pc[u] \in {"waking", "asleep"} /\ pc'[u] \in {"idle", "entry"})
      BY <2>1, WakeStep
    <3>2. \A u \in Threads : pc'[u] \in Critical <=> pc[u] \in Critical
      BY <3>1 DEF Critical
    <3> QED BY <2>2, <3>2
  <2>5. HandInv'
    BY <2>1, <2>2, WakeStep, SMTT(30) DEF Sending
  <2>6. SleepInv' /\ SideInv'
    BY <2>1, <2>2, WakeStep
  <2> QED BY <2>3, <2>4, <2>5, <2>6
<1>7. ASSUME NEW r \in Receivers, RecvCall(r) PROVE TypeInv'
  BY <1>7 DEF RecvCall, Goto, ring, history
<1>8. ASSUME NEW r \in Receivers, RecvWait(r) PROVE TypeInv'
  BY <1>8 DEF RecvWait, Sleep, Goto, ring, history
<1>9. ASSUME NEW r \in Receivers, RecvFetch(r) PROVE TypeInv'
  BY <1>9 DEF RecvFetch, Goto, ring, history
<1>10. ASSUME NEW r \in Receivers, RecvAdvance(r) PROVE TypeInv'
  <2>1. NextSlot(head) \in Slots
    BY NextSlotIsWrap
  <2> QED BY <1>10, <2>1 DEF RecvAdvance, Goto, ring, history
<1>11. ASSUME NEW r \in Receivers, RecvWake(r) PROVE TypeInv'
  <2>1. pc[r] = "waking" /\ Wake(r, "not_full", "copying")
    BY <1>11 DEF RecvWake
  <2>2. UNCHANGED <<slot, head, tail, count, lock, hand, done, heap, put, taken>>
    BY <1>11 DEF RecvWake, ring, history
  <2> HIDE DEF Places, Critical, Sending
  <2>3. TypeOK'
    BY <2>1, <2>2, WakeStep
  <2>4. LockInv'
    BY <2>1, <2>2, WakeStep DEF Critical
  <2>5. HandInv'
    BY <2>1, <2>2, WakeStep DEF Sending
  <2>6. SleepInv'
    BY <2>1, <2>2, WakeStep
  <2>7. SideInv'
    <3>1. /\ pc'[r] = "copying"
          /\ \A u \in Threads \ {r} : pc'[u] = pc[u] \/ pc'[u] = "entry"
      BY <2>1, WakeStep
    <3> QED BY <2>2, <3>1
  <2> QED BY <2>3, <2>4, <2>5, <2>6, <2>7
<1>12. ASSUME NEW r \in Receivers, RecvCopyAndFree(r) PROVE TypeInv'
  <2>1. /\ pc[r] = "copying" /\ pc' = [pc EXCEPT ![r] = "idle"]
        /\ hand' = [hand EXCEPT ![r] = NoBlob] /\ done' = [done EXCEPT ![r] = @ + 1]
        /\ heap' \subseteq heap
        /\ UNCHANGED <<slot, head, tail, count, lock, sleepers, put, taken>>
    BY <1>12 DEF RecvCopyAndFree, Free, Goto, ring, history
  <2>2. TypeOK'
    BY <2>1
  <2>3. LockInv' /\ SleepInv' /\ SideInv'
    BY <2>1
  <2>4. HandInv'
    BY <2>1
  <2> QED BY <2>2, <2>3, <2>4
<1>13. ASSUME Spurious PROVE TypeInv'
  <2>1. PICK t \in Threads, cv \in {"not_full", "not_empty"} : SpuriousWake(t, cv)
    BY <1>13 DEF Spurious
  <2>2. /\ t \in sleepers[cv]
        /\ sleepers' = [sleepers EXCEPT ![cv] = @ \ {t}]
        /\ pc' = [pc EXCEPT ![t] = "entry"]
        /\ UNCHANGED <<slot, head, tail, count, lock, hand, done, heap, put, taken>>
    BY <2>1 DEF SpuriousWake, Goto, ring, history
  <2>3. TypeOK' /\ LockInv' /\ HandInv' /\ SideInv'
    BY <2>2
  <2>4. SleepInv'
    BY <2>2
  <2> QED BY <2>3, <2>4
<1>14. CASE UNCHANGED vars
  BY <1>14 DEF vars, ring, history
<1> QED
  BY <1>1, <1>2, <1>3, <1>4, <1>5, <1>6, <1>7, <1>8, <1>9, <1>10, <1>11,
     <1>12, <1>13, <1>14 DEF Next, Send, Recv

\* Every variable of the channel keeps its type, whatever the threads, their
\* calls, the ring and the capacity.
THEOREM TypeCorrect == Spec => []TypeOK
<1>1. TypeInv => TypeOK
  BY DEF TypeInv
<1> QED BY InitTypeInv, NextTypeInv, <1>1, PTL DEF Spec

-----------------------------------------------------------------------------
(***************************************************************************)
(* What was written and read is what the calls so far have moved.          *)
(***************************************************************************)

\* The first p[t] calls of every thread of T.
Moved(T, p) == UNION {{t} \X (1 .. p[t]) : t \in T}

Sends    == Cardinality(Moved(Senders, Calls))
Receives == Cardinality(Moved(Receivers, Calls))

\* A call has moved its message once it has given the lock back.
passed == [t \in Threads |-> IF pc[t] \in {"waking", "copying"} THEN done[t] + 1 ELSE done[t]]

\* No thread makes more calls than it was given, a sender waits only where there
\* is a capacity, and a thread that sleeps is on the wait list of its side.
CallInv ==
  /\ \A t \in Threads : done[t] <= Calls[t] /\ (pc[t] # "idle" => done[t] < Calls[t])
  /\ \A s \in Senders : pc[s] = "asleep" => s \in sleepers["not_full"] /\ Cap > 0
  /\ \A r \in Receivers : pc[r] = "asleep" => r \in sleepers["not_empty"]

CountInv ==
  /\ Cardinality(Moved(Senders, passed)) = Len(put)
  /\ Cardinality(Moved(Receivers, passed)) = Len(taken)

LEMMA MovedPairs ==
  ASSUME NEW T, NEW p, NEW c
  PROVE  c \in Moved(T, p) <=> \E t \in T : \E k \in 1 .. p[t] : c = <<t, k>>
  BY DEF Moved

LEMMA MovedFinite ==
  ASSUME NEW T \in SUBSET Threads, NEW p \in [Threads -> Nat]
  PROVE  IsFiniteSet(Moved(T, p)) /\ Cardinality(Moved(T, p)) \in Nat
<1> DEFINE f == [t \in T |-> {t} \X (1 .. p[t])]
           R == {{t} \X (1 .. p[t]) : t \in T}
<1>1. IsFiniteSet(T)
  <2>1. IsFiniteSet(Threads)
    BY FS_Union DEF Threads
  <2> QED BY <2>1, FS_Subset
<1>2. f \in Surjection(T, R)
  BY DEF Surjection
<1>3. IsFiniteSet(R)
  BY <1>1, <1>2, FS_Surjection
<1>4. ASSUME NEW t \in T PROVE IsFiniteSet({t} \X (1 .. p[t]))
  <2>1. IsFiniteSet({t}) /\ IsFiniteSet(1 .. p[t])
    <3>1. p[t] \in Int /\ 1 \in Int
      OBVIOUS
    <3> QED BY <3>1, FS_Singleton, FS_Interval
  <2> QED BY <2>1, FS_Product
<1>5. \A S \in R : IsFiniteSet(S)
  BY <1>4
<1>6. IsFiniteSet(UNION R)
  BY <1>3, <1>5, FS_UNION
<1> QED BY <1>6, FS_CardinalityType DEF Moved

\* One more call of one thread is one pair more.
LEMMA MovedMore ==
  ASSUME NEW T \in SUBSET Threads, NEW p \in [Threads -> Nat], NEW q \in [Threads -> Nat],
         NEW t \in T, q[t] = p[t] + 1, \A u \in T \ {t} : q[u] = p[u]
  PROVE  Cardinality(Moved(T, q)) = Cardinality(Moved(T, p)) + 1
<1>1. <<t, p[t] + 1>> \notin Moved(T, p)
  BY MovedPairs
<1>2. Moved(T, q) = Moved(T, p) \cup {<<t, p[t] + 1>>}
  <2>1. ASSUME NEW c \in Moved(T, q) PROVE c \in Moved(T, p) \cup {<<t, p[t] + 1>>}
    <3>0. PICK u \in T : \E k \in 1 .. q[u] : c = <<u, k>>
      BY MovedPairs
    <3>1. PICK k \in 1 .. q[u] : c = <<u, k>>
      BY <3>0
    <3>2. u = t => k \in 1 .. p[u] \/ k = p[t] + 1
      OBVIOUS
    <3> QED BY <3>1, <3>2, MovedPairs
  <2>2. ASSUME NEW c \in Moved(T, p) PROVE c \in Moved(T, q)
    <3>0. PICK u \in T : \E k \in 1 .. p[u] : c = <<u, k>>
      BY MovedPairs
    <3>1. PICK k \in 1 .. p[u] : c = <<u, k>>
      BY <3>0
    <3>2. k \in 1 .. q[u]
      OBVIOUS
    <3> QED BY <3>1, <3>2, MovedPairs
  <2>3. <<t, p[t] + 1>> \in Moved(T, q)
    <3>1. p[t] + 1 \in 1 .. q[t]
      OBVIOUS
    <3> QED BY <3>1, MovedPairs
  <2> QED BY <2>1, <2>2, <2>3
<1> QED BY <1>1, <1>2, MovedFinite, FS_AddElement

LEMMA MovedSame ==
  ASSUME NEW T, NEW p, NEW q, \A t \in T : q[t] = p[t]
  PROVE  Moved(T, q) = Moved(T, p)
  BY DEF Moved

\* Who has not made all of its calls leaves the count short.
LEMMA MovedLess ==
  ASSUME NEW T \in SUBSET Threads, NEW p \in [Threads -> Nat], NEW q \in [Threads -> Nat],
         \A t \in T : p[t] <= q[t], NEW t \in T, p[t] < q[t]
  PROVE  Cardinality(Moved(T, p)) < Cardinality(Moved(T, q))
<1>1. Moved(T, p) \subseteq Moved(T, q)
  <2>1. ASSUME NEW c \in Moved(T, p) PROVE c \in Moved(T, q)
    <3>0. PICK u \in T : \E k \in 1 .. p[u] : c = <<u, k>>
      BY MovedPairs
    <3>1. PICK k \in 1 .. p[u] : c = <<u, k>>
      BY <3>0
    <3>2. k \in 1 .. q[u]
      OBVIOUS
    <3> QED BY <3>1, <3>2, MovedPairs
  <2> QED BY <2>1
<1>2. <<t, q[t]>> \in Moved(T, q) /\ <<t, q[t]>> \notin Moved(T, p)
  <2>1. q[t] \in 1 .. q[t] /\ q[t] \notin 1 .. p[t]
    OBVIOUS
  <2> QED BY <2>1, MovedPairs
<1>3. Cardinality(Moved(T, p)) # Cardinality(Moved(T, q)) /\ Cardinality(Moved(T, p)) <= Cardinality(Moved(T, q))
  BY <1>1, <1>2, MovedFinite, FS_Subset
<1> QED BY <1>3, MovedFinite

LEMMA PassedType ==
  ASSUME TypeInv
  PROVE  passed \in [Threads -> Nat]
  BY DEF TypeInv, TypeOK, passed

LEMMA NextCallInv ==
  ASSUME TypeInv, CallInv, [Next]_vars
  PROVE  CallInv'
<1> USE DEF TypeInv, TypeOK, CallInv, Threads
<1>1. ASSUME NEW t \in Threads,
             SendCall(t) \/ RecvCall(t) \/ Acquire(t) \/ SendStore(t) \/ RecvFetch(t) \/ SendAdvance(t) \/ RecvAdvance(t)
      PROVE  CallInv'
  <2>1. /\ done' = done /\ sleepers' = sleepers
        /\ pc[t] = "idle" => done[t] < Calls[t]
        /\ \A u \in Threads \ {t} : pc'[u] = pc[u]
        /\ pc'[t] # "asleep"
    BY <1>1 DEF SendCall, RecvCall, Acquire, SendStore, RecvFetch, SendAdvance, RecvAdvance, Goto, ring
  <2> QED BY <2>1
<1>2. ASSUME NEW s \in Senders, SendWait(s) PROVE CallInv'
  <2>1. /\ done' = done /\ pc[s] = "locked" /\ Cap > 0 /\ \A u \in Threads \ {s} : pc'[u] = pc[u]
        /\ sleepers'["not_full"] = sleepers["not_full"] \cup {s} /\ sleepers'["not_empty"] = sleepers["not_empty"]
    BY <1>2 DEF SendWait, SendMustWait, Sleep, Goto
  <2> QED BY <2>1
<1>3. ASSUME NEW r \in Receivers, RecvWait(r) PROVE CallInv'
  <2>1. /\ done' = done /\ pc[r] = "locked" /\ \A u \in Threads \ {r} : pc'[u] = pc[u]
        /\ sleepers'["not_empty"] = sleepers["not_empty"] \cup {r} /\ sleepers'["not_full"] = sleepers["not_full"]
    BY <1>3 DEF RecvWait, Sleep, Goto
  <2> QED BY <2>1
<1>4. ASSUME NEW t \in Threads, NEW cv \in {"not_full", "not_empty"}, NEW next \in {"idle", "copying"},
             pc[t] = "waking", Wake(t, cv, next)
      PROVE  /\ pc'[t] = next
             /\ \A u \in Threads \ {t} : pc'[u] # "idle" => pc[u] # "idle"
             /\ \A u \in Threads : pc'[u] = "asleep" =>
                  pc[u] = "asleep" /\ \A c \in {"not_full", "not_empty"} : u \in sleepers[c] => u \in sleepers'[c]
  <2>1. CASE sleepers[cv] = {}
    BY <1>4, <2>1 DEF Wake, NoSignal, Goto
  <2>2. CASE sleepers[cv] # {}
    <3>1. PICK u \in sleepers[cv] :
            /\ sleepers' = [sleepers EXCEPT ![cv] = @ \ {u}]
            /\ pc' = [pc EXCEPT ![t] = next, ![u] = "entry"]
      BY <1>4, <2>2 DEF Wake, Signal
    <3>2. u \in Threads /\ pc[u] = "asleep" /\ u # t
      BY <1>4 DEF SleepInv
    <3>3. pc'[u] = "entry" /\ pc'[t] = next /\ \A v \in Threads \ {t, u} : pc'[v] = pc[v]
      BY <3>1, <3>2
    <3>4. \A v \in Threads \ {u}, c \in {"not_full", "not_empty"} : v \in sleepers[c] => v \in sleepers'[c]
      BY <3>1
    <3> QED BY <3>2, <3>3, <3>4
  <2> QED BY <2>1, <2>2
<1>5. ASSUME NEW s \in Senders, SendWake(s) PROVE CallInv'
  <2>1. pc[s] = "waking" /\ Wake(s, "not_empty", "idle") /\ done' = [done EXCEPT ![s] = @ + 1] /\ done[s] < Calls[s]
    BY <1>5 DEF SendWake
  <2>2. done'[s] <= Calls[s] /\ \A u \in Threads \ {s} : done'[u] = done[u]
    <3>1. done'[s] = done[s] + 1 /\ done[s] \in Nat /\ Calls[s] \in Nat
      BY <2>1
    <3> QED BY <2>1, <3>1
  <2>3. /\ pc'[s] = "idle" /\ \A u \in Threads \ {s} : pc'[u] # "idle" => pc[u] # "idle"
        /\ \A u \in Threads : pc'[u] = "asleep" =>
             pc[u] = "asleep" /\ \A c \in {"not_full", "not_empty"} : u \in sleepers[c] => u \in sleepers'[c]
    BY <1>4, <2>1
  <2> QED BY <2>2, <2>3
<1>6. ASSUME NEW r \in Receivers, RecvWake(r) PROVE CallInv'
  <2>1. pc[r] = "waking" /\ Wake(r, "not_full", "copying") /\ done' = done
    BY <1>6 DEF RecvWake
  <2>2. /\ pc'[r] = "copying" /\ \A u \in Threads \ {r} : pc'[u] # "idle" => pc[u] # "idle"
        /\ \A u \in Threads : pc'[u] = "asleep" =>
             pc[u] = "asleep" /\ \A c \in {"not_full", "not_empty"} : u \in sleepers[c] => u \in sleepers'[c]
    BY <1>4, <2>1
  <2> QED BY <2>1, <2>2
<1>7. ASSUME NEW r \in Receivers, RecvCopyAndFree(r) PROVE CallInv'
  <2>1. /\ pc[r] = "copying" /\ done' = [done EXCEPT ![r] = @ + 1] /\ done[r] < Calls[r]
        /\ pc'[r] = "idle" /\ sleepers' = sleepers /\ \A u \in Threads \ {r} : pc'[u] = pc[u]
    BY <1>7 DEF RecvCopyAndFree, Goto
  <2>2. done'[r] <= Calls[r] /\ \A u \in Threads \ {r} : done'[u] = done[u]
    <3>1. done'[r] = done[r] + 1 /\ done[r] \in Nat /\ Calls[r] \in Nat
      BY <2>1
    <3> QED BY <2>1, <3>1
  <2> QED BY <2>1, <2>2
<1>8. ASSUME Spurious PROVE CallInv'
  <2>1. PICK t \in Threads, cv \in {"not_full", "not_empty"} : SpuriousWake(t, cv)
    BY <1>8 DEF Spurious
  <2>2. /\ pc[t] = "asleep" /\ pc'[t] = "entry" /\ done' = done
        /\ \A u \in Threads \ {t} : pc'[u] = pc[u]
        /\ \A u \in Threads \ {t}, c \in {"not_full", "not_empty"} : u \in sleepers[c] => u \in sleepers'[c]
    BY <2>1 DEF SpuriousWake, Goto, SleepInv
  <2> QED BY <2>2
<1>9. CASE UNCHANGED vars
  BY <1>9 DEF vars
<1> QED
  BY <1>1, <1>2, <1>3, <1>5, <1>6, <1>7, <1>8, <1>9 DEF Next, Send, Recv

\* Only the two unlocking steps move a message, and each writes or reads one.
LEMMA NextCountInv ==
  ASSUME TypeInv, TypeInv', CountInv, [Next]_vars
  PROVE  CountInv'
<1>0. passed \in [Threads -> Nat] /\ passed' \in [Threads -> Nat]
  BY PassedType DEF TypeInv, TypeOK, passed
<1> DEFINE new == passed'
<1>1. ASSUME put' = put, taken' = taken, \A t \in Threads : new[t] = passed[t] PROVE CountInv'
  <2>1. Moved(Senders, new) = Moved(Senders, passed) /\ Moved(Receivers, new) = Moved(Receivers, passed)
    BY <1>1, MovedSame DEF Threads
  <2> QED BY <1>1, <2>1 DEF CountInv
<1>2. ASSUME NEW t \in Threads,
             SendCall(t) \/ RecvCall(t) \/ Acquire(t) \/ SendStore(t) \/ RecvFetch(t) \/ SendWait(t) \/ RecvWait(t)
      PROVE  CountInv'
  <2>1. /\ put' = put /\ taken' = taken /\ done' = done
        /\ \A u \in Threads : pc'[u] \in {"waking", "copying"} <=> pc[u] \in {"waking", "copying"}
    BY <1>2 DEF SendCall, RecvCall, Acquire, SendStore, RecvFetch, SendWait, RecvWait, Sleep, Goto, history,
                TypeInv, TypeOK
  <2> QED BY <1>1, <2>1 DEF passed
<1>3. ASSUME NEW s \in Senders, SendAdvance(s) PROVE CountInv'
  <2>1. /\ pc[s] = "stored" /\ done' = done /\ put' = Append(put, hand[s]) /\ taken' = taken
        /\ pc'[s] = "waking" /\ \A u \in Threads \ {s} : pc'[u] = pc[u]
    BY <1>3 DEF SendAdvance, Goto, TypeInv, TypeOK, Threads
  <2>2. new[s] = passed[s] + 1 /\ \A u \in Threads \ {s} : new[u] = passed[u]
    BY <2>1 DEF passed, Threads
  <2>3. s \notin Receivers /\ Senders \in SUBSET Threads /\ Receivers \in SUBSET Threads
    BY DEF Threads
  <2>4. Len(put') = Len(put) + 1
    BY <2>1 DEF TypeInv, TypeOK
  <2> HIDE DEF new
  <2>5. Cardinality(Moved(Senders, new)) = Cardinality(Moved(Senders, passed)) + 1
    BY <1>0, <2>2, <2>3, MovedMore DEF new
  <2>6. Moved(Receivers, new) = Moved(Receivers, passed)
    BY <2>2, <2>3, MovedSame
  <2> QED BY <2>1, <2>4, <2>5, <2>6 DEF CountInv, new
<1>4. ASSUME NEW r \in Receivers, RecvAdvance(r) PROVE CountInv'
  <2>1. /\ pc[r] = "fetched" /\ done' = done /\ taken' = Append(taken, hand[r]) /\ put' = put
        /\ pc'[r] = "waking" /\ \A u \in Threads \ {r} : pc'[u] = pc[u]
    BY <1>4 DEF RecvAdvance, Goto, TypeInv, TypeOK, Threads
  <2>2. new[r] = passed[r] + 1 /\ \A u \in Threads \ {r} : new[u] = passed[u]
    BY <2>1 DEF passed, Threads
  <2>3. r \notin Senders /\ Senders \in SUBSET Threads /\ Receivers \in SUBSET Threads
    BY DEF Threads
  <2>4. Len(taken') = Len(taken) + 1
    BY <2>1 DEF TypeInv, TypeOK
  <2> HIDE DEF new
  <2>5. Cardinality(Moved(Receivers, new)) = Cardinality(Moved(Receivers, passed)) + 1
    BY <1>0, <2>2, <2>3, MovedMore DEF new
  <2>6. Moved(Senders, new) = Moved(Senders, passed)
    BY <2>2, <2>3, MovedSame
  <2> QED BY <2>1, <2>4, <2>5, <2>6 DEF CountInv, new
<1>5. ASSUME NEW s \in Senders, SendWake(s) PROVE CountInv'
  <2>1. /\ pc[s] = "waking" /\ Wake(s, "not_empty", "idle") /\ s \in Threads
        /\ done' = [done EXCEPT ![s] = @ + 1] /\ put' = put /\ taken' = taken
    BY <1>5 DEF SendWake, history, Threads
  <2>2. /\ pc'[s] = "idle"
        /\ \A u \in Threads \ {s} : pc'[u] = pc[u] \/ (pc[u] = "asleep" /\ pc'[u] = "entry")
    BY <2>1, WakeStep
  <2>3. \A u \in Threads : new[u] = passed[u]
    BY <2>1, <2>2 DEF passed, TypeInv, TypeOK
  <2> QED BY <1>1, <2>1, <2>3
<1>6. ASSUME NEW r \in Receivers, RecvWake(r) PROVE CountInv'
  <2>1. /\ pc[r] = "waking" /\ Wake(r, "not_full", "copying") /\ r \in Threads
        /\ done' = done /\ put' = put /\ taken' = taken
    BY <1>6 DEF RecvWake, history, Threads
  <2>2. /\ pc'[r] = "copying"
        /\ \A u \in Threads \ {r} : pc'[u] = pc[u] \/ (pc[u] = "asleep" /\ pc'[u] = "entry")
    BY <2>1, WakeStep
  <2>3. \A u \in Threads : new[u] = passed[u]
    BY <2>1, <2>2 DEF passed, TypeInv, TypeOK
  <2> QED BY <1>1, <2>1, <2>3
<1>7. ASSUME NEW r \in Receivers, RecvCopyAndFree(r) PROVE CountInv'
  <2>1. /\ pc[r] = "copying" /\ done' = [done EXCEPT ![r] = @ + 1] /\ put' = put /\ taken' = taken
        /\ pc'[r] = "idle" /\ \A u \in Threads \ {r} : pc'[u] = pc[u]
    BY <1>7 DEF RecvCopyAndFree, Goto, history, TypeInv, TypeOK, Threads
  <2>2. \A u \in Threads : new[u] = passed[u]
    BY <2>1 DEF passed, TypeInv, TypeOK
  <2> QED BY <1>1, <2>1, <2>2
<1>8. ASSUME Spurious PROVE CountInv'
  <2>1. PICK t \in Threads, cv \in {"not_full", "not_empty"} : SpuriousWake(t, cv)
    BY <1>8 DEF Spurious, Threads
  <2>2. /\ pc[t] = "asleep" /\ pc' = [pc EXCEPT ![t] = "entry"] /\ done' = done /\ put' = put /\ taken' = taken
    BY <2>1 DEF SpuriousWake, Goto, history, TypeInv, SleepInv
  <2>3. \A u \in Threads : new[u] = passed[u]
    BY <2>2 DEF passed, TypeInv, TypeOK
  <2> QED BY <1>1, <2>2, <2>3
<1>9. CASE UNCHANGED vars
  <2>1. put' = put /\ taken' = taken /\ new = passed
    BY <1>9 DEF vars, history, passed
  <2> QED BY <1>1, <2>1
<1> QED
  BY <1>2, <1>3, <1>4, <1>5, <1>6, <1>7, <1>8, <1>9 DEF Next, Send, Recv, Threads

CallsInv == CallInv /\ CountInv

LEMMA InitCallsInv == Init => CallsInv
<1> SUFFICES ASSUME Init PROVE CallsInv
  OBVIOUS
<1>1. CallInv
  BY DEF Init, CallInv, Threads
<1>2. Moved(Senders, passed) = {} /\ Moved(Receivers, passed) = {}
  <2>1. \A t \in Threads : passed[t] = 0
    BY DEF Init, passed
  <2> QED BY <2>1 DEF Moved, Threads
<1> QED BY <1>1, <1>2, FS_EmptySet DEF CallsInv, CountInv, Init

\* No thread is ever past its calls, so no more is written than is to be sent.
LEMMA PassedIsBounded ==
  ASSUME TypeInv, CallInv, NEW t \in Threads
  PROVE  passed[t] <= Calls[t] /\ (pc[t] \notin {"waking", "copying"} => passed[t] = done[t])
<1>1. passed[t] = IF pc[t] \in {"waking", "copying"} THEN done[t] + 1 ELSE done[t]
  BY DEF passed
<1>2. done[t] \in Nat /\ Calls[t] \in Nat /\ done[t] <= Calls[t] /\ (pc[t] # "idle" => done[t] < Calls[t])
  BY DEF TypeInv, TypeOK, CallInv
<1> QED BY <1>1, <1>2

-----------------------------------------------------------------------------
(* First-in first-out *)

\* The messages written are those read followed by those in the ring, stated
\* element by element, which is how the steps of the two sides change it.
InFlightInv ==
  /\ Len(put) = Len(taken) + count
  /\ \A i \in 1 .. Len(taken) : put[i] = taken[i]
  /\ \A i \in 1 .. count : put[Len(taken) + i] = slot[Wrap(head + i - 1)]

\* The slots a sender may fill: without a capacity nothing but the number of
\* messages keeps a sender off a slot that is in use (Fits).
Room == IF Cap = 0 THEN Ring ELSE Cap
Fits == Cap > 0 \/ Sends <= Ring

\* The ring never holds more than it has room for, and the thread between its
\* test and its unlock may rely on what it tested.
RingInv ==
  /\ count <= Room
  /\ tail = Wrap(head + count)
  /\ \A s \in Senders : pc[s] = "stored" => count < Room /\ slot[tail] = hand[s]
  /\ \A r \in Receivers : pc[r] = "fetched" => count > 0 /\ hand[r] = slot[head]
  /\ InFlightInv

LEMMA RoomType == Room \in 1 .. Ring /\ (Cap > 0 => Room = Cap)
  BY DEF Room

\* A sender that has passed its test finds room: there is a capacity and the ring
\* is below it, or its own message is not among those written.
LEMMA StoreFindsRoom ==
  ASSUME Fits, TypeInv, CallsInv, RingInv, NEW s \in Senders, SendStore(s)
  PROVE  count < Room
<1>1. CASE Cap > 0
  <2>1. count # Cap /\ count <= Cap
    BY <1>1, RoomType DEF SendStore, SendMustWait, RingInv
  <2> QED BY <1>1, <2>1, RoomType DEF TypeInv, TypeOK
<1>2. CASE Cap = 0
  <2>1. s \in Threads /\ Senders \in SUBSET Threads /\ Calls \in [Threads -> Nat]
    BY DEF Threads
  <2>2. passed[s] < Calls[s] /\ \A t \in Senders : passed[t] <= Calls[t]
    <3>1. pc[s] = "locked" /\ done[s] < Calls[s]
      BY <2>1 DEF SendStore, CallsInv, CallInv
    <3>2. passed[s] = done[s]
      BY <2>1, <3>1, PassedIsBounded DEF CallsInv
    <3> QED BY <2>1, <3>1, <3>2, PassedIsBounded DEF CallsInv
  <2>3. Cardinality(Moved(Senders, passed)) < Sends
    BY <2>1, <2>2, PassedType, MovedLess DEF Sends
  <2>4. Len(put) < Sends /\ Sends <= Ring /\ Sends \in Nat
    BY <1>2, <2>1, <2>3, MovedFinite DEF CallsInv, CountInv, Fits, Sends
  <2>5. count <= Len(put) /\ count \in Nat /\ Len(put) \in Nat
    BY DEF TypeInv, TypeOK, RingInv, InFlightInv
  <2>6. Room = Ring
    BY <1>2 DEF Room
  <2> QED BY <2>4, <2>5, <2>6
<1> QED BY <1>1, <1>2

\* No step outside the critical section touches what RingInv is about.
LEMMA RingFrame ==
  ASSUME TypeInv, RingInv, TypeInv',
         UNCHANGED <<slot, head, tail, count, put, taken>>,
         \A t \in Threads : pc'[t] \in {"stored", "fetched"} =>
                              pc[t] = pc'[t] /\ hand'[t] = hand[t]
  PROVE  RingInv'
  BY DEF RingInv, InFlightInv, Threads, Wrap

LEMMA NextRingInv ==
  ASSUME Fits, TypeInv, TypeInv', CallsInv, RingInv, [Next]_vars
  PROVE  RingInv'
<1>0. Room \in 1 .. Ring
  BY RoomType
<1> USE <1>0 DEF TypeInv, TypeOK
<1>1. ASSUME NEW s \in Senders, SendStore(s) PROVE RingInv'
  <2>1. count < Room /\ slot' = [slot EXCEPT ![tail] = hand[s]] /\ lock = s
    BY <1>1, StoreFindsRoom DEF SendStore, LockInv, Critical, Threads
  <2>2. UNCHANGED <<head, tail, count, lock, hand, put, taken>>
    BY <1>1 DEF SendStore, history
  <2>3. \A i \in 1 .. count : Wrap(head + i - 1) # tail /\ Wrap(head + i - 1) \in Slots
    BY <2>1 DEF RingInv, Wrap, Slots
  <2>4. InFlightInv'
    BY <2>1, <2>2, <2>3 DEF RingInv, InFlightInv
  <2>5. \A t \in Threads : pc'[t] \in {"stored", "fetched"} => t = s
    BY <2>1, <2>2, TypeInv' DEF LockInv, Critical
  <2>6. slot'[tail] = hand[s]
    BY <2>1
  <2>7. pc'[s] = "stored"
    BY <1>1 DEF SendStore, Goto, Threads
  <2> QED BY <2>1, <2>2, <2>4, <2>5, <2>6, <2>7 DEF RingInv, Threads
<1>2. ASSUME NEW s \in Senders, SendAdvance(s) PROVE RingInv'
  <2>1. /\ count < Room /\ slot[tail] = hand[s] /\ lock = s
        /\ tail' = Wrap(tail + 1) /\ count' = count + 1
        /\ put' = Append(put, hand[s]) /\ lock' = NoThread
        /\ UNCHANGED <<slot, head, taken>>
    BY <1>2, NextSlotIsWrap DEF SendAdvance, RingInv, LockInv, Critical, Threads
  <2>2. tail' = Wrap(head + count')
    BY <2>1 DEF RingInv, Wrap, Slots
  <2>3. \A t \in Threads : pc'[t] \notin {"stored", "fetched"}
    BY <2>1, TypeInv' DEF LockInv, Critical
  <2>4. InFlightInv'
    <3>1. hand[s] \in Blobs
      BY <1>2, NextBlobIsBlob DEF SendAdvance, HandInv, Sending, Threads
    <3>2. /\ Len(put') = Len(put) + 1 /\ put'[Len(put) + 1] = hand[s]
          /\ \A i \in 1 .. Len(put) : put'[i] = put[i]
      BY <2>1, <3>1
    <3>3. /\ Len(put) = Len(taken) + count /\ Len(taken) \in Nat /\ count \in Nat /\ Len(put) \in Nat
          /\ \A i \in 1 .. Len(taken) : put[i] = taken[i]
          /\ \A i \in 1 .. count : put[Len(taken) + i] = slot[Wrap(head + i - 1)]
      BY DEF RingInv, InFlightInv
    <3>4. Len(put') = Len(taken) + count'
      BY <2>1, <3>2, <3>3
    <3>5. \A i \in 1 .. Len(taken) : put'[i] = taken[i]
      BY <3>2, <3>3
    <3>6. ASSUME NEW i \in 1 .. count + 1 PROVE put'[Len(taken) + i] = slot[Wrap(head + i - 1)]
      <4>1. CASE i \in 1 .. count
        <5>1. Len(taken) + i \in 1 .. Len(put)
          BY <3>3, <4>1
        <5> QED BY <3>2, <3>3, <4>1, <5>1
      <4>2. CASE i = count + 1
        <5>1. Len(taken) + i = Len(put) + 1 /\ head + i - 1 = head + count
          BY <3>3, <4>2 DEF Slots
        <5> QED BY <2>1, <3>2, <5>1 DEF RingInv
      <4>3. i \in 1 .. count \/ i = count + 1
        BY <3>3
      <4> QED BY <4>1, <4>2, <4>3
    <3> QED BY <2>1, <3>4, <3>5, <3>6 DEF InFlightInv
  <2> QED BY <2>1, <2>2, <2>3, <2>4 DEF RingInv, Threads
<1>3. ASSUME NEW r \in Receivers, RecvFetch(r) PROVE RingInv'
  <2>1. /\ count > 0 /\ lock = r /\ hand' = [hand EXCEPT ![r] = slot[head]]
        /\ UNCHANGED <<slot, head, tail, count, lock, put, taken>>
    BY <1>3 DEF RecvFetch, LockInv, Critical, Threads, ring, history
  <2>2. \A t \in Threads : pc'[t] \in {"stored", "fetched"} => t = r
    BY <2>1, TypeInv' DEF LockInv, Critical
  <2>3. r \notin Senders /\ hand'[r] = slot[head]
    BY <2>1 DEF Threads
  <2> QED BY <2>1, <2>2, <2>3 DEF RingInv, InFlightInv, Threads
<1>4. ASSUME NEW r \in Receivers, RecvAdvance(r) PROVE RingInv'
  <2>1. /\ count > 0 /\ hand[r] = slot[head] /\ lock = r
        /\ head' = Wrap(head + 1) /\ count' = count - 1
        /\ taken' = Append(taken, slot[head]) /\ lock' = NoThread
        /\ UNCHANGED <<slot, tail, put>>
    BY <1>4, NextSlotIsWrap DEF RecvAdvance, RingInv, LockInv, Critical, Threads
  <2>2. tail' = Wrap(head' + count')
    BY <2>1 DEF RingInv, Wrap, Slots
  <2>3. \A t \in Threads : pc'[t] \notin {"stored", "fetched"}
    BY <2>1, TypeInv' DEF LockInv, Critical
  <2>4. InFlightInv'
    <3>1. /\ Len(taken') = Len(taken) + 1 /\ taken'[Len(taken) + 1] = slot[head]
          /\ \A i \in 1 .. Len(taken) : taken'[i] = taken[i]
      BY <2>1
    <3>2. put[Len(taken) + 1] = slot[head]
      BY <2>1 DEF RingInv, InFlightInv, Wrap, Slots
    <3>3. \A i \in 1 .. count' : Wrap(head' + i - 1) = Wrap(head + (i + 1) - 1)
      BY <2>1 DEF RingInv, Wrap, Slots
    <3>4. Len(put') = Len(taken') + count'
      <4>1. Len(put) = Len(taken) + count /\ count \in Nat /\ Len(taken) \in Nat
        BY DEF RingInv, InFlightInv
      <4> QED BY <2>1, <3>1, <4>1
    <3>5. \A i \in 1 .. Len(taken') : put'[i] = taken'[i]
      BY <2>1, <3>1, <3>2 DEF RingInv, InFlightInv
    <3>6. ASSUME NEW i \in 1 .. count'
          PROVE  put'[Len(taken') + i] = slot'[Wrap(head' + i - 1)]
      <4>1. i + 1 \in 1 .. count
        BY <2>1
      <4>2. put[Len(taken) + (i + 1)] = slot[Wrap(head + (i + 1) - 1)]
        BY <4>1 DEF RingInv, InFlightInv
      <4> QED BY <2>1, <3>1, <3>3, <4>2
    <3> QED BY <3>4, <3>5, <3>6 DEF InFlightInv
  <2> QED BY <2>1, <2>2, <2>3, <2>4 DEF RingInv, Threads
<1>5. CASE UNCHANGED vars
  BY <1>5, RingFrame DEF vars, ring, history
<1>6. ASSUME NEW t \in Threads,
             \/ SendCall(t) \/ Acquire(t) \/ SendWait(t) \/ RecvCall(t)
             \/ RecvWait(t) \/ RecvCopyAndFree(t)
      PROVE RingInv'
  BY <1>6, RingFrame DEF SendCall, Acquire, SendWait, RecvCall, RecvWait,
     RecvCopyAndFree, Sleep, Goto, ring, history
<1>7. ASSUME Spurious PROVE RingInv'
  BY <1>7, RingFrame DEF Spurious, SpuriousWake, Goto, ring, history, Threads
<1>8. ASSUME NEW t \in Threads, SendWake(t) \/ RecvWake(t) PROVE RingInv'
  BY <1>8, WakeStep, RingFrame DEF SendWake, RecvWake, ring, history
<1> QED
  BY <1>1, <1>2, <1>3, <1>4, <1>5, <1>6, <1>7, <1>8 DEF Next, Send, Recv, Threads

\* From the element-wise form to the sequences of the property.
LEMMA RingInvImpliesFifo ==
  ASSUME TypeInv, RingInv
  PROVE  RingHoldsInFlight
<1> USE DEF TypeInv, TypeOK
<1>1. \A i \in 1 .. count : /\ (head + i - 1) % Ring = Wrap(head + i - 1)
                            /\ Wrap(head + i - 1) \in Slots
  BY ModIsWrap, RoomType DEF RingInv, Slots
<1>2. InRing \in Seq(Blobs \cup {NoBlob}) /\ Len(InRing) = count
  <2>1. \A i \in 1 .. count : slot[(head + i - 1) % Ring] \in Blobs \cup {NoBlob}
    BY <1>1
  <2> QED BY <2>1 DEF InRing
<1>3. \A i \in 1 .. count : InRing[i] = put[Len(taken) + i]
  BY <1>1 DEF InRing, RingInv, InFlightInv
<1>4. Len(taken \o InRing) = Len(put)
  <2>1. Len(put) = Len(taken) + count
    BY DEF RingInv, InFlightInv
  <2>2. taken \in Seq(Blobs \cup {NoBlob})
    OBVIOUS
  <2>3. Len(taken \o InRing) = Len(taken) + Len(InRing)
    BY <1>2, <2>2, ConcatProperties
  <2> QED BY <1>2, <2>1, <2>3
<1>5. \A i \in 1 .. Len(put) : (taken \o InRing)[i] = put[i]
  BY <1>2, <1>3 DEF RingInv, InFlightInv
<1>6. taken \o InRing \in Seq(Blobs \cup {NoBlob}) /\ put \in Seq(Blobs \cup {NoBlob})
  BY <1>2
<1> QED BY <1>4, <1>5, <1>6, SeqEqual DEF RingHoldsInFlight

LEMMA RingInvHolds ==
  ASSUME Fits
  PROVE  Spec => [](TypeInv /\ CallsInv /\ RingInv)
<1>1. Init => RingInv
  BY RoomType DEF Init, RingInv, InFlightInv, Wrap, Threads
<1>2. TypeInv /\ TypeInv' /\ CallsInv /\ [Next]_vars => CallsInv'
  BY NextCallInv, NextCountInv DEF CallsInv
<1>3. TypeInv /\ TypeInv' /\ CallsInv /\ RingInv /\ [Next]_vars => RingInv'
  BY NextRingInv
<1> QED BY InitTypeInv, NextTypeInv, InitCallsInv, <1>1, <1>2, <1>3, PTL DEF Spec

\* A channel of any capacity from 1 is first-in first-out under any number of
\* threads: no send overwrites an unread message, no message is lost, repeated
\* or reordered.  So is the unbuffered one, as long as no more messages are sent
\* through it than the ring has slots: with one more a run loses a message.
THEOREM ChannelIsFifo ==
  ASSUME Fits
  PROVE  Spec => []RingHoldsInFlight
<1>1. TypeInv /\ RingInv => RingHoldsInFlight
  BY RingInvImpliesFifo
<1> QED BY RingInvHolds, <1>1, PTL

-----------------------------------------------------------------------------
(* The channel implements the bounded queue *)

\* What the queue of the refinement mapping is, slot by slot.
LEMMA InRingSlots ==
  ASSUME TypeInv, RingInv
  PROVE  /\ InRing = [i \in 1 .. count |-> slot[Wrap(head + i - 1)]]
         /\ InRing \in Seq(Blobs \cup {NoBlob}) /\ Len(InRing) = count
<1>1. \A i \in 1 .. count : /\ (head + i - 1) % Ring = Wrap(head + i - 1)
                            /\ Wrap(head + i - 1) \in Slots
  BY ModIsWrap, RoomType DEF RingInv, Slots, TypeInv, TypeOK
<1>2. InRing = [i \in 1 .. count |-> slot[Wrap(head + i - 1)]]
  BY <1>1 DEF InRing
<1>3. \A i \in 1 .. count : slot[Wrap(head + i - 1)] \in Blobs \cup {NoBlob}
  BY <1>1 DEF TypeInv, TypeOK
<1> QED BY <1>2, <1>3 DEF TypeInv, TypeOK

\* Only the two unlocking steps move the queue; storing into the free slot and
\* reading the oldest one do not.
LEMMA StepImplementsFifo ==
  ASSUME Cap > 0, TypeInv, TypeInv', CallsInv, RingInv, RingInv', [Next]_vars
  PROVE  [Fifo!FifoNext]_<<InRing, taken>>
<1> DEFINE Oldest(n) == [i \in 1 .. n |-> slot[Wrap(head + i - 1)]]
<1>0. /\ InRing = Oldest(count) /\ InRing \in Seq(Blobs \cup {NoBlob}) /\ Len(InRing) = count
      /\ count \in Nat /\ head \in Slots
  BY InRingSlots DEF TypeInv, TypeOK
<1>1. InRing' = [i \in 1 .. count' |-> slot'[Wrap(head' + i - 1)]]
  <2>1. ASSUME NEW i \in 1 .. count' PROVE (head' + i - 1) % Ring = Wrap(head' + i - 1)
    <3>1. head' \in 0 .. Ring - 1 /\ count' \in Nat /\ count' <= Ring
      BY RoomType DEF RingInv, Slots, TypeInv, TypeOK
    <3>2. \A h \in 0 .. Ring - 1, n \in 1 .. Ring : h + n - 1 \in 0 .. 2 * Ring - 1
      OBVIOUS
    <3>3. i \in 1 .. Ring
      BY <3>1
    <3>4. head' + i - 1 \in 0 .. 2 * Ring - 1
      BY <3>1, <3>2, <3>3
    <3> QED BY <3>4, ModIsWrap
  <2> QED BY <2>1 DEF InRing
<1>2. ASSUME NEW s \in Senders, SendAdvance(s) PROVE Fifo!Enqueue(hand[s]) /\ hand[s] \in Blobs
  <2>1. /\ count < Cap /\ slot[tail] = hand[s] /\ tail = Wrap(head + count) /\ count' = count + 1
        /\ UNCHANGED <<slot, head, taken>>
    BY <1>2, RoomType DEF SendAdvance, RingInv
  <2>2. hand[s] \in Blobs
    BY <1>2, NextBlobIsBlob DEF SendAdvance, HandInv, Sending, TypeInv, TypeOK, Threads
  <2>3. InRing' = Oldest(count + 1)
    BY <1>1, <2>1
  <2>4. \A i \in 1 .. count + 1 :
          Oldest(count + 1)[i] = IF i = count + 1 THEN hand[s] ELSE InRing[i]
    <3> SUFFICES ASSUME NEW i \in 1 .. count + 1
                 PROVE  slot[Wrap(head + i - 1)] = IF i = count + 1 THEN hand[s] ELSE InRing[i]
      OBVIOUS
    <3>1. CASE i = count + 1
      <4>1. head + i - 1 = head + count
        BY <1>0, <3>1 DEF Slots
      <4> QED BY <2>1, <3>1, <4>1
    <3>2. CASE i # count + 1
      <4>1. i \in 1 .. count
        BY <1>0, <3>2
      <4> QED BY <1>0, <3>2, <4>1
    <3> QED BY <3>1, <3>2
  <2>5. InRing' = Append(InRing, hand[s])
    <3>1. Append(InRing, hand[s]) = [i \in 1 .. count + 1 |-> IF i = count + 1 THEN hand[s] ELSE InRing[i]]
      BY <1>0, <2>2
    <3> QED BY <2>3, <2>4, <3>1
  <2> QED BY <1>0, <2>1, <2>2, <2>5 DEF Fifo!Enqueue
<1>3. ASSUME NEW r \in Receivers, RecvAdvance(r) PROVE Fifo!Dequeue
  <2>1. /\ count > 0 /\ hand[r] = slot[head] /\ head' = Wrap(head + 1) /\ count' = count - 1
        /\ taken' = Append(taken, hand[r]) /\ UNCHANGED slot
    BY <1>3, NextSlotIsWrap DEF RecvAdvance, RingInv, TypeInv, TypeOK
  <2>2. InRing # <<>> /\ Head(InRing) = slot[head]
    <3>1. 1 \in 1 .. count /\ Wrap(head + 1 - 1) = head
      BY <1>0, <2>1 DEF Wrap, Slots
    <3>2. InRing[1] = slot[head]
      BY <1>0, <3>1
    <3> QED BY <1>0, <2>1, <3>2
  <2>3. InRing' = [i \in 1 .. count - 1 |-> InRing[i + 1]]
    <3>1. \A i \in 1 .. count - 1 : i + 1 \in 1 .. count
                                  /\ Wrap(Wrap(head + 1) + i - 1) = Wrap(head + (i + 1) - 1)
      BY <1>0, <2>1, RoomType DEF RingInv, Wrap, Slots
    <3> QED BY <1>0, <1>1, <2>1, <3>1
  <2>4. Tail(InRing) = [i \in 1 .. count - 1 |-> InRing[i + 1]]
    BY <1>0, <2>1, <2>2
  <2> QED BY <2>1, <2>2, <2>3, <2>4 DEF Fifo!Dequeue
<1>4. ASSUME NEW s \in Senders, SendStore(s) PROVE UNCHANGED <<InRing, taken>>
  <2>1. /\ count < Ring /\ slot' = [slot EXCEPT ![tail] = hand[s]]
        /\ UNCHANGED <<head, count, taken>>
    <3>1. count < Room
      BY <1>4, StoreFindsRoom DEF Fits
    <3> QED BY <1>0, <1>4, <3>1, RoomType DEF SendStore, history
  <2>2. \A i \in 1 .. count : Wrap(head + i - 1) # tail /\ Wrap(head + i - 1) \in Slots
    BY <1>0, <2>1 DEF RingInv, Wrap, Slots
  <2> QED BY <1>0, <1>1, <2>1, <2>2 DEF TypeInv, TypeOK
<1>5. ASSUME UNCHANGED <<slot, head, count, taken>> PROVE UNCHANGED <<InRing, taken>>
  BY <1>0, <1>1, <1>5
<1>6. ASSUME NEW t \in Threads,
             \/ SendCall(t) \/ Acquire(t) \/ SendWait(t) \/ SendWake(t)
             \/ RecvCall(t) \/ RecvWait(t) \/ RecvFetch(t) \/ RecvWake(t) \/ RecvCopyAndFree(t)
             \/ \E cv \in {"not_full", "not_empty"} : SpuriousWake(t, cv)
      PROVE  UNCHANGED <<slot, head, count, taken>>
  BY <1>6 DEF SendCall, Acquire, SendWait, SendWake, RecvCall, RecvWait, RecvFetch, RecvWake,
     RecvCopyAndFree, SpuriousWake, Sleep, ring, history
<1>7. UNCHANGED vars => UNCHANGED <<slot, head, count, taken>>
  BY DEF vars, ring, history
<1> QED
  BY <1>2, <1>3, <1>4, <1>5, <1>6, <1>7 DEF Next, Send, Recv, Spurious, Threads, Fifo!FifoNext

\* The channel is the queue that Oxide's documentation promises: every step of
\* it is one of the queue or leaves the queue alone, for every capacity from 1.
THEOREM BoundedChannelImplementsFifo ==
  ASSUME Cap > 0
  PROVE  Spec => ImplementsFifo
<1>0. Fits
  BY DEF Fits
<1>1. Init => Fifo!FifoInit
  BY DEF Init, InRing, Fifo!FifoInit
<1>2. TypeInv /\ TypeInv' /\ CallsInv /\ RingInv /\ RingInv' /\ [Next]_vars => [Fifo!FifoNext]_<<InRing, taken>>
  BY StepImplementsFifo
<1> QED BY <1>0, RingInvHolds, <1>1, <1>2, PTL DEF Spec, ImplementsFifo, Fifo!FifoSpec

(***************************************************************************)
(* No wakeup is lost: the counting argument.                               *)
(***************************************************************************)
Conditions == {"not_full", "not_empty"}

\* Who waits on a condition, who announces it, and what there is to wait for:
\* free slots for senders, messages for receivers.
Side(cv)  == IF cv = "not_full" THEN Senders ELSE Receivers
Other(cv) == IF cv = "not_full" THEN Receivers ELSE Senders
Work(cv)  == IF cv = "not_full" THEN Cap - count ELSE count

AwakeAt == {"entry", "locked", "stored", "fetched"}
Announcing(cv) == {t \in Other(cv) : pc[t] = "waking"}
Awake(cv)      == {t \in Side(cv) : pc[t] \in AwakeAt}

\* Work that nobody awake will find and nobody will announce means no sleeper.
Served(cv) ==
  sleepers[cv] # {} =>
    Work(cv) <= Cardinality(Announcing(cv)) + Cardinality(Awake(cv))

-----------------------------------------------------------------------------
(* Sets of threads *)

LEMMA ThreadSets ==
  ASSUME NEW S \in SUBSET Threads
  PROVE  IsFiniteSet(S) /\ Cardinality(S) \in Nat
<1>1. IsFiniteSet(Threads)
  BY FS_Union DEF Threads
<1> QED BY <1>1, FS_Subset, FS_CardinalityType

LEMMA MoreThreads ==
  ASSUME NEW S \in SUBSET Threads, NEW T \in SUBSET Threads, S \subseteq T
  PROVE  Cardinality(S) <= Cardinality(T)
<1>1. IsFiniteSet(T)
  BY ThreadSets
<1> QED BY <1>1, FS_Subset

LEMMA OneThreadMore ==
  ASSUME NEW S \in SUBSET Threads, NEW T \in SUBSET Threads,
         NEW t \in Threads, t \notin S, S \cup {t} \subseteq T
  PROVE  Cardinality(S) + 1 <= Cardinality(T)
<1>1. IsFiniteSet(S) /\ S \cup {t} \in SUBSET Threads
  BY ThreadSets
<1>2. Cardinality(S \cup {t}) = Cardinality(S) + 1
  BY <1>1, FS_AddElement
<1> QED BY <1>1, <1>2, MoreThreads

LEMMA OneThreadLess ==
  ASSUME NEW S \in SUBSET Threads, NEW T \in SUBSET Threads,
         NEW t \in Threads, S \ {t} \subseteq T
  PROVE  Cardinality(S) - 1 <= Cardinality(T)
<1>1. IsFiniteSet(S) /\ S \ {t} \in SUBSET Threads /\ Cardinality(S) \in Nat
  BY ThreadSets
<1>2. Cardinality(S) - 1 <= Cardinality(S \ {t})
  <2>1. Cardinality(S \ {t}) = IF t \in S THEN Cardinality(S) - 1 ELSE Cardinality(S)
    BY <1>1, FS_RemoveElement
  <2> QED BY <1>1, <2>1
<1>3. Cardinality(S \ {t}) <= Cardinality(T) /\ Cardinality(S \ {t}) \in Nat /\ Cardinality(T) \in Nat
  BY <1>1, MoreThreads, ThreadSets
<1> QED BY <1>1, <1>2, <1>3

-----------------------------------------------------------------------------
(* The four ways a step can move a condition *)

\* Nobody leaves the awake or the announcing, and there is no new work.
LEMMA QuietStep ==
  ASSUME TypeInv, TypeInv', NEW cv \in Conditions, Served(cv), count' = count,
         sleepers'[cv] # {} => sleepers[cv] # {},
         \A t \in Side(cv) : pc[t] \in AwakeAt => pc'[t] \in AwakeAt,
         \A t \in Other(cv) : pc[t] = "waking" => pc'[t] = "waking"
  PROVE  Served(cv)'
<1>1. /\ Announcing(cv) \in SUBSET Threads /\ Awake(cv) \in SUBSET Threads
      /\ Announcing(cv)' \in SUBSET Threads /\ Awake(cv)' \in SUBSET Threads
  BY DEF Conditions, Announcing, Awake, Side, Other, Threads
<1>2. Announcing(cv) \subseteq Announcing(cv)' /\ Awake(cv) \subseteq Awake(cv)'
  BY DEF Announcing, Awake
<1>3. /\ Cardinality(Announcing(cv)) <= Cardinality(Announcing(cv)')
      /\ Cardinality(Awake(cv)) <= Cardinality(Awake(cv)')
  BY <1>1, <1>2, MoreThreads
<1>4. /\ Cardinality(Announcing(cv)) \in Nat /\ Cardinality(Announcing(cv)') \in Nat
      /\ Cardinality(Awake(cv)) \in Nat /\ Cardinality(Awake(cv)') \in Nat
  BY <1>1, ThreadSets
<1>5. Work(cv) \in Int /\ Work(cv)' = Work(cv)
  BY DEF Work, TypeInv, TypeOK
<1> QED BY <1>3, <1>4, <1>5 DEF Served

\* A thread that goes to sleep found no work.
LEMMA SleepStep ==
  ASSUME TypeInv', NEW cv \in Conditions, Work(cv)' <= 0
  PROVE  Served(cv)'
<1>1. Announcing(cv)' \in SUBSET Threads /\ Awake(cv)' \in SUBSET Threads
  BY DEF Conditions, Announcing, Awake, Side, Other, Threads
<1>2. Cardinality(Announcing(cv)') \in Nat /\ Cardinality(Awake(cv)') \in Nat
  BY <1>1, ThreadSets
<1>3. Work(cv)' \in Int
  BY DEF Work, TypeInv, TypeOK
<1> QED BY <1>2, <1>3 DEF Served

\* A thread of the side takes one piece of work and is awake no more.
LEMMA TakeStep ==
  ASSUME TypeInv, TypeInv', NEW cv \in Conditions, Served(cv), NEW t \in Side(cv),
         sleepers' = sleepers, pc' = [pc EXCEPT ![t] = "waking"],
         Work(cv)' = Work(cv) - 1
  PROVE  Served(cv)'
<1>0. t \in Threads /\ t \notin Other(cv)
  BY DEF Conditions, Side, Other, Threads
<1>1. /\ Announcing(cv) \in SUBSET Threads /\ Awake(cv) \in SUBSET Threads
      /\ Announcing(cv)' \in SUBSET Threads /\ Awake(cv)' \in SUBSET Threads
  BY DEF Conditions, Announcing, Awake, Side, Other, Threads
<1>2. Announcing(cv) \subseteq Announcing(cv)' /\ Awake(cv) \ {t} \subseteq Awake(cv)'
  BY <1>0 DEF Announcing, Awake, TypeInv, TypeOK, Conditions, Side, Other, Threads
<1>3. /\ Cardinality(Announcing(cv)) <= Cardinality(Announcing(cv)')
      /\ Cardinality(Awake(cv)) - 1 <= Cardinality(Awake(cv)')
  BY <1>0, <1>1, <1>2, MoreThreads, OneThreadLess
<1>4. /\ Cardinality(Announcing(cv)) \in Nat /\ Cardinality(Announcing(cv)') \in Nat
      /\ Cardinality(Awake(cv)) \in Nat /\ Cardinality(Awake(cv)') \in Nat
  BY <1>1, ThreadSets
<1>5. Work(cv) \in Int
  BY DEF Work, TypeInv, TypeOK
<1> QED BY <1>3, <1>4, <1>5 DEF Served

\* A thread of the other side makes one piece of work and has yet to say so.
LEMMA MakeStep ==
  ASSUME TypeInv, TypeInv', NEW cv \in Conditions, Served(cv), NEW t \in Other(cv),
         pc[t] # "waking", sleepers' = sleepers, pc' = [pc EXCEPT ![t] = "waking"],
         Work(cv)' = Work(cv) + 1
  PROVE  Served(cv)'
<1>0. t \in Threads /\ t \notin Side(cv)
  BY DEF Conditions, Side, Other, Threads
<1>1. /\ Announcing(cv) \in SUBSET Threads /\ Awake(cv) \in SUBSET Threads
      /\ Announcing(cv)' \in SUBSET Threads /\ Awake(cv)' \in SUBSET Threads
  BY DEF Conditions, Announcing, Awake, Side, Other, Threads
<1>2. /\ t \notin Announcing(cv) /\ Announcing(cv) \cup {t} \subseteq Announcing(cv)'
      /\ Awake(cv) \subseteq Awake(cv)'
  BY <1>0 DEF Announcing, Awake, TypeInv, TypeOK, Conditions, Side, Other, Threads
<1>3. /\ Cardinality(Announcing(cv)) + 1 <= Cardinality(Announcing(cv)')
      /\ Cardinality(Awake(cv)) <= Cardinality(Awake(cv)')
  BY <1>0, <1>1, <1>2, MoreThreads, OneThreadMore
<1>4. /\ Cardinality(Announcing(cv)) \in Nat /\ Cardinality(Announcing(cv)') \in Nat
      /\ Cardinality(Awake(cv)) \in Nat /\ Cardinality(Awake(cv)') \in Nat
  BY <1>1, ThreadSets
<1>5. Work(cv) \in Int
  BY DEF Work, TypeInv, TypeOK
<1> QED BY <1>3, <1>4, <1>5 DEF Served

\* The announcement: one sleeper of the side takes the announcer's place in
\* the count, or there is no sleeper.
LEMMA AnnounceStep ==
  ASSUME TypeInv, TypeInv', NEW cv \in Conditions, Served(cv), NEW t \in Other(cv),
         NEW next \in {"idle", "copying"}, count' = count, Wake(t, cv, next)
  PROVE  Served(cv)'
<1>1. CASE sleepers[cv] = {}
  BY <1>1 DEF Wake, NoSignal, Served
<1>2. CASE sleepers[cv] # {}
  <2>1. PICK u \in sleepers[cv] : pc' = [pc EXCEPT ![t] = next, ![u] = "entry"]
    BY <1>2 DEF Wake, Signal
  <2>2. /\ t \in Threads /\ t \notin Side(cv)
        /\ u \in Threads /\ u \in Side(cv) /\ u \notin Other(cv) /\ pc[u] = "asleep"
    BY DEF Conditions, Side, Other, Threads, TypeInv, SleepInv
  <2>3. /\ Announcing(cv) \in SUBSET Threads /\ Awake(cv) \in SUBSET Threads
        /\ Announcing(cv)' \in SUBSET Threads /\ Awake(cv)' \in SUBSET Threads
    BY DEF Conditions, Announcing, Awake, Side, Other, Threads
  <2>4. /\ Announcing(cv) \ {t} \subseteq Announcing(cv)'
        /\ u \notin Awake(cv) /\ Awake(cv) \cup {u} \subseteq Awake(cv)'
    <3>1. /\ t # u /\ pc'[t] = next /\ pc'[u] = "entry"
          /\ \A v \in Threads \ {t, u} : pc'[v] = pc[v]
      BY <2>1, <2>2 DEF TypeInv, TypeOK
    <3>2. /\ \A v \in Other(cv) : v \in Threads /\ v # u
          /\ \A v \in Side(cv) : v \in Threads /\ v # t
      BY <2>2 DEF Side, Other, Threads
    <3>3. Announcing(cv) \ {t} \subseteq Announcing(cv)'
      BY <3>1, <3>2 DEF Announcing, Side, Other
    <3>4. u \notin Awake(cv) /\ u \in Awake(cv)'
      BY <2>2, <3>1 DEF Awake, AwakeAt, Side
    <3>5. Awake(cv) \subseteq Awake(cv)'
      BY <3>1, <3>2, <3>4 DEF Awake, Side
    <3> QED BY <3>3, <3>4, <3>5
  <2>5. /\ Cardinality(Announcing(cv)) - 1 <= Cardinality(Announcing(cv)')
        /\ Cardinality(Awake(cv)) + 1 <= Cardinality(Awake(cv)')
    BY <2>2, <2>3, <2>4, OneThreadMore, OneThreadLess
  <2>6. /\ Cardinality(Announcing(cv)) \in Nat /\ Cardinality(Announcing(cv)') \in Nat
        /\ Cardinality(Awake(cv)) \in Nat /\ Cardinality(Awake(cv)') \in Nat
    BY <2>3, ThreadSets
  <2>7. Work(cv) \in Int /\ Work(cv)' = Work(cv)
    BY DEF Work, TypeInv, TypeOK
  <2> QED BY <1>2, <2>5, <2>6, <2>7 DEF Served
<1> QED BY <1>1, <1>2

-----------------------------------------------------------------------------
(* No wakeup is lost *)

BothServed == Served("not_full") /\ Served("not_empty")

LEMMA NextServed ==
  ASSUME TypeInv, TypeInv', BothServed, [Next]_vars
  PROVE  BothServed'
<1> USE DEF BothServed, Conditions, Side, Other, AwakeAt
<1>0. \A t \in Threads, place \in Places :
        pc' = [pc EXCEPT ![t] = place] =>
          pc'[t] = place /\ \A u \in Threads \ {t} : pc'[u] = pc[u]
  BY DEF TypeInv, TypeOK
<1>1. CASE UNCHANGED vars
  BY <1>1, QuietStep DEF vars, ring
<1>2. ASSUME NEW t \in Threads, SendCall(t) \/ RecvCall(t) \/ Acquire(t) \/ RecvCopyAndFree(t)
      PROVE  BothServed'
  <2>1. /\ count' = count /\ sleepers' = sleepers
        /\ pc[t] \in {"idle", "entry", "copying"}
        /\ \/ pc' = [pc EXCEPT ![t] = "entry"]
           \/ pc[t] = "entry" /\ pc' = [pc EXCEPT ![t] = "locked"]
           \/ pc[t] = "copying" /\ pc' = [pc EXCEPT ![t] = "idle"]
    BY <1>2 DEF SendCall, RecvCall, Acquire, RecvCopyAndFree, Goto, ring
  <2>2. \A u \in Threads : /\ pc[u] \in AwakeAt => pc'[u] \in AwakeAt
                           /\ pc[u] = "waking" => pc'[u] = "waking"
    BY <1>0, <2>1 DEF Places
  <2> QED BY <2>1, <2>2, QuietStep DEF Threads
<1>3. ASSUME NEW t \in Threads, SendStore(t) \/ RecvFetch(t) PROVE BothServed'
  <2>1. /\ count' = count /\ sleepers' = sleepers /\ pc[t] = "locked"
        /\ pc' = [pc EXCEPT ![t] = "stored"] \/ pc' = [pc EXCEPT ![t] = "fetched"]
    BY <1>3 DEF SendStore, RecvFetch, Goto, ring
  <2>2. \A u \in Threads : /\ pc[u] \in AwakeAt => pc'[u] \in AwakeAt
                           /\ pc[u] = "waking" => pc'[u] = "waking"
    BY <1>0, <2>1 DEF Places
  <2> QED BY <2>1, <2>2, QuietStep DEF Threads
<1>4. ASSUME NEW s \in Senders, SendWait(s) PROVE BothServed'
  <2>1. /\ pc[s] = "locked" /\ count = Cap /\ count' = count /\ s \in Threads /\ s \notin Receivers
        /\ pc' = [pc EXCEPT ![s] = "asleep"]
        /\ sleepers'["not_empty"] = sleepers["not_empty"]
    BY <1>4 DEF SendWait, SendMustWait, Sleep, Goto, ring, Threads, TypeInv, TypeOK
  <2>2. Served("not_full")'
    BY <2>1, SleepStep DEF Work, TypeInv, TypeOK
  <2>3. \A u \in Threads \ {s} : pc'[u] = pc[u]
    BY <2>1
  <2>4. Served("not_empty")'
    BY <2>1, <2>3, QuietStep DEF Threads
  <2> QED BY <2>2, <2>4
<1>5. ASSUME NEW r \in Receivers, RecvWait(r) PROVE BothServed'
  <2>1. /\ pc[r] = "locked" /\ count = 0 /\ count' = count /\ r \in Threads /\ r \notin Senders
        /\ pc' = [pc EXCEPT ![r] = "asleep"]
        /\ sleepers'["not_full"] = sleepers["not_full"]
    BY <1>5 DEF RecvWait, Sleep, Goto, ring, Threads, TypeInv, TypeOK
  <2>2. Served("not_empty")'
    BY <2>1, SleepStep DEF Work
  <2>3. \A u \in Threads \ {r} : pc'[u] = pc[u]
    BY <2>1
  <2>4. Served("not_full")'
    BY <2>1, <2>3, QuietStep DEF Threads
  <2> QED BY <2>2, <2>4
<1>6. ASSUME NEW s \in Senders, SendAdvance(s) PROVE BothServed'
  <2>1. /\ pc[s] = "stored" /\ count' = count + 1 /\ sleepers' = sleepers
        /\ pc' = [pc EXCEPT ![s] = "waking"]
    BY <1>6 DEF SendAdvance, Goto
  <2>2. Work("not_full")' = Work("not_full") - 1 /\ Work("not_empty")' = Work("not_empty") + 1
    BY <2>1 DEF Work, TypeInv, TypeOK
  <2> QED BY <2>1, <2>2, TakeStep, MakeStep
<1>7. ASSUME NEW r \in Receivers, RecvAdvance(r) PROVE BothServed'
  <2>1. /\ pc[r] = "fetched" /\ count' = count - 1 /\ sleepers' = sleepers
        /\ pc' = [pc EXCEPT ![r] = "waking"]
    BY <1>7 DEF RecvAdvance, Goto
  <2>2. Work("not_full")' = Work("not_full") + 1 /\ Work("not_empty")' = Work("not_empty") - 1
    BY <2>1 DEF Work, TypeInv, TypeOK
  <2> QED BY <2>1, <2>2, TakeStep, MakeStep
<1>8. ASSUME NEW s \in Senders, SendWake(s) PROVE BothServed'
  <2>1. pc[s] = "waking" /\ Wake(s, "not_empty", "idle") /\ count' = count
    BY <1>8 DEF SendWake, ring
  <2>2. Served("not_empty")'
    BY <2>1, AnnounceStep
  <2>3. /\ \A u \in Threads \ {s} : pc'[u] = pc[u] \/ (pc[u] = "asleep" /\ pc'[u] = "entry")
        /\ sleepers'["not_full"] \subseteq sleepers["not_full"]
    BY <2>1, WakeStep DEF Threads
  <2>4. Served("not_full")'
    BY <2>1, <2>3, QuietStep DEF Threads
  <2> QED BY <2>2, <2>4
<1>9. ASSUME NEW r \in Receivers, RecvWake(r) PROVE BothServed'
  <2>1. pc[r] = "waking" /\ Wake(r, "not_full", "copying") /\ count' = count
    BY <1>9 DEF RecvWake, ring
  <2>2. Served("not_full")'
    BY <2>1, AnnounceStep
  <2>3. /\ \A u \in Threads \ {r} : pc'[u] = pc[u] \/ (pc[u] = "asleep" /\ pc'[u] = "entry")
        /\ sleepers'["not_empty"] \subseteq sleepers["not_empty"]
    BY <2>1, WakeStep DEF Threads
  <2>4. Served("not_empty")'
    BY <2>1, <2>3, QuietStep DEF Threads
  <2> QED BY <2>2, <2>4
<1>10. ASSUME Spurious PROVE BothServed'
  <2>1. PICK t \in Threads, cv \in Conditions : SpuriousWake(t, cv)
    BY <1>10 DEF Spurious, Threads
  <2>2. /\ count' = count /\ pc[t] = "asleep" /\ pc' = [pc EXCEPT ![t] = "entry"]
        /\ \A c \in Conditions : sleepers'[c] \subseteq sleepers[c]
    BY <2>1 DEF SpuriousWake, Goto, ring, TypeInv, TypeOK, SleepInv
  <2>3. \A u \in Threads : /\ pc[u] \in AwakeAt => pc'[u] \in AwakeAt
                           /\ pc[u] = "waking" => pc'[u] = "waking"
    BY <1>0, <2>2 DEF Places
  <2> QED BY <2>2, <2>3, QuietStep DEF Threads
<1> QED
  BY <1>1, <1>2, <1>3, <1>4, <1>5, <1>6, <1>7, <1>8, <1>9, <1>10 DEF Next, Send, Recv, Threads

LEMMA ServedHolds == Spec => [](TypeInv /\ BothServed)
<1>1. Init => BothServed
  BY DEF Init, BothServed, Served
<1> QED BY InitTypeInv, NextTypeInv, NextServed, <1>1, PTL DEF Spec

\* No receiver sleeps through a message, for any number of threads, calls and
\* slots, whichever sleeper a signal wakes and however often one wakes unasked.
THEOREM NoReceiverIsStranded == Spec => []NoStrandedReceiver
<1>1. TypeInv /\ BothServed => NoStrandedReceiver
  <2> SUFFICES ASSUME TypeInv, BothServed PROVE NoStrandedReceiver
    OBVIOUS
  <2>1. /\ Announcing("not_empty") = {s \in Senders : pc[s] = "waking"}
        /\ Awake("not_empty") = {r \in Receivers : pc[r] \in {"entry", "locked", "fetched"}}
    BY DEF Announcing, Awake, Side, Other, AwakeAt, TypeInv, SideInv
  <2> QED BY <2>1 DEF BothServed, Served, Work, NoStrandedReceiver
<1> QED BY ServedHolds, <1>1, PTL

\* No sender sleeps past a free slot.
THEOREM NoSenderIsStranded == Spec => []NoStrandedSender
<1>1. TypeInv /\ BothServed => NoStrandedSender
  <2> SUFFICES ASSUME TypeInv, BothServed PROVE NoStrandedSender
    OBVIOUS
  <2>1. /\ Announcing("not_full") = {r \in Receivers : pc[r] = "waking"}
        /\ Awake("not_full") = {s \in Senders : pc[s] \in {"entry", "locked", "stored"}}
    BY DEF Announcing, Awake, Side, Other, AwakeAt, TypeInv, SideInv
  <2> QED BY <2>1 DEF BothServed, Served, Work, NoStrandedSender
<1> QED BY ServedHolds, <1>1, PTL

-----------------------------------------------------------------------------
(* Deadlock *)

\* A thread that can take a step of its own, by the guards of Channel's actions.
Runnable(t) ==
  \/ pc[t] = "idle" /\ done[t] < Calls[t]
  \/ pc[t] = "entry" /\ lock = NoThread
  \/ pc[t] \in {"locked", "stored", "fetched", "waking", "copying"}

\* Nobody can: nothing but an unasked wakeup could go on.
Quiet == \A t \in Threads : ~Runnable(t)

\* Every call of a side has returned.
AllReturned(T) == \A t \in T : pc[t] = "idle" /\ done[t] = Calls[t]

QuietMeansFinished ==
  Quiet => /\ Sends <= Receives + Room => AllReturned(Senders)
           /\ Receives <= Sends => AllReturned(Receivers)

\* The holder of the lock can go on, so in a quiet state nobody waits for it.
LEMMA QuietThreads ==
  ASSUME TypeInv, CallInv, Quiet, NEW t \in Threads
  PROVE  /\ (pc[t] = "asleep" /\ done[t] < Calls[t]) \/ (pc[t] = "idle" /\ done[t] = Calls[t])
         /\ passed[t] = done[t]
<1>1. lock = NoThread
  <2> SUFFICES ASSUME lock # NoThread PROVE FALSE
    OBVIOUS
  <2>1. lock \in Threads /\ pc[lock] \in Critical
    BY DEF TypeInv, TypeOK, LockInv
  <2> QED BY <2>1 DEF Quiet, Runnable, Critical
<1>2. pc[t] \in {"asleep", "idle"} /\ (pc[t] = "idle" => ~(done[t] < Calls[t]))
  BY <1>1 DEF Quiet, Runnable, TypeInv, TypeOK, Places
<1>3. done[t] \in Nat /\ Calls[t] \in Nat /\ done[t] <= Calls[t] /\ (pc[t] # "idle" => done[t] < Calls[t])
  BY DEF TypeInv, TypeOK, CallInv
<1>4. passed[t] = done[t]
  BY <1>2, PassedIsBounded
<1> QED BY <1>2, <1>3, <1>4

\* With nobody awake, a side sleeps only where there is nothing for it.
LEMMA QuietSleepers ==
  ASSUME TypeInv, CallInv, RingInv, BothServed, Quiet
  PROVE  /\ \A s \in Senders : pc[s] = "asleep" => Cap > 0 /\ count = Cap
         /\ \A r \in Receivers : pc[r] = "asleep" => count = 0
<1>1. \A t \in Threads : pc[t] \in {"asleep", "idle"}
  BY QuietThreads
<1>2. \A cv \in {"not_full", "not_empty"} : Announcing(cv) = {} /\ Awake(cv) = {}
  BY <1>1 DEF Announcing, Awake, Side, Other, AwakeAt, Threads
<1>3. \A cv \in {"not_full", "not_empty"} : sleepers[cv] # {} => Work(cv) <= 0
  BY <1>2, FS_EmptySet DEF BothServed, Served
<1>4. count \in Nat /\ count <= Room
  BY DEF TypeInv, TypeOK, RingInv
<1>5. ASSUME NEW s \in Senders, pc[s] = "asleep" PROVE Cap > 0 /\ count = Cap
  <2>1. Cap > 0 /\ sleepers["not_full"] # {}
    BY <1>5 DEF CallInv
  <2>2. Cap - count <= 0
    BY <1>3, <2>1 DEF Work
  <2> QED BY <1>4, <2>1, <2>2, RoomType
<1>6. ASSUME NEW r \in Receivers, pc[r] = "asleep" PROVE count = 0
  <2>1. sleepers["not_empty"] # {}
    BY <1>6 DEF CallInv
  <2>2. count <= 0
    BY <1>3, <2>1 DEF Work
  <2> QED BY <1>4, <2>2
<1> QED BY <1>5, <1>6

\* What a side has moved in a quiet state, all of its messages or fewer.
LEMMA QuietCounts ==
  ASSUME TypeInv, CallInv, Quiet, NEW T \in SUBSET Threads
  PROVE  /\ AllReturned(T) => Cardinality(Moved(T, passed)) = Cardinality(Moved(T, Calls))
         /\ ~AllReturned(T) => /\ Cardinality(Moved(T, passed)) < Cardinality(Moved(T, Calls))
                               /\ \E t \in T : pc[t] = "asleep"
<1>1. passed \in [Threads -> Nat] /\ Calls \in [Threads -> Nat]
  BY PassedType
<1>2. ASSUME AllReturned(T) PROVE Cardinality(Moved(T, passed)) = Cardinality(Moved(T, Calls))
  <2>1. \A t \in T : passed[t] = Calls[t]
    BY <1>2, QuietThreads DEF AllReturned
  <2> QED BY <2>1, MovedSame
<1>3. ASSUME ~AllReturned(T)
      PROVE  /\ Cardinality(Moved(T, passed)) < Cardinality(Moved(T, Calls))
             /\ \E t \in T : pc[t] = "asleep"
  <2>1. PICK t \in T : ~(pc[t] = "idle" /\ done[t] = Calls[t])
    BY <1>3 DEF AllReturned
  <2>2. pc[t] = "asleep" /\ passed[t] < Calls[t]
    BY <2>1, QuietThreads
  <2>3. \A u \in T : passed[u] <= Calls[u]
    BY PassedIsBounded
  <2>4. Cardinality(Moved(T, passed)) < Cardinality(Moved(T, Calls))
    BY <1>1, <2>2, <2>3, MovedLess
  <2> QED BY <2>2, <2>4
<1> QED BY <1>2, <1>3

\* The threads of a channel never wait on one another: where nobody can go on,
\* every send has returned unless there are more of them than the receives and
\* the room can take, and every receive has unless there are more than sends.
\* This is the safety half of AllCallsReturn, for any threads and calls.
THEOREM NobodyDeadlocks ==
  ASSUME Fits
  PROVE  Spec => []QuietMeansFinished
<1>1. TypeInv /\ CallsInv /\ RingInv /\ BothServed => QuietMeansFinished
  <2> SUFFICES ASSUME TypeInv, CallsInv, RingInv, BothServed, Quiet
               PROVE  /\ Sends <= Receives + Room => AllReturned(Senders)
                      /\ Receives <= Sends => AllReturned(Receivers)
    BY DEF QuietMeansFinished
  <2> DEFINE sent == Cardinality(Moved(Senders, passed))  got == Cardinality(Moved(Receivers, passed))
  <2>1. CallInv /\ Senders \in SUBSET Threads /\ Receivers \in SUBSET Threads
    BY DEF CallsInv, Threads
  <2>2. sent = got + count /\ sent \in Nat /\ got \in Nat /\ count \in Nat
    BY DEF CallsInv, CountInv, RingInv, InFlightInv, TypeInv, TypeOK
  <2>3. Sends \in Nat /\ Receives \in Nat /\ Room \in Nat
    BY <2>1, MovedFinite, RoomType DEF Sends, Receives
  <2>4. /\ AllReturned(Senders) => sent = Sends
        /\ ~AllReturned(Senders) => sent < Sends /\ Cap > 0 /\ count = Room
    BY <2>1, QuietCounts, QuietSleepers, RoomType DEF Sends
  <2>5. /\ AllReturned(Receivers) => got = Receives
        /\ ~AllReturned(Receivers) => got < Receives /\ count = 0
    BY <2>1, QuietCounts, QuietSleepers DEF Receives
  <2>6. Room > 0
    BY RoomType
  <2> HIDE DEF sent, got
  <2>7. ASSUME ~AllReturned(Senders) PROVE Sends > Receives + Room
    BY <2>2, <2>3, <2>4, <2>5, <2>6, <2>7
  <2>8. ASSUME ~AllReturned(Receivers) PROVE Receives > Sends
    BY <2>2, <2>3, <2>4, <2>5, <2>6, <2>8
  <2> QED BY <2>3, <2>7, <2>8
<1> QED BY RingInvHolds, ServedHolds, <1>1, PTL

(***************************************************************************)
(* Every copy a sender allocates has one owner until the receiver that got *)
(* it frees it.                                                            *)
(***************************************************************************)
At(i) == slot[Wrap(head + i - 1)]

\* A receiver that has fetched but not advanced points at the ring's message.
Holds(t, b) == hand[t] = b /\ pc[t] # "fetched"

OwnersInv ==
  /\ \A b \in Blobs : \A t, u \in Threads : Holds(t, b) /\ Holds(u, b) => t = u
  /\ \A i, j \in 1 .. count : At(i) = At(j) => i = j
  /\ \A t \in Threads, i \in 1 .. count : ~Holds(t, At(i))
  /\ \A b \in Blobs : b \in heap <=> \/ \E t \in Threads : Holds(t, b)
                                    \/ \E i \in 1 .. count : At(i) = b

\* The copy of a call to come is not allocated yet.
FreshInv ==
  \A s \in Senders : \A k \in Nat :
    <<s, k>> \in heap => k <= done[s] \/ (k = done[s] + 1 /\ pc[s] # "idle")

\* A thread holds nothing outside the part of its call that owns a copy.
EmptyInv ==
  /\ \A s \in Senders : pc[s] \in {"idle", "waking"} => hand[s] = NoBlob
  /\ \A r \in Receivers : pc[r] \in {"idle", "entry", "locked", "asleep"} => hand[r] = NoBlob
  /\ \A r \in Receivers : pc[r] = "copying" => hand[r] \in Blobs
  /\ \A r \in Receivers : pc[r] = "waking" => hand[r] \in Blobs

OwnInv == OwnersInv /\ FreshInv /\ EmptyInv

-----------------------------------------------------------------------------
LEMMA RingHoldsBlobs ==
  ASSUME TypeInv, RingInv, NEW i \in 1 .. count
  PROVE  At(i) \in Blobs
<1>1. Len(taken) + i \in 1 .. Len(put)
  BY DEF RingInv, InFlightInv, TypeInv, TypeOK
<1>2. put[Len(taken) + i] \in Blobs
  BY <1>1 DEF TypeInv, TypeOK
<1> QED BY <1>2 DEF RingInv, InFlightInv, At

\* Nothing changes owner.
LEMMA OwnersFrame ==
  ASSUME TypeInv, RingInv, OwnersInv, count' = count, heap' = heap,
         \A i \in 1 .. count : At(i)' = At(i),
         \A t \in Threads, b \in Blobs : Holds(t, b)' <=> Holds(t, b)
  PROVE  OwnersInv'
<1>1. \A i \in 1 .. count : At(i) \in Blobs
  BY RingHoldsBlobs
<1> HIDE DEF At, Holds
<1>2. \A t \in Threads, i \in 1 .. count : Holds(t, At(i))' <=> Holds(t, At(i))
  BY <1>1 DEF Holds
<1> QED BY <1>1, <1>2 DEF OwnersInv

\* Steps that touch neither ring, hands nor heap and do not pass through "fetched".
LEMMA QuietFrame ==
  ASSUME TypeInv, RingInv, OwnersInv, UNCHANGED <<slot, head, count, hand, heap>>,
         \A t \in Threads : pc'[t] = "fetched" <=> pc[t] = "fetched"
  PROVE  OwnersInv'
BY OwnersFrame DEF At, Holds

LEMMA SendCallOwn ==
  ASSUME TypeInv, RingInv, OwnInv, NEW s \in Senders, SendCall(s)
  PROVE  OwnInv'
<1> DEFINE dup == <<s, done[s] + 1>>
<1>1. /\ pc[s] = "idle" /\ hand[s] = NoBlob /\ s \in Threads /\ s \notin Receivers
      /\ pc' = [pc EXCEPT ![s] = "entry"] /\ hand' = [hand EXCEPT ![s] = dup]
      /\ heap' = heap \cup {dup}
      /\ UNCHANGED <<slot, head, count, done>>
      /\ done[s] \in Nat /\ done[s] < Calls[s]
  BY DEF SendCall, Goto, ring, OwnInv, EmptyInv, Threads, TypeInv, TypeOK
<1>2. dup \in Blobs
  BY <1>1, NextBlobIsBlob
<1>3. dup \notin heap
  BY <1>1 DEF OwnInv, FreshInv
<1>4. OwnersInv'
  <2>1. \A i \in 1 .. count : At(i)' = At(i) /\ At(i) \in Blobs
    BY <1>1, RingHoldsBlobs DEF At
  <2>2. \A t \in Threads, b \in Blobs : Holds(t, b)' <=> Holds(t, b) \/ (t = s /\ b = dup)
    BY <1>1, <1>2 DEF Holds, TypeInv, TypeOK
  <2>3. /\ \A t \in Threads : ~Holds(t, dup)
        /\ \A i \in 1 .. count : At(i) # dup
    BY <1>2, <1>3 DEF OwnInv, OwnersInv
  <2>4. \A t \in Threads, i \in 1 .. count : Holds(t, At(i))' <=> Holds(t, At(i))
    BY <2>1, <2>2, <2>3 DEF Holds
  <2> HIDE DEF dup
  <2> QED BY <1>1, <1>2, <1>3, <2>1, <2>2, <2>3, <2>4 DEF OwnInv, OwnersInv
<1>5. FreshInv'
  <2> SUFFICES ASSUME NEW z \in Senders, NEW k \in Nat, <<z, k>> \in heap'
               PROVE  k <= done[z] \/ (k = done[z] + 1 /\ pc'[z] # "idle")
    BY <1>1 DEF FreshInv
  <2>1. CASE <<z, k>> \in heap
    BY <1>1, <2>1 DEF OwnInv, FreshInv, TypeInv, TypeOK, Threads
  <2>2. CASE <<z, k>> = dup
    BY <1>1, <2>2 DEF TypeInv, TypeOK
  <2> QED BY <1>1, <2>1, <2>2
<1>6. EmptyInv'
  BY <1>1 DEF OwnInv, EmptyInv, TypeInv, TypeOK, Threads
<1> QED BY <1>4, <1>5, <1>6 DEF OwnInv

LEMMA SendStoreOwn ==
  ASSUME Fits, TypeInv, CallsInv, RingInv, OwnInv, NEW s \in Senders, SendStore(s)
  PROVE  OwnInv'
<1>1. /\ count < Ring /\ slot' = [slot EXCEPT ![tail] = hand[s]]
      /\ pc[s] = "locked" /\ pc' = [pc EXCEPT ![s] = "stored"]
      /\ UNCHANGED <<head, count, hand, done, heap>> /\ s \notin Receivers
  <2>1. count < Room
    BY StoreFindsRoom
  <2>2. slot' = [slot EXCEPT ![tail] = hand[s]] /\ s \in Threads /\ s \notin Receivers
    BY DEF SendStore, Threads
  <2> QED BY <2>1, <2>2, RoomType DEF SendStore, Goto, RingInv, TypeInv, TypeOK
<1>2. \A i \in 1 .. count : At(i)' = At(i)
  <2>1. \A i \in 1 .. count : Wrap(head + i - 1) # tail /\ Wrap(head + i - 1) \in Slots
    BY <1>1 DEF RingInv, Wrap, Slots, TypeInv, TypeOK
  <2> QED BY <1>1, <2>1 DEF At, TypeInv, TypeOK
<1>3. OwnersInv'
  BY <1>1, <1>2, OwnersFrame DEF OwnInv, Holds, TypeInv, TypeOK
<1>4. FreshInv' /\ EmptyInv'
  BY <1>1 DEF OwnInv, FreshInv, EmptyInv, TypeInv, TypeOK, Threads
<1> QED BY <1>3, <1>4 DEF OwnInv

\* The ring takes the copy over from the sender.
LEMMA SendAdvanceOwn ==
  ASSUME TypeInv, RingInv, OwnInv, NEW s \in Senders, SendAdvance(s)
  PROVE  OwnInv'
<1>1. /\ slot[tail] = hand[s] /\ tail = Wrap(head + count) /\ count \in Nat
      /\ pc[s] = "stored" /\ pc' = [pc EXCEPT ![s] = "waking"]
      /\ hand' = [hand EXCEPT ![s] = NoBlob] /\ count' = count + 1
      /\ UNCHANGED <<slot, head, heap, done>> /\ s \in Threads /\ s \notin Receivers
  BY DEF SendAdvance, Goto, RingInv, Threads, TypeInv, TypeOK
<1>2. hand[s] \in Blobs
  BY <1>1, NextBlobIsBlob DEF HandInv, Sending, TypeInv, TypeOK, Threads
<1>3. OwnersInv'
  <2>0. PICK n \in Nat : n = count
    BY <1>1
  <2>1. /\ \A i \in 1 .. count : At(i)' = At(i) /\ At(i) \in Blobs
        /\ At(n + 1)' = hand[s]
        /\ \A i \in 1 .. n + 1 : i \in 1 .. n \/ i = n + 1
        /\ n + 1 \in 1 .. n + 1 /\ \A i \in 1 .. count : i \in 1 .. n + 1
    <3>1. head \in Int /\ head + (n + 1) - 1 = head + count
      BY <1>1, <2>0 DEF TypeInv, TypeOK, Slots
    <3> QED BY <1>1, <2>0, <3>1, RingHoldsBlobs DEF At
  <2>2. \A t \in Threads, b \in Blobs : Holds(t, b)' <=> Holds(t, b) /\ t # s
    BY <1>1 DEF Holds, TypeInv, TypeOK
  <2>3. Holds(s, hand[s])
    BY <1>1 DEF Holds
  <2>4. \A t \in Threads : Holds(t, hand[s]) => t = s
    BY <1>1, <1>2, <2>3 DEF OwnInv, OwnersInv
  <2>5. \A i \in 1 .. count : At(i) # hand[s]
    BY <1>1, <2>3 DEF OwnInv, OwnersInv
  <2>6. \A i, j \in 1 .. count' : At(i)' = At(j)' => i = j
    BY <1>1, <2>0, <2>1, <2>5 DEF OwnInv, OwnersInv
  <2>7. \A t \in Threads, i \in 1 .. count' : ~Holds(t, At(i))'
    <3> SUFFICES ASSUME NEW t \in Threads, NEW i \in 1 .. count' PROVE ~(hand'[t] = At(i)' /\ pc'[t] # "fetched")
      BY DEF Holds
    <3>1. CASE i = n + 1
      BY <1>1, <1>2, <2>0, <2>1, <2>4, <3>1 DEF Holds, TypeInv, TypeOK
    <3>2. CASE i \in 1 .. count
      BY <1>1, <2>0, <2>1, <3>2 DEF OwnInv, OwnersInv, Holds, TypeInv, TypeOK
    <3> QED BY <1>1, <2>0, <2>1, <3>1, <3>2
  <2>8. \A b \in Blobs : b \in heap' <=> \/ \E t \in Threads : Holds(t, b)'
                                         \/ \E i \in 1 .. count' : At(i)' = b
    <3> SUFFICES ASSUME NEW b \in Blobs
                 PROVE  b \in heap' <=> \/ \E t \in Threads : Holds(t, b)'
                                        \/ \E i \in 1 .. count' : At(i)' = b
      OBVIOUS
    <3>1. b \in heap <=> (\E t \in Threads : Holds(t, b)) \/ (\E i \in 1 .. count : At(i) = b)
      BY DEF OwnInv, OwnersInv
    <3>2. (\E i \in 1 .. count' : At(i)' = b) <=> b = hand[s] \/ (\E i \in 1 .. count : At(i) = b)
      BY <1>1, <2>0, <2>1
    <3>3. (\E t \in Threads : Holds(t, b)') \/ b = hand[s] <=> (\E t \in Threads : Holds(t, b))
      <4>1. Holds(s, b) => b = hand[s]
        BY DEF Holds
      <4> QED BY <1>1, <2>2, <2>3, <2>4, <4>1
    <3> QED BY <1>1, <3>1, <3>2, <3>3
  <2>9. \A b \in Blobs : \A t, u \in Threads : Holds(t, b)' /\ Holds(u, b)' => t = u
    BY <2>2 DEF OwnInv, OwnersInv
  <2> QED BY <2>6, <2>7, <2>8, <2>9 DEF OwnersInv
<1>4. FreshInv' /\ EmptyInv'
  BY <1>1 DEF OwnInv, FreshInv, EmptyInv, TypeInv, TypeOK, Threads
<1> QED BY <1>3, <1>4 DEF OwnInv

LEMMA RecvFetchOwn ==
  ASSUME TypeInv, RingInv, OwnInv, NEW r \in Receivers, RecvFetch(r)
  PROVE  OwnInv'
<1>1. /\ pc[r] = "locked" /\ hand[r] = NoBlob /\ r \in Threads /\ r \notin Senders
      /\ pc' = [pc EXCEPT ![r] = "fetched"] /\ hand' = [hand EXCEPT ![r] = slot[head]]
      /\ UNCHANGED <<slot, head, count, heap, done>>
  BY DEF RecvFetch, Goto, ring, OwnInv, EmptyInv, Threads
<1>2. \A t \in Threads, b \in Blobs : Holds(t, b)' <=> Holds(t, b)
  BY <1>1 DEF Holds, TypeInv, TypeOK
<1>3. OwnersInv'
  BY <1>1, <1>2, OwnersFrame DEF OwnInv, At
<1>4. FreshInv' /\ EmptyInv'
  BY <1>1 DEF OwnInv, FreshInv, EmptyInv, TypeInv, TypeOK, Threads
<1> QED BY <1>3, <1>4 DEF OwnInv

\* The receiver takes the oldest copy over from the ring.
LEMMA RecvAdvanceOwn ==
  ASSUME TypeInv, RingInv, OwnInv, NEW r \in Receivers, RecvAdvance(r)
  PROVE  OwnInv'
<1>1. /\ hand[r] = slot[head] /\ head' = Wrap(head + 1) /\ count \in Nat /\ count > 0
      /\ pc[r] = "fetched" /\ pc' = [pc EXCEPT ![r] = "waking"] /\ count' = count - 1
      /\ UNCHANGED <<slot, hand, heap, done>> /\ r \in Threads /\ r \notin Senders
  BY NextSlotIsWrap DEF RecvAdvance, Goto, RingInv, Threads, TypeInv, TypeOK
<1>2. hand[r] = At(1) /\ hand[r] \in Blobs
  <2>1. Wrap(head + 1 - 1) = head /\ 1 \in 1 .. count
    BY <1>1 DEF Wrap, Slots, TypeInv, TypeOK
  <2>2. At(1) \in Blobs
    BY <2>1, RingHoldsBlobs
  <2> QED BY <1>1, <2>1, <2>2 DEF At
<1>3. OwnersInv'
  <2>0. PICK n \in Nat : n = count
    BY <1>1
  <2>1. /\ \A i \in 1 .. n - 1 : At(i)' = At(i + 1) /\ i + 1 \in 1 .. n
        /\ \A i \in 1 .. n : i = 1 \/ i - 1 \in 1 .. n - 1
    <3>1. \A i \in 1 .. n - 1 : Wrap(Wrap(head + 1) + i - 1) = Wrap(head + (i + 1) - 1)
      BY <1>1, <2>0 DEF RingInv, Wrap, Slots, TypeInv, TypeOK
    <3> QED BY <1>1, <3>1, <2>0 DEF At
  <2>2. \A t \in Threads, b \in Blobs : Holds(t, b)' <=> Holds(t, b) \/ (t = r /\ b = hand[r])
    BY <1>1 DEF Holds, TypeInv, TypeOK
  <2>3. /\ \A t \in Threads : ~Holds(t, hand[r])
        /\ \A i \in 1 .. n : At(i) = hand[r] => i = 1
        /\ 1 \in 1 .. n
    BY <1>1, <1>2, <2>0 DEF OwnInv, OwnersInv
  <2>4. \A i, j \in 1 .. n : At(i) = At(j) => i = j
    BY <2>0 DEF OwnInv, OwnersInv
  <2>5. \A i, j \in 1 .. n - 1 : At(i)' = At(j)' => i = j
    <3> SUFFICES ASSUME NEW i \in 1 .. n - 1, NEW j \in 1 .. n - 1, At(i)' = At(j)' PROVE i = j
      OBVIOUS
    <3>1. i + 1 = j + 1
      BY <2>1, <2>4
    <3> QED BY <3>1
  <2>6. \A t \in Threads, i \in 1 .. n - 1 : ~Holds(t, At(i))'
    <3> SUFFICES ASSUME NEW t \in Threads, NEW i \in 1 .. n - 1
                 PROVE  ~(hand'[t] = At(i)' /\ pc'[t] # "fetched")
      BY DEF Holds
    <3>1. At(i)' = At(i + 1) /\ i + 1 \in 1 .. n /\ i + 1 # 1
      BY <2>1
    <3>2. At(i + 1) # hand[r]
      BY <2>3, <3>1
    <3>3. ~Holds(t, At(i + 1))
      BY <2>0, <3>1 DEF OwnInv, OwnersInv
    <3> QED BY <1>1, <3>1, <3>2, <3>3 DEF Holds, TypeInv, TypeOK
  <2>7. \A b \in Blobs : b \in heap' <=> \/ \E t \in Threads : Holds(t, b)'
                                         \/ \E i \in 1 .. n - 1 : At(i)' = b
    <3> SUFFICES ASSUME NEW b \in Blobs
                 PROVE  b \in heap' <=> \/ \E t \in Threads : Holds(t, b)'
                                        \/ \E i \in 1 .. n - 1 : At(i)' = b
      OBVIOUS
    <3>1. b \in heap <=> (\E t \in Threads : Holds(t, b)) \/ (\E i \in 1 .. n : At(i) = b)
      BY <2>0 DEF OwnInv, OwnersInv
    <3>2. (\E i \in 1 .. n : At(i) = b) <=> b = hand[r] \/ (\E i \in 1 .. n - 1 : At(i)' = b)
      <4>1. ASSUME NEW i \in 1 .. n, At(i) = b, b # hand[r] PROVE \E j \in 1 .. n - 1 : At(j)' = b
        <5>1. i # 1
          BY <1>2, <4>1
        <5>2. i - 1 \in 1 .. n - 1 /\ (i - 1) + 1 = i
          BY <2>1, <5>1
        <5>3. At(i - 1)' = At((i - 1) + 1)
          BY <1>1, <5>2, <2>0 DEF At, RingInv, Wrap, Slots, TypeInv, TypeOK
        <5> QED BY <4>1, <5>2, <5>3
      <4>2. ASSUME b = hand[r] PROVE \E i \in 1 .. n : At(i) = b
        BY <1>2, <2>3, <4>2
      <4>3. ASSUME NEW j \in 1 .. n - 1, At(j)' = b PROVE \E i \in 1 .. n : At(i) = b
        BY <2>1, <4>3
      <4> QED BY <4>1, <4>2, <4>3
    <3>3. (\E t \in Threads : Holds(t, b)') <=> b = hand[r] \/ (\E t \in Threads : Holds(t, b))
      BY <1>1, <2>2
    <3> QED BY <1>1, <3>1, <3>2, <3>3
  <2>8. \A b \in Blobs : \A t, u \in Threads : Holds(t, b)' /\ Holds(u, b)' => t = u
    BY <2>2, <2>3 DEF OwnInv, OwnersInv
  <2> QED BY <1>1, <2>0, <2>5, <2>6, <2>7, <2>8 DEF OwnersInv
<1>4. FreshInv' /\ EmptyInv'
  BY <1>1, <1>2 DEF OwnInv, FreshInv, EmptyInv, TypeInv, TypeOK, Threads
<1> QED BY <1>3, <1>4 DEF OwnInv

\* The receiver frees the copy it holds, and nobody else had it.
LEMMA RecvFreeOwn ==
  ASSUME TypeInv, RingInv, OwnInv, NEW r \in Receivers, RecvCopyAndFree(r)
  PROVE  OwnInv'
<1>1. /\ pc[r] = "copying" /\ hand[r] \in Blobs /\ r \in Threads /\ r \notin Senders
      /\ pc' = [pc EXCEPT ![r] = "idle"] /\ hand' = [hand EXCEPT ![r] = NoBlob]
      /\ heap' = heap \ {hand[r]} /\ done' = [done EXCEPT ![r] = @ + 1]
      /\ UNCHANGED <<slot, head, count>>
  BY DEF RecvCopyAndFree, Free, Goto, ring, OwnInv, EmptyInv, Threads
<1>2. OwnersInv'
  <2>1. \A i \in 1 .. count : At(i)' = At(i) /\ At(i) \in Blobs
    BY <1>1, RingHoldsBlobs DEF At
  <2>2. \A t \in Threads, b \in Blobs : Holds(t, b)' <=> Holds(t, b) /\ t # r
    BY <1>1 DEF Holds, TypeInv, TypeOK
  <2>3. Holds(r, hand[r]) /\ \A b \in Blobs : Holds(r, b) => b = hand[r]
    BY <1>1 DEF Holds
  <2>4. \A t \in Threads : Holds(t, hand[r]) => t = r
    BY <1>1, <2>3 DEF OwnInv, OwnersInv
  <2>5. \A i \in 1 .. count : At(i) # hand[r]
    BY <1>1, <2>3 DEF OwnInv, OwnersInv
  <2>6. \A t \in Threads, i \in 1 .. count : ~Holds(t, At(i))'
    <3> SUFFICES ASSUME NEW t \in Threads, NEW i \in 1 .. count
                 PROVE  ~(hand'[t] = At(i)' /\ pc'[t] # "fetched")
      BY DEF Holds
    <3>1. ~Holds(t, At(i))
      BY DEF OwnInv, OwnersInv
    <3> QED BY <1>1, <2>1, <3>1 DEF Holds, TypeInv, TypeOK
  <2>7. \A b \in Blobs : b \in heap' <=> \/ \E t \in Threads : Holds(t, b)'
                                         \/ \E i \in 1 .. count : At(i)' = b
    <3> SUFFICES ASSUME NEW b \in Blobs
                 PROVE  b \in heap' <=> \/ \E t \in Threads : Holds(t, b)'
                                        \/ \E i \in 1 .. count : At(i)' = b
      OBVIOUS
    <3>1. b \in heap <=> (\E t \in Threads : Holds(t, b)) \/ (\E i \in 1 .. count : At(i) = b)
      BY DEF OwnInv, OwnersInv
    <3>2. (\E t \in Threads : Holds(t, b)') <=> b # hand[r] /\ (\E t \in Threads : Holds(t, b))
      BY <2>2, <2>3, <2>4
    <3>3. (\E i \in 1 .. count : At(i)' = b) <=> (\E i \in 1 .. count : At(i) = b)
      BY <2>1
    <3>4. (\E i \in 1 .. count : At(i) = b) => b # hand[r]
      BY <2>5
    <3> QED BY <1>1, <3>1, <3>2, <3>3, <3>4
  <2>8. \A b \in Blobs : \A t, u \in Threads : Holds(t, b)' /\ Holds(u, b)' => t = u
    BY <2>2 DEF OwnInv, OwnersInv
  <2>9. \A i, j \in 1 .. count : At(i)' = At(j)' => i = j
    BY <2>1 DEF OwnInv, OwnersInv
  <2> QED BY <1>1, <2>6, <2>7, <2>8, <2>9 DEF OwnersInv
<1>3. FreshInv' /\ EmptyInv'
  BY <1>1 DEF OwnInv, FreshInv, EmptyInv, TypeInv, TypeOK, Threads
<1> QED BY <1>2, <1>3 DEF OwnInv

\* A signal moves a sleeper, and the signaller ends its call.
LEMMA WakeOwn ==
  ASSUME TypeInv, RingInv, OwnInv, NEW t \in Threads,
         (t \in Senders /\ SendWake(t)) \/ (t \in Receivers /\ RecvWake(t))
  PROVE  OwnInv'
<1>0. PICK cv \in {"not_full", "not_empty"}, next \in {"idle", "copying"} :
        /\ pc[t] = "waking" /\ Wake(t, cv, next)
        /\ next = "idle" => t \in Senders /\ SendWake(t)
        /\ next = "copying" => t \in Receivers /\ RecvWake(t)
  BY DEF SendWake, RecvWake
<1>1. /\ pc' \in [Threads -> Places] /\ pc'[t] = next
      /\ \A u \in Threads \ {t} : \/ pc'[u] = pc[u]
                                  \/ pc[u] = "asleep" /\ pc'[u] = "entry"
  BY <1>0, WakeStep
<1>2. UNCHANGED <<slot, head, count, hand, heap>>
  BY <1>0 DEF SendWake, RecvWake, ring
<1>3. OwnersInv'
  BY <1>0, <1>1, <1>2, QuietFrame DEF OwnInv
<1>4. CASE next = "idle"
  <2>1. done' = [done EXCEPT ![t] = @ + 1]
    BY <1>0, <1>4 DEF SendWake
  <2>2. hand[t] = NoBlob /\ t \in Senders /\ t \notin Receivers
    BY <1>0, <1>4 DEF OwnInv, EmptyInv
  <2>3. FreshInv'
    BY <1>0, <1>1, <1>2, <1>4, <2>1 DEF OwnInv, FreshInv, TypeInv, TypeOK, Threads
  <2>4. EmptyInv'
    BY <1>0, <1>1, <1>2, <1>4, <2>2 DEF OwnInv, EmptyInv, TypeInv, TypeOK, Threads
  <2> QED BY <1>3, <2>3, <2>4 DEF OwnInv
<1>5. CASE next = "copying"
  <2>1. done' = done
    BY <1>0, <1>5 DEF RecvWake
  <2>2. FreshInv'
    BY <1>0, <1>1, <1>2, <1>5, <2>1 DEF OwnInv, FreshInv, TypeInv, TypeOK, Threads
  <2>3. EmptyInv'
    BY <1>0, <1>1, <1>2, <1>5 DEF OwnInv, EmptyInv, TypeInv, TypeOK, Threads
  <2> QED BY <1>3, <2>2, <2>3 DEF OwnInv
<1> QED BY <1>4, <1>5

LEMMA NextOwn ==
  ASSUME Fits, TypeInv, TypeInv', CallsInv, RingInv, OwnInv, [Next]_vars
  PROVE  OwnInv'
<1>1. CASE UNCHANGED vars
  <2>1. UNCHANGED <<slot, head, count, hand, heap, done, pc>>
    BY <1>1 DEF vars, ring
  <2> QED BY <2>1, QuietFrame DEF OwnInv, FreshInv, EmptyInv
<1>2. ASSUME NEW t \in Threads,
             \/ Acquire(t)
             \/ t \in Senders /\ SendWait(t)
             \/ t \in Receivers /\ (RecvCall(t) \/ RecvWait(t))
             \/ \E cv \in {"not_full", "not_empty"} : SpuriousWake(t, cv)
      PROVE  OwnInv'
  <2>1. /\ UNCHANGED <<slot, head, count, hand, heap, done>>
        /\ \/ pc[t] = "entry" /\ pc' = [pc EXCEPT ![t] = "locked"]
           \/ pc[t] = "locked" /\ pc' = [pc EXCEPT ![t] = "asleep"]
           \/ pc[t] = "idle" /\ t \in Receivers /\ pc' = [pc EXCEPT ![t] = "entry"]
           \/ pc[t] = "asleep" /\ pc' = [pc EXCEPT ![t] = "entry"]
    BY <1>2 DEF Acquire, SendWait, RecvCall, RecvWait, Sleep, SpuriousWake, Goto, ring,
       TypeInv, TypeOK, SleepInv
  <2>2. OwnersInv'
    BY <2>1, QuietFrame DEF OwnInv, TypeInv, TypeOK
  <2>3. FreshInv' /\ EmptyInv'
    BY <2>1 DEF OwnInv, FreshInv, EmptyInv, TypeInv, TypeOK, Threads
  <2> QED BY <2>2, <2>3 DEF OwnInv
<1>3. ASSUME NEW s \in Senders, Send(s) PROVE OwnInv'
  BY <1>2, <1>3, SendCallOwn, SendStoreOwn, SendAdvanceOwn, WakeOwn DEF Send, Threads
<1>4. ASSUME NEW r \in Receivers, Recv(r) PROVE OwnInv'
  BY <1>2, <1>4, RecvFetchOwn, RecvAdvanceOwn, RecvFreeOwn, WakeOwn DEF Recv, Threads
<1>5. ASSUME Spurious PROVE OwnInv'
  BY <1>2, <1>5 DEF Spurious, Threads
<1> QED BY <1>1, <1>3, <1>4, <1>5 DEF Next

-----------------------------------------------------------------------------
\* Counting the owners: a set of at most one element is empty or a singleton.
LEMMA OwnInvImpliesOneOwner ==
  ASSUME TypeInv, RingInv, OwnInv
  PROVE  OneOwner
<1> SUFFICES ASSUME NEW b \in Blobs
             PROVE  Cardinality(InHand(b)) + Cardinality(InRingAt(b)) = IF b \in heap THEN 1 ELSE 0
  BY DEF OneOwner
<1>1. InHand(b) = {t \in Threads : Holds(t, b)}
  BY DEF InHand, Holds
<1>2. InRingAt(b) = {i \in 1 .. count : At(i) = b}
  <2>1. \A i \in 1 .. count : (head + i - 1) % Ring = Wrap(head + i - 1)
    BY ModIsWrap, RoomType DEF RingInv, Slots, TypeInv, TypeOK
  <2>2. \A i \in 1 .. count : InRing[i] = At(i)
    BY <2>1 DEF InRing, At
  <2> QED BY <2>2 DEF InRingAt
<1>3. InHand(b) = {} \/ \E t \in Threads : InHand(b) = {t}
  <2>1. \A t, u \in InHand(b) : t = u
    BY <1>1 DEF OwnInv, OwnersInv
  <2> QED BY <1>1, <2>1
<1>4. InRingAt(b) = {} \/ \E i \in 1 .. count : InRingAt(b) = {i}
  <2>1. \A i, j \in InRingAt(b) : i = j
    BY <1>2 DEF OwnInv, OwnersInv
  <2> QED BY <1>2, <2>1
<1>5. InHand(b) = {} \/ InRingAt(b) = {}
  BY <1>1, <1>2 DEF OwnInv, OwnersInv
<1>6. b \in heap <=> InHand(b) # {} \/ InRingAt(b) # {}
  BY <1>1, <1>2 DEF OwnInv, OwnersInv
<1>7. Cardinality({}) = 0 /\ \A x : Cardinality({x}) = 1
  BY FS_EmptySet, FS_Singleton
<1>8. /\ Cardinality(InHand(b)) = IF InHand(b) = {} THEN 0 ELSE 1
      /\ Cardinality(InRingAt(b)) = IF InRingAt(b) = {} THEN 0 ELSE 1
  BY <1>3, <1>4, <1>7
<1> QED BY <1>5, <1>6, <1>8

\* In a channel of any capacity from 1, and in an unbuffered one whose messages
\* fit the ring, every copy that is allocated is held by exactly one thread or
\* ring slot, and none that was freed is held by any: no leak, no double free, no
\* use after free, for any threads, calls and slots.
THEOREM ChannelOwnsItsCopies ==
  ASSUME Fits
  PROVE  Spec => []OneOwner
<1>1. Init => OwnInv
  BY DEF Init, OwnInv, OwnersInv, FreshInv, EmptyInv, Holds, Threads
<1>2. TypeInv /\ TypeInv' /\ CallsInv /\ RingInv /\ OwnInv /\ [Next]_vars => OwnInv'
  BY NextOwn
<1>3. TypeInv /\ RingInv /\ OwnInv => OneOwner
  BY OwnInvImpliesOneOwner
<1> QED BY RingInvHolds, <1>1, <1>2, <1>3, PTL DEF Spec
=============================================================================
