------------------------------ MODULE Channel ------------------------------
(***************************************************************************)
(* The channel of the embedded C runtime (ox_channel): a ring of Ring      *)
(* slots (256 in the code) under an SRW lock, with one condition variable  *)
(* for senders that find it full and one for receivers that find it empty. *)
(* This is the blob channel, whose messages are heap copies the sender     *)
(* makes before it takes the lock and the receiver frees after it gave the *)
(* lock back; the narrow channel runs the same steps without the heap.     *)
(* Cap = 0 is the capacity the code calls unbuffered: no send ever waits.  *)
(***************************************************************************)
EXTENDS Integers, Sequences, FiniteSets

CONSTANTS Senders, Receivers, \* threads, each on one side of the channel
          Cap, Ring,          \* bufcap, and the number of slots
          Calls,              \* Calls[t]: how many calls thread t makes
          NoThread, NoBlob    \* "nobody holds the lock", "null pointer"

Threads == Senders \cup Receivers
Blobs   == UNION {{s} \X (1 .. Calls[s]) : s \in Senders}
Slots   == 0 .. Ring - 1
Places  == {"idle", "entry", "locked", "stored", "fetched", "asleep",
            "waking", "copying"}

ASSUME ThreadsAssumption ==
  /\ IsFiniteSet(Senders) /\ IsFiniteSet(Receivers)
  /\ Senders \cap Receivers = {}
  /\ NoThread \notin Threads
  /\ NoBlob \notin Blobs
  /\ Calls \in [Threads -> Nat]

\* ox_chan_alloc refuses every other capacity.
ASSUME CapAssumption == Ring \in Nat \ {0} /\ Cap \in 0 .. Ring

VARIABLES slot, head, tail, count,  \* the ring
          lock,                     \* the thread in the critical section
          sleepers,                 \* per condition variable, who sleeps on it
          pc, hand, done,           \* per thread: place, blob held, calls made
          heap,                     \* blobs allocated and not freed
          put, taken                \* history: blobs written to and read from the ring

ring    == <<slot, head, tail, count>>
history == <<put, taken>>
vars    == <<ring, lock, sleepers, pc, hand, done, heap, history>>

Init ==
  /\ slot = [i \in Slots |-> NoBlob]
  /\ head = 0 /\ tail = 0 /\ count = 0
  /\ lock = NoThread
  /\ sleepers = [cv \in {"not_full", "not_empty"} |-> {}]
  /\ pc = [t \in Threads |-> "idle"]
  /\ hand = [t \in Threads |-> NoBlob]
  /\ done = [t \in Threads |-> 0]
  /\ heap = {}
  /\ put = <<>> /\ taken = <<>>

Goto(t, place) == pc' = [pc EXCEPT ![t] = place]

NextSlotUnwrapped(i) == i + 1  \* mutant: the ring index is not reduced

NextSlot(i) == (i + 1) % Ring

FreeForgotten(b) == UNCHANGED heap  \* mutant: the receiver leaks its copy

Free(b) == heap' = heap \ {b}

-----------------------------------------------------------------------------
(* Steps both sides take. *)

\* mutant: the lock is taken in shared mode
AcquireShared(t) ==
  /\ pc[t] = "entry"
  /\ lock' = t
  /\ Goto(t, "locked")
  /\ UNCHANGED <<ring, sleepers, hand, done, heap, history>>

Acquire(t) ==
  /\ pc[t] = "entry" /\ lock = NoThread
  /\ lock' = t
  /\ Goto(t, "locked")
  /\ UNCHANGED <<ring, sleepers, hand, done, heap, history>>

\* SleepConditionVariableSRW gives the lock back and sleeps in one step.
Sleep(t, cv) ==
  /\ lock' = NoThread
  /\ sleepers' = [sleepers EXCEPT ![cv] = @ \cup {t}]
  /\ Goto(t, "asleep")
  /\ UNCHANGED <<ring, hand, done, heap, history>>

NoSignal(t, next) == Goto(t, next) /\ UNCHANGED sleepers

Signal(t, cv, next) ==
  \E u \in sleepers[cv] :
    /\ sleepers' = [sleepers EXCEPT ![cv] = @ \ {u}]
    /\ pc' = [pc EXCEPT ![t] = next, ![u] = "entry"]

\* mutant: receivers are signalled only when the ring stops being empty
WakeOnEdge(t, cv, next) ==
  IF sleepers[cv] = {} \/ (cv = "not_empty" /\ count > 1)
    THEN NoSignal(t, next) ELSE Signal(t, cv, next)

\* mutant: senders are signalled only once the ring has drained
WakeWhenDrained(t, cv, next) ==
  IF sleepers[cv] = {} \/ (cv = "not_full" /\ count > 0)
    THEN NoSignal(t, next) ELSE Signal(t, cv, next)

\* WakeConditionVariable, called without the lock: one sleeper, whichever the
\* system picks, is sent back to compete for the lock.
Wake(t, cv, next) ==
  IF sleepers[cv] = {} THEN NoSignal(t, next) ELSE Signal(t, cv, next)

\* The system may also wake a sleeper nobody signalled.
SpuriousWake(t, cv) ==
  /\ t \in sleepers[cv]
  /\ sleepers' = [sleepers EXCEPT ![cv] = @ \ {t}]
  /\ Goto(t, "entry")
  /\ UNCHANGED <<ring, lock, hand, done, heap, history>>

-----------------------------------------------------------------------------
(* ox_chan_send_blob_impl *)

SendCall(s) ==
  LET dup == <<s, done[s] + 1>> IN
  /\ pc[s] = "idle" /\ done[s] < Calls[s]
  /\ heap' = heap \cup {dup}
  /\ hand' = [hand EXCEPT ![s] = dup]
  /\ Goto(s, "entry")
  /\ UNCHANGED <<ring, lock, sleepers, done, history>>

SendNeverWaits == FALSE  \* mutant: the wait for room is missing

SendMustWait == Cap > 0 /\ count = Cap

SendWait(s) ==
  /\ pc[s] = "locked" /\ SendMustWait
  /\ Sleep(s, "not_full")

SendStore(s) ==
  /\ pc[s] = "locked" /\ ~SendMustWait
  /\ slot' = [slot EXCEPT ![tail] = hand[s]]
  /\ Goto(s, "stored")
  /\ UNCHANGED <<head, tail, count, lock, sleepers, hand, done, heap, history>>

SendAdvance(s) ==
  /\ pc[s] = "stored"
  /\ tail' = NextSlot(tail)
  /\ count' = count + 1
  /\ put' = Append(put, hand[s])
  /\ hand' = [hand EXCEPT ![s] = NoBlob]
  /\ lock' = NoThread
  /\ Goto(s, "waking")
  /\ UNCHANGED <<slot, head, sleepers, done, heap, taken>>

SendWake(s) ==
  /\ pc[s] = "waking"
  /\ Wake(s, "not_empty", "idle")
  /\ done' = [done EXCEPT ![s] = @ + 1]
  /\ UNCHANGED <<ring, lock, hand, heap, history>>

-----------------------------------------------------------------------------
(* ox_chan_recv_blob_impl *)

RecvCall(r) ==
  /\ pc[r] = "idle" /\ done[r] < Calls[r]
  /\ Goto(r, "entry")
  /\ UNCHANGED <<ring, lock, sleepers, hand, done, heap, history>>

RecvWait(r) ==
  /\ pc[r] = "locked" /\ count = 0
  /\ Sleep(r, "not_empty")

RecvFetch(r) ==
  /\ pc[r] = "locked" /\ count # 0
  /\ hand' = [hand EXCEPT ![r] = slot[head]]
  /\ Goto(r, "fetched")
  /\ UNCHANGED <<ring, lock, sleepers, done, heap, history>>

RecvAdvance(r) ==
  /\ pc[r] = "fetched"
  /\ head' = NextSlot(head)
  /\ count' = count - 1
  /\ taken' = Append(taken, hand[r])
  /\ lock' = NoThread
  /\ Goto(r, "waking")
  /\ UNCHANGED <<slot, tail, sleepers, hand, done, heap, put>>

\* mutant: the receiver does not tell the senders
RecvForgetsWake(r) ==
  /\ pc[r] = "waking"
  /\ NoSignal(r, "copying")
  /\ UNCHANGED <<ring, lock, hand, done, heap, history>>

RecvWake(r) ==
  /\ pc[r] = "waking"
  /\ Wake(r, "not_full", "copying")
  /\ UNCHANGED <<ring, lock, hand, done, heap, history>>

RecvCopyAndFree(r) ==
  /\ pc[r] = "copying"
  /\ Free(hand[r])
  /\ hand' = [hand EXCEPT ![r] = NoBlob]
  /\ done' = [done EXCEPT ![r] = @ + 1]
  /\ Goto(r, "idle")
  /\ UNCHANGED <<ring, lock, sleepers, history>>

-----------------------------------------------------------------------------
Send(s) == \/ SendCall(s) \/ Acquire(s) \/ SendWait(s)
           \/ SendStore(s) \/ SendAdvance(s) \/ SendWake(s)

Recv(r) == \/ RecvCall(r) \/ Acquire(r) \/ RecvWait(r)
           \/ RecvFetch(r) \/ RecvAdvance(r)
           \/ RecvWake(r) \/ RecvCopyAndFree(r)

Spurious == \/ \E s \in Senders : SpuriousWake(s, "not_full")
            \/ \E r \in Receivers : SpuriousWake(r, "not_empty")

Next == (\E s \in Senders : Send(s)) \/ (\E r \in Receivers : Recv(r)) \/ Spurious

Spec == Init /\ [][Next]_vars

\* The operating system runs every runnable thread; it owes nobody a spurious
\* wakeup, and a thread may be overtaken at the lock.
Fairness == /\ \A s \in Senders : WF_vars(Send(s))
            /\ \A r \in Receivers : WF_vars(Recv(r))

FairSpec == Spec /\ Fairness
-----------------------------------------------------------------------------
(* Properties *)

TypeOK ==
  /\ slot \in [Slots -> Blobs \cup {NoBlob}]
  /\ head \in Slots /\ tail \in Slots /\ count \in Nat
  /\ lock \in Threads \cup {NoThread}
  /\ sleepers \in [{"not_full", "not_empty"} -> SUBSET Threads]
  /\ pc \in [Threads -> Places]
  /\ hand \in [Threads -> Blobs \cup {NoBlob}]
  /\ done \in [Threads -> Nat]
  /\ heap \subseteq Blobs
  /\ put \in Seq(Blobs) /\ taken \in Seq(Blobs \cup {NoBlob})

\* The messages in the ring, oldest first, as the receivers will find them.
InRing == [i \in 1 .. count |-> slot[(head + i - 1) % Ring]]

\* Every message written and not yet read is in the ring, in the order of the
\* writes: no send overwrites one, no receive skips or repeats one
\* (ox_chan_send_blob_impl, ox_chan_recv_blob_impl: slots, head, tail, count).
RingHoldsInFlight == put = taken \o InRing

\* Every live heap copy has exactly one owner (the sender that made it, the
\* ring, or the receiver that took it), so none leaks and none is freed twice.
InHand(b) == {t \in Threads : hand[t] = b /\ pc[t] # "fetched"}
InRingAt(b) == {i \in 1 .. count : InRing[i] = b}
OneOwner ==
  \A b \in Blobs :
    Cardinality(InHand(b)) + Cardinality(InRingAt(b)) = IF b \in heap THEN 1 ELSE 0

\* A receiver never sleeps on not_empty past a message nobody is about to fetch
\* or announce: messages beyond the pending wakeups and the receivers already
\* awake mean that no receiver sleeps. The signal is sent after the unlock, so
\* this is what rules out a lost wakeup.
NoStrandedReceiver ==
  sleepers["not_empty"] # {} =>
    count <= Cardinality({s \in Senders : pc[s] = "waking"})
             + Cardinality({r \in Receivers : pc[r] \in {"entry", "locked", "fetched"}})

\* The same of senders, free slots and not_full.
NoStrandedSender ==
  sleepers["not_full"] # {} =>
    Cap - count <= Cardinality({r \in Receivers : pc[r] = "waking"})
                   + Cardinality({s \in Senders : pc[s] \in {"entry", "locked", "stored"}})

\* The channel implements the bounded queue the documentation describes.
Fifo == INSTANCE BoundedFifo
          WITH Messages <- Blobs, Bound <- Cap, queue <- InRing, received <- taken
ImplementsFifo == Fifo!FifoSpec

\* When the threads send as many messages as they receive, every call returns,
\* unless the system wakes sleepers for no reason without end.
AllCallsReturn == <>[][~Spurious]_vars => <>(done = Calls)
=============================================================================
