---------------------------- MODULE BoundedFifo ----------------------------
(***************************************************************************)
(* What the Oxide documentation promises of Channel<T>: a first-in         *)
(* first-out queue of at most Bound messages whose sender waits while the  *)
(* queue is full and whose receiver waits while it is empty.               *)
(***************************************************************************)
EXTENDS Naturals, Sequences

CONSTANTS Messages, Bound

VARIABLES queue,    \* messages sent and not yet received, oldest first
          received  \* every message received so far, in order

FifoInit == queue = <<>> /\ received = <<>>

Enqueue(m) ==
  /\ Len(queue) < Bound
  /\ queue' = Append(queue, m)
  /\ UNCHANGED received

Dequeue ==
  /\ queue # <<>>
  /\ received' = Append(received, Head(queue))
  /\ queue' = Tail(queue)

FifoNext == (\E m \in Messages : Enqueue(m)) \/ Dequeue

FifoSpec == FifoInit /\ [][FifoNext]_<<queue, received>>
=============================================================================
