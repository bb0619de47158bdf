----------------------------- MODULE MCChannel -----------------------------
(* Two senders and two receivers. *)
EXTENDS Channel

CONSTANTS s1, s2, r1, r2

\* Two calls each: four messages wrap a ring of three.
TwoEach == [t \in {s1, s2, r1, r2} |-> 2]
=============================================================================
