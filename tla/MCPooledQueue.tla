--------------------------- MODULE MCPooledQueue ---------------------------
(* Instances of PooledQueue for TLC. *)
EXTENDS PooledQueue, TLC

CONSTANTS c1, c2, c3

\* All clients on ring 0.
OneRing == [c \in Clients |-> 0]

\* c3 on the last ring, the others on ring 0.
LastRing == [c \in Clients |-> IF c = c3 THEN NumQueues - 1 ELSE 0]
=============================================================================
