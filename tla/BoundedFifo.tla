----------------------------- MODULE BoundedFifo -----------------------------
(***************************************************************************)
(* What a set of bounded request queues with one server promises its       *)
(* users.  A producer offers a sequence of requests, and either all of     *)
(* them enter one queue together, in their order, or none does.  Requests  *)
(* leave a queue in the order they entered it; none is lost, duplicated or *)
(* invented.  The server takes the oldest request of a queue and finishes  *)
(* it before it takes the next.  No queue holds more than its capacity,    *)
(* and only the tear-down empties queues.                                  *)
(***************************************************************************)
EXTENDS Naturals, Sequences

CONSTANTS Producers, \* who offers
          Names,     \* the queues
          Items,     \* what is queued
          Bound,     \* the capacity of each queue
          Nothing    \* no item

VARIABLES open,      \* the queues are set up
          offered,   \* offered[p]: what producer p wants to enter, or <<>>
          fifo,      \* fifo[q]: the items in queue q, oldest first
          taken      \* the item the server works on, or Nothing

vars == <<open, offered, fifo, taken>>

Empty == [q \in Names |-> <<>>]

Init ==
  /\ open = FALSE
  /\ offered = [p \in Producers |-> <<>>]
  /\ fifo = Empty
  /\ taken = Nothing

Open ==
  /\ ~open /\ open' = TRUE
  /\ UNCHANGED <<offered, fifo, taken>>

Close ==
  /\ open /\ open' = FALSE
  /\ fifo' = Empty
  /\ UNCHANGED <<offered, taken>>

Offer(p) ==
  /\ offered[p] = <<>>
  /\ offered'[p] \in Seq(Items) \ {<<>>}
  /\ offered' = [offered EXCEPT ![p] = offered'[p]]
  /\ UNCHANGED <<open, fifo, taken>>

Withdraw(p) ==
  /\ offered[p] # <<>>
  /\ offered' = [offered EXCEPT ![p] = <<>>]
  /\ UNCHANGED <<open, fifo, taken>>

\* What p offers enters queue q.
Put(p, q) ==
  /\ open /\ offered[p] # <<>>
  /\ Len(fifo[q]) + Len(offered[p]) <= Bound
  /\ fifo' = [fifo EXCEPT ![q] = @ \o offered[p]]
  /\ offered' = [offered EXCEPT ![p] = <<>>]
  /\ UNCHANGED <<open, taken>>

\* The oldest item leaves queue q.
Get(q) ==
  /\ taken = Nothing
  /\ fifo[q] # <<>>
  /\ taken' = Head(fifo[q])
  /\ fifo' = [fifo EXCEPT ![q] = Tail(@)]
  /\ UNCHANGED <<open, offered>>

Finish ==
  /\ taken # Nothing
  /\ taken' = Nothing
  /\ UNCHANGED <<open, offered, fifo>>

Next ==
  \/ Open \/ Close \/ Finish
  \/ \E p \in Producers : Offer(p) \/ Withdraw(p) \/ \E q \in Names : Put(p, q)
  \/ \E q \in Names : Get(q)

Spec == Init /\ [][Next]_vars
=============================================================================
