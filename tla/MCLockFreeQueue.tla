--------------------------- MODULE MCLockFreeQueue ---------------------------
(***************************************************************************)
(* Two instances of LockFreeQueue for TLC, told apart by a variable that   *)
(* the initial state sets:                                                 *)
(*   "load"  both clients make asynchronous calls whose handlers mark the  *)
(*           request done, until the pool is empty or a ring full          *)
(*   "stop"  c1 makes synchronous calls, some with handlers that mark      *)
(*           nothing, while the system is torn down and set up again       *)
(***************************************************************************)
EXTENDS LockFreeQueue, TLC

CONSTANTS c1, c2

VARIABLE scenario

InScenario ==
  \/ /\ scenario = "load"
     /\ \A c \in Clients : pc[c] # "idle" => op[c] = "async"
     /\ \A s \in Slots : answer[s] = "marks"
     /\ fini_pc = "none"
  \/ /\ scenario = "stop"
     /\ pc[c1] # "idle" => op[c1] = "sync"
     /\ pc[c2] = "idle"

\* The scenarios keep only calls from starting, handlers from being silent and the
\* tear-down from beginning: none of them is something the fairness of Fairness
\* asks for.
MCInit == Init /\ scenario \in {"load", "stop"}
MCNext == Next /\ UNCHANGED scenario /\ InScenario'
MCSpec == MCInit /\ [][MCNext]_<<vars, scenario>> /\ Fairness

\* PendingAgrees is stated for requests that are asynchronous and marked done: those
\* of "load".
PendingAgreesUnderLoad == scenario = "load" => PendingAgrees
=============================================================================
