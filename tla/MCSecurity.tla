----------------------------- MODULE MCSecurity -----------------------------
(***************************************************************************)
(* Two instances of Security for TLC, told apart by a variable that the    *)
(* initial state sets: the tables of tokens and of volumes have nothing in *)
(* common but xbdev_security_init, so "tokens" leaves the volumes alone    *)
(* and "volumes" the tokens.                                               *)
(***************************************************************************)
EXTENDS Security, TLC

CONSTANTS u1, u2, u3, v1, v2, v3, c1, c2, p1

\* The third user and the third volume have names longer than their fields, which
\* keep the names of the first.
LongUser   == [u \in Users |-> IF u = u3 THEN u1 ELSE u]
LongVolume == [v \in Volumes |-> IF v = v3 THEN v1 ELSE v]

Symmetry == Permutations(Clients)

VARIABLE scenario

InScenario ==
  \/ scenario = "tokens" /\ \A i \in VolSlots : vols[i] = FreeVol
  \/ /\ scenario = "volumes"
     /\ \A c \in Clients : pc[c] = "idle"
     /\ epoch = 0 /\ now = 0

MCInit == Init /\ scenario \in {"tokens", "volumes"}
MCNext == Next /\ UNCHANGED scenario /\ InScenario'
MCSpec == MCInit /\ [][MCNext]_<<vars, scenario>>
=============================================================================
