---------------------------- MODULE MCRaidTable ----------------------------
(* Instances of RaidTable for TLC. *)
EXTENDS RaidTable, TLC

CONSTANTS c1, c2, a1, a2, d1, d2, d3

\* Clients, arrays and disks are interchangeable.
Symmetry == Permutations(Clients) \cup Permutations(Names) \cup Permutations(Disks)
=============================================================================
