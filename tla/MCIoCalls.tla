------------------------------ MODULE MCIoCalls ------------------------------
(* Instances of IoCalls for TLC. *)
EXTENDS IoCalls

CONSTANTS c1, c2, zeroes, data
=============================================================================
