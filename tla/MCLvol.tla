------------------------------- MODULE MCLvol -------------------------------
(* An instance of Lvol for TLC: a pool on a device, the name of another to *)
(* rename into, and two names of volumes, one of them with a slash.        *)
EXTENDS Lvol

CONSTANTS c1, c2, d1

P == <<"p">>
Q == <<"q">>
V == <<"v">>
W == <<"w", "/", "x">>

Arg(o, d, p, n, np, nn, mb) ==
  [op |-> o, dev |-> d, pool |-> p, name |-> n, newpool |-> np, new |-> nn, mb |-> mb]

MCArguments ==
  {Arg(o, d1, P, NoName, NoName, NoName, 0)
     : o \in {"create_pool", "destroy_pool", "get_pool_info", "remove_device"}}
  \cup {Arg("create", d1, P, V, NoName, NoName, 1),
        Arg("resize", d1, P, V, NoName, NoName, 3),
        Arg("snapshot", d1, P, V, NoName, W, 0),
        Arg("clone", d1, P, W, NoName, V, 0),
        Arg("rename", d1, P, W, P, V, 0),
        Arg("rename", d1, P, V, Q, V, 0),
        Arg("destroy", d1, P, W, NoName, NoName, 0),
        Arg("destroy", d1, NoName, V, NoName, NoName, 0),
        Arg("get_info", d1, P, W, NoName, NoName, 0)}
=============================================================================
