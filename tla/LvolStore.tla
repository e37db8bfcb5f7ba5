------------------------------ MODULE LvolStore ------------------------------
(***************************************************************************)
(* What SPDK keeps of logical volumes, as src/libxbdev/lvol.c uses it: the *)
(* devices there are, the pool on each, and the volumes of each pool.  A   *)
(* request names its objects by pool and volume, and gives sizes in bytes. *)
(***************************************************************************)
CONSTANTS Devices  \* the base devices there may be

LvolOps == {"create_pool", "destroy_pool", "create", "destroy", "snapshot", "clone",
            "rename", "resize", "get_info", "get_pool_info", "remove_device"}

\* Operations on a pool, and on a volume of a pool.
OnPool   == {"destroy_pool", "create", "get_pool_info"}
OnVolume == {"destroy", "snapshot", "clone", "rename", "resize", "get_info"}

Lookup(s, p, n) == {v \in s.vols : v.pool = p /\ v.name = n}

\* The object a request works on, or the device it needs, is not there.
Missing(s, k) ==
  \/ k.op \in OnPool \cup OnVolume /\ k.pool \notin DOMAIN s.base
  \/ k.op \in OnVolume /\ Lookup(s, k.pool, k.name) = {}
  \/ k.op \in {"create_pool", "remove_device"} /\ k.dev \notin s.devices

Without(s, p) ==
  [devices |-> s.devices,
   base    |-> [q \in DOMAIN s.base \ {p} |-> s.base[q]],
   vols    |-> {v \in s.vols : v.pool # p}]

\* A snapshot or a clone of volume v: in the same pool, of the same size.
Copy(v, n, kind) == [pool |-> v.pool, name |-> n, size |-> v.size, kind |-> kind]

Added(s, v) ==
  IF Lookup(s, v.pool, v.name) = {} THEN {[s EXCEPT !.vols = @ \cup {v}]} ELSE {}

\* The stores that an accepted request k can lead to from s: none if SPDK must
\* refuse it, and it may refuse any request that changes something.
Accepted(s, k) ==
  LET found == Lookup(s, k.pool, k.name)
      Changed(f(_)) == {[s EXCEPT !.vols = (@ \ {v}) \cup {f(v)}] : v \in found}
  IN CASE k.op = "create_pool" ->
            IF k.pool \notin DOMAIN s.base /\ \A p \in DOMAIN s.base : s.base[p] # k.dev
            THEN {[s EXCEPT !.base = [p \in DOMAIN @ \cup {k.pool} |->
                                        IF p = k.pool THEN k.dev ELSE @[p]]]}
            ELSE {}
       [] k.op = "destroy_pool" -> {Without(s, k.pool)}
       [] k.op = "create" ->
            Added(s, [pool |-> k.pool, name |-> k.name, size |-> k.size, kind |-> "volume"])
       [] k.op = "destroy" -> {[s EXCEPT !.vols = @ \ {v}] : v \in found}
       [] k.op = "snapshot" ->
            UNION {Added(s, Copy(v, k.new, "snapshot")) : v \in found}
       [] k.op = "clone" ->
            UNION {Added(s, Copy(v, k.new, "clone"))
                     : v \in {w \in found : w.kind = "snapshot"}}
       [] k.op = "rename" ->
            IF Lookup(s, k.pool, k.new) = {}
            THEN LET Named(v) == [v EXCEPT !.name = k.new] IN Changed(Named) ELSE {}
       [] k.op = "resize" -> LET Sized(v) == [v EXCEPT !.size = k.size] IN Changed(Sized)
       [] k.op = "remove_device" -> {[s EXCEPT !.devices = @ \ {k.dev}]}
       [] OTHER -> {s}

\* What a question is answered: the volume, or the device of the pool.
Told(s, k) ==
  CASE k.op = "get_info" -> Lookup(s, k.pool, k.name)
    [] k.op = "get_pool_info" -> {s.base[p] : p \in DOMAIN s.base \cap {k.pool}}
    [] OTHER -> {}

\* A device is pulled; SPDK then drops the pool that was on it.
Pulled(s)  == {[s EXCEPT !.devices = @ \ {d}] : d \in s.devices}
Dropped(s) == {Without(s, p) : p \in {q \in DOMAIN s.base : s.base[q] \notin s.devices}}

NoPools == [devices |-> Devices, base |-> [p \in {} |-> p], vols |-> {}]
=============================================================================
