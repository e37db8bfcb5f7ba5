-------------------------------- MODULE Lvol --------------------------------
(***************************************************************************)
(* The logical volume calls of src/libxbdev/lvol.c, and the removal of     *)
(* devices of src/libxbdev/base_bdev.c.                                    *)
(*                                                                         *)
(* A call puts its context on its stack and hands a request to the SPDK    *)
(* thread.  The handler looks the objects up by name, starts an operation  *)
(* of SPDK, and polls until the callback of that operation, which stores   *)
(* the result through pointers kept in the handler's own frame, has set    *)
(* done.  It serves no other request meanwhile, but devices may be pulled, *)
(* and SPDK then drops their pools.  The request system is the one         *)
(* PooledQueue describes, without time-outs; it may be out of requests.    *)
(*                                                                         *)
(* A name is a sequence of symbols: volumes are named pool/volume, and the *)
(* handlers split such a name at its first slash.                          *)
(***************************************************************************)
EXTENDS LvolStore, Integers, Sequences, FiniteSets

CONSTANTS Clients,    \* the client threads
          Arguments,  \* what the clients call with, see Calls
          Removable,  \* the devices of a module that device removal knows
          Symbols,    \* the characters of names
          NameSize,   \* the size of the handlers' buffers for names
          Mega,       \* 1024 * 1024
          Word,       \* 2^64
          Nobody,     \* no client
          NoRequest   \* no request, no operation

VARIABLES
  store,    \* SPDK's devices, pools and volumes
  pc,       \* pc[c]: where the call of c is
  call,     \* call[c]: its arguments
  ctx,      \* ctx[c]: done, rc (0 is "ok") and info of its context
  req,      \* req[c]: the state of its request
  outcome,  \* outcome[c]: what it returned
  spdk_pc,  \* where the SPDK thread is
  serving,  \* the client whose request it serves
  op        \* the operation SPDK is carrying out

callVars == <<pc, call, req, outcome>>
spdkVars == <<spdk_pc, serving, op>>
vars == <<store, callVars, ctx, spdkVars>>

Slash == "/"
NoName == <<>>

\* The name by which an application refers to volume n of pool p.
Full(p, n) == IF p = NoName THEN n ELSE p \o <<Slash>> \o n

NoSlash(s) == \A i \in DOMAIN s : s[i] # Slash

\* _xbdev_parse_lvol_name: pool and volume, or nothing.
Parsed(full) ==
  IF NoSlash(full) THEN <<>>
  ELSE LET at == CHOOSE i \in DOMAIN full :
                   full[i] = Slash /\ \A j \in 1 .. i - 1 : full[j] # Slash
           p == SubSeq(full, 1, at - 1)
           n == SubSeq(full, at + 1, Len(full))
       IN  IF Len(p) < NameSize /\ Len(n) < NameSize THEN <<p, n>> ELSE <<>>

\* Sizes are given in megabytes, in 64 bits.
Bytes(mb) == (mb * Mega) % Word

Calls == [op : LvolOps, dev : Devices, pool : Seq(Symbols), name : Seq(Symbols),
          newpool : Seq(Symbols), new : Seq(Symbols), mb : Nat]

\* Pools are created under names without a slash, names fit the buffers, and sizes
\* in bytes fit a word: the calls do not check any of that.  A name with a slash is
\* one with a pool: that is where its first slash is.
ASSUME ArgumentsAssumption == Arguments \subseteq Calls /\ Slash \in Symbols
ASSUME NamesAssumption ==
  \A k \in Arguments :
    /\ NoSlash(k.pool) /\ NoSlash(k.newpool)
    /\ Len(k.pool) < NameSize /\ Len(k.name) < NameSize
    /\ k.pool = NoName => NoSlash(k.name)
    /\ k.op = "rename" => /\ Len(k.newpool) < NameSize /\ Len(k.new) < NameSize
                          /\ k.newpool = NoName => NoSlash(k.new)
ASSUME SizesAssumption ==
  Mega \in Nat /\ Word \in Nat \ {0} /\ \A k \in Arguments : k.mb * Mega < Word
ASSUME DeviceAssumption == Removable \subseteq Devices
ASSUME NobodyAssumption == Nobody \notin Clients
-----------------------------------------------------------------------------
Fresh == [done |-> FALSE, rc |-> "ok", info |-> {}]

Init ==
  /\ store = NoPools
  /\ pc = [c \in Clients |-> "idle"]
  /\ call = [c \in Clients |-> NoRequest]
  /\ ctx = [c \in Clients |-> Fresh]
  /\ req = [c \in Clients |-> "none"]
  /\ outcome = [c \in Clients |-> "ok"]
  /\ spdk_pc = "idle" /\ serving = Nobody
  /\ op = NoRequest
-----------------------------------------------------------------------------
(***************************************************************************)
(* Client threads.                                                         *)
(***************************************************************************)

\* A call sets up its context and asks for a request.
Enter(c, o) ==
  /\ pc[c] = "idle"
  /\ \E k \in Arguments : k.op = o /\ call' = [call EXCEPT ![c] = k]
  /\ pc' = [pc EXCEPT ![c] = "request"]
  /\ ctx' = [ctx EXCEPT ![c] = Fresh]
  /\ UNCHANGED <<store, req, outcome, spdkVars>>

CreatePool(c)   == Enter(c, "create_pool")
DestroyPool(c)  == Enter(c, "destroy_pool")
Create(c)       == Enter(c, "create")
Destroy(c)      == Enter(c, "destroy")
Snapshot(c)     == Enter(c, "snapshot")
Clone(c)        == Enter(c, "clone")
Resize(c)       == Enter(c, "resize")
GetInfo(c)      == Enter(c, "get_info")
GetPoolInfo(c)  == Enter(c, "get_pool_info")
Rename(c)       == Enter(c, "rename")
RemoveDevice(c) == Enter(c, "remove_device")

\* There is a request and room for it in its ring, or there is not.
Submit(c) ==
  /\ pc[c] = "request"
  /\ \/ /\ pc' = [pc EXCEPT ![c] = "wait"]
        /\ req' = [req EXCEPT ![c] = "queued"]
        /\ UNCHANGED outcome
     \/ /\ pc' = [pc EXCEPT ![c] = "returned"]
        /\ outcome' = [outcome EXCEPT ![c] = "busy"]
        /\ UNCHANGED req
  /\ UNCHANGED <<store, call, ctx, spdkVars>>

\* The request is done: the call frees it and returns what its context says.
Return(c) ==
  /\ pc[c] = "wait" /\ req[c] = "done"
  /\ pc' = [pc EXCEPT ![c] = "returned"]
  /\ req' = [req EXCEPT ![c] = "none"]
  /\ outcome' = [outcome EXCEPT ![c] = ctx[c].rc]
  /\ UNCHANGED <<store, call, ctx, spdkVars>>

Leave(c) ==
  /\ pc[c] = "returned"
  /\ pc' = [pc EXCEPT ![c] = "idle"]
  /\ call' = [call EXCEPT ![c] = NoRequest]
  /\ ctx' = [ctx EXCEPT ![c] = Fresh]
  /\ outcome' = [outcome EXCEPT ![c] = "ok"]
  /\ UNCHANGED <<store, req, spdkVars>>
-----------------------------------------------------------------------------
(***************************************************************************)
(* The SPDK thread.                                                        *)
(***************************************************************************)

\* Mutant of Take: the rings are served from within the polling too.
TakeWhilePolling(c) ==
  /\ spdk_pc \in {"idle", "poll"} /\ req[c] = "queued"
  /\ req' = [req EXCEPT ![c] = "taken"]
  /\ serving' = c
  /\ spdk_pc' = "start"
  /\ UNCHANGED <<store, pc, call, ctx, outcome, op>>

\* A request leaves its ring and is dispatched.
Take(c) ==
  /\ spdk_pc = "idle" /\ req[c] = "queued"
  /\ req' = [req EXCEPT ![c] = "taken"]
  /\ serving' = c
  /\ spdk_pc' = "start"
  /\ UNCHANGED <<store, pc, call, ctx, outcome, op>>

Dispatched(c, o) == spdk_pc = "start" /\ serving = c /\ call[c].op = o

\* The handler ends with a result, and has started nothing.
Ends(c, code, info) ==
  /\ ctx' = [ctx EXCEPT ![c] = [done |-> TRUE, rc |-> code, info |-> info]]
  /\ spdk_pc' = "finish"
  /\ UNCHANGED <<store, callVars, serving, op>>

\* The operation for SPDK: pool and volume as the handler found them.
Operation(c, p, n, new, size) ==
  [op |-> call[c].op, dev |-> call[c].dev, pool |-> p, name |-> n, new |-> new,
   size |-> size]

\* SPDK has accepted the operation and the handler starts to poll.
Starts(c, k) ==
  /\ op' = [by |-> c, does |-> k]
  /\ spdk_pc' = "poll"
  /\ UNCHANGED <<store, callVars, ctx, serving>>

CreatePoolOnThread(c) ==
  LET k == Operation(c, call[c].pool, NoName, NoName, 0)
  IN  /\ Dispatched(c, "create_pool")
      /\ \/ k.dev \notin store.devices /\ Ends(c, "missing", {})
         \/ k.dev \in store.devices /\ (Starts(c, k) \/ Ends(c, "refused", {}))

DestroyPoolOnThread(c) ==
  LET k == Operation(c, call[c].pool, NoName, NoName, 0)
  IN  /\ Dispatched(c, "destroy_pool")
      /\ \/ k.pool \notin DOMAIN store.base /\ Ends(c, "missing", {})
         \/ k.pool \in DOMAIN store.base /\ (Starts(c, k) \/ Ends(c, "refused", {}))

CreateOnThread(c) ==
  LET k == Operation(c, call[c].pool, call[c].name, NoName, Bytes(call[c].mb))
  IN  /\ Dispatched(c, "create")
      /\ \/ k.pool \notin DOMAIN store.base /\ Ends(c, "missing", {})
         \/ k.pool \in DOMAIN store.base /\ (Starts(c, k) \/ Ends(c, "refused", {}))

\* Where a handler finds the volume the call names: pool and volume.
At(c) == Parsed(Full(call[c].pool, call[c].name))

Found(c) == At(c) # <<>> /\ Lookup(store, At(c)[1], At(c)[2]) # {}

\* The lookups at the start of the volume handlers, when one of them fails.
NotFound(c) ==
  \/ At(c) = <<>> /\ Ends(c, "invalid", {})
  \/ At(c) # <<>> /\ Lookup(store, At(c)[1], At(c)[2]) = {} /\ Ends(c, "missing", {})

DestroyOnThread(c) ==
  /\ Dispatched(c, "destroy")
  /\ NotFound(c) \/ (Found(c) /\ Starts(c, Operation(c, At(c)[1], At(c)[2], NoName, 0)))

SnapshotOnThread(c) ==
  /\ Dispatched(c, "snapshot")
  /\ NotFound(c) \/ (Found(c) /\ Starts(c, Operation(c, At(c)[1], At(c)[2], call[c].new, 0)))

CloneOnThread(c) ==
  /\ Dispatched(c, "clone")
  /\ NotFound(c) \/ (Found(c) /\ Starts(c, Operation(c, At(c)[1], At(c)[2], call[c].new, 0)))

\* The new name is parsed too: the volume stays in its pool.
RenameOnThread(c) ==
  LET to == Parsed(Full(call[c].newpool, call[c].new))
      stays == to # <<>> /\ to[1] = At(c)[1]
  IN  /\ Dispatched(c, "rename")
      /\ \/ NotFound(c)
         \/ Found(c) /\ ~stays /\ Ends(c, "invalid", {})
         \/ Found(c) /\ stays /\ Starts(c, Operation(c, At(c)[1], At(c)[2], to[2], 0))

ResizeOnThread(c) ==
  /\ Dispatched(c, "resize")
  /\ \/ NotFound(c)
     \/ Found(c) /\ Starts(c, Operation(c, At(c)[1], At(c)[2], NoName, Bytes(call[c].mb)))

GetInfoOnThread(c) ==
  /\ Dispatched(c, "get_info")
  /\ \/ NotFound(c)
     \/ Found(c) /\ Ends(c, "ok", Lookup(store, At(c)[1], At(c)[2]))

\* SPDK may not have the device of a pool any more.
GetPoolInfoOnThread(c) ==
  LET p == call[c].pool
  IN  /\ Dispatched(c, "get_pool_info")
      /\ \/ p \notin DOMAIN store.base /\ Ends(c, "missing", {})
         \/ p \in DOMAIN store.base /\ store.base[p] \in store.devices
              /\ Ends(c, "ok", {store.base[p]})
         \/ p \in DOMAIN store.base /\ store.base[p] \notin store.devices
              /\ Ends(c, "refused", {})

\* xbdev_device_remove_on_thread: the module's delete function answers at once.
RemoveDeviceOnThread(c) ==
  LET d == call[c].dev
  IN  /\ Dispatched(c, "remove_device")
      /\ \/ d \notin store.devices /\ Ends(c, "missing", {})
         \/ d \in store.devices /\ Ends(c, "refused", {})
         \/ /\ d \in store.devices /\ d \in Removable
            /\ store' = [store EXCEPT !.devices = @ \ {d}]
            /\ ctx' = [ctx EXCEPT ![c] = [done |-> TRUE, rc |-> "ok", info |-> {}]]
            /\ spdk_pc' = "finish"
            /\ UNCHANGED <<callVars, serving, op>>

\* Mutant of OperationEnds: the result is dropped.
OperationEndsOk(ok) ==
  /\ spdk_pc = "poll" /\ op # NoRequest
  /\ \/ ok /\ ~Missing(store, op.does) /\ store' \in Accepted(store, op.does)
     \/ ~ok /\ UNCHANGED store
  /\ ctx' = [ctx EXCEPT ![op.by] = [done |-> TRUE, rc |-> "ok", info |-> {}]]
  /\ op' = NoRequest
  /\ UNCHANGED <<callVars, spdk_pc, serving>>

\* Mutant of OperationEnds: done is set only when the operation succeeds.
OperationEndsDone(ok) ==
  /\ spdk_pc = "poll" /\ op # NoRequest
  /\ \/ ok /\ ~Missing(store, op.does) /\ store' \in Accepted(store, op.does)
     \/ ~ok /\ UNCHANGED store
  /\ ctx' = [ctx EXCEPT ![op.by] =
               [done |-> ok, rc |-> IF ok THEN "ok" ELSE "refused", info |-> {}]]
  /\ op' = NoRequest
  /\ UNCHANGED <<callVars, spdk_pc, serving>>

\* lvs_op_complete, lvol_create_complete and lvol_op_complete, called by SPDK when
\* the handler polls.
OperationEnds(ok) ==
  /\ spdk_pc = "poll" /\ op # NoRequest
  /\ \/ ok /\ ~Missing(store, op.does) /\ store' \in Accepted(store, op.does)
     \/ ~ok /\ UNCHANGED store
  /\ ctx' = [ctx EXCEPT ![op.by] =
               [done |-> TRUE, rc |-> IF ok THEN "ok" ELSE "refused", info |-> {}]]
  /\ op' = NoRequest
  /\ UNCHANGED <<callVars, spdk_pc, serving>>

\* Mutant of PollEnds: one poll instead of a loop.
PollOnce(c) ==
  /\ spdk_pc = "poll" /\ serving = c
  /\ spdk_pc' = "finish"
  /\ UNCHANGED <<store, callVars, ctx, serving, op>>

PollEnds(c) ==
  /\ spdk_pc = "poll" /\ serving = c
  /\ ctx[c].done
  /\ spdk_pc' = "finish"
  /\ UNCHANGED <<store, callVars, ctx, serving, op>>

\* The handler has returned: the request is marked complete.
Complete(c) ==
  /\ spdk_pc = "finish" /\ serving = c
  /\ req' = [req EXCEPT ![c] = "done"]
  /\ serving' = Nobody
  /\ spdk_pc' = "idle"
  /\ UNCHANGED <<store, pc, call, ctx, outcome, op>>

\* A device goes away, then its pool; SPDK notices when the thread polls.
DeviceEvent ==
  /\ spdk_pc \in {"idle", "poll"}
  /\ store' \in Pulled(store) \cup Dropped(store)
  /\ UNCHANGED <<callVars, ctx, spdkVars>>
-----------------------------------------------------------------------------
Start(c) ==
  \/ CreatePool(c) \/ DestroyPool(c) \/ Create(c) \/ Destroy(c) \/ Snapshot(c)
  \/ Clone(c) \/ Resize(c) \/ GetInfo(c) \/ GetPoolInfo(c) \/ Rename(c) \/ RemoveDevice(c)

ClientStep(c) == Submit(c) \/ Return(c)

Handler(c) ==
  \/ CreatePoolOnThread(c) \/ DestroyPoolOnThread(c) \/ CreateOnThread(c)
  \/ DestroyOnThread(c) \/ SnapshotOnThread(c) \/ CloneOnThread(c) \/ RenameOnThread(c)
  \/ ResizeOnThread(c) \/ GetInfoOnThread(c) \/ GetPoolInfoOnThread(c)
  \/ RemoveDeviceOnThread(c) \/ PollEnds(c) \/ Complete(c)

Next ==
  \/ \E c \in Clients : Start(c) \/ ClientStep(c) \/ Leave(c) \/ Take(c) \/ Handler(c)
  \/ \E ok \in BOOLEAN : OperationEnds(ok)
  \/ DeviceEvent

Spec == Init /\ [][Next]_vars

(***************************************************************************)
(* Calls keep running, the SPDK thread keeps polling, and SPDK completes   *)
(* every operation.  The ring is a FIFO queue and the thread is idle again *)
(* and again, so every request is taken.                                   *)
(***************************************************************************)
Fairness ==
  /\ \A c \in Clients : WF_vars(ClientStep(c)) /\ SF_vars(Take(c)) /\ WF_vars(Handler(c))
  /\ WF_vars(\E ok \in BOOLEAN : OperationEnds(ok))

FairSpec == Spec /\ Fairness
-----------------------------------------------------------------------------
(***************************************************************************)
(* Properties.                                                             *)
(***************************************************************************)

\* Types, and that the requests taken are the one being served.
TypeOK ==
  /\ store.devices \subseteq Devices
  /\ pc \in [Clients -> {"idle", "request", "wait", "returned"}]
  /\ call \in [Clients -> Arguments \cup {NoRequest}]
  /\ \A c \in Clients : ctx[c].done \in BOOLEAN
  /\ req \in [Clients -> {"none", "queued", "taken", "done"}]
  /\ outcome \in [Clients -> {"ok", "missing", "invalid", "refused", "busy"}]
  /\ spdk_pc \in {"idle", "start", "poll", "finish"}
  /\ serving \in Clients \cup {Nobody}
  /\ {c \in Clients : req[c] = "taken"} = {serving} \ {Nobody}

(***************************************************************************)
(* The callback of an operation writes through pointers kept in the        *)
(* handler's frame to a context in the caller's frame: while SPDK has an   *)
(* operation, its handler polls, for a caller that waits, and has not seen *)
(* its end.  lvol.c:147-170 and its like.                                  *)
(***************************************************************************)
CallbackHasItsFrames ==
  op # NoRequest =>
    /\ spdk_pc = "poll" /\ serving = op.by
    /\ pc[op.by] = "wait" /\ req[op.by] = "taken"
    /\ ~ctx[op.by].done

(***************************************************************************)
(* Every call returns.                                                     *)
(***************************************************************************)
CallReturns == \A c \in Clients : pc[c] = "request" ~> pc[c] = "returned"

(***************************************************************************)
(* The calls are atomic: LvolCatalogue, with the answer of a call in its   *)
(* context once done is set, and in its return value once it has returned. *)
(***************************************************************************)
Meant(k) ==
  [op |-> k.op, dev |-> k.dev, pool |-> k.pool, name |-> k.name, new |-> k.new,
   size |-> k.mb * Mega,
   valid |-> /\ k.op \in OnVolume => k.pool # NoName
             /\ k.op = "rename" => k.newpool = k.pool]

ASSUME RequestAssumption == \A k \in Arguments : Meant(k) # NoRequest

Asked == [c \in Clients |-> IF pc[c] = "idle" THEN NoRequest ELSE Meant(call[c])]
Answer ==
  [c \in Clients |->
     IF pc[c] = "returned" THEN [code |-> outcome[c], told |-> ctx[c].info]
     ELSE IF pc[c] = "wait" /\ ctx[c].done THEN [code |-> ctx[c].rc, told |-> ctx[c].info]
     ELSE [code |-> "pending", told |-> {}]]

Catalogue == INSTANCE LvolCatalogue WITH
  Requests <- {Meant(k) : k \in Arguments}, asked <- Asked, answer <- Answer

CallsAreAtomic == Catalogue!Spec
=============================================================================
