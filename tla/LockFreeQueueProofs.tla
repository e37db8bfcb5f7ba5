------------------------- MODULE LockFreeQueueProofs -------------------------
(***************************************************************************)
(* Theorems about LockFreeQueue, for every number of clients, rings, cells *)
(* and slots: the pool accounts for its slots; with no more clients than   *)
(* rings the rings implement bounded FIFO queues although neither side     *)
(* takes a lock; and then, when requests are asynchronous and their        *)
(* handlers mark them, the pending counters agree with the rings.          *)
(***************************************************************************)
EXTENDS LockFreeQueue, FiniteSetTheorems, SequenceTheorems, TLAPS

-----------------------------------------------------------------------------
(***************************************************************************)
(* Types and the pool.                                                     *)
(***************************************************************************)

\* A call has a slot from its allocation to its end.
HasSlot(c) == slot[c] # NoSlot <=> pc[c] \notin {"idle", "alloc"}

\* A call knows its ring once its request is filled in.
HasQueue(c) == pc[c] \notin {"idle", "alloc", "prepare"} => my_queue[c] \in Queues

\* The inductive invariant.  That slots are not shared needs that a call which has
\* none to free frees none; the types of the ring steps need the ring of the call.
LInv ==
  /\ TypeOK
  /\ PoolAgrees
  /\ \A c \in Clients : HasSlot(c) /\ HasQueue(c)

UsedFlags == {s \in Slots : used_flags[s]}

\* The pool is finite, so the number of its used slots is a number up to its size.
LEMMA UsedFlagsSize ==
  ASSUME NEW S \in SUBSET Slots
  PROVE  IsFiniteSet(S) /\ Cardinality(S) \in 0 .. PoolSize
<1>1. IsFiniteSet(Slots) /\ Cardinality(Slots) = PoolSize
  BY SizesAssumption, FS_Interval DEF Slots
<1>2. IsFiniteSet(S) /\ Cardinality(S) <= Cardinality(Slots) /\ Cardinality(S) \in Nat
  BY <1>1, FS_Subset, FS_CardinalityType
<1> QED BY <1>1, <1>2, SizesAssumption

\* Indices stay inside the ring, counters below their modulus, rings are dealt out in
\* turn.
LEMMA ModuloTypes ==
  /\ \A i \in Cells : Following(i) \in Cells
  /\ \A p \in Int : p % CounterMod \in 0 .. CounterMod - 1
  /\ \A q \in Queues : (q + 1) % NumQueues \in Queues
  /\ 0 \in Cells /\ 0 \in Queues /\ 0 \in 0 .. CounterMod - 1 /\ 0 \in 0 .. PoolSize
<1>1. \A i \in Cells : Following(i) \in Cells
  BY SizesAssumption DEF Cells, Following
<1>2. \A p \in Int : p % CounterMod \in 0 .. CounterMod - 1
  BY SizesAssumption
<1>3. \A q \in Queues : (q + 1) % NumQueues \in Queues
  BY SizesAssumption DEF Queues
<1>4. 0 \in Cells /\ 0 \in Queues /\ 0 \in 0 .. CounterMod - 1 /\ 0 \in 0 .. PoolSize
  BY SizesAssumption DEF Cells, Queues
<1> QED BY <1>1, <1>2, <1>3, <1>4

LEMMA InitLInv == Init => LInv
<1> SUFFICES ASSUME Init PROVE LInv
  OBVIOUS
<1>1. TypeOK
  <2>1. /\ buffer \in [Queues -> [Cells -> Slots \cup {NoSlot}]]
        /\ my_queue \in [Clients -> Queues \cup {NoQueue}]
    BY DEF Init
  <2>2. /\ initialized \in BOOLEAN
        /\ status \in [Queues -> {"uninit", "ready", "stopping"}]
        /\ head \in [Queues -> Cells] /\ tail \in [Queues -> Cells]
        /\ pending \in [Queues -> 0 .. CounterMod - 1]
        /\ next_queue \in Queues /\ at \in Queues /\ fini_q \in Queues
        /\ count \in 0 .. PoolSize /\ total_pending \in 0 .. CounterMod - 1
    BY ModuloTypes DEF Init
  <2>3. /\ used_flags \in [Slots -> BOOLEAN] /\ sync_req \in [Slots -> BOOLEAN]
        /\ answer \in [Slots -> {"marks", "silent"}] /\ done \in [Slots -> BOOLEAN]
    BY DEF Init
  <2>4. /\ pc \in [Clients -> Locations] /\ op \in [Clients -> {"sync", "async"}]
        /\ slot \in [Clients -> Slots \cup {NoSlot}] /\ seen_head \in [Clients -> Cells]
        /\ spdk_pc \in SpdkStates /\ cur \in Slots \cup {NoSlot} /\ fini_pc \in FiniStates
    BY ModuloTypes DEF Init, Locations, SpdkStates, FiniStates
  <2> QED BY <2>1, <2>2, <2>3, <2>4 DEF TypeOK
<1>2. PoolAgrees
  <2>1. UsedFlags = {}
    BY DEF Init, UsedFlags
  <2> QED BY <2>1, FS_EmptySet DEF Init, PoolAgrees, UsedFlags
<1>3. \A c \in Clients : HasSlot(c) /\ HasQueue(c)
  BY DEF Init, HasSlot, HasQueue
<1> QED BY <1>1, <1>2, <1>3 DEF LInv

\* A step that leaves the pool and what the calls hold alone keeps them in agreement.
LEMMA PoolFrame ==
  ASSUME PoolAgrees, UNCHANGED poolVars, initialized' => initialized,
         \A c \in Clients : slot'[c] = slot[c] \/ slot'[c] = NoSlot
  PROVE  PoolAgrees'
BY DEF PoolAgrees, poolVars

\* alloc_request_internal hands out a slot that is free.
LEMMA AllocateLInv ==
  ASSUME LInv, NEW c \in Clients, Allocate(c)
  PROVE  LInv'
<1>1. TypeOK /\ PoolAgrees /\ \A d \in Clients : HasSlot(d) /\ HasQueue(d)
  BY DEF LInv
<1>2. PICK s \in Slots :
        /\ ~used_flags[s]
        /\ used_flags' = [used_flags EXCEPT ![s] = TRUE]
        /\ slot' = [slot EXCEPT ![c] = s]
  BY DEF Allocate
<1>3. /\ pc[c] = "alloc" /\ initialized /\ count < PoolSize /\ count' = count + 1
      /\ pc' = [pc EXCEPT ![c] = "prepare"]
      /\ UNCHANGED <<initialized, status, ringVars, pending, tlsVars, reqVars, op,
                     seen_head, spdkVars, finiVars>>
  BY DEF Allocate
<1>4. TypeOK'
  <2>1. count' \in 0 .. PoolSize
    <3>1. count \in 0 .. PoolSize
      BY <1>1 DEF TypeOK
    <3> QED BY <3>1, <1>3, SizesAssumption
  <2>2. used_flags' \in [Slots -> BOOLEAN] /\ slot' \in [Clients -> Slots \cup {NoSlot}]
    BY <1>1, <1>2 DEF TypeOK
  <2>3. pc' \in [Clients -> Locations]
    BY <1>1, <1>3 DEF TypeOK, Locations
  <2> QED BY <2>1, <2>2, <2>3, <1>1, <1>3
             DEF TypeOK, ringVars, tlsVars, reqVars, spdkVars, finiVars
<1>5. PoolAgrees'
  <2>1. UsedFlags' = UsedFlags \cup {s} /\ s \notin UsedFlags
    BY <1>1, <1>2 DEF UsedFlags, TypeOK
  <2>2. count' = Cardinality(UsedFlags')
    <3>1. IsFiniteSet(UsedFlags)
      BY UsedFlagsSize DEF UsedFlags
    <3>2. Cardinality(UsedFlags') = Cardinality(UsedFlags) + 1
      BY <2>1, <3>1, FS_AddElement
    <3> QED BY <3>2, <1>1, <1>3 DEF PoolAgrees, UsedFlags
  <2>3. \A d \in Clients : slot[d] # NoSlot => used_flags[slot[d]] /\ slot[d] \in Slots
    BY <1>1, <1>3 DEF PoolAgrees, TypeOK
  <2>4. \A d \in Clients : slot[d] # s
    BY <2>3, <1>2, NullAssumption
  <2>5. ASSUME NEW d \in Clients, slot'[d] # NoSlot
        PROVE  used_flags'[slot'[d]] /\ \A e \in Clients \ {d} : slot'[e] # slot'[d]
    <3>1. CASE d = c
      <4>1. slot'[d] = s /\ \A e \in Clients \ {d} : slot'[e] = slot[e]
        BY <3>1, <1>1, <1>2 DEF TypeOK
      <4> QED BY <4>1, <2>4, <1>1, <1>2 DEF TypeOK
    <3>2. CASE d # c
      <4>1. slot'[d] = slot[d] /\ slot[d] # s
        BY <3>2, <2>4, <1>1, <1>2 DEF TypeOK
      <4>2. used_flags'[slot'[d]]
        BY <4>1, <2>3, <2>5, <1>1, <1>2 DEF TypeOK
      <4>3. \A e \in Clients \ {d} : slot'[e] = slot[e] \/ slot'[e] = s
        BY <1>1, <1>2 DEF TypeOK
      <4>4. \A e \in Clients \ {d} : slot[e] # slot[d]
        BY <4>1, <2>5, <1>1, <1>3 DEF PoolAgrees
      <4> QED BY <4>1, <4>2, <4>3, <4>4
    <3> QED BY <3>1, <3>2
  <2> QED BY <2>2, <2>5 DEF PoolAgrees, UsedFlags
<1>6. ASSUME NEW d \in Clients PROVE HasSlot(d)' /\ HasQueue(d)'
  <2>1. CASE d = c
    <3>1. slot'[c] = s /\ pc'[c] = "prepare" /\ s # NoSlot
      BY <1>1, <1>2, <1>3, NullAssumption DEF TypeOK
    <3> QED BY <2>1, <3>1 DEF HasSlot, HasQueue
  <2>2. CASE d # c
    <3>1. slot'[d] = slot[d] /\ pc'[d] = pc[d] /\ my_queue'[d] = my_queue[d]
      BY <2>2, <1>1, <1>2, <1>3 DEF TypeOK, tlsVars
    <3> QED BY <3>1, <1>1 DEF HasSlot, HasQueue
  <2> QED BY <2>1, <2>2
<1> QED BY <1>4, <1>5, <1>6 DEF LInv

\* xbdev_request_free.
LEMMA ReleaseLInv ==
  ASSUME LInv, NEW c \in Clients, Release(c)
  PROVE  LInv'
<1>1. TypeOK /\ PoolAgrees /\ \A d \in Clients : HasSlot(d) /\ HasQueue(d)
  BY DEF LInv
<1> DEFINE s == slot[c]
<1>2. /\ pc[c] = "release" /\ pc' = [pc EXCEPT ![c] = "idle"]
      /\ slot' = [slot EXCEPT ![c] = NoSlot]
      /\ UNCHANGED <<initialized, status, ringVars, pending, tlsVars, reqVars, op,
                     seen_head, spdkVars, finiVars>>
      /\ \/ /\ initialized /\ used_flags[s]
            /\ used_flags' = [used_flags EXCEPT ![s] = FALSE]
            /\ count' = count - 1
         \/ UNCHANGED poolVars
  BY DEF Release
<1>3. s \in Slots /\ s # NoSlot
  BY <1>1, <1>2 DEF HasSlot, TypeOK
<1>4. /\ slot'[c] = NoSlot /\ pc'[c] = "idle"
      /\ \A d \in Clients \ {c} : slot'[d] = slot[d] /\ pc'[d] = pc[d]
  BY <1>1, <1>2 DEF TypeOK
<1> HIDE DEF s
<1>5. PoolAgrees' /\ count' \in 0 .. PoolSize /\ used_flags' \in [Slots -> BOOLEAN]
  <2>1. CASE /\ initialized /\ used_flags[s]
             /\ used_flags' = [used_flags EXCEPT ![s] = FALSE]
             /\ count' = count - 1
    <3>1. UsedFlags' = UsedFlags \ {s} /\ s \in UsedFlags
      BY <2>1, <1>1, <1>3 DEF UsedFlags, TypeOK
    <3>2. IsFiniteSet(UsedFlags)
      BY UsedFlagsSize DEF UsedFlags
    <3>3. Cardinality(UsedFlags') = Cardinality(UsedFlags) - 1
      BY <3>1, <3>2, FS_RemoveElement
    <3>4. count' = Cardinality(UsedFlags')
      BY <3>3, <2>1, <1>1 DEF PoolAgrees, UsedFlags
    <3>5. ASSUME NEW d \in Clients, slot'[d] # NoSlot
          PROVE  used_flags'[slot'[d]] /\ \A e \in Clients \ {d} : slot'[e] # slot'[d]
      <4>1. d # c /\ slot'[d] = slot[d]
        BY <3>5, <1>4
      <4>2. used_flags[slot[d]] /\ \A e \in Clients \ {d} : slot[e] # slot[d]
        BY <4>1, <3>5, <2>1, <1>1 DEF PoolAgrees
      <4>3. slot[d] # s /\ slot[d] \in Slots
        BY <4>1, <4>2, <3>5, <1>1 DEF s, TypeOK
      <4>4. used_flags'[slot[d]]
        BY <4>2, <4>3, <2>1, <1>1 DEF TypeOK
      <4> QED BY <4>1, <4>2, <4>4, <3>5, <1>4
    <3>6. PoolAgrees'
      BY <3>4, <3>5 DEF PoolAgrees, UsedFlags
    <3>7. count' \in 0 .. PoolSize
      BY <3>4, UsedFlagsSize DEF UsedFlags
    <3>8. used_flags' \in [Slots -> BOOLEAN]
      BY <2>1, <1>1 DEF TypeOK
    <3> QED BY <3>6, <3>7, <3>8
  <2>2. CASE UNCHANGED poolVars
    <3>1. PoolAgrees'
      BY <2>2, <1>1, <1>2, <1>4, PoolFrame
    <3> QED BY <3>1, <2>2, <1>1 DEF TypeOK, poolVars
  <2> QED BY <2>1, <2>2, <1>2 DEF s
<1>6. TypeOK'
  <2>1. pc' \in [Clients -> Locations] /\ slot' \in [Clients -> Slots \cup {NoSlot}]
    BY <1>1, <1>2 DEF TypeOK, Locations
  <2> QED BY <2>1, <1>1, <1>2, <1>5 DEF TypeOK, ringVars, tlsVars, reqVars, spdkVars, finiVars
<1>7. ASSUME NEW d \in Clients PROVE HasSlot(d)' /\ HasQueue(d)'
  <2>1. my_queue' = my_queue
    BY <1>2 DEF tlsVars
  <2> QED BY <2>1, <1>1, <1>4 DEF HasSlot, HasQueue
<1> QED BY <1>5, <1>6, <1>7 DEF LInv

\* The first half of a call: its slot is filled in, its ring is found and asked.
LEMMA PreparingLInv ==
  ASSUME LInv, NEW c \in Clients,
         \/ \E kind \in Ops : Call(c, kind)
         \/ AllocateFails(c)
         \/ \E kind \in Answers : Prepare(c, kind)
         \/ CheckReady(c) \/ LoadHead(c) \/ CheckFull(c)
  PROVE  LInv'
<1>1. TypeOK /\ PoolAgrees /\ \A d \in Clients : HasSlot(d) /\ HasQueue(d)
  BY DEF LInv
<1>2. UNCHANGED <<initialized, status, ringVars, pending, poolVars, slot, spdkVars, finiVars>>
  BY DEF Call, AllocateFails, Prepare, CheckReady, LoadHead, CheckFull
<1>3. PoolAgrees'
  BY <1>1, <1>2, PoolFrame
<1>4. \A d \in Clients \ {c} : pc'[d] = pc[d] /\ my_queue'[d] = my_queue[d]
  BY <1>1 DEF TypeOK, Call, AllocateFails, Prepare, GetQueue, CheckReady, LoadHead, CheckFull, tlsVars
<1>5. /\ pc'[c] \in Locations
      /\ pc'[c] \in {"idle", "alloc"} <=> pc[c] \in {"idle", "alloc"}
      /\ pc' = [pc EXCEPT ![c] = pc'[c]]
  BY <1>1 DEF TypeOK, Call, AllocateFails, Prepare, CheckReady, LoadHead, CheckFull, Locations
<1>6. pc'[c] \notin {"idle", "alloc", "prepare"} => my_queue'[c] \in Queues
  <2>1. CASE \E kind \in Answers : Prepare(c, kind)
    BY <2>1, <1>1 DEF Prepare, GetQueue, TypeOK, tlsVars
  <2>2. CASE (\E kind \in Ops : Call(c, kind)) \/ AllocateFails(c)
    BY <2>2, <1>1 DEF Call, AllocateFails, TypeOK
  <2>3. CASE CheckReady(c) \/ LoadHead(c) \/ CheckFull(c)
    BY <2>3, <1>1 DEF CheckReady, LoadHead, CheckFull, TypeOK, tlsVars, HasQueue
  <2> QED BY <2>1, <2>2, <2>3
<1>7. \A d \in Clients : HasSlot(d)' /\ HasQueue(d)'
  BY <1>1, <1>2, <1>4, <1>5, <1>6 DEF HasSlot, HasQueue
<1>8. TypeOK'
  <2>1. pc' \in [Clients -> Locations]
    BY <1>1, <1>5 DEF TypeOK
  <2>2. op' \in [Clients -> {"sync", "async"}]
    BY <1>1, OpsAssumption DEF TypeOK, Call, AllocateFails, Prepare, CheckReady, LoadHead, CheckFull
  <2>3. next_queue' \in Queues /\ my_queue' \in [Clients -> Queues \cup {NoQueue}]
    BY <1>1, ModuloTypes
       DEF TypeOK, Call, AllocateFails, Prepare, GetQueue, CheckReady, LoadHead, CheckFull, tlsVars
  <2>4. /\ sync_req' \in [Slots -> BOOLEAN] /\ done' \in [Slots -> BOOLEAN]
        /\ answer' \in [Slots -> {"marks", "silent"}]
    <3>1. CASE \E kind \in Answers : Prepare(c, kind)
      <4>1. PICK kind \in Answers : Clear(slot[c], op[c] = "sync", kind)
        BY <3>1 DEF Prepare
      <4>2. kind \in {"marks", "silent"}
        BY AnswersAssumption
      <4> QED BY <4>1, <4>2, <1>1 DEF Clear, TypeOK
    <3>2. CASE UNCHANGED reqVars
      BY <3>2, <1>1 DEF TypeOK, reqVars
    <3> QED BY <3>1, <3>2 DEF Call, AllocateFails, CheckReady, LoadHead, CheckFull
  <2>5. seen_head' \in [Clients -> Cells]
    <3>1. CASE LoadHead(c)
      <4>1. head[my_queue[c]] \in Cells
        BY <3>1, <1>1 DEF LoadHead, HasQueue, TypeOK
      <4> QED BY <4>1, <3>1, <1>1 DEF LoadHead, TypeOK
    <3>2. CASE CheckFull(c)
      BY <3>2, <1>1, ModuloTypes DEF CheckFull, TypeOK
    <3>3. CASE ~LoadHead(c) /\ ~CheckFull(c)
      BY <3>3, <1>1 DEF TypeOK, Call, AllocateFails, Prepare, CheckReady
    <3> QED BY <3>1, <3>2, <3>3
  <2> QED BY <2>1, <2>2, <2>3, <2>4, <2>5, <1>1, <1>2 DEF TypeOK, ringVars, poolVars, spdkVars, finiVars
<1> QED BY <1>3, <1>7, <1>8 DEF LInv

\* The second half of a call: ring_enqueue's stores, the counter, the wait.
LEMMA PublishingLInv ==
  ASSUME LInv, NEW c \in Clients,
         StoreRequest(c) \/ PublishHead(c) \/ CountPending(c) \/ WaitLoop(c)
  PROVE  LInv'
<1>1. TypeOK /\ PoolAgrees /\ \A d \in Clients : HasSlot(d) /\ HasQueue(d)
  BY DEF LInv
<1>2. /\ UNCHANGED <<initialized, status, tail, tlsVars, poolVars, reqVars, op, spdkVars,
                     finiVars>>
      /\ pc[c] \in {"store", "publish", "count", "lock"}
      /\ pc'[c] \in {"publish", "count", "lock", "idle", "asleep", "release"}
      /\ pc' = [pc EXCEPT ![c] = pc'[c]]
  BY <1>1 DEF StoreRequest, PublishHead, CountPending, WaitLoop, ringVars, TypeOK
<1>3. /\ slot' = [slot EXCEPT ![c] = slot'[c]]
      /\ slot'[c] = IF pc'[c] = "idle" THEN NoSlot ELSE slot[c]
  BY <1>1 DEF StoreRequest, PublishHead, CountPending, WaitLoop, TypeOK
<1>4. my_queue[c] \in Queues /\ slot[c] \in Slots
  BY <1>1, <1>2 DEF HasSlot, HasQueue, TypeOK
<1>5. PoolAgrees'
  <2>1. \A d \in Clients : slot'[d] = slot[d] \/ slot'[d] = NoSlot
    BY <1>1, <1>3 DEF TypeOK
  <2> QED BY <2>1, <1>1, <1>2, PoolFrame
<1>6. ASSUME NEW d \in Clients PROVE HasSlot(d)' /\ HasQueue(d)'
  <2>1. my_queue' = my_queue
    BY <1>2 DEF tlsVars
  <2>2. CASE d = c
    BY <2>1, <2>2, <1>2, <1>3, <1>4, NullAssumption DEF HasSlot, HasQueue
  <2>3. CASE d # c
    <3>1. slot'[d] = slot[d] /\ pc'[d] = pc[d]
      BY <2>3, <1>1, <1>2, <1>3 DEF TypeOK
    <3> QED BY <3>1, <2>1, <1>1 DEF HasSlot, HasQueue
  <2> QED BY <2>2, <2>3
<1>7. TypeOK'
  <2>1. pc' \in [Clients -> Locations] /\ slot' \in [Clients -> Slots \cup {NoSlot}]
    <3>1. pc'[c] \in Locations /\ slot'[c] \in Slots \cup {NoSlot}
      BY <1>2, <1>3, <1>4 DEF Locations
    <3>2. \A d \in Clients : pc[d] \in Locations /\ slot[d] \in Slots \cup {NoSlot}
      BY <1>1 DEF TypeOK
    <3>3. pc' \in [Clients -> Locations]
      BY <1>1, <1>2, <3>1, <3>2 DEF TypeOK
    <3>4. slot' \in [Clients -> Slots \cup {NoSlot}]
      BY <1>1, <1>3, <3>1, <3>2 DEF TypeOK
    <3> QED BY <3>3, <3>4
  <2>2. buffer' \in [Queues -> [Cells -> Slots \cup {NoSlot}]]
    <3>1. CASE StoreRequest(c)
      <4>1. seen_head[c] \in Cells
        BY <1>1 DEF TypeOK
      <4> QED BY <4>1, <3>1, <1>1, <1>4 DEF StoreRequest, TypeOK
    <3>2. CASE buffer' = buffer
      BY <3>2, <1>1 DEF TypeOK
    <3> QED BY <3>1, <3>2 DEF PublishHead, CountPending, WaitLoop, ringVars
  <2>3. head' \in [Queues -> Cells] /\ seen_head' \in [Clients -> Cells]
    <3>1. CASE PublishHead(c)
      BY <3>1, <1>1, ModuloTypes DEF PublishHead, TypeOK
    <3>2. CASE UNCHANGED <<head, seen_head>>
      BY <3>2, <1>1 DEF TypeOK
    <3> QED BY <3>1, <3>2 DEF StoreRequest, CountPending, WaitLoop, ringVars
  <2>4. pending' \in [Queues -> 0 .. CounterMod - 1]
    <3>1. CASE CountPending(c)
      <4>1. Plus(my_queue[c], 1) \in 0 .. CounterMod - 1
        BY <1>1, <1>4, ModuloTypes DEF Plus, TypeOK
      <4> QED BY <4>1, <3>1, <1>1 DEF CountPending, TypeOK
    <3>2. CASE pending' = pending
      BY <3>2, <1>1 DEF TypeOK
    <3> QED BY <3>1, <3>2 DEF StoreRequest, PublishHead, WaitLoop
  <2> QED BY <2>1, <2>2, <2>3, <2>4, <1>1, <1>2
             DEF TypeOK, tlsVars, poolVars, reqVars, spdkVars, finiVars
<1> QED BY <1>5, <1>6, <1>7 DEF LInv

\* A wake-up of the threads that sleep on a ring: they go on in their wait loop.
LEMMA WokenLInv ==
  ASSUME TypeOK, NEW q \in Queues
  PROVE  /\ Woken(q) \in [Clients -> Locations]
         /\ \A c \in Clients :
              \/ Woken(q)[c] = pc[c]
              \/ pc[c] = "asleep" /\ Woken(q)[c] = "lock"
BY DEF TypeOK, Woken, Locations

\* The SPDK thread and the tear-down take and give no slot.
LEMMA LibraryLInv ==
  ASSUME LInv, SpdkStep \/ FiniBegin \/ FiniStep
  PROVE  LInv'
<1>1. TypeOK /\ PoolAgrees /\ \A d \in Clients : HasSlot(d) /\ HasQueue(d)
  BY DEF LInv
<1>2. /\ UNCHANGED <<buffer, head, tlsVars, poolVars, sync_req, answer, op, slot, seen_head>>
      /\ initialized' => initialized
  BY DEF SpdkStep, LookAtRing, CheckEmpty, LoadRequest, AdvanceTail, Handle, Settle, Notify,
         FiniBegin, FiniStep, FiniStop, FiniWake, FiniSum, FiniFree,
         ringVars, reqVars, clientVars
<1>3. PoolAgrees'
  BY <1>1, <1>2, PoolFrame
<1>4. /\ pc' \in [Clients -> Locations]
      /\ \A c \in Clients : pc'[c] = pc[c] \/ (pc[c] = "asleep" /\ pc'[c] = "lock")
  <2>1. CASE Notify \/ FiniWake
    <3>1. at \in Queues /\ fini_q \in Queues
      BY <1>1 DEF TypeOK
    <3> QED BY <3>1, <2>1, <1>1, WokenLInv DEF Notify, FiniWake
  <2>2. CASE pc' = pc
    BY <2>2, <1>1 DEF TypeOK
  <2> QED BY <2>1, <2>2
          DEF SpdkStep, LookAtRing, CheckEmpty, LoadRequest, AdvanceTail, Handle, Settle,
              FiniBegin, FiniStep, FiniStop, FiniSum, FiniFree, clientVars
<1>5. \A c \in Clients : HasSlot(c)' /\ HasQueue(c)'
  BY <1>1, <1>2, <1>4 DEF HasSlot, HasQueue, tlsVars
<1>6. TypeOK'
  <2>1. CASE SpdkStep
    <3>1. /\ UNCHANGED <<initialized, status, finiVars>>
      BY <2>1 DEF SpdkStep, LookAtRing, CheckEmpty, LoadRequest, AdvanceTail, Handle,
                  Settle, Notify
    <3>2. spdk_pc' \in SpdkStates
      BY <2>1, <1>1 DEF SpdkStep, LookAtRing, CheckEmpty, LoadRequest, AdvanceTail, Handle,
                        Settle, Notify, NextRing, SpdkStates, TypeOK
    <3>3. at' \in Queues
      BY <2>1, <1>1, ModuloTypes DEF SpdkStep, LookAtRing, CheckEmpty, LoadRequest,
                        AdvanceTail, Handle, Settle, Notify, NextRing, TypeOK
    <3>4. cur' \in Slots \cup {NoSlot}
      <4>1. CASE LoadRequest
        BY <4>1, <1>1 DEF LoadRequest, TypeOK
      <4> QED BY <4>1, <2>1, <1>1 DEF SpdkStep, LookAtRing, CheckEmpty, AdvanceTail, Handle,
                                      Settle, Notify, TypeOK
    <3>5. tail' \in [Queues -> Cells]
      <4>1. CASE AdvanceTail
        BY <4>1, <1>1, ModuloTypes DEF AdvanceTail, TypeOK
      <4> QED BY <4>1, <2>1, <1>1 DEF SpdkStep, LookAtRing, CheckEmpty, LoadRequest, Handle,
                                      Settle, Notify, ringVars, TypeOK
    <3>6. done' \in [Slots -> BOOLEAN]
      <4>1. CASE Handle
        BY <4>1, <1>1 DEF Handle, TypeOK
      <4> QED BY <4>1, <2>1, <1>1 DEF SpdkStep, LookAtRing, CheckEmpty, LoadRequest,
                                      AdvanceTail, Settle, Notify, reqVars, TypeOK
    <3>7. pending' \in [Queues -> 0 .. CounterMod - 1]
      <4>1. CASE Settle
        <5>1. Plus(at, -1) \in 0 .. CounterMod - 1
          BY <1>1, ModuloTypes DEF Plus, TypeOK
        <5> QED BY <5>1, <4>1, <1>1 DEF Settle, TypeOK
      <4> QED BY <4>1, <2>1, <1>1 DEF SpdkStep, LookAtRing, CheckEmpty, LoadRequest,
                                      AdvanceTail, Handle, Notify, TypeOK
    <3> QED BY <3>1, <3>2, <3>3, <3>4, <3>5, <3>6, <3>7, <1>1, <1>2, <1>4
               DEF TypeOK, tlsVars, poolVars, finiVars
  <2>2. CASE FiniBegin \/ FiniStep
    <3>1. UNCHANGED <<ringVars, pending, reqVars, spdkVars>>
      BY <2>2 DEF FiniBegin, FiniStep, FiniStop, FiniWake, FiniSum, FiniFree
    <3>2. initialized' \in BOOLEAN /\ status' \in [Queues -> {"uninit", "ready", "stopping"}]
      BY <2>2, <1>1 DEF FiniBegin, FiniStep, FiniStop, FiniWake, FiniSum, FiniFree, TypeOK
    <3>3. fini_pc' \in FiniStates
      BY <2>2, <1>1 DEF FiniBegin, FiniStep, FiniStop, FiniWake, FiniSum, FiniFree, TypeOK,
                        FiniStates
    <3>4. fini_q' \in Queues
      <4>1. fini_q \in Queues /\ (fini_q + 1 < NumQueues => fini_q + 1 \in Queues)
        BY <1>1, SizesAssumption DEF TypeOK, Queues
      <4> QED BY <4>1, <2>2, ModuloTypes
              DEF FiniBegin, FiniStep, FiniStop, FiniWake, FiniSum, FiniFree
    <3>5. total_pending' \in 0 .. CounterMod - 1
      <4>1. total_pending + pending[fini_q] \in Int
        BY <1>1 DEF TypeOK
      <4>2. (total_pending + pending[fini_q]) % CounterMod \in 0 .. CounterMod - 1
        BY <4>1, ModuloTypes
      <4> QED BY <4>2, <2>2, <1>1, ModuloTypes
              DEF FiniBegin, FiniStep, FiniStop, FiniWake, FiniSum, FiniFree, TypeOK
    <3> QED BY <3>1, <3>2, <3>3, <3>4, <3>5, <1>1, <1>2, <1>4
               DEF TypeOK, ringVars, tlsVars, poolVars, reqVars, spdkVars
  <2> QED BY <2>1, <2>2
<1> QED BY <1>3, <1>5, <1>6 DEF LInv

\* The set-up starts from an empty pool, with no call in progress.
LEMMA QueueInitLInv ==
  ASSUME LInv, QueueInit
  PROVE  LInv'
<1>1. TypeOK /\ PoolAgrees /\ \A d \in Clients : HasSlot(d) /\ HasQueue(d)
  BY DEF LInv
<1>2. TypeOK'
  <2>1. /\ buffer' \in [Queues -> [Cells -> Slots \cup {NoSlot}]]
        /\ my_queue' \in [Clients -> Queues \cup {NoQueue}]
    BY DEF QueueInit, RingsInit
  <2>2. /\ initialized' \in BOOLEAN
        /\ status' \in [Queues -> {"uninit", "ready", "stopping"}]
        /\ head' \in [Queues -> Cells] /\ tail' \in [Queues -> Cells]
        /\ pending' \in [Queues -> 0 .. CounterMod - 1]
        /\ next_queue' \in Queues /\ count' \in 0 .. PoolSize
    BY ModuloTypes DEF QueueInit, RingsInit
  <2>3. /\ used_flags' \in [Slots -> BOOLEAN] /\ sync_req' \in [Slots -> BOOLEAN]
        /\ answer' \in [Slots -> {"marks", "silent"}] /\ done' \in [Slots -> BOOLEAN]
    BY DEF QueueInit
  <2>4. UNCHANGED <<clientVars, spdkVars, finiVars>>
    BY DEF QueueInit
  <2> QED BY <2>1, <2>2, <2>3, <2>4, <1>1 DEF TypeOK, clientVars, spdkVars, finiVars
<1>3. \A c \in Clients : pc'[c] = "idle" /\ slot'[c] = NoSlot
  BY <1>1 DEF QueueInit, clientVars, HasSlot
<1>4. PoolAgrees'
  <2>1. UsedFlags' = {}
    BY DEF QueueInit, UsedFlags
  <2> QED BY <2>1, <1>3, FS_EmptySet DEF QueueInit, PoolAgrees, UsedFlags
<1>5. \A c \in Clients : HasSlot(c)' /\ HasQueue(c)'
  BY <1>3 DEF HasSlot, HasQueue
<1> QED BY <1>2, <1>4, <1>5 DEF LInv

\* Every step keeps the invariant.
LEMMA NextLInv == LInv /\ [Next]_vars => LInv'
<1> SUFFICES ASSUME LInv, [Next]_vars PROVE LInv'
  OBVIOUS
<1>1. CASE QueueInit
  BY <1>1, QueueInitLInv
<1>2. ASSUME NEW c \in Clients, (\E kind \in Ops : Call(c, kind)) \/ ClientStep(c) PROVE LInv'
  BY <1>2, AllocateLInv, ReleaseLInv, PreparingLInv, PublishingLInv DEF ClientStep
<1>3. CASE SpdkStep \/ FiniBegin \/ FiniStep
  BY <1>3, LibraryLInv
<1>4. CASE UNCHANGED vars
  BY <1>4 DEF vars, ringVars, tlsVars, poolVars, reqVars, clientVars, spdkVars, finiVars,
              LInv, TypeOK, PoolAgrees, HasSlot, HasQueue
<1> QED BY <1>1, <1>2, <1>3, <1>4 DEF Next

\* Every behaviour of the queue has values of the stated types only.
THEOREM TypeCorrect == Spec => []TypeOK
<1>1. LInv => TypeOK
  BY DEF LInv
<1> QED BY <1>1, InitLInv, NextLInv, PTL DEF Spec

\* The counter of the pool agrees with its marks, and no slot belongs to two calls:
\* alloc_request_internal and xbdev_request_free under alloc_mutex, together with the
\* set-up and the tear-down.
THEOREM PoolAccounted == Spec => []PoolAgrees
<1>1. LInv => PoolAgrees
  BY DEF LInv
<1> QED BY <1>1, InitLInv, NextLInv, PTL DEF Spec
-----------------------------------------------------------------------------
(***************************************************************************)
(* Ring indices and what lies between them, for any two indices.           *)
(***************************************************************************)
MaybeSlots == Slots \cup {NoSlot}

\* How many cells lie from index t up to index h, the k-th of them, and what cells
\* buf hold there: Contents, of any ring.
Gap(h, t)       == (h - t) % RingSize
Cell(t, k)      == (t + k - 1) % RingSize
Held(buf, h, t) == [k \in 1 .. Gap(h, t) |-> buf[Cell(t, k)]]

LEMMA ContentsHeld == \A q \in Queues : Contents(q) = Held(buffer[q], head[q], tail[q])
BY DEF Contents, Fill, Held, Gap, Cell

\* The remainders, where the code takes them: an index wraps at most once.
LEMMA FollowingValue ==
  ASSUME NEW i \in Cells
  PROVE  Following(i) = IF i + 1 < RingSize THEN i + 1 ELSE 0
<1>1. RingSize \in Nat /\ RingSize > 0 /\ i \in Nat /\ i < RingSize
  BY SizesAssumption DEF Cells
<1>2. CASE i + 1 < RingSize
  BY <1>1, <1>2 DEF Following
<1>3. CASE ~(i + 1 < RingSize)
  <2>1. i + 1 = RingSize
    BY <1>1, <1>3
  <2>2. i + 1 = RingSize * 1 + 0 /\ 0 \in 0 .. RingSize - 1
    BY <1>1, <2>1
  <2>3. (i + 1) % RingSize = 0
    BY <1>1, <2>2
  <2> QED BY <2>3, <1>3 DEF Following
<1> QED BY <1>2, <1>3

LEMMA GapValue ==
  ASSUME NEW h \in Cells, NEW t \in Cells
  PROVE  Gap(h, t) = IF h >= t THEN h - t ELSE h - t + RingSize
<1>1. /\ RingSize \in Nat /\ RingSize > 0 /\ h \in Nat /\ t \in Nat
      /\ h < RingSize /\ t < RingSize
  BY SizesAssumption DEF Cells
<1>2. CASE h >= t
  BY <1>1, <1>2 DEF Gap
<1>3. CASE ~(h >= t)
  <2> DEFINE r == h - t + RingSize
  <2>1. r \in 0 .. RingSize - 1 /\ h - t = RingSize * (-1) + r
    BY <1>1, <1>3
  <2>2. (h - t) % RingSize = r
    BY <1>1, <2>1
  <2> QED BY <2>2, <1>3 DEF Gap
<1> QED BY <1>2, <1>3

LEMMA CellValue ==
  ASSUME NEW t \in Cells, NEW k \in 1 .. RingSize
  PROVE  Cell(t, k) = IF t + k <= RingSize THEN t + k - 1 ELSE t + k - 1 - RingSize
<1>1. /\ RingSize \in Nat /\ RingSize > 0 /\ t \in Nat /\ t < RingSize
      /\ k \in Nat /\ k >= 1 /\ k <= RingSize
  BY SizesAssumption DEF Cells
<1>2. CASE t + k <= RingSize
  BY <1>1, <1>2 DEF Cell
<1>3. CASE ~(t + k <= RingSize)
  <2> DEFINE r == t + k - 1 - RingSize
  <2>1. r \in 0 .. RingSize - 1 /\ t + k - 1 = RingSize * 1 + r
    BY <1>1, <1>3
  <2>2. (t + k - 1) % RingSize = r
    BY <1>1, <2>1
  <2> QED BY <2>2, <1>3 DEF Cell
<1> QED BY <1>2, <1>3

\* The number of requests between two indices stays below the number of cells; the
\* cells are cells, and the one at the head is not among them.
LEMMA GapCells ==
  ASSUME NEW h \in Cells, NEW t \in Cells
  PROVE  /\ Gap(h, t) \in 0 .. RingSize - 1
         /\ Gap(h, t) = 0 <=> h = t
         /\ \A k \in 1 .. RingSize : Cell(t, k) \in Cells
         /\ \A k \in 1 .. Gap(h, t) : Cell(t, k) # h
<1>1. RingSize \in Nat /\ RingSize > 0
  BY SizesAssumption
<1>2. Gap(h, t) = IF h >= t THEN h - t ELSE h - t + RingSize
  BY GapValue
<1>3. \A k \in 1 .. RingSize :
        Cell(t, k) = IF t + k <= RingSize THEN t + k - 1 ELSE t + k - 1 - RingSize
  BY CellValue
<1>4. Gap(h, t) \in 0 .. RingSize - 1 /\ (Gap(h, t) = 0 <=> h = t)
  BY <1>1, <1>2 DEF Cells
<1>5. \A k \in 1 .. RingSize : Cell(t, k) \in Cells
  BY <1>1, <1>3 DEF Cells
<1>6. ASSUME NEW k \in 1 .. Gap(h, t) PROVE Cell(t, k) # h
  <2>1. k \in 1 .. RingSize
    BY <1>1, <1>4
  <2>2. Cell(t, k) = IF t + k <= RingSize THEN t + k - 1 ELSE t + k - 1 - RingSize
    BY <1>3, <2>1
  <2> DEFINE g == Gap(h, t)
             i == Cell(t, k)
  <2>3. /\ g = IF h >= t THEN h - t ELSE h - t + RingSize
        /\ i = IF t + k <= RingSize THEN t + k - 1 ELSE t + k - 1 - RingSize
        /\ k \in 1 .. g
    BY <1>2, <2>2
  <2> HIDE DEF g, i
  <2>4. i # h
    BY <1>1, <2>3 DEF Cells
  <2> QED BY <2>4 DEF i
<1> QED BY <1>4, <1>5, <1>6

\* The index of the producer moves on: one cell more, unless that makes the ring look
\* empty.
LEMMA GapPut ==
  ASSUME NEW h \in Cells, NEW t \in Cells, Following(h) # t
  PROVE  /\ Gap(Following(h), t) = Gap(h, t) + 1
         /\ Cell(t, Gap(h, t) + 1) = h
<1>1. RingSize \in Nat /\ RingSize > 0
  BY SizesAssumption
<1> DEFINE n == Following(h)
           g == Gap(h, t)
           m == Gap(n, t)
<1>2. n \in Cells /\ n = IF h + 1 < RingSize THEN h + 1 ELSE 0
  BY FollowingValue, ModuloTypes
<1>3. g = (IF h >= t THEN h - t ELSE h - t + RingSize) /\ g \in 0 .. RingSize - 1
  BY GapValue, GapCells
<1>4. m = IF n >= t THEN n - t ELSE n - t + RingSize
  BY <1>2, GapValue
<1>5. g + 1 \in 1 .. RingSize
  BY <1>1, <1>3
<1>6. Cell(t, g + 1) = IF t + (g + 1) <= RingSize THEN t + (g + 1) - 1
                                                  ELSE t + (g + 1) - 1 - RingSize
  BY <1>5, CellValue
<1>7. n # t
  OBVIOUS
<1> HIDE DEF n, g, m
<1>8. m = g + 1
  BY <1>1, <1>2, <1>3, <1>4, <1>7 DEF Cells
<1>9. Cell(t, g + 1) = h
  BY <1>1, <1>3, <1>6 DEF Cells
<1> QED BY <1>8, <1>9 DEF n, g, m

\* The index of the consumer moves on: one cell less, the others one place nearer.
LEMMA GapGet ==
  ASSUME NEW h \in Cells, NEW t \in Cells, h # t
  PROVE  /\ Gap(h, Following(t)) = Gap(h, t) - 1
         /\ Gap(h, t) >= 1 /\ Cell(t, 1) = t
         /\ \A k \in 1 .. Gap(h, t) - 1 : Cell(Following(t), k) = Cell(t, k + 1)
         /\ Following(h) # Following(t)
<1>1. RingSize \in Nat /\ RingSize > 0
  BY SizesAssumption
<1> DEFINE n == Following(t)
           g == Gap(h, t)
           m == Gap(h, n)
<1>2. n \in Cells /\ n = IF t + 1 < RingSize THEN t + 1 ELSE 0
  BY FollowingValue, ModuloTypes
<1>3. g = (IF h >= t THEN h - t ELSE h - t + RingSize) /\ g \in 0 .. RingSize - 1
  BY GapValue, GapCells
<1>4. m = IF h >= n THEN h - n ELSE h - n + RingSize
  BY <1>2, GapValue
<1>5. Cell(t, 1) = IF t + 1 <= RingSize THEN t + 1 - 1 ELSE t + 1 - 1 - RingSize
  BY <1>1, CellValue
<1>6. Following(h) = IF h + 1 < RingSize THEN h + 1 ELSE 0
  BY FollowingValue
<1>7. Following(h) # n
  BY <1>1, <1>2, <1>6 DEF Cells
<1> HIDE DEF n, g, m
<1>8. m = g - 1 /\ g >= 1
  BY <1>1, <1>2, <1>3, <1>4 DEF Cells
<1>9. ASSUME NEW k \in 1 .. g - 1
      PROVE  Cell(n, k) = Cell(t, k + 1)
  <2>1. k \in 1 .. RingSize /\ k + 1 \in 1 .. RingSize
    BY <1>1, <1>3
  <2>2. Cell(n, k) = IF n + k <= RingSize THEN n + k - 1 ELSE n + k - 1 - RingSize
    BY <1>2, <2>1, CellValue
  <2>3. Cell(t, k + 1) = IF t + (k + 1) <= RingSize THEN t + (k + 1) - 1
                                                    ELSE t + (k + 1) - 1 - RingSize
    BY <2>1, CellValue
  <2> QED BY <1>1, <1>2, <2>1, <2>2, <2>3 DEF Cells
<1>10. Cell(t, 1) = t
  BY <1>1, <1>5 DEF Cells
<1> QED BY <1>7, <1>8, <1>9, <1>10 DEF n, g, m
\* What lies between two indices is a sequence.
LEMMA HeldSequence ==
  ASSUME NEW buf \in [Cells -> MaybeSlots], NEW h \in Cells, NEW t \in Cells
  PROVE  /\ Held(buf, h, t) \in Seq(MaybeSlots)
         /\ Len(Held(buf, h, t)) = Gap(h, t)
         /\ \A k \in 1 .. Gap(h, t) : Held(buf, h, t)[k] = buf[Cell(t, k)]
         /\ h = t => Held(buf, h, t) = <<>>
<1> DEFINE s == Held(buf, h, t)
           g == Gap(h, t)
<1>1. g \in 0 .. RingSize - 1 /\ (g = 0 <=> h = t)
  BY GapCells
<1>2. \A k \in 1 .. g : Cell(t, k) \in Cells
  <2>1. \A k \in 1 .. g : k \in 1 .. RingSize
    BY <1>1, SizesAssumption
  <2> QED BY <2>1, GapCells
<1>3. s = [k \in 1 .. g |-> buf[Cell(t, k)]]
  BY DEF Held
<1>4. s \in [1 .. g -> MaybeSlots]
  BY <1>2, <1>3
<1>5. g \in Nat
  BY <1>1, SizesAssumption
<1>6. \A k \in 1 .. g : s[k] = buf[Cell(t, k)]
  BY <1>3
<1> HIDE DEF s, g
<1>7. s \in Seq(MaybeSlots) /\ Len(s) = g
  BY <1>4, <1>5
<1>8. h = t => s = <<>>
  BY <1>1, <1>7
<1> QED BY <1>6, <1>7, <1>8 DEF s, g

\* The store into the cell at the head changes nothing between the indices.
LEMMA HeldStore ==
  ASSUME NEW buf \in [Cells -> MaybeSlots], NEW h \in Cells, NEW t \in Cells,
         NEW r \in MaybeSlots
  PROVE  Held([buf EXCEPT ![h] = r], h, t) = Held(buf, h, t)
<1>1. \A k \in 1 .. Gap(h, t) : Cell(t, k) # h
  BY GapCells
<1>2. \A k \in 1 .. Gap(h, t) : Cell(t, k) \in Cells
  <2>1. \A k \in 1 .. Gap(h, t) : k \in 1 .. RingSize
    BY GapCells, SizesAssumption
  <2> QED BY <2>1, GapCells
<1>3. \A k \in 1 .. Gap(h, t) : [buf EXCEPT ![h] = r][Cell(t, k)] = buf[Cell(t, k)]
  BY <1>1, <1>2
<1> QED BY <1>3 DEF Held

\* The new head makes what the cell at the old one holds the last of the requests.
LEMMA HeldPut ==
  ASSUME NEW buf \in [Cells -> MaybeSlots], NEW h \in Cells, NEW t \in Cells,
         Following(h) # t
  PROVE  Held(buf, Following(h), t) = Held(buf, h, t) \o <<buf[h]>>
<1> DEFINE n == Following(h)
           g == Gap(h, t)
           a == Held(buf, h, t)
           b == <<buf[h]>>
           new == Held(buf, n, t)
<1>1. n \in Cells /\ buf[h] \in MaybeSlots /\ g \in Nat
  BY ModuloTypes, GapCells, SizesAssumption
<1>2. Gap(n, t) = g + 1 /\ Cell(t, g + 1) = h
  BY GapPut
<1>3. /\ a \in Seq(MaybeSlots) /\ Len(a) = g
      /\ \A k \in 1 .. g : a[k] = buf[Cell(t, k)]
  BY HeldSequence
<1>4. /\ new \in Seq(MaybeSlots) /\ Len(new) = Gap(n, t)
      /\ \A k \in 1 .. Gap(n, t) : new[k] = buf[Cell(t, k)]
  BY <1>1, HeldSequence
<1>5. b \in Seq(MaybeSlots) /\ Len(b) = 1 /\ b[1] = buf[h]
  BY <1>1
<1> DEFINE G(k) == buf[Cell(t, k)]
<1>6. G(g + 1) = buf[h]
  BY <1>2
<1>7. /\ \A k \in 1 .. g : a[k] = G(k)
      /\ Len(new) = g + 1
      /\ \A k \in 1 .. g + 1 : new[k] = G(k)
  BY <1>2, <1>3, <1>4
<1> HIDE DEF n, g, a, b, new, G
<1>8. /\ a \o b \in Seq(MaybeSlots) /\ Len(a \o b) = Len(a) + Len(b)
      /\ \A k \in 1 .. Len(a) + Len(b) :
           (a \o b)[k] = IF k <= Len(a) THEN a[k] ELSE b[k - Len(a)]
  BY <1>3, <1>5, ConcatProperties, Zenon
<1>9. /\ Len(a \o b) = g + 1
      /\ \A k \in 1 .. g + 1 : (a \o b)[k] = IF k <= g THEN a[k] ELSE b[k - g]
  BY <1>3, <1>5, <1>8, Zenon
<1>10. ASSUME NEW k \in 1 .. g + 1
       PROVE  new[k] = (a \o b)[k]
  <2>1. CASE k <= g
    <3>1. k \in 1 .. g
      BY <2>1, <1>1
    <3> QED BY <3>1, <2>1, <1>7, <1>9
  <2>2. CASE ~(k <= g)
    <3>1. k = g + 1 /\ k - g = 1
      BY <2>2, <1>1
    <3> QED BY <3>1, <2>2, <1>5, <1>6, <1>7, <1>9
  <2> QED BY <2>1, <2>2
<1>11. new = a \o b
  <2> DEFINE old == a \o b
  <2>1. /\ new \in Seq(MaybeSlots) /\ old \in Seq(MaybeSlots)
        /\ Len(new) = g + 1 /\ Len(old) = g + 1
        /\ \A k \in 1 .. g + 1 : new[k] = old[k]
    BY <1>4, <1>7, <1>8, <1>9, <1>10
  <2> HIDE DEF old
  <2>2. new = old
    BY <2>1, SeqEqual
  <2> QED BY <2>2 DEF old
<1> QED BY <1>11 DEF n, a, b, new

\* The new tail leaves the first request out.
LEMMA HeldGet ==
  ASSUME NEW buf \in [Cells -> MaybeSlots], NEW h \in Cells, NEW t \in Cells, h # t
  PROVE  /\ Held(buf, h, t) # <<>>
         /\ Head(Held(buf, h, t)) = buf[t]
         /\ Held(buf, h, Following(t)) = Tail(Held(buf, h, t))
<1> DEFINE n == Following(t)
           g == Gap(h, t)
           a == Held(buf, h, t)
           new == Held(buf, h, n)
           G(k) == buf[Cell(t, k)]
<1>1. n \in Cells /\ g \in Nat
  BY ModuloTypes, GapCells, SizesAssumption
<1>2. /\ Gap(h, n) = g - 1 /\ g >= 1 /\ Cell(t, 1) = t
      /\ \A k \in 1 .. g - 1 : Cell(n, k) = Cell(t, k + 1)
  BY GapGet
<1>3. /\ a \in Seq(MaybeSlots) /\ Len(a) = g
      /\ \A k \in 1 .. g : a[k] = G(k)
  BY HeldSequence
<1>4. /\ new \in Seq(MaybeSlots) /\ Len(new) = Gap(h, n)
      /\ \A k \in 1 .. Gap(h, n) : new[k] = buf[Cell(n, k)]
  BY <1>1, HeldSequence
<1>5. /\ Len(new) = g - 1
      /\ \A k \in 1 .. g - 1 : new[k] = G(k + 1)
      /\ G(1) = buf[t]
  BY <1>2, <1>4
<1> HIDE DEF n, g, a, new, G
<1>6. a # <<>> /\ Len(a) = g /\ a[1] = buf[t] /\ Head(a) = a[1]
  BY <1>1, <1>2, <1>3, <1>5
<1>7. /\ Tail(a) \in Seq(MaybeSlots) /\ Len(Tail(a)) = g - 1
      /\ \A k \in 1 .. g - 1 : Tail(a)[k] = a[k + 1]
  BY <1>1, <1>2, <1>3, <1>6, HeadTailProperties
<1>8. \A k \in 1 .. g - 1 : k + 1 \in 1 .. g
  BY <1>1
<1>9. new = Tail(a)
  <2> DEFINE old == Tail(a)
  <2>1. /\ new \in Seq(MaybeSlots) /\ old \in Seq(MaybeSlots)
        /\ Len(new) = g - 1 /\ Len(old) = g - 1
        /\ \A k \in 1 .. g - 1 : new[k] = old[k]
    BY <1>3, <1>4, <1>5, <1>7, <1>8
  <2> HIDE DEF old
  <2>2. new = old
    BY <2>1, SeqEqual
  <2> QED BY <2>2 DEF old
<1> QED BY <1>6, <1>9 DEF a, n, new
-----------------------------------------------------------------------------
(***************************************************************************)
(* One producer for each ring, one consumer for all.  get_current_thread_  *)
(* queue deals the rings out modulo their number, so with more clients     *)
(* than rings two clients store into one ring without a lock; the rest is  *)
(* about systems with no more clients than rings.                          *)
(***************************************************************************)
RingForEach == Cardinality(Clients) <= NumQueues

Assigned == {c \in Clients : my_queue[c] # NoQueue}

\* The rings are dealt out in turn, and none twice.
DealtOut ==
  /\ next_queue = Cardinality(Assigned) % NumQueues
  /\ \A c \in Assigned : my_queue[c] < Cardinality(Assigned)
  /\ \A c, d \in Assigned : my_queue[c] = my_queue[d] => c = d

\* What ring_enqueue has found out stays true until it publishes its request.
Producing(c) ==
  /\ pc[c] \in {"full?", "store", "publish"} => seen_head[c] = head[my_queue[c]]
  /\ pc[c] \in {"store", "publish"} => Following(head[my_queue[c]]) # tail[my_queue[c]]
  /\ pc[c] = "publish" => buffer[my_queue[c]][head[my_queue[c]]] = slot[c]

\* What ring_dequeue has found out stays true until it publishes the new tail.
Consuming ==
  /\ spdk_pc \in {"load", "advance"} => head[at] # tail[at]
  /\ spdk_pc = "advance" => cur = buffer[at][tail[at]]
  /\ spdk_pc \in {"handle", "done?"} => cur # NoSlot

\* The inductive invariant of the rings.
FInv ==
  /\ LInv
  /\ DealtOut
  /\ Consuming
  /\ \A c \in Clients : Producing(c)

LEMMA AssignedSize ==
  /\ IsFiniteSet(Assigned) /\ Cardinality(Assigned) \in Nat
  /\ Cardinality(Assigned) <= Cardinality(Clients)
  /\ Cardinality(Clients) \in Nat
  /\ \A c \in Clients \ Assigned : Cardinality(Assigned) < Cardinality(Clients)
<1>1. IsFiniteSet(Clients) /\ Cardinality(Clients) \in Nat
  BY ClientsAssumption, FS_CardinalityType
<1>2. /\ IsFiniteSet(Assigned) /\ Cardinality(Assigned) \in Nat
      /\ Cardinality(Assigned) <= Cardinality(Clients)
      /\ Cardinality(Assigned) = Cardinality(Clients) => Assigned = Clients
  BY <1>1, FS_Subset, FS_CardinalityType DEF Assigned
<1> QED BY <1>1, <1>2

\* get_current_thread_queue gives a ring nobody else has.
LEMMA GetQueueDealt ==
  ASSUME TypeOK, RingForEach, DealtOut, NEW c \in Clients, GetQueue(c)
  PROVE  DealtOut'
<1> DEFINE n == Cardinality(Assigned)
<1>1. /\ my_queue \in [Clients -> Queues \cup {NoQueue}]
      /\ NumQueues \in Nat /\ NumQueues > 0
      /\ \A q \in Queues : q # NoQueue /\ q \in Nat
  BY SizesAssumption, NullAssumption DEF TypeOK, Queues
<1>2. CASE my_queue[c] # NoQueue
  <2>1. UNCHANGED tlsVars
    BY <1>2 DEF GetQueue
  <2> QED BY <2>1 DEF DealtOut, Assigned, tlsVars
<1>3. CASE my_queue[c] = NoQueue
  <2>1. /\ my_queue' = [my_queue EXCEPT ![c] = next_queue]
        /\ next_queue' = (next_queue + 1) % NumQueues
    BY <1>3 DEF GetQueue
  <2>2. c \notin Assigned
    BY <1>3 DEF Assigned
  <2>3. n \in Nat /\ n < NumQueues /\ IsFiniteSet(Assigned)
    BY <1>1, <2>2, AssignedSize DEF RingForEach
  <2>4. next_queue = n
    <3>1. next_queue = n % NumQueues
      BY DEF DealtOut
    <3> HIDE DEF n
    <3> QED BY <3>1, <2>3, <1>1
  <2>5. n \in Queues
    <3> HIDE DEF n
    <3> QED BY <2>3, <1>1 DEF Queues
  <2>6. Assigned' = Assigned \cup {c}
    BY <2>1, <2>4, <2>5, <1>1 DEF Assigned
  <2>7. Cardinality(Assigned') = n + 1
    BY <2>2, <2>3, <2>6, FS_AddElement
  <2>8. my_queue'[c] = n /\ \A d \in Clients \ {c} : my_queue'[d] = my_queue[d]
    BY <2>1, <2>4, <1>1
  <2>9. \A d \in Assigned : d # c /\ my_queue'[d] = my_queue[d] /\ my_queue[d] \in Nat
                           /\ my_queue[d] < n
    BY <2>2, <2>8, <1>1 DEF DealtOut, Assigned
  <2>10. next_queue' = Cardinality(Assigned)' % NumQueues
    BY <2>1, <2>4, <2>7
  <2> HIDE DEF n
  <2>11. \A d \in Assigned' : my_queue'[d] < Cardinality(Assigned)'
    BY <2>3, <2>6, <2>7, <2>8, <2>9
  <2>12. ASSUME NEW d \in Assigned', NEW e \in Assigned', my_queue'[d] = my_queue'[e]
         PROVE  d = e
    <3>1. CASE d = c \/ e = c
      BY <3>1, <2>12, <2>3, <2>6, <2>8, <2>9
    <3>2. CASE d # c /\ e # c
      BY <3>2, <2>12, <2>6, <2>9 DEF DealtOut
    <3> QED BY <3>1, <3>2
  <2> QED BY <2>10, <2>11, <2>12 DEF DealtOut
<1> QED BY <1>2, <1>3

\* Two calls that have their rings have different ones.
LEMMA RingsApart ==
  ASSUME LInv, DealtOut, NEW c \in Clients, NEW d \in Clients \ {c},
         my_queue[c] \in Queues, my_queue[d] \in Queues
  PROVE  my_queue[c] # my_queue[d]
BY NullAssumption DEF DealtOut, Assigned

\* A step that leaves a call, and the ring of the call, where they are.
LEMMA ProducingFrame ==
  ASSUME NEW c \in Clients, Producing(c), HasQueue(c),
         pc'[c] = pc[c] \/ pc'[c] \notin {"full?", "store", "publish"},
         slot'[c] = slot[c], seen_head'[c] = seen_head[c], my_queue'[c] = my_queue[c],
         my_queue[c] \in Queues =>
           /\ head'[my_queue[c]] = head[my_queue[c]]
           /\ tail'[my_queue[c]] = tail[my_queue[c]]
           /\ buffer'[my_queue[c]] = buffer[my_queue[c]]
  PROVE  Producing(c)'
BY DEF Producing, HasQueue

\* A step that leaves rings and SPDK thread alone.
LEMMA ConsumingFrame ==
  ASSUME Consuming, UNCHANGED <<ringVars, spdkVars>>
  PROVE  Consuming'
BY DEF Consuming, ringVars, spdkVars

LEMMA InitFInv == Init => FInv
<1> SUFFICES ASSUME Init PROVE FInv
  OBVIOUS
<1>1. LInv
  BY InitLInv
<1>2. DealtOut
  <2>1. Assigned = {} /\ next_queue = 0
    BY DEF Init, Assigned
  <2>2. 0 % NumQueues = 0
    BY SizesAssumption
  <2> QED BY <2>1, <2>2, FS_EmptySet DEF DealtOut
<1>3. Consuming /\ \A c \in Clients : Producing(c)
  BY DEF Init, Consuming, Producing
<1> QED BY <1>1, <1>2, <1>3 DEF FInv

\* The steps of a call outside the ring.
QuietStep(c) ==
  \/ \E kind \in Ops : Call(c, kind)
  \/ Allocate(c) \/ AllocateFails(c)
  \/ \E kind \in Answers : Prepare(c, kind)
  \/ CheckReady(c) \/ LoadHead(c) \/ CheckFull(c)
  \/ CountPending(c) \/ WaitLoop(c) \/ Release(c)

\* What a step of client c leaves alone: the other clients.
LEMMA QuietFrame ==
  ASSUME LInv, NEW c \in Clients, QuietStep(c)
  PROVE  /\ UNCHANGED <<initialized, ringVars, spdkVars, finiVars>>
         /\ \A d \in Clients \ {c} :
              /\ pc'[d] = pc[d] /\ slot'[d] = slot[d] /\ seen_head'[d] = seen_head[d]
              /\ my_queue'[d] = my_queue[d]
<1>1. TypeOK
  BY DEF LInv
<1>2. CASE \/ \E kind \in Ops : Call(c, kind)
           \/ Allocate(c) \/ AllocateFails(c) \/ CheckReady(c)
  BY <1>1, <1>2 DEF TypeOK, Call, Allocate, AllocateFails, CheckReady, tlsVars
<1>3. CASE \E kind \in Answers : Prepare(c, kind)
  BY <1>1, <1>3 DEF TypeOK, Prepare, GetQueue, tlsVars
<1>4. CASE LoadHead(c) \/ CheckFull(c)
  BY <1>1, <1>4 DEF TypeOK, LoadHead, CheckFull, tlsVars
<1>5. CASE CountPending(c) \/ WaitLoop(c) \/ Release(c)
  BY <1>1, <1>5 DEF TypeOK, CountPending, WaitLoop, Release, tlsVars
<1> QED BY <1>2, <1>3, <1>4, <1>5 DEF QuietStep

LEMMA QuietFInv ==
  ASSUME FInv, RingForEach, LInv', NEW c \in Clients, QuietStep(c)
  PROVE  FInv'
<1>1. /\ TypeOK /\ LInv /\ DealtOut /\ Consuming
      /\ \A d \in Clients : HasSlot(d) /\ HasQueue(d) /\ Producing(d)
  BY DEF FInv, LInv
<1>2. /\ UNCHANGED <<ringVars, spdkVars>>
      /\ \A d \in Clients \ {c} :
           /\ pc'[d] = pc[d] /\ slot'[d] = slot[d] /\ seen_head'[d] = seen_head[d]
           /\ my_queue'[d] = my_queue[d]
  BY <1>1, QuietFrame
<1>3. Consuming'
  BY <1>1, <1>2, ConsumingFrame
<1>4. DealtOut'
  <2>1. CASE \E kind \in Answers : Prepare(c, kind)
    BY <2>1, <1>1, GetQueueDealt DEF Prepare
  <2>2. CASE UNCHANGED tlsVars
    BY <2>2, <1>1 DEF DealtOut, Assigned, tlsVars
  <2> QED BY <2>1, <2>2 DEF QuietStep, Call, Allocate, AllocateFails, CheckReady, LoadHead,
                            CheckFull, CountPending, WaitLoop, Release
<1>5. ASSUME NEW d \in Clients PROVE Producing(d)'
  <2>1. CASE d # c
    BY <2>1, <1>1, <1>2, ProducingFrame DEF ringVars
  <2>2. CASE d = c /\ pc'[c] \notin {"full?", "store", "publish"}
    BY <2>2 DEF Producing
  <2>3. CASE d = c /\ LoadHead(c)
    BY <2>3, <1>1 DEF LoadHead, Producing, TypeOK, ringVars, tlsVars
  <2>4. CASE d = c /\ CheckFull(c) /\ pc'[c] = "store"
    <3>1. /\ pc[c] = "full?" /\ seen_head[c] = head[my_queue[c]]
      BY <2>4, <1>1 DEF CheckFull, Producing
    <3>2. Following(seen_head[c]) # tail[my_queue[c]] /\ seen_head'[c] = seen_head[c]
      BY <2>4, <1>1 DEF CheckFull, TypeOK
    <3> QED BY <2>4, <3>1, <3>2 DEF CheckFull, Producing, ringVars, tlsVars
  <2>5. \/ pc'[c] \notin {"full?", "store", "publish"}
        \/ LoadHead(c)
        \/ CheckFull(c) /\ pc'[c] = "store"
    BY <1>1 DEF QuietStep, Call, Allocate, AllocateFails, Prepare, CheckReady, CheckFull,
                CountPending, WaitLoop, Release, TypeOK
  <2> QED BY <2>1, <2>2, <2>3, <2>4, <2>5
<1> QED BY <1>3, <1>4, <1>5 DEF FInv
\* What the accesses of ring_enqueue that change a ring, and those of the other side,
\* leave alone: all other rings.
LEMMA StoreFrame ==
  ASSUME LInv, NEW c \in Clients, StoreRequest(c) \/ PublishHead(c)
  PROVE  /\ my_queue[c] \in Queues /\ head[my_queue[c]] \in Cells
         /\ tail[my_queue[c]] \in Cells
         /\ buffer[my_queue[c]] \in [Cells -> MaybeSlots]
         /\ slot[c] \in Slots /\ initialized
         /\ UNCHANGED <<initialized, tail, tlsVars, slot, spdkVars, finiVars>>
         /\ \A d \in Clients \ {c} : pc'[d] = pc[d] /\ seen_head'[d] = seen_head[d]
         /\ \A q \in Queues \ {my_queue[c]} : head'[q] = head[q] /\ buffer'[q] = buffer[q]
<1>1. TypeOK /\ HasSlot(c) /\ HasQueue(c)
  BY DEF LInv
<1>2. pc[c] \in {"store", "publish"}
  BY DEF StoreRequest, PublishHead
<1>3. my_queue[c] \in Queues /\ slot[c] \in Slots
  BY <1>1, <1>2 DEF HasSlot, HasQueue, TypeOK
<1>4. /\ head[my_queue[c]] \in Cells /\ tail[my_queue[c]] \in Cells
      /\ buffer[my_queue[c]] \in [Cells -> MaybeSlots]
  BY <1>1, <1>3 DEF TypeOK, MaybeSlots
<1>5. CASE StoreRequest(c)
  BY <1>1, <1>3, <1>4, <1>5 DEF StoreRequest, TypeOK
<1>6. CASE PublishHead(c)
  BY <1>1, <1>3, <1>4, <1>6 DEF PublishHead, TypeOK
<1> QED BY <1>5, <1>6

\* The other clients do not notice: they are at other rings.
LEMMA StoreFInv ==
  ASSUME FInv, RingForEach, LInv', NEW c \in Clients, StoreRequest(c) \/ PublishHead(c)
  PROVE  FInv'
<1> DEFINE q == my_queue[c]
           h == head[q]
<1>1. /\ TypeOK /\ LInv /\ DealtOut /\ Consuming
      /\ \A d \in Clients : HasSlot(d) /\ HasQueue(d) /\ Producing(d)
  BY DEF FInv, LInv
<1>2. /\ q \in Queues /\ h \in Cells /\ tail[q] \in Cells
      /\ buffer[q] \in [Cells -> MaybeSlots] /\ slot[c] \in Slots
      /\ UNCHANGED <<tail, tlsVars, slot, spdkVars>>
      /\ \A d \in Clients \ {c} : pc'[d] = pc[d] /\ seen_head'[d] = seen_head[d]
      /\ \A r \in Queues \ {q} : head'[r] = head[r] /\ buffer'[r] = buffer[r]
  BY <1>1, StoreFrame
<1>3. seen_head[c] = h /\ Following(h) # tail[q]
  BY <1>1 DEF StoreRequest, PublishHead, Producing
<1>4. DealtOut'
  BY <1>1, <1>2 DEF DealtOut, Assigned, tlsVars
<1>5. CASE StoreRequest(c)
  <2>1. /\ head' = head /\ seen_head' = seen_head /\ pc'[c] = "publish"
        /\ buffer'[q] = [buffer[q] EXCEPT ![h] = slot[c]]
    BY <1>1, <1>2, <1>3, <1>5 DEF StoreRequest, TypeOK
  <2>2. buffer'[q][h] = slot[c] /\ \A i \in Cells \ {h} : buffer'[q][i] = buffer[q][i]
    BY <2>1, <1>2
  <2> HIDE DEF q, h
  <2>3. Producing(c)'
    BY <2>1, <2>2, <1>2, <1>3 DEF Producing, q, h, tlsVars
  <2>4. Consuming'
    <3>1. CASE spdk_pc \in {"load", "advance"} /\ at = q
      <4>1. tail[at] # h /\ tail[at] \in Cells
        BY <3>1, <1>1, <1>2 DEF Consuming, h
      <4> QED BY <4>1, <3>1, <2>1, <2>2, <1>1, <1>2 DEF Consuming, spdkVars
    <3>2. CASE ~(spdk_pc \in {"load", "advance"} /\ at = q)
      <4>1. at \in Queues
        BY <1>1 DEF TypeOK
      <4> QED BY <4>1, <3>2, <2>1, <1>1, <1>2 DEF Consuming, spdkVars
    <3> QED BY <3>1, <3>2
  <2>5. ASSUME NEW d \in Clients \ {c} PROVE Producing(d)'
    <3>1. my_queue[d] \in Queues => my_queue[d] # q
      BY <1>1, <1>2, RingsApart DEF q
    <3> QED BY <3>1, <2>1, <1>1, <1>2, ProducingFrame DEF tlsVars
  <2> QED BY <2>3, <2>4, <2>5, <1>4 DEF FInv
<1>6. CASE PublishHead(c)
  <2>1. /\ buffer' = buffer /\ pc'[c] = "count" /\ head'[q] = Following(h)
    BY <1>1, <1>2, <1>3, <1>6 DEF PublishHead, TypeOK
  <2> HIDE DEF q, h
  <2>2. Producing(c)'
    BY <2>1 DEF Producing
  <2>3. Consuming'
    <3>1. CASE at = q
      BY <3>1, <2>1, <1>1, <1>2, <1>3 DEF Consuming, spdkVars
    <3>2. CASE at # q
      <4>1. at \in Queues
        BY <1>1 DEF TypeOK
      <4> QED BY <4>1, <3>2, <2>1, <1>1, <1>2 DEF Consuming, spdkVars
    <3> QED BY <3>1, <3>2
  <2>4. ASSUME NEW d \in Clients \ {c} PROVE Producing(d)'
    <3>1. my_queue[d] \in Queues => my_queue[d] # q
      BY <1>1, <1>2, RingsApart DEF q
    <3> QED BY <3>1, <2>1, <1>1, <1>2, ProducingFrame DEF tlsVars
  <2> QED BY <2>2, <2>3, <2>4, <1>4 DEF FInv
<1> QED BY <1>5, <1>6

\* The tail moves away from the head: what ring_enqueue found room for stays free.
LEMMA AdvanceFInv ==
  ASSUME FInv, LInv', AdvanceTail
  PROVE  FInv'
<1> DEFINE t == tail[at]
<1>1. /\ TypeOK /\ DealtOut /\ Consuming
      /\ \A d \in Clients : HasQueue(d) /\ Producing(d)
  BY DEF FInv, LInv
<1>2. /\ UNCHANGED <<buffer, head, tlsVars, clientVars, at, cur>>
      /\ spdk_pc = "advance"
      /\ spdk_pc' = IF cur = NoSlot THEN "empty?" ELSE "handle"
      /\ tail' = [tail EXCEPT ![at] = Following(t)]
  BY DEF AdvanceTail
<1>3. /\ at \in Queues /\ t \in Cells /\ head[at] \in Cells /\ head[at] # t
  BY <1>1, <1>2 DEF TypeOK, Consuming
<1>4. tail'[at] = Following(t) /\ \A q \in Queues \ {at} : tail'[q] = tail[q]
  BY <1>1, <1>2, <1>3 DEF TypeOK
<1>5. Following(head[at]) # Following(t)
  BY <1>3, GapGet
<1>6. DealtOut' /\ Consuming'
  BY <1>1, <1>2 DEF DealtOut, Assigned, tlsVars, Consuming
<1>7. ASSUME NEW d \in Clients PROVE Producing(d)'
  <2> HIDE DEF t
  <2>1. CASE pc[d] \in {"full?", "store", "publish"} /\ my_queue[d] = at
    <3>1. Following(head[my_queue[d]]) # tail'[my_queue[d]]
      BY <2>1, <1>4, <1>5
    <3> QED BY <3>1, <2>1, <1>1, <1>2 DEF Producing, tlsVars, clientVars
  <2>2. CASE pc[d] \in {"full?", "store", "publish"} /\ my_queue[d] # at
    <3>1. my_queue[d] \in Queues
      BY <2>2, <1>1 DEF HasQueue
    <3>2. tail'[my_queue[d]] = tail[my_queue[d]]
      BY <3>1, <2>2, <1>4
    <3> QED BY <3>2, <2>2, <1>1, <1>2 DEF Producing, tlsVars, clientVars
  <2>3. CASE pc[d] \notin {"full?", "store", "publish"}
    BY <2>3, <1>2 DEF Producing, clientVars
  <2> QED BY <2>1, <2>2, <2>3
<1> QED BY <1>6, <1>7 DEF FInv

\* The other steps of the SPDK thread and those of the tear-down.
LibraryStep ==
  \/ LookAtRing \/ CheckEmpty \/ LoadRequest \/ Handle \/ Settle \/ Notify
  \/ FiniBegin \/ FiniStep

LEMMA LibraryFrame ==
  ASSUME TypeOK, LibraryStep
  PROVE  /\ UNCHANGED <<ringVars, tlsVars, op, slot, seen_head>>
         /\ \A c \in Clients : pc'[c] = pc[c] \/ (pc[c] = "asleep" /\ pc'[c] = "lock")
<1>1. at \in Queues /\ fini_q \in Queues
  BY DEF TypeOK
<1>2. CASE Notify \/ FiniWake
  BY <1>1, <1>2, WokenLInv DEF Notify, FiniWake
<1>3. CASE LookAtRing \/ CheckEmpty \/ LoadRequest \/ Handle \/ Settle
  BY <1>3 DEF LookAtRing, CheckEmpty, LoadRequest, Handle, Settle, clientVars
<1>4. CASE FiniBegin \/ FiniStop \/ FiniSum \/ FiniFree
  BY <1>4 DEF FiniBegin, FiniStop, FiniSum, FiniFree, clientVars
<1> QED BY <1>2, <1>3, <1>4 DEF LibraryStep, FiniStep

LEMMA LibraryFInv ==
  ASSUME FInv, LInv', LibraryStep
  PROVE  FInv'
<1>1. /\ TypeOK /\ DealtOut /\ Consuming
      /\ \A d \in Clients : HasQueue(d) /\ Producing(d)
  BY DEF FInv, LInv
<1>2. /\ UNCHANGED <<ringVars, tlsVars, op, slot, seen_head>>
      /\ \A c \in Clients : pc'[c] = pc[c] \/ (pc[c] = "asleep" /\ pc'[c] = "lock")
  BY <1>1, LibraryFrame
<1>3. DealtOut'
  BY <1>1, <1>2 DEF DealtOut, Assigned, tlsVars
<1>4. Consuming'
  <2>1. CASE FiniBegin \/ FiniStep
    <3>1. UNCHANGED spdkVars
      BY <2>1 DEF FiniBegin, FiniStep, FiniStop, FiniWake, FiniSum, FiniFree
    <3> QED BY <3>1, <1>1, <1>2, ConsumingFrame
  <2>2. CASE LookAtRing \/ Settle \/ Notify
    BY <2>2 DEF LookAtRing, Settle, Notify, NextRing, Consuming
  <2>3. CASE CheckEmpty \/ LoadRequest \/ Handle
    BY <2>3, <1>1, <1>2 DEF CheckEmpty, LoadRequest, Handle, NextRing, Consuming, ringVars
  <2> QED BY <2>1, <2>2, <2>3 DEF LibraryStep
<1>5. ASSUME NEW d \in Clients PROVE Producing(d)'
  BY <1>1, <1>2, ProducingFrame DEF tlsVars, ringVars
<1> QED BY <1>3, <1>4, <1>5 DEF FInv

LEMMA QueueInitFInv ==
  ASSUME FInv, LInv', QueueInit
  PROVE  FInv'
<1>1. DealtOut'
  <2>1. Assigned' = {} /\ next_queue' = 0
    BY DEF QueueInit, Assigned
  <2>2. 0 % NumQueues = 0
    BY SizesAssumption
  <2> QED BY <2>1, <2>2, FS_EmptySet DEF DealtOut
<1>2. Consuming' /\ \A c \in Clients : Producing(c)'
  BY DEF QueueInit, spdkVars, clientVars, Consuming, Producing
<1> QED BY <1>1, <1>2 DEF FInv

\* Every step keeps what producers and consumer know of their rings.
LEMMA NextFInv == FInv /\ RingForEach /\ [Next]_vars => FInv'
<1> SUFFICES ASSUME FInv, RingForEach, [Next]_vars PROVE FInv'
  OBVIOUS
<1>1. LInv'
  BY NextLInv DEF FInv
<1>2. CASE QueueInit
  BY <1>1, <1>2, QueueInitFInv
<1>3. ASSUME NEW c \in Clients, (\E kind \in Ops : Call(c, kind)) \/ ClientStep(c)
      PROVE  FInv'
  BY <1>1, <1>3, QuietFInv, StoreFInv DEF ClientStep, QuietStep
<1>4. CASE SpdkStep \/ FiniBegin \/ FiniStep
  BY <1>1, <1>4, AdvanceFInv, LibraryFInv DEF SpdkStep, LibraryStep
<1>5. CASE UNCHANGED vars
  BY <1>1, <1>5 DEF vars, ringVars, tlsVars, clientVars, spdkVars, FInv, DealtOut, Assigned,
                    Consuming, Producing
<1> QED BY <1>2, <1>3, <1>4, <1>5 DEF Next
-----------------------------------------------------------------------------
(***************************************************************************)
(* The rings implement bounded FIFO queues.  A call offers its request     *)
(* from its look at the status of the ring on; the store of head puts it   *)
(* into the queue, the store of tail takes it out.                         *)
(***************************************************************************)
Offering == {"load", "full?", "store", "publish"}

\* A step that leaves the rings alone.
LEMMA ContentsFrame ==
  ASSUME UNCHANGED ringVars, initialized' = initialized
  PROVE  RingContents' = RingContents
BY DEF RingContents, Contents, Fill, ringVars

\* A step of client c changes what c offers only.
LEMMA OffersStep ==
  ASSUME NEW c \in Clients,
         \A d \in Clients \ {c} : pc'[d] = pc[d] /\ slot'[d] = slot[d]
  PROVE  /\ Offers' = [Offers EXCEPT ![c] = Offered(c)']
         /\ Offers[c] = Offered(c)
         /\ Offers'[c] = Offered(c)'
         /\ Offered(c)' = Offered(c) => Offers' = Offers
BY DEF Offers, Offered

\* A step in which nobody begins or ends an offer.
LEMMA OffersFrame ==
  ASSUME slot' = slot, \A c \in Clients : pc'[c] \in Offering <=> pc[c] \in Offering
  PROVE  Offers' = Offers
BY DEF Offers, Offered, Offering

\* While the system is set up, what a ring holds is what lies between its indices.
LEMMA RingHeld ==
  ASSUME TypeOK, initialized, NEW q \in Queues
  PROVE  /\ RingContents[q] = Held(buffer[q], head[q], tail[q])
         /\ head[q] \in Cells /\ tail[q] \in Cells
         /\ buffer[q] \in [Cells -> MaybeSlots]
BY ContentsHeld DEF RingContents, TypeOK, MaybeSlots

LEMMA InitAbstract == Init => Fifo!Init
<1> SUFFICES ASSUME Init PROVE Fifo!Init
  OBVIOUS
<1>1. RingContents = [q \in Queues |-> <<>>]
  BY DEF Init, RingContents
<1>2. Offers = [c \in Clients |-> <<>>]
  BY DEF Init, Offers, Offered
<1> QED BY <1>1, <1>2 DEF Init, Taken, Fifo!Init, Fifo!Empty

\* The steps of a call outside the ring begin its offer, give it up or leave it.
LEMMA QuietAbstract ==
  ASSUME FInv, NEW c \in Clients, QuietStep(c)
  PROVE  Fifo!Next \/ UNCHANGED Fifo!vars
<1>1. TypeOK /\ LInv /\ HasSlot(c)
  BY DEF FInv, LInv
<1>2. /\ UNCHANGED <<initialized, ringVars, spdkVars>>
      /\ \A d \in Clients \ {c} : pc'[d] = pc[d] /\ slot'[d] = slot[d]
  BY <1>1, QuietFrame
<1>3. RingContents' = RingContents /\ Taken' = Taken
  BY <1>2, ContentsFrame DEF Taken, spdkVars
<1>4. /\ Offers' = [Offers EXCEPT ![c] = Offered(c)']
      /\ Offers[c] = Offered(c) /\ Offers'[c] = Offered(c)'
      /\ Offered(c)' = Offered(c) => Offers' = Offers
  BY <1>2, OffersStep
<1>5. CASE pc[c] \notin Offering /\ pc'[c] \notin Offering
  <2>1. Offered(c)' = Offered(c)
    BY <1>5 DEF Offered, Offering
  <2> QED BY <2>1, <1>2, <1>3, <1>4 DEF Fifo!vars
<1>6. CASE CheckReady(c) /\ pc'[c] = "load"
  <2>1. pc[c] = "ready?" /\ slot' = slot /\ slot[c] \in Slots
    BY <1>1, <1>6 DEF CheckReady, HasSlot, TypeOK
  <2>2. Offered(c) = <<>> /\ Offered(c)' = <<slot[c]>>
    BY <2>1, <1>6 DEF Offered
  <2>3. <<slot[c]>> \in Seq(Slots) /\ <<slot[c]>> # <<>>
    BY <2>1
  <2>4. Offers[c] = <<>> /\ Offers'[c] \in Seq(Slots) \ {<<>>}
    BY <2>2, <2>3, <1>4
  <2>5. Offers' = [Offers EXCEPT ![c] = Offers'[c]]
    BY <1>4
  <2>6. Fifo!Offer(c)
    BY <2>4, <2>5, <1>2, <1>3 DEF Fifo!Offer
  <2> QED BY <2>6 DEF Fifo!Next
<1>7. CASE pc[c] \in Offering /\ pc'[c] \in Offering /\ slot'[c] = slot[c]
  <2>1. Offered(c)' = Offered(c)
    BY <1>7 DEF Offered, Offering
  <2> QED BY <2>1, <1>2, <1>3, <1>4 DEF Fifo!vars
<1>8. CASE CheckFull(c) /\ pc'[c] = "release"
  <2>1. Offered(c) = <<slot[c]>> /\ Offered(c)' = <<>>
    BY <1>8 DEF CheckFull, Offered
  <2>2. Fifo!Withdraw(c)
    BY <2>1, <1>2, <1>3, <1>4 DEF Fifo!Withdraw
  <2> QED BY <2>2 DEF Fifo!Next
<1>9. \/ pc[c] \notin Offering /\ pc'[c] \notin Offering
      \/ CheckReady(c) /\ pc'[c] = "load"
      \/ pc[c] \in Offering /\ pc'[c] \in Offering /\ slot'[c] = slot[c]
      \/ CheckFull(c) /\ pc'[c] = "release"
  <2>1. CASE (\E kind \in Ops : Call(c, kind)) \/ Allocate(c) \/ AllocateFails(c)
    BY <2>1, <1>1 DEF Call, Allocate, AllocateFails, TypeOK, Offering
  <2>2. CASE (\E kind \in Answers : Prepare(c, kind)) \/ CheckReady(c)
    BY <2>2, <1>1 DEF Prepare, CheckReady, TypeOK, Offering
  <2>3. CASE LoadHead(c) \/ CheckFull(c)
    BY <2>3, <1>1 DEF LoadHead, CheckFull, TypeOK, Offering
  <2>4. CASE CountPending(c) \/ WaitLoop(c) \/ Release(c)
    BY <2>4, <1>1 DEF CountPending, WaitLoop, Release, TypeOK, Offering
  <2> QED BY <2>1, <2>2, <2>3, <2>4 DEF QuietStep
<1> QED BY <1>5, <1>6, <1>7, <1>8, <1>9

\* The store of the request is not seen; the store of head puts the request in.
LEMMA StoreAbstract ==
  ASSUME FInv, FInv', NEW c \in Clients, StoreRequest(c) \/ PublishHead(c)
  PROVE  Fifo!Next \/ UNCHANGED Fifo!vars
<1> DEFINE q == my_queue[c]
           h == head[q]
           t == tail[q]
<1>1. /\ TypeOK /\ TypeOK' /\ LInv /\ Producing(c)
  BY DEF FInv, LInv
<1>2. /\ q \in Queues /\ h \in Cells /\ t \in Cells /\ buffer[q] \in [Cells -> MaybeSlots]
      /\ slot[c] \in Slots /\ initialized
      /\ UNCHANGED <<initialized, tail, slot, spdkVars>>
      /\ \A d \in Clients \ {c} : pc'[d] = pc[d]
      /\ \A r \in Queues \ {q} : head'[r] = head[r] /\ buffer'[r] = buffer[r]
  BY <1>1, StoreFrame
<1>3. seen_head[c] = h /\ Following(h) # t
  BY <1>1 DEF StoreRequest, PublishHead, Producing
<1>4. /\ Offers' = [Offers EXCEPT ![c] = Offered(c)']
      /\ Offers[c] = Offered(c) /\ Offers'[c] = Offered(c)'
      /\ Offered(c)' = Offered(c) => Offers' = Offers
  BY <1>2, OffersStep
<1>5. Taken' = Taken
  BY <1>2 DEF Taken, spdkVars
<1>6. /\ \A r \in Queues : RingContents[r] = Held(buffer[r], head[r], tail[r])
      /\ \A r \in Queues : RingContents'[r] = Held(buffer'[r], head'[r], tail'[r])
  <2>1. \A r \in Queues : RingContents[r] = Held(buffer[r], head[r], tail[r])
    BY <1>1, <1>2, RingHeld
  <2>2. \A r \in Queues : RingContents'[r] = Held(buffer'[r], head'[r], tail'[r])
    BY <1>2 DEF RingContents, Contents, Fill, Held, Gap, Cell
  <2> QED BY <2>1, <2>2
<1>7. \A r \in Queues \ {q} : RingContents'[r] = RingContents[r]
  BY <1>2, <1>6
<1>8. CASE StoreRequest(c)
  <2>1. buffer'[q] = [buffer[q] EXCEPT ![h] = slot[c]] /\ head' = head /\ pc'[c] = "publish"
    BY <1>1, <1>2, <1>3, <1>8 DEF StoreRequest, TypeOK
  <2>2. RingContents'[q] = RingContents[q]
    <3>1. Held([buffer[q] EXCEPT ![h] = slot[c]], h, t) = Held(buffer[q], h, t)
      BY <1>2, HeldStore DEF MaybeSlots
    <3> QED BY <3>1, <2>1, <1>2, <1>6
  <2>3. RingContents' = RingContents
    BY <2>2, <1>7 DEF RingContents
  <2>4. Offered(c)' = Offered(c)
    BY <2>1, <1>2, <1>8 DEF StoreRequest, Offered
  <2> QED BY <2>3, <2>4, <1>2, <1>4, <1>5 DEF Fifo!vars
<1>9. CASE PublishHead(c)
  <2>1. /\ buffer' = buffer /\ head'[q] = Following(h) /\ pc[c] = "publish" /\ pc'[c] = "count"
        /\ buffer[q][h] = slot[c]
    BY <1>1, <1>2, <1>3, <1>9 DEF PublishHead, Producing, TypeOK
  <2>2. Offered(c) = <<slot[c]>> /\ Offered(c)' = <<>>
    BY <2>1 DEF Offered
  <2>3. RingContents'[q] = RingContents[q] \o Offers[c]
    <3>1. Held(buffer[q], Following(h), t) = Held(buffer[q], h, t) \o <<buffer[q][h]>>
      BY <1>2, <1>3, HeldPut
    <3> QED BY <3>1, <2>1, <2>2, <1>2, <1>4, <1>6
  <2>4. RingContents' = [RingContents EXCEPT ![q] = @ \o Offers[c]]
    BY <2>3, <1>2, <1>7 DEF RingContents
  <2>5. Len(RingContents[q]) + Len(Offers[c]) <= RingSize - 1
    <3>1. /\ Len(Held(buffer[q], h, t)) = Gap(h, t)
          /\ Gap(h, t) + 1 \in 0 .. RingSize - 1
      <4>1. Len(Held(buffer[q], h, t)) = Gap(h, t)
        BY <1>2, HeldSequence
      <4>2. Gap(Following(h), t) = Gap(h, t) + 1
        BY <1>2, <1>3, GapPut
      <4>3. Gap(Following(h), t) \in 0 .. RingSize - 1
        BY <1>2, ModuloTypes, GapCells
      <4> QED BY <4>1, <4>2, <4>3
    <3>2. Len(Offers[c]) = 1
      BY <2>2, <1>4
    <3>3. Len(RingContents[q]) = Gap(h, t)
      BY <3>1, <1>2, <1>6
    <3>4. Gap(h, t) + 1 <= RingSize - 1
      BY <3>1, SizesAssumption
    <3> QED BY <3>2, <3>3, <3>4
  <2>6. Fifo!Put(c, q)
    BY <2>2, <2>4, <2>5, <1>2, <1>4, <1>5 DEF Fifo!Put
  <2> QED BY <2>6, <1>2 DEF Fifo!Next
<1> QED BY <1>8, <1>9

\* The store of tail takes the oldest request out.
LEMMA AdvanceAbstract ==
  ASSUME FInv, FInv', AdvanceTail
  PROVE  Fifo!Next \/ UNCHANGED Fifo!vars
<1> DEFINE h == head[at]
           t == tail[at]
<1>1. TypeOK /\ TypeOK' /\ Consuming
  BY DEF FInv, LInv
<1>2. /\ UNCHANGED <<initialized, buffer, head, clientVars, at, cur>> /\ initialized
      /\ spdk_pc = "advance"
      /\ spdk_pc' = IF cur = NoSlot THEN "empty?" ELSE "handle"
      /\ tail' = [tail EXCEPT ![at] = Following(t)]
  BY DEF AdvanceTail
<1>3. /\ at \in Queues /\ t \in Cells /\ h \in Cells /\ h # t
      /\ buffer[at] \in [Cells -> MaybeSlots] /\ cur = buffer[at][t]
  BY <1>1, <1>2 DEF TypeOK, Consuming, MaybeSlots
<1>4. tail'[at] = Following(t) /\ \A q \in Queues \ {at} : tail'[q] = tail[q]
  BY <1>1, <1>2, <1>3 DEF TypeOK
<1>5. Offers' = Offers
  BY <1>2, OffersFrame DEF clientVars
<1>6. /\ \A r \in Queues : RingContents[r] = Held(buffer[r], head[r], tail[r])
      /\ \A r \in Queues : RingContents'[r] = Held(buffer[r], head[r], tail'[r])
  <2>1. \A r \in Queues : RingContents[r] = Held(buffer[r], head[r], tail[r])
    BY <1>1, <1>2, RingHeld
  <2>2. \A r \in Queues : RingContents'[r] = Held(buffer[r], head[r], tail'[r])
    BY <1>2 DEF RingContents, Contents, Fill, Held, Gap, Cell
  <2> QED BY <2>1, <2>2
<1>7. /\ RingContents[at] # <<>>
      /\ Head(RingContents[at]) = cur
      /\ RingContents'[at] = Tail(RingContents[at])
  <2>1. /\ Held(buffer[at], h, t) # <<>>
        /\ Head(Held(buffer[at], h, t)) = buffer[at][t]
        /\ Held(buffer[at], h, Following(t)) = Tail(Held(buffer[at], h, t))
    BY <1>3, HeldGet
  <2> QED BY <2>1, <1>3, <1>4, <1>6
<1>8. RingContents' = [RingContents EXCEPT ![at] = Tail(@)]
  <2>1. \A r \in Queues \ {at} : RingContents'[r] = RingContents[r]
    BY <1>4, <1>6
  <2>2. /\ RingContents = [q \in Queues |-> RingContents[q]]
        /\ RingContents' = [q \in Queues |-> RingContents'[q]]
    BY DEF RingContents
  <2> DEFINE before == RingContents
             after  == RingContents'
  <2>3. /\ before = [q \in Queues |-> before[q]] /\ after = [q \in Queues |-> after[q]]
        /\ after[at] = Tail(before[at]) /\ \A r \in Queues \ {at} : after[r] = before[r]
    BY <1>7, <2>1, <2>2
  <2> HIDE DEF before, after
  <2>4. after = [before EXCEPT ![at] = Tail(@)]
    BY <1>3, <2>3
  <2> QED BY <2>4 DEF before, after
<1>9. Taken = NoSlot /\ Taken' = cur
  BY <1>2 DEF Taken
<1>10. Fifo!Get(at)
  BY <1>2, <1>5, <1>7, <1>8, <1>9 DEF Fifo!Get
<1> QED BY <1>3, <1>10 DEF Fifo!Next

\* The rest of the SPDK thread and of the tear-down; QueueInit.
LEMMA LibraryAbstract ==
  ASSUME FInv, LibraryStep
  PROVE  Fifo!Next \/ UNCHANGED Fifo!vars
<1>1. TypeOK /\ Consuming
  BY DEF FInv, LInv
<1>2. /\ UNCHANGED <<ringVars, slot>>
      /\ \A c \in Clients : pc'[c] = pc[c] \/ (pc[c] = "asleep" /\ pc'[c] = "lock")
  BY <1>1, LibraryFrame
<1>3. Offers' = Offers
  BY <1>2, OffersFrame DEF Offering
<1>4. CASE Settle
  <2>1. RingContents' = RingContents /\ initialized' = initialized
    BY <1>2, <1>4, ContentsFrame DEF Settle
  <2>2. Taken # NoSlot /\ Taken' = NoSlot
    BY <1>1, <1>4 DEF Settle, Taken, Consuming
  <2>3. Fifo!Finish
    BY <2>1, <2>2, <1>3 DEF Fifo!Finish
  <2> QED BY <2>3 DEF Fifo!Next
<1>5. CASE FiniFree
  <2>1. CASE initialized
    <3>1. RingContents' = [q \in Queues |-> <<>>] /\ Taken' = Taken /\ ~initialized'
      BY <1>5 DEF FiniFree, RingContents, Taken, spdkVars
    <3>2. Fifo!Close
      BY <3>1, <2>1, <1>3 DEF Fifo!Close, Fifo!Empty
    <3> QED BY <3>2 DEF Fifo!Next
  <2>2. CASE ~initialized
    <3>1. RingContents' = RingContents /\ Taken' = Taken /\ initialized' = initialized
      BY <2>2, <1>1, <1>5 DEF FiniFree, RingContents, Taken, spdkVars, TypeOK
    <3> QED BY <3>1, <1>3 DEF Fifo!vars
  <2> QED BY <2>1, <2>2
<1>6. CASE LookAtRing \/ CheckEmpty \/ LoadRequest \/ Handle \/ Notify
  <2>1. initialized' = initialized /\ Taken' = Taken
    BY <1>6 DEF LookAtRing, CheckEmpty, LoadRequest, Handle, Notify, NextRing, Taken
  <2>2. RingContents' = RingContents
    BY <2>1, <1>2, ContentsFrame
  <2> QED BY <2>1, <2>2, <1>3 DEF Fifo!vars
<1>7. CASE FiniBegin \/ FiniStop \/ FiniWake \/ FiniSum
  <2>1. initialized' = initialized /\ Taken' = Taken
    BY <1>7 DEF FiniBegin, FiniStop, FiniWake, FiniSum, spdkVars, Taken
  <2>2. RingContents' = RingContents
    BY <2>1, <1>2, ContentsFrame
  <2> QED BY <2>1, <2>2, <1>3 DEF Fifo!vars
<1> QED BY <1>4, <1>5, <1>6, <1>7 DEF LibraryStep, FiniStep

LEMMA QueueInitAbstract ==
  ASSUME FInv, FInv', QueueInit
  PROVE  Fifo!Next
<1>1. RingContents = [q \in Queues |-> <<>>]
  BY DEF QueueInit, RingContents
<1>2. RingContents' = [q \in Queues |-> <<>>]
  <2>1. \A q \in Queues : head'[q] = 0 /\ tail'[q] = 0
    BY DEF QueueInit, RingsInit
  <2>2. 0 % RingSize = 0
    BY SizesAssumption
  <2>3. ASSUME NEW q \in Queues PROVE Contents(q)' = <<>>
    <3>1. Fill(q)' = 0
      BY <2>1, <2>2 DEF Fill
    <3> QED BY <3>1 DEF Contents
  <2> QED BY <2>3 DEF RingContents
<1>3. Offers' = Offers
  BY OffersFrame DEF QueueInit, clientVars
<1>4. Fifo!Open
  BY <1>1, <1>2, <1>3 DEF QueueInit, spdkVars, Taken, Fifo!Open
<1> QED BY <1>4 DEF Fifo!Next

LEMMA NextAbstract ==
  FInv /\ FInv' /\ [Next]_vars => [Fifo!Next]_Fifo!vars
<1> SUFFICES ASSUME FInv, FInv', [Next]_vars PROVE Fifo!Next \/ UNCHANGED Fifo!vars
  OBVIOUS
<1>1. CASE QueueInit
  BY <1>1, QueueInitAbstract
<1>2. ASSUME NEW c \in Clients, (\E kind \in Ops : Call(c, kind)) \/ ClientStep(c)
      PROVE  Fifo!Next \/ UNCHANGED Fifo!vars
  BY <1>2, QuietAbstract, StoreAbstract DEF ClientStep, QuietStep
<1>3. CASE SpdkStep \/ FiniBegin \/ FiniStep
  BY <1>3, AdvanceAbstract, LibraryAbstract DEF SpdkStep, LibraryStep
<1>4. CASE UNCHANGED vars
  <2>1. Offers' = Offers /\ RingContents' = RingContents
    BY <1>4, OffersFrame, ContentsFrame DEF vars, clientVars
  <2> QED BY <2>1, <1>4 DEF vars, spdkVars, Taken, Fifo!vars
<1> QED BY <1>1, <1>2, <1>3, <1>4 DEF Next

\* With no more clients than rings, the rings implement bounded FIFO queues of one cell
\* less than their size: what ring_enqueue has accepted comes out of ring_dequeue once
\* and in its order, although the two sides only load and store indices.
THEOREM RingsImplementFifo == ASSUME RingForEach PROVE Spec => ImplementsFifo
<1>1. FInv /\ [Next]_vars => FInv'
  BY NextFInv
<1> QED BY <1>1, InitFInv, InitAbstract, NextAbstract, PTL DEF Spec, ImplementsFifo, Fifo!Spec
-----------------------------------------------------------------------------
(***************************************************************************)
(* The pending counters.  A handler that answers without marking its       *)
(* request leaves it pending for ever, and a slot that is freed and        *)
(* allocated again while the SPDK thread has it makes the thread read the  *)
(* marks of another request.  Neither happens when all requests are        *)
(* asynchronous, for these are never freed, and all handlers mark theirs.  *)
(***************************************************************************)
NeverReused == Ops \subseteq {"async"} /\ Answers \subseteq {"marks"}

\* The slots that belong to the library: allocated, and no call will touch them again.
Kept == {s \in Slots : used_flags[s] /\ \A c \in Clients : slot[c] = s => pc[c] = "count"}

\* The slots in the ring with these cells and indices.
Between(buf, h, t) == {buf[Cell(t, k)] : k \in 1 .. Gap(h, t)}
Visible(q) == Between(buffer[q], head[q], tail[q])

\* The inductive invariant of the counters.  What is in a ring or in the hands of the
\* SPDK thread is kept, so what its handler has marked is still marked when the thread
\* looks; and a ring holds no empty cell, so what leaves it is handled.
PInv ==
  /\ \A c \in Clients : pc[c] # "idle" => op[c] = "async" /\ pc[c] \notin {"lock", "asleep"}
  /\ \A s \in Slots : answer[s] = "marks"
  /\ \A q \in Queues : Visible(q) \subseteq Kept
  /\ spdk_pc \in {"handle", "done?"} => cur \in Kept
  /\ spdk_pc = "done?" => done[cur] = TRUE
  /\ PendingAgrees

Counting(q) == {c \in Clients : pc[c] = "count" /\ my_queue[c] = q}
Net(q) == InFlight(q) - Uncounted(q)

LEMMA ModuloParts ==
  ASSUME NEW w \in Nat \ {0}, NEW x \in Int
  PROVE  \E a \in Int, r \in 0 .. w - 1 : x = w * a + r /\ r = x % w
OBVIOUS

LEMMA ModuloUnique ==
  ASSUME NEW w \in Nat \ {0}, NEW a \in Int, NEW r \in 0 .. w - 1,
         NEW b \in Int, NEW u \in 0 .. w - 1, w * a + r = w * b + u
  PROVE  u = r
<1>3. w * (a - b) = u - r
  <2>1. w * (a - b) = w * a - w * b
    OBVIOUS
  <2> QED BY <2>1
<1>4. \A d \in Int : d >= 1 => w * d >= w
  OBVIOUS
<1>5. \A d \in Int : d <= -1 => w * d <= -w
  OBVIOUS
<1>6. a - b = 0
  <2>1. ~(a - b >= 1)
    BY <1>3, <1>4
  <2>2. ~(a - b <= -1)
    BY <1>3, <1>5
  <2> QED BY <2>1, <2>2
<1> QED BY <1>3, <1>6

\* A counter that is kept modulo w agrees with one that is not.
LEMMA ModuloAdd ==
  ASSUME NEW w \in Nat \ {0}, NEW x \in Int, NEW n \in Int
  PROVE  ((x % w) + n) % w = (x + n) % w
<1>1. PICK a \in Int, r \in 0 .. w - 1 : x = w * a + r /\ r = x % w
  BY ModuloParts
<1>2. r + n \in Int /\ x + n \in Int
  OBVIOUS
<1>3. PICK b \in Int, u \in 0 .. w - 1 : r + n = w * b + u /\ u = (r + n) % w
  BY <1>2, ModuloParts
<1>4. PICK c \in Int, v \in 0 .. w - 1 : x + n = w * c + v /\ v = (x + n) % w
  BY <1>2, ModuloParts
<1>5. w * (a + b) + u = w * c + v
  <2>1. w * (a + b) = w * a + w * b
    OBVIOUS
  <2> DEFINE wa == w * a
             wb == w * b
             wc == w * c
  <2>2. wa \in Int /\ wb \in Int /\ wc \in Int
    OBVIOUS
  <2>3. x = wa + r /\ r + n = wb + u /\ x + n = wc + v /\ w * (a + b) = wa + wb
    BY <1>1, <1>3, <1>4, <2>1
  <2> HIDE DEF wa, wb, wc
  <2>4. w * (a + b) + u = wc + v
    BY <2>2, <2>3
  <2> QED BY <2>4 DEF wc
<1>6. u = v
  <2>1. a + b \in Int
    OBVIOUS
  <2> QED BY <1>5, <2>1, ModuloUnique
<1> QED BY <1>1, <1>3, <1>4, <1>6, Zenon

\* The number of requests that are counted for a ring changes as the set of those that
\* wait to be counted does.
LEMMA NetType ==
  ASSUME TypeOK, NEW q \in Queues
  PROVE  /\ Fill(q) = Gap(head[q], tail[q]) /\ Fill(q) \in 0 .. RingSize - 1
         /\ IsFiniteSet(Counting(q)) /\ Uncounted(q) = Cardinality(Counting(q))
         /\ Uncounted(q) \in Nat /\ InFlight(q) \in Int /\ Net(q) \in Int
<1>1. Fill(q) = Gap(head[q], tail[q])
  BY DEF Fill, Gap
<1>2. Fill(q) \in 0 .. RingSize - 1
  BY <1>1, GapCells DEF TypeOK
<1>3. IsFiniteSet(Counting(q)) /\ Cardinality(Counting(q)) \in Nat
  BY ClientsAssumption, FS_Subset, FS_CardinalityType DEF Counting
<1>4. Uncounted(q) = Cardinality(Counting(q))
  BY DEF Uncounted, Counting
<1>5. InFlight(q) \in Int
  BY <1>2, SizesAssumption DEF InFlight
<1>6. Net(q) \in Int
  BY <1>3, <1>4, <1>5 DEF Net
<1> QED BY <1>1, <1>2, <1>3, <1>4, <1>5, <1>6

\* A counter moves with the number it stands for.
LEMMA PendingStep ==
  ASSUME TypeOK, TypeOK', NEW q \in Queues, NEW n \in Int,
         pending[q] = Net(q) % CounterMod, Net(q)' = Net(q) + n,
         pending'[q] = Plus(q, n) \/ (n = 0 /\ pending'[q] = pending[q])
  PROVE  pending'[q] = Net(q)' % CounterMod
<1>1. Net(q) \in Int /\ CounterMod \in Nat \ {0}
  BY NetType, SizesAssumption
<1>2. CASE pending'[q] = Plus(q, n)
  <2>1. ((Net(q) % CounterMod) + n) % CounterMod = (Net(q) + n) % CounterMod
    BY <1>1, ModuloAdd
  <2>2. Plus(q, n) = ((Net(q) % CounterMod) + n) % CounterMod
    BY DEF Plus
  <2> QED BY <1>2, <2>1, <2>2, Zenon
<1>3. CASE n = 0 /\ pending'[q] = pending[q]
  BY <1>1, <1>3
<1> QED BY <1>2, <1>3

LEMMA PendingKept ==
  ASSUME TypeOK, TypeOK', NEW q \in Queues, pending[q] = Net(q) % CounterMod,
         Net(q)' = Net(q), pending'[q] = pending[q]
  PROVE  pending'[q] = Net(q)' % CounterMod
<1>1. Net(q) \in Int
  BY NetType
<1>2. Net(q)' = Net(q) + 0
  BY <1>1
<1> QED BY <1>2, PendingStep

LEMMA PendingNet == PendingAgrees <=> \A q \in Queues : pending[q] = Net(q) % CounterMod
BY DEF PendingAgrees, Net

\* Where nothing is published, counted, taken or settled, the number stays.
LEMMA NetFrame ==
  ASSUME NEW q \in Queues, Fill(q)' = Fill(q),
         \A c \in Clients : (pc'[c] = "count" /\ my_queue'[c] = q)
                              <=> (pc[c] = "count" /\ my_queue[c] = q),
         (at' = q /\ spdk_pc' \in {"handle", "done?"})
            <=> (at = q /\ spdk_pc \in {"handle", "done?"})
  PROVE  Net(q)' = Net(q)
<1>1. Counting(q)' = Counting(q)
  BY DEF Counting
<1>2. Uncounted(q)' = Uncounted(q)
  BY <1>1 DEF Uncounted, Counting
<1>3. InFlight(q)' = InFlight(q)
  BY DEF InFlight
<1> QED BY <1>2, <1>3 DEF Net

LEMMA FillFrame ==
  ASSUME NEW q \in Queues, head'[q] = head[q], tail'[q] = tail[q]
  PROVE  Fill(q)' = Fill(q)
BY DEF Fill

\* What is visible in a ring when its indices move.
LEMMA BetweenCells ==
  ASSUME NEW buf \in [Cells -> MaybeSlots], NEW h \in Cells, NEW t \in Cells
  PROVE  /\ \A f : (\A i \in Cells \ {h} : f[i] = buf[i]) => Between(f, h, t) = Between(buf, h, t)
         /\ Following(h) # t =>
              Between(buf, Following(h), t) \subseteq Between(buf, h, t) \cup {buf[h]}
         /\ h # t => /\ buf[t] \in Between(buf, h, t)
                     /\ Between(buf, h, Following(t)) \subseteq Between(buf, h, t)
<1>1. Gap(h, t) \in 0 .. RingSize - 1 /\ RingSize \in Nat
  BY GapCells, SizesAssumption
<1>2. \A k \in 1 .. Gap(h, t) : Cell(t, k) \in Cells /\ Cell(t, k) # h
  <2>1. \A k \in 1 .. Gap(h, t) : k \in 1 .. RingSize
    BY <1>1
  <2> QED BY <2>1, GapCells
<1>3. ASSUME NEW f, \A i \in Cells \ {h} : f[i] = buf[i]
      PROVE  Between(f, h, t) = Between(buf, h, t)
  <2>1. \A k \in 1 .. Gap(h, t) : f[Cell(t, k)] = buf[Cell(t, k)]
    BY <1>2, <1>3
  <2> QED BY <2>1 DEF Between
<1>4. ASSUME Following(h) # t
      PROVE  Between(buf, Following(h), t) \subseteq Between(buf, h, t) \cup {buf[h]}
  <2>1. Gap(Following(h), t) = Gap(h, t) + 1 /\ Cell(t, Gap(h, t) + 1) = h
    BY <1>4, GapPut
  <2>2. ASSUME NEW k \in 1 .. Gap(Following(h), t)
        PROVE  k \in 1 .. Gap(h, t) \/ Cell(t, k) = h
    BY <1>1, <2>1
  <2> QED BY <2>2 DEF Between
<1>5. ASSUME h # t
      PROVE  /\ buf[t] \in Between(buf, h, t)
             /\ Between(buf, h, Following(t)) \subseteq Between(buf, h, t)
  <2>1. /\ Gap(h, Following(t)) = Gap(h, t) - 1
        /\ Gap(h, t) >= 1 /\ Cell(t, 1) = t
        /\ \A k \in 1 .. Gap(h, t) - 1 : Cell(Following(t), k) = Cell(t, k + 1)
    BY <1>5, GapGet
  <2>2. 1 \in 1 .. Gap(h, t)
    BY <1>1, <2>1
  <2>3. \A k \in 1 .. Gap(h, Following(t)) :
          k + 1 \in 1 .. Gap(h, t) /\ Cell(Following(t), k) = Cell(t, k + 1)
    BY <1>1, <2>1
  <2> QED BY <2>1, <2>2, <2>3 DEF Between
<1> QED BY <1>3, <1>4, <1>5

LEMMA InitPInv == Init => PInv
<1> SUFFICES ASSUME Init PROVE PInv
  OBVIOUS
<1>1. 0 % RingSize = 0 /\ 0 % CounterMod = 0
  BY SizesAssumption
<1>2. ASSUME NEW q \in Queues PROVE Visible(q) = {} /\ pending[q] = Net(q) % CounterMod
  <2>1. head[q] = 0 /\ tail[q] = 0 /\ pending[q] = 0
    BY DEF Init
  <2>2. Fill(q) = 0 /\ Gap(head[q], tail[q]) = 0
    BY <1>1, <2>1 DEF Fill, Gap
  <2>3. Counting(q) = {}
    BY DEF Counting, Init
  <2>4. Uncounted(q) = 0
    BY <2>3, FS_EmptySet DEF Uncounted, Counting
  <2>5. InFlight(q) = 0
    BY <2>2 DEF InFlight, Init
  <2>6. Net(q) = 0
    BY <2>4, <2>5 DEF Net
  <2> QED BY <1>1, <2>1, <2>2, <2>6 DEF Visible, Between
<1>3. /\ \A c \in Clients : pc[c] = "idle"
      /\ \A s \in Slots : answer[s] = "marks"
      /\ spdk_pc = "ready?"
  BY DEF Init
<1> QED BY <1>2, <1>3, PendingNet DEF PInv

\* What a call does outside the ring leaves the slots of the library alone.
LEMMA QuietKept ==
  ASSUME FInv, PInv, NeverReused, NEW c \in Clients, QuietStep(c)
  PROVE  Kept \subseteq Kept'
<1>1. TypeOK /\ (\A d \in Clients : HasSlot(d)) /\ LInv
  BY DEF FInv, LInv
<1>2. \A d \in Clients \ {c} : pc'[d] = pc[d] /\ slot'[d] = slot[d]
  BY <1>1, QuietFrame
<1> SUFFICES ASSUME NEW s \in Slots, used_flags[s], \A d \in Clients : slot[d] = s => pc[d] = "count"
             PROVE  used_flags'[s] /\ (slot'[c] = s => pc'[c] = "count")
  BY <1>2 DEF Kept
<1>3. CASE Allocate(c)
  <2>1. PICK r \in Slots : /\ ~used_flags[r]
                           /\ used_flags' = [used_flags EXCEPT ![r] = TRUE]
                           /\ slot' = [slot EXCEPT ![c] = r]
    BY <1>3 DEF Allocate
  <2>2. r # s /\ slot'[c] = r
    BY <1>1, <2>1 DEF TypeOK
  <2> QED BY <1>1, <2>1, <2>2 DEF TypeOK
<1>4. CASE Release(c)
  <2>1. slot[c] # s /\ slot'[c] = NoSlot
    BY <1>1, <1>4 DEF Release, TypeOK
  <2>2. used_flags'[s]
    BY <1>1, <1>4, <2>1 DEF Release, TypeOK, poolVars
  <2> QED BY <2>1, <2>2, NullAssumption
<1>5. CASE CountPending(c)
  <2>1. op[c] = "async"
    BY <1>5 DEF CountPending, PInv
  <2>2. slot'[c] = NoSlot /\ UNCHANGED poolVars
    BY <1>1, <1>5, <2>1 DEF CountPending, TypeOK
  <2> QED BY <2>2, NullAssumption DEF poolVars
<1>6. CASE \/ \E kind \in Ops : Call(c, kind)
           \/ AllocateFails(c)
           \/ \E kind \in Answers : Prepare(c, kind)
           \/ CheckReady(c) \/ LoadHead(c) \/ CheckFull(c) \/ WaitLoop(c)
  <2>1. UNCHANGED <<used_flags, slot>> /\ pc[c] # "count"
    BY <1>6 DEF Call, AllocateFails, Prepare, CheckReady, LoadHead, CheckFull, WaitLoop, poolVars
  <2> QED BY <2>1
<1> QED BY <1>3, <1>4, <1>5, <1>6 DEF QuietStep

LEMMA QuietPInv ==
  ASSUME FInv, PInv, NeverReused, TypeOK', NEW c \in Clients, QuietStep(c)
  PROVE  PInv'
<1>1. /\ TypeOK /\ LInv /\ \A d \in Clients : HasSlot(d) /\ HasQueue(d)
      /\ spdk_pc \in {"handle", "done?"} => cur # NoSlot
  BY DEF FInv, LInv, Consuming
<1>2. /\ UNCHANGED <<ringVars, spdkVars>>
      /\ \A d \in Clients \ {c} : pc'[d] = pc[d] /\ my_queue'[d] = my_queue[d]
  BY <1>1, QuietFrame
<1>3. Kept \subseteq Kept'
  BY QuietKept
<1>4. \A q \in Queues : Visible(q)' \subseteq Kept'
  BY <1>2, <1>3 DEF PInv, Visible, ringVars
<1>5. spdk_pc' \in {"handle", "done?"} => cur' \in Kept'
  BY <1>2, <1>3 DEF PInv, spdkVars
<1>6. \A d \in Clients : pc'[d] # "idle" => op'[d] = "async" /\ pc'[d] \notin {"lock", "asleep"}
  <2>1. op' = [op EXCEPT ![c] = op'[c]]
    BY <1>1 DEF TypeOK, QuietStep, Call, Allocate, AllocateFails, Prepare, CheckReady, LoadHead,
       CheckFull, CountPending, WaitLoop, Release
  <2>2. pc'[c] # "idle" => op'[c] = "async" /\ pc'[c] \notin {"lock", "asleep"}
    <3>1. CASE \E kind \in Ops : Call(c, kind)
      <4>1. PICK kind \in Ops : Call(c, kind)
        BY <3>1
      <4>2. kind = "async"
        BY DEF NeverReused
      <4> QED BY <1>1, <4>1, <4>2 DEF Call, TypeOK
    <3>2. CASE /\ pc[c] # "idle" /\ op' = op /\ ~WaitLoop(c)
               /\ pc'[c] \notin {"lock", "asleep"} \/ CountPending(c)
      BY <1>1, <3>2 DEF PInv, CountPending, TypeOK
    <3>3. ~WaitLoop(c)
      BY DEF WaitLoop, PInv
    <3> QED BY <1>1, <3>1, <3>2, <3>3
            DEF TypeOK, QuietStep, Allocate, AllocateFails, Prepare, CheckReady, LoadHead,
                CheckFull, CountPending, Release
  <2> QED BY <1>1, <1>2, <2>1, <2>2 DEF PInv, TypeOK
<1>7. /\ \A s \in Slots : answer'[s] = "marks"
      /\ spdk_pc' = "done?" => done'[cur'] = TRUE
  <2>1. CASE \E kind \in Answers : Prepare(c, kind)
    <3>1. PICK kind \in Answers : Prepare(c, kind)
      BY <2>1
    <3>2. kind = "marks" /\ pc[c] = "prepare" /\ UNCHANGED spdkVars
      BY <3>1 DEF NeverReused, Prepare
    <3>3. /\ answer' = [answer EXCEPT ![slot[c]] = "marks"]
          /\ done' = [done EXCEPT ![slot[c]] = FALSE]
      BY <3>1, <3>2 DEF Prepare, Clear
    <3>4. spdk_pc = "done?" => cur # slot[c] /\ cur \in Slots
      BY <3>2 DEF PInv, Kept
    <3> QED BY <1>1, <3>2, <3>3, <3>4 DEF PInv, TypeOK, spdkVars
  <2>2. CASE UNCHANGED reqVars
    BY <1>2, <2>2 DEF PInv, reqVars, spdkVars
  <2> QED BY <2>1, <2>2 DEF QuietStep, Call, Allocate, AllocateFails, CheckReady, LoadHead,
                            CheckFull, CountPending, WaitLoop, Release
<1>8. ASSUME NEW q \in Queues PROVE pending'[q] = Net(q)' % CounterMod
  <2>0. pending[q] = Net(q) % CounterMod
    BY PendingNet DEF PInv
  <2>1. Fill(q)' = Fill(q)
    BY <1>2, FillFrame DEF ringVars
  <2>2. CASE CountPending(c) /\ my_queue[c] = q
    <3>1. /\ pending'[q] = Plus(q, 1) /\ op[c] = "async" /\ pc[c] = "count"
          /\ my_queue' = my_queue
      BY <1>1, <2>2 DEF CountPending, TypeOK, PInv, tlsVars
    <3>2. pc'[c] = "idle"
      BY <1>1, <2>2, <3>1 DEF CountPending, TypeOK
    <3>3. Counting(q)' = Counting(q) \ {c} /\ c \in Counting(q)
      BY <1>2, <2>2, <3>1, <3>2 DEF Counting
    <3>4. Uncounted(q)' = Uncounted(q) - 1
      <4>1. IsFiniteSet(Counting(q)) /\ Uncounted(q) = Cardinality(Counting(q))
        BY <1>1, NetType
      <4>2. Cardinality(Counting(q) \ {c}) = Cardinality(Counting(q)) - 1
        BY <3>3, <4>1, FS_RemoveElement
      <4>3. Uncounted(q)' = Cardinality(Counting(q)')
        BY DEF Uncounted, Counting
      <4> QED BY <3>3, <4>1, <4>2, <4>3
    <3>5. InFlight(q)' = InFlight(q)
      BY <1>2, <2>1 DEF InFlight, spdkVars
    <3>6. Net(q)' = Net(q) + 1
      BY <1>1, <3>4, <3>5, NetType DEF Net
    <3> QED BY <1>1, <2>0, <3>1, <3>6, PendingStep
  <2>3. CASE ~(CountPending(c) /\ my_queue[c] = q)
    <3>1. pending'[q] = pending[q]
      BY <1>1, <2>3 DEF TypeOK, QuietStep, Call, Allocate, AllocateFails, Prepare, CheckReady,
         LoadHead, CheckFull, CountPending, WaitLoop, Release
    <3>2. (pc'[c] = "count" /\ my_queue'[c] = q) <=> (pc[c] = "count" /\ my_queue[c] = q)
      BY <1>1, <2>3 DEF TypeOK, QuietStep, Call, Allocate, AllocateFails, Prepare, CheckReady,
         LoadHead, CheckFull, CountPending, WaitLoop, Release, tlsVars
    <3>3. Net(q)' = Net(q)
      BY <1>2, <2>1, <3>2, NetFrame DEF spdkVars
    <3> QED BY <1>1, <2>0, <3>1, <3>3, PendingKept
  <2> QED BY <2>2, <2>3
<1>9. PendingAgrees'
  BY <1>8 DEF PendingAgrees, Net
<1> QED BY <1>4, <1>5, <1>6, <1>7, <1>9 DEF PInv

\* ring_enqueue's stores: the cell at the head is not visible yet, and what becomes
\* visible waits to be counted.
LEMMA StorePInv ==
  ASSUME FInv, PInv, TypeOK', NEW c \in Clients, StoreRequest(c) \/ PublishHead(c),
         NEW r \in Queues, r = my_queue[c],
         NEW h \in Cells, h = head[r], NEW t \in Cells, t = tail[r]
  PROVE  PInv'
<1>1. /\ TypeOK /\ LInv /\ PoolAgrees
      /\ \A d \in Clients : HasSlot(d) /\ HasQueue(d) /\ Producing(d)
  BY DEF FInv, LInv
<1>2. /\ buffer[r] \in [Cells -> MaybeSlots] /\ slot[c] \in Slots /\ initialized
      /\ UNCHANGED <<tail, tlsVars, slot, spdkVars>>
      /\ \A d \in Clients \ {c} : pc'[d] = pc[d]
      /\ \A q \in Queues \ {r} : head'[q] = head[q] /\ buffer'[q] = buffer[q]
  BY <1>1, StoreFrame
<1>3. /\ UNCHANGED <<poolVars, reqVars, op, pending>>
      /\ seen_head[c] = h /\ Following(h) # t
      /\ pc[c] \in {"store", "publish"} /\ pc'[c] \in {"publish", "count"}
  BY <1>1 DEF StoreRequest, PublishHead, Producing, TypeOK
<1>4. Kept \subseteq Kept'
  <2>1. slot[c] \notin Kept
    BY <1>3 DEF Kept
  <2> QED BY <1>2, <1>3, <2>1 DEF Kept, poolVars
<1>5. \A q \in Queues \ {r} : Visible(q)' \subseteq Kept'
  BY <1>2, <1>4 DEF PInv, Visible
<1>6. Visible(r) \subseteq Kept
  BY <1>2 DEF PInv
<1>7. pending'[r] = pending[r] /\ pending[r] = Net(r) % CounterMod
  BY <1>2, <1>3, PendingNet DEF PInv
<1>8. ASSUME NEW q \in Queues \ {r} PROVE pending'[q] = Net(q)' % CounterMod
  <2>1. Fill(q)' = Fill(q)
    BY <1>2, FillFrame
  <2>2. Net(q)' = Net(q)
    BY <1>2, <2>1, NetFrame DEF tlsVars, spdkVars
  <2>3. pending'[q] = pending[q] /\ pending[q] = Net(q) % CounterMod
    BY <1>3, PendingNet DEF PInv
  <2> QED BY <1>1, <2>2, <2>3, PendingKept
<1>9. Visible(r)' \subseteq Kept' /\ Net(r)' = Net(r)
  <2>1. CASE StoreRequest(c)
    <3>1. /\ head' = head /\ pc'[c] = "publish" /\ pc[c] = "store"
          /\ buffer'[r] = [buffer[r] EXCEPT ![h] = slot[c]]
      <4>1. /\ head' = head /\ pc' = [pc EXCEPT ![c] = "publish"] /\ pc[c] = "store"
            /\ buffer' = [buffer EXCEPT ![my_queue[c]][seen_head[c]] = slot[c]]
        BY <2>1 DEF StoreRequest
      <4>2. buffer'[my_queue[c]] = [buffer[my_queue[c]] EXCEPT ![seen_head[c]] = slot[c]]
        BY <1>1, <4>1 DEF TypeOK
      <4>3. pc'[c] = "publish"
        BY <1>1, <4>1 DEF TypeOK
      <4> QED BY <1>3, <4>1, <4>2, <4>3
    <3>2. Visible(r)' = Visible(r)
      <4>1. \A i \in Cells \ {h} : buffer'[r][i] = buffer[r][i]
        BY <1>2, <3>1
      <4>2. head'[r] = h /\ tail'[r] = t
        BY <1>2, <3>1
      <4>3. \A f : (\A i \in Cells \ {h} : f[i] = buffer[r][i])
                     => Between(f, h, t) = Between(buffer[r], h, t)
        BY <1>2, BetweenCells
      <4>4. Between(buffer'[r], h, t) = Between(buffer[r], h, t)
        BY <4>1, <4>3
      <4> QED BY <4>2, <4>4 DEF Visible
    <3>3. Fill(r)' = Fill(r)
      BY <1>2, <3>1, FillFrame
    <3>4. Net(r)' = Net(r)
      BY <1>2, <3>1, <3>3, NetFrame DEF tlsVars, spdkVars
    <3> QED BY <1>4, <1>6, <3>2, <3>4
  <2>2. CASE PublishHead(c)
    <3>1. /\ buffer' = buffer /\ pc'[c] = "count" /\ pc[c] = "publish"
          /\ head'[r] = Following(h) /\ buffer[r][h] = slot[c]
      BY <1>1, <1>2, <1>3, <2>2 DEF PublishHead, Producing, TypeOK
    <3>2. slot[c] \in Kept'
      <4>1. used_flags[slot[c]] /\ \A d \in Clients \ {c} : slot[d] # slot[c]
        BY <1>1, <1>2, NullAssumption DEF PoolAgrees
      <4> QED BY <1>2, <1>3, <3>1, <4>1 DEF Kept, poolVars
    <3>3. Visible(r)' \subseteq Visible(r) \cup {slot[c]}
      <4>1. Between(buffer[r], Following(h), t) \subseteq Between(buffer[r], h, t) \cup {buffer[r][h]}
        BY <1>2, <1>3, BetweenCells
      <4>2. tail' = tail
        BY <1>2
      <4> QED BY <3>1, <4>1, <4>2 DEF Visible
    <3>4. Fill(r)' = Fill(r) + 1
      <4>1. Gap(Following(h), t) = Gap(h, t) + 1
        BY <1>2, <1>3, GapPut
      <4>2. Fill(r)' = Gap(Following(h), t) /\ Fill(r) = Gap(h, t)
        BY <1>2, <3>1 DEF Fill, Gap
      <4> QED BY <4>1, <4>2
    <3>5. Counting(r)' = Counting(r) \cup {c} /\ c \notin Counting(r)
      BY <1>2, <3>1 DEF Counting, tlsVars
    <3>6. Uncounted(r)' = Uncounted(r) + 1
      <4>1. IsFiniteSet(Counting(r)) /\ Uncounted(r) = Cardinality(Counting(r))
        BY <1>1, <1>2, NetType
      <4>2. Cardinality(Counting(r) \cup {c}) = Cardinality(Counting(r)) + 1
        BY <3>5, <4>1, FS_AddElement
      <4>3. Uncounted(r)' = Cardinality(Counting(r)')
        BY DEF Uncounted, Counting
      <4> QED BY <3>5, <4>1, <4>2, <4>3
    <3>7. InFlight(r)' = InFlight(r) + 1
      <4>1. Fill(r) \in Int
        BY <1>1, <1>2, NetType, SizesAssumption
      <4> QED BY <1>2, <3>4, <4>1 DEF InFlight, spdkVars
    <3>8. Net(r)' = Net(r)
      <4>1. InFlight(r) \in Int /\ Uncounted(r) \in Int
        BY <1>1, <1>2, NetType
      <4> QED BY <3>6, <3>7, <4>1 DEF Net
    <3> QED BY <1>4, <1>6, <3>2, <3>3, <3>8
  <2> QED BY <2>1, <2>2
<1>10. ASSUME NEW d \in Clients, pc'[d] # "idle"
       PROVE  op'[d] = "async" /\ pc'[d] \notin {"lock", "asleep"}
  BY <1>2, <1>3, <1>10 DEF PInv
<1>11. /\ \A s \in Slots : answer'[s] = "marks"
       /\ spdk_pc' \in {"handle", "done?"} => cur' \in Kept'
       /\ spdk_pc' = "done?" => done'[cur'] = TRUE
  BY <1>2, <1>3, <1>4 DEF PInv, reqVars, spdkVars
<1>12. \A q \in Queues : Visible(q)' \subseteq Kept' /\ pending'[q] = Net(q)' % CounterMod
  <2>1. pending'[r] = Net(r)' % CounterMod
    BY <1>1, <1>7, <1>9, PendingKept
  <2> QED BY <1>5, <1>8, <1>9, <2>1, Zenon
<1>13. PendingAgrees'
  BY <1>12 DEF PendingAgrees, Net
<1> QED BY <1>10, <1>11, <1>12, <1>13 DEF PInv

\* ring_dequeue's store of tail: the request goes from the ring into the hands of the
\* SPDK thread; it is never NULL, for the cells between the indices are filled.
LEMMA AdvancePInv ==
  ASSUME FInv, PInv, TypeOK', AdvanceTail, NEW r \in Queues, r = at,
         NEW h \in Cells, h = head[r], NEW t \in Cells, t = tail[r]
  PROVE  PInv'
<1>1. TypeOK /\ Consuming
  BY DEF FInv, LInv
<1>2. /\ UNCHANGED <<poolVars, reqVars, clientVars, tlsVars, buffer, head, pending, at, cur>>
      /\ spdk_pc = "advance" /\ tail' = [tail EXCEPT ![r] = Following(t)]
      /\ spdk_pc' = IF cur = NoSlot THEN "empty?" ELSE "handle"
  BY DEF AdvanceTail
<1>3. /\ h # t /\ cur = buffer[r][t] /\ buffer[r] \in [Cells -> MaybeSlots]
      /\ tail'[r] = Following(t) /\ \A q \in Queues \ {r} : tail'[q] = tail[q]
  BY <1>1, <1>2 DEF Consuming, TypeOK, MaybeSlots
<1>4. Kept' = Kept
  BY <1>2 DEF Kept, poolVars, clientVars
<1>5. cur \in Visible(r) /\ Visible(r)' \subseteq Visible(r)
  <2>1. /\ buffer[r][t] \in Between(buffer[r], h, t)
        /\ Between(buffer[r], h, Following(t)) \subseteq Between(buffer[r], h, t)
    BY <1>3, BetweenCells
  <2> QED BY <1>2, <1>3, <2>1 DEF Visible
<1>6. cur \in Kept /\ spdk_pc' = "handle"
  <2>1. cur \in Kept
    BY <1>5 DEF PInv
  <2>2. cur \in Slots
    BY <2>1 DEF Kept
  <2> QED BY <1>2, <2>1, <2>2, NullAssumption
<1>7. Net(r)' = Net(r)
  <2>1. Fill(r)' = Fill(r) - 1
    <3>1. Gap(h, Following(t)) = Gap(h, t) - 1
      BY <1>3, GapGet
    <3>2. Fill(r)' = Gap(h, Following(t)) /\ Fill(r) = Gap(h, t)
      BY <1>2, <1>3 DEF Fill, Gap
    <3> QED BY <3>1, <3>2
  <2>2. Uncounted(r)' = Uncounted(r)
    BY <1>2 DEF Uncounted, clientVars, tlsVars
  <2>3. InFlight(r) = Fill(r) /\ InFlight(r)' = Fill(r) - 1 + 1 /\ Fill(r) \in Int
    BY <1>1, <1>2, <1>6, <2>1, NetType DEF InFlight
  <2> QED BY <2>2, <2>3 DEF Net
<1>8. ASSUME NEW q \in Queues PROVE Visible(q)' \subseteq Kept' /\ pending'[q] = Net(q)' % CounterMod
  <2>1. pending'[q] = pending[q] /\ pending[q] = Net(q) % CounterMod /\ Visible(q) \subseteq Kept
    BY <1>2, PendingNet DEF PInv
  <2>2. CASE q = r
    BY <1>1, <1>4, <1>5, <1>7, <2>1, <2>2, PendingKept
  <2>3. CASE q # r
    <3>1. Fill(q)' = Fill(q)
      BY <1>2, <1>3, <2>3, FillFrame
    <3>2. Net(q)' = Net(q)
      BY <1>2, <2>3, <3>1, NetFrame DEF clientVars, tlsVars
    <3>3. Visible(q)' = Visible(q)
      BY <1>2, <1>3, <2>3 DEF Visible
    <3> QED BY <1>1, <1>4, <2>1, <3>2, <3>3, PendingKept
  <2> QED BY <2>2, <2>3
<1>9. PendingAgrees'
  BY <1>8 DEF PendingAgrees, Net
<1>10. /\ \A c \in Clients : pc'[c] # "idle" => op'[c] = "async" /\ pc'[c] \notin {"lock", "asleep"}
       /\ \A s \in Slots : answer'[s] = "marks"
  BY <1>2 DEF PInv, clientVars, reqVars
<1> QED BY <1>2, <1>4, <1>6, <1>8, <1>9, <1>10 DEF PInv

\* A request that is settled has been marked, and is taken off the counter.
LEMMA SettlePInv ==
  ASSUME FInv, PInv, TypeOK', Settle
  PROVE  PInv'
<1>1. TypeOK
  BY DEF FInv, LInv
<1>2. /\ UNCHANGED <<poolVars, reqVars, clientVars, tlsVars, ringVars, at>>
      /\ spdk_pc = "done?" /\ spdk_pc' \notin {"handle", "done?"}
      /\ pending' = [pending EXCEPT ![at] = Plus(at, -1)]
  BY DEF Settle, PInv
<1>3. Kept' = Kept /\ \A q \in Queues : Visible(q)' = Visible(q) /\ Fill(q)' = Fill(q)
  BY <1>2 DEF Kept, poolVars, clientVars, Visible, Fill, ringVars
<1>4. ASSUME NEW q \in Queues PROVE pending'[q] = Net(q)' % CounterMod
  <2>1. pending[q] = Net(q) % CounterMod
    BY PendingNet DEF PInv
  <2>2. CASE q = at
    <3>1. pending'[q] = Plus(q, -1)
      BY <1>1, <1>2, <2>2 DEF TypeOK
    <3>2. Uncounted(q)' = Uncounted(q)
      BY <1>2 DEF Uncounted, clientVars, tlsVars
    <3>3. InFlight(q)' = InFlight(q) - 1 /\ InFlight(q) \in Int /\ Uncounted(q) \in Int
      <4>1. Fill(q) \in Int /\ InFlight(q) \in Int /\ Uncounted(q) \in Int
        BY <1>1, NetType
      <4>2. InFlight(q) = Fill(q) + 1 /\ InFlight(q)' = Fill(q) + 0
        BY <1>2, <1>3, <2>2 DEF InFlight
      <4> QED BY <4>1, <4>2
    <3>4. Net(q)' = Net(q) + (-1)
      BY <3>2, <3>3 DEF Net
    <3> QED BY <1>1, <2>1, <3>1, <3>4, PendingStep
  <2>3. CASE q # at
    <3>1. pending'[q] = pending[q]
      BY <1>1, <1>2, <2>3 DEF TypeOK
    <3>2. Net(q)' = Net(q)
      BY <1>2, <1>3, <2>3, NetFrame DEF clientVars, tlsVars
    <3> QED BY <1>1, <2>1, <3>1, <3>2, PendingKept
  <2> QED BY <2>2, <2>3
<1>5. PendingAgrees'
  BY <1>4 DEF PendingAgrees, Net
<1>6. /\ \A c \in Clients : pc'[c] # "idle" => op'[c] = "async" /\ pc'[c] \notin {"lock", "asleep"}
      /\ \A s \in Slots : answer'[s] = "marks"
  BY <1>2 DEF PInv, clientVars, reqVars
<1> QED BY <1>2, <1>3, <1>5, <1>6 DEF PInv

\* The other steps of the library wake nobody, for nobody sleeps, and neither take nor
\* settle a request.
LEMMA OtherPInv ==
  ASSUME FInv, PInv, TypeOK', LibraryStep, ~Settle
  PROVE  PInv'
<1>1. TypeOK
  BY DEF FInv, LInv
<1>2. /\ UNCHANGED <<ringVars, tlsVars, op, slot>>
      /\ \A c \in Clients : pc'[c] = pc[c]
  BY <1>1, LibraryFrame DEF PInv
<1>3. UNCHANGED <<poolVars, pending, answer>>
  BY DEF LibraryStep, LookAtRing, CheckEmpty, LoadRequest, Handle, Notify, FiniBegin, FiniStep,
         FiniStop, FiniWake, FiniSum, FiniFree, reqVars
<1>4. Kept' = Kept /\ \A q \in Queues : Visible(q)' = Visible(q) /\ Fill(q)' = Fill(q)
  BY <1>2, <1>3 DEF Kept, poolVars, Visible, Fill, ringVars
<1>5. /\ spdk_pc' \in {"handle", "done?"} <=> spdk_pc \in {"handle", "done?"}
      /\ spdk_pc' \in {"handle", "done?"} => at' = at /\ cur' = cur
      /\ spdk_pc' = "done?" => done'[cur'] = TRUE
  <2>1. CASE LookAtRing \/ CheckEmpty \/ LoadRequest \/ Notify
    BY <2>1 DEF LookAtRing, CheckEmpty, LoadRequest, Notify, NextRing
  <2>2. CASE Handle
    <3>1. cur \in Slots /\ answer[cur] = "marks"
      BY <2>2 DEF Handle, PInv, Kept
    <3> QED BY <1>1, <2>2, <3>1 DEF Handle, TypeOK
  <2>3. CASE FiniBegin \/ FiniStep
    BY <2>3 DEF FiniBegin, FiniStep, FiniStop, FiniWake, FiniSum, FiniFree, PInv, spdkVars, reqVars
  <2> QED BY <2>1, <2>2, <2>3 DEF LibraryStep
<1>6. ASSUME NEW q \in Queues PROVE pending'[q] = Net(q)' % CounterMod
  <2>1. pending[q] = Net(q) % CounterMod /\ pending'[q] = pending[q]
    BY <1>3, PendingNet DEF PInv
  <2>2. Net(q)' = Net(q)
    BY <1>2, <1>4, <1>5, NetFrame DEF tlsVars
  <2> QED BY <1>1, <2>1, <2>2, PendingKept
<1>7. PendingAgrees'
  BY <1>6 DEF PendingAgrees, Net
<1>8. /\ \A c \in Clients : pc'[c] # "idle" => op'[c] = "async" /\ pc'[c] \notin {"lock", "asleep"}
      /\ \A s \in Slots : answer'[s] = "marks"
      /\ \A q \in Queues : Visible(q)' \subseteq Kept'
      /\ spdk_pc' \in {"handle", "done?"} => cur' \in Kept'
  BY <1>2, <1>3, <1>4, <1>5 DEF PInv
<1> QED BY <1>5, <1>7, <1>8 DEF PInv

\* xbdev_queue_init starts everything from zero.
LEMMA QueueInitPInv == PInv /\ QueueInit => PInv'
<1> SUFFICES ASSUME PInv, QueueInit PROVE PInv'
  OBVIOUS
<1>1. 0 % RingSize = 0 /\ 0 % CounterMod = 0
  BY SizesAssumption
<1>2. /\ \A q \in Queues : head'[q] = 0 /\ tail'[q] = 0 /\ pending'[q] = 0
      /\ \A c \in Clients : pc'[c] = "idle"
      /\ \A s \in Slots : answer'[s] = "marks"
      /\ spdk_pc' = "ready?"
  BY DEF QueueInit, RingsInit, clientVars, spdkVars
<1>3. ASSUME NEW q \in Queues PROVE Visible(q)' = {} /\ pending'[q] = Net(q)' % CounterMod
  <2>1. Fill(q)' = 0 /\ Gap(head'[q], tail'[q]) = 0
    BY <1>1, <1>2 DEF Fill, Gap
  <2>2. Counting(q)' = {}
    BY <1>2 DEF Counting
  <2>3. Uncounted(q)' = 0
    BY <2>2, FS_EmptySet DEF Uncounted, Counting
  <2>4. InFlight(q)' = 0
    BY <1>2, <2>1 DEF InFlight
  <2>5. Net(q)' = 0
    BY <2>3, <2>4 DEF Net
  <2> QED BY <1>1, <1>2, <2>1, <2>5 DEF Visible, Between
<1>4. PendingAgrees'
  BY <1>3 DEF PendingAgrees, Net
<1> QED BY <1>2, <1>3, <1>4 DEF PInv

\* Every step keeps the counters in agreement with the rings.
LEMMA NextPInv == FInv /\ PInv /\ RingForEach /\ NeverReused /\ [Next]_vars => PInv'
<1> SUFFICES ASSUME FInv, PInv, RingForEach, NeverReused, [Next]_vars PROVE PInv'
  OBVIOUS
<1>1. TypeOK' /\ LInv
  BY NextFInv DEF FInv, LInv
<1>2. CASE QueueInit
  BY <1>2, QueueInitPInv
<1>3. ASSUME NEW c \in Clients, (\E kind \in Ops : Call(c, kind)) \/ ClientStep(c)
      PROVE  PInv'
  <2>1. CASE StoreRequest(c) \/ PublishHead(c)
    <3>1. my_queue[c] \in Queues /\ head[my_queue[c]] \in Cells /\ tail[my_queue[c]] \in Cells
      BY <1>1, <2>1, StoreFrame
    <3> QED BY <1>1, <2>1, <3>1, StorePInv
  <2>2. CASE QuietStep(c)
    BY <1>1, <2>2, QuietPInv
  <2> QED BY <1>3, <2>1, <2>2 DEF ClientStep, QuietStep
<1>4. CASE AdvanceTail
  <2>1. at \in Queues /\ head[at] \in Cells /\ tail[at] \in Cells
    BY <1>1 DEF LInv, TypeOK
  <2> QED BY <1>1, <1>4, <2>1, AdvancePInv
<1>5. CASE LibraryStep
  BY <1>1, <1>5, SettlePInv, OtherPInv
<1>6. CASE UNCHANGED vars
  <2>1. Kept' = Kept /\ \A q \in Queues : Visible(q)' = Visible(q)
    BY <1>6 DEF Kept, Visible, vars, poolVars, clientVars, ringVars
  <2>2. PendingAgrees'
    BY <1>6 DEF PInv, PendingAgrees, InFlight, Uncounted, Fill, vars, ringVars, clientVars, spdkVars,
                tlsVars
  <2> QED BY <1>6, <2>1, <2>2 DEF PInv, vars, clientVars, reqVars, spdkVars
<1> QED BY <1>2, <1>3, <1>4, <1>5, <1>6 DEF Next, SpdkStep, LibraryStep

\* With a ring for each client, asynchronous requests and handlers that mark them, the
\* pending counter of a ring is the number of its requests in flight less those that are
\* published and not yet counted, at every moment and however often it goes below zero:
\* what the tear-down waits for is what is left to do.
THEOREM CountersAgree == ASSUME RingForEach, NeverReused PROVE Spec => []PendingAgrees
<1>1. Init => FInv /\ PInv
  BY InitFInv, InitPInv
<1>2. FInv /\ PInv /\ [Next]_vars => FInv' /\ PInv'
  BY NextFInv, NextPInv
<1>3. PInv => PendingAgrees
  BY DEF PInv
<1> QED BY <1>1, <1>2, <1>3, PTL DEF Spec
=============================================================================
