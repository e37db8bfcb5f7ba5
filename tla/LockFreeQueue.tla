---------------------------- MODULE LockFreeQueue ----------------------------
(***************************************************************************)
(* The request system of src/libxbdev/request_queue.c: rings without locks *)
(* between the client threads and the SPDK thread, a pool of request slots *)
(* under one mutex, a counter of pending requests per ring, and a tear-down*)
(* that stops the rings and waits for the counters to reach zero.          *)
(*                                                                         *)
(* Each load and each store of a shared ring index or counter is a step of *)
(* its own.  The barriers of ring_enqueue and ring_dequeue keep the order  *)
(* of the stores, so steps are taken in program order.                     *)
(*                                                                         *)
(* Once the tear-down has freed rings, mutexes and pool, a thread that is  *)
(* still inside a call would touch freed memory.  Its behaviour is then    *)
(* undefined; here such a thread takes no further step (the guards         *)
(* "initialized" below stand for the memory being there).                  *)
(*                                                                         *)
(* req_id and its counter, the status of a request and its time stamps are *)
(* left out: nothing in the library reads them.                            *)
(***************************************************************************)
EXTENDS Integers, Sequences, FiniteSets

CONSTANTS Clients,     \* the client threads
          NumQueues,   \* number of rings
          RingSize,    \* cells of each ring (a power of two)
          PoolSize,    \* slots of the request pool
          Ops,         \* kinds of call the clients make: "sync", "async"
          Answers,     \* kinds of handler their requests have: "marks" sets
                       \* req->done, "silent" leaves it alone
          CanStop,     \* whether the application may call xbdev_queue_fini
          CounterMod,  \* the pending counter is kept modulo this (2^32)
          NoSlot, NoQueue

Queues == 0 .. NumQueues - 1
Cells  == 0 .. RingSize - 1
Slots  == 1 .. PoolSize

ASSUME ClientsAssumption  == IsFiniteSet(Clients)
ASSUME SizesAssumption    == /\ NumQueues \in Nat \ {0}
                             /\ RingSize \in Nat \ {0}
                             /\ PoolSize \in Nat \ {0}
                             /\ CounterMod \in Nat \ {0}
ASSUME OpsAssumption      == Ops \subseteq {"sync", "async"}
ASSUME AnswersAssumption  == Answers \subseteq {"marks", "silent"}
ASSUME CanStopAssumption  == CanStop \in BOOLEAN
ASSUME NullAssumption     == NoSlot \notin Slots /\ NoQueue \notin Queues

VARIABLES
  initialized,  \* g_queue_ctx.initialized
  status,       \* status[q]: "uninit", "ready" or "stopping"
  buffer,       \* buffer[q][i]: what cell i of ring q points to
  head, tail,   \* the producer's and the consumer's index of each ring
  pending,      \* pending[q]: the counter of pending requests
  next_queue,   \* next_queue_idx, modulo the number of rings
  my_queue,     \* my_queue[c]: the ring kept in thread-local storage
  used_flags,   \* used_flags[s]: slot s of the pool is allocated
  count,        \* the counter kept beside used_flags
  sync_req,     \* sync_req[s]: the request has a waiting thread
  answer,       \* answer[s]: the kind of handler its type has
  done,         \* done[s]: the request is marked complete
  pc,           \* pc[c]: where client c is in its call
  op,           \* op[c]: the kind of call
  slot,         \* slot[c]: the request of the call
  seen_head,    \* seen_head[c]: the local copy of head in ring_enqueue, 0 outside
  spdk_pc,      \* where the SPDK thread is
  at,           \* the ring it is at
  cur,          \* the request it has taken and not yet settled
  fini_pc,      \* where the tear-down is
  fini_q,       \* the ring it looks at
  total_pending \* its local sum of the counters

ringVars   == <<buffer, head, tail>>
poolVars   == <<used_flags, count>>
reqVars    == <<sync_req, answer, done>>
tlsVars    == <<next_queue, my_queue>>
clientVars == <<pc, op, slot, seen_head>>
spdkVars   == <<spdk_pc, at, cur>>
finiVars   == <<fini_pc, fini_q, total_pending>>
vars == <<initialized, status, ringVars, pending, tlsVars, poolVars, reqVars,
          clientVars, spdkVars, finiVars>>

\* Where a client is: allocating, filling its request in, inside
\* xbdev_request_submit, waiting, or letting go of its request.
Locations == {"idle", "alloc", "prepare", "ready?", "load", "full?", "store",
              "publish", "count", "lock", "asleep", "release"}
SpdkStates == {"ready?", "empty?", "load", "advance", "handle", "done?", "notify"}
FiniStates == {"none", "stop", "wake", "sum", "free"}

\* Mutant of Following: the index does not wrap.
FollowingUnwrapped(i) == i + 1

Following(i) == (i + 1) % RingSize
Plus(q, n)   == (pending[q] + n) % CounterMod
-----------------------------------------------------------------------------
Init ==
  /\ initialized = FALSE
  /\ status = [q \in Queues |-> "uninit"]
  /\ buffer = [q \in Queues |-> [i \in Cells |-> NoSlot]]
  /\ head = [q \in Queues |-> 0] /\ tail = [q \in Queues |-> 0]
  /\ pending = [q \in Queues |-> 0]
  /\ next_queue = 0
  /\ my_queue = [c \in Clients |-> NoQueue]
  /\ used_flags = [s \in Slots |-> FALSE] /\ count = 0
  /\ sync_req = [s \in Slots |-> FALSE]
  /\ answer = [s \in Slots |-> "marks"]
  /\ done = [s \in Slots |-> FALSE]
  /\ pc = [c \in Clients |-> "idle"]
  /\ op = [c \in Clients |-> "sync"]
  /\ slot = [c \in Clients |-> NoSlot]
  /\ seen_head = [c \in Clients |-> 0]
  /\ spdk_pc = "ready?" /\ at = 0 /\ cur = NoSlot
  /\ fini_pc = "none" /\ fini_q = 0 /\ total_pending = 0

\* ring_init, of every ring.
RingsInit ==
  /\ buffer' = [q \in Queues |-> [i \in Cells |-> NoSlot]]
  /\ head' = [q \in Queues |-> 0]
  /\ tail' = [q \in Queues |-> 0]

\* xbdev_queue_init, called by the application while no call is in progress.
\* A new key is created for the thread-local ring index.
QueueInit ==
  /\ ~initialized
  /\ fini_pc = "none"
  /\ \A c \in Clients : pc[c] = "idle"
  /\ spdk_pc = "ready?" /\ at = 0
  /\ initialized' = TRUE
  /\ status' = [q \in Queues |-> "ready"]
  /\ RingsInit
  /\ pending' = [q \in Queues |-> 0]
  /\ next_queue' = 0
  /\ my_queue' = [c \in Clients |-> NoQueue]
  /\ used_flags' = [s \in Slots |-> FALSE] /\ count' = 0
  /\ sync_req' = [s \in Slots |-> FALSE]
  /\ answer' = [s \in Slots |-> "marks"]
  /\ done' = [s \in Slots |-> FALSE]
  /\ UNCHANGED <<clientVars, spdkVars, finiVars>>
-----------------------------------------------------------------------------
(***************************************************************************)
(* Client threads.                                                         *)
(***************************************************************************)
Call(c, kind) ==
  /\ pc[c] = "idle"
  /\ pc' = [pc EXCEPT ![c] = "alloc"]
  /\ op' = [op EXCEPT ![c] = kind]
  /\ UNCHANGED <<initialized, status, ringVars, pending, tlsVars, poolVars, reqVars,
                 slot, seen_head, spdkVars, finiVars>>

\* alloc_request_internal, the part under alloc_mutex: the first free slot.
Allocate(c) ==
  /\ pc[c] = "alloc"
  /\ initialized
  /\ count < PoolSize
  /\ \E s \in Slots :
       /\ ~used_flags[s] /\ \A t \in Slots : t < s => used_flags[t]
       /\ used_flags' = [used_flags EXCEPT ![s] = TRUE]
       /\ slot' = [slot EXCEPT ![c] = s]
  /\ count' = count + 1
  /\ pc' = [pc EXCEPT ![c] = "prepare"]
  /\ UNCHANGED <<initialized, status, ringVars, pending, tlsVars, reqVars, op,
                 seen_head, spdkVars, finiVars>>

\* The pool is full, or the system is not set up: the call fails.
AllocateFails(c) ==
  /\ pc[c] = "alloc"
  /\ ~initialized \/ count >= PoolSize
  /\ pc' = [pc EXCEPT ![c] = "idle"]
  /\ UNCHANGED <<initialized, status, ringVars, pending, tlsVars, poolVars, reqVars,
                 op, slot, seen_head, spdkVars, finiVars>>

\* get_current_thread_queue: a thread that has no ring yet gets one, the rings
\* being dealt out in turn.
GetQueue(c) ==
  \/ /\ my_queue[c] = NoQueue
     /\ my_queue'   = [my_queue EXCEPT ![c] = next_queue]
     /\ next_queue' = (next_queue + 1) % NumQueues
  \/ /\ my_queue[c] # NoQueue
     /\ UNCHANGED tlsVars

\* The rest of alloc_request_internal, after the mutex: the request in slot s is
\* cleared.  Then the caller fills in its type and context.
Clear(s, sync, kind) ==
  /\ done'     = [done EXCEPT ![s] = FALSE]
  /\ sync_req' = [sync_req EXCEPT ![s] = sync]
  /\ answer'   = [answer EXCEPT ![s] = kind]

Prepare(c, kind) ==
  /\ pc[c] = "prepare"
  /\ Clear(slot[c], op[c] = "sync", kind)
  /\ GetQueue(c)
  /\ pc' = [pc EXCEPT ![c] = "ready?"]
  /\ UNCHANGED <<initialized, status, ringVars, pending, poolVars, op, slot,
                 seen_head, spdkVars, finiVars>>

\* xbdev_request_submit looks at the status of the ring, once.
CheckReady(c) ==
  /\ pc[c] = "ready?"
  /\ pc' = [pc EXCEPT ![c] = IF status[my_queue[c]] = "ready" THEN "load" ELSE "release"]
  /\ UNCHANGED <<initialized, status, ringVars, pending, tlsVars, poolVars, reqVars,
                 op, slot, seen_head, spdkVars, finiVars>>

\* ring_enqueue, its four accesses: load head; compare with tail; store the
\* request; publish the new head.
LoadHead(c) ==
  /\ pc[c] = "load"
  /\ initialized
  /\ seen_head' = [seen_head EXCEPT ![c] = head[my_queue[c]]]
  /\ pc' = [pc EXCEPT ![c] = "full?"]
  /\ UNCHANGED <<initialized, status, ringVars, pending, tlsVars, poolVars, reqVars,
                 op, slot, spdkVars, finiVars>>

\* Mutant of CheckFull: the ring is never found full.
CheckFullNever(c) ==
  /\ pc[c] = "full?"
  /\ initialized
  /\ pc' = [pc EXCEPT ![c] = "store"]
  /\ UNCHANGED <<initialized, status, ringVars, pending, tlsVars, poolVars, reqVars,
                 op, slot, seen_head, spdkVars, finiVars>>

CheckFull(c) ==
  /\ pc[c] = "full?"
  /\ initialized
  /\ pc' = [pc EXCEPT ![c] =
              IF Following(seen_head[c]) = tail[my_queue[c]] THEN "release" ELSE "store"]
  /\ seen_head' = [seen_head EXCEPT ![c] =
                     IF Following(@) = tail[my_queue[c]] THEN 0 ELSE @]
  /\ UNCHANGED <<initialized, status, ringVars, pending, tlsVars, poolVars, reqVars,
                 op, slot, spdkVars, finiVars>>

StoreRequest(c) ==
  /\ pc[c] = "store"
  /\ initialized
  /\ buffer' = [buffer EXCEPT ![my_queue[c]][seen_head[c]] = slot[c]]
  /\ pc' = [pc EXCEPT ![c] = "publish"]
  /\ UNCHANGED <<initialized, status, head, tail, pending, tlsVars, poolVars, reqVars,
                 op, slot, seen_head, spdkVars, finiVars>>

PublishHead(c) ==
  /\ pc[c] = "publish"
  /\ initialized
  /\ head' = [head EXCEPT ![my_queue[c]] = Following(seen_head[c])]
  /\ seen_head' = [seen_head EXCEPT ![c] = 0]
  /\ pc' = [pc EXCEPT ![c] = "count"]
  /\ UNCHANGED <<initialized, status, buffer, tail, pending, tlsVars, poolVars, reqVars,
                 op, slot, spdkVars, finiVars>>

\* The pending counter goes up only after the request is visible.  An
\* asynchronous call is over and has left its slot to the library.
CountPending(c) ==
  /\ pc[c] = "count"
  /\ initialized
  /\ pending' = [pending EXCEPT ![my_queue[c]] = Plus(my_queue[c], 1)]
  /\ \/ /\ op[c] = "sync"
        /\ pc' = [pc EXCEPT ![c] = "lock"]
        /\ UNCHANGED slot
     \/ /\ op[c] = "async"
        /\ pc'   = [pc EXCEPT ![c] = "idle"]
        /\ slot' = [slot EXCEPT ![c] = NoSlot]
  /\ UNCHANGED <<initialized, status, ringVars, tlsVars, poolVars, reqVars, op,
                 seen_head, spdkVars, finiVars>>

\* Mutants of WaitLoop: sleep without looking at done first; look at done only.
WaitLoopSleepsFirst(c) ==
  /\ pc[c] = "lock"
  /\ initialized
  /\ pc' = [pc EXCEPT ![c] = IF status[my_queue[c]] = "ready" THEN "asleep" ELSE "release"]
  /\ UNCHANGED <<initialized, status, ringVars, pending, tlsVars, poolVars, reqVars,
                 op, slot, seen_head, spdkVars, finiVars>>

WaitLoopIgnoresStatus(c) ==
  /\ pc[c] = "lock"
  /\ initialized
  /\ pc' = [pc EXCEPT ![c] = IF done[slot[c]] THEN "release" ELSE "asleep"]
  /\ UNCHANGED <<initialized, status, ringVars, pending, tlsVars, poolVars, reqVars,
                 op, slot, seen_head, spdkVars, finiVars>>

\* The wait loop of xbdev_sync_request_execute, under the mutex of the ring.  A
\* thread that leaves it returns 0 or -ECANCELED; either way its caller frees
\* the request.
WaitLoop(c) ==
  /\ pc[c] = "lock"
  /\ initialized
  /\ pc' = [pc EXCEPT ![c] =
              IF ~done[slot[c]] /\ status[my_queue[c]] = "ready"
              THEN "asleep" ELSE "release"]
  /\ UNCHANGED <<initialized, status, ringVars, pending, tlsVars, poolVars, reqVars,
                 op, slot, seen_head, spdkVars, finiVars>>

\* Mutant of Release: the counter of the pool is left alone.
ReleaseKeepsCount(c) ==
  /\ pc[c] = "release"
  /\ used_flags' = [used_flags EXCEPT ![slot[c]] = @ /\ ~initialized]
  /\ pc'   = [pc EXCEPT ![c] = "idle"]
  /\ slot' = [slot EXCEPT ![c] = NoSlot]
  /\ UNCHANGED <<initialized, status, ringVars, pending, tlsVars, count, reqVars, op,
                 seen_head, spdkVars, finiVars>>

\* xbdev_request_free, which is refused once the system is torn down.
Release(c) ==
  /\ pc[c] = "release"
  /\ \/ /\ initialized /\ used_flags[slot[c]]
        /\ used_flags' = [used_flags EXCEPT ![slot[c]] = FALSE]
        /\ count' = count - 1
     \/ /\ ~(initialized /\ used_flags[slot[c]])
        /\ UNCHANGED poolVars
  /\ pc'   = [pc EXCEPT ![c] = "idle"]
  /\ slot' = [slot EXCEPT ![c] = NoSlot]
  /\ UNCHANGED <<initialized, status, ringVars, pending, tlsVars, reqVars, op,
                 seen_head, spdkVars, finiVars>>

ClientStep(c) ==
  \/ Allocate(c) \/ AllocateFails(c)
  \/ \E kind \in Answers : Prepare(c, kind)
  \/ CheckReady(c) \/ LoadHead(c) \/ CheckFull(c) \/ StoreRequest(c)
  \/ PublishHead(c) \/ CountPending(c) \/ WaitLoop(c) \/ Release(c)
-----------------------------------------------------------------------------
(***************************************************************************)
(* The SPDK thread: xbdev_process_request_queues, called over and over.    *)
(***************************************************************************)

\* On to the next ring, or to the next call after the last ring.
NextRing == /\ at' = (at + 1) % NumQueues
            /\ spdk_pc' = "ready?"

\* A call starts only while the system is set up; rings that are not ready are
\* skipped, rings that are stopping too.
LookAtRing ==
  /\ spdk_pc = "ready?"
  /\ at = 0 => initialized
  /\ \/ /\ status[at] = "ready"
        /\ spdk_pc' = "empty?"
        /\ UNCHANGED at
     \/ /\ status[at] # "ready"
        /\ NextRing
  /\ UNCHANGED <<initialized, status, ringVars, pending, tlsVars, poolVars, reqVars,
                 clientVars, cur, finiVars>>

\* ring_dequeue: only this thread writes tail, so it compares head with its own.
CheckEmpty ==
  /\ spdk_pc = "empty?"
  /\ initialized
  /\ \/ /\ tail[at] = head[at]
        /\ NextRing
     \/ /\ tail[at] # head[at]
        /\ spdk_pc' = "load"
        /\ UNCHANGED at
  /\ UNCHANGED <<initialized, status, ringVars, pending, tlsVars, poolVars, reqVars,
                 clientVars, cur, finiVars>>

LoadRequest ==
  /\ spdk_pc = "load"
  /\ initialized
  /\ cur' = buffer[at][tail[at]]
  /\ spdk_pc' = "advance"
  /\ UNCHANGED <<initialized, status, ringVars, pending, tlsVars, poolVars, reqVars,
                 clientVars, at, finiVars>>

\* The new tail is published; a NULL request is skipped.
AdvanceTail ==
  /\ spdk_pc = "advance"
  /\ initialized
  /\ tail' = [tail EXCEPT ![at] = Following(@)]
  /\ spdk_pc' = IF cur = NoSlot THEN "empty?" ELSE "handle"
  /\ UNCHANGED <<initialized, status, buffer, head, pending, tlsVars, poolVars, reqVars,
                 clientVars, at, cur, finiVars>>

\* The handler of the request's type.  Most of them answer through the context
\* and leave req->done alone; those of unknown types and of the RAID stubs set it.
Handle ==
  /\ spdk_pc = "handle"
  /\ initialized
  /\ done' = [done EXCEPT ![cur] = @ \/ answer[cur] = "marks"]
  /\ spdk_pc' = "done?"
  /\ UNCHANGED <<initialized, status, ringVars, pending, tlsVars, poolVars, sync_req,
                 answer, clientVars, at, cur, finiVars>>

\* Mutant of Settle: only synchronous requests are taken off the counter.
SettleSyncOnly ==
  /\ spdk_pc = "done?"
  /\ initialized
  /\ \/ /\ done[cur] /\ sync_req[cur]
        /\ pending' = [pending EXCEPT ![at] = Plus(at, -1)]
        /\ spdk_pc' = "notify"
     \/ /\ ~(done[cur] /\ sync_req[cur])
        /\ spdk_pc' = "empty?"
        /\ UNCHANGED pending
  /\ cur' = NoSlot
  /\ UNCHANGED <<initialized, status, ringVars, tlsVars, poolVars, reqVars,
                 clientVars, at, finiVars>>

\* Only a request that is marked done is taken off the pending counter.
Settle ==
  /\ spdk_pc = "done?"
  /\ initialized
  /\ \/ /\ done[cur]
        /\ pending' = [pending EXCEPT ![at] = Plus(at, -1)]
        /\ spdk_pc' = IF sync_req[cur] THEN "notify" ELSE "empty?"
     \/ /\ ~done[cur]
        /\ spdk_pc' = "empty?"
        /\ UNCHANGED pending
  /\ cur' = NoSlot
  /\ UNCHANGED <<initialized, status, ringVars, tlsVars, poolVars, reqVars,
                 clientVars, at, finiVars>>

\* pthread_cond_broadcast on ring q, holding its mutex.
Woken(q) ==
  [c \in Clients |-> IF pc[c] = "asleep" /\ my_queue[c] = q THEN "lock" ELSE pc[c]]

\* The waiting thread is woken.  The request's own callback, which runs next
\* (request_queue.c:797-799), belongs to the application and is left out.
Notify ==
  /\ spdk_pc = "notify"
  /\ initialized
  /\ pc' = Woken(at)
  /\ spdk_pc' = "empty?"
  /\ UNCHANGED <<initialized, status, ringVars, pending, tlsVars, poolVars, reqVars,
                 op, slot, seen_head, at, cur, finiVars>>

SpdkStep ==
  \/ LookAtRing \/ CheckEmpty \/ LoadRequest \/ AdvanceTail
  \/ Handle \/ Settle \/ Notify
-----------------------------------------------------------------------------
(***************************************************************************)
(* xbdev_queue_fini, run by an application thread of its own.              *)
(***************************************************************************)
FiniBegin ==
  /\ CanStop
  /\ initialized /\ fini_pc = "none"
  /\ fini_pc' = "stop" /\ fini_q' = 0
  /\ UNCHANGED <<initialized, status, ringVars, pending, tlsVars, poolVars, reqVars,
                 clientVars, spdkVars, total_pending>>

\* Each ring is marked as stopping, without its mutex ...
FiniStop ==
  /\ fini_pc = "stop"
  /\ status' = [status EXCEPT ![fini_q] = "stopping"]
  /\ fini_pc' = "wake"
  /\ UNCHANGED <<initialized, ringVars, pending, tlsVars, poolVars, reqVars,
                 clientVars, spdkVars, fini_q, total_pending>>

\* ... and its waiters are woken.
FiniWake ==
  /\ fini_pc = "wake"
  /\ pc' = Woken(fini_q)
  /\ IF fini_q + 1 < NumQueues
     THEN fini_pc' = "stop" /\ fini_q' = fini_q + 1
     ELSE fini_pc' = "sum" /\ fini_q' = 0
  /\ total_pending' = 0
  /\ UNCHANGED <<initialized, status, ringVars, pending, tlsVars, poolVars, reqVars,
                 op, slot, seen_head, spdkVars>>

\* The counters are read one after the other and summed; a sum of zero ends the
\* wait, any other starts it again.
FiniSum ==
  LET total == (total_pending + pending[fini_q]) % CounterMod
  IN  /\ fini_pc = "sum"
      /\ \/ /\ fini_q + 1 < NumQueues
            /\ fini_q' = fini_q + 1
            /\ total_pending' = total
            /\ UNCHANGED fini_pc
         \/ /\ fini_q + 1 = NumQueues
            /\ fini_q' = 0
            /\ total_pending' = 0
            /\ fini_pc' = IF total > 0 THEN "sum" ELSE "free"
      /\ UNCHANGED <<initialized, status, ringVars, pending, tlsVars, poolVars, reqVars,
                     clientVars, spdkVars>>

\* Rings, mutexes and pool are freed.
FiniFree ==
  /\ fini_pc = "free"
  /\ initialized' = FALSE
  /\ fini_pc' = "none"
  /\ UNCHANGED <<status, ringVars, pending, tlsVars, poolVars, reqVars,
                 clientVars, spdkVars, fini_q, total_pending>>

FiniStep == FiniStop \/ FiniWake \/ FiniSum \/ FiniFree
-----------------------------------------------------------------------------
Next ==
  \/ QueueInit
  \/ \E c \in Clients :
       \/ \E kind \in Ops : Call(c, kind)
       \/ ClientStep(c)
  \/ SpdkStep
  \/ FiniBegin
  \/ FiniStep

\* Threads that are inside the library keep running and the SPDK thread keeps
\* polling.  Nobody is bound to make a call, to set the system up or to stop it.
Fairness ==
  /\ \A c \in Clients : WF_vars(ClientStep(c))
  /\ WF_vars(SpdkStep)
  /\ WF_vars(FiniStep)

Spec     == Init /\ [][Next]_vars
FairSpec == Spec /\ Fairness
-----------------------------------------------------------------------------
(***************************************************************************)
(* Properties.                                                             *)
(***************************************************************************)

\* Every variable has a value of its type.
TypeOK ==
  /\ initialized \in BOOLEAN
  /\ status \in [Queues -> {"uninit", "ready", "stopping"}]
  /\ buffer \in [Queues -> [Cells -> Slots \cup {NoSlot}]]
  /\ head \in [Queues -> Cells] /\ tail \in [Queues -> Cells]
  /\ pending \in [Queues -> 0 .. CounterMod - 1]
  /\ next_queue \in Queues
  /\ my_queue \in [Clients -> Queues \cup {NoQueue}]
  /\ used_flags \in [Slots -> BOOLEAN] /\ count \in 0 .. PoolSize
  /\ sync_req \in [Slots -> BOOLEAN]
  /\ answer \in [Slots -> {"marks", "silent"}]
  /\ done \in [Slots -> BOOLEAN]
  /\ pc \in [Clients -> Locations]
  /\ op \in [Clients -> {"sync", "async"}]
  /\ slot \in [Clients -> Slots \cup {NoSlot}]
  /\ seen_head \in [Clients -> Cells]
  /\ spdk_pc \in SpdkStates
  /\ at \in Queues
  /\ cur \in Slots \cup {NoSlot}
  /\ fini_pc \in FiniStates
  /\ fini_q \in Queues
  /\ total_pending \in 0 .. CounterMod - 1

\* How many requests ring q holds, and the k-th of them.
Fill(q) == (head[q] - tail[q]) % RingSize
Contents(q) == [k \in 1 .. Fill(q) |-> buffer[q][(tail[q] + k - 1) % RingSize]]

\* What client c is about to make visible, and what the SPDK thread has taken out.
Offered(c) ==
  IF pc[c] \in {"load", "full?", "store", "publish"} THEN <<slot[c]>> ELSE <<>>
Taken == IF spdk_pc \in {"handle", "done?"} THEN cur ELSE NoSlot

\* The queues and the offers as their users see them.
RingContents == [q \in Queues |-> IF initialized THEN Contents(q) ELSE <<>>]
Offers       == [c \in Clients |-> Offered(c)]

Fifo == INSTANCE BoundedFifo
          WITH open <- initialized, taken <- Taken,
               fifo <- RingContents, offered <- Offers,
               Producers <- Clients, Names <- Queues, Items <- Slots,
               Bound <- RingSize - 1, Nothing <- NoSlot

\* With no more threads than rings, each ring is a bounded FIFO queue of one cell
\* less than its size, although neither side takes a lock: a request is in it from
\* the store of head to the store of tail.
ImplementsFifo == Fifo!Spec

\* The requests of ring q that are visible to the SPDK thread, or that it has
\* taken and not yet settled.
InFlight(q) ==
  Fill(q) + (IF at = q /\ spdk_pc \in {"handle", "done?"} THEN 1 ELSE 0)

\* The requests published on ring q whose submitter has not counted them yet.
Uncounted(q) == Cardinality({c \in Clients : pc[c] = "count" /\ my_queue[c] = q})

\* As long as no slot is freed and allocated again (asynchronous requests are
\* never freed), the pending counter of a ring is the number of its requests in
\* flight less those that are published but not counted yet.  In between it can
\* be below zero, that is just under 2^32, and it always recovers.
PendingAgrees ==
  \A q \in Queues : pending[q] = (InFlight(q) - Uncounted(q)) % CounterMod

\* A slot is marked used while a client has it, and never by two clients; count
\* agrees with the marks.
PoolAgrees ==
  /\ count = Cardinality({s \in Slots : used_flags[s]})
  /\ \A c \in Clients :
       (initialized /\ slot[c] # NoSlot) =>
          /\ used_flags[slot[c]]
          /\ \A d \in Clients \ {c} : slot[d] # slot[c]

\* The SPDK thread empties a ring before it leaves it and notifies under its mutex:
\* a thread whose handler marks its request done is woken, stopped rings included,
\* unless other rings keep being filled.
WaitsOnlyForBusyRings ==
  \A c \in Clients :
    (pc[c] = "asleep" /\ answer[slot[c]] = "marks") ~>
      \/ pc[c] # "asleep"
      \/ []<>(\E q \in Queues \ {my_queue[c]} : Fill(q) > 0)

\* A thread that sleeps on a ring when the tear-down stops it is woken: the status
\* is changed without the mutex, and the wake-up is still not lost.
StopWakesWaiters ==
  \A c \in Clients :
    (pc[c] = "asleep" /\ status[my_queue[c]] = "stopping") ~> pc[c] # "asleep"
=============================================================================
