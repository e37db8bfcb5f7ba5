----------------------------- MODULE PooledQueue -----------------------------
(***************************************************************************)
(* The request system of src/libxbdev/queue.c: a fixed pool of request     *)
(* slots shared by all client threads (one mutex, one condition variable), *)
(* a fixed set of bounded rings of slot pointers (one mutex each), and the *)
(* SPDK thread that takes requests out of the rings one at a time.         *)
(*                                                                         *)
(* A client thread makes one library call at a time.  The kinds of call    *)
(* are those the library makes of the request system:                      *)
(*   "sync"    xbdev_read and its like: allocate a synchronous request,    *)
(*             submit it, wait, free it (io.c:610-656)                     *)
(*   "async"   xbdev_aio_read and its like: allocate, submit, forget       *)
(*             (io.c:840-895)                                              *)
(*   "waited"  an asynchronous request the application waits for and frees *)
(*             itself, the usage shown in the design document              *)
(*   "batch"   xbdev_io_batch_submit: allocate several, submit all or none *)
(*             (io.c:2945-3039)                                            *)
(*                                                                         *)
(* req_id, status and the two time stamps of a request are left out: no    *)
(* code in the library reads them.                                         *)
(***************************************************************************)
EXTENDS Integers, Sequences, FiniteSets

CONSTANTS Clients,    \* the client threads
          NumQueues,  \* number of rings
          Capacity,   \* cells of each ring
          PoolSize,   \* slots of the request pool
          BatchSize,  \* requests in one batch
          Ops,        \* the kinds of call the clients make
          QueueOf,    \* the ring each client thread submits to
          TimesOut,   \* whether a handler may outlast the timeout of a wait
          NoSlot      \* the NULL request pointer

Kinds == {"sync", "async", "waited", "batch"}

Queues == 0 .. NumQueues - 1
Cells  == 0 .. Capacity - 1
Slots  == 1 .. PoolSize

ASSUME ClientsAssumption  == IsFiniteSet(Clients)
ASSUME NumQueuesAssumption == NumQueues \in Nat \ {0}
ASSUME CapacityAssumption == Capacity \in Nat \ {0}
ASSUME PoolSizeAssumption == PoolSize \in Nat \ {0}
ASSUME BatchSizeAssumption == BatchSize \in Nat \ {0}
ASSUME OpsAssumption      == Ops \subseteq Kinds
ASSUME QueueOfAssumption  == QueueOf \in [Clients -> Queues]
ASSUME TimesOutAssumption == TimesOut \in BOOLEAN
ASSUME NoSlotAssumption   == NoSlot \notin Slots

VARIABLES
  initialized,  \* g_queue_system.initialized
  entries,      \* entries[q][i]: the slot in cell i of ring q, or NoSlot
  head,         \* head[q]: the cell the next dequeue reads
  tail,         \* tail[q]: the cell the next enqueue writes
  size,         \* size[q]: the number of requests in ring q
  used,         \* used[s]: slot s is allocated
  used_count,   \* the counter kept beside used
  sync_req,     \* sync_req[s]: the request was allocated as a synchronous one
  done,         \* done[s]: the request is marked complete
  ctx,          \* ctx[s]: the request points to the context of its call
  pc,           \* pc[c]: where client c is in its call
  op,           \* op[c]: the kind of call it makes
  held,         \* held[c]: the slots the call has allocated and not let go
  rc,           \* rc[c]: the code the last step of the call returned
  spdk_pc,      \* where the SPDK thread is
  scan,         \* the ring it looks at next
  cur,          \* the request it has taken
  served,       \* history: how often a handler ran for slot s since its
                \* allocation (0, 1, or 2 for more than once)
  handed        \* history: the slots that "async" and "batch" calls have left to
                \* the SPDK thread, and that no client will free

ringVars   == <<entries, head, tail, size>>
poolVars   == <<used, used_count>>
reqVars    == <<sync_req, done, ctx>>
clientVars == <<pc, op, held, rc>>
spdkVars   == <<spdk_pc, scan, cur>>
vars == <<initialized, ringVars, poolVars, reqVars, clientVars, spdkVars,
          served, handed>>

Locations  == {"idle", "alloc", "prepare", "submit", "check", "lock",
               "asleep", "release"}
Codes      == {"ok", "nomem", "inval", "again", "timedout"}
SpdkStates == {"poll", "dispatch", "complete"}

\* The set of slots in a sequence of slots.
SlotsOf(seq) == {seq[i] : i \in 1 .. Len(seq)}

\* How many requests the call of client c needs.
Wanted(c) == IF op[c] = "batch" THEN BatchSize ELSE 1

\* A call that keeps its request, waits for it and frees it.
Waits(c) == op[c] \in {"sync", "waited"}
-----------------------------------------------------------------------------
\* A value for every ring and for every slot.
EachRing(v) == [q \in Queues |-> v]
EachSlot(v) == [s \in Slots |-> v]

EmptyRing == [i \in Cells |-> NoSlot]

\* The zeroed memory of a program that has not called xbdev_queue_init.
Init ==
  /\ initialized = FALSE
  /\ entries = EachRing(EmptyRing)
  /\ head = EachRing(0) /\ tail = EachRing(0) /\ size = EachRing(0)
  /\ used = EachSlot(FALSE) /\ used_count = 0
  /\ sync_req = EachSlot(FALSE) /\ done = EachSlot(FALSE) /\ ctx = EachSlot(FALSE)
  /\ pc   = [c \in Clients |-> "idle"]
  /\ op   = [c \in Clients |-> "sync"]
  /\ held = [c \in Clients |-> <<>>]
  /\ rc   = [c \in Clients |-> "ok"]
  /\ spdk_pc = "poll" /\ scan = 0 /\ cur = NoSlot
  /\ served = EachSlot(0) /\ handed = {}

\* xbdev_queue_init: the application sets up fresh rings and a fresh pool.
QueueInit ==
  /\ ~initialized
  /\ initialized' = TRUE
  /\ UNCHANGED <<ringVars, poolVars, reqVars, clientVars, spdkVars, served, handed>>

\* destroy_request_pool: the slots and their marks go, those still allocated to
\* somebody included.
PoolDestroyed ==
  /\ used' = EachSlot(FALSE) /\ used_count' = 0
  /\ sync_req' = EachSlot(FALSE) /\ done' = EachSlot(FALSE) /\ ctx' = EachSlot(FALSE)
  /\ served' = EachSlot(0) /\ handed' = {}

\* destroy_queue, of every ring: the requests still in it go with the cells.
RingsDestroyed ==
  /\ entries' = EachRing(EmptyRing)
  /\ head' = EachRing(0) /\ tail' = EachRing(0) /\ size' = EachRing(0)

\* xbdev_queue_fini: the application tears the system down between calls and
\* between polls.  Neither the pool nor the rings are drained first.
QueueFini ==
  /\ initialized
  /\ \A c \in Clients : pc[c] = "idle"
  /\ spdk_pc = "poll" /\ scan = 0
  /\ initialized' = FALSE
  /\ PoolDestroyed
  /\ RingsDestroyed
  /\ UNCHANGED <<clientVars, spdkVars>>
-----------------------------------------------------------------------------
(***************************************************************************)
(* Client threads.                                                         *)
(***************************************************************************)

\* Client c enters a library call.  Every call starts by allocating.
Call(c, kind) ==
  /\ pc[c] = "idle"
  /\ pc' = [pc EXCEPT ![c] = "alloc"]
  /\ op' = [op EXCEPT ![c] = kind]
  /\ UNCHANGED <<initialized, ringVars, poolVars, reqVars, held, rc, spdkVars,
                 served, handed>>

\* Mutant of Allocate: a slot that is used again keeps its done flag.
AllocateKeepsDone(c) ==
  /\ pc[c] = "alloc"
  /\ initialized
  /\ \E s \in Slots :
       /\ ~used[s] /\ \A t \in Slots : t < s => used[t]
       /\ used'       = [used EXCEPT ![s] = TRUE]
       /\ used_count' = used_count + 1
       /\ sync_req'   = [sync_req EXCEPT ![s] = (op[c] = "sync")]
       /\ ctx'        = [ctx EXCEPT ![s] = FALSE]
       /\ served'     = [served EXCEPT ![s] = 0]
       /\ held'       = [held EXCEPT ![c] = Append(@, s)]
  /\ pc' = [pc EXCEPT ![c] = "prepare"]
  /\ UNCHANGED <<initialized, ringVars, done, op, rc, spdkVars, handed>>

\* alloc_request_from_pool, under the pool mutex: the first free slot.
Allocate(c) ==
  /\ pc[c] = "alloc"
  /\ initialized
  /\ \E s \in Slots :
       /\ ~used[s] /\ \A t \in Slots : t < s => used[t]
       /\ used'       = [used EXCEPT ![s] = TRUE]
       /\ used_count' = used_count + 1
       /\ sync_req'   = [sync_req EXCEPT ![s] = (op[c] = "sync")]
       /\ done'       = [done EXCEPT ![s] = FALSE]
       /\ ctx'        = [ctx EXCEPT ![s] = FALSE]
       /\ served'     = [served EXCEPT ![s] = 0]
       /\ held'       = [held EXCEPT ![c] = Append(@, s)]
  /\ pc' = [pc EXCEPT ![c] = "prepare"]
  /\ UNCHANGED <<initialized, ringVars, op, rc, spdkVars, handed>>

\* Mutant of AllocateFails: a batch forgets the slots it has collected so far.
AllocateFailsLeaks(c) ==
  /\ pc[c] = "alloc"
  /\ initialized => \A s \in Slots : used[s]
  /\ pc' = [pc EXCEPT ![c] = "idle"]
  /\ held' = [held EXCEPT ![c] = <<>>]
  /\ rc' = [rc EXCEPT ![c] = "nomem"]
  /\ UNCHANGED <<initialized, ringVars, poolVars, reqVars, op, spdkVars,
                 served, handed>>

\* The pool is exhausted, or not set up: the call gives up with -ENOMEM and
\* lets go of the slots a batch has collected so far.
AllocateFails(c) ==
  /\ pc[c] = "alloc"
  /\ initialized => \A s \in Slots : used[s]
  /\ pc' = [pc EXCEPT ![c] = "release"]
  /\ rc' = [rc EXCEPT ![c] = "nomem"]
  /\ UNCHANGED <<initialized, ringVars, poolVars, reqVars, op, held, spdkVars,
                 served, handed>>

\* The call fills in type and context of the slot it just allocated.
Prepare(c) ==
  /\ pc[c] = "prepare"
  /\ ctx' = [ctx EXCEPT ![held[c][Len(held[c])]] = TRUE]
  /\ pc'  = [pc EXCEPT ![c] = IF Len(held[c]) < Wanted(c) THEN "alloc" ELSE "submit"]
  /\ UNCHANGED <<initialized, ringVars, poolVars, sync_req, done, op, held, rc,
                 spdkVars, served, handed>>

\* A batch meets an operation it does not know: it frees the slot at hand and those
\* collected before.
UnknownType(c) ==
  /\ pc[c] = "prepare"
  /\ op[c] = "batch"
  /\ pc' = [pc EXCEPT ![c] = "release"]
  /\ rc' = [rc EXCEPT ![c] = "inval"]
  /\ UNCHANGED <<initialized, ringVars, poolVars, reqVars, op, held, spdkVars,
                 served, handed>>

\* Mutant of HasRoom: a batch asks for one free cell only.
HasRoomForOne(q, n) == size[q] < Capacity

\* Room for n more requests in ring q, tested under the mutex of the ring.
\* enqueue_request: size >= capacity fails; xbdev_batch_requests: size + n >
\* capacity fails.
HasRoom(q, n) == size[q] + n <= Capacity

\* The cell k places after cell i.
CellAfter(i, k) == (i + k) % Capacity

\* Mutants of Stored: the index of a batch does not wrap; a batch is stored last
\* request first.
StoredUnwrapped(q, seq) ==
  [i \in Cells |-> IF i - tail[q] + 1 \in 1 .. Len(seq)
                  THEN seq[i - tail[q] + 1] ELSE entries[q][i]]

StoredBackwards(q, seq) ==
  [i \in Cells |->
     IF \E k \in 1 .. Len(seq) : i = CellAfter(tail[q], k - 1)
     THEN seq[CHOOSE k \in 1 .. Len(seq) : i = CellAfter(tail[q], Len(seq) - k)]
     ELSE entries[q][i]]

\* The ring after the requests in seq are stored from the tail on.
Stored(q, seq) ==
  [i \in Cells |->
     IF \E k \in 1 .. Len(seq) : i = CellAfter(tail[q], k - 1)
     THEN seq[CHOOSE k \in 1 .. Len(seq) : i = CellAfter(tail[q], k - 1)]
     ELSE entries[q][i]]

\* enqueue_request, or the loop of xbdev_batch_requests, under the mutex of the
\* ring: the requests in seq go in at the tail.
Enqueue(q, seq) ==
  /\ entries' = [entries EXCEPT ![q] = Stored(q, seq)]
  /\ tail'    = [tail EXCEPT ![q] = CellAfter(@, Len(seq))]
  /\ size'    = [size EXCEPT ![q] = @ + Len(seq)]

\* The end of xbdev_aio_read and xbdev_aio_write: the request is left to the SPDK
\* thread, which does not free it.
Forget(c) ==
  /\ pc'      = [pc EXCEPT ![c] = "idle"]
  /\ held'    = [held EXCEPT ![c] = <<>>]
  /\ handed' = handed \cup SlotsOf(held[c])

\* xbdev_request_submit, or xbdev_batch_requests for all of a batch at once.
\* A call that does not wait is over once its requests are in the ring: it
\* frees none of them.
Submit(c) ==
  LET q == QueueOf[c]
      n == Len(held[c])
  IN  /\ pc[c] = "submit"
      /\ HasRoom(q, n)
      /\ Enqueue(q, held[c])
      /\ \/ /\ Waits(c)
            /\ pc' = [pc EXCEPT ![c] = "check"]
            /\ UNCHANGED <<held, handed>>
         \/ ~Waits(c) /\ Forget(c)
      /\ rc' = [rc EXCEPT ![c] = "ok"]
      /\ UNCHANGED <<initialized, head, poolVars, reqVars, op, spdkVars, served>>

\* The ring is full: -EAGAIN, nothing is enqueued, the call frees its slots.
SubmitFails(c) ==
  /\ pc[c] = "submit"
  /\ ~HasRoom(QueueOf[c], Len(held[c]))
  /\ pc' = [pc EXCEPT ![c] = "release"]
  /\ rc' = [rc EXCEPT ![c] = "again"]
  /\ UNCHANGED <<initialized, ringVars, poolVars, reqVars, op, held, spdkVars,
                 served, handed>>

\* The request a waiting call waits for.
Awaited(c) == held[c][1]

\* xbdev_request_wait reads done before it takes the pool mutex.
CheckDone(c) ==
  /\ pc[c] = "check"
  /\ pc' = [pc EXCEPT ![c] = IF done[Awaited(c)] THEN "release" ELSE "lock"]
  /\ UNCHANGED <<initialized, ringVars, poolVars, reqVars, op, held, rc, spdkVars,
                 served, handed>>

\* The head of the wait loop, holding the pool mutex: leave, or sleep on the
\* condition variable, which lets go of the mutex in the same step.
WaitLoop(c) ==
  /\ pc[c] = "lock"
  /\ pc' = [pc EXCEPT ![c] = IF done[Awaited(c)] THEN "release" ELSE "asleep"]
  /\ UNCHANGED <<initialized, ringVars, poolVars, reqVars, op, held, rc, spdkVars,
                 served, handed>>

\* pthread_cond_timedwait returns ETIMEDOUT: the loop ends whatever done says.
WaitTimesOut(c) ==
  /\ pc[c] = "asleep"
  /\ TimesOut
  /\ pc' = [pc EXCEPT ![c] = "release"]
  /\ rc' = [rc EXCEPT ![c] = "timedout"]
  /\ UNCHANGED <<initialized, ringVars, poolVars, reqVars, op, held, spdkVars,
                 served, handed>>

\* free_request_to_pool, once per slot, in the order they were allocated.  A
\* slot that is not in use is refused.
Free(c) ==
  LET s == Head(held[c])
  IN  /\ pc[c] = "release"
      /\ held[c] # <<>>
      /\ used'       = [used EXCEPT ![s] = FALSE]
      /\ used_count' = IF used[s] THEN used_count - 1 ELSE used_count
      /\ held'       = [held EXCEPT ![c] = Tail(@)]
      /\ UNCHANGED <<initialized, ringVars, reqVars, pc, op, rc, spdkVars,
                     served, handed>>

\* The call returns to the application; what it kept in locals is forgotten.
Return(c) ==
  /\ pc[c] = "release"
  /\ held[c] = <<>>
  /\ pc' = [pc EXCEPT ![c] = "idle"]
  /\ op' = [op EXCEPT ![c] = "sync"]
  /\ rc' = [rc EXCEPT ![c] = "ok"]
  /\ UNCHANGED <<initialized, ringVars, poolVars, reqVars, held, spdkVars,
                 served, handed>>

ClientStep(c) ==
  \/ Allocate(c) \/ AllocateFails(c) \/ Prepare(c) \/ UnknownType(c)
  \/ Submit(c) \/ SubmitFails(c)
  \/ CheckDone(c) \/ WaitLoop(c) \/ WaitTimesOut(c)
  \/ Free(c) \/ Return(c)
-----------------------------------------------------------------------------
(***************************************************************************)
(* The SPDK thread: xbdev_process_next_request, called over and over by    *)
(* xbdev_process_request_queues.  Each call scans the rings from ring 0.   *)
(***************************************************************************)

\* Ring scan is empty: look at the next one, or end this scan.
ScanEmpty ==
  /\ spdk_pc = "poll"
  /\ initialized
  /\ size[scan] = 0
  /\ scan' = IF scan + 1 < NumQueues THEN scan + 1 ELSE 0
  /\ UNCHANGED <<initialized, ringVars, poolVars, reqVars, clientVars, spdk_pc, cur,
                 served, handed>>

\* Mutant of Take: the cell is not cleared.
TakeLeavesCell ==
  /\ spdk_pc = "poll"
  /\ initialized
  /\ size[scan] > 0
  /\ cur'     = entries[scan][head[scan]]
  /\ head'    = [head EXCEPT ![scan] = CellAfter(@, 1)]
  /\ size'    = [size EXCEPT ![scan] = @ - 1]
  /\ spdk_pc' = "dispatch"
  /\ UNCHANGED <<initialized, entries, tail, poolVars, reqVars, clientVars, scan,
                 served, handed>>

\* dequeue_request succeeds on ring scan.
Take ==
  /\ spdk_pc = "poll"
  /\ initialized
  /\ size[scan] > 0
  /\ cur'     = entries[scan][head[scan]]
  /\ entries' = [entries EXCEPT ![scan][head[scan]] = NoSlot]
  /\ head'    = [head EXCEPT ![scan] = CellAfter(@, 1)]
  /\ size'    = [size EXCEPT ![scan] = @ - 1]
  /\ spdk_pc' = "dispatch"
  /\ UNCHANGED <<initialized, tail, poolVars, reqVars, clientVars, scan,
                 served, handed>>

\* The handler of the request type runs, to completion, on req->ctx.
Dispatch ==
  /\ spdk_pc = "dispatch"
  /\ served'  = [served EXCEPT ![cur] = IF @ = 0 THEN 1 ELSE 2]
  /\ spdk_pc' = "complete"
  /\ UNCHANGED <<initialized, ringVars, poolVars, reqVars, clientVars, scan, cur,
                 handed>>

\* Mutants of AllAwake: a signal instead of a broadcast; an if instead of a while
\* around the wait.
OneAwake ==
  LET sleepers == {c \in Clients : pc[c] = "asleep"}
  IN  [c \in Clients |-> IF c \in sleepers /\ c = CHOOSE d \in sleepers : TRUE
                        THEN "lock" ELSE pc[c]]

AllAwakeForGood == [c \in Clients |-> IF pc[c] = "asleep" THEN "release" ELSE pc[c]]

\* pthread_cond_broadcast: every sleeper returns to the head of its loop.
AllAwake == [c \in Clients |-> IF pc[c] = "asleep" THEN "lock" ELSE pc[c]]

\* xbdev_mark_request_complete, called for synchronous requests only; nothing
\* is done for the others.  The next scan starts at ring 0.
Complete ==
  /\ spdk_pc = "complete"
  /\ \/ /\ sync_req[cur]
        /\ done' = [done EXCEPT ![cur] = TRUE]
        /\ pc'   = AllAwake
     \/ /\ ~sync_req[cur]
        /\ UNCHANGED <<done, pc>>
  /\ spdk_pc' = "poll"
  /\ scan'    = 0
  /\ cur'     = NoSlot
  /\ UNCHANGED <<initialized, ringVars, poolVars, sync_req, ctx, op, held, rc,
                 served, handed>>

SpdkStep == ScanEmpty \/ Take \/ Dispatch \/ Complete
-----------------------------------------------------------------------------
Next ==
  \/ QueueInit
  \/ QueueFini
  \/ \E c \in Clients :
       \/ \E kind \in Ops : Call(c, kind)
       \/ ClientStep(c)
  \/ SpdkStep

\* A client that is inside a call keeps running and the SPDK thread keeps
\* polling.  Nobody is bound to make a call or to set the system up.
Fairness ==
  /\ \A c \in Clients : WF_vars(ClientStep(c))
  /\ WF_vars(SpdkStep)

Spec     == Init /\ [][Next]_vars
FairSpec == Spec /\ Fairness
-----------------------------------------------------------------------------
(***************************************************************************)
(* Properties.                                                             *)
(***************************************************************************)

\* Every variable has a value of its type.
TypeOK ==
  /\ initialized \in BOOLEAN
  /\ entries \in [Queues -> [Cells -> Slots \cup {NoSlot}]]
  /\ head \in [Queues -> Cells]
  /\ tail \in [Queues -> Cells]
  /\ size \in [Queues -> 0 .. Capacity]
  /\ used \in [Slots -> BOOLEAN]
  /\ used_count \in 0 .. PoolSize
  /\ sync_req \in [Slots -> BOOLEAN]
  /\ done \in [Slots -> BOOLEAN]
  /\ ctx \in [Slots -> BOOLEAN]
  /\ pc \in [Clients -> Locations]
  /\ op \in [Clients -> Kinds]
  /\ held \in [Clients -> Seq(Slots)]
  /\ rc \in [Clients -> Codes]
  /\ spdk_pc \in SpdkStates
  /\ scan \in Queues
  /\ cur \in Slots \cup {NoSlot}
  /\ served \in [Slots -> 0 .. 2]
  /\ handed \in SUBSET Slots

\* Client c holds slot s.
Holds(c, s) == s \in SlotsOf(held[c])

\* The cells of rings that refer to slot s.
CellsWith(s) == {r \in Queues \X Cells : entries[r[1]][r[2]] = s}

\* The request in slot s is in a ring, or the SPDK thread has it.
OnItsWay(s) == cur = s \/ CellsWith(s) # {}

\* The slots of the pool that are marked used.
UsedSlots == {s \in Slots : used[s]}

\* The slots left to the SPDK thread that are marked used although no ring and no
\* thread refers to them any more: nobody can ever free them.
Leaked == {s \in handed : used[s] /\ ~OnItsWay(s)}

\* The marks and the counter of the pool agree, and a slot is marked used exactly
\* when a client holds it or it was left to the SPDK thread.
PoolMatchesOwners ==
  /\ used_count = Cardinality(UsedSlots)
  /\ \A s \in Slots : used[s] <=> (s \in handed \/ \E c \in Clients : Holds(c, s))

\* Nobody else has a slot that a client holds, and it holds the slot once.
OneOwner ==
  /\ \A c \in Clients, s \in Slots :
       Holds(c, s) => s \notin handed /\ \A d \in Clients : Holds(d, s) => d = c
  /\ \A c \in Clients : \A i, j \in 1 .. Len(held[c]) : held[c][i] = held[c][j] => i = j

\* A call that has returned has let go of all its slots.
IdleHoldsNothing == \A c \in Clients : pc[c] = "idle" => held[c] = <<>>

SlotOwners == PoolMatchesOwners /\ OneOwner /\ IdleHoldsNothing

\* A request left to the SPDK thread reaches its handler: it is on its way to it until
\* then, and no slot leaks whose request was not served.
OnlyServedLeak == \A s \in Leaked : served[s] > 0

\* Slots are never shared inside the pool, and none leaks from a call that fails,
\* is refused or times out, part way through a batch included, nor from a request
\* that waits to be served: this is what alloc_request_from_pool, the rings and
\* free_request_to_pool keep up across every path of every call.  The slots of
\* asynchronous requests that have been served do leak: that is AsyncIsFreed.
SlotAccounting == SlotOwners /\ OnlyServedLeak

\* "The request is not freed here, it is freed after the SPDK thread has processed it"
\* (io.c:892 and :960, in xbdev_aio_read and xbdev_aio_write; io.c:3031 says the same
\* of the requests of a batch).  The code does not: xbdev_process_next_request marks
\* synchronous requests complete (queue.c:1211) and frees none.
AsyncIsFreed == Leaked = {}

\* The cells of ring q that hold a request.
Window(q) == {CellAfter(head[q], k) : k \in 0 .. size[q] - 1}

\* The two indices and the counter of a ring tell the same story as its cells:
\* the cells from head on, size of them, are the ones that hold a request and
\* tail is the next cell.  dequeue_request relies on it to never hand out NULL.
RingShape ==
  \A q \in Queues :
    /\ tail[q] = CellAfter(head[q], size[q])
    /\ \A i \in Cells : entries[q][i] # NoSlot <=> i \in Window(q)

\* While no wait times out, the SPDK side never refers to a slot twice and never
\* to a slot that has gone back to the pool: no stale pointer survives the call
\* that submitted it.
NoStaleReference ==
  \A s \in Slots :
    /\ Cardinality(CellsWith(s)) + (IF cur = s THEN 1 ELSE 0) <= 1
    /\ OnItsWay(s) => used[s]

\* A handler never runs on a request whose context is not filled in yet: the
\* request the SPDK thread holds is prepared.
HandlerHasContext == spdk_pc = "dispatch" => used[cur] /\ ctx[cur]

\* xbdev_sync_request_execute returns success only for a request whose handler
\* has run, and has run once: "execute the request and wait for it to complete"
\* (queue.c:909-914).
SyncSuccessMeansServed ==
  \A c \in Clients :
    (pc[c] = "release" /\ op[c] = "sync" /\ rc[c] = "ok" /\ held[c] # <<>>)
      => served[Awaited(c)] = 1

\* Every library call comes to an end.  All callers sleep on one condition variable
\* and no completion is lost between the test of the flag and the sleep; since
\* xbdev_process_next_request restarts at ring 0, a call is held back only while a
\* ring before its own keeps being refilled.
CallReturns ==
  \A c \in Clients :
    pc[c] # "idle" ~> \/ pc[c] = "idle"
                      \/ []<>(\E q \in Queues : q < QueueOf[c] /\ size[q] > 0)

\* The contents of ring q, oldest first.
Contents(q) == [k \in 1 .. size[q] |-> entries[q][CellAfter(head[q], k - 1)]]

\* What client c hands in together.
Offered(c) == IF pc[c] = "submit" THEN held[c] ELSE <<>>

\* The queues and the offers as their users see them.
RingContents == [q \in Queues |-> Contents(q)]
Offers       == [c \in Clients |-> Offered(c)]

Fifo == INSTANCE BoundedFifo
          WITH open <- initialized, taken <- cur,
               fifo <- RingContents, offered <- Offers,
               Producers <- Clients, Names <- Queues, Items <- Slots,
               Bound <- Capacity, Nothing <- NoSlot

\* The rings implement bounded FIFO queues with one server, whoever interleaves with
\* whom, batches, refused requests and timed out waits included: a batch enters as a
\* whole and in its order, and requests are taken in the order they were accepted.
ImplementsFifo == Fifo!Spec
=============================================================================
