# A formal model of libxbdev

libxbdev (this repository) gives POSIX-like calls over SPDK block devices. Application threads
do not call SPDK: they put a request into a queue, and one SPDK thread takes the requests out,
runs their handlers and reports back. On top of that sit software RAID, logical volumes,
device discovery, statistics and a management server.

This directory holds TLA+ modules for the parts of the library where order and interleaving
decide about correctness, TLC configurations that check them on small instances, and proofs,
checked by TLAPS, of what holds for every instance.

There are no build files in the repository, and several files define the same functions
(`queue.c` and `request_queue.c` are two complete request systems; `request.c` and
`request_handler.c` two dispatchers; `md.c` and `raid.c` two RAID front ends). Each file is
read here as one alternative implementation and modelled on its own.

## 1. Inventory

| component | state | operations | who it talks to | here |
|---|---|---|---|---|
| request queue with locks, `queue.c` | rings of request pointers with a mutex each; a pool of request slots, its counter; one mutex and condition variable for waiters | init, fini, allocate, free, submit, submit a batch, wait with a time-out, execute and wait, process one, process up to 16, mark complete | called by every API call; SPDK thread | partly: `PooledQueue` |
| request queue without locks, `request_queue.c` | rings with head and tail indices, status and pending counter per ring; pool with a mutex; thread-local ring index | init, fini, allocate, submit, execute and wait, free, process all rings | same role as above | partly: `LockFreeQueue` |
| I/O calls, `io.c` | a context per call on the caller's stack; batches | read, write, vectors, flush, unmap, reset, asynchronous calls, batches, calls with time-outs and retries | queue; SPDK completions | partly: `IoCalls`, and for allocation and submission `PooledQueue` |
| core, `core.c` | list of descriptors, life cycle | init, fini, open, close | all | partly: `IoCalls` |
| RAID table, `md.c` | 16 records (name, disks, states, failure counter, spares, rebuild progress), a mutex of the table and one per record | create, assemble, run, stop, examine, detail, list, manage (spares, failing, rebuild), replace, rebuild control, set state, progress | queue; SPDK's RAID module | `RaidTable` |
| logical volumes, `lvol.c` | SPDK's; a context per call | create, destroy, snapshot, clone, rename, resize, enquiries | queue; polls inside the SPDK thread | `Lvol` |
| base devices, `base_bdev.c` | none of its own | register and remove devices | queue | partly: the removal, `Lvol` |
| device list, `device_list.c` | linked list of devices, mutex, one event callback | scan, monitor, look up, register a callback | SPDK; callback of the application | `DeviceList` |
| management server, `mgmt.c` | server thread, commands, listeners | start, stop, register, JSON-RPC handlers, device events | all of the above | partly: `MgmtServer`, `Security` |
| security, `security.c` | access-control record, 256 tokens, 128 encrypted volumes, lists of addresses and users | configure, authenticate, generate, clean up, encrypt | called by `mgmt.c` | partly: `Security` |
| second RAID front end, hot spares, events and monitor, `raid.c` | list of spares, list of callbacks, recorded states of arrays, monitor flag and thread | add, find, release, remove spares; register callbacks; check status; handle a failure; start and stop the monitor | queue; SPDK's RAID module; callbacks of the application | no, see 7 |
| statistics, `stats.c` | table of 128 contexts, pollers, history | start, stop, reset, read, alerts | SPDK pollers | no |
| second management server, `management.c` | command and callback lists | JSON-RPC handlers | as `mgmt.c` | no |
| dispatch, `request.c`, `request_handler.c` | none | request type to handler | SPDK | no |
| `io_callbacks.c`, `config.c`, `performance.c`, `tools/` | none, or tables filled at start-up | complete, parse, sample, print | - | no |

The hard behaviours, per component, are the "hazards" of `PROJECT.json`, each with its line.
In one sentence each, and with what makes the component correct:

* *Queues.* Requests live in a fixed pool, and three parties hold pointers to a slot: the
  caller, a ring, the SPDK thread. Correct means: one owner per slot, no slot lost on any error
  path, a FIFO per ring without loss or repetition, no success without service, no lost
  wake-up, and a tear-down that comes to its end.
* *I/O calls.* A context in the caller's frame is written by a completion that the handler may or
  may not wait for, and a bounce buffer lives as long as the handler. Correct means: what a call
  reports is what became of its own I/O, no buffer is freed under an I/O, a retry never repeats
  what succeeded, and every call returns.
* *RAID table.* Records are found under one mutex and changed under another; SPDK holds the
  truth and the record a copy. Correct means: nobody works on a record that became another
  array's, one record per name, the copy never contradicts SPDK, failed disks are reported.
* *Logical volumes.* A handler polls for its operation while the callback holds pointers into two
  frames, and devices disappear under it. Correct means: each call takes effect at one moment, or
  not at all and says so, and no callback finds its frames gone.
* *Device list and management server.* A scan keeps its place in a list across callbacks that
  run with the mutex released, and the server does the same with its listeners. Correct means:
  list and listeners agree, every event is news, scans end, the server stops, and nothing is freed
  under a handler.
* *Security.* A token is written under another mutex than the one its owner authenticated
  under. Correct means: no token comes from nowhere, no valid token is lost, the tables stay sound.
* *Hot spares.* Correct would mean: a spare is spent once and on a failure; a failure is noticed and,
  with a spare at hand, repaired.

## 2. What is modelled

### PooledQueue (`queue.c`, and its use in `io.c`)

One action per critical section of the code, since every shared access of `queue.c` is under a
mutex. `Allocate`, `AllocateFails`, `Prepare`, `UnknownType`, `Submit`, `SubmitFails`,
`CheckDone`, `WaitLoop`, `WaitTimesOut`, `Return` are the steps of a library call on the client's
thread; `ScanEmpty`, `Take`, `Dispatch`, `Complete` are the SPDK thread; `QueueInit` and
`QueueFini` the application. `entries`, `head`, `tail`, `size` are the fields of
`xbdev_queue_t`; `used`, `used_count` the pool; `sync_req`, `done`, `ctx` what the properties
need of a request. `held[c]` are the local pointers of a call. `served` (how often a slot's request
was served) and `handed` (the slots that asynchronous calls and batches have left to the SPDK
thread) are history variables: they never occur in a guard.

A call is `sync` (`xbdev_read`), `async` (`xbdev_aio_read`), `waited` (an asynchronous request
that the application waits for and frees, design document 10.2) or `batch`
(`xbdev_io_batch_submit`: allocate some, fill them in, submit all or none, with every error path
on the way). A batch with an operation type the code does not know frees what it has allocated
so far (`UnknownType`).

### LockFreeQueue (`request_queue.c`)

Each load and store of a shared index, counter or flag is an action: `LoadHead`, `CheckFull`,
`StoreRequest`, `PublishHead` are `ring_enqueue`; `CheckEmpty`, `LoadRequest`, `AdvanceTail` are
`ring_dequeue`; `CountPending` follows publication; `Handle`, `Settle`, `Notify` are the SPDK
thread after a request is taken; `FiniBegin` to `FiniFree` are the tear-down, run by a thread of
its own. The barriers in the code keep the order of stores, so steps are in program order.
A handler `marks` the request done or is `silent` (answers in its context only, as most do).
The request's own callback, called after `Notify` (`:797`), is the application's and is left out.
The counter of pending requests is kept modulo `CounterMod`, which stands for 2^32.
When rings are freed, a thread still inside one would read freed memory: it takes no more steps.
The two local copies `seen_head` and `cur` are reset when they go out of scope.

### BoundedFifo

The abstract specification of both: named queues with at most `Bound` items each and one server.
A producer offers a sequence of requests; all of it enters one queue at once and in its order, or
none does. The server takes the oldest request of a queue and finishes it before it takes the next.
Only `Close` empties queues. Nothing forbids that a request is offered again while it is queued:
after a time-out a slot is. `Fifo == INSTANCE BoundedFifo WITH ...` in each queue module is the
refinement mapping: `fifo` is a ring read from its oldest cell on, `offered` the slots a call holds
between the decision to submit and the update that publishes them, `taken` the request in the hands
of the SPDK thread. In `request_queue.c` the publication is the store of the head index and
taking is the store of the tail index, so the mapping says which of the many steps is the one that counts.

### RaidTable (`md.c`)

Every handler: creation and assembly (`CheckName` on the client's thread, then `MakeArray`,
`FillRecord`, or `FillFails` and `UndoFill`), `Stop`, `AddSpare`, `RemoveSpare`, `FailDisk`,
`SetDiskState`, `Rebuild`, `StartRebuild`, `StopRebuild`, `ReplaceDisk`, `UpdateProgress`,
`GetProgress`, and the enquiries: `LookAtTable` (run, list), `Detail`, and the walk of
`xbdev_md_examine` from record to record (`WalkOn`, `LookForMember`). Looking a record up
(`LockTable`, `FindRecord`, `NotFound`, `LockRecord`) is the same code in all of them and the same
actions here. `md` is `g_md_devices`; `created` and `base` are what SPDK's RAID module has,
modelled from how `md.c` uses it (external): every call of it may fail, a base device belongs to
one array at most. Clients' calls are served one at a time by the SPDK thread, in any order;
`UpdateProgress`, `GetProgress`, run and list are on the caller's thread. `skewed` is a history
variable: the records whose counter the replacement of a healthy disk has put out of step (section 6). `MdCreate` stands for
`xbdev_md_create` and the five calls that fix its level. Levels are left out, and names of arrays fit the 63
characters a record keeps (`md.c:354`, `:821`): longer ones are not modelled.

### IoCalls (`io.c`, `core.c`)

The calls that wait. A call (`Read`, `Write`, `Readv`, `Writev`, `Flush`, `Unmap`, `Reset`,
`Retry`) sets up its context; `Submit` or `Refuse`; when its request is done it takes the result from its
context (`TakeResult`) and then leaves its frame (`Return`), or tries again (`TryAgain`, if `HandleIoRetry` agrees).
The SPDK thread's `Take`, one `...OnThread` action per handler, `PollEnds` and `Complete`; the
driver's `ReadCompletes`, `WriteCompletes`, `CommandCompletes`, `IoFails`, which run whenever the
SPDK thread polls: between requests and inside the handlers that wait. `LibInit`, `LibFini`,
`Open`, `Close` are the descriptors. `ctx[c]` is `xbdev_io_ctx_t`, `bounce` the one bounce buffer
there can be (handlers run one at a time), `io[i]` what the driver holds, `block` the device.
`io.c` defines its handlers twice, for contexts laid out differently; modelled is of each pair the one that reads the
context its call builds: lines 132-435 for reads and writes, 1570-1742 for flush, unmap and reset. The others (437-599,
1121-1413) are left out.
An I/O whose call has returned is not `live`: what it writes may hit the next call
of the same client, in the same stack frame, or not (`Hits`), and what it reads may be anything.
`effect`, `moved` and `left` are history variables. `left` records that a call has taken its result before its
I/O was complete, which the handlers without a bounce buffer allow (finding `io_early`): after that
nothing can be said of contexts, and three properties say so in their hypothesis.
The queue is abstracted to what `PooledQueue` shows of it without time-outs: a request is
refused, or accepted and served once.

### LvolStore, LvolCatalogue, Lvol (`lvol.c`, the removal of `base_bdev.c`)

`LvolStore` is SPDK's store of devices, pools and volumes with the operations `lvol.c` uses
(external): what each needs, what it changes, when SPDK must refuse it; it may always refuse.
`LvolCatalogue` is the abstract specification: each call takes effect at one moment (`Succeed`), or has
no effect and an answer that is right at that moment (`Fail`); devices are lost in between (`Lose`).
`Lvol` is the code: the ten calls and `xbdev_device_remove` enter, submit and return as in
`IoCalls`; a handler looks its objects up by name (`Parsed` splits at the first slash), starts an
operation (`Starts`), polls (`PollEnds`), and the callback (`OperationEnds`) writes the
result. `DeviceEvent` pulls devices and drops their pools whenever the SPDK thread polls, so also between
the lookup and the end of an operation. Names are sequences of symbols, because splitting and
truncating them decides which volume is meant; sizes are multiplied modulo `Word`.
`Catalogue == INSTANCE LvolCatalogue WITH ...` is the refinement mapping: the answer exists
once `done` is set.

### DeviceList, MgmtServer, DeviceEvents (`device_list.c`, `mgmt.c`)

`DeviceList` is the list and its scan, one action per stretch of code under the mutex:
`ReadNames` (without the mutex), `MarkAll`, `UpdateDevice`, `StartSweep`, `SweepEntry`, `EndScan`, and
`CallbackReturns`, before which the mutex is free. `MgmtServer` is the table of commands,
the list of listeners, the server thread, and the administrator who starts (`ServerInit`,
`CreateThread`) and stops (`ServerFini`, `Join`) it; requests come by JSON-RPC (`RpcRequest`) or by
`xbdev_mgmt_execute_cmd` (`ExecuteCmd`), and their handlers may register commands and listeners;
`EventStarts`, `EventGoesOn`, `EventEnds` walk the listeners. `DeviceEvents` composes
them: the application's event callback forwards to `xbdev_mgmt_device_event`, so a step of the scan
waits for a walk over the listeners, with both mutexes released around each callback. `view` is
what a listener would note of what it is told; `whole`, `stayed`, `seen`, `unlisted` are history variables.
A scan that finds no memory for the names ends without touching the list (`ScanFails`); one that finds none for a new
entry goes on without it (`AddFails`; `device_list.c:277` ignores the error), and `unlisted` keeps the devices this
happened to: `ScanIsSound` promises nothing else of them than that they are not in the list. An application registers its
callback while no part of a scan holds the mutex, and never replaces it. Names of devices and commands
fit their fields. A registration the server has no memory for is refused and changes nothing.

### Security (`security.c`, the security handlers of `mgmt.c`)

`SetAccessControl` (by `_handle_security_config` or `ImportConfig`), `Admits`
(`xbdev_mgmt_authenticate`), the two halves of generating a token (`GenerateToken` or
`HandleAuthenticate` with `AuthenticateAgain`, then `WriteToken` or `TableFull`), the two halves of the
clean-up (`CleanupTokens` reads the clock, `Sweep` has the mutex), `EncryptionEnable` with its
failures half-way, `EncryptionDisable`, `SecurityInit`, and the clock. `epoch`, and the fields
`written` and `root` of a token, are history. `UserField` and `VolField` are what `strncpy` leaves of a name in a
record (`security.c:656`, `:181`), while look-ups compare in full: a name that is too long is not found again.

The `MC...` modules instantiate these for TLC.
An operator commented "Mutant of X" is a variant of X with one plausible bug; it is used only to
see that a property can fail: each property of each passing run is violated when X is
replaced by its mutant.

## 3. The runs

| run | instance | what it shows |
|---|---|---|
| `pq_sync` | 3 threads, 2 rings of 2 cells (two threads on ring 0, one on ring 1), 3 slots, synchronous calls without time-outs | no stale pointers (`NoStaleReference`), success means served exactly once (`SyncSuccessMeansServed`), handlers see prepared requests (`HandlerHasContext`), every call ends unless a lower ring is refilled for ever (`CallReturns`) |
| `pq_mixed` | 2 threads, 1 ring of 2 cells, 2 slots, batches of 2, time-outs; `sync`, `waited`, `batch` | `TypeOK`, `SlotAccounting` (each marked slot is owned by one call or was left to the SPDK thread, and one so left is on its way until it was served), `RingShape`, and the rings implement `BoundedFifo` (`ImplementsFifo`) |
| `pq_stale` | 2 threads, 3 slots, time-outs | **violated**: `SyncSuccessMeansServed`; after a time-out the slot is used again while the SPDK thread still has it, and the late completion makes another call succeed unserved |
| `pq_leak` | 2 threads, 3 slots, asynchronous calls and batches | **violated**: `AsyncIsFreed`; a request that was served is never given back to the pool, where `io.c:892` says that it is freed after the SPDK thread has processed it |
| `lf_rings` | 2 threads, 2 rings of 4 cells, 4 slots, in two scenarios: `load`, both threads make asynchronous calls that are marked done; `stop`, one thread makes synchronous calls, marking and silent handlers, with tear-down and re-initialisation | `TypeOK`, FIFO access by access (`ImplementsFifo`), `PoolAgrees`, `PendingAgreesUnderLoad`: the counter wraps below zero and recovers; no lost wake-up (`WaitsOnlyForBusyRings`); `StopWakesWaiters`: the status is changed without the mutex, and still no sleeper is forgotten |
| `rt_health` | 1 client, 1 array of 2 disks, 3 disks, every operation that changes a record | `TypeOK`, `FailuresAreReported`, `FailedCountIsExact`, `TableMatchesSpdk` |
| `rt_race` | 2 clients, 2 arrays of 1 disk, 2 records; create, stop, start rebuild, update progress and the enquiries | `WorksOnItsArray`, `OneRecordPerName`, `NoStandstill`: the walk of examine, which takes lock after lock with the mutex of the table held, and the handlers, which go the same way, never block each other |
| `io_calls` | 2 threads, 1 descriptor, 1 block of 2 values, 2 I/Os, 2 calls, 1 retry, every operation, aligned or not | `TypeOK`, `OutcomeIsOwn`, `BounceOutlivesIo`, `RetryOnlyAfterFailure`, `CallReturns` |
| `io_early` | 1 thread, aligned reads | **violated**: `SuccessMeansMoved`; the call returns 0 while the driver still has its I/O |
| `lv_calls` | 2 threads, 1 device, pools `p` and `q`, volumes with and without a slash in their name, two sizes, `Mega` 2, `Word` 8, `NameSize` 5 | `TypeOK`, `CallbackHasItsFrames`, `CallReturns`, and the calls implement `LvolCatalogue` (`CallsAreAtomic`) |
| `dev_events` | 2 devices that change twice, 2 listeners, 1 command, 1 built-in method, 1 caller | `TypeOK`, `ScanIsSound`, `EventsTellTheList`, `HandlersKeepTheirEntry`, `EveryEventIsNews`, `ScanEnds`, `FiniReturns` |
| `sec_tokens` | in two scenarios: `tokens`, 3 users, 2 threads, 2 records, 3 tokens, 1 configuration, clock up to 2; `volumes`, 3 volumes and 3 records; the third name of each is too long for its field and cut to the first; symmetry of the threads | `TablesAreSound`, `TokenModeTokens`, `ValidTokensLast` |

Why the bounds are enough for what they are to show. A ring of two cells wraps, is empty, half
full and full; two slots and a batch of two exhaust the pool half-way through a batch and leave
no slot for the other thread. In the lock-free ring one cell stays free, hence four cells where
order matters. `CounterMod` is 8, more than the requests there can be, so that the counter below
zero differs from every true count. A ring, its mutex and its condition variable belong to one
thread, so whether it sleeps through a wake-up is decided between that thread, the SPDK thread and
the tear-down, the three actors of `stop`; the second ring is the one the SPDK thread and the
tear-down go on to. The scenarios of `lf_rings` keep only calls, the tear-down and silent handlers from
beginning; what neither has, two threads that submit while the system is torn down, is covered by the
proofs of `ImplementsFifo` and `PoolAgrees` alone. With a silent handler or a synchronous
request the count of `PendingAgrees` is not exact (section 6). The two tables of `sec_tokens` have
nothing in common but their initialisation. Elsewhere two threads are the least that race and three the least
where one is passed over. Arrays of two disks have one failed disk, both failed, and a repeat of
the same failure; a third disk serves as spare and replacement. Two records, two names and two
clients allow a record to be freed and given to another array while a thread is on its way to it,
and a full table.

In `io_calls` two calls and two I/Os let a late completion meet another client's call or the
same client's next one, one retry has a first and a last attempt, and two values tell a copied
block from an untouched buffer. In `lv_calls` one device is enough for a pool to vanish while an operation on it runs;
`q` is a pool to rename into, a name with a slash tells the first slash
from the last, and 3 megabytes are a size whose double still fits below `Word` = 8. In `dev_events` two devices are a list
with a head and a tail, and two changes let a device come or go between reading the names and asking for it, or a
device be swept while another arrives. Three users and two records of tokens fill the table with a
third in want of one, and a name that is cut to another's meets that other's record; a volume whose name is
cut leaves records that nobody finds; `MaxTime` 2 with a lifetime of 1 has valid, expired and swept tokens; one
configuration is one change of the mode that may overtake a call, and the proofs of section 5 lift
these bounds.

Deadlock checking is on, except in `lf_rings`, where the system really may stop: after a
tear-down a silent handler leaves a request pending that the tear-down waits for, for ever.

## 4. Fairness

`FairSpec` of each module. Weak fairness of the steps of each client inside a call, of the SPDK
thread's loop, of the tear-down once begun (`LockFreeQueue`), of a scan and of the server's threads
once begun (`DeviceEvents`). The code has no blocking other
than mutexes, condition variables and joins; mutexes are held for bounded time, so a thread that
can take its next step keeps being able to until it does, or the step that disables it is progress of
another thread. Nobody is assumed to make a call, and no handler is assumed to be quick: a
time-out may always happen first where `TimesOut` is set. `rt_race`
shows that weak fairness suffices there: no thread needs to win a contended mutex for some client
to return.

Strong fairness is used three times, each for something the code gives:

* `Take` in `IoCalls` and `Lvol`: those modules leave the rings out. A ring is a FIFO queue
  (`ImplementsFifo`) and the SPDK thread is idle again and again, so each request comes to the
  front of its ring. That a busy lower ring can hold back a higher one (`queue.c:1101`)
  is the subject of `pq_sync`, whose `CallReturns` has that exception; here it is assumed away.
* `DriverStep` in `IoCalls`: SPDK completes every I/O it has accepted, in success or failure, and
  can do so only while the SPDK thread polls, which it does again and again.
* `ServerThreadEnds` in `DeviceEvents`: the loop reads `running` between any two polls, so it sees
  it cleared however many requests come.

## 5. Proofs

`PooledQueueProofs` proves, for every set of clients, every number of rings, cells, slots, every
batch size, every set of kinds of call and every assignment of threads to rings:

* `TypeCorrect == Spec => []TypeOK`

The assumptions are those of `PooledQueue` on its constants: the set of clients is finite, the sizes are
positive, `NoSlot` is no slot. They are evaluated by TLC in each run.

*Argument.* `IInv == TypeOK /\ SlotOwners`, where `SlotOwners` is the first half of `SlotAccounting`. `TypeOK` alone is not inductive: `used_count`
stays within `0 .. PoolSize` only because it is the number of marked slots. `SlotOwners` alone is not
either: freeing the last of a batch keeps "marked iff owned" only if no other call holds that
slot and this one holds it once, and returning keeps "idle holds nothing" only with the control
state. `AllocateStep`, `FreeStep`, `SubmitStep` and `FiniStep` are the four groups of actions that
touch the pool or the ownership; `QuietClientStep` and `SpdkStepIInv` cover the others through
`AccountingFrame` (nothing the invariant speaks of changes). The lemmas before them say what
`Append` and `Tail` do to the set of slots in a sequence without repetition.

`SecurityProofs` proves, for every set of users, volumes, threads and records, every set of
lifetimes and passwords, and whatever the bounds on tokens, configurations and clock:

* `TypeCorrect == Spec => []TypeOK`
* `TablesStaySound == Spec => []TablesAreSound`
* `TokensStemFromBefore == Spec => []TokenModeTokens`
* `ValidTokensAreKept == Spec => ValidTokensLast`, an action property

from the assumptions of `Security`: records, lifetimes and bounds are natural numbers, a name that was cut is
left alone by a second cut (`FieldsAssumption`), and the "no such" constants are none of the values. `Security.TypeOK` is in no run: it is proved.

*Argument.* `Inv` is the conjunction of `TypeOK`, `NamesFit` (what a record holds is what the field keeps of some name), `UsersAreUnique`, `VolumesAreSound`, `TokenModeTokens`
and `CallsBeganBefore`. The properties speak of the tables only, and what is written into the table
comes from the locals of a call that was overtaken since: `CallsBeganBefore` says that a call about to
write its token authenticated in an epoch no later than this one, and in an earlier one if
the mode asks for tokens (it had none of this epoch's to show, `RootIsEarlier`), and that a clean-up
about to sweep read the clock in the past. From the last follows that a token it takes has expired.
`VolumesAreSound` is stronger than `TablesAreSound`: `IsEncrypted` looks at the first record of a
volume, so every record in use is enabled and none occurs twice. Both speak of names that are nobody's shortened name
(`Own`): of the others the code keeps no such promise (section 6).

`IoCallsProofs` proves, for every set of clients and of values, whatever calls they make, with aligned or
unaligned buffers, and for any number of descriptors, retries and I/Os in the driver's hands:

* `TypeCorrect == Spec => []TypeOK`
* `OutcomesAreOwn == Spec => []OutcomeIsOwn`
* `BounceBuffersOutliveIo == Spec => []BounceOutlivesIo`
* `RetriesFollowFailures == Spec => RetryOnlyAfterFailure`, an action property

from the assumptions of `IoCalls`: the bounds are natural numbers, there can be a descriptor, and "nobody", "no
buffer" and "no I/O" are none of the values they stand beside.

*Argument.* A property of a call that has returned depends on an attempt that was made by three parties: the
caller, the handler and the driver. `Attempts` says in which states the attempt of a call that waits can be:
nothing has come of it (`Waiting`), it failed, or it was served; before its handler has
begun nothing has come of it, and afterwards nothing has only while the driver has its I/O. `FlyingIsAwaited` is
the converse: an I/O in the driver's hands is the only one of its call, whose attempt waits, and uses
a bounce buffer exactly when its handler is the one that polls. With `DataArrived` (where the data of a
transfer is that was served: the bounce buffer of a read until it is copied) and `BounceIsCopy` they are
inductive as long as no call has taken its result before its I/O was complete; `Control` and `BounceIsPolled`, on which they
rest, hold always. `TakeResultInv` shows where the condition is needed: it is the step that sets `left`. A call that retries has failed, so
by `FlyingIsAwaited` the driver has nothing of it (`FailedIsOver`).

`LvolProofs` proves, for every set of clients, devices and arguments:

* `CallbacksFindTheirFrames == Spec => []CallbackHasItsFrames`, the reason why the handlers of `lvol.c` may keep the
  context of SPDK's operation on their stack
* `TypeCorrect == Spec => []TypeOK`
* `CallsTakeEffectAtomically == Spec => CallsAreAtomic`, the refinement of `LvolCatalogue`

from the assumptions of `Lvol`: names fit their buffers, a name given without a pool and the names of pools hold no
slash (`NamesAssumption`, also of the new name of a rename), sizes in bytes fit a word (`SizesAssumption`), and "nobody" and
"no request" are none of the values they stand beside. The conditions on the new names were found by this proof:
without them `_xbdev_parse_lvol_name` cuts or splits another name than the one given, and the rename takes effect on
that.

*Argument.* `Inv` is `ControlTypeOK`, `RequestsAreAwaited`, `TakenIsServed`, `DoneIsNew` and `OperationIsPolled`: SPDK has an
operation exactly while a handler polls, the handler serves a request that was taken, and whoever has a request
waits for it. `KInv` adds what the parties know of each other: a call has its arguments and a new context until it has a
request (`CallsKnown`), a handler ends with a result (`HandlersAnswer`), what SPDK carries out is what the call that
is served asks for (`OperationIsMeant`), and the store keeps its shape. `ParsedJoined` says that the parser finds again
what the caller has joined by a slash. With these, every step of a handler is one of three: it fails (the answer appears and
nothing changes), it succeeds (the answer and the effect appear together) or it starts an operation (nothing
is seen yet), and `OperationWays` says the same of a callback. The first two are steps of the catalogue, the third and
all other steps but `DeviceEvent` change nothing it speaks of.

`PooledQueueRingProofs` builds on `PooledQueueProofs` and proves, from the same assumptions:

* `RingsKeepShape == Spec => []RingShape`
* `SlotsAccountedFor == Spec => []SlotAccounting`, time-outs included
* `RingsImplementFifo == Spec => ImplementsFifo`, the refinement of `BoundedFifo`, batches and time-outs included
* `NoStaleSlots == ASSUME ~TimesOut PROVE Spec => []NoStaleReference`
* `HandlersHaveContext == ASSUME ~TimesOut PROVE Spec => []HandlerHasContext`
* `SuccessMeansServed == ASSUME ~TimesOut PROVE Spec => []SyncSuccessMeansServed`

*Argument.* `RInv` is `IInv` with the shape of each ring, `SpdkHasRequest` (the SPDK thread holds a request exactly
between taking and completing it) and `CollectsSome` (who is about to submit has something to submit to rings that are
set up). Putting several requests at once writes a window of cells: `CellAfter` is used only through four facts,
among them that it wraps at most once, composes and is injective within a ring. `WInv` needs the hypothesis: without time-outs a slot is
referred to at most once by all rings and the SPDK thread together (`OneReference`), by no call that does not wait for it
(`ReferredAreOwned`), a request runs once (`RequestsRunOnce`), and a waiting call has exactly one (`AwaitsOne`). `pq_sync`
checks the three without time-outs; `pq_stale` shows that the hypothesis is needed. `HInv` is `RInv` with `HandedAreKept`: a slot left
to the SPDK thread is in a ring, about to be dispatched, or was served, so none leaks before (`SlotsAccountedFor`).

`LockFreeQueueProofs` proves, for every number of clients, rings, cells and slots and every modulus of the counters:

* `TypeCorrect == Spec => []TypeOK`
* `PoolAccounted == Spec => []PoolAgrees`
* `RingsImplementFifo == ASSUME RingForEach PROVE Spec => ImplementsFifo`
* `CountersAgree == ASSUME RingForEach, NeverReused PROVE Spec => []PendingAgrees`

`RingForEach` says that there are no more clients than rings: `get_current_thread_queue` deals the rings out modulo their number, and
with more threads two of them are producers of one ring (section 6). `NeverReused` says that all requests
are asynchronous and all handlers mark theirs: a synchronous request is freed by its caller while the SPDK thread may still
look at it, and a silent handler leaves the counter up for ever (section 6). The calls of `load` in `lf_rings` satisfy both (`PendingAgreesUnderLoad`).

*Argument.* `LInv` is the type, `PoolAgrees` and where a call has a slot (`HasSlot`) and a ring (`HasQueue`). `FInv` adds how rings
are dealt out (`DealtOut`: the counter of rings is the number of threads that have one, so no two get the same) and what
each side of a ring has found out and relies on later: the producer that its copy of the head is the head, that the ring
is not full, that the cell is written (`Producing`); the consumer that the ring is not empty and which request it has read
(`Consuming`). One producer and one consumer per ring make these stable, which is the whole correctness of the ring without locks.
`PInv` adds that what is visible in a ring or in the hands of the SPDK thread belongs to the library (`Kept`), so that its
mark is still there when the thread looks, and that no visible cell is empty. The counter is proved equal, modulo `CounterMod`, to a
difference of two natural numbers (`Net`) that each step moves by as much as it moves the counter (`PendingStep`); `ModuloAdd` is the
one fact about remainders it needs, below zero as well.

`RaidTableProofs` proves, for every number of clients, names, disks, positions and records:

* `TypeCorrect == Spec => []TypeOK`
* `FailuresReported == Spec => []FailuresAreReported`
* `CountsExact == Spec => []FailedCountIsExact`
* `ThreadsWorkOnTheirArray == Spec => []WorksOnItsArray`
* `NamesUnique == Spec => []OneRecordPerName`
* `TableTellsTheTruth == Spec => []TableMatchesSpdk`

from the assumptions of `RaidTable` on its sets, sizes and "no such" constants.

*Argument.* `CInv` is about control: which thread can be where, that a thread that looks at the table, creates or takes a
record's mutex has the table's (`TableHeld`), and that a thread that works on a record has the record's (`RecordHeld`). `DInv`
is about data: each record is true of SPDK and has an exact counter unless skewed (`RecordTrue`), names are unique, a thread
that found a record keeps the name it found from the look-up to the lock, since only the holder of the table's mutex
renames (`Found`), and a handler that creates knows from SPDK's answer on that no other record has its name (`Making`: SPDK has
one array of a name, and `CheckName`, on the caller's thread and long before, is not needed for it). `SpdkFound` carries
what the SPDK thread looked up across the release of the table's mutex.

`DeviceEventsProofs` proves, for every set of devices, listeners, commands, methods and callers, and any number of changes:

* `TypeCorrect == Spec => []TypeOK`
* `ScansAreSound == Spec => []ScanIsSound`
* `EntriesAreKept == Spec => []HandlersKeepTheirEntry`
* `ListenersAreUpToDate == Spec => []EventsTellTheList`
* `EventsAreNews == Spec => EveryEventIsNews`, an action property

from the assumptions that there are finitely many devices and that the bounds are natural numbers.

*Argument.* Three invariants, of the three parts. `LInv` is the list: no name twice; what a scan has seen and what it has yet
to sweep (`SweepKnows`), and that the event it is telling is about an entry of the list (`EventKnown`). `SInv` is the server:
its lists are empty while it is not initialised, no handler runs while it stops except on its own thread, and whoever runs
a handler has its entry in the list. `EInv` is the two together: what each listener was told is what it should know
(`ViewsRight`), except for those the present event has not reached yet (`Lags`). `Told` follows the walk over the
listeners, which may change under it: those before the walk's position have had the event, and one added
meanwhile goes to the head of the list, where the walk has passed (`HistoryKnown`, `ViewsWithin`).

*Checked by TLC only*: liveness under fairness, which is beyond the prover (`CallReturns` of `PooledQueue`, `IoCalls` and `Lvol`,
`WaitsOnlyForBusyRings`, `StopWakesWaiters`, `ScanEnds`, `FiniReturns`, `NoStandstill`). Every invariant, action property and refinement of a passing run is also a theorem, those of `PooledQueue` about stale
slots under `~TimesOut`, those of `LockFreeQueue` about rings and counters under the hypotheses above.

## 6. Observations without a run

Met while modelling, read off the code and left out of the runs because a single line decides them, or
because what follows is undefined:

*Request queues*

* An asynchronous request is never given back to the pool: `queue.c:1211` completes synchronous
  requests only (run `pq_leak`). For the same reason waiting for one (design document 10.2) ends by its
  time-out only.
* In `request_queue.c` the tear-down skips the rings it has stopped (`:645-658`) and then waits for
  their counters (`:656`): with a request pending it never ends. When it ends, a thread it has woken can still be
  on its way out of a ring whose memory is freed (`:373`).
* A handler that answers through its context only never wakes its caller in `request_queue.c` (`:783`).
* With more threads than rings (`request_queue.c:193` deals them out modulo their number) two producers
  share a ring whose enqueue is safe for one: they overwrite each other's cell. The design document (302, 307)
  speaks of a ring per thread; the model keeps to that.
* The SPDK thread reads `done` and `sync_req` of a slot that its caller may have freed and another allocated
  (`request_queue.c:783-791`); the pending counter then stays wrong, against the comment at line 54.

*RAID*

* `md.c:1675`: a spare that replaces a disk stays in the list of spares. `md.c:2289`: a rebuild
  completes without the spare being moved into the array, contrary to the design document, 7.5.
* `md.c:1679-1683`: replacing a healthy disk takes one off the failure counter and, at zero, clears `degraded`, while
  another disk is faulty. `skewed` in `RaidTable` marks the records it happened to.
* `raid.c` sends requests of type `XBDEV_REQ_CUSTOM` without a function (`raid.c:1043`), for which the queue
  only logs a warning (`queue.c:1192`): its calls return 0 with their output untouched, and its monitor and
  spares never see an array. It also calls event callbacks under its mutex (`:1286`), ignores the
  result of putting a spare to use (`:1688`), handles a faulty disk again on every check (`:1777`), and
  stops the monitor thread and the monitor timer by one flag (`:2649`). `md.c` is the RAID front end that works.

*I/O calls*

* The timed calls free a request, and leave a frame, that are still in use (`io.c:3896`).
* A write that failed may have reached the device in part before it is repeated (`io.c:3758`).
* Numbers and list of descriptors have no lock (`core.c:125`): two threads that open get the same number. Starting the library
  again forgets the descriptors that were open.
* The handlers of the asynchronous calls take their contexts for those of the waiting calls, which are laid out
  differently; `completed` of a batch is set nowhere (`io.c:3075`). The second set of handlers in
  `io.c` (437-599, 1121-1413) reads contexts that no call builds, and requests to compare-and-write or to write zeroes are
  reached by no dispatcher.

*Logical volumes and base devices*

* Names longer than the buffers are cut or refused in some calls and not in others, a pool whose name holds a slash
  cannot be addressed, and sizes are multiplied without a check: `NamesAssumption` and
  `SizesAssumption` of `Lvol` keep arguments away from these.
* The registrations of `base_bdev.c` send a context laid out otherwise than their handlers read it.

*Device list*

* Two scans at a time, or a tear-down during one, free the entry a scan stands on (`device_list.c:291`); the callback
  pointer is read again after the mutex is released (`:151`, `:285`); during the callback of another
  device, devices that are there are reported as missing (`:452`), because all are marked off-line first. With more than
  256 devices those without room are reported as removed (`:245`; the model has `MaxDevices`, the run does not reach it).
  A new device without memory for its entry is missing from the list although the scan returns 0 (`:126`, `:277`; `unlisted`).
* The monitor's poll function is registered nowhere (`:353`): monitoring scans once. Tear-down tells nobody (`:64`).

*Management server*

* Stopping frees commands and listeners that a device event or `xbdev_mgmt_execute_cmd` may be walking with the mutex
  released (`mgmt.c:680`, `:1008`), and joins the server thread even when called from one of its handlers (`:655`).
  A registration while a failing start is being undone leaks its entry.
* A command with the name of a built-in method is accepted and never called. A handler that returns 0 without a response is a
  success by `xbdev_mgmt_execute_cmd` (`:945`) and an internal error over JSON-RPC (`:559`).
  `xbdev_mgmt_run_server` polls the same server from a second thread that nobody joins (`:1020`).

*Security*

* Of the bytes of a token, those from 32 on are not initialised (`security.c:594`, `:662`). Setting token mode clears the
  table, and a token is needed to get one: only a call overtaken by the change of mode leaves one
  to begin with (`TokenModeTokens` states exactly that).
* Names that are too long are cut when stored (`security.c:656`, `:181`) and looked up in full (`:634`, `:164`, `:194`): a user with
  such a name gets another record with every token until the table is full, such a volume can be encrypted again and
  again but never disabled, and one whose encryption failed keeps its record, not enabled. `TablesAreSound` excepts these
  names, and the names they are cut to.
* The record of an encrypted volume stays when the volume is destroyed. A mode that is refused has changed the record
  already (`:463`, `:500`; the mode `unknown` of the model). The lists of addresses and users are read without their mutex.
  `xbdev_security_fini` frees the ciphers and leaves the tables.

*Statistics and configuration*

* `stats.c:421` sends a type no dispatcher knows. Applying a configuration on the SPDK thread waits for requests that
  thread would have to serve.

## 7. What is not modelled, and the plan

The components listed as not modelled in `PROJECT.json` carry the reason: code whose requests no
queue of the repository dispatches (`raid.c`, `stats.c`) or that no file calls (`io_callbacks.c`), second
implementations of what is modelled (`management.c`), dispatch tables (`request.c`,
`request_handler.c`: the step `Dispatch`, `Handle` or `Take` stands for them), and sequential code over
files, samples and sockets (`config.c`, `performance.c`, `tools/`). Of the components modelled in part, the rest is
what section 6 calls undefined or unreachable, and enquiries that change nothing.

Next, in this order:

1. `IoCalls` and `Lvol` over `BoundedFifo` instead of a pool of requests in no order, to replace the strong
   fairness of `Take`, and the refinement proofs that go with it.
2. Proofs: what of `PooledQueue` survives time-outs, and what of the pending counters survives synchronous requests
   (`PendingAgrees` with a weaker notion of "kept").
