------------------------------- MODULE IoCalls -------------------------------
(***************************************************************************)
(* The calls of src/libxbdev/io.c that wait: read, write, their vector and *)
(* retrying forms, flush, unmap, reset, on descriptors of core.c.          *)
(*                                                                         *)
(* A call keeps its context on the caller's stack, hands a request with a  *)
(* pointer to it to the SPDK thread, and returns the context's rc as soon  *)
(* as the request is marked done.  The handler submits the I/O.  Handlers  *)
(* of flush, unmap and reset, and those of read and write that need a      *)
(* bounce buffer, poll until the I/O is complete; the others return after  *)
(* the submission, and the I/O completes into the context whenever it does.*)
(*                                                                         *)
(* The request system is the one PooledQueue describes, without time-outs; *)
(* here it may refuse a request at any time, since other callers use it    *)
(* too, and it serves requests one at a time and in any order (there are   *)
(* several rings).  The device is one block; its driver may refuse or fail *)
(* any I/O.  Applications make calls between xbdev_init and xbdev_fini, and *)
(* close a descriptor only when no call on it is in progress: lookup and   *)
(* use of an entry are not protected against that.                         *)
(*                                                                         *)
(* io.c defines every handler twice under one name, for contexts laid out  *)
(* differently.  Of each pair the module takes the one written for the     *)
(* context its call builds: io.c:132-435 for reads and writes (buf, count, *)
(* done and rc of xbdev_io_ctx_t), io.c:1570-1742 for flush, unmap, reset  *)
(* (a struct with status and done, built at io.c:971-1116).  The versions  *)
(* at io.c:437-599 and 1121-1413 expect contexts no call here builds, and  *)
(* are left out.                                                           *)
(***************************************************************************)
EXTENDS Integers, FiniteSets

CONSTANTS Clients,     \* the client threads
          Values,      \* what a block can hold
          Zeroes,      \* the value of an unmapped block
          Ops,         \* the calls the clients make
          Alignments,  \* whether buffers are aligned: a subset of BOOLEAN
          MaxRetries,  \* max_retries of the retrying calls
          MaxFd,       \* bound on the number of descriptors ever opened
          MaxIo,       \* I/Os the driver has room for
          MaxCalls,    \* bound on the number of calls ever made
          Nobody,      \* no client
          NoValue,     \* no buffer
          NoIo         \* an I/O slot that is free

Transfers == {"read", "write", "readv", "writev", "read_retry", "write_retry"}
Commands  == {"flush", "unmap", "reset"}
Reads     == {"read", "readv", "read_retry"}
Writes    == {"write", "writev", "write_retry"}
Retrying  == {"read_retry", "write_retry"}
Vectored  == {"readv", "writev"}

Fds == 1 .. MaxFd
Ios == 1 .. MaxIo

ASSUME OpsAssumption     == Ops \subseteq Transfers \cup Commands
ASSUME ValuesAssumption  == Zeroes \in Values /\ NoValue \notin Values
ASSUME AlignAssumption   == Alignments \subseteq BOOLEAN
ASSUME BoundsAssumption  == MaxRetries \in Nat /\ MaxFd \in Nat \ {0} /\ MaxIo \in Nat
                            /\ MaxCalls \in Nat
ASSUME NobodyAssumption  == Nobody \notin Clients

VARIABLES
  initialized, \* g_xbdev_initialized
  fds,      \* the descriptors in g_fd_list
  next_fd,  \* g_next_fd
  pc,       \* pc[c]: where the call of c is
  call,     \* call[c]: its operation, descriptor and whether the buffer is aligned
  buf,      \* buf[c]: what is in its buffer
  ctx,      \* ctx[c]: done and rc of its context
  tries,    \* tries[c]: retry_count
  req,      \* req[c]: the state of its request
  outcome,  \* outcome[c]: what its last call returned
  spdk_pc,  \* where the SPDK thread is
  serving,  \* the client whose request it serves
  bounce,   \* the contents of the handler's bounce buffer, or NoValue
  io,       \* io[i]: an I/O the driver has, or NoIo
  block,    \* the contents of the block on the device
  effect,   \* history: what became of the I/O of the call's last attempt
  moved,    \* history: the value that I/O moved
  calls,    \* how many calls were made
  left      \* history: whether a call has taken its result before its I/O was complete

fdVars     == <<initialized, fds, next_fd>>
callVars   == <<pc, call, tries, outcome>>
spdkVars   == <<spdk_pc, serving>>
history    == <<effect, moved, calls, left>>
vars == <<fdVars, callVars, buf, ctx, req, spdkVars, bounce, io, block, history>>

Calls == [op : Transfers \cup Commands, fd : Fds, aligned : BOOLEAN]
IoRecords == [by : Clients, op : Transfers \cup Commands,
              bounced : BOOLEAN, live : BOOLEAN]
Contexts == [done : BOOLEAN, rc : {"zero", "count", "error"}]
Codes    == {"zero", "count", "error", "refused"}

ASSUME NoIoAssumption == NoIo \notin IoRecords

TypeOK ==
  /\ initialized \in BOOLEAN
  /\ fds \subseteq Fds /\ next_fd \in 1 .. MaxFd + 1
  /\ pc \in [Clients -> {"idle", "request", "wait", "leaving"}]
  /\ call \in [Clients -> Calls]
  /\ buf \in [Clients -> Values]
  /\ ctx \in [Clients -> Contexts]
  /\ tries \in [Clients -> 0 .. MaxRetries]
  /\ req \in [Clients -> {"none", "queued", "taken", "done"}]
  /\ outcome \in [Clients -> Codes]
  /\ spdk_pc \in {"idle", "start", "poll", "finish"}
  /\ serving \in Clients \cup {Nobody}
  /\ bounce \in Values \cup {NoValue}
  /\ io \in [Ios -> IoRecords \cup {NoIo}]
  /\ block \in Values
  /\ effect \in [Clients -> {"none", "ok", "failed"}]
  /\ moved \in [Clients -> Values]
  /\ calls \in 0 .. MaxCalls /\ left \in BOOLEAN
-----------------------------------------------------------------------------
Fresh  == [done |-> FALSE, rc |-> "zero"]
NoCall == [op |-> "flush", fd |-> 1, aligned |-> TRUE]

Init ==
  /\ initialized = FALSE
  /\ fds = {} /\ next_fd = 1
  /\ pc = [c \in Clients |-> "idle"]
  /\ call = [c \in Clients |-> NoCall]
  /\ buf = [c \in Clients |-> Zeroes]
  /\ ctx = [c \in Clients |-> Fresh]
  /\ tries = [c \in Clients |-> 0]
  /\ req = [c \in Clients |-> "none"]
  /\ outcome = [c \in Clients |-> "zero"]
  /\ spdk_pc = "idle" /\ serving = Nobody
  /\ bounce = NoValue
  /\ io = [i \in Ios |-> NoIo]
  /\ block = Zeroes
  /\ effect = [c \in Clients |-> "none"]
  /\ moved = [c \in Clients |-> Zeroes]
  /\ calls = 0 /\ left = FALSE

\* The I/Os in the driver's hands.
Flying == {i \in Ios : io[i] # NoIo}

\* The I/Os that will write into the context of the call c is making.
Own(c) == {i \in Flying : io[i].by = c /\ io[i].live}

\* xbdev_init, unless SPDK cannot be started; a second call does nothing.
LibInit ==
  /\ ~initialized
  /\ initialized' = TRUE
  /\ fds' = {}
  /\ UNCHANGED <<next_fd, callVars, buf, ctx, req, spdkVars, bounce, io, block, history>>

\* xbdev_fini closes what is open, when no call and no I/O is in progress; the
\* numbers go on where they were.
LibFini ==
  /\ initialized
  /\ \A c \in Clients : pc[c] = "idle"
  /\ spdk_pc = "idle" /\ Flying = {}
  /\ initialized' = FALSE
  /\ fds' = {}
  /\ UNCHANGED <<next_fd, callVars, buf, ctx, req, spdkVars, bounce, io, block, history>>

\* xbdev_open: descriptors are numbered upwards and never used again.
Open ==
  /\ initialized
  /\ next_fd <= MaxFd
  /\ fds' = fds \cup {next_fd}
  /\ next_fd' = next_fd + 1
  /\ UNCHANGED <<initialized, callVars, buf, ctx, req, spdkVars, bounce, io, block, history>>

\* xbdev_close, called when no call on the descriptor is in progress.
Close(f) ==
  /\ f \in fds
  /\ \A c \in Clients : call[c].fd = f => pc[c] = "idle"
  /\ fds' = fds \ {f}
  /\ UNCHANGED <<initialized, next_fd, callVars, buf, ctx, req, spdkVars, bounce, io, block, history>>
-----------------------------------------------------------------------------
(***************************************************************************)
(* Client threads.                                                         *)
(***************************************************************************)

\* A call sets up its context; v is what the caller's buffer holds.
Enter(c, o, f, a, v) ==
  /\ initialized /\ pc[c] = "idle" /\ calls < MaxCalls
  /\ o \in Ops
  /\ calls' = calls + 1
  /\ pc' = [pc EXCEPT ![c] = "request"]
  /\ call' = [call EXCEPT ![c] = [op |-> o, fd |-> f, aligned |-> a]]
  /\ buf' = [buf EXCEPT ![c] = v]
  /\ UNCHANGED <<fdVars, ctx, tries, req, outcome, spdkVars, bounce, io, block, effect,
                 moved, left>>

Read(c, f)   == \E a \in Alignments : Enter(c, "read", f, a, Zeroes)
Write(c, f)  == \E a \in Alignments, v \in Values : Enter(c, "write", f, a, v)
Readv(c, f)  == Enter(c, "readv", f, TRUE, Zeroes)
Writev(c, f) == \E v \in Values : Enter(c, "writev", f, TRUE, v)
Flush(c, f)  == Enter(c, "flush", f, TRUE, Zeroes)
Unmap(c, f)  == Enter(c, "unmap", f, TRUE, Zeroes)
Reset(c, f)  == Enter(c, "reset", f, TRUE, Zeroes)

\* xbdev_read_retry and xbdev_write_retry.
Retry(c, f) ==
  \E a \in Alignments :
    \/ Enter(c, "read_retry", f, a, Zeroes)
    \/ \E v \in Values : Enter(c, "write_retry", f, a, v)

\* The context is (re)set and the request accepted.
Submit(c) ==
  /\ pc[c] = "request"
  /\ pc' = [pc EXCEPT ![c] = "wait"]
  /\ ctx' = [ctx EXCEPT ![c] = Fresh]
  /\ req' = [req EXCEPT ![c] = "queued"]
  /\ effect' = [effect EXCEPT ![c] = "none"]
  /\ UNCHANGED <<fdVars, call, buf, tries, outcome, spdkVars, bounce, io, block, moved,
                 calls, left>>

\* No request to be had, or no room in the ring: the call gives the code back.
Refuse(c) ==
  /\ pc[c] = "request"
  /\ pc' = [pc EXCEPT ![c] = "leaving"]
  /\ outcome' = [outcome EXCEPT ![c] = "refused"]
  /\ UNCHANGED <<fdVars, call, buf, ctx, tries, req, spdkVars, bounce, io, block, history>>

\* handle_io_retry finds the descriptor's entry and asks its callback, which decides.
HandleIoRetry(c) == call[c].fd \in fds

\* Mutants of MayRetry: the attempts are counted from zero; zero bytes count as
\* a failure.
MayRetryOnceMore(c) ==
  /\ call[c].op \in Retrying
  /\ ctx[c].rc = "error"
  /\ tries[c] <= MaxRetries
  /\ HandleIoRetry(c)

MayRetryOnZero(c) ==
  /\ call[c].op \in Retrying
  /\ ctx[c].rc \in {"error", "zero"}
  /\ tries[c] < MaxRetries
  /\ HandleIoRetry(c)

\* Whether the call may try again: a retrying call that failed, with an attempt left.
MayRetry(c) ==
  /\ call[c].op \in Retrying
  /\ ctx[c].rc = "error"
  /\ tries[c] < MaxRetries
  /\ HandleIoRetry(c)

TryAgain(c) ==
  /\ pc[c] = "wait" /\ req[c] = "done"
  /\ MayRetry(c)
  /\ req' = [req EXCEPT ![c] = "none"]
  /\ tries' = [tries EXCEPT ![c] = @ + 1]
  /\ pc' = [pc EXCEPT ![c] = "request"]
  /\ UNCHANGED <<fdVars, call, buf, ctx, outcome, spdkVars, bounce, io, block, history>>

\* The request is done: the call reads the result from its context and frees the request.
TakeResult(c) ==
  /\ pc[c] = "wait" /\ req[c] = "done"
  /\ outcome' = [outcome EXCEPT ![c] = ctx[c].rc]
  /\ req' = [req EXCEPT ![c] = "none"]
  /\ pc' = [pc EXCEPT ![c] = "leaving"]
  /\ left' = (left \/ Own(c) # {})
  /\ UNCHANGED <<fdVars, call, buf, ctx, tries, spdkVars, bounce, io, block, effect, moved,
                 calls>>

\* The call returns and its stack frame is gone: what still points to it dangles.  Of
\* the call the application keeps nothing.
Return(c) ==
  /\ pc[c] = "leaving"
  /\ pc' = [pc EXCEPT ![c] = "idle"]
  /\ io' = [i \in Ios |-> IF i \in Own(c) THEN [io[i] EXCEPT !.live = FALSE] ELSE io[i]]
  /\ call' = [call EXCEPT ![c] = NoCall]
  /\ buf' = [buf EXCEPT ![c] = Zeroes]
  /\ ctx' = [ctx EXCEPT ![c] = Fresh]
  /\ tries' = [tries EXCEPT ![c] = 0]
  /\ outcome' = [outcome EXCEPT ![c] = "zero"]
  /\ effect' = [effect EXCEPT ![c] = "none"]
  /\ moved' = [moved EXCEPT ![c] = Zeroes]
  /\ UNCHANGED <<fdVars, req, spdkVars, bounce, block, calls, left>>
-----------------------------------------------------------------------------
(***************************************************************************)
(* The SPDK thread.                                                        *)
(***************************************************************************)

\* A request leaves its ring and is dispatched.
Take(c) ==
  /\ spdk_pc = "idle" /\ req[c] = "queued"
  /\ req' = [req EXCEPT ![c] = "taken"]
  /\ serving' = c
  /\ spdk_pc' = "start"
  /\ UNCHANGED <<fdVars, callVars, buf, ctx, bounce, io, block, history>>

Dispatched(c, ops) == spdk_pc = "start" /\ serving = c /\ call[c].op \in ops

\* The handler gives up: no such descriptor, no memory, or the driver refuses.
GiveUp(c) ==
  /\ ctx' = [ctx EXCEPT ![c] = [done |-> TRUE, rc |-> "error"]]
  /\ spdk_pc' = "finish"
  /\ UNCHANGED <<bounce, io>>

\* The driver accepts the I/O; the handler then goes to next.
Issue(c, bounced, next) ==
  /\ call[c].fd \in fds
  /\ \E i \in Ios \ Flying :
       io' = [io EXCEPT ![i] = [by |-> c, op |-> call[c].op, bounced |-> bounced,
                                live |-> TRUE]]
  /\ spdk_pc' = next
  /\ UNCHANGED ctx

HandlerLeaves == UNCHANGED <<fdVars, callVars, buf, req, serving, block, history>>

\* What spdk_dma_malloc returns is not initialized.
ReadOnThread(c) ==
  /\ Dispatched(c, {"read", "read_retry"})
  /\ \/ GiveUp(c)
     \/ call[c].aligned  /\ Issue(c, FALSE, "finish") /\ UNCHANGED bounce
     \/ ~call[c].aligned /\ Issue(c, TRUE, "poll") /\ bounce' \in Values
  /\ HandlerLeaves

WriteOnThread(c) ==
  /\ Dispatched(c, {"write", "write_retry"})
  /\ \/ GiveUp(c)
     \/ call[c].aligned  /\ Issue(c, FALSE, "finish") /\ UNCHANGED bounce
     \/ ~call[c].aligned /\ Issue(c, TRUE, "poll") /\ bounce' = buf[c]
  /\ HandlerLeaves

ReadvOnThread(c) ==
  /\ Dispatched(c, {"readv"})
  /\ GiveUp(c) \/ (Issue(c, FALSE, "finish") /\ UNCHANGED bounce)
  /\ HandlerLeaves

WritevOnThread(c) ==
  /\ Dispatched(c, {"writev"})
  /\ GiveUp(c) \/ (Issue(c, FALSE, "finish") /\ UNCHANGED bounce)
  /\ HandlerLeaves

\* A failed submission marks the context done, so the loop ends at once.
Command(c, o) ==
  /\ Dispatched(c, {o})
  /\ GiveUp(c) \/ (Issue(c, FALSE, "poll") /\ UNCHANGED bounce)
  /\ HandlerLeaves

UnmapOnThread(c) == Command(c, "unmap")
FlushOnThread(c) == Command(c, "flush")
ResetOnThread(c) == Command(c, "reset")

\* Mutant of CopyBack: zero is taken for success.
CopyBackOnZero(c) ==
  buf' = IF call[c].op \in Reads /\ bounce # NoValue /\ ctx[c].rc = "zero"
         THEN [buf EXCEPT ![c] = bounce] ELSE buf

\* A read that succeeded is copied to the caller's buffer.
CopyBack(c) ==
  buf' = IF call[c].op \in Reads /\ bounce # NoValue /\ ctx[c].rc = "count"
         THEN [buf EXCEPT ![c] = bounce] ELSE buf

\* Mutant of PollEnds: one poll instead of a loop.
PollOnce(c) ==
  /\ spdk_pc = "poll" /\ serving = c
  /\ CopyBack(c)
  /\ bounce' = NoValue
  /\ spdk_pc' = "finish"
  /\ UNCHANGED <<fdVars, callVars, ctx, req, serving, io, block, history>>

\* The polling loop ends with ctx->done; the bounce buffer is freed.
PollEnds(c) ==
  /\ spdk_pc = "poll" /\ serving = c
  /\ ctx[c].done
  /\ CopyBack(c)
  /\ bounce' = NoValue
  /\ spdk_pc' = "finish"
  /\ UNCHANGED <<fdVars, callVars, ctx, req, serving, io, block, history>>

\* The handler has returned: the request is marked complete.
Complete(c) ==
  /\ spdk_pc = "finish" /\ serving = c
  /\ req' = [req EXCEPT ![c] = "done"]
  /\ serving' = Nobody
  /\ spdk_pc' = "idle"
  /\ UNCHANGED <<fdVars, callVars, buf, ctx, bounce, io, block, history>>
-----------------------------------------------------------------------------
(***************************************************************************)
(* The driver completes I/Os when the SPDK thread polls: between requests, *)
(* and inside the handlers that wait.                                      *)
(***************************************************************************)

\* A call that has a frame may have its context, and its buffer, where the call
\* the I/O belongs to had them: what the I/O writes then hits them.
Hits(i) ==
  LET c == io[i].by
  IN  IF io[i].live THEN {TRUE}
      ELSE IF pc[c] \in {"wait", "leaving"} /\ call[c].op \in Transfers THEN BOOLEAN ELSE {FALSE}

\* Mutant of Result: only a success is flagged done.
ResultIfOk(i, ok) ==
  [done |-> ok,
   rc   |-> IF ~ok THEN "error" ELSE IF io[i].op \in Commands THEN "zero" ELSE "count"]

\* io_completion_cb and iov_completion_cb store the result, then done.
Result(i, ok) ==
  [done |-> TRUE,
   rc   |-> IF ~ok THEN "error" ELSE IF io[i].op \in Commands THEN "zero" ELSE "count"]

Completed(i, ok, hit, v) ==
  LET c == io[i].by
  IN  /\ io' = [io EXCEPT ![i] = NoIo]
      /\ ctx' = IF hit THEN [ctx EXCEPT ![c] = Result(i, ok)] ELSE ctx
      /\ IF io[i].live
         THEN /\ effect' = [effect EXCEPT ![c] = IF ok THEN "ok" ELSE "failed"]
              /\ moved' = [moved EXCEPT ![c] = v]
         ELSE UNCHANGED <<effect, moved>>

\* What a write finds in its buffer: memory given back may hold anything.
Outgoing(i) ==
  IF io[i].bounced THEN IF bounce # NoValue THEN {bounce} ELSE Values
  ELSE IF io[i].live THEN {buf[io[i].by]} ELSE Values

ReadCompletes(i, hit) ==
  /\ io[i].op \in Reads
  /\ IF io[i].bounced
     THEN bounce' = (IF bounce # NoValue THEN block ELSE NoValue) /\ UNCHANGED buf
     ELSE buf' = (IF hit THEN [buf EXCEPT ![io[i].by] = block] ELSE buf) /\ UNCHANGED bounce
  /\ Completed(i, TRUE, hit, block)
  /\ UNCHANGED block

WriteCompletes(i, hit) ==
  /\ io[i].op \in Writes
  /\ \E v \in Outgoing(i) : block' = v /\ Completed(i, TRUE, hit, v)
  /\ UNCHANGED <<buf, bounce>>

CommandCompletes(i, hit) ==
  /\ io[i].op \in Commands
  /\ block' = IF io[i].op = "unmap" THEN Zeroes ELSE block
  /\ Completed(i, TRUE, hit, block')
  /\ UNCHANGED <<buf, bounce>>

\* The I/O fails and moves nothing.
IoFails(i, hit) ==
  /\ Completed(i, FALSE, hit, block)
  /\ UNCHANGED <<buf, bounce, block>>

DriverStep(i) ==
  /\ spdk_pc \in {"idle", "poll"}
  /\ i \in Flying
  /\ \E hit \in Hits(i) :
       ReadCompletes(i, hit) \/ WriteCompletes(i, hit) \/ CommandCompletes(i, hit)
         \/ IoFails(i, hit)
  /\ UNCHANGED <<fdVars, callVars, req, spdkVars, calls, left>>
-----------------------------------------------------------------------------
Start(c) ==
  \E f \in Fds : \/ Read(c, f) \/ Write(c, f) \/ Readv(c, f) \/ Writev(c, f)
                 \/ Flush(c, f) \/ Unmap(c, f) \/ Reset(c, f) \/ Retry(c, f)

ClientStep(c) == Submit(c) \/ Refuse(c) \/ TryAgain(c) \/ TakeResult(c) \/ Return(c)

Handler(c) ==
  \/ ReadOnThread(c) \/ WriteOnThread(c) \/ ReadvOnThread(c) \/ WritevOnThread(c)
  \/ UnmapOnThread(c) \/ FlushOnThread(c) \/ ResetOnThread(c)
  \/ PollEnds(c) \/ Complete(c)

Next ==
  \/ LibInit \/ LibFini \/ Open
  \/ \E f \in Fds : Close(f)
  \/ \E c \in Clients : Start(c) \/ ClientStep(c) \/ Take(c) \/ Handler(c)
  \/ \E i \in Ios : DriverStep(i)

Spec == Init /\ [][Next]_vars

(***************************************************************************)
(* Threads that are inside a call keep running, the SPDK thread keeps      *)
(* polling, and the driver completes every I/O in the end.  Take needs     *)
(* strong fairness: the thread is idle again and again, and a ring is a    *)
(* FIFO queue, so every request in it comes to its front.                  *)
(***************************************************************************)
Fairness ==
  /\ \A c \in Clients : WF_vars(ClientStep(c)) /\ SF_vars(Take(c)) /\ WF_vars(Handler(c))
  /\ \A i \in Ios : SF_vars(DriverStep(i))

FairSpec == Spec /\ Fairness
-----------------------------------------------------------------------------
(***************************************************************************)
(* Properties.                                                             *)
(***************************************************************************)

(***************************************************************************)
(* As long as no call has taken its result before its I/O was complete, a  *)
(* call that reports bytes moved them: the I/O of its last attempt         *)
(* succeeded, the caller of a read has the data and the device got what    *)
(* the caller of a write gave; a call that reports an error had no         *)
(* success.  io.c:610-827, 971-1116.                                       *)
(***************************************************************************)
OutcomeIsOwn ==
  ~left => \A c \in Clients : pc[c] = "leaving" =>
    /\ outcome[c] \in {"count", "zero"} => effect[c] = "ok"
    /\ outcome[c] = "count" => call[c].op \in Transfers /\ moved[c] = buf[c]
    /\ outcome[c] = "zero" => call[c].op \in Commands
    /\ outcome[c] = "error" => effect[c] # "ok"

(***************************************************************************)
(* A read or write that reports no error has moved its data.  The comment  *)
(* of xbdev_read says that it returns the number of bytes read             *)
(* (io.c:608); with an aligned buffer the handler does not wait for its    *)
(* I/O, and the call may return 0 while the driver still has it.           *)
(***************************************************************************)
SuccessMeansMoved ==
  \A c \in Clients :
    (pc[c] = "leaving" /\ call[c].op \in Transfers /\ outcome[c] \in {"zero", "count"})
      => effect[c] = "ok"

(***************************************************************************)
(* As long as no call has taken its result before its I/O was complete, a  *)
(* bounce buffer is there while an I/O uses it, it is the buffer of the    *)
(* handler that waits for that I/O, and none outlives its handler.         *)
(* io.c:172-220, 266-312.                                                  *)
(***************************************************************************)
BounceOutlivesIo ==
  ~left =>
    /\ bounce # NoValue => spdk_pc = "poll"
    /\ \A i \in Flying : io[i].bounced =>
         bounce # NoValue /\ spdk_pc = "poll" /\ serving = io[i].by

(***************************************************************************)
(* As long as no call has taken its result before its I/O was complete, a  *)
(* retrying call makes a new attempt only when the last one did not        *)
(* succeed and the driver no longer has its I/O: no write is done twice.   *)
(* io.c:3700-3770.                                                         *)
(***************************************************************************)
RetryOnlyAfterFailure ==
  [][\A c \in Clients : tries'[c] > tries[c] =>
       (~left => effect[c] # "ok" /\ Own(c) = {})]_vars

(***************************************************************************)
(* Every call returns, whatever the driver refuses or fails.               *)
(***************************************************************************)
CallReturns == \A c \in Clients : pc[c] = "request" ~> pc[c] = "idle"
=============================================================================
