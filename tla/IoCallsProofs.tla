---------------------------- MODULE IoCallsProofs ----------------------------
(***************************************************************************)
(* Theorems about IoCalls, for every set of clients, descriptors, values   *)
(* and calls, any number of retries and of I/Os in the driver's hands.     *)
(***************************************************************************)
EXTENDS IoCalls, TLAPS

-----------------------------------------------------------------------------
(***************************************************************************)
(* Types.                                                                  *)
(***************************************************************************)

\* The initial state has its type.
LEMMA InitType == Init => TypeOK
<1>1. NoCall \in Calls
  BY BoundsAssumption DEF NoCall, Calls, Commands, Fds
<1>2. Fresh \in Contexts
  BY DEF Fresh, Contexts
<1>3. 1 \in 1 .. MaxFd + 1 /\ 0 \in 0 .. MaxRetries /\ 0 \in 0 .. MaxCalls
  BY BoundsAssumption
<1>. SUFFICES ASSUME Init PROVE TypeOK
  OBVIOUS
<1>4. /\ initialized \in BOOLEAN /\ fds \subseteq Fds /\ next_fd \in 1 .. MaxFd + 1
      /\ spdk_pc \in {"idle", "start", "poll", "finish"} /\ serving \in Clients \cup {Nobody}
      /\ bounce \in Values \cup {NoValue} /\ block \in Values
      /\ calls \in 0 .. MaxCalls /\ left \in BOOLEAN
  BY <1>3, ValuesAssumption DEF Init
<1>5. /\ pc \in [Clients -> {"idle", "request", "wait", "leaving"}]
      /\ req \in [Clients -> {"none", "queued", "taken", "done"}]
      /\ outcome \in [Clients -> Codes]
      /\ effect \in [Clients -> {"none", "ok", "failed"}]
  BY DEF Init, Codes
<1>6. /\ call \in [Clients -> Calls] /\ ctx \in [Clients -> Contexts]
      /\ buf \in [Clients -> Values] /\ moved \in [Clients -> Values]
      /\ tries \in [Clients -> 0 .. MaxRetries]
      /\ io \in [Ios -> IoRecords \cup {NoIo}]
  BY <1>1, <1>2, <1>3, ValuesAssumption DEF Init
<1>. QED BY <1>4, <1>5, <1>6 DEF TypeOK

\* So it is after a step of the life cycle.
LEMMA LifeCycleType ==
  ASSUME TypeOK, LibInit \/ LibFini \/ Open \/ (\E f \in Fds : Close(f))
  PROVE  TypeOK'
<1>1. UNCHANGED <<callVars, buf, ctx, req, spdkVars, bounce, io, block, history>>
  BY DEF LibInit, LibFini, Open, Close
<1>2. /\ initialized' \in BOOLEAN
      /\ fds' \subseteq Fds /\ next_fd' \in 1 .. MaxFd + 1
  <2>1. CASE LibInit \/ LibFini
    BY <2>1 DEF TypeOK, LibInit, LibFini
  <2>2. CASE Open
    BY <2>2, BoundsAssumption DEF TypeOK, Open, Fds
  <2>3. CASE \E f \in Fds : Close(f)
    BY <2>3 DEF TypeOK, Close
  <2>. QED BY <2>1, <2>2, <2>3
<1>. QED BY <1>1, <1>2 DEF TypeOK, callVars, spdkVars, history

\* After a step of a client.
LEMMA ClientType ==
  ASSUME TypeOK, NEW c \in Clients, Start(c) \/ ClientStep(c)
  PROVE  TypeOK'
<1>1. NoCall \in Calls /\ Fresh \in Contexts /\ Zeroes \in Values
  BY BoundsAssumption, ValuesAssumption
  DEF NoCall, Calls, Commands, Fds, Fresh, Contexts
<1>2. ASSUME NEW o, NEW f \in Fds, NEW a \in BOOLEAN, NEW v \in Values, Enter(c, o, f, a, v)
      PROVE  TypeOK'
  <2>1. [op |-> o, fd |-> f, aligned |-> a] \in Calls
    BY <1>2, OpsAssumption DEF Enter, Calls
  <2>. QED BY <1>2, <2>1, BoundsAssumption DEF TypeOK, Enter, fdVars, spdkVars
<1>3. CASE Start(c)
  BY <1>1, <1>2, <1>3, AlignAssumption
  DEF Start, Read, Write, Readv, Writev, Flush, Unmap, Reset, Retry
<1>4. CASE Submit(c)
  BY <1>1, <1>4 DEF TypeOK, Submit, fdVars, spdkVars
<1>5. CASE Refuse(c)
  BY <1>5 DEF TypeOK, Refuse, Codes, fdVars, spdkVars, history
<1>6. CASE TryAgain(c)
  BY <1>6, BoundsAssumption DEF TypeOK, TryAgain, MayRetry, fdVars, spdkVars, history
<1>7. CASE TakeResult(c)
  <2>1. ctx[c].rc \in Codes
    BY DEF TypeOK, Contexts, Codes
  <2>. QED BY <1>7, <2>1 DEF TypeOK, TakeResult, fdVars, spdkVars
<1>8. CASE Return(c)
  <2>1. io' \in [Ios -> IoRecords \cup {NoIo}]
    <3>1. io' = [i \in Ios |-> IF i \in Own(c) THEN [io[i] EXCEPT !.live = FALSE] ELSE io[i]]
      BY <1>8 DEF Return
    <3>2. ASSUME NEW i \in Ios
          PROVE  (IF i \in Own(c) THEN [io[i] EXCEPT !.live = FALSE] ELSE io[i])
                   \in IoRecords \cup {NoIo}
      <4>1. io[i] \in IoRecords \cup {NoIo}
        BY DEF TypeOK
      <4>2. i \in Own(c) => io[i] \in IoRecords
        BY <4>1 DEF Own, Flying
      <4>3. ASSUME NEW r \in IoRecords PROVE [r EXCEPT !.live = FALSE] \in IoRecords
        BY DEF IoRecords
      <4>. QED BY <4>1, <4>2, <4>3
    <3>. QED BY <3>1, <3>2
  <2>. QED BY <1>1, <1>8, <2>1, BoundsAssumption DEF TypeOK, Return, Codes, fdVars, spdkVars
<1>. QED BY <1>3, <1>4, <1>5, <1>6, <1>7, <1>8 DEF ClientStep

\* After a step of the SPDK thread.
LEMMA HandlerType ==
  ASSUME TypeOK, NEW c \in Clients, Take(c) \/ Handler(c)
  PROVE  TypeOK'
<1>1. CASE Take(c)
  BY <1>1 DEF TypeOK, Take, fdVars, callVars, history
<1>2. ASSUME HandlerLeaves, GiveUp(c) PROVE TypeOK'
  <2>1. [done |-> TRUE, rc |-> "error"] \in Contexts
    BY DEF Contexts
  <2>. QED BY <1>2, <2>1 DEF TypeOK, HandlerLeaves, GiveUp, fdVars, callVars, history
<1>3. ASSUME HandlerLeaves, NEW b \in BOOLEAN, NEW next \in {"poll", "finish"},
             Issue(c, b, next), bounce' \in Values \cup {NoValue}
      PROVE  TypeOK'
  <2>1. io' \in [Ios -> IoRecords \cup {NoIo}]
    BY <1>3 DEF TypeOK, Issue, IoRecords, Calls
  <2>. QED BY <1>3, <2>1 DEF TypeOK, HandlerLeaves, Issue, fdVars, callVars, history
<1>4. bounce \in Values \cup {NoValue} /\ buf[c] \in Values
  BY DEF TypeOK
<1>5. CASE ReadOnThread(c) \/ WriteOnThread(c)
  BY <1>2, <1>3, <1>4, <1>5 DEF ReadOnThread, WriteOnThread
<1>6. CASE ReadvOnThread(c) \/ WritevOnThread(c) \/ UnmapOnThread(c) \/ FlushOnThread(c)
           \/ ResetOnThread(c)
  BY <1>2, <1>3, <1>4, <1>6
  DEF ReadvOnThread, WritevOnThread, UnmapOnThread, FlushOnThread, ResetOnThread, Command
<1>7. CASE PollEnds(c)
  BY <1>7 DEF TypeOK, PollEnds, CopyBack, fdVars, callVars, history
<1>8. CASE Complete(c)
  BY <1>8 DEF TypeOK, Complete, fdVars, callVars, history
<1>. QED BY <1>1, <1>5, <1>6, <1>7, <1>8 DEF Handler

\* After a step of the driver.
LEMMA DriverType ==
  ASSUME TypeOK, NEW i \in Ios, DriverStep(i)
  PROVE  TypeOK'
<1>. USE BoundsAssumption, ValuesAssumption DEF TypeOK
<1>1. io[i] \in IoRecords /\ io[i].by \in Clients
  BY DEF DriverStep, Flying, IoRecords
<1>2. PICK hit \in BOOLEAN :
        ReadCompletes(i, hit) \/ WriteCompletes(i, hit) \/ CommandCompletes(i, hit)
          \/ IoFails(i, hit)
  BY DEF DriverStep, Hits
<1>3. ASSUME NEW ok \in BOOLEAN, NEW v \in Values, Completed(i, ok, hit, v)
      PROVE  /\ io' \in [Ios -> IoRecords \cup {NoIo}]
             /\ ctx' \in [Clients -> Contexts]
             /\ effect' \in [Clients -> {"none", "ok", "failed"}]
             /\ moved' \in [Clients -> Values]
  <2>1. Result(i, ok) \in Contexts
    BY DEF Result, Contexts
  <2>. QED BY <1>1, <1>3, <2>1 DEF Completed
<1>4. \A v \in Outgoing(i) : v \in Values
  BY <1>1 DEF Outgoing
<1>5. /\ \E ok \in BOOLEAN, v \in Values : Completed(i, ok, hit, v)
      /\ block' \in Values /\ bounce' \in Values \cup {NoValue}
      /\ buf' \in [Clients -> Values]
  BY <1>1, <1>2, <1>4 DEF ReadCompletes, WriteCompletes, CommandCompletes, IoFails
<1>. QED BY <1>3, <1>5 DEF DriverStep, fdVars, callVars, spdkVars

\* Every step keeps the types.
LEMMA NextType == TypeOK /\ [Next]_vars => TypeOK'
<1>. SUFFICES ASSUME TypeOK, [Next]_vars PROVE TypeOK'
  OBVIOUS
<1>1. CASE UNCHANGED vars
  BY <1>1 DEF TypeOK, vars, fdVars, callVars, spdkVars, history
<1>. QED BY <1>1, LifeCycleType, ClientType, HandlerType, DriverType DEF Next

\* In every reachable state the calls, contexts, requests, buffers and I/Os have
\* their types.
THEOREM TypeCorrect == Spec => []TypeOK
BY InitType, NextType, PTL DEF Spec
-----------------------------------------------------------------------------
(***************************************************************************)
(* Calls and their I/Os.  The attempt of a call that waits is in one of    *)
(* three states; the handler has begun with it or not.  As long as no call *)
(* has taken its result before its I/O was complete, the driver has an I/O *)
(* of a call only when nothing has come of its attempt, and then only one. *)
(***************************************************************************)
Waiting(c) == ctx[c] = Fresh /\ effect[c] = "none"
Failed(c)  == ctx[c].done /\ ctx[c].rc = "error" /\ effect[c] # "ok"
Served(c)  == /\ ctx[c].done /\ effect[c] = "ok"
              /\ ctx[c].rc = IF call[c].op \in Commands THEN "zero" ELSE "count"

Begun(c) == req[c] = "done" \/ (c = serving /\ spdk_pc \in {"poll", "finish"})

\* Every request belongs to a call that waits, and the one taken is being served.
Control ==
  /\ \A c \in Clients : req[c] # "none" <=> pc[c] = "wait"
  /\ serving = Nobody <=> spdk_pc = "idle"
  /\ \A c \in Clients : req[c] = "taken" <=> c = serving

\* A bounce buffer belongs to the handler of a transfer that polls.
BounceIsPolled ==
  bounce # NoValue => spdk_pc = "poll" /\ call[serving].op \in Transfers

Awaited(i) ==
  /\ io[i].live /\ io[i].op = call[io[i].by].op
  /\ pc[io[i].by] = "wait" /\ Begun(io[i].by) /\ Waiting(io[i].by)
  /\ io[i].bounced <=> (io[i].by = serving /\ bounce # NoValue)
  /\ \A j \in Flying : io[j].by = io[i].by => j = i

FlyingIsAwaited == \A i \in Flying : Awaited(i)

Attempts ==
  \A c \in Clients : pc[c] = "wait" =>
    /\ Waiting(c) \/ Failed(c) \/ Served(c)
    /\ ~Begun(c) => Waiting(c)
    /\ Begun(c) /\ Waiting(c) => \E i \in Flying : io[i].by = c

\* Where the data of a transfer that succeeded is: a read may have it in the bounce
\* buffer still.
DataArrived ==
  \A c \in Clients :
    (pc[c] = "wait" /\ Served(c) /\ call[c].op \in Transfers) =>
      moved[c] = IF c = serving /\ bounce # NoValue /\ call[c].op \in Reads
                 THEN bounce ELSE buf[c]

BounceIsCopy ==
  (bounce # NoValue /\ call[serving].op \in Writes) => bounce = buf[serving]

Attempted == FlyingIsAwaited /\ Attempts /\ DataArrived /\ BounceIsCopy /\ OutcomeIsOwn

Inv == TypeOK /\ Control /\ BounceIsPolled /\ (~left => Attempted)

\* Nothing goes on at first.
LEMMA InitInv == Init => Inv
<1>. SUFFICES ASSUME Init PROVE Inv
  OBVIOUS
<1>1. Flying = {}
  BY DEF Init, Flying
<1>. QED
  BY <1>1, InitType, NobodyAssumption
  DEF Init, Inv, Control, BounceIsPolled, Attempted, FlyingIsAwaited, Awaited, Attempts,
      DataArrived, BounceIsCopy, OutcomeIsOwn

\* Steps of the life cycle do not touch what the invariant speaks of.
LEMMA FrameInv ==
  ASSUME Inv, TypeOK',
         UNCHANGED <<pc, call, outcome, buf, ctx, req, spdkVars, bounce, io, effect,
                     moved, left>>
  PROVE  Inv'
BY DEF Inv, Control, BounceIsPolled, Attempted, FlyingIsAwaited, Awaited, Attempts, DataArrived,
   BounceIsCopy, OutcomeIsOwn, Waiting, Failed, Served, Begun, Flying, spdkVars

\* The driver has no I/O of a call that is not waiting.
LEMMA NoIoUnlessWaiting ==
  ASSUME Inv, ~left, NEW c \in Clients, pc[c] # "wait"
  PROVE  \A i \in Flying : io[i].by # c
BY DEF Inv, Attempted, FlyingIsAwaited, Awaited

\* A call that begins has nothing on its way yet.
LEMMA EnterInv ==
  ASSUME Inv, TypeOK', NEW c \in Clients, NEW o, NEW f, NEW a, NEW v, Enter(c, o, f, a, v)
  PROVE  Inv'
<1>. USE NobodyAssumption DEF Inv, Enter, spdkVars
<1>1. pc[c] = "idle" /\ req[c] = "none" /\ c # serving
  BY DEF Control
<1>2. \A d \in Clients \ {c} : pc'[d] = pc[d] /\ call'[d] = call[d] /\ buf'[d] = buf[d]
  BY DEF TypeOK
<1>3. pc'[c] = "request"
  BY DEF TypeOK
<1>4. serving # Nobody => serving \in Clients \ {c}
  BY <1>1 DEF TypeOK
<1>5. Control' /\ BounceIsPolled'
  BY <1>1, <1>2, <1>3, <1>4 DEF Control, BounceIsPolled
<1>6. ASSUME ~left PROVE Attempted'
  <2>. USE <1>6 DEF Attempted
  <2>1. \A i \in Flying : io[i].by # c /\ io[i].by \in Clients
    BY <1>1, NoIoUnlessWaiting DEF TypeOK, IoRecords, Flying
  <2>2. FlyingIsAwaited'
    BY <1>2, <2>1 DEF FlyingIsAwaited, Awaited, Flying, Waiting, Begun
  <2>3. Attempts'
    BY <1>2, <1>3 DEF Attempts, Flying, Waiting, Failed, Served, Begun
  <2>4. DataArrived' /\ OutcomeIsOwn'
    BY <1>2, <1>3 DEF DataArrived, OutcomeIsOwn, Served
  <2>5. BounceIsCopy'
    BY <1>2, <1>4 DEF BounceIsCopy, BounceIsPolled, Control
  <2>. QED BY <2>2, <2>3, <2>4, <2>5
<1>. QED BY <1>5, <1>6

\* An accepted request has a new context; no I/O of an older attempt is left.
LEMMA SubmitInv ==
  ASSUME Inv, TypeOK', NEW c \in Clients, Submit(c)
  PROVE  Inv'
<1>. USE NobodyAssumption DEF Inv, Submit, spdkVars
<1>1. pc[c] = "request" /\ req[c] = "none" /\ c # serving
  BY DEF Control
<1>2. \A d \in Clients \ {c} : /\ pc'[d] = pc[d] /\ ctx'[d] = ctx[d]
                               /\ req'[d] = req[d] /\ effect'[d] = effect[d]
  BY DEF TypeOK
<1>3. pc'[c] = "wait" /\ req'[c] = "queued" /\ ctx'[c] = Fresh /\ effect'[c] = "none"
  BY DEF TypeOK
<1>4. Control' /\ BounceIsPolled'
  BY <1>1, <1>2, <1>3 DEF Control, BounceIsPolled
<1>5. ASSUME ~left PROVE Attempted'
  <2>. USE <1>5 DEF Attempted
  <2>1. \A i \in Flying : io[i].by # c /\ io[i].by \in Clients
    BY <1>1, NoIoUnlessWaiting DEF TypeOK, IoRecords, Flying
  <2>2. FlyingIsAwaited'
    BY <1>2, <2>1 DEF FlyingIsAwaited, Awaited, Flying, Waiting, Begun
  <2>3. Waiting(c)' /\ ~Begun(c)'
    BY <1>1, <1>3 DEF Waiting, Begun, Fresh
  <2>4. Attempts'
    BY <1>2, <2>3 DEF Attempts, Flying, Waiting, Failed, Served, Begun
  <2>5. DataArrived' /\ OutcomeIsOwn'
    BY <1>2, <1>3 DEF DataArrived, OutcomeIsOwn, Served
  <2>6. BounceIsCopy'
    BY DEF BounceIsCopy
  <2>. QED BY <2>2, <2>4, <2>5, <2>6
<1>. QED BY <1>4, <1>5

\* A call that is refused reports that and nothing else.
LEMMA RefuseInv ==
  ASSUME Inv, TypeOK', NEW c \in Clients, Refuse(c)
  PROVE  Inv'
<1>. USE NobodyAssumption DEF Inv, Refuse, spdkVars, history
<1>1. pc[c] = "request" /\ req[c] = "none"
  BY DEF Control
<1>2. \A d \in Clients \ {c} : pc'[d] = pc[d] /\ outcome'[d] = outcome[d]
  BY DEF TypeOK
<1>3. pc'[c] = "leaving" /\ outcome'[c] = "refused"
  BY DEF TypeOK
<1>4. Control' /\ BounceIsPolled'
  BY <1>1, <1>2, <1>3 DEF Control, BounceIsPolled
<1>5. ASSUME ~left PROVE Attempted'
  <2>. USE <1>5 DEF Attempted
  <2>1. \A i \in Flying : io[i].by # c /\ io[i].by \in Clients
    BY <1>1, NoIoUnlessWaiting DEF TypeOK, IoRecords, Flying
  <2>2. FlyingIsAwaited'
    BY <1>2, <2>1 DEF FlyingIsAwaited, Awaited, Flying, Waiting, Begun
  <2>3. Attempts' /\ DataArrived'
    BY <1>2, <1>3 DEF Attempts, DataArrived, Flying, Waiting, Failed, Served, Begun
  <2>4. OutcomeIsOwn' /\ BounceIsCopy'
    BY <1>2, <1>3 DEF OutcomeIsOwn, BounceIsCopy
  <2>. QED BY <2>2, <2>3, <2>4
<1>. QED BY <1>4, <1>5

\* A call that tries again has failed: the driver has nothing of it any more.
LEMMA FailedIsOver ==
  ASSUME Inv, ~left, NEW c \in Clients, pc[c] = "wait", req[c] = "done",
         ctx[c].rc = "error"
  PROVE  Failed(c) /\ \A i \in Flying : io[i].by # c
BY DEF Inv, Attempted, Attempts, FlyingIsAwaited, Awaited, Waiting, Failed, Served, Fresh, Commands

LEMMA TryAgainInv ==
  ASSUME Inv, TypeOK', NEW c \in Clients, TryAgain(c)
  PROVE  Inv'
<1>. USE NobodyAssumption DEF Inv, TryAgain, spdkVars, history
<1>1. pc[c] = "wait" /\ req[c] = "done" /\ c # serving /\ ctx[c].rc = "error"
  BY DEF Control, MayRetry
<1>2. \A d \in Clients \ {c} : pc'[d] = pc[d] /\ req'[d] = req[d]
  BY DEF TypeOK
<1>3. pc'[c] = "request" /\ req'[c] = "none"
  BY DEF TypeOK
<1>4. Control' /\ BounceIsPolled'
  BY <1>1, <1>2, <1>3 DEF Control, BounceIsPolled
<1>5. ASSUME ~left PROVE Attempted'
  <2>. USE <1>5 DEF Attempted
  <2>1. \A i \in Flying : io[i].by # c /\ io[i].by \in Clients
    BY <1>1, FailedIsOver DEF TypeOK, IoRecords, Flying
  <2>2. FlyingIsAwaited'
    BY <1>2, <2>1 DEF FlyingIsAwaited, Awaited, Flying, Waiting, Begun
  <2>3. Attempts'
    BY <1>2, <1>3 DEF Attempts, Flying, Waiting, Failed, Served, Begun
  <2>4. DataArrived' /\ OutcomeIsOwn' /\ BounceIsCopy'
    BY <1>2, <1>3 DEF DataArrived, OutcomeIsOwn, BounceIsCopy, Served
  <2>. QED BY <2>2, <2>3, <2>4
<1>. QED BY <1>4, <1>5

\* A call that takes its result while the driver has nothing of it has what became of it.
LEMMA TakeResultInv ==
  ASSUME Inv, TypeOK', NEW c \in Clients, TakeResult(c)
  PROVE  Inv'
<1>. USE NobodyAssumption DEF Inv, TakeResult, spdkVars
<1>1. pc[c] = "wait" /\ req[c] = "done" /\ c # serving
  BY DEF Control
<1>2. \A d \in Clients \ {c} : pc'[d] = pc[d] /\ req'[d] = req[d] /\ outcome'[d] = outcome[d]
  BY DEF TypeOK
<1>3. pc'[c] = "leaving" /\ req'[c] = "none" /\ outcome'[c] = ctx[c].rc
  BY DEF TypeOK
<1>4. Control' /\ BounceIsPolled'
  BY <1>1, <1>2, <1>3 DEF Control, BounceIsPolled
<1>5. ASSUME ~left' PROVE Attempted'
  <2>. USE DEF Attempted
  <2>1. ~left /\ Own(c) = {}
    BY <1>5 DEF TypeOK
  <2>2. \A i \in Flying : io[i].by # c /\ io[i].by \in Clients
    BY <2>1 DEF Own, FlyingIsAwaited, Awaited, TypeOK, IoRecords, Flying
  <2>3. FlyingIsAwaited'
    BY <1>2, <2>1, <2>2 DEF FlyingIsAwaited, Awaited, Flying, Waiting, Begun
  <2>4. Attempts' /\ DataArrived' /\ BounceIsCopy'
    BY <1>2, <1>3, <2>1
    DEF Attempts, DataArrived, BounceIsCopy, Flying, Waiting, Failed, Served, Begun
  <2>5. Failed(c) \/ Served(c)
    BY <1>1, <2>1, <2>2 DEF Attempts, Begun
  <2>6. Served(c) /\ call[c].op \in Transfers => moved[c] = buf[c]
    BY <1>1, <2>1 DEF DataArrived
  <2>7. call[c].op \in Transfers \cup Commands
    BY DEF TypeOK, Calls
  <2>8. OutcomeIsOwn'
    <3>1. ASSUME NEW d \in Clients \ {c}, pc'[d] = "leaving"
          PROVE  /\ outcome'[d] \in {"count", "zero"} => effect'[d] = "ok"
                 /\ outcome'[d] = "count" => call'[d].op \in Transfers /\ moved'[d] = buf'[d]
                 /\ outcome'[d] = "zero" => call'[d].op \in Commands
                 /\ outcome'[d] = "error" => effect'[d] # "ok"
      BY <1>2, <2>1, <3>1 DEF OutcomeIsOwn
    <3>2. /\ outcome'[c] \in {"count", "zero"} => effect'[c] = "ok"
          /\ outcome'[c] = "count" => call'[c].op \in Transfers /\ moved'[c] = buf'[c]
          /\ outcome'[c] = "zero" => call'[c].op \in Commands
          /\ outcome'[c] = "error" => effect'[c] # "ok"
      BY <1>3, <2>5, <2>6, <2>7 DEF Failed, Served, Transfers, Commands
    <3>. QED BY <3>1, <3>2 DEF OutcomeIsOwn
  <2>. QED BY <2>3, <2>4, <2>8
<1>. QED BY <1>4, <1>5

\* A call that returns when the driver has nothing of it leaves nothing behind.
LEMMA ReturnInv ==
  ASSUME Inv, TypeOK', NEW c \in Clients, Return(c)
  PROVE  Inv'
<1>. USE NobodyAssumption DEF Inv, Return, spdkVars
<1>1. pc[c] = "leaving" /\ req[c] = "none" /\ c # serving
  BY DEF Control
<1>2. \A d \in Clients \ {c} :
        /\ pc'[d] = pc[d] /\ call'[d] = call[d] /\ buf'[d] = buf[d] /\ ctx'[d] = ctx[d]
        /\ outcome'[d] = outcome[d] /\ effect'[d] = effect[d] /\ moved'[d] = moved[d]
  BY DEF TypeOK
<1>3. pc'[c] = "idle"
  BY DEF TypeOK
<1>4. serving # Nobody => serving \in Clients \ {c}
  BY <1>1 DEF TypeOK
<1>5. Control' /\ BounceIsPolled'
  BY <1>1, <1>2, <1>3, <1>4 DEF Control, BounceIsPolled
<1>6. ASSUME ~left PROVE Attempted'
  <2>. USE <1>6 DEF Attempted
  <2>1. \A i \in Flying : io[i].by # c /\ io[i].by \in Clients
    BY <1>1, NoIoUnlessWaiting DEF TypeOK, IoRecords, Flying
  <2>2. io' = io /\ UNCHANGED <<req, serving, spdk_pc, bounce>>
    BY <2>1 DEF Own, TypeOK
  <2>. HIDE DEF Return
  <2>3. FlyingIsAwaited'
    BY <1>2, <2>1, <2>2 DEF FlyingIsAwaited, Awaited, Flying, Waiting, Begun
  <2>4. Attempts'
    BY <1>2, <1>3, <2>2 DEF Attempts, Flying, Waiting, Failed, Served, Begun
  <2>5. DataArrived' /\ OutcomeIsOwn'
    BY <1>2, <1>3, <2>2 DEF DataArrived, OutcomeIsOwn, Served
  <2>6. BounceIsCopy'
    BY <1>2, <1>4, <2>2 DEF BounceIsCopy, BounceIsPolled, Control
  <2>. QED BY <2>3, <2>4, <2>5, <2>6
<1>. QED BY <1>5, <1>6

-----------------------------------------------------------------------------
\* A request is taken while the thread is idle.
LEMMA TakeInv ==
  ASSUME Inv, TypeOK', NEW c \in Clients, Take(c)
  PROVE  Inv'
<1>. USE NobodyAssumption DEF Inv, Take, callVars, history
<1>1. pc[c] = "wait" /\ serving = Nobody /\ bounce = NoValue
  BY DEF Control, BounceIsPolled
<1>2. \A d \in Clients \ {c} : req'[d] = req[d]
  BY DEF TypeOK
<1>3. req'[c] = "taken"
  BY DEF TypeOK
<1>4. Control' /\ BounceIsPolled'
  BY <1>1, <1>2, <1>3 DEF Control, BounceIsPolled
<1>5. \A d \in Clients : Begun(d)' <=> Begun(d)
  BY <1>1, <1>2, <1>3 DEF Begun
<1>6. ASSUME ~left PROVE Attempted'
  <2>. USE <1>6 DEF Attempted
  <2>1. \A i \in Flying : io[i].by \in Clients
    BY DEF TypeOK, IoRecords, Flying
  <2>2. FlyingIsAwaited'
    BY <1>1, <1>5, <2>1 DEF FlyingIsAwaited, Awaited, Flying, Waiting
  <2>3. Attempts'
    BY <1>5 DEF Attempts, Flying, Waiting, Failed, Served
  <2>4. DataArrived' /\ BounceIsCopy' /\ OutcomeIsOwn'
    BY <1>1 DEF DataArrived, BounceIsCopy, OutcomeIsOwn, Served
  <2>. QED BY <2>2, <2>3, <2>4
<1>. QED BY <1>4, <1>6

\* A handler that begins finds a new context and no I/O of its call.
LEMMA HandlerBegins ==
  ASSUME Inv, NEW c \in Clients, spdk_pc = "start", serving = c
  PROVE  /\ pc[c] = "wait" /\ req[c] = "taken" /\ bounce = NoValue
         /\ ~left => Waiting(c) /\ \A i \in Flying : io[i].by # c /\ io[i].by \in Clients
<1>1. pc[c] = "wait" /\ req[c] = "taken" /\ bounce = NoValue
  BY DEF Inv, Control, BounceIsPolled
<1>2. ~Begun(c)
  BY <1>1 DEF Begun
<1>3. \A i \in Flying : io[i].by \in Clients
  BY DEF Inv, TypeOK, IoRecords, Flying
<1>. QED BY <1>1, <1>2, <1>3 DEF Inv, Attempted, Attempts, FlyingIsAwaited, Awaited

\* A handler that gives up leaves an error and no I/O.
LEMMA GiveUpInv ==
  ASSUME Inv, TypeOK', NEW c \in Clients, spdk_pc = "start", serving = c,
         GiveUp(c), HandlerLeaves
  PROVE  Inv'
<1>. USE NobodyAssumption DEF Inv, GiveUp, HandlerLeaves, callVars, history
<1>1. pc[c] = "wait" /\ req[c] = "taken" /\ bounce = NoValue
  BY HandlerBegins
<1>2. \A d \in Clients \ {c} : ctx'[d] = ctx[d]
  BY DEF TypeOK
<1>3. ctx'[c] = [done |-> TRUE, rc |-> "error"]
  BY DEF TypeOK
<1>4. Control' /\ BounceIsPolled'
  BY <1>1 DEF Control, BounceIsPolled
<1>5. \A d \in Clients \ {c} : Begun(d)' <=> Begun(d)
  BY DEF Begun
<1>6. ASSUME ~left PROVE Attempted'
  <2>. USE <1>6 DEF Attempted
  <2>1. Waiting(c) /\ \A i \in Flying : io[i].by # c /\ io[i].by \in Clients
    BY HandlerBegins
  <2>2. FlyingIsAwaited'
    BY <1>1, <1>2, <1>5, <2>1 DEF FlyingIsAwaited, Awaited, Flying, Waiting
  <2>3. Failed(c)' /\ ~Waiting(c)' /\ Begun(c)' /\ ~Served(c)'
    BY <1>3, <2>1 DEF Failed, Waiting, Served, Begun, Fresh
  <2>4. Attempts'
    BY <1>2, <1>5, <2>3 DEF Attempts, Flying, Waiting, Failed, Served
  <2>5. DataArrived' /\ BounceIsCopy' /\ OutcomeIsOwn'
    BY <1>1, <1>2, <2>3 DEF DataArrived, BounceIsCopy, OutcomeIsOwn, Served
  <2>. QED BY <2>2, <2>4, <2>5
<1>. QED BY <1>4, <1>6

\* An I/O is not mistaken for a free slot.
LEMMA NewIo ==
  ASSUME NEW c \in Clients, NEW o \in Transfers \cup Commands, NEW b \in BOOLEAN
  PROVE  [by |-> c, op |-> o, bounced |-> b, live |-> TRUE] # NoIo
<1>1. [by |-> c, op |-> o, bounced |-> b, live |-> TRUE] \in IoRecords
  BY DEF IoRecords
<1>. QED BY <1>1, NoIoAssumption

\* A handler that starts an I/O starts the only one of its call, and polls when it
\* uses a bounce buffer.
LEMMA IssueInv ==
  ASSUME Inv, TypeOK', NEW c \in Clients, spdk_pc = "start", serving = c,
         NEW b \in BOOLEAN, NEW next \in {"poll", "finish"}, Issue(c, b, next), HandlerLeaves,
         b => /\ next = "poll" /\ call[c].op \in Transfers /\ bounce' \in Values
              /\ call[c].op \in Writes => bounce' = buf[c],
         ~b => bounce' = bounce
  PROVE  Inv'
<1>. USE NobodyAssumption, ValuesAssumption DEF Inv, Issue, HandlerLeaves, callVars, history
<1>1. pc[c] = "wait" /\ req[c] = "taken" /\ bounce = NoValue
  BY HandlerBegins
<1>2. bounce' # NoValue <=> b
  BY <1>1
<1>3. Control' /\ BounceIsPolled'
  BY <1>1, <1>2 DEF Control, BounceIsPolled
<1>4. \A d \in Clients \ {c} : Begun(d)' <=> Begun(d)
  BY DEF Begun
<1>5. Begun(c)'
  BY DEF Begun
<1>6. ASSUME ~left PROVE Attempted'
  <2>. USE <1>6 DEF Attempted
  <2>1. Waiting(c) /\ \A i \in Flying : io[i].by # c /\ io[i].by \in Clients
    BY HandlerBegins
  <2>2. PICK i \in Ios \ Flying :
          io' = [io EXCEPT ![i] = [by |-> c, op |-> call[c].op, bounced |-> b, live |-> TRUE]]
    OBVIOUS
  <2>3. /\ io'[i] = [by |-> c, op |-> call[c].op, bounced |-> b, live |-> TRUE]
        /\ \A j \in Ios \ {i} : io'[j] = io[j]
    BY <2>2 DEF TypeOK
  <2>4. io'[i] # NoIo
    <3>1. call[c].op \in Transfers \cup Commands
      BY DEF TypeOK, Calls
    <3>. QED BY <2>3, <3>1, NewIo
  <2>5. Flying' = Flying \cup {i}
    BY <2>3, <2>4 DEF Flying
  <2>6. \A j \in Flying : j # i /\ j \in Ios
    BY DEF Flying
  <2>7. Waiting(c)'
    BY <2>1 DEF Waiting
  <2>8. FlyingIsAwaited'
    <3>1. ASSUME NEW j \in Flying PROVE Awaited(j)'
      <4>1. Awaited(j) /\ io'[j] = io[j] /\ io[j].by \in Clients \ {c}
        BY <2>1, <2>3, <2>6 DEF FlyingIsAwaited
      <4>2. PICK d \in Clients \ {c} : io[j].by = d
        BY <4>1
      <4>3. Begun(d)' /\ Waiting(d)'
        BY <1>4, <4>1, <4>2 DEF Awaited, Waiting
      <4>4. \A k \in Flying' : io'[k].by = d => k = j
        BY <2>3, <2>5, <2>6, <4>1, <4>2 DEF Awaited
      <4>5. ~io'[j].bounced /\ serving' # d
        BY <1>1, <4>1, <4>2 DEF Awaited
      <4>. QED BY <4>1, <4>2, <4>3, <4>4, <4>5 DEF Awaited
    <3>2. Awaited(i)'
      <4>1. \A k \in Flying' : io'[k].by = c => k = i
        BY <2>1, <2>3, <2>5, <2>6
      <4>. QED BY <1>1, <1>2, <1>5, <2>3, <2>7, <4>1 DEF Awaited
    <3>. QED BY <2>5, <3>1, <3>2 DEF FlyingIsAwaited
  <2>9. Attempts'
    <3>1. \A d \in Clients \ {c} : (\E j \in Flying : io[j].by = d)
                                     => (\E j \in Flying' : io'[j].by = d)
      BY <2>3, <2>5, <2>6
    <3>2. \E j \in Flying' : io'[j].by = c
      BY <2>3, <2>5
    <3>. QED
      BY <1>4, <1>5, <2>7, <3>1, <3>2 DEF Attempts, Waiting, Failed, Served
  <2>10. DataArrived'
    BY <1>1, <2>1 DEF DataArrived, Served, Waiting
  <2>11. BounceIsCopy' /\ OutcomeIsOwn'
    BY <1>2 DEF BounceIsCopy, OutcomeIsOwn
  <2>. QED BY <2>8, <2>9, <2>10, <2>11
<1>. QED BY <1>3, <1>6

\* Every handler either gives up or starts one I/O.
LEMMA HandlerStartInv ==
  ASSUME Inv, TypeOK', NEW c \in Clients,
         \/ ReadOnThread(c) \/ WriteOnThread(c) \/ ReadvOnThread(c) \/ WritevOnThread(c)
         \/ UnmapOnThread(c) \/ FlushOnThread(c) \/ ResetOnThread(c)
  PROVE  Inv'
<1>1. spdk_pc = "start" /\ serving = c /\ HandlerLeaves
  BY DEF ReadOnThread, WriteOnThread, ReadvOnThread, WritevOnThread, UnmapOnThread,
         FlushOnThread, ResetOnThread, Command, Dispatched
<1>2. buf[c] \in Values
  BY DEF Inv, TypeOK
<1>3. CASE GiveUp(c)
  BY <1>1, <1>3, GiveUpInv
<1>4. ASSUME NEW next \in {"poll", "finish"}, Issue(c, FALSE, next), bounce' = bounce
      PROVE  Inv'
  BY <1>1, <1>4, IssueInv
<1>5. ASSUME Issue(c, TRUE, "poll"), call[c].op \in Transfers, bounce' \in Values,
             call[c].op \in Writes => bounce' = buf[c]
      PROVE  Inv'
  BY <1>1, <1>5, IssueInv
<1>6. CASE ReadOnThread(c)
  BY <1>3, <1>4, <1>5, <1>6 DEF ReadOnThread, Dispatched, Transfers, Writes
<1>7. CASE WriteOnThread(c)
  BY <1>2, <1>3, <1>4, <1>5, <1>7 DEF WriteOnThread, Dispatched, Transfers
<1>8. CASE \/ ReadvOnThread(c) \/ WritevOnThread(c)
           \/ UnmapOnThread(c) \/ FlushOnThread(c) \/ ResetOnThread(c)
  BY <1>3, <1>4, <1>8
  DEF ReadvOnThread, WritevOnThread, UnmapOnThread, FlushOnThread, ResetOnThread, Command
<1>. QED BY <1>6, <1>7, <1>8

\* The handler that polls ends when its I/O has: a read's data is then in its buffer.
LEMMA PollEndsInv ==
  ASSUME Inv, TypeOK', NEW c \in Clients, PollEnds(c)
  PROVE  Inv'
<1>. USE NobodyAssumption, ValuesAssumption DEF Inv, PollEnds, callVars, history
<1>1. pc[c] = "wait" /\ req[c] = "taken" /\ Begun(c)
  BY DEF Control, Begun
<1>2. Control' /\ BounceIsPolled'
  BY <1>1 DEF Control, BounceIsPolled
<1>3. \A d \in Clients : Begun(d)' <=> Begun(d)
  BY DEF Begun
<1>4. \A d \in Clients \ {c} : buf'[d] = buf[d]
  BY DEF TypeOK, CopyBack
<1>5. ASSUME ~left PROVE Attempted'
  <2>. USE <1>5 DEF Attempted
  <2>1. ~Waiting(c)
    BY DEF Waiting, Fresh
  <2>2. \A i \in Flying : io[i].by # c /\ io[i].by \in Clients
    BY <2>1 DEF FlyingIsAwaited, Awaited, TypeOK, IoRecords, Flying
  <2>3. FlyingIsAwaited'
    BY <1>3, <2>2 DEF FlyingIsAwaited, Awaited, Flying, Waiting
  <2>4. Attempts'
    BY <1>3 DEF Attempts, Flying, Waiting, Failed, Served
  <2>5. ASSUME Served(c), call[c].op \in Transfers
        PROVE  moved[c] = buf'[c]
    <3>1. ctx[c].rc = "count"
      BY <2>5 DEF Served, Transfers, Commands
    <3>2. moved[c] = IF bounce # NoValue /\ call[c].op \in Reads THEN bounce ELSE buf[c]
      BY <1>1, <2>5 DEF DataArrived
    <3>. QED BY <3>1, <3>2 DEF CopyBack, TypeOK
  <2>6. DataArrived'
    BY <1>4, <2>5 DEF DataArrived, Served
  <2>7. BounceIsCopy' /\ OutcomeIsOwn'
    BY <1>1, <1>4 DEF BounceIsCopy, OutcomeIsOwn
  <2>. QED BY <2>3, <2>4, <2>6, <2>7
<1>. QED BY <1>2, <1>5

\* A request that is marked complete has been served.
LEMMA CompleteInv ==
  ASSUME Inv, TypeOK', NEW c \in Clients, Complete(c)
  PROVE  Inv'
<1>. USE NobodyAssumption DEF Inv, Complete, callVars, history
<1>1. pc[c] = "wait" /\ req[c] = "taken" /\ bounce = NoValue
  BY DEF Control, BounceIsPolled
<1>2. \A d \in Clients \ {c} : req'[d] = req[d] /\ req'[d] # "taken"
  BY DEF TypeOK, Control
<1>3. req'[c] = "done"
  BY DEF TypeOK
<1>4. Control' /\ BounceIsPolled'
  BY <1>1, <1>2, <1>3 DEF Control, BounceIsPolled
<1>5. \A d \in Clients : Begun(d)' <=> Begun(d)
  BY <1>2, <1>3 DEF Begun
<1>6. ASSUME ~left PROVE Attempted'
  <2>. USE <1>6 DEF Attempted
  <2>1. \A i \in Flying : io[i].by \in Clients
    BY DEF TypeOK, IoRecords, Flying
  <2>2. FlyingIsAwaited'
    BY <1>1, <1>5, <2>1 DEF FlyingIsAwaited, Awaited, Flying, Waiting
  <2>3. Attempts'
    BY <1>5 DEF Attempts, Flying, Waiting, Failed, Served
  <2>4. DataArrived' /\ BounceIsCopy' /\ OutcomeIsOwn'
    BY <1>1 DEF DataArrived, BounceIsCopy, OutcomeIsOwn, Served
  <2>. QED BY <2>2, <2>3, <2>4
<1>. QED BY <1>4, <1>6

\* What the completion of an I/O changes, when the call it belongs to is still there:
\* the context, and the data of that call.
LEMMA CompletionEffect ==
  ASSUME Inv, ~left, NEW i \in Ios, DriverStep(i)
  PROVE  \E d \in Clients, ok \in BOOLEAN :
           /\ io[i].by = d /\ Awaited(i) /\ i \in Flying
           /\ io' = [io EXCEPT ![i] = NoIo]
           /\ ctx'[d] = Result(i, ok) /\ effect'[d] = (IF ok THEN "ok" ELSE "failed")
           /\ \A e \in Clients \ {d} : /\ ctx'[e] = ctx[e] /\ effect'[e] = effect[e]
                                         /\ moved'[e] = moved[e] /\ buf'[e] = buf[e]
           /\ bounce' # NoValue <=> bounce # NoValue
           /\ bounce' = bounce \/ (d = serving /\ call[d].op \in Reads)
           /\ ok /\ call[d].op \in Transfers =>
                moved'[d] = IF d = serving /\ bounce # NoValue /\ call[d].op \in Reads
                            THEN bounce' ELSE buf'[d]
           /\ call[d].op \in Writes => buf'[d] = buf[d]
<1>. USE DEF Inv, Attempted
<1>1. i \in Flying /\ Awaited(i)
  BY DEF DriverStep, FlyingIsAwaited
<1>2. PICK d \in Clients : io[i].by = d
  BY <1>1 DEF TypeOK, IoRecords, Flying
<1>3. Hits(i) = {TRUE}
  BY <1>1 DEF Awaited, Hits
<1>4. /\ ctx \in [Clients -> Contexts] /\ effect \in [Clients -> {"none", "ok", "failed"}]
      /\ moved \in [Clients -> Values] /\ buf \in [Clients -> Values]
      /\ block \in Values /\ NoValue \notin Values
  BY ValuesAssumption DEF TypeOK
<1>5. ASSUME NEW ok \in BOOLEAN, NEW v, Completed(i, ok, TRUE, v)
      PROVE  /\ io' = [io EXCEPT ![i] = NoIo]
             /\ ctx'[d] = Result(i, ok) /\ effect'[d] = (IF ok THEN "ok" ELSE "failed")
             /\ moved'[d] = v
             /\ \A e \in Clients \ {d} : /\ ctx'[e] = ctx[e] /\ effect'[e] = effect[e]
                                           /\ moved'[e] = moved[e]
  BY <1>1, <1>2, <1>4, <1>5 DEF Completed, Awaited
<1>6. io[i].op = call[d].op /\ (io[i].bounced <=> (d = serving /\ bounce # NoValue)) /\ io[i].live
  BY <1>1, <1>2 DEF Awaited
<1>7. CASE ReadCompletes(i, TRUE)
  <2>1. /\ call[d].op \in Reads /\ call[d].op \notin Writes
        /\ Completed(i, TRUE, TRUE, block)
    BY <1>6, <1>7 DEF ReadCompletes, Reads, Writes
  <2>2. CASE io[i].bounced
    <3>1. bounce # NoValue /\ d = serving /\ bounce' = block /\ buf' = buf
      BY <1>6, <1>7, <2>2 DEF ReadCompletes
    <3>. QED BY <1>1, <1>2, <1>4, <1>5, <2>1, <3>1
  <2>3. CASE ~io[i].bounced
    <3>1. ~(d = serving /\ bounce # NoValue) /\ buf' = [buf EXCEPT ![d] = block]
          /\ bounce' = bounce
      BY <1>2, <1>6, <1>7, <2>3 DEF ReadCompletes
    <3>. QED BY <1>1, <1>2, <1>4, <1>5, <2>1, <3>1
  <2>. QED BY <2>2, <2>3
<1>8. CASE WriteCompletes(i, TRUE)
  <2>1. call[d].op \in Writes /\ call[d].op \notin Reads /\ buf' = buf /\ bounce' = bounce
    BY <1>6, <1>8 DEF WriteCompletes, Reads, Writes
  <2>2. PICK v \in Outgoing(i) : Completed(i, TRUE, TRUE, v)
    BY <1>8 DEF WriteCompletes
  <2>3. v = buf[d]
    <3>1. CASE io[i].bounced
      BY <1>6, <2>1, <2>2, <3>1 DEF Outgoing, BounceIsCopy
    <3>2. CASE ~io[i].bounced
      BY <1>2, <1>6, <2>2, <3>2 DEF Outgoing
    <3>. QED BY <3>1, <3>2
  <2>. QED BY <1>1, <1>2, <1>5, <2>1, <2>2, <2>3
<1>9. CASE CommandCompletes(i, TRUE)
  <2>1. /\ call[d].op \in Commands /\ call[d].op \notin Transfers
        /\ Completed(i, TRUE, TRUE, block') /\ buf' = buf /\ bounce' = bounce
    BY <1>6, <1>9 DEF CommandCompletes, Commands, Transfers
  <2>. QED BY <1>1, <1>2, <1>5, <2>1
<1>10. CASE IoFails(i, TRUE)
  <2>1. Completed(i, FALSE, TRUE, block) /\ buf' = buf /\ bounce' = bounce
    BY <1>10 DEF IoFails
  <2>. QED BY <1>1, <1>2, <1>5, <2>1
<1>. QED BY <1>3, <1>7, <1>8, <1>9, <1>10 DEF DriverStep

\* An I/O that completes settles the attempt of its call and no other.
LEMMA DriverInv ==
  ASSUME Inv, TypeOK', NEW i \in Ios, DriverStep(i)
  PROVE  Inv'
<1>. USE NobodyAssumption DEF Inv, callVars, spdkVars
<1>1. UNCHANGED <<callVars, req, spdkVars, calls, left>>
  BY DEF DriverStep
<1>2. bounce' # NoValue => bounce # NoValue
  BY DEF DriverStep, ReadCompletes, WriteCompletes, CommandCompletes, IoFails
<1>3. Control' /\ BounceIsPolled'
  BY <1>1, <1>2 DEF Control, BounceIsPolled
<1>4. \A e \in Clients : Begun(e)' <=> Begun(e)
  BY <1>1 DEF Begun
<1>5. ASSUME ~left PROVE Attempted'
  <2>. USE <1>1, <1>5 DEF Attempted
  <2>1. PICK d \in Clients, ok \in BOOLEAN :
           /\ io[i].by = d /\ Awaited(i) /\ i \in Flying
           /\ io' = [io EXCEPT ![i] = NoIo]
           /\ ctx'[d] = Result(i, ok) /\ effect'[d] = (IF ok THEN "ok" ELSE "failed")
           /\ \A e \in Clients \ {d} : /\ ctx'[e] = ctx[e] /\ effect'[e] = effect[e]
                                         /\ moved'[e] = moved[e] /\ buf'[e] = buf[e]
           /\ bounce' # NoValue <=> bounce # NoValue
           /\ bounce' = bounce \/ (d = serving /\ call[d].op \in Reads)
           /\ ok /\ call[d].op \in Transfers =>
                moved'[d] = IF d = serving /\ bounce # NoValue /\ call[d].op \in Reads
                            THEN bounce' ELSE buf'[d]
           /\ call[d].op \in Writes => buf'[d] = buf[d]
    BY CompletionEffect
  <2>2. Flying' = Flying \ {i} /\ \A j \in Flying \ {i} : io'[j] = io[j]
    BY <2>1 DEF TypeOK, Flying
  <2>3. \A j \in Flying \ {i} : io[j].by \in Clients \ {d}
    BY <2>1 DEF Awaited, TypeOK, IoRecords, Flying
  <2>4. pc[d] = "wait" /\ Begun(d) /\ io[i].op = call[d].op
    BY <2>1 DEF Awaited
  <2>5. FlyingIsAwaited'
    <3>1. ASSUME NEW j \in Flying \ {i} PROVE Awaited(j)'
      <4>1. Awaited(j)
        BY DEF FlyingIsAwaited
      <4>2. PICK e \in Clients \ {d} : io[j].by = e
        BY <2>3
      <4>3. Begun(e)' /\ Waiting(e)'
        BY <1>4, <2>1, <4>1, <4>2 DEF Awaited, Waiting
      <4>. QED BY <2>1, <2>2, <4>1, <4>2, <4>3 DEF Awaited
    <3>. QED BY <2>2, <3>1 DEF FlyingIsAwaited
  <2>6. /\ ~Waiting(d)' /\ (Failed(d)' \/ Served(d)')
        /\ Served(d)' => ok
    BY <2>1, <2>4 DEF Waiting, Failed, Served, Result, Fresh
  <2>7. \A e \in Clients \ {d} : /\ Waiting(e)' <=> Waiting(e)
                                 /\ Failed(e)' <=> Failed(e)
                                 /\ Served(e)' <=> Served(e)
    BY <2>1 DEF Waiting, Failed, Served
  <2>8. Attempts'
    <3>1. \A e \in Clients \ {d} : (\E j \in Flying : io[j].by = e)
                                     => (\E j \in Flying' : io'[j].by = e)
      BY <2>1, <2>2
    <3>. QED BY <1>4, <2>4, <2>6, <2>7, <3>1 DEF Attempts
  <2>9. DataArrived'
    BY <2>1, <2>6, <2>7 DEF DataArrived
  <2>10. BounceIsCopy'
    <3>1. ASSUME bounce # NoValue, call[serving].op \in Writes
          PROVE  bounce' = buf'[serving]
      <4>1. bounce' = bounce
        BY <2>1, <3>1 DEF Reads, Writes
      <4>2. serving \in Clients
        BY <3>1 DEF BounceIsPolled, Control, TypeOK
      <4>. QED BY <2>1, <3>1, <4>1, <4>2 DEF BounceIsCopy
    <3>. QED BY <2>1, <3>1 DEF BounceIsCopy
  <2>11. OutcomeIsOwn'
    BY <2>1, <2>4 DEF OutcomeIsOwn
  <2>. QED BY <2>5, <2>8, <2>9, <2>10, <2>11
<1>. QED BY <1>1, <1>3, <1>5
-----------------------------------------------------------------------------
\* Every step keeps the invariant.
LEMMA NextInv == Inv /\ [Next]_vars => Inv'
<1>. SUFFICES ASSUME Inv, [Next]_vars PROVE Inv'
  OBVIOUS
<1>1. TypeOK'
  BY NextType DEF Inv
<1>2. CASE UNCHANGED vars
  BY <1>1, <1>2, FrameInv DEF vars, callVars, history
<1>3. CASE LibInit \/ LibFini \/ Open \/ (\E f \in Fds : Close(f))
  BY <1>1, <1>3, FrameInv DEF LibInit, LibFini, Open, Close, callVars, history
<1>4. ASSUME NEW c \in Clients, Start(c) PROVE Inv'
  BY <1>1, <1>4, EnterInv DEF Start, Read, Write, Readv, Writev, Flush, Unmap, Reset, Retry
<1>5. ASSUME NEW c \in Clients, ClientStep(c) \/ Take(c) PROVE Inv'
  BY <1>1, <1>5, SubmitInv, RefuseInv, TryAgainInv, TakeResultInv, ReturnInv, TakeInv
  DEF ClientStep
<1>6. ASSUME NEW c \in Clients, Handler(c) PROVE Inv'
  BY <1>1, <1>6, HandlerStartInv, PollEndsInv, CompleteInv DEF Handler
<1>7. ASSUME NEW i \in Ios, DriverStep(i) PROVE Inv'
  BY <1>1, <1>7, DriverInv
<1>. QED BY <1>2, <1>3, <1>4, <1>5, <1>6, <1>7 DEF Next

\* The invariant holds of the specification.
LEMMA InvHolds == Spec => []Inv
BY InitInv, NextInv, PTL DEF Spec

\* As long as no call has taken its result before its I/O was complete, what a call
\* reports is what became of the I/O of its last attempt.
THEOREM OutcomesAreOwn == Spec => []OutcomeIsOwn
<1>1. Inv => OutcomeIsOwn
  BY DEF Inv, Attempted, OutcomeIsOwn
<1>. QED BY <1>1, InvHolds, PTL

\* As long as no call has taken its result before its I/O was complete, an I/O that
\* uses a bounce buffer finds it, and the handler that owns it is the one that polls.
THEOREM BounceBuffersOutliveIo == Spec => []BounceOutlivesIo
<1>1. Inv => BounceOutlivesIo
  BY DEF Inv, Attempted, FlyingIsAwaited, Awaited, BounceIsPolled, BounceOutlivesIo
<1>. QED BY <1>1, InvHolds, PTL

\* As long as no call has taken its result before its I/O was complete, a call tries
\* again only when its last attempt failed and the driver has none of its I/O.
THEOREM RetriesFollowFailures == Spec => RetryOnlyAfterFailure
<1>. DEFINE Safe == \A c \in Clients : tries'[c] > tries[c] =>
                      (~left => effect[c] # "ok" /\ Own(c) = {})
<1>1. Inv /\ [Next]_vars => [Safe]_vars
  <2>. SUFFICES ASSUME Inv, Next, NEW c \in Clients, tries'[c] > tries[c], ~left
                PROVE  effect[c] # "ok" /\ Own(c) = {}
    BY DEF vars
  <2>1. tries \in [Clients -> 0 .. MaxRetries]
    BY DEF Inv, TypeOK
  <2>2. tries' # tries
    BY <2>1, BoundsAssumption
  <2>3. PICK d \in Clients : TryAgain(d) \/ Return(d)
    <3>1. LibInit \/ LibFini \/ Open \/ (\E f \in Fds : Close(f)) => tries' = tries
      BY DEF LibInit, LibFini, Open, Close, callVars
    <3>2. ASSUME NEW d \in Clients, Start(d) PROVE tries' = tries
      BY <3>2 DEF Start, Read, Write, Readv, Writev, Flush, Unmap, Reset, Retry, Enter
    <3>3. ASSUME NEW d \in Clients, Submit(d) \/ Refuse(d) \/ TakeResult(d) \/ Take(d)
          PROVE  tries' = tries
      BY <3>3 DEF Submit, Refuse, TakeResult, Take, callVars
    <3>4. ASSUME NEW d \in Clients, Handler(d) PROVE tries' = tries
      BY <3>4
      DEF Handler, ReadOnThread, WriteOnThread, ReadvOnThread, WritevOnThread,
          UnmapOnThread, FlushOnThread, ResetOnThread, Command, HandlerLeaves, PollEnds,
          Complete, callVars
    <3>5. ASSUME NEW i \in Ios, DriverStep(i) PROVE tries' = tries
      BY <3>5 DEF DriverStep, callVars
    <3>. QED BY <2>2, <3>1, <3>2, <3>3, <3>4, <3>5 DEF Next, ClientStep
  <2>4. ~Return(d)
    BY <2>1, BoundsAssumption DEF Return
  <2>5. TryAgain(d) /\ d = c
    BY <2>1, <2>3, <2>4, BoundsAssumption DEF TryAgain
  <2>6. Failed(c) /\ \A i \in Flying : io[i].by # c
    BY <2>5, FailedIsOver DEF TryAgain, MayRetry, Inv, Control
  <2>. QED BY <2>6 DEF Failed, Own
<1>2. [][Safe]_vars => RetryOnlyAfterFailure
  BY DEF RetryOnlyAfterFailure
<1>. QED BY <1>1, <1>2, InvHolds, PTL DEF Spec

=============================================================================
