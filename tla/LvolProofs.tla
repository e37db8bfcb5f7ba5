----------------------------- MODULE LvolProofs -----------------------------
(***************************************************************************)
(* Theorems about Lvol, for all clients, devices and arguments of calls:   *)
(* the callback of an operation of SPDK finds the frames it writes to, the *)
(* state has its type, and the calls implement LvolCatalogue: each takes   *)
(* effect at one moment, completely or not at all.                         *)
(*                                                                         *)
(* A frame is there as long as its function has not returned.  The         *)
(* handler's is because it polls until done is set, and done is set by     *)
(* that callback alone; the caller's is because its request is marked done *)
(* only at the handler's end.  Inv follows one request from the call       *)
(* through the ring to the handler and back; KInv adds what context,       *)
(* operation and call say of each other.  From both follows that a handler *)
(* fails, succeeds or starts an operation, and each of the three is a step *)
(* of the catalogue or no step at all.                                     *)
(***************************************************************************)
EXTENDS Lvol, SequenceTheorems, TLAPS

\* The places of calls, requests and the SPDK thread.
ControlTypeOK ==
  /\ pc \in [Clients -> {"idle", "request", "wait", "returned"}]
  /\ req \in [Clients -> {"none", "queued", "taken", "done"}]
  /\ DOMAIN ctx = Clients
  /\ spdk_pc \in {"idle", "start", "poll", "finish"}
  /\ serving \in Clients \cup {Nobody}

\* Every request in the system belongs to a call that waits for it.
RequestsAreAwaited == \A c \in Clients : req[c] # "none" => pc[c] = "wait"

\* The SPDK thread serves the one request that was taken and is not done.
TakenIsServed ==
  /\ serving = Nobody <=> spdk_pc = "idle"
  /\ \A c \in Clients : req[c] = "taken" <=> c = serving

\* No context says done before a handler has had the request.
DoneIsNew ==
  \A c \in Clients :
    (pc[c] = "request" \/ req[c] = "queued" \/ (c = serving /\ spdk_pc = "start"))
      => ctx[c].done = FALSE

\* SPDK has an operation only while its handler polls and has not seen its end.
OperationIsPolled ==
  op # NoRequest =>
    spdk_pc = "poll" /\ op.by = serving /\ ctx[serving].done = FALSE

Inv == ControlTypeOK /\ RequestsAreAwaited /\ TakenIsServed /\ DoneIsNew /\ OperationIsPolled

-----------------------------------------------------------------------------
\* Nothing goes on at first.
LEMMA InitInv == Init => Inv
BY NobodyAssumption
DEF Init, Inv, ControlTypeOK, RequestsAreAwaited, TakenIsServed, DoneIsNew,
    OperationIsPolled, Fresh

\* A call that begins has a new context; nothing of an older call is on its way.
LEMMA EnterInv ==
  ASSUME Inv, NEW c \in Clients, NEW o, Enter(c, o)
  PROVE  Inv'
<1>. USE NobodyAssumption DEF Inv, Enter, spdkVars
<1>1. req[c] = "none" /\ c # serving
  BY DEF ControlTypeOK, RequestsAreAwaited, TakenIsServed
<1>2. ControlTypeOK'
  BY DEF ControlTypeOK
<1>3. RequestsAreAwaited'
  BY <1>1 DEF RequestsAreAwaited, ControlTypeOK
<1>4. TakenIsServed'
  BY DEF TakenIsServed
<1>5. DoneIsNew'
  BY <1>1 DEF DoneIsNew, ControlTypeOK, Fresh
<1>6. OperationIsPolled'
  BY <1>1 DEF OperationIsPolled, ControlTypeOK, TakenIsServed
<1>. QED BY <1>2, <1>3, <1>4, <1>5, <1>6

\* The client's other steps: its request is accepted or refused, the call returns
\* when the request is done, and the application goes on.
LEMMA ClientInv ==
  ASSUME Inv, NEW c \in Clients, Submit(c) \/ Return(c) \/ Leave(c)
  PROVE  Inv'
<1>. USE NobodyAssumption DEF Inv, spdkVars
<1>1. CASE Submit(c)
  <2>. USE <1>1 DEF Submit
  <2>1. req[c] = "none" /\ c # serving
    BY DEF ControlTypeOK, RequestsAreAwaited, TakenIsServed
  <2>2. ControlTypeOK'
    BY DEF ControlTypeOK
  <2>3. RequestsAreAwaited' /\ TakenIsServed'
    BY <2>1 DEF RequestsAreAwaited, TakenIsServed, ControlTypeOK
  <2>4. DoneIsNew'
    BY DEF DoneIsNew, ControlTypeOK
  <2>5. OperationIsPolled'
    BY DEF OperationIsPolled
  <2>. QED BY <2>2, <2>3, <2>4, <2>5
<1>2. CASE Return(c)
  <2>. USE <1>2 DEF Return
  <2>1. c # serving
    BY DEF TakenIsServed
  <2>2. ControlTypeOK'
    BY DEF ControlTypeOK
  <2>3. RequestsAreAwaited' /\ TakenIsServed'
    BY <2>1 DEF RequestsAreAwaited, TakenIsServed, ControlTypeOK
  <2>4. DoneIsNew'
    BY DEF DoneIsNew, ControlTypeOK
  <2>5. OperationIsPolled'
    BY DEF OperationIsPolled
  <2>. QED BY <2>2, <2>3, <2>4, <2>5
<1>3. CASE Leave(c)
  <2>. USE <1>3 DEF Leave
  <2>1. req[c] = "none" /\ c # serving
    BY DEF ControlTypeOK, RequestsAreAwaited, TakenIsServed
  <2>2. ControlTypeOK'
    BY DEF ControlTypeOK
  <2>3. RequestsAreAwaited' /\ TakenIsServed'
    BY <2>1 DEF RequestsAreAwaited, TakenIsServed, ControlTypeOK
  <2>4. DoneIsNew'
    BY <2>1 DEF DoneIsNew, ControlTypeOK
  <2>5. OperationIsPolled'
    BY <2>1 DEF OperationIsPolled, ControlTypeOK, TakenIsServed
  <2>. QED BY <2>2, <2>3, <2>4, <2>5
<1>. QED BY <1>1, <1>2, <1>3

-----------------------------------------------------------------------------
\* A request is taken while the thread is idle: SPDK has no operation then.
LEMMA TakeInv ==
  ASSUME Inv, NEW c \in Clients, Take(c)
  PROVE  Inv'
<1>. USE NobodyAssumption DEF Inv, Take
<1>1. serving = Nobody /\ op = NoRequest
  BY DEF TakenIsServed, OperationIsPolled
<1>2. ControlTypeOK'
  BY DEF ControlTypeOK
<1>3. RequestsAreAwaited' /\ TakenIsServed'
  BY <1>1 DEF RequestsAreAwaited, TakenIsServed, ControlTypeOK
<1>4. DoneIsNew' /\ OperationIsPolled'
  BY <1>1 DEF DoneIsNew, OperationIsPolled, ControlTypeOK
<1>. QED BY <1>2, <1>3, <1>4

\* A handler that ends without an operation.
LEMMA EndsInv ==
  ASSUME Inv, NEW c \in Clients, spdk_pc = "start", serving = c,
         NEW rec, ctx' = [ctx EXCEPT ![c] = rec], spdk_pc' = "finish",
         UNCHANGED <<pc, req, serving, op>>
  PROVE  Inv'
<1>. USE NobodyAssumption DEF Inv
<1>1. op = NoRequest /\ pc[c] = "wait" /\ req[c] = "taken"
  BY DEF OperationIsPolled, TakenIsServed, RequestsAreAwaited
<1>2. ControlTypeOK'
  BY DEF ControlTypeOK
<1>3. RequestsAreAwaited' /\ TakenIsServed'
  BY DEF RequestsAreAwaited, TakenIsServed, ControlTypeOK
<1>4. DoneIsNew' /\ OperationIsPolled'
  BY <1>1 DEF DoneIsNew, OperationIsPolled, ControlTypeOK
<1>. QED BY <1>2, <1>3, <1>4

\* A handler that starts an operation: the context does not say done yet.
LEMMA StartsInv ==
  ASSUME Inv, NEW c \in Clients, spdk_pc = "start", serving = c, NEW k, Starts(c, k)
  PROVE  Inv'
<1>. USE NobodyAssumption DEF Inv, Starts, callVars
<1>1. ControlTypeOK'
  BY DEF ControlTypeOK
<1>2. RequestsAreAwaited' /\ TakenIsServed'
  BY DEF RequestsAreAwaited, TakenIsServed, ControlTypeOK
<1>3. DoneIsNew'
  BY DEF DoneIsNew
<1>4. OperationIsPolled'
  BY DEF OperationIsPolled, DoneIsNew
<1>. QED BY <1>1, <1>2, <1>3, <1>4

\* Every handler ends at once or starts one operation.
LEMMA HandlerInv ==
  ASSUME Inv, NEW c \in Clients,
         \/ CreatePoolOnThread(c) \/ DestroyPoolOnThread(c) \/ CreateOnThread(c)
         \/ DestroyOnThread(c) \/ SnapshotOnThread(c) \/ CloneOnThread(c)
         \/ RenameOnThread(c) \/ ResizeOnThread(c) \/ GetInfoOnThread(c)
         \/ GetPoolInfoOnThread(c) \/ RemoveDeviceOnThread(c)
  PROVE  Inv'
<1>1. /\ spdk_pc = "start" /\ serving = c
      /\ \/ \E code, info : Ends(c, code, info)
         \/ \E k : Starts(c, k)
         \/ RemoveDeviceOnThread(c)
  BY DEF CreatePoolOnThread, DestroyPoolOnThread, CreateOnThread, DestroyOnThread,
     SnapshotOnThread, CloneOnThread, RenameOnThread, ResizeOnThread, GetInfoOnThread,
     GetPoolInfoOnThread, RemoveDeviceOnThread, NotFound, Dispatched
<1>2. ASSUME NEW code, NEW info, Ends(c, code, info) PROVE Inv'
  BY <1>1, <1>2, EndsInv DEF Ends, callVars
<1>3. ASSUME NEW k, Starts(c, k) PROVE Inv'
  BY <1>1, <1>3, StartsInv
<1>4. CASE RemoveDeviceOnThread(c)
  BY <1>1, <1>2, <1>4, EndsInv DEF RemoveDeviceOnThread, callVars
<1>. QED BY <1>1, <1>2, <1>3, <1>4

\* The callback sets done: SPDK has no operation any more.
LEMMA OperationEndsInv ==
  ASSUME Inv, NEW ok \in BOOLEAN, OperationEnds(ok)
  PROVE  Inv'
<1>. USE NobodyAssumption DEF Inv, OperationEnds, callVars
<1>1. op.by = serving /\ serving \in Clients
  BY DEF OperationIsPolled, TakenIsServed, ControlTypeOK
<1>2. ControlTypeOK'
  BY DEF ControlTypeOK
<1>3. RequestsAreAwaited' /\ TakenIsServed'
  BY DEF RequestsAreAwaited, TakenIsServed
<1>4. DoneIsNew'
  <2>1. pc[serving] = "wait" /\ req[serving] = "taken"
    BY <1>1 DEF TakenIsServed, RequestsAreAwaited
  <2>. QED BY <1>1, <2>1 DEF DoneIsNew, ControlTypeOK
<1>5. OperationIsPolled'
  BY DEF OperationIsPolled
<1>. QED BY <1>2, <1>3, <1>4, <1>5

\* The handler stops polling once done is set, and only then is its request done.
LEMMA FinishInv ==
  ASSUME Inv, NEW c \in Clients, PollEnds(c) \/ Complete(c)
  PROVE  Inv'
<1>. USE NobodyAssumption DEF Inv
<1>1. CASE PollEnds(c)
  BY <1>1 DEF PollEnds, callVars, ControlTypeOK, RequestsAreAwaited, TakenIsServed,
     DoneIsNew, OperationIsPolled
<1>2. CASE Complete(c)
  <2>. USE <1>2 DEF Complete
  <2>1. op = NoRequest /\ pc[c] = "wait"
    BY DEF OperationIsPolled, TakenIsServed, RequestsAreAwaited
  <2>2. ControlTypeOK'
    BY DEF ControlTypeOK
  <2>3. RequestsAreAwaited' /\ TakenIsServed'
    BY <2>1 DEF RequestsAreAwaited, TakenIsServed, ControlTypeOK
  <2>4. DoneIsNew' /\ OperationIsPolled'
    BY <2>1 DEF DoneIsNew, OperationIsPolled, ControlTypeOK
  <2>. QED BY <2>2, <2>3, <2>4
<1>. QED BY <1>1, <1>2

-----------------------------------------------------------------------------
\* What SPDK loses, and steps that change nothing, leave the control as it is.
LEMMA QuietInv ==
  ASSUME Inv, UNCHANGED <<callVars, ctx, spdkVars>>
  PROVE  Inv'
BY DEF Inv, callVars, spdkVars, ControlTypeOK, RequestsAreAwaited, TakenIsServed,
   DoneIsNew, OperationIsPolled

\* Every step keeps the invariant.
LEMMA NextInv == Inv /\ [Next]_vars => Inv'
<1>. SUFFICES ASSUME Inv, [Next]_vars PROVE Inv'
  OBVIOUS
<1>1. ASSUME NEW c \in Clients, Start(c) PROVE Inv'
  BY <1>1, EnterInv
  DEF Start, CreatePool, DestroyPool, Create, Destroy, Snapshot, Clone, Resize, GetInfo,
      GetPoolInfo, Rename, RemoveDevice
<1>2. ASSUME NEW c \in Clients, ClientStep(c) \/ Leave(c) PROVE Inv'
  BY <1>2, ClientInv DEF ClientStep
<1>3. ASSUME NEW c \in Clients, Take(c) PROVE Inv'
  BY <1>3, TakeInv
<1>4. ASSUME NEW c \in Clients, Handler(c) PROVE Inv'
  BY <1>4, HandlerInv, FinishInv DEF Handler
<1>5. ASSUME NEW ok \in BOOLEAN, OperationEnds(ok) PROVE Inv'
  BY <1>5, OperationEndsInv
<1>6. CASE DeviceEvent \/ UNCHANGED vars
  BY <1>6, QuietInv DEF DeviceEvent, vars
<1>. QED BY <1>1, <1>2, <1>3, <1>4, <1>5, <1>6 DEF Next

\* While SPDK carries out an operation, the handler whose frame its callback writes
\* through still polls, and the call whose context it writes to still waits.
THEOREM CallbacksFindTheirFrames == Spec => []CallbackHasItsFrames
<1>1. Inv => CallbackHasItsFrames
  BY NobodyAssumption
  DEF Inv, ControlTypeOK, RequestsAreAwaited, TakenIsServed, OperationIsPolled,
      CallbackHasItsFrames
<1>. QED BY <1>1, InitInv, NextInv, PTL DEF Spec

-----------------------------------------------------------------------------
(***************************************************************************)
(* Names.                                                                  *)
(***************************************************************************)

\* A list put before a symbol and another list.
LEMMA Joined ==
  ASSUME NEW S, NEW p \in Seq(S), NEW x \in S, NEW n \in Seq(S)
  PROVE  /\ Len(p) \in Nat /\ Len(n) \in Nat
         /\ p \o <<x>> \o n \in Seq(S)
         /\ Len(p \o <<x>> \o n) = Len(p) + 1 + Len(n)
         /\ \A i \in 1 .. Len(p) : (p \o <<x>> \o n)[i] = p[i]
         /\ (p \o <<x>> \o n)[Len(p) + 1] = x
         /\ \A i \in 1 .. Len(n) : (p \o <<x>> \o n)[Len(p) + 1 + i] = n[i]
<1> DEFINE s == <<x>>
           a == p \o s
           f == a \o n
<1>1. s \in Seq(S) /\ Len(s) = 1 /\ s[1] = x /\ Len(p) \in Nat /\ Len(n) \in Nat
  BY LenProperties
<1> HIDE DEF s
<1>2. /\ a \in Seq(S) /\ Len(a) = Len(p) + Len(s)
      /\ \A i \in 1 .. Len(p) + Len(s) : a[i] = IF i <= Len(p) THEN p[i] ELSE s[i - Len(p)]
  BY <1>1, ConcatProperties, Zenon
<1>3. /\ Len(a) = Len(p) + 1
      /\ \A i \in 1 .. Len(p) : a[i] = p[i]
      /\ a[Len(p) + 1] = x
  <2> HIDE DEF a
  <2>1. \A i \in 1 .. Len(p) : i \in 1 .. Len(p) + Len(s) /\ i <= Len(p)
    BY <1>1
  <2>2. /\ Len(p) + 1 \in 1 .. Len(p) + Len(s) /\ ~(Len(p) + 1 <= Len(p))
        /\ (Len(p) + 1) - Len(p) = 1
    BY <1>1
  <2> QED BY <1>1, <1>2, <2>1, <2>2
<1> HIDE DEF a
<1>4. a \in Seq(S) /\ n \in Seq(S)
  BY <1>2
<1>5. /\ a \o n \in Seq(S) /\ Len(a \o n) = Len(a) + Len(n)
      /\ \A i \in 1 .. Len(a) + Len(n) :
            (a \o n)[i] = IF i <= Len(a) THEN a[i] ELSE n[i - Len(a)]
  BY <1>4, ConcatProperties, Zenon
<1>6. /\ f \in Seq(S) /\ Len(f) = Len(a) + Len(n)
      /\ \A i \in 1 .. Len(a) + Len(n) : f[i] = IF i <= Len(a) THEN a[i] ELSE n[i - Len(a)]
  BY <1>5
<1> HIDE DEF f
<1>7. \A i \in 1 .. Len(p) + 1 : f[i] = a[i]
  <2> TAKE i \in 1 .. Len(p) + 1
  <2>1. i \in 1 .. Len(a) + Len(n) /\ i <= Len(a)
    BY <1>1, <1>3
  <2> QED BY <1>6, <2>1
<1>8. \A i \in 1 .. Len(n) : f[Len(p) + 1 + i] = n[i]
  <2> TAKE i \in 1 .. Len(n)
  <2>1. /\ Len(p) + 1 + i \in 1 .. Len(a) + Len(n) /\ ~(Len(p) + 1 + i <= Len(a))
        /\ (Len(p) + 1 + i) - Len(a) = i
    BY <1>1, <1>3
  <2> QED BY <1>6, <2>1
<1>9. /\ Len(f) = Len(p) + 1 + Len(n)
      /\ \A i \in 1 .. Len(p) : i \in 1 .. Len(p) + 1
      /\ Len(p) + 1 \in 1 .. Len(p) + 1
  BY <1>1, <1>3, <1>6
<1>10. /\ f \in Seq(S) /\ \A i \in 1 .. Len(p) : f[i] = p[i]
       /\ f[Len(p) + 1] = x
  BY <1>3, <1>6, <1>7, <1>9
<1> QED BY <1>1, <1>8, <1>9, <1>10 DEF f, a, s

\* A name made of a pool's and a volume's is taken apart into just these.
LEMMA ParsedJoined ==
  ASSUME NEW p \in Seq(Symbols), NEW n \in Seq(Symbols), NoSlash(p),
         Len(p) < NameSize, Len(n) < NameSize
  PROVE  Parsed(p \o <<Slash>> \o n) = <<p, n>>
<1> DEFINE f == p \o <<Slash>> \o n
<1>0. Slash \in Symbols
  BY ArgumentsAssumption
<1>1. /\ Len(p) \in Nat /\ Len(n) \in Nat
      /\ f \in Seq(Symbols) /\ Len(f) = Len(p) + 1 + Len(n)
      /\ \A i \in 1 .. Len(p) : f[i] = p[i]
      /\ f[Len(p) + 1] = Slash
      /\ \A i \in 1 .. Len(n) : f[Len(p) + 1 + i] = n[i]
  BY <1>0, Joined
<1> HIDE DEF f
<1>2. DOMAIN f = 1 .. Len(f) /\ \A i \in 1 .. Len(f) : f[i] \in Symbols
  BY <1>1, LenProperties, ElementOfSeq
<1> DEFINE First(i) == f[i] = Slash /\ \A j \in 1 .. i - 1 : f[j] # Slash
           at == CHOOSE i \in DOMAIN f : First(i)
<1>3. \A i \in 1 .. Len(p) : f[i] # Slash
  <2>1. DOMAIN p = 1 .. Len(p)
    BY LenProperties
  <2> QED BY <1>1, <2>1 DEF NoSlash
<1>4. at = Len(p) + 1
  <2>1. Len(p) + 1 \in DOMAIN f /\ First(Len(p) + 1)
    BY <1>1, <1>2, <1>3
  <2>2. at \in DOMAIN f /\ First(at)
    <3> HIDE DEF First
    <3> QED BY <2>1
  <2> HIDE DEF at
  <2>3. at \in 1 .. Len(f) /\ f[at] = Slash /\ \A j \in 1 .. at - 1 : f[j] # Slash
    BY <1>2, <2>2
  <2>4. ~(at <= Len(p))
    BY <1>1, <1>3, <2>3
  <2>5. ~(at > Len(p) + 1)
    BY <1>1, <2>3
  <2> QED BY <1>1, <2>3, <2>4, <2>5
<1> HIDE DEF at
<1>5. SubSeq(f, 1, at - 1) = p
  <2> DEFINE u == SubSeq(f, 1, Len(p))
  <2>1. /\ u \in Seq(Symbols) /\ Len(u) = (IF 1 <= Len(p) THEN Len(p) - 1 + 1 ELSE 0)
        /\ \A i \in 1 .. Len(p) - 1 + 1 : u[i] = f[1 + i - 1]
    <3>1. 1 \in Int /\ Len(p) \in Int /\ \A i \in 1 .. Len(p) : f[i] \in Symbols
      BY <1>1, <1>2
    <3> QED BY <1>1, <3>1, SubSeqProperties
  <2> HIDE DEF u
  <2>2. Len(u) = Len(p) /\ \A i \in 1 .. Len(p) : u[i] = p[i]
    <3>1. \A i \in 1 .. Len(p) : i \in 1 .. Len(p) - 1 + 1 /\ 1 + i - 1 = i
      BY <1>1
    <3> QED BY <1>1, <2>1, <3>1
  <2>3. u = p
    BY <2>1, <2>2, SeqEqual
  <2>4. at - 1 = Len(p)
    BY <1>1, <1>4
  <2> QED BY <2>3, <2>4 DEF u
<1>6. SubSeq(f, at + 1, Len(f)) = n
  <2> DEFINE k == Len(p) + 2
             u == SubSeq(f, k, Len(f))
  <2>1. k \in Int /\ Len(f) \in Int /\ Len(f) - k + 1 = Len(n) /\ k = at + 1
        /\ \A i \in k .. Len(f) : f[i] \in Symbols
    BY <1>1, <1>2, <1>4
  <2>2. /\ u \in Seq(Symbols) /\ Len(u) = (IF k <= Len(f) THEN Len(f) - k + 1 ELSE 0)
        /\ \A i \in 1 .. Len(f) - k + 1 : u[i] = f[k + i - 1]
    <3> HIDE DEF k
    <3> QED BY <1>1, <2>1, SubSeqProperties
  <2> HIDE DEF u
  <2>3. Len(u) = Len(n) /\ \A i \in 1 .. Len(n) : u[i] = n[i]
    <3>1. \A i \in 1 .. Len(n) : k + i - 1 = Len(p) + 1 + i
      BY <1>1
    <3>2. Len(u) = Len(n)
      BY <1>1, <2>1, <2>2
    <3>3. \A i \in 1 .. Len(n) : u[i] = f[k + i - 1]
      <4> HIDE DEF k
      <4> QED BY <2>1, <2>2
    <3> HIDE DEF k
    <3> QED BY <1>1, <3>1, <3>2, <3>3
  <2>4. u = n
    BY <2>2, <2>3, SeqEqual
  <2> QED BY <2>1, <2>4 DEF u
<1>7. ~NoSlash(f)
  BY <1>1, <1>2 DEF NoSlash
<1>8. Parsed(f) = <<p, n>>
  <2>1. Parsed(f) = IF NoSlash(f) THEN <<>>
                    ELSE IF Len(SubSeq(f, 1, at - 1)) < NameSize /\ Len(SubSeq(f, at + 1, Len(f))) < NameSize
                         THEN <<SubSeq(f, 1, at - 1), SubSeq(f, at + 1, Len(f))>> ELSE <<>>
    BY DEF Parsed, at
  <2> QED BY <1>5, <1>6, <1>7, <2>1
<1> QED BY <1>8 DEF f

\* How the handlers read the name of a volume, given with or without its pool.
LEMMA ParsedFull ==
  ASSUME NEW p \in Seq(Symbols), NEW n \in Seq(Symbols), NoSlash(p),
         Len(p) < NameSize, Len(n) < NameSize, p = NoName => NoSlash(n)
  PROVE  Parsed(Full(p, n)) = IF p = NoName THEN <<>> ELSE <<p, n>>
<1>1. CASE p = NoName
  BY <1>1 DEF Full, Parsed
<1>2. CASE p # NoName
  BY <1>2, ParsedJoined DEF Full
<1> QED BY <1>1, <1>2

LEMMA WordKeeps ==
  ASSUME NEW x \in Nat, NEW w \in Nat \ {0}, x < w
  PROVE  x % w = x
OBVIOUS

\* What the arguments of a call come to.
LEMMA ArgumentFacts ==
  ASSUME NEW k \in Arguments
  PROVE  /\ k.op \in LvolOps /\ k.dev \in Devices
         /\ Bytes(k.mb) = k.mb * Mega
         /\ Parsed(Full(k.pool, k.name)) =
              IF k.pool = NoName THEN <<>> ELSE <<k.pool, k.name>>
         /\ k.op = "rename" => Parsed(Full(k.newpool, k.new)) =
              IF k.newpool = NoName THEN <<>> ELSE <<k.newpool, k.new>>
<1>1. k \in Calls
  BY ArgumentsAssumption
<1>2. /\ k.op \in LvolOps /\ k.dev \in Devices /\ k.mb \in Nat
      /\ k.pool \in Seq(Symbols) /\ k.name \in Seq(Symbols)
      /\ k.newpool \in Seq(Symbols) /\ k.new \in Seq(Symbols)
  BY <1>1 DEF Calls
<1>3. Bytes(k.mb) = k.mb * Mega
  <2>1. /\ k.mb * Mega \in Nat /\ k.mb * Mega < Word /\ Word \in Nat \ {0}
    BY <1>2, SizesAssumption
  <2>2. (k.mb * Mega) % Word = k.mb * Mega
    BY <2>1, WordKeeps
  <2> QED BY <2>2 DEF Bytes
<1>4. Parsed(Full(k.pool, k.name)) = IF k.pool = NoName THEN <<>> ELSE <<k.pool, k.name>>
  BY <1>2, NamesAssumption, ParsedFull
<1>5. ASSUME k.op = "rename"
      PROVE  Parsed(Full(k.newpool, k.new)) =
               IF k.newpool = NoName THEN <<>> ELSE <<k.newpool, k.new>>
  BY <1>2, <1>5, NamesAssumption, ParsedFull
<1> QED BY <1>2, <1>3, <1>4, <1>5

-----------------------------------------------------------------------------
(***************************************************************************)
(* What SPDK keeps.                                                        *)
(***************************************************************************)
Volume(v) == v = [pool |-> v.pool, name |-> v.name, size |-> v.size, kind |-> v.kind]

\* Every volume is in a pool that is there.
StoreSound(s) ==
  /\ s = [devices |-> s.devices, base |-> s.base, vols |-> s.vols]
  /\ s.devices \subseteq Devices
  /\ \A v \in s.vols : Volume(v) /\ v.pool \in DOMAIN s.base

\* Two requests ask SPDK for the same.
SameFor(k, m) ==
  /\ k.op = m.op /\ k.dev = m.dev /\ k.pool = m.pool
  /\ k.op \in OnVolume \cup {"create"} => k.name = m.name
  /\ k.op \in {"snapshot", "clone", "rename"} => k.new = m.new
  /\ k.op \in {"create", "resize"} => k.size = m.size

LEMMA SameMeaning ==
  ASSUME NEW s, NEW k, NEW m, SameFor(k, m)
  PROVE  /\ Missing(s, k) <=> Missing(s, m)
         /\ Accepted(s, k) = Accepted(s, m)
<1>1. k.op = m.op /\ k.dev = m.dev /\ k.pool = m.pool
  BY DEF SameFor
<1>2. Missing(s, k) <=> Missing(s, m)
  BY <1>1 DEF SameFor, Missing
<1>3. CASE k.op \in {"create_pool", "destroy_pool", "remove_device"}
  BY <1>1, <1>2, <1>3 DEF Accepted
<1>4. CASE k.op = "create"
  <2>1. k.name = m.name /\ k.size = m.size
    BY <1>4 DEF SameFor
  <2> QED BY <1>1, <1>2, <1>4, <2>1 DEF Accepted
<1>5. CASE k.op \in {"snapshot", "clone"}
  <2>1. k.name = m.name /\ k.new = m.new
    BY <1>5 DEF SameFor, OnVolume
  <2> QED BY <1>1, <1>2, <1>5, <2>1 DEF Accepted
<1>6. CASE k.op = "destroy"
  <2>1. k.name = m.name
    BY <1>6 DEF SameFor, OnVolume
  <2> QED BY <1>1, <1>2, <1>6, <2>1 DEF Accepted
<1>7. CASE k.op = "rename"
  <2>1. k.name = m.name /\ k.new = m.new
    BY <1>7 DEF SameFor, OnVolume
  <2> QED BY <1>1, <1>2, <1>7, <2>1 DEF Accepted
<1>8. CASE k.op = "resize"
  <2>1. k.name = m.name /\ k.size = m.size
    BY <1>8 DEF SameFor, OnVolume
  <2> QED BY <1>1, <1>2, <1>8, <2>1 DEF Accepted
<1>9. CASE k.op \notin {"create_pool", "destroy_pool", "remove_device", "create", "snapshot",
                        "clone", "destroy", "rename", "resize"}
  BY <1>1, <1>2, <1>9 DEF Accepted
<1> QED BY <1>3, <1>4, <1>5, <1>6, <1>7, <1>8, <1>9

LEMMA WithoutSound ==
  ASSUME NEW s, StoreSound(s), NEW p
  PROVE  StoreSound(Without(s, p))
<1> DEFINE b == [q \in DOMAIN s.base \ {p} |-> s.base[q]]
           w == {v \in s.vols : v.pool # p}
<1>1. Without(s, p) = [devices |-> s.devices, base |-> b, vols |-> w]
  BY DEF Without
<1>2. /\ DOMAIN b = DOMAIN s.base \ {p}
      /\ \A v \in w : Volume(v) /\ v.pool \in DOMAIN b
  BY DEF StoreSound
<1> HIDE DEF b, w
<1> QED BY <1>1, <1>2 DEF StoreSound

LEMMA LostSound ==
  ASSUME NEW s, StoreSound(s), NEW t \in Pulled(s) \cup Dropped(s)
  PROVE  StoreSound(t)
<1>1. CASE t \in Pulled(s)
  <2>1. PICK d \in s.devices : t = [s EXCEPT !.devices = @ \ {d}]
    BY <1>1 DEF Pulled
  <2> QED BY <2>1 DEF StoreSound
<1>2. CASE t \in Dropped(s)
  <2>1. PICK p \in DOMAIN s.base : t = Without(s, p)
    BY <1>2 DEF Dropped
  <2> QED BY <2>1, WithoutSound
<1> QED BY <1>1, <1>2

\* The volumes change, but stay in pools that are there.
LEMMA VolumesSound ==
  ASSUME NEW s, StoreSound(s), NEW w, \A v \in w : Volume(v) /\ v.pool \in DOMAIN s.base
  PROVE  StoreSound([s EXCEPT !.vols = w])
BY DEF StoreSound

LEMMA AddedSound ==
  ASSUME NEW s, StoreSound(s), NEW v, Volume(v), v.pool \in DOMAIN s.base, NEW t \in Added(s, v)
  PROVE  StoreSound(t)
<1>1. t = [s EXCEPT !.vols = s.vols \cup {v}]
  BY DEF Added
<1>2. \A u \in s.vols \cup {v} : Volume(u) /\ u.pool \in DOMAIN s.base
  BY DEF StoreSound
<1> QED BY <1>1, <1>2, VolumesSound

LEMMA AcceptedSound ==
  ASSUME NEW s, StoreSound(s), NEW k, ~Missing(s, k), NEW t \in Accepted(s, k)
  PROVE  StoreSound(t)
<1> DEFINE found == Lookup(s, k.pool, k.name)
<1>1. \A v \in s.vols : Volume(v) /\ v.pool \in DOMAIN s.base
  BY DEF StoreSound
<1>2. found \subseteq s.vols
  BY DEF Lookup
<1>3. CASE k.op = "create_pool"
  <2> DEFINE b == [p \in DOMAIN s.base \cup {k.pool} |->
                     IF p = k.pool THEN k.dev ELSE s.base[p]]
  <2>1. t = [s EXCEPT !.base = b]
    BY <1>3 DEF Accepted
  <2>2. DOMAIN s.base \subseteq DOMAIN b
    OBVIOUS
  <2> HIDE DEF b
  <2> QED BY <2>1, <2>2 DEF StoreSound
<1>4. CASE k.op = "destroy_pool"
  <2>1. t = Without(s, k.pool)
    BY <1>4 DEF Accepted
  <2> QED BY <2>1, WithoutSound
<1>5. CASE k.op = "create"
  <2> DEFINE v == [pool |-> k.pool, name |-> k.name, size |-> k.size, kind |-> "volume"]
  <2>1. t \in Added(s, v)
    BY <1>5 DEF Accepted
  <2>2. Volume(v) /\ v.pool \in DOMAIN s.base
    BY <1>5 DEF Volume, Missing, OnPool
  <2> QED BY <2>1, <2>2, AddedSound
<1>6. CASE k.op = "destroy"
  <2>1. PICK v \in found : t = [s EXCEPT !.vols = s.vols \ {v}]
    BY <1>6 DEF Accepted
  <2> QED BY <1>1, <2>1, VolumesSound
<1>7. CASE k.op = "snapshot"
  <2>1. PICK v \in found : t \in Added(s, Copy(v, k.new, "snapshot"))
    BY <1>7 DEF Accepted
  <2>2. Volume(v) /\ v.pool \in DOMAIN s.base
    BY <1>1, <1>2
  <2>3. Volume(Copy(v, k.new, "snapshot")) /\ Copy(v, k.new, "snapshot").pool = v.pool
    BY DEF Copy, Volume
  <2> QED BY <2>1, <2>2, <2>3, AddedSound
<1>8. CASE k.op = "clone"
  <2>1. PICK v \in found : t \in Added(s, Copy(v, k.new, "clone"))
    BY <1>8 DEF Accepted
  <2>2. Volume(v) /\ v.pool \in DOMAIN s.base
    BY <1>1, <1>2
  <2>3. Volume(Copy(v, k.new, "clone")) /\ Copy(v, k.new, "clone").pool = v.pool
    BY DEF Copy, Volume
  <2> QED BY <2>1, <2>2, <2>3, AddedSound
<1>9. CASE k.op = "rename"
  <2>1. PICK v \in found : t = [s EXCEPT !.vols = (s.vols \ {v}) \cup {[v EXCEPT !.name = k.new]}]
    BY <1>9 DEF Accepted
  <2>2. Volume(v) /\ v.pool \in DOMAIN s.base
    BY <1>1, <1>2
  <2> DEFINE u == [v EXCEPT !.name = k.new]
  <2>3. Volume(u) /\ u.pool = v.pool
    BY <2>2 DEF Volume
  <2> QED BY <1>1, <2>1, <2>2, <2>3, VolumesSound
<1>10. CASE k.op = "resize"
  <2>1. PICK v \in found : t = [s EXCEPT !.vols = (s.vols \ {v}) \cup {[v EXCEPT !.size = k.size]}]
    BY <1>10 DEF Accepted
  <2>2. Volume(v) /\ v.pool \in DOMAIN s.base
    BY <1>1, <1>2
  <2> DEFINE u == [v EXCEPT !.size = k.size]
  <2>3. Volume(u) /\ u.pool = v.pool
    BY <2>2 DEF Volume
  <2> QED BY <1>1, <2>1, <2>2, <2>3, VolumesSound
<1>11. CASE k.op = "remove_device"
  <2>1. t = [s EXCEPT !.devices = @ \ {k.dev}]
    BY <1>11 DEF Accepted
  <2> QED BY <2>1 DEF StoreSound
<1>12. CASE k.op \notin {"create_pool", "destroy_pool", "remove_device", "create", "snapshot",
                         "clone", "destroy", "rename", "resize"}
  BY <1>12 DEF Accepted
<1> QED BY <1>3, <1>4, <1>5, <1>6, <1>7, <1>8, <1>9, <1>10, <1>11, <1>12

-----------------------------------------------------------------------------
(***************************************************************************)
(* What calls, contexts and operations say of each other.                  *)
(***************************************************************************)

\* A call that runs has its arguments, its context is new until it has a request,
\* and a request that is done has its result.
CallsKnown ==
  /\ call \in [Clients -> Arguments \cup {NoRequest}]
  /\ outcome \in [Clients -> {"ok", "missing", "invalid", "refused", "busy"}]
  /\ \A c \in Clients :
       /\ ctx[c].done \in BOOLEAN
       /\ ctx[c].rc \in {"ok", "missing", "invalid", "refused"}
       /\ pc[c] # "idle" => call[c] \in Arguments
       /\ pc[c] = "request" => ctx[c] = Fresh
       /\ req[c] = "done" => ctx[c].done = TRUE

\* A handler ends with a result in the context.
HandlersAnswer == spdk_pc = "finish" => ctx[serving].done = TRUE

\* The operations that take SPDK some time.
Lasting == LvolOps \ {"get_info", "get_pool_info", "remove_device"}

\* What SPDK carries out is what the call asks for, and makes sense.
OperationIsMeant ==
  op # NoRequest =>
    /\ SameFor(op.does, Meant(call[serving]))
    /\ Meant(call[serving]).valid = TRUE
    /\ op.does.op \in Lasting

KInv == CallsKnown /\ HandlersAnswer /\ OperationIsMeant /\ StoreSound(store)

LEMMA InitKnown == Init => KInv
<1> SUFFICES ASSUME Init PROVE KInv
  OBVIOUS
<1>1. StoreSound(store)
  BY DEF Init, NoPools, StoreSound
<1>2. CallsKnown
  BY DEF Init, CallsKnown, Fresh
<1> QED BY <1>1, <1>2 DEF KInv, Init, HandlersAnswer, OperationIsMeant

\* What a call means, field by field.
LEMMA MeantFacts ==
  ASSUME NEW k
  PROVE  /\ Meant(k).op = k.op /\ Meant(k).dev = k.dev /\ Meant(k).pool = k.pool
         /\ Meant(k).name = k.name /\ Meant(k).new = k.new /\ Meant(k).size = k.mb * Mega
         /\ Meant(k).valid = (/\ k.op \in OnVolume => k.pool # NoName
                              /\ k.op = "rename" => k.newpool = k.pool)
BY DEF Meant

\* The three ways of a handler: it fails, it succeeds at once, or it starts an
\* operation that SPDK carries out meanwhile.
HandlerFails(c) ==
  \E code \in {"invalid", "missing", "refused"} :
    /\ Ends(c, code, {})
    /\ code = "invalid" => Meant(call[c]).valid = FALSE
    /\ code = "missing" => Missing(store, Meant(call[c]))

HandlerSucceeds(c) ==
  /\ Meant(call[c]).valid = TRUE /\ ~Missing(store, Meant(call[c]))
  /\ store' \in Accepted(store, Meant(call[c]))
  /\ ctx' = [ctx EXCEPT ![c] = [done |-> TRUE, rc |-> "ok", info |-> Told(store, Meant(call[c]))]]
  /\ spdk_pc' = "finish"
  /\ UNCHANGED <<callVars, serving, op>>

HandlerStarts(c) ==
  \E k : /\ Starts(c, k)
         /\ SameFor(k, Meant(call[c])) /\ Meant(call[c]).valid = TRUE /\ k.op \in Lasting

\* The handlers of calls on pools and devices.
LEMMA PoolHandlers ==
  ASSUME NEW c \in Clients, call[c] \in Arguments, StoreSound(store),
         \/ CreatePoolOnThread(c) \/ DestroyPoolOnThread(c) \/ CreateOnThread(c)
         \/ GetPoolInfoOnThread(c) \/ RemoveDeviceOnThread(c)
  PROVE  HandlerFails(c) \/ HandlerSucceeds(c) \/ HandlerStarts(c)
<1> DEFINE k == call[c]
           M == Meant(k)
<1>1. /\ M.op = k.op /\ M.dev = k.dev /\ M.pool = k.pool
      /\ M.name = k.name /\ M.size = k.mb * Mega
      /\ k.op \notin OnVolume => M.valid = TRUE
  BY MeantFacts DEF OnVolume
<1>2. Bytes(k.mb) = k.mb * Mega
  BY ArgumentFacts
<1> HIDE DEF M
<1>3. CASE CreatePoolOnThread(c)
  <2> DEFINE x == Operation(c, k.pool, NoName, NoName, 0)
  <2>1. k.op = "create_pool" /\ M.valid = TRUE
    BY <1>1, <1>3 DEF CreatePoolOnThread, Dispatched, OnVolume
  <2>2. SameFor(x, M) /\ x.op \in Lasting /\ x.dev = k.dev
    BY <1>1, <2>1 DEF SameFor, Operation, OnVolume, Lasting, LvolOps
  <2>3. k.dev \notin store.devices => Missing(store, M)
    BY <1>1, <2>1 DEF Missing
  <2> HIDE DEF x
  <2>4. \/ k.dev \notin store.devices /\ Ends(c, "missing", {})
        \/ Starts(c, x) \/ Ends(c, "refused", {})
    BY <1>3, <2>2 DEF CreatePoolOnThread, x
  <2> QED BY <2>1, <2>2, <2>3, <2>4 DEF HandlerFails, HandlerStarts, M
<1>4. CASE DestroyPoolOnThread(c)
  <2> DEFINE x == Operation(c, k.pool, NoName, NoName, 0)
  <2>1. k.op = "destroy_pool" /\ M.valid = TRUE
    BY <1>1, <1>4 DEF DestroyPoolOnThread, Dispatched, OnVolume
  <2>2. SameFor(x, M) /\ x.op \in Lasting /\ x.pool = k.pool
    BY <1>1, <2>1 DEF SameFor, Operation, OnVolume, Lasting, LvolOps
  <2>3. k.pool \notin DOMAIN store.base => Missing(store, M)
    BY <1>1, <2>1 DEF Missing, OnPool
  <2> HIDE DEF x
  <2>4. \/ k.pool \notin DOMAIN store.base /\ Ends(c, "missing", {})
        \/ Starts(c, x) \/ Ends(c, "refused", {})
    BY <1>4, <2>2 DEF DestroyPoolOnThread, x
  <2> QED BY <2>1, <2>2, <2>3, <2>4 DEF HandlerFails, HandlerStarts, M
<1>5. CASE CreateOnThread(c)
  <2> DEFINE x == Operation(c, k.pool, k.name, NoName, Bytes(k.mb))
  <2>1. k.op = "create" /\ M.valid = TRUE
    BY <1>1, <1>5 DEF CreateOnThread, Dispatched, OnVolume
  <2>2. SameFor(x, M) /\ x.op \in Lasting /\ x.pool = k.pool
    BY <1>1, <1>2, <2>1 DEF SameFor, Operation, OnVolume, Lasting, LvolOps
  <2>3. k.pool \notin DOMAIN store.base => Missing(store, M)
    BY <1>1, <2>1 DEF Missing, OnPool
  <2> HIDE DEF x
  <2>4. \/ k.pool \notin DOMAIN store.base /\ Ends(c, "missing", {})
        \/ Starts(c, x) \/ Ends(c, "refused", {})
    BY <1>5, <2>2 DEF CreateOnThread, x
  <2> QED BY <2>1, <2>2, <2>3, <2>4 DEF HandlerFails, HandlerStarts, M
<1>6. CASE GetPoolInfoOnThread(c)
  <2>1. k.op = "get_pool_info" /\ M.valid = TRUE
    BY <1>1, <1>6 DEF GetPoolInfoOnThread, Dispatched, OnVolume
  <2>2. CASE k.pool \notin DOMAIN store.base
    <3>1. Missing(store, M) /\ Ends(c, "missing", {})
      BY <1>1, <1>6, <2>1, <2>2 DEF Missing, OnPool, GetPoolInfoOnThread
    <3> QED BY <3>1 DEF HandlerFails, M
  <2>3. CASE k.pool \in DOMAIN store.base /\ store.base[k.pool] \notin store.devices
    <3>1. Ends(c, "refused", {})
      BY <1>6, <2>3 DEF GetPoolInfoOnThread
    <3> QED BY <3>1 DEF HandlerFails
  <2>4. CASE k.pool \in DOMAIN store.base /\ store.base[k.pool] \in store.devices
    <3>1. ~Missing(store, M)
      BY <1>1, <2>1, <2>4 DEF Missing, OnVolume
    <3>2. Accepted(store, M) = {store}
      BY <1>1, <2>1 DEF Accepted
    <3>3. Told(store, M) = {store.base[k.pool]}
      BY <1>1, <2>1, <2>4 DEF Told
    <3>4. Ends(c, "ok", {store.base[k.pool]})
      BY <1>6, <2>4 DEF GetPoolInfoOnThread
    <3> QED BY <2>1, <3>1, <3>2, <3>3, <3>4 DEF HandlerSucceeds, Ends, M
  <2> QED BY <2>2, <2>3, <2>4
<1>7. CASE RemoveDeviceOnThread(c)
  <2>1. k.op = "remove_device" /\ M.valid = TRUE
    BY <1>1, <1>7 DEF RemoveDeviceOnThread, Dispatched, OnVolume
  <2>2. /\ Missing(store, M) <=> k.dev \notin store.devices
        /\ Accepted(store, M) = {[store EXCEPT !.devices = @ \ {k.dev}]}
        /\ Told(store, M) = {}
    BY <1>1, <2>1 DEF Missing, OnPool, OnVolume, Accepted, Told
  <2>3. CASE k.dev \notin store.devices /\ Ends(c, "missing", {})
    BY <2>2, <2>3 DEF HandlerFails, M
  <2>4. CASE Ends(c, "refused", {})
    BY <2>4 DEF HandlerFails
  <2>5. CASE /\ k.dev \in store.devices
             /\ store' = [store EXCEPT !.devices = @ \ {k.dev}]
             /\ ctx' = [ctx EXCEPT ![c] = [done |-> TRUE, rc |-> "ok", info |-> {}]]
             /\ spdk_pc' = "finish"
             /\ UNCHANGED <<callVars, serving, op>>
    BY <2>1, <2>2, <2>5 DEF HandlerSucceeds, M
  <2> QED BY <1>7, <2>3, <2>4, <2>5 DEF RemoveDeviceOnThread
<1> QED BY <1>3, <1>4, <1>5, <1>6, <1>7

\* The handlers of calls on volumes: the name they take apart is the one meant.
LEMMA VolumeHandlers ==
  ASSUME NEW c \in Clients, call[c] \in Arguments, StoreSound(store),
         \/ DestroyOnThread(c) \/ SnapshotOnThread(c) \/ CloneOnThread(c)
         \/ RenameOnThread(c) \/ ResizeOnThread(c) \/ GetInfoOnThread(c)
  PROVE  HandlerFails(c) \/ HandlerSucceeds(c) \/ HandlerStarts(c)
<1> DEFINE k == call[c]
           M == Meant(k)
<1>1. /\ M.op = k.op /\ M.dev = k.dev /\ M.pool = k.pool
      /\ M.name = k.name /\ M.new = k.new /\ M.size = k.mb * Mega
      /\ M.valid = (/\ k.op \in OnVolume => k.pool # NoName
                    /\ k.op = "rename" => k.newpool = k.pool)
  BY MeantFacts
<1>2. /\ Bytes(k.mb) = k.mb * Mega
      /\ At(c) = IF k.pool = NoName THEN <<>> ELSE <<k.pool, k.name>>
      /\ k.op = "rename" => Parsed(Full(k.newpool, k.new)) =
           IF k.newpool = NoName THEN <<>> ELSE <<k.newpool, k.new>>
  BY ArgumentFacts DEF At
<1> HIDE DEF M
<1>3. k.op \in OnVolume
  BY DEF DestroyOnThread, SnapshotOnThread, CloneOnThread, RenameOnThread, ResizeOnThread,
     GetInfoOnThread, Dispatched, OnVolume
<1>4. CASE NotFound(c)
  <2>1. CASE At(c) = <<>> /\ Ends(c, "invalid", {})
    <3>1. M.valid = FALSE
      BY <1>1, <1>2, <1>3, <2>1
    <3> QED BY <2>1, <3>1 DEF HandlerFails, M
  <2>2. CASE At(c) # <<>> /\ Lookup(store, At(c)[1], At(c)[2]) = {} /\ Ends(c, "missing", {})
    <3>1. Missing(store, M)
      BY <1>1, <1>2, <1>3, <2>2 DEF Missing
    <3> QED BY <2>2, <3>1 DEF HandlerFails, M
  <2> QED BY <1>4, <2>1, <2>2 DEF NotFound
<1>5. CASE Found(c)
  <2>1. /\ k.pool # NoName /\ At(c)[1] = k.pool /\ At(c)[2] = k.name
        /\ Lookup(store, k.pool, k.name) # {}
    BY <1>2, <1>5 DEF Found
  <2>2. k.op # "rename" => M.valid = TRUE
    BY <1>1, <2>1
  <2>3. ASSUME NEW new, NEW size, k.op \in OnVolume \ {"get_info"}, M.valid = TRUE,
               k.op \in {"snapshot", "clone", "rename"} => new = k.new,
               k.op = "resize" => size = k.mb * Mega,
               Starts(c, Operation(c, At(c)[1], At(c)[2], new, size))
        PROVE  HandlerStarts(c)
    <3> DEFINE x == Operation(c, At(c)[1], At(c)[2], new, size)
    <3>1. SameFor(x, M) /\ x.op \in Lasting
      BY <1>1, <2>1, <2>3 DEF SameFor, Operation, OnVolume, Lasting, LvolOps
    <3> HIDE DEF x
    <3>2. Starts(c, x)
      BY <2>3 DEF x
    <3> QED BY <2>3, <3>1, <3>2 DEF HandlerStarts, M
  <2>4. CASE GetInfoOnThread(c) /\ ~NotFound(c)
    <3>1. k.op = "get_info" /\ Ends(c, "ok", Lookup(store, k.pool, k.name))
      BY <2>1, <2>4 DEF GetInfoOnThread, Dispatched
    <3>2. k.pool \in DOMAIN store.base
      BY <2>1 DEF StoreSound, Lookup
    <3>3. ~Missing(store, M)
      BY <1>1, <2>1, <3>1, <3>2 DEF Missing
    <3>4. Accepted(store, M) = {store} /\ Told(store, M) = Lookup(store, k.pool, k.name)
      BY <1>1, <3>1 DEF Accepted, Told
    <3> QED BY <2>2, <3>1, <3>3, <3>4 DEF HandlerSucceeds, Ends, M
  <2>5. CASE RenameOnThread(c) /\ ~NotFound(c)
    <3> DEFINE to == Parsed(Full(k.newpool, k.new))
               stays == to # <<>> /\ to[1] = At(c)[1]
    <3>1. /\ k.op = "rename"
          /\ \/ ~stays /\ Ends(c, "invalid", {})
             \/ stays /\ Starts(c, Operation(c, At(c)[1], At(c)[2], to[2], 0))
      BY <2>5 DEF RenameOnThread, Dispatched
    <3>2. to = IF k.newpool = NoName THEN <<>> ELSE <<k.newpool, k.new>>
      BY <1>2, <3>1
    <3> HIDE DEF to
    <3>3. CASE ~stays /\ Ends(c, "invalid", {})
      <4>1. k.newpool # k.pool
        BY <2>1, <3>2, <3>3
      <4>2. M.valid = FALSE
        BY <1>1, <3>1, <4>1
      <4> QED BY <3>3, <4>2 DEF HandlerFails, M
    <3>4. CASE stays /\ Starts(c, Operation(c, At(c)[1], At(c)[2], to[2], 0))
      <4>1. k.newpool = k.pool /\ to[2] = k.new
        BY <2>1, <3>2, <3>4
      <4>2. M.valid = TRUE
        BY <1>1, <2>1, <3>1, <4>1
      <4> QED BY <1>3, <2>3, <3>1, <3>4, <4>1, <4>2
    <3> QED BY <3>1, <3>3, <3>4
  <2>6. CASE DestroyOnThread(c) /\ ~NotFound(c)
    <3>1. k.op = "destroy" /\ Starts(c, Operation(c, At(c)[1], At(c)[2], NoName, 0))
      BY <2>6 DEF DestroyOnThread, Dispatched
    <3> QED BY <1>3, <2>2, <2>3, <3>1
  <2>7. CASE (SnapshotOnThread(c) \/ CloneOnThread(c)) /\ ~NotFound(c)
    <3>1. k.op \in {"snapshot", "clone"} /\ Starts(c, Operation(c, At(c)[1], At(c)[2], k.new, 0))
      BY <2>7 DEF SnapshotOnThread, CloneOnThread, Dispatched
    <3> QED BY <1>3, <2>2, <2>3, <3>1
  <2>8. CASE ResizeOnThread(c) /\ ~NotFound(c)
    <3>1. k.op = "resize" /\ Starts(c, Operation(c, At(c)[1], At(c)[2], NoName, Bytes(k.mb)))
      BY <2>8 DEF ResizeOnThread, Dispatched
    <3> QED BY <1>2, <1>3, <2>2, <2>3, <3>1
  <2> QED BY <1>4, <2>4, <2>5, <2>6, <2>7, <2>8
<1> QED BY <1>4, <1>5 DEF DestroyOnThread, SnapshotOnThread, CloneOnThread, RenameOnThread,
       ResizeOnThread, GetInfoOnThread

\* Every handler, in one of the three ways.
LEMMA HandlerWays ==
  ASSUME Inv, KInv, NEW c \in Clients,
         \/ CreatePoolOnThread(c) \/ DestroyPoolOnThread(c) \/ CreateOnThread(c)
         \/ DestroyOnThread(c) \/ SnapshotOnThread(c) \/ CloneOnThread(c)
         \/ RenameOnThread(c) \/ ResizeOnThread(c) \/ GetInfoOnThread(c)
         \/ GetPoolInfoOnThread(c) \/ RemoveDeviceOnThread(c)
  PROVE  /\ serving = c /\ pc[c] = "wait" /\ req[c] = "taken" /\ op = NoRequest
         /\ call[c] \in Arguments /\ ctx[c].done = FALSE
         /\ HandlerFails(c) \/ HandlerSucceeds(c) \/ HandlerStarts(c)
<1>1. spdk_pc = "start" /\ serving = c
  BY DEF CreatePoolOnThread, DestroyPoolOnThread, CreateOnThread, DestroyOnThread,
     SnapshotOnThread, CloneOnThread, RenameOnThread, ResizeOnThread, GetInfoOnThread,
     GetPoolInfoOnThread, RemoveDeviceOnThread, Dispatched
<1>2. pc[c] = "wait" /\ req[c] = "taken" /\ op = NoRequest /\ ctx[c].done = FALSE
  BY <1>1 DEF Inv, OperationIsPolled, TakenIsServed, RequestsAreAwaited, DoneIsNew
<1>3. call[c] \in Arguments /\ StoreSound(store)
  BY <1>2 DEF KInv, CallsKnown
<1> QED BY <1>1, <1>2, <1>3, PoolHandlers, VolumeHandlers

\* A result is put into the context of a call.
LEMMA AnsweredKnown ==
  ASSUME Inv, KInv, NEW c \in Clients, pc[c] = "wait", serving = c,
         NEW r \in {"ok", "missing", "invalid", "refused"}, NEW i,
         ctx' = [ctx EXCEPT ![c] = [done |-> TRUE, rc |-> r, info |-> i]],
         UNCHANGED <<callVars, serving>>
  PROVE  CallsKnown' /\ HandlersAnswer'
<1>1. DOMAIN ctx = Clients
  BY DEF Inv, ControlTypeOK
<1>2. ctx'[c].done = TRUE /\ ctx'[c].rc = r
  BY <1>1
<1>3. \A x \in Clients \ {c} : ctx'[x] = ctx[x]
  BY <1>1
<1>4. CallsKnown'
  BY <1>2, <1>3 DEF KInv, CallsKnown, callVars
<1> QED BY <1>2, <1>4 DEF HandlersAnswer

LEMMA HandlerKnown ==
  ASSUME Inv, KInv, NEW c \in Clients, serving = c, pc[c] = "wait", op = NoRequest,
         call[c] \in Arguments,
         HandlerFails(c) \/ HandlerSucceeds(c) \/ HandlerStarts(c)
  PROVE  KInv'
<1>1. CASE HandlerFails(c)
  <2>1. PICK code \in {"invalid", "missing", "refused"} : Ends(c, code, {})
    BY <1>1 DEF HandlerFails
  <2>2. CallsKnown' /\ HandlersAnswer'
    BY <2>1, AnsweredKnown DEF Ends
  <2>3. OperationIsMeant' /\ StoreSound(store')
    BY <2>1 DEF Ends, KInv, OperationIsMeant
  <2> QED BY <2>2, <2>3 DEF KInv
<1>2. CASE HandlerSucceeds(c)
  <2>1. CallsKnown' /\ HandlersAnswer'
    BY <1>2, AnsweredKnown DEF HandlerSucceeds
  <2>2. OperationIsMeant'
    BY <1>2 DEF HandlerSucceeds, OperationIsMeant
  <2>3. StoreSound(store')
    BY <1>2, AcceptedSound DEF HandlerSucceeds, KInv
  <2> QED BY <2>1, <2>2, <2>3 DEF KInv
<1>3. CASE HandlerStarts(c)
  <2>1. PICK k : /\ Starts(c, k)
                 /\ SameFor(k, Meant(call[c])) /\ Meant(call[c]).valid = TRUE /\ k.op \in Lasting
    BY <1>3 DEF HandlerStarts
  <2>2. CallsKnown' /\ HandlersAnswer' /\ StoreSound(store')
    BY <2>1 DEF Starts, KInv, CallsKnown, HandlersAnswer, callVars
  <2>3. op'.does = k /\ serving' = c /\ call' = call
    BY <2>1 DEF Starts, callVars
  <2>4. OperationIsMeant'
    BY <2>1, <2>3 DEF OperationIsMeant
  <2> QED BY <2>2, <2>4 DEF KInv
<1> QED BY <1>1, <1>2, <1>3

\* SPDK ends an operation: with all of its effect, or with none.
LEMMA OperationWays ==
  ASSUME Inv, KInv, NEW ok \in BOOLEAN, OperationEnds(ok)
  PROVE  /\ serving \in Clients /\ pc[serving] = "wait" /\ call[serving] \in Arguments
         /\ ctx[serving].done = FALSE
         /\ ctx' = [ctx EXCEPT ![serving] =
                      [done |-> TRUE, rc |-> IF ok THEN "ok" ELSE "refused", info |-> {}]]
         /\ op' = NoRequest /\ UNCHANGED <<callVars, spdk_pc, serving>>
         /\ ok => /\ Meant(call[serving]).valid = TRUE
                  /\ ~Missing(store, Meant(call[serving]))
                  /\ store' \in Accepted(store, Meant(call[serving]))
                  /\ Told(store, Meant(call[serving])) = {}
         /\ ~ok => store' = store
<1> DEFINE M == Meant(call[serving])
<1>1. op # NoRequest /\ spdk_pc = "poll" /\ op.by = serving
  BY DEF OperationEnds, Inv, OperationIsPolled
<1>2. serving \in Clients /\ pc[serving] = "wait" /\ ctx[serving].done = FALSE
  BY <1>1, NobodyAssumption
  DEF Inv, OperationIsPolled, TakenIsServed, ControlTypeOK, RequestsAreAwaited
<1>3. call[serving] \in Arguments
  BY <1>2 DEF KInv, CallsKnown
<1>4. SameFor(op.does, M) /\ M.valid = TRUE /\ op.does.op \in Lasting
  BY <1>1 DEF KInv, OperationIsMeant
<1> HIDE DEF M
<1>5. /\ Missing(store, op.does) <=> Missing(store, M)
      /\ Accepted(store, op.does) = Accepted(store, M)
  BY <1>4, SameMeaning
<1>6. Told(store, M) = {}
  BY <1>4 DEF SameFor, Told, Lasting, LvolOps
<1>7. /\ ok => ~Missing(store, M) /\ store' \in Accepted(store, M)
      /\ ~ok => store' = store
  BY <1>5 DEF OperationEnds
<1> QED BY <1>1, <1>2, <1>3, <1>4, <1>6, <1>7 DEF OperationEnds, M

\* Every step keeps what is known.
LEMMA NextKnown == Inv /\ KInv /\ [Next]_vars => KInv'
<1> SUFFICES ASSUME Inv, KInv, [Next]_vars PROVE KInv'
  OBVIOUS
<1> USE NobodyAssumption
<1>0. /\ DOMAIN ctx = Clients /\ pc \in [Clients -> {"idle", "request", "wait", "returned"}]
      /\ req \in [Clients -> {"none", "queued", "taken", "done"}]
  BY DEF Inv, ControlTypeOK
<1>1. ASSUME NEW c \in Clients, Start(c) PROVE KInv'
  <2>1. PICK o : Enter(c, o)
    BY <1>1 DEF Start, CreatePool, DestroyPool, Create, Destroy, Snapshot, Clone, Resize,
       GetInfo, GetPoolInfo, Rename, RemoveDevice
  <2>2. req[c] = "none" /\ c # serving
    BY <1>0, <2>1 DEF Enter, Inv, ControlTypeOK, RequestsAreAwaited, TakenIsServed
  <2>3. CallsKnown'
    BY <1>0, <2>1, <2>2 DEF Enter, KInv, CallsKnown, Fresh
  <2>4. call'[serving] = call[serving] /\ ctx'[serving] = ctx[serving]
    BY <2>1, <2>2 DEF Enter
  <2>5. HandlersAnswer' /\ OperationIsMeant' /\ StoreSound(store')
    BY <2>1, <2>4 DEF Enter, spdkVars, KInv, HandlersAnswer, OperationIsMeant
  <2> QED BY <2>3, <2>5 DEF KInv
<1>2. ASSUME NEW c \in Clients, Submit(c) PROVE KInv'
  <2>1. CallsKnown'
    BY <1>0, <1>2 DEF Submit, KInv, CallsKnown
  <2>2. HandlersAnswer' /\ OperationIsMeant' /\ StoreSound(store')
    BY <1>2 DEF Submit, spdkVars, KInv, HandlersAnswer, OperationIsMeant
  <2> QED BY <2>1, <2>2 DEF KInv
<1>3. ASSUME NEW c \in Clients, Return(c) PROVE KInv'
  <2>1. CallsKnown'
    BY <1>0, <1>3 DEF Return, KInv, CallsKnown
  <2>2. HandlersAnswer' /\ OperationIsMeant' /\ StoreSound(store')
    BY <1>3 DEF Return, spdkVars, KInv, HandlersAnswer, OperationIsMeant
  <2> QED BY <2>1, <2>2 DEF KInv
<1>4. ASSUME NEW c \in Clients, Leave(c) PROVE KInv'
  <2>1. req[c] = "none" /\ c # serving
    BY <1>0, <1>4 DEF Leave, Inv, RequestsAreAwaited, TakenIsServed
  <2>2. CallsKnown'
    BY <1>0, <1>4, <2>1 DEF Leave, KInv, CallsKnown, Fresh
  <2>3. call'[serving] = call[serving] /\ ctx'[serving] = ctx[serving]
    BY <1>4, <2>1 DEF Leave
  <2>4. HandlersAnswer' /\ OperationIsMeant' /\ StoreSound(store')
    BY <1>4, <2>3 DEF Leave, spdkVars, KInv, HandlersAnswer, OperationIsMeant
  <2> QED BY <2>2, <2>4 DEF KInv
<1>5. ASSUME NEW c \in Clients, Take(c) PROVE KInv'
  <2>1. op = NoRequest
    BY <1>5 DEF Take, Inv, OperationIsPolled
  <2>2. CallsKnown'
    BY <1>0, <1>5 DEF Take, KInv, CallsKnown
  <2>3. HandlersAnswer' /\ OperationIsMeant' /\ StoreSound(store')
    BY <1>5, <2>1 DEF Take, KInv, HandlersAnswer, OperationIsMeant
  <2> QED BY <2>2, <2>3 DEF KInv
<1>6. ASSUME NEW c \in Clients, Handler(c) PROVE KInv'
  <2>1. CASE PollEnds(c)
    <3>1. ctx[c].done = TRUE
      BY <2>1 DEF PollEnds, KInv, CallsKnown
    <3> QED BY <2>1, <3>1 DEF PollEnds, callVars, KInv, CallsKnown, HandlersAnswer, OperationIsMeant
  <2>2. CASE Complete(c)
    <3>1. ctx[c].done = TRUE /\ op = NoRequest
      BY <2>2 DEF Complete, KInv, HandlersAnswer, Inv, OperationIsPolled
    <3>2. CallsKnown'
      BY <1>0, <2>2, <3>1 DEF Complete, KInv, CallsKnown
    <3>3. HandlersAnswer' /\ OperationIsMeant' /\ StoreSound(store')
      BY <2>2, <3>1 DEF Complete, KInv, HandlersAnswer, OperationIsMeant
    <3> QED BY <3>2, <3>3 DEF KInv
  <2>3. CASE ~PollEnds(c) /\ ~Complete(c)
    <3>1. /\ serving = c /\ pc[c] = "wait" /\ op = NoRequest /\ call[c] \in Arguments
          /\ HandlerFails(c) \/ HandlerSucceeds(c) \/ HandlerStarts(c)
      BY <1>6, <2>3, HandlerWays DEF Handler
    <3> QED BY <3>1, HandlerKnown
  <2> QED BY <2>1, <2>2, <2>3
<1>7. ASSUME NEW ok \in BOOLEAN, OperationEnds(ok) PROVE KInv'
  <2>1. /\ serving \in Clients /\ pc[serving] = "wait"
        /\ ctx' = [ctx EXCEPT ![serving] =
                     [done |-> TRUE, rc |-> IF ok THEN "ok" ELSE "refused", info |-> {}]]
        /\ op' = NoRequest /\ UNCHANGED <<callVars, spdk_pc, serving>>
        /\ ok => /\ ~Missing(store, Meant(call[serving]))
                 /\ store' \in Accepted(store, Meant(call[serving]))
        /\ ~ok => store' = store
    BY <1>7, OperationWays
  <2>2. (IF ok THEN "ok" ELSE "refused") \in {"ok", "missing", "invalid", "refused"}
    OBVIOUS
  <2>3. CallsKnown' /\ HandlersAnswer'
    BY <2>1, <2>2, AnsweredKnown
  <2>4. StoreSound(store')
    <3>1. CASE ok
      BY <2>1, <3>1, AcceptedSound DEF KInv
    <3>2. CASE ~ok
      BY <2>1, <3>2 DEF KInv
    <3> QED BY <3>1, <3>2
  <2> QED BY <2>1, <2>3, <2>4 DEF KInv, OperationIsMeant
<1>8. CASE DeviceEvent
  <2>1. StoreSound(store')
    BY <1>8, LostSound DEF DeviceEvent, KInv
  <2> QED BY <1>8, <2>1 DEF DeviceEvent, callVars, spdkVars, KInv, CallsKnown, HandlersAnswer,
          OperationIsMeant
<1>9. CASE UNCHANGED vars
  BY <1>9 DEF vars, callVars, spdkVars, KInv, CallsKnown, HandlersAnswer, OperationIsMeant
<1> QED BY <1>1, <1>2, <1>3, <1>4, <1>5, <1>6, <1>7, <1>8, <1>9 DEF Next, ClientStep

\* The request being carried out is the one its call asks for, every call has its
\* arguments, and every volume is in a pool that is there.
THEOREM InvariantHolds == Spec => [](Inv /\ KInv)
BY InitInv, NextInv, InitKnown, NextKnown, PTL DEF Spec

\* Calls, contexts, requests and results stay of their types, and the request taken
\* is the one being served.
THEOREM TypeCorrect == Spec => []TypeOK
<1>1. Inv /\ KInv => TypeOK
  <2> SUFFICES ASSUME Inv, KInv PROVE TypeOK
    OBVIOUS
  <2>1. {c \in Clients : req[c] = "taken"} = {serving} \ {Nobody}
    BY NobodyAssumption DEF Inv, TakenIsServed, ControlTypeOK
  <2> QED BY <2>1 DEF Inv, KInv, ControlTypeOK, CallsKnown, StoreSound, TypeOK
<1> QED BY <1>1, InvariantHolds, PTL

-----------------------------------------------------------------------------
(***************************************************************************)
(* The calls are atomic: a call takes effect when its handler or the       *)
(* callback of its operation stores the result in its context.             *)
(***************************************************************************)

\* The catalogue speaks of the same store.
LEMMA SameCatalogue ==
  ASSUME NEW s, NEW k
  PROVE  /\ Catalogue!Missing(s, k) <=> Missing(s, k)
         /\ Catalogue!Accepted(s, k) = Accepted(s, k)
         /\ Catalogue!Told(s, k) = Told(s, k)
         /\ Catalogue!Pulled(s) = Pulled(s)
         /\ Catalogue!Dropped(s) = Dropped(s)
         /\ Catalogue!NoPools = NoPools
BY DEF Catalogue!Missing, Missing, Catalogue!Lookup, Lookup, Catalogue!OnPool, OnPool,
   Catalogue!OnVolume, OnVolume, Catalogue!Accepted, Accepted, Catalogue!Without, Without,
   Catalogue!Added, Added, Catalogue!Copy, Copy, Catalogue!Told, Told, Catalogue!Pulled,
   Pulled, Catalogue!Dropped, Dropped, Catalogue!NoPools, NoPools

\* What a call in each place has asked and been answered.
LEMMA AskedAnswer ==
  ASSUME NEW c \in Clients
  PROVE  /\ Asked[c] = IF pc[c] = "idle" THEN NoRequest ELSE Meant(call[c])
         /\ Answer[c] = IF pc[c] = "returned" THEN [code |-> outcome[c], told |-> ctx[c].info]
                        ELSE IF pc[c] = "wait" /\ ctx[c].done
                        THEN [code |-> ctx[c].rc, told |-> ctx[c].info]
                        ELSE [code |-> "pending", told |-> {}]
BY DEF Asked, Answer

\* A result that is put into the context of a call is its answer.
LEMMA AnsweredStep ==
  ASSUME Inv, KInv, NEW c \in Clients, pc[c] = "wait", ctx[c].done = FALSE,
         NEW r, NEW i, ctx' = [ctx EXCEPT ![c] = [done |-> TRUE, rc |-> r, info |-> i]],
         UNCHANGED <<pc, call, outcome>>
  PROVE  /\ Asked' = Asked /\ Asked[c] = Meant(call[c]) /\ Asked[c] # NoRequest
         /\ Answer[c] = Catalogue!Pending
         /\ Answer' = [Answer EXCEPT ![c] = [code |-> r, told |-> i]]
<1>1. DOMAIN ctx = Clients /\ call[c] \in Arguments
  BY DEF Inv, ControlTypeOK, KInv, CallsKnown
<1>2. Asked' = Asked /\ Asked[c] = Meant(call[c]) /\ Asked[c] # NoRequest
  BY <1>1, RequestAssumption DEF Asked
<1>3. Answer[c] = Catalogue!Pending
  BY DEF Answer, Catalogue!Pending
<1>4. Answer'[c] = [code |-> r, told |-> i]
  BY <1>1 DEF Answer
<1>5. \A x \in Clients \ {c} : Answer'[x] = Answer[x]
  BY <1>1 DEF Answer
<1>6. /\ Answer = [x \in Clients |-> Answer[x]]
      /\ Answer' = [x \in Clients |-> Answer'[x]]
  BY DEF Answer
<1>7. Answer' = [Answer EXCEPT ![c] = [code |-> r, told |-> i]]
  BY <1>4, <1>5, <1>6
<1> QED BY <1>2, <1>3, <1>7

\* What a call has asked and been answered stays when only its request moves on.
LEMMA QuietStep ==
  ASSUME UNCHANGED <<pc, call, ctx, outcome>>
  PROVE  Asked' = Asked /\ Answer' = Answer
BY DEF Asked, Answer

\* The step at which a call succeeds, and the step at which it fails.
LEMMA SucceedStep ==
  ASSUME Inv, KInv, NEW c \in Clients, pc[c] = "wait", ctx[c].done = FALSE,
         Meant(call[c]).valid = TRUE, ~Missing(store, Meant(call[c])),
         store' \in Accepted(store, Meant(call[c])),
         ctx' = [ctx EXCEPT ![c] =
                   [done |-> TRUE, rc |-> "ok", info |-> Told(store, Meant(call[c]))]],
         UNCHANGED <<pc, call, outcome>>
  PROVE  Catalogue!Next
<1>1. /\ Asked' = Asked /\ Asked[c] = Meant(call[c]) /\ Asked[c] # NoRequest
      /\ Answer[c] = Catalogue!Pending
      /\ Answer' = [Answer EXCEPT ![c] = [code |-> "ok", told |-> Told(store, Meant(call[c]))]]
  BY AnsweredStep
<1>2. Catalogue!Succeed(c)
  BY <1>1, SameCatalogue DEF Catalogue!Succeed, Catalogue!Answered
<1> QED BY <1>2 DEF Catalogue!Next

LEMMA FailStep ==
  ASSUME Inv, KInv, NEW c \in Clients, pc[c] = "wait", ctx[c].done = FALSE,
         NEW code \in {"invalid", "missing", "refused"},
         code = "invalid" => Meant(call[c]).valid = FALSE,
         code = "missing" => Missing(store, Meant(call[c])),
         ctx' = [ctx EXCEPT ![c] = [done |-> TRUE, rc |-> code, info |-> {}]],
         UNCHANGED <<store, pc, call, outcome>>
  PROVE  Catalogue!Next
<1>1. /\ Asked' = Asked /\ Asked[c] = Meant(call[c]) /\ Asked[c] # NoRequest
      /\ Answer[c] = Catalogue!Pending
      /\ Answer' = [Answer EXCEPT ![c] = [code |-> code, told |-> {}]]
  BY AnsweredStep
<1>2. Catalogue!Fail(c, code)
  BY <1>1, SameCatalogue DEF Catalogue!Fail, Catalogue!Answered
<1> QED BY <1>2 DEF Catalogue!Next

\* A call begins: it asks.
LEMMA EnterStep ==
  ASSUME Inv, KInv, NEW c \in Clients, NEW o, Enter(c, o)
  PROVE  Catalogue!Next
<1>1. PICK k \in Arguments : call' = [call EXCEPT ![c] = k]
  BY DEF Enter
<1>2. /\ DOMAIN ctx = Clients /\ pc \in [Clients -> {"idle", "request", "wait", "returned"}]
      /\ call \in [Clients -> Arguments \cup {NoRequest}]
  BY DEF Inv, ControlTypeOK, KInv, CallsKnown
<1>3. Asked[c] = NoRequest
  BY DEF Enter, Asked
<1>4. Asked' = [Asked EXCEPT ![c] = Meant(k)]
  <2>1. Asked'[c] = Meant(k)
    BY <1>1, <1>2 DEF Enter, Asked
  <2>2. \A x \in Clients \ {c} : Asked'[x] = Asked[x]
    BY <1>1, <1>2 DEF Enter, Asked
  <2>3. /\ Asked = [x \in Clients |-> Asked[x]]
        /\ Asked' = [x \in Clients |-> Asked'[x]]
    BY DEF Asked
  <2> QED BY <2>1, <2>2, <2>3
<1>5. Answer' = Answer
  BY <1>2 DEF Enter, Answer, Fresh
<1>6. Catalogue!Ask(c, Meant(k))
  BY <1>3, <1>4, <1>5 DEF Catalogue!Ask, Enter
<1> QED BY <1>6 DEF Catalogue!Next

\* A request that finds room changes nothing yet; one that finds none is an answer.
LEMMA SubmitStep ==
  ASSUME Inv, KInv, NEW c \in Clients, Submit(c)
  PROVE  Catalogue!Next \/ UNCHANGED <<store, Asked, Answer>>
<1>1. /\ pc \in [Clients -> {"idle", "request", "wait", "returned"}]
      /\ outcome \in [Clients -> {"ok", "missing", "invalid", "refused", "busy"}]
      /\ ctx[c] = Fresh /\ call[c] \in Arguments /\ pc[c] = "request"
  BY DEF Submit, Inv, ControlTypeOK, KInv, CallsKnown
<1>2. Asked' = Asked
  BY <1>1 DEF Submit, Asked
<1>3. CASE pc' = [pc EXCEPT ![c] = "wait"] /\ UNCHANGED outcome
  BY <1>1, <1>2, <1>3 DEF Submit, Answer, Fresh
<1>4. CASE pc' = [pc EXCEPT ![c] = "returned"] /\ outcome' = [outcome EXCEPT ![c] = "busy"]
  <2>1. Asked[c] # NoRequest
    BY <1>1, RequestAssumption DEF Asked
  <2>2. Answer[c] = Catalogue!Pending
    BY <1>1 DEF Answer, Catalogue!Pending
  <2>3. Answer'[c] = [code |-> "busy", told |-> {}]
    <3>1. pc'[c] = "returned" /\ outcome'[c] = "busy" /\ ctx'[c].info = {}
      BY <1>1, <1>4 DEF Submit, Fresh
    <3>2. Answer'[c] = [code |-> outcome'[c], told |-> ctx'[c].info]
      BY <3>1 DEF Answer
    <3> QED BY <3>1, <3>2
  <2>4. \A x \in Clients \ {c} : Answer'[x] = Answer[x]
    BY <1>1, <1>4 DEF Submit, Answer
  <2>5. /\ Answer = [x \in Clients |-> Answer[x]]
        /\ Answer' = [x \in Clients |-> Answer'[x]]
    BY DEF Answer
  <2>6. Answer' = [Answer EXCEPT ![c] = [code |-> "busy", told |-> {}]]
    BY <2>3, <2>4, <2>5
  <2>7. Catalogue!Fail(c, "busy")
    BY <1>2, <2>1, <2>2, <2>6 DEF Catalogue!Fail, Catalogue!Answered, Submit
  <2> QED BY <2>7 DEF Catalogue!Next
<1> QED BY <1>3, <1>4 DEF Submit

\* The call returns what its context says: the answer it had already.
LEMMA ReturnStep ==
  ASSUME Inv, KInv, NEW c \in Clients, Return(c)
  PROVE  UNCHANGED <<store, Asked, Answer>>
<1>1. /\ pc \in [Clients -> {"idle", "request", "wait", "returned"}]
      /\ outcome \in [Clients -> {"ok", "missing", "invalid", "refused", "busy"}]
      /\ ctx[c].done = TRUE
  BY DEF Return, Inv, ControlTypeOK, KInv, CallsKnown
<1> QED BY <1>1 DEF Return, Asked, Answer

\* The application has its answer: the call is over.
LEMMA LeaveStep ==
  ASSUME Inv, KInv, NEW c \in Clients, Leave(c)
  PROVE  Catalogue!Next
<1>1. /\ DOMAIN ctx = Clients /\ pc \in [Clients -> {"idle", "request", "wait", "returned"}]
      /\ call \in [Clients -> Arguments \cup {NoRequest}]
      /\ outcome \in [Clients -> {"ok", "missing", "invalid", "refused", "busy"}]
      /\ call[c] \in Arguments /\ pc[c] = "returned"
  BY DEF Leave, Inv, ControlTypeOK, KInv, CallsKnown
<1>2. Asked[c] # NoRequest
  BY <1>1, RequestAssumption DEF Asked
<1>3. Answer[c] # Catalogue!Pending
  BY <1>1 DEF Answer, Catalogue!Pending
<1>4. /\ Asked'[c] = NoRequest
      /\ Answer'[c] = Catalogue!Pending
      /\ \A x \in Clients \ {c} : Asked'[x] = Asked[x] /\ Answer'[x] = Answer[x]
  BY <1>1 DEF Leave, Asked, Answer, Catalogue!Pending
<1>5. /\ Asked = [x \in Clients |-> Asked[x]] /\ Asked' = [x \in Clients |-> Asked'[x]]
      /\ Answer = [x \in Clients |-> Answer[x]] /\ Answer' = [x \in Clients |-> Answer'[x]]
  BY DEF Asked, Answer
<1>6. /\ Asked' = [Asked EXCEPT ![c] = NoRequest]
      /\ Answer' = [Answer EXCEPT ![c] = Catalogue!Pending]
  BY <1>4, <1>5
<1>7. Catalogue!Return(c)
  BY <1>2, <1>3, <1>6 DEF Catalogue!Return, Leave
<1> QED BY <1>7 DEF Catalogue!Next

\* Every step is a step of the catalogue or none.
LEMMA CatalogueStep ==
  Inv /\ KInv /\ [Next]_vars => [Catalogue!Next]_(Catalogue!catalogueVars)
<1> SUFFICES ASSUME Inv, KInv, [Next]_vars
             PROVE  Catalogue!Next \/ UNCHANGED <<store, Asked, Answer>>
  BY DEF Catalogue!catalogueVars
<1>1. ASSUME NEW c \in Clients, Start(c) PROVE Catalogue!Next
  BY <1>1, EnterStep DEF Start, CreatePool, DestroyPool, Create, Destroy, Snapshot, Clone,
     Resize, GetInfo, GetPoolInfo, Rename, RemoveDevice
<1>2. ASSUME NEW c \in Clients, Submit(c) \/ Return(c) \/ Leave(c)
      PROVE  Catalogue!Next \/ UNCHANGED <<store, Asked, Answer>>
  BY <1>2, SubmitStep, ReturnStep, LeaveStep
<1>3. ASSUME NEW c \in Clients, Take(c) \/ PollEnds(c) \/ Complete(c)
      PROVE  UNCHANGED <<store, Asked, Answer>>
  BY <1>3, QuietStep DEF Take, PollEnds, Complete, callVars
<1>4. ASSUME NEW c \in Clients, Handler(c), ~PollEnds(c), ~Complete(c)
      PROVE  Catalogue!Next \/ UNCHANGED <<store, Asked, Answer>>
  <2>1. /\ pc[c] = "wait" /\ ctx[c].done = FALSE
        /\ HandlerFails(c) \/ HandlerSucceeds(c) \/ HandlerStarts(c)
    BY <1>4, HandlerWays DEF Handler
  <2>2. CASE HandlerFails(c)
    <3>1. PICK code \in {"invalid", "missing", "refused"} :
            /\ Ends(c, code, {})
            /\ code = "invalid" => Meant(call[c]).valid = FALSE
            /\ code = "missing" => Missing(store, Meant(call[c]))
      BY <2>2 DEF HandlerFails
    <3> QED BY <2>1, <3>1, FailStep DEF Ends, callVars
  <2>3. CASE HandlerSucceeds(c)
    BY <2>1, <2>3, SucceedStep DEF HandlerSucceeds, callVars
  <2>4. CASE HandlerStarts(c)
    BY <2>4, QuietStep DEF HandlerStarts, Starts, callVars
  <2> QED BY <2>1, <2>2, <2>3, <2>4
<1>5. ASSUME NEW ok \in BOOLEAN, OperationEnds(ok) PROVE Catalogue!Next
  <2>1. CASE ok
    BY <1>5, <2>1, OperationWays, SucceedStep DEF callVars
  <2>2. CASE ~ok
    BY <1>5, <2>2, OperationWays, FailStep DEF callVars
  <2> QED BY <2>1, <2>2
<1>6. CASE DeviceEvent
  <2>1. Asked' = Asked /\ Answer' = Answer
    BY <1>6, QuietStep DEF DeviceEvent, callVars
  <2>2. Catalogue!Lose
    BY <1>6, <2>1, SameCatalogue DEF DeviceEvent, Catalogue!Lose
  <2> QED BY <2>2 DEF Catalogue!Next
<1>7. CASE UNCHANGED vars
  BY <1>7, QuietStep DEF vars, callVars
<1> QED BY <1>1, <1>2, <1>3, <1>4, <1>5, <1>6, <1>7 DEF Next, ClientStep

\* Each call takes effect at one moment between its start and its return, completely
\* or not at all, and returns what says which: whatever the devices, the names and
\* the requests, and however the calls of the threads, the handlers that poll, the
\* failures of SPDK and the losses of devices interleave.
THEOREM CallsTakeEffectAtomically == Spec => CallsAreAtomic
<1>1. Init => Catalogue!Init
  BY SameCatalogue DEF Init, Catalogue!Init, Asked, Answer, Catalogue!Pending
<1>2. QED
  BY <1>1, InvariantHolds, CatalogueStep, PTL DEF Spec, CallsAreAtomic, Catalogue!Spec
=============================================================================
