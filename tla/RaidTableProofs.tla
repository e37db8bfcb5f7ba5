--------------------------- MODULE RaidTableProofs ---------------------------
(***************************************************************************)
(* Theorems about RaidTable, for every number of clients, arrays, disks    *)
(* and records: a thread works on the array it looked up, no two records   *)
(* have one name, the table tells the truth about SPDK, and the counters   *)
(* of failed disks agree with the disks.                                   *)
(*                                                                         *)
(* CInv says where the threads may be and which mutexes they hold there;   *)
(* DInv says what that makes true of the records.  A handler that creates  *)
(* keeps, from SPDK's answer on, that no other record has its name; a      *)
(* thread keeps the name of the record it found until it has its lock.     *)
(***************************************************************************)
EXTENDS RaidTable, FiniteSetTheorems, WellFoundedInduction, TLAPS

-----------------------------------------------------------------------------
(***************************************************************************)
(* Where the threads are, and which mutexes they hold.                     *)
(***************************************************************************)
ControlTypes ==
  /\ ready \in BOOLEAN
  /\ md_mutex \in Actors \cup {Nobody}
  /\ dev_lock \in [Records -> Actors \cup {Nobody}]
  /\ pc \in [Actors -> Locations]
  /\ call \in [Clients -> AllCalls \cup {NoCall}]
  /\ at \in [Actors -> Records]
  /\ serving \in Clients \cup {Nobody}

\* Nothing goes on before the table is set up.
Quiet == ~ready => \A a \in Actors : pc[a] = "idle"

\* A client runs the functions of its own thread, and hands the other calls in.
ClientAt(c) ==
  /\ pc[c] \in {"idle", "check", "queued", "waiting", "table", "find", "look", "lock", "body"}
  /\ pc[c] # "idle" => call[c] \in AllCalls
  /\ pc[c] = "check" => call[c].op \in Creates
  /\ pc[c] \in {"queued", "waiting"} => call[c].op \notin OnCallersThread
  /\ pc[c] \in {"table", "find", "look", "lock", "body"} => call[c].op \in OnCallersThread
  /\ pc[c] \in {"find", "lock", "body"} => call[c].op \notin LookOnly

\* The SPDK thread handles the call of a client that waits.
SpdkAt ==
  /\ pc[Spdk] \in {"idle", "make", "table", "find", "walk", "member", "lock", "body", "undo"}
  /\ pc[Spdk] # "idle" => serving \in Clients /\ pc[serving] = "waiting"
  /\ pc[Spdk] \in {"make", "undo"} => call[serving].op \in Creates
  /\ pc[Spdk] \in {"walk", "member"} => call[serving].op = "examine"
  /\ pc[Spdk] \in {"find", "lock", "body"} => call[serving].op # "examine"

\* Where a thread has the mutex of the table, and where that of its record.
HoldsTable(a) ==
  \/ pc[a] \in {"find", "look", "walk", "member", "lock"}
  \/ pc[a] = "body" /\ CallOf(a).op \in Creates
TableHeld(a)  == HoldsTable(a) => md_mutex = a
RecordHeld(a) == pc[a] \in {"body", "member"} => dev_lock[at[a]] = a

CInv ==
  /\ ControlTypes
  /\ Quiet
  /\ SpdkAt
  /\ \A c \in Clients : ClientAt(c)
  /\ \A a \in Actors : TableHeld(a) /\ RecordHeld(a)

\* What the arguments of a call are.
LEMMA CallTypes ==
  ASSUME NEW r \in AllCalls
  PROVE  /\ r.op \in Creates => r.name \in Names /\ r.disks \in [Positions -> Disks]
         /\ r.op \notin {"examine", "list"} => r.name \in Names
         /\ r.op \in {"add spare", "remove spare", "set faulty", "set normal"} => r.disk \in Disks
         /\ r.op = "fail disk" => r.position \in Positions
         /\ r.op = "replace disk" => r.old \in Disks /\ r.new \in Disks /\ r.auto \in BOOLEAN
         /\ r.op = "update progress" => r.progress \in 0 .. Full
<1> DEFINE
      Made      == [op : {"create", "assemble"}, name : Names, disks : [Positions -> Disks]]
      Named     == [op : {"stop", "rebuild", "start rebuild", "stop rebuild", "get progress",
                          "detail", "run"}, name : Names]
      Examined  == [op : {"examine"}, disk : Disks]
      Listed    == [op : {"list"}]
      WithDisk  == [op : {"add spare", "remove spare", "set faulty", "set normal"},
                    name : Names, disk : Disks]
      Failing   == [op : {"fail disk"}, name : Names, position : Positions]
      Replacing == [op : {"replace disk"}, name : Names, old : Disks, new : Disks,
                    auto : BOOLEAN]
      Rebuilt   == [op : {"update progress"}, name : Names, progress : 0 .. Full]
      Right ==
         /\ r.op \in {"create", "assemble"} => r.name \in Names /\ r.disks \in [Positions -> Disks]
         /\ r.op \notin {"examine", "list"} => r.name \in Names
         /\ r.op \in {"add spare", "remove spare", "set faulty", "set normal"} => r.disk \in Disks
         /\ r.op = "fail disk" => r.position \in Positions
         /\ r.op = "replace disk" => r.old \in Disks /\ r.new \in Disks /\ r.auto \in BOOLEAN
         /\ r.op = "update progress" => r.progress \in 0 .. Full
<1>1. \/ r \in Made \/ r \in Named \/ r \in Examined \/ r \in Listed
      \/ r \in WithDisk \/ r \in Failing \/ r \in Replacing \/ r \in Rebuilt
  <2>1. r \in Made \cup Named \cup Examined \cup Listed \cup WithDisk \cup Failing
                \cup Replacing \cup Rebuilt
    BY DEF AllCalls
  <2> HIDE DEF Made, Named, Examined, Listed, WithDisk, Failing, Replacing, Rebuilt
  <2> QED BY <2>1
<1>2. r \in Made => Right
  OBVIOUS
<1>3. r \in Named => Right
  OBVIOUS
<1>4. r \in Examined \/ r \in Listed => Right
  OBVIOUS
<1>5. r \in WithDisk => Right
  OBVIOUS
<1>6. r \in Failing => Right
  OBVIOUS
<1>7. r \in Replacing => Right
  OBVIOUS
<1>8. r \in Rebuilt => Right
  OBVIOUS
<1>9. Right
  <2> HIDE DEF Made, Named, Examined, Listed, WithDisk, Failing, Replacing, Rebuilt, Right
  <2> QED BY <1>1, <1>2, <1>3, <1>4, <1>5, <1>6, <1>7, <1>8
<1> QED BY <1>9 DEF Creates

\* Every non-empty set of records, and of positions, has a first member.
LEMMA FirstIsMember ==
  ASSUME NEW S \in SUBSET Nat, S # {}
  PROVE  First(S) \in S
<1>1. IsWellFoundedOn(OpToRel(<, Nat), Nat)
  BY NatLessThanWellFounded
<1> DEFINE R == {ss \in Nat \X Nat : ss[1] < ss[2]}
<1>2. IsWellFoundedOn(R, Nat)
  BY <1>1 DEF OpToRel
<1> HIDE DEF R
<1>3. PICK x \in S : \A y \in S : <<y, x>> \notin R
  BY <1>2, WFMin
<1>4. \A y \in S : <<y, x>> \in Nat \X Nat /\ (<<y, x>> \in R <=> y < x)
  BY DEF R
<1>5. \A y \in S : ~(y < x) /\ y \in Nat /\ x \in Nat
  BY <1>3, <1>4
<1>6. \A y \in S : x <= y
  BY <1>5
<1> QED BY <1>6 DEF First

LEMMA Numbers ==
  /\ Records \subseteq Nat /\ Positions \subseteq Nat /\ 1 \in Records
  /\ \A i \in Records : i < MaxRaids => i + 1 \in Records
  /\ Spdk \in Actors /\ Clients \subseteq Actors /\ Spdk \notin Clients
  /\ Nobody \notin Actors /\ Nobody \notin Clients
BY SizesAssumption, NullAssumption DEF Records, Positions, Actors

LEMMA InitCInv == Init => CInv
<1> SUFFICES ASSUME Init PROVE CInv
  OBVIOUS
<1>1. ControlTypes
  BY Numbers DEF Init, ControlTypes, Locations
<1>2. \A a \in Actors : pc[a] = "idle"
  BY DEF Init
<1> QED BY <1>1, <1>2, Numbers
        DEF CInv, Quiet, SpdkAt, ClientAt, TableHeld, HoldsTable, RecordHeld

\* What a step of thread a may do to the mutexes: take one that is free, give back its
\* own.
MutexStep(a) ==
  /\ \/ md_mutex' = md_mutex
     \/ md_mutex = Nobody /\ md_mutex' = a
     \/ md_mutex = a /\ md_mutex' = Nobody
  /\ \/ dev_lock' = dev_lock
     \/ \E i \in Records :
          \/ dev_lock[i] = Nobody /\ dev_lock' = [dev_lock EXCEPT ![i] = a]
          \/ dev_lock[i] = a /\ dev_lock' = [dev_lock EXCEPT ![i] = Nobody]

\* Such a step leaves the mutexes of the others alone.
LEMMA MutexFrame ==
  ASSUME ControlTypes, NEW a \in Actors, MutexStep(a), NEW b \in Actors \ {a},
         TableHeld(b), RecordHeld(b), pc'[b] = pc[b], at'[b] = at[b],
         pc[b] = "body" => CallOf(b)' = CallOf(b)
  PROVE  TableHeld(b)' /\ RecordHeld(b)'
<1>1. TableHeld(b)'
  <2>1. HoldsTable(b)' => HoldsTable(b)
    BY DEF HoldsTable
  <2>2. md_mutex = b => md_mutex' = b
    BY Numbers DEF MutexStep
  <2> QED BY <2>1, <2>2 DEF TableHeld
<1>2. RecordHeld(b)'
  <2>1. at[b] \in Records
    BY DEF ControlTypes
  <2>2. dev_lock[at[b]] = b => dev_lock'[at[b]] = b
    BY <2>1, Numbers DEF MutexStep, ControlTypes
  <2> QED BY <2>2 DEF RecordHeld
<1> QED BY <1>1, <1>2

LEMMA MutexTypes ==
  ASSUME ControlTypes, NEW a \in Actors, MutexStep(a)
  PROVE  md_mutex' \in Actors \cup {Nobody} /\ dev_lock' \in [Records -> Actors \cup {Nobody}]
BY DEF ControlTypes, MutexStep

\* A thread moves on in its call.
LEMMA MoveCInv ==
  ASSUME CInv, NEW a \in Actors, pc[a] # "idle",
         UNCHANGED <<ready, call, serving>>, MutexStep(a),
         NEW l \in Locations, pc' = [pc EXCEPT ![a] = l],
         NEW k \in Records, at' = [at EXCEPT ![a] = k],
         a \in Clients => pc[a] # "waiting" /\ ClientAt(a)',
         a = Spdk => SpdkAt',
         TableHeld(a)', RecordHeld(a)'
  PROVE  CInv'
<1>1. /\ ControlTypes /\ Quiet /\ SpdkAt /\ \A c \in Clients : ClientAt(c)
      /\ \A b \in Actors : TableHeld(b) /\ RecordHeld(b)
  BY DEF CInv
<1>2. \A b \in Actors \ {a} : pc'[b] = pc[b] /\ at'[b] = at[b]
  BY <1>1 DEF ControlTypes
<1>3. \A b \in Actors : CallOf(b)' = CallOf(b)
  BY DEF CallOf
<1>4. ControlTypes'
  BY <1>1, MutexTypes DEF ControlTypes
<1>5. Quiet'
  BY <1>1 DEF Quiet
<1>6. \A b \in Actors : TableHeld(b)' /\ RecordHeld(b)'
  BY <1>1, <1>2, <1>3, MutexFrame
<1>7. \A c \in Clients : ClientAt(c)'
  BY <1>1, <1>2, Numbers DEF ClientAt
<1>8. SpdkAt'
  <2>1. CASE a \in Clients
    <3>1. pc'[Spdk] = pc[Spdk] /\ (pc[Spdk] # "idle" => serving # a)
      BY <2>1, <1>1, <1>2, Numbers DEF SpdkAt
    <3> QED BY <3>1, <1>1, <1>2, Numbers DEF SpdkAt
  <2> QED BY <2>1 DEF Actors
<1> QED BY <1>4, <1>5, <1>6, <1>7, <1>8 DEF CInv

\* A call ends.
LEMMA FinishedCInv ==
  ASSUME CInv, NEW a \in Actors, pc[a] \notin {"idle", "waiting"}, Finished(a),
         UNCHANGED <<ready, at>>, MutexStep(a)
  PROVE  CInv'
<1> DEFINE c == IF a = Spdk THEN serving ELSE a
<1>1. /\ ControlTypes /\ Quiet /\ SpdkAt /\ \A d \in Clients : ClientAt(d)
      /\ \A b \in Actors : TableHeld(b) /\ RecordHeld(b)
  BY DEF CInv
<1>2. c \in Clients /\ (a = Spdk => pc[c] = "waiting")
  BY <1>1, Numbers DEF SpdkAt, Actors
<1>3. /\ pc' = [pc EXCEPT ![a] = "idle", ![c] = "idle"]
      /\ call' = [call EXCEPT ![c] = NoCall]
      /\ serving' = IF a = Spdk THEN Nobody ELSE serving
  BY DEF Finished
<1> HIDE DEF c
<1>4. /\ pc'[a] = "idle" /\ pc'[c] = "idle"
      /\ \A b \in Actors \ {a, c} : pc'[b] = pc[b]
      /\ \A d \in Clients \ {c} : call'[d] = call[d]
  BY <1>1, <1>2, <1>3, Numbers DEF ControlTypes
<1>5. ControlTypes'
  <2>1. "idle" \in Locations /\ c \in Actors
    BY <1>2, Numbers DEF Locations
  <2>2. pc' \in [Actors -> Locations] /\ call' \in [Clients -> AllCalls \cup {NoCall}]
    BY <2>1, <1>1, <1>2, <1>3 DEF ControlTypes
  <2>3. serving' \in Clients \cup {Nobody}
    BY <1>1, <1>3 DEF ControlTypes
  <2> QED BY <2>2, <2>3, <1>1, MutexTypes DEF ControlTypes
<1>6. Quiet'
  BY <1>1 DEF Quiet
<1>7. \A d \in Clients : ClientAt(d)'
  BY <1>1, <1>2, <1>4, Numbers DEF ClientAt
<1>8. pc[Spdk] # "idle" /\ a # Spdk => serving # c /\ c = a
  BY <1>1, <1>2 DEF SpdkAt, c
<1>9. SpdkAt'
  <2>1. CASE a = Spdk
    BY <2>1, <1>4 DEF SpdkAt
  <2>2. CASE a # Spdk
    <3>1. pc'[Spdk] = pc[Spdk] /\ serving' = serving
      BY <2>2, <1>2, <1>3, <1>4, Numbers
    <3>2. pc[Spdk] # "idle" => pc'[serving] = pc[serving] /\ call'[serving] = call[serving]
      BY <2>2, <1>1, <1>4, <1>8, Numbers DEF SpdkAt
    <3> QED BY <3>1, <3>2, <1>1 DEF SpdkAt
  <2> QED BY <2>1, <2>2
<1>10. ASSUME NEW b \in Actors PROVE TableHeld(b)' /\ RecordHeld(b)'
  <2>1. CASE b = a \/ b = c
    BY <2>1, <1>4 DEF TableHeld, HoldsTable, RecordHeld
  <2>2. CASE b # a /\ b # c
    <3>1. pc'[b] = pc[b] /\ at'[b] = at[b]
      BY <2>2, <1>4
    <3>2. pc[b] = "body" => CallOf(b)' = CallOf(b)
      <4>1. CASE b = Spdk
        BY <4>1, <2>2, <1>1, <1>3, <1>4, <1>8 DEF CallOf, SpdkAt
      <4>2. CASE b # Spdk
        BY <4>2, <2>2, <1>4 DEF CallOf, Actors
      <4> QED BY <4>1, <4>2
    <3> QED BY <2>2, <3>1, <3>2, <1>1, MutexFrame
  <2> QED BY <2>1, <2>2
<1> QED BY <1>5, <1>6, <1>7, <1>9, <1>10 DEF CInv

\* What the call of a thread that is inside one may be.
LEMMA CallOfTypes ==
  ASSUME CInv, NEW a \in Actors, pc[a] # "idle"
  PROVE  /\ CallOf(a) \in AllCalls
         /\ a \in Clients => a # Spdk /\ ClientAt(a) /\ CallOf(a) = call[a]
         /\ a = Spdk => /\ CallOf(a) = call[serving] /\ call[serving].op \notin OnCallersThread
                       /\ serving \in Clients /\ pc[serving] = "waiting" /\ SpdkAt
         /\ ControlTypes /\ ready /\ at[a] \in Records
<1>1. /\ ControlTypes /\ Quiet /\ SpdkAt /\ \A c \in Clients : ClientAt(c)
  BY DEF CInv
<1>2. ready /\ at[a] \in Records
  BY <1>1 DEF Quiet, ControlTypes
<1>3. CASE a = Spdk
  <2>1. serving \in Clients /\ pc[serving] = "waiting" /\ ClientAt(serving)
    BY <1>1, <1>3 DEF SpdkAt
  <2> QED BY <2>1, <1>1, <1>2, <1>3, Numbers DEF CallOf, ClientAt
<1>4. CASE a # Spdk
  <2>1. a \in Clients
    BY <1>4 DEF Actors
  <2> QED BY <2>1, <1>1, <1>2, <1>4, Numbers DEF CallOf, ClientAt
<1> QED BY <1>3, <1>4

LEMMA WantedRecords ==
  ASSUME NEW a, Wanted(a) # {}
  PROVE  First(Wanted(a)) \in Wanted(a) /\ First(Wanted(a)) \in Records
<1>1. Wanted(a) \in SUBSET Records
  BY DEF Wanted, Active
<1>2. Wanted(a) \in SUBSET Nat
  BY <1>1, Numbers
<1>3. First(Wanted(a)) \in Wanted(a)
  BY <1>2, FirstIsMember
<1> QED BY <1>1, <1>3

\* Finding and locking a record.
LEMMA FindingCInv ==
  ASSUME CInv, NEW a \in Actors,
         LockTable(a) \/ LookAtTable(a) \/ FindRecord(a) \/ NotFound(a) \/ LockRecord(a)
  PROVE  CInv'
<1>1. pc[a] \in {"table", "look", "find", "lock"}
  BY DEF LockTable, LookAtTable, FindRecord, NotFound, LockRecord
<1>2. /\ CallOf(a) \in AllCalls
      /\ a \in Clients => a # Spdk /\ ClientAt(a) /\ CallOf(a) = call[a]
      /\ a = Spdk => /\ CallOf(a) = call[serving] /\ call[serving].op \notin OnCallersThread
                    /\ serving \in Clients /\ pc[serving] = "waiting" /\ SpdkAt
      /\ ControlTypes /\ ready /\ at[a] \in Records
  BY <1>1, CallOfTypes
<1>3. /\ TableHeld(a) /\ RecordHeld(a) /\ a # Nobody
      /\ a \in Clients \/ a = Spdk
  BY Numbers DEF CInv, Actors
<1>4. CASE LockTable(a)
  <2> DEFINE l == CASE CallOf(a).op \in LookOnly -> "look"
                    [] CallOf(a).op = "examine"  -> "walk"
                    [] OTHER                     -> "find"
  <2>1. /\ pc[a] = "table" /\ md_mutex = Nobody /\ md_mutex' = a
        /\ at' = [at EXCEPT ![a] = 1] /\ pc' = [pc EXCEPT ![a] = l]
        /\ UNCHANGED <<ready, dev_lock, call, serving>>
    BY <1>4 DEF LockTable, tableVars
  <2>2. /\ l \in {"look", "walk", "find"} /\ l \in Locations
        /\ l = "look" <=> CallOf(a).op \in LookOnly
        /\ l = "walk" <=> CallOf(a).op = "examine"
    BY DEF LookOnly, Locations
  <2> HIDE DEF l
  <2>3. pc'[a] = l /\ at'[a] = 1 /\ \A b \in Actors \ {a} : pc'[b] = pc[b]
    BY <2>1, <1>2 DEF ControlTypes
  <2>4. a \in Clients => ClientAt(a)'
    BY <2>1, <2>2, <2>3, <1>2 DEF ClientAt, OnCallersThread, LookOnly
  <2>5. a = Spdk => SpdkAt'
    BY <2>1, <2>2, <2>3, <1>2, Numbers DEF SpdkAt, OnCallersThread
  <2>6. TableHeld(a)' /\ RecordHeld(a)'
    BY <2>1, <2>2, <2>3 DEF TableHeld, RecordHeld
  <2>7. a \in Clients => pc[a] # "waiting"
    BY <2>1
  <2> QED BY <2>1, <2>2, <2>4, <2>5, <2>6, <2>7, Numbers, MoveCInv DEF MutexStep
<1>5. CASE LookAtTable(a) \/ NotFound(a)
  <2>1. HoldsTable(a)
    BY <1>5 DEF LookAtTable, NotFound, HoldsTable
  <2>2. MutexStep(a) /\ Finished(a) /\ UNCHANGED <<ready, at>>
    BY <2>1, <1>3, <1>5 DEF LookAtTable, NotFound, TableHeld, MutexStep, tableVars, lockVars
  <2> QED BY <2>2, <1>1, FinishedCInv
<1>6. CASE FindRecord(a)
  <2> DEFINE k == First(Wanted(a))
  <2>1. /\ pc[a] = "find" /\ Wanted(a) # {}
        /\ at' = [at EXCEPT ![a] = k] /\ pc' = [pc EXCEPT ![a] = "lock"]
        /\ UNCHANGED <<ready, md_mutex, dev_lock, call, serving>>
    BY <1>6 DEF FindRecord, tableVars, lockVars
  <2>2. k \in Records /\ "lock" \in Locations
    BY <2>1, WantedRecords DEF Locations
  <2> HIDE DEF k
  <2>3. pc'[a] = "lock" /\ at'[a] = k /\ \A b \in Actors \ {a} : pc'[b] = pc[b]
    BY <2>1, <1>2 DEF ControlTypes
  <2>4. a \in Clients => ClientAt(a)' /\ pc[a] # "waiting"
    BY <2>1, <2>3, <1>2 DEF ClientAt
  <2>5. a = Spdk => SpdkAt'
    BY <2>1, <2>3, <1>2, Numbers DEF SpdkAt
  <2>6. TableHeld(a)' /\ RecordHeld(a)'
    BY <2>1, <2>3, <1>3 DEF TableHeld, RecordHeld, HoldsTable
  <2> QED BY <2>1, <2>2, <2>4, <2>5, <2>6, MoveCInv DEF MutexStep
<1>7. CASE LockRecord(a)
  <2>1. /\ pc[a] = "lock" /\ dev_lock[at[a]] = Nobody
        /\ dev_lock' = [dev_lock EXCEPT ![at[a]] = a]
        /\ md_mutex' = IF CallOf(a).op \in Creates THEN md_mutex ELSE Nobody
        /\ pc' = [pc EXCEPT ![a] = "body"]
        /\ UNCHANGED <<ready, call, serving, at>>
    BY <1>7 DEF LockRecord, tableVars
  <2>2. at' = [at EXCEPT ![a] = at[a]] /\ "body" \in Locations
    BY <2>1, <1>2 DEF ControlTypes, Locations
  <2>3. pc'[a] = "body" /\ \A b \in Actors \ {a} : pc'[b] = pc[b]
    BY <2>1, <1>2 DEF ControlTypes
  <2>4. a \in Clients => ClientAt(a)' /\ pc[a] # "waiting"
    BY <2>1, <2>3, <1>2 DEF ClientAt
  <2>5. a = Spdk => SpdkAt'
    BY <2>1, <2>3, <1>2, Numbers DEF SpdkAt
  <2>6. md_mutex = a
    BY <2>1, <1>3 DEF TableHeld, HoldsTable
  <2>7. dev_lock'[at[a]] = a
    BY <2>1, <1>2 DEF ControlTypes
  <2>8. TableHeld(a)' /\ RecordHeld(a)'
    BY <2>1, <2>3, <2>6, <2>7 DEF TableHeld, RecordHeld, HoldsTable, CallOf
  <2>9. MutexStep(a)
    BY <2>1, <2>6, <1>2 DEF MutexStep
  <2> QED BY <2>1, <2>2, <2>4, <2>5, <2>8, <2>9, <1>2, MoveCInv
<1> QED BY <1>4, <1>5, <1>6, <1>7

\* xbdev_md_examine walks over the records.
LEMMA WalkingCInv ==
  ASSUME CInv, WalkOn(Spdk) \/ LookForMember(Spdk)
  PROVE  CInv'
<1>1. pc[Spdk] \in {"walk", "member"} /\ Spdk \in Actors
  BY Numbers DEF WalkOn, LookForMember
<1>2. /\ serving \in Clients /\ pc[serving] = "waiting" /\ SpdkAt /\ ControlTypes
      /\ at[Spdk] \in Records /\ Spdk \notin Clients /\ Spdk # serving
      /\ TableHeld(Spdk) /\ RecordHeld(Spdk)
  BY <1>1, CallOfTypes, Numbers DEF CInv
<1>3. md_mutex = Spdk /\ call[serving].op = "examine"
  BY <1>1, <1>2 DEF TableHeld, HoldsTable, SpdkAt
<1> DEFINE i == at[Spdk]
           Free == dev_lock' = [dev_lock EXCEPT ![i] = Nobody]
\* The walk goes on: the lock of the record it was at is free again.
<1>4. ASSUME dev_lock' = dev_lock \/ (dev_lock[i] = Spdk /\ Free),
             NextRecord(Spdk), UNCHANGED ready,
             at[Spdk] < MaxRaids
      PROVE  CInv'
  <2>1. /\ at' = [at EXCEPT ![Spdk] = i + 1] /\ pc' = [pc EXCEPT ![Spdk] = "walk"]
        /\ UNCHANGED <<ready, md_mutex, call, serving>>
    BY <1>2, <1>4 DEF NextRecord
  <2>2. i + 1 \in Records /\ "walk" \in Locations
    BY <1>2, <1>4, Numbers DEF Locations
  <2>3. pc'[Spdk] = "walk" /\ pc'[serving] = "waiting"
    BY <2>1, <1>1, <1>2, Numbers DEF ControlTypes
  <2>4. SpdkAt'
    BY <2>1, <2>3, <1>2, <1>3 DEF SpdkAt
  <2>5. TableHeld(Spdk)' /\ RecordHeld(Spdk)'
    BY <2>1, <2>3, <1>3 DEF TableHeld, RecordHeld
  <2>6. MutexStep(Spdk)
    BY <2>1, <1>2, <1>4 DEF MutexStep
  <2> QED BY <2>1, <2>2, <2>4, <2>5, <2>6, <1>1, <1>2, MoveCInv
<1>5. ASSUME dev_lock' = dev_lock \/ (dev_lock[i] = Spdk /\ Free),
             md_mutex' = Nobody, Finished(Spdk), UNCHANGED <<ready, at>>
      PROVE  CInv'
  <2>1. MutexStep(Spdk)
    BY <1>2, <1>3, <1>5 DEF MutexStep
  <2> QED BY <2>1, <1>1, <1>5, FinishedCInv
<1>6. ASSUME dev_lock' = dev_lock \/ (dev_lock[i] = Spdk /\ Free),
             NextRecord(Spdk), UNCHANGED ready
      PROVE  CInv'
  BY <1>4, <1>5, <1>6 DEF NextRecord
<1>7. CASE WalkOn(Spdk)
  <2>1. CASE NextRecord(Spdk) /\ UNCHANGED dev_lock
    BY <2>1, <1>6, <1>7 DEF WalkOn, tableVars
  <2>2. CASE /\ dev_lock[at[Spdk]] = Nobody
             /\ dev_lock' = [dev_lock EXCEPT ![at[Spdk]] = Spdk]
             /\ pc' = [pc EXCEPT ![Spdk] = "member"]
             /\ UNCHANGED <<md_mutex, call, at, serving>>
    <3>1. at' = [at EXCEPT ![Spdk] = at[Spdk]] /\ "member" \in Locations
      BY <2>2, <1>2 DEF ControlTypes, Locations
    <3>2. pc'[Spdk] = "member" /\ pc'[serving] = "waiting" /\ dev_lock'[at[Spdk]] = Spdk
      BY <2>2, <1>1, <1>2, Numbers DEF ControlTypes
    <3>3. SpdkAt'
      BY <3>2, <2>2, <1>2, <1>3 DEF SpdkAt
    <3>4. TableHeld(Spdk)' /\ RecordHeld(Spdk)'
      BY <3>2, <2>2, <1>3 DEF TableHeld, RecordHeld
    <3>5. MutexStep(Spdk)
      BY <2>2, <1>2 DEF MutexStep
    <3>6. ready' = ready
      BY <1>7 DEF WalkOn, tableVars
    <3> QED BY <3>1, <3>3, <3>4, <3>5, <3>6, <2>2, <1>1, <1>2, MoveCInv
  <2> QED BY <2>1, <2>2, <1>7 DEF WalkOn
<1>8. CASE LookForMember(Spdk)
  <2>1. dev_lock[i] = Spdk /\ Free /\ ready' = ready
    BY <1>2, <1>8 DEF LookForMember, RecordHeld, tableVars
  <2>2. \/ md_mutex' = Nobody /\ Finished(Spdk) /\ UNCHANGED at
        \/ NextRecord(Spdk)
    BY <1>8 DEF LookForMember
  <2> QED BY <2>1, <2>2, <1>5, <1>6
<1> QED BY <1>7, <1>8

\* A record is written under its lock, and the call is over.
LEMMA WrittenCInv ==
  ASSUME CInv, NEW a \in Actors, pc[a] = "body", NEW rec, Written(a, rec)
  PROVE  CInv'
<1>1. ControlTypes /\ RecordHeld(a) /\ at[a] \in Records
  BY DEF CInv, ControlTypes
<1>2. dev_lock[at[a]] = a
  BY <1>1 DEF RecordHeld
<1>3. MutexStep(a) /\ Finished(a) /\ UNCHANGED <<ready, at>>
  BY <1>1, <1>2 DEF Written, MutexStep
<1> QED BY <1>3, FinishedCInv

\* The steps of the SPDK thread that create an array.
LEMMA CreatingCInv ==
  ASSUME CInv, MakeArray \/ FillRecord \/ FillFails \/ UndoFill \/ NoSuchDevice
  PROVE  CInv'
<1>1. pc[Spdk] \in {"make", "body", "undo", "table"} /\ Spdk \in Actors
  BY Numbers DEF MakeArray, FillRecord, FillFails, UndoFill, NoSuchDevice
<1>2. /\ serving \in Clients /\ pc[serving] = "waiting" /\ SpdkAt /\ ControlTypes
      /\ at[Spdk] \in Records /\ Spdk \notin Clients /\ Spdk # serving
      /\ call[serving] = CallOf(Spdk)
      /\ TableHeld(Spdk) /\ RecordHeld(Spdk)
  BY <1>1, CallOfTypes, Numbers DEF CInv
<1>3. CASE MakeArray
  <2>1. pc[Spdk] = "make" /\ UNCHANGED <<ready, md_mutex, dev_lock, at>>
    BY <1>3 DEF MakeArray, tableVars, lockVars
  <2>2. MutexStep(Spdk)
    BY <2>1 DEF MutexStep
  <2>3. CASE Finished(Spdk)
    BY <2>1, <2>2, <2>3, <1>1, FinishedCInv
  <2>4. CASE pc' = [pc EXCEPT ![Spdk] = "table"] /\ UNCHANGED <<call, serving>>
    <3>1. at' = [at EXCEPT ![Spdk] = at[Spdk]] /\ "table" \in Locations
      BY <2>1, <1>2 DEF ControlTypes, Locations
    <3>2. pc'[Spdk] = "table" /\ pc'[serving] = "waiting"
      BY <2>4, <1>1, <1>2, Numbers DEF ControlTypes
    <3>3. SpdkAt'
      BY <3>2, <2>4, <1>2 DEF SpdkAt
    <3>4. TableHeld(Spdk)' /\ RecordHeld(Spdk)'
      BY <3>2 DEF TableHeld, HoldsTable, RecordHeld
    <3> QED BY <3>1, <3>3, <3>4, <2>1, <2>2, <2>4, <1>1, <1>2, MoveCInv
  <2> QED BY <2>3, <2>4, <1>3 DEF MakeArray
<1>4. CASE FillRecord \/ FillFails
  <2>1. /\ pc[Spdk] = "body" /\ call[serving].op \in Creates
        /\ dev_lock' = [dev_lock EXCEPT ![at[Spdk]] = Nobody] /\ md_mutex' = Nobody
        /\ UNCHANGED <<ready, at>>
    BY <1>4 DEF FillRecord, FillFails
  <2>2. md_mutex = Spdk /\ dev_lock[at[Spdk]] = Spdk
    BY <2>1, <1>2 DEF TableHeld, HoldsTable, RecordHeld
  <2>3. MutexStep(Spdk)
    BY <2>1, <2>2, <1>2 DEF MutexStep
  <2>4. CASE FillRecord
    BY <2>1, <2>3, <2>4, <1>1, FinishedCInv DEF FillRecord
  <2>5. CASE FillFails
    <3>1. pc' = [pc EXCEPT ![Spdk] = "undo"] /\ UNCHANGED <<call, serving>>
      BY <2>5 DEF FillFails
    <3>2. at' = [at EXCEPT ![Spdk] = at[Spdk]] /\ "undo" \in Locations
      BY <2>1, <1>2 DEF ControlTypes, Locations
    <3>3. pc'[Spdk] = "undo" /\ pc'[serving] = "waiting"
      BY <3>1, <1>1, <1>2, Numbers DEF ControlTypes
    <3>4. SpdkAt'
      BY <3>1, <3>3, <2>1, <1>2 DEF SpdkAt
    <3>5. TableHeld(Spdk)' /\ RecordHeld(Spdk)'
      BY <3>3 DEF TableHeld, HoldsTable, RecordHeld
    <3> QED BY <3>1, <3>2, <3>4, <3>5, <2>1, <2>3, <1>1, <1>2, MoveCInv
  <2> QED BY <2>4, <2>5, <1>4
<1>5. CASE UndoFill \/ NoSuchDevice
  <2>1. /\ pc[Spdk] \in {"undo", "table"} /\ Finished(Spdk)
        /\ UNCHANGED <<ready, at, md_mutex, dev_lock>>
    BY <1>5 DEF UndoFill, NoSuchDevice, lockVars, tableVars
  <2> QED BY <2>1, <1>1, FinishedCInv DEF MutexStep
<1> QED BY <1>3, <1>4, <1>5

\* A client enters a call and checks the name of an array it is to create.
LEMMA EnteringCInv ==
  ASSUME CInv, NEW c \in Clients, EnterCall(c) \/ CheckName(c)
  PROVE  CInv'
<1>1. /\ ControlTypes /\ Quiet /\ SpdkAt /\ \A d \in Clients : ClientAt(d)
      /\ \A b \in Actors : TableHeld(b) /\ RecordHeld(b)
      /\ c \in Actors /\ c # Spdk /\ CallOf(c) = call[c]
  BY Numbers DEF CInv, CallOf
<1>2. /\ pc[c] \in {"idle", "check"} /\ ready
      /\ UNCHANGED <<ready, md_mutex, dev_lock, at, serving>>
      /\ call' = [call EXCEPT ![c] = call'[c]] /\ pc' = [pc EXCEPT ![c] = pc'[c]]
      /\ \/ pc'[c] = "idle" /\ call'[c] = NoCall
         \/ pc'[c] = "check" /\ call'[c] \in AllCalls /\ call'[c].op \in Creates
         \/ pc'[c] = "table" /\ call'[c] \in AllCalls /\ call'[c].op \in OnCallersThread
         \/ pc'[c] = "queued" /\ call'[c] \in AllCalls /\ call'[c].op \notin OnCallersThread
  <2>1. CASE EnterCall(c)
    <3> DEFINE Entered ==
           /\ pc[c] = "idle" /\ ready
           /\ UNCHANGED <<ready, md_mutex, dev_lock, at, serving>>
           /\ \E r \in Calls :
                /\ call' = [call EXCEPT ![c] = r]
                /\ pc' = [pc EXCEPT ![c] = CASE r.op \in Creates         -> "check"
                                             [] r.op \in OnCallersThread -> "table"
                                             [] OTHER                    -> "queued"]
    <3>1. ASSUME NEW ops, Enter(c, ops) PROVE Entered
      BY <3>1 DEF Enter, tableVars, lockVars
    <3>2. Entered
      <4> HIDE DEF Entered
      <4> QED BY <2>1, <3>1
              DEF EnterCall, MdCreate, MdAssemble, MdStop, MdRun, MdExamine, MdDetail, MdManage,
                  MdReplaceDisk, MdStartRebuild, MdStopRebuild, MdSetFaulty, MdSetNormal,
                  MdGetProgress, MdUpdateProgress, MdList
    <3>3. PICK r \in Calls :
             /\ call' = [call EXCEPT ![c] = r]
             /\ pc' = [pc EXCEPT ![c] = CASE r.op \in Creates         -> "check"
                                          [] r.op \in OnCallersThread -> "table"
                                          [] OTHER                    -> "queued"]
      BY <3>2, Zenon
    <3>4. r \in AllCalls /\ call'[c] = r
      BY <3>3, <1>1 DEF Calls, ControlTypes
    <3> DEFINE l == CASE r.op \in Creates         -> "check"
                      [] r.op \in OnCallersThread -> "table"
                      [] OTHER                    -> "queued"
    <3>5. \/ l = "check" /\ r.op \in Creates
          \/ l = "table" /\ r.op \in OnCallersThread
          \/ l = "queued" /\ r.op \notin OnCallersThread
      BY DEF Creates, OnCallersThread, LookOnly
    <3> HIDE DEF l
    <3>6. pc' = [pc EXCEPT ![c] = l] /\ pc'[c] = l
      BY <3>3, <1>1 DEF l, ControlTypes
    <3> QED BY <3>2, <3>3, <3>4, <3>5, <3>6
  <2>2. CASE CheckName(c)
    <3>1. /\ pc[c] = "check" /\ UNCHANGED <<ready, md_mutex, dev_lock, at, serving>>
          /\ \/ pc' = [pc EXCEPT ![c] = "queued"] /\ call' = call
             \/ pc' = [pc EXCEPT ![c] = "idle"] /\ call' = [call EXCEPT ![c] = NoCall]
      BY <2>2 DEF CheckName, tableVars, lockVars
    <3>2. ready /\ call[c] \in AllCalls /\ call[c].op \in Creates
      BY <3>1, <1>1 DEF Quiet, ClientAt
    <3>3. call[c].op \notin OnCallersThread
      BY <3>2 DEF Creates, OnCallersThread, LookOnly
    <3> QED BY <3>1, <3>2, <3>3, <1>1 DEF ControlTypes
  <2> QED BY <2>1, <2>2
<1>3. \A b \in Actors \ {c} : pc'[b] = pc[b] /\ (b \in Clients => call'[b] = call[b])
  BY <1>1, <1>2 DEF ControlTypes
<1>4. ControlTypes'
  <2>1. pc'[c] \in Locations /\ call'[c] \in AllCalls \cup {NoCall}
    BY <1>2 DEF Locations
  <2>2. pc' \in [Actors -> Locations]
    BY <2>1, <1>1, <1>2 DEF ControlTypes
  <2>3. call' \in [Clients -> AllCalls \cup {NoCall}]
    BY <2>1, <1>1, <1>2 DEF ControlTypes
  <2> QED BY <2>2, <2>3, <1>1, <1>2 DEF ControlTypes
<1>5. Quiet'
  BY <1>2 DEF Quiet
<1>6. \A d \in Clients : ClientAt(d)'
  <2>1. ClientAt(c)'
    BY <1>2 DEF ClientAt
  <2>2. \A d \in Clients \ {c} : ClientAt(d)'
    BY <1>1, <1>3, Numbers DEF ClientAt
  <2> QED BY <2>1, <2>2
<1>7. pc[Spdk] # "idle" => serving # c /\ serving \in Clients
  BY <1>1, <1>2 DEF SpdkAt
<1>8. pc'[Spdk] = pc[Spdk] /\ (pc[Spdk] # "idle" => pc'[serving] = pc[serving]
                                                 /\ call'[serving] = call[serving])
  BY <1>1, <1>3, <1>7, Numbers
<1>9. SpdkAt'
  BY <1>1, <1>2, <1>8 DEF SpdkAt
<1>10. ASSUME NEW b \in Actors PROVE TableHeld(b)' /\ RecordHeld(b)'
  <2>1. CASE b = c
    BY <2>1, <1>2 DEF TableHeld, HoldsTable, RecordHeld
  <2>2. CASE b # c
    <3>1. pc[b] = "body" => CallOf(b)' = CallOf(b)
      BY <2>2, <1>2, <1>3, <1>8 DEF CallOf, Actors
    <3>2. MutexStep(c)
      BY <1>2 DEF MutexStep
    <3> QED BY <2>2, <3>1, <3>2, <1>1, <1>2, <1>3, MutexFrame
  <2> QED BY <2>1, <2>2
<1> QED BY <1>4, <1>5, <1>6, <1>9, <1>10 DEF CInv

\* The SPDK thread turns to a request.
LEMMA TakeCInv ==
  ASSUME CInv, NEW c \in Clients, Take(c)
  PROVE  CInv'
<1>1. /\ ControlTypes /\ Quiet /\ SpdkAt /\ \A d \in Clients : ClientAt(d)
      /\ \A b \in Actors : TableHeld(b) /\ RecordHeld(b)
      /\ c \in Actors /\ c # Spdk /\ Spdk \in Actors /\ \A d \in Clients : d # Spdk
  BY Numbers DEF CInv
<1> DEFINE l == IF call[c].op \in Creates THEN "make" ELSE "table"
<1>2. /\ pc[c] = "queued" /\ pc[Spdk] = "idle" /\ serving' = c
      /\ pc' = [pc EXCEPT ![c] = "waiting", ![Spdk] = l]
      /\ UNCHANGED <<ready, md_mutex, dev_lock, call, at>>
  BY DEF Take, tableVars, lockVars
<1>3. l \in {"make", "table"} /\ (l = "make" => call[c].op \in Creates) /\ l \in Locations
  BY DEF Locations
<1> HIDE DEF l
<1>4. /\ pc'[c] = "waiting" /\ pc'[Spdk] = l
      /\ \A b \in Actors \ {c, Spdk} : pc'[b] = pc[b]
  BY <1>1, <1>2 DEF ControlTypes
<1>5. ControlTypes'
  <2>1. pc' \in [Actors -> Locations]
    BY <1>1, <1>2, <1>3 DEF ControlTypes, Locations
  <2> QED BY <2>1, <1>1, <1>2 DEF ControlTypes
<1>6. Quiet'
  BY <1>1, <1>2 DEF Quiet
<1>7. \A d \in Clients : ClientAt(d)'
  BY <1>1, <1>2, <1>4, Numbers DEF ClientAt
<1>8. SpdkAt'
  BY <1>2, <1>3, <1>4 DEF SpdkAt
<1>9. \A b \in Actors : TableHeld(b)' /\ RecordHeld(b)'
  <2>1. \A b \in Actors \ {Spdk} : CallOf(b)' = CallOf(b)
    BY <1>2 DEF CallOf
  <2> QED BY <2>1, <1>1, <1>2, <1>3, <1>4 DEF TableHeld, HoldsTable, RecordHeld
<1> QED BY <1>5, <1>6, <1>7, <1>8, <1>9 DEF CInv

LEMMA ModuleCInv ==
  ASSUME CInv, ModuleInit \/ ModuleFini
  PROVE  CInv'
<1>1. UNCHANGED <<md_mutex, dev_lock, pc, call, at, serving>> /\ \A a \in Actors : pc[a] = "idle"
  BY DEF CInv, Quiet, ModuleInit, ModuleFini, lockVars
<1>2. ready' \in BOOLEAN
  BY DEF ModuleInit, ModuleFini
<1> QED BY <1>1, <1>2 DEF CInv, ControlTypes, Quiet, SpdkAt, ClientAt, TableHeld, HoldsTable,
                          RecordHeld, CallOf

\* Every step keeps the control part of the invariant.
LEMMA NextCInv == CInv /\ [Next]_vars => CInv'
<1> SUFFICES ASSUME CInv, [Next]_vars PROVE CInv'
  OBVIOUS
<1>1. ASSUME NEW a \in Actors, pc[a] = "body", \E rec : Written(a, rec)
      PROVE  CInv'
  BY <1>1, WrittenCInv
<1>2. CASE ModuleInit \/ ModuleFini
  BY <1>2, ModuleCInv
<1>3. CASE SpdkStep
  <2>1. CASE \/ Detail \/ Stop \/ AddSpare \/ RemoveSpare \/ FailDisk \/ SetDiskState
             \/ Rebuild \/ StartRebuild \/ StopRebuild \/ ReplaceDisk
    <3>1. pc[Spdk] = "body" /\ \E rec : Written(Spdk, rec)
      BY <2>1 DEF Detail, Stop, AddSpare, RemoveSpare, FailDisk, SetDiskState, Rebuild,
                  StartRebuild, StopRebuild, ReplaceDisk, InBody, Conclude
    <3> QED BY <3>1, <1>1, Numbers
  <2>2. CASE \E c \in Clients : Take(c)
    BY <2>2, TakeCInv
  <2>3. CASE WalkOn(Spdk) \/ LookForMember(Spdk)
    BY <2>3, WalkingCInv
  <2>4. CASE LockTable(Spdk) \/ FindRecord(Spdk) \/ NotFound(Spdk) \/ LockRecord(Spdk)
    BY <2>4, FindingCInv, Numbers
  <2>5. CASE MakeArray \/ FillRecord \/ FillFails \/ UndoFill \/ NoSuchDevice
    BY <2>5, CreatingCInv
  <2> QED BY <2>1, <2>2, <2>3, <2>4, <2>5, <1>3 DEF SpdkStep
<1>4. ASSUME NEW c \in Clients, ClientStep(c) \/ EnterCall(c)
      PROVE  CInv'
  <2>1. CASE UpdateProgress(c) \/ GetProgress(c)
    <3>1. pc[c] = "body" /\ \E rec : Written(c, rec)
      BY <2>1 DEF UpdateProgress, GetProgress, InBody, Conclude
    <3> QED BY <3>1, <1>1, Numbers
  <2>2. CASE EnterCall(c) \/ CheckName(c)
    BY <2>2, EnteringCInv
  <2>3. CASE LockTable(c) \/ LookAtTable(c) \/ FindRecord(c) \/ NotFound(c) \/ LockRecord(c)
    BY <2>3, FindingCInv, Numbers
  <2> QED BY <2>1, <2>2, <2>3, <1>4 DEF ClientStep
<1>5. CASE UNCHANGED vars
  BY <1>5 DEF vars, CInv, ControlTypes, Quiet, SpdkAt, ClientAt, TableHeld, HoldsTable,
              RecordHeld, CallOf
<1> QED BY <1>2, <1>3, <1>4, <1>5 DEF Next
-----------------------------------------------------------------------------
(***************************************************************************)
(* What the handlers do to one record.                                     *)
(***************************************************************************)
RecordSet ==
  [active : BOOLEAN, name : Names \cup {NoName},
   disks : [Positions -> Disks \cup {NoDisk}], ok : [Positions -> BOOLEAN],
   failed : 0 .. Width, spares : SUBSET Disks, degraded : BOOLEAN,
   rebuild : BOOLEAN, progress : 0 .. Full]

FaultyOf(rec) == {p \in Positions : ~rec.ok[p]}

\* The counter is not above the number of faulty disks, and its failures are reported;
\* the counter is that number.
Sound(rec) == /\ rec.failed <= Cardinality(FaultyOf(rec))
              /\ rec.failed > 0 => rec.degraded
Exact(rec) == rec.failed = Cardinality(FaultyOf(rec))

SameArray(old, new) ==
  new.active = old.active /\ new.name = old.name /\ new.disks = old.disks

\* A change that leaves the array what it is and its counters as true as they were.
Keeps(old, new) ==
  /\ new \in RecordSet
  /\ SameArray(old, new)
  /\ Sound(old) => Sound(new)
  /\ Exact(old) => Exact(new)

LEMMA FaultySize ==
  ASSUME NEW S \in SUBSET Positions
  PROVE  /\ IsFiniteSet(S) /\ Cardinality(S) \in 0 .. Width
         /\ \A p \in S : Cardinality(S \ {p}) = Cardinality(S) - 1
         /\ \A p \in Positions \ S : /\ Cardinality(S \cup {p}) = Cardinality(S) + 1
                                   /\ Cardinality(S) + 1 <= Width
<1>1. Width \in Nat /\ IsFiniteSet(Positions) /\ Cardinality(Positions) = Width
  BY SizesAssumption, FS_Interval DEF Positions
<1>2. \A T \in SUBSET Positions : IsFiniteSet(T) /\ Cardinality(T) \in 0 .. Width
  BY <1>1, FS_Subset, FS_CardinalityType
<1>3. \A p \in S : Cardinality(S \ {p}) = Cardinality(S) - 1
  BY <1>2, FS_RemoveElement
<1>4. ASSUME NEW p \in Positions \ S
      PROVE  Cardinality(S \cup {p}) = Cardinality(S) + 1 /\ Cardinality(S) + 1 <= Width
  <2>1. Cardinality(S \cup {p}) = Cardinality(S) + 1
    BY <1>2, FS_AddElement
  <2>2. Cardinality(S \cup {p}) \in 0 .. Width
    BY <1>2
  <2> QED BY <2>1, <2>2, <1>1
<1> QED BY <1>2, <1>3, <1>4

\* The fields of a record.
LEMMA RecordFields ==
  ASSUME NEW rec \in RecordSet
  PROVE  /\ rec.active \in BOOLEAN /\ rec.name \in Names \cup {NoName}
         /\ rec.disks \in [Positions -> Disks \cup {NoDisk}] /\ rec.ok \in [Positions -> BOOLEAN]
         /\ rec.failed \in 0 .. Width /\ rec.spares \in SUBSET Disks /\ rec.degraded \in BOOLEAN
         /\ rec.rebuild \in BOOLEAN /\ rec.progress \in 0 .. Full
         /\ FaultyOf(rec) \in SUBSET Positions
BY DEF RecordSet, FaultyOf

\* A change that leaves disks, states and counter alone.
LEMMA FlagsKeep ==
  ASSUME NEW rec \in RecordSet, NEW new \in RecordSet, SameArray(rec, new),
         new.ok = rec.ok, new.failed = rec.failed,
         rec.degraded /\ rec.failed > 0 => new.degraded
  PROVE  Keeps(rec, new)
BY DEF Keeps, Sound, Exact, FaultyOf

\* A disk is found faulty.
LEMMA FailKeeps ==
  ASSUME NEW rec \in RecordSet, NEW p \in Positions, Sound(rec)
  PROVE  Keeps(rec, Fail(rec, p))
<1>1. /\ rec.ok \in [Positions -> BOOLEAN] /\ rec.failed \in 0 .. Width
      /\ FaultyOf(rec) \in SUBSET Positions
  BY RecordFields
<1>2. CASE ~rec.ok[p]
  <2>1. Fail(rec, p) = rec
    BY <1>2 DEF Fail
  <2> QED BY <2>1 DEF Keeps, SameArray
<1>3. CASE rec.ok[p]
  <2> DEFINE new == Fail(rec, p)
  <2>1. new = [rec EXCEPT !.ok[p] = FALSE, !.failed = @ + 1, !.degraded = TRUE]
    BY <1>3 DEF Fail
  <2>2. /\ SameArray(rec, new) /\ new.ok = [rec.ok EXCEPT ![p] = FALSE]
        /\ new.failed = rec.failed + 1 /\ new.degraded = TRUE
    BY <2>1 DEF SameArray, RecordSet
  <2>3. FaultyOf(new) = FaultyOf(rec) \cup {p} /\ p \notin FaultyOf(rec)
    BY <2>2, <1>1, <1>3 DEF FaultyOf
  <2>4. /\ Cardinality(FaultyOf(new)) = Cardinality(FaultyOf(rec)) + 1
        /\ Cardinality(FaultyOf(rec)) + 1 <= Width
        /\ Cardinality(FaultyOf(rec)) \in 0 .. Width
    BY <2>3, <1>1, FaultySize
  <2>5. rec.failed + 1 \in 0 .. Width
    BY <2>4, <1>1, SizesAssumption DEF Sound
  <2>6. new \in RecordSet
    <3>1. [rec.ok EXCEPT ![p] = FALSE] \in [Positions -> BOOLEAN]
      BY <1>1
    <3> QED BY <2>1, <2>5, <3>1 DEF RecordSet
  <2> HIDE DEF new
  <2>7. Sound(new) /\ (Exact(rec) => Exact(new))
    BY <2>2, <2>4, <1>1, SizesAssumption DEF Sound, Exact
  <2> QED BY <2>2, <2>6, <2>7 DEF Keeps, new
<1> QED BY <1>2, <1>3

\* A disk is found good again.
LEMMA RecoverKeeps ==
  ASSUME NEW rec \in RecordSet, NEW p \in Positions, Sound(rec)
  PROVE  Keeps(rec, Recover(rec, p))
<1>1. /\ rec.ok \in [Positions -> BOOLEAN] /\ rec.failed \in 0 .. Width
      /\ rec.degraded \in BOOLEAN /\ FaultyOf(rec) \in SUBSET Positions
  BY RecordFields
<1>2. CASE rec.ok[p]
  <2>1. Recover(rec, p) = rec
    BY <1>2 DEF Recover
  <2> QED BY <2>1 DEF Keeps, SameArray
<1>3. CASE ~rec.ok[p]
  <2> DEFINE new == Recover(rec, p)
             n   == OneLess(rec.failed)
  <2>1. new = [rec EXCEPT !.ok[p] = TRUE, !.failed = n, !.degraded = @ /\ n # 0]
    BY <1>3 DEF Recover
  <2>2. n \in 0 .. Width /\ (rec.failed > 0 => n = rec.failed - 1) /\ (rec.failed = 0 => n = 0)
    BY <1>1, SizesAssumption DEF OneLess
  <2> HIDE DEF n
  <2>3. /\ SameArray(rec, new) /\ new.ok = [rec.ok EXCEPT ![p] = TRUE]
        /\ new.failed = n /\ new.degraded = (rec.degraded /\ n # 0)
    BY <2>1 DEF SameArray, RecordSet
  <2>4. FaultyOf(new) = FaultyOf(rec) \ {p} /\ p \in FaultyOf(rec)
    BY <2>3, <1>1, <1>3 DEF FaultyOf
  <2>5. /\ Cardinality(FaultyOf(new)) = Cardinality(FaultyOf(rec)) - 1
        /\ Cardinality(FaultyOf(rec)) \in 0 .. Width /\ Cardinality(FaultyOf(new)) \in 0 .. Width
    <3>1. FaultyOf(new) \in SUBSET Positions
      BY <2>4, <1>1
    <3> QED BY <3>1, <2>4, <1>1, FaultySize
  <2>6. new \in RecordSet
    <3>1. [rec.ok EXCEPT ![p] = TRUE] \in [Positions -> BOOLEAN] /\ (rec.degraded /\ n # 0) \in BOOLEAN
      BY <1>1
    <3> QED BY <2>1, <2>2, <3>1 DEF RecordSet
  <2> HIDE DEF new
  <2>7. Sound(new) /\ (Exact(rec) => Exact(new))
    BY <2>2, <2>3, <2>5, <1>1, SizesAssumption DEF Sound, Exact
  <2> QED BY <2>3, <2>6, <2>7 DEF Keeps, new
<1> QED BY <1>2, <1>3

\* A disk is replaced: the counter stays exact unless a disk in good state was replaced
\* while others had failed.
LEMMA ReplacedRecord ==
  ASSUME NEW rec \in RecordSet, NEW p \in Positions, Sound(rec),
         NEW r, r.new \in Disks, r.auto \in BOOLEAN
  PROVE  /\ Replaced(rec, p, r) \in RecordSet
         /\ Replaced(rec, p, r).active = rec.active /\ Replaced(rec, p, r).name = rec.name
         /\ Replaced(rec, p, r).disks = [rec.disks EXCEPT ![p] = r.new]
         /\ Sound(Replaced(rec, p, r))
         /\ Exact(rec) /\ ~(rec.ok[p] /\ rec.failed > 0) => Exact(Replaced(rec, p, r))
<1>1. /\ rec.ok \in [Positions -> BOOLEAN] /\ rec.failed \in 0 .. Width
      /\ rec.disks \in [Positions -> Disks \cup {NoDisk}]
      /\ rec.degraded \in BOOLEAN /\ FaultyOf(rec) \in SUBSET Positions
  BY RecordFields
<1> DEFINE n   == OneLess(rec.failed)
           mid == [rec EXCEPT !.disks[p] = r.new, !.ok[p] = TRUE, !.failed = n,
                              !.degraded = @ /\ (n # 0 \/ r.auto)]
           new == Replaced(rec, p, r)
<1>2. n \in 0 .. Width /\ (rec.failed > 0 => n = rec.failed - 1) /\ (rec.failed = 0 => n = 0)
  BY <1>1, SizesAssumption DEF OneLess
<1>3. new = IF r.auto THEN Rebuilding(mid) ELSE mid
  BY DEF Replaced
<1> HIDE DEF n
<1>4. /\ mid.active = rec.active /\ mid.name = rec.name
      /\ mid.disks = [rec.disks EXCEPT ![p] = r.new] /\ mid.ok = [rec.ok EXCEPT ![p] = TRUE]
      /\ mid.failed = n /\ mid.degraded = (rec.degraded /\ (n # 0 \/ r.auto))
  BY DEF RecordSet
<1>5. mid \in RecordSet
  <2>1. /\ [rec.ok EXCEPT ![p] = TRUE] \in [Positions -> BOOLEAN]
        /\ [rec.disks EXCEPT ![p] = r.new] \in [Positions -> Disks \cup {NoDisk}]
        /\ (rec.degraded /\ (n # 0 \/ r.auto)) \in BOOLEAN
    BY <1>1
  <2> QED BY <1>2, <2>1 DEF RecordSet
<1> HIDE DEF mid
<1>6. /\ new \in RecordSet
      /\ new.active = mid.active /\ new.name = mid.name /\ new.disks = mid.disks
      /\ new.ok = mid.ok /\ new.failed = mid.failed /\ new.degraded = mid.degraded
  <2>1. 0 \in 0 .. Full
    BY SizesAssumption
  <2> QED BY <2>1, <1>3, <1>5 DEF Rebuilding, RecordSet
<1> HIDE DEF new
<1>7. /\ FaultyOf(new) = FaultyOf(rec) \ {p} /\ FaultyOf(new) \in SUBSET Positions
      /\ p \in FaultyOf(rec) <=> ~rec.ok[p]
  BY <1>1, <1>4, <1>6 DEF FaultyOf
<1>8. /\ Cardinality(FaultyOf(rec)) \in 0 .. Width /\ Cardinality(FaultyOf(new)) \in 0 .. Width
      /\ ~rec.ok[p] => Cardinality(FaultyOf(new)) = Cardinality(FaultyOf(rec)) - 1
      /\ rec.ok[p] => Cardinality(FaultyOf(new)) = Cardinality(FaultyOf(rec))
  <2>1. rec.ok[p] => FaultyOf(new) = FaultyOf(rec)
    BY <1>7
  <2> QED BY <2>1, <1>1, <1>7, FaultySize
<1>9. Sound(new)
  BY <1>1, <1>2, <1>4, <1>6, <1>8, SizesAssumption DEF Sound
<1>10. Exact(rec) /\ ~(rec.ok[p] /\ rec.failed > 0) => Exact(new)
  BY <1>1, <1>2, <1>4, <1>6, <1>8, SizesAssumption DEF Exact
<1> QED BY <1>4, <1>6, <1>9, <1>10 DEF new
-----------------------------------------------------------------------------
(***************************************************************************)
(* The invariant of the table.  A thread on its way to a record knows the  *)
(* name it will find there; a handler that creates knows that SPDK has the *)
(* array and that no other record has its name.                            *)
(***************************************************************************)
DataTypes ==
  /\ md \in [Records -> RecordSet]
  /\ created \in SUBSET Names
  /\ base \in [Names -> [Positions -> Disks \cup {NoDisk}]]
  /\ skewed \in SUBSET Records

\* The record of a creation that failed half way.
InUndo(i) == pc[Spdk] = "undo" /\ at[Spdk] = i

\* What SPDK has is what the record says, up to the holes of replacements.
Agrees(i) ==
  /\ md[i].name \in created
  /\ \A p \in Positions : base[md[i].name][p] \in {md[i].disks[p], NoDisk}

RecordTrue(i) ==
  md[i].active => /\ Sound(md[i])
                  /\ ~InUndo(i) /\ i \notin skewed => Exact(md[i])
                  /\ ~InUndo(i) => Agrees(i)

Found(a) ==
  (pc[a] \in {"lock", "body"} /\ CallOf(a).op \notin Creates) => md[at[a]].name = CallOf(a).name

SpdkFound ==
  pc[Spdk] \in {"lock", "body"} => (md[at[Spdk]].active <=> call[serving].op \notin Creates)

Making ==
  (pc[Spdk] \in {"table", "find", "lock", "body", "undo"} /\ call[serving].op \in Creates) =>
    /\ call[serving].name \in created
    /\ base[call[serving].name] = call[serving].disks
    /\ \A i \in Active(call[serving].name) : InUndo(i)

DInv ==
  /\ DataTypes
  /\ \A i \in Records : RecordTrue(i)
  /\ OneRecordPerName
  /\ \A a \in Actors : Found(a)
  /\ SpdkFound
  /\ Making

LEMMA InitDInv == Init => DInv
<1> SUFFICES ASSUME Init PROVE DInv
  OBVIOUS
<1>1. Blank \in RecordSet /\ ~Blank.active
  BY SizesAssumption DEF Blank, RecordSet
<1>2. \A i \in Records : md[i] = Blank
  BY DEF Init
<1>3. DataTypes
  BY <1>1 DEF Init, DataTypes
<1>4. \A a \in Actors : pc[a] = "idle"
  BY DEF Init
<1> QED BY <1>1, <1>2, <1>3, <1>4, Numbers
        DEF DInv, RecordTrue, OneRecordPerName, Found, SpdkFound, Making

\* A step of thread a leaves the others where they are; one of the SPDK thread may send
\* a client home.
OthersKeep(a) ==
  \A b \in Actors \ {a} :
    \/ /\ pc'[b] = pc[b] /\ at'[b] = at[b]
       /\ pc[b] # "idle" => CallOf(b)' = CallOf(b)
    \/ a = Spdk /\ pc'[b] \in {"idle", "waiting"}

LEMMA MovesKeep ==
  ASSUME CInv, NEW a \in Actors, NEW l, NEW k, pc' = [pc EXCEPT ![a] = l],
         at' = [at EXCEPT ![a] = k], UNCHANGED <<call, serving>>
  PROVE  OthersKeep(a)
BY DEF OthersKeep, CInv, ControlTypes, CallOf

LEMMA FinishedKeeps ==
  ASSUME CInv, NEW a \in Actors, pc[a] \notin {"idle", "waiting"}, Finished(a), at' = at
  PROVE  OthersKeep(a) /\ pc'[a] = "idle"
<1> DEFINE c == IF a = Spdk THEN serving ELSE a
<1>1. ControlTypes /\ SpdkAt
  BY DEF CInv
<1>2. c \in Clients /\ (a = Spdk => pc[c] = "waiting")
  BY <1>1, Numbers DEF SpdkAt, Actors
<1>3. /\ pc' = [pc EXCEPT ![a] = "idle", ![c] = "idle"]
      /\ call' = [call EXCEPT ![c] = NoCall]
      /\ a # Spdk => serving' = serving
  BY DEF Finished
<1>4. pc[Spdk] # "idle" /\ a # Spdk => serving # c /\ serving \in Clients /\ c = a
  BY <1>1, <1>2 DEF SpdkAt
<1> HIDE DEF c
<1>5. /\ pc'[a] = "idle" /\ pc'[c] = "idle"
      /\ \A b \in Actors \ {a, c} : pc'[b] = pc[b]
      /\ \A d \in Clients \ {c} : call'[d] = call[d]
  BY <1>1, <1>2, <1>3, Numbers DEF ControlTypes
<1>6. ASSUME NEW b \in Actors \ {a}, b # c
      PROVE  pc'[b] = pc[b] /\ (pc[b] # "idle" => CallOf(b)' = CallOf(b))
  <2>1. CASE b = Spdk
    BY <2>1, <1>3, <1>4, <1>5, <1>6, Numbers DEF CallOf
  <2>2. CASE b # Spdk
    BY <2>2, <1>5, <1>6 DEF CallOf, Actors
  <2> QED BY <2>1, <2>2
<1>7. c # a => a = Spdk
  BY DEF c
<1> QED BY <1>5, <1>6, <1>7 DEF OthersKeep

\* A step that leaves every array what it is, and SPDK alone.
LEMMA SoftDInv ==
  ASSUME CInv, DInv, NEW a \in Actors, OthersKeep(a), a = Spdk => pc[Spdk] # "undo",
         md' \in [Records -> RecordSet], \A i \in Records : Keeps(md[i], md'[i]),
         UNCHANGED <<created, base, skewed>>,
         Found(a)', a = Spdk => SpdkFound' /\ Making'
  PROVE  DInv'
<1>1. /\ DataTypes /\ \A i \in Records : RecordTrue(i)
      /\ OneRecordPerName /\ \A b \in Actors : Found(b)
      /\ SpdkFound /\ Making /\ ControlTypes
  BY DEF DInv, CInv
<1>2. \A i \in Records : SameArray(md[i], md'[i])
  BY DEF Keeps
<1>3. \A i \in Records : InUndo(i) => InUndo(i)'
  <2>1. CASE a = Spdk
    BY <2>1 DEF InUndo
  <2>2. CASE a # Spdk
    BY <2>2, Numbers DEF OthersKeep, InUndo
  <2> QED BY <2>1, <2>2
<1>4. DataTypes'
  BY <1>1 DEF DataTypes
<1>5. ASSUME NEW i \in Records PROVE RecordTrue(i)'
  <2>1. RecordTrue(i) /\ Keeps(md[i], md'[i]) /\ (InUndo(i) => InUndo(i)')
    BY <1>1, <1>3
  <2>2. Agrees(i) => Agrees(i)'
    BY <2>1 DEF Agrees, Keeps, SameArray
  <2> QED BY <2>1, <2>2 DEF RecordTrue, Keeps, SameArray
<1>6. OneRecordPerName'
  BY <1>1, <1>2 DEF OneRecordPerName, SameArray
<1>7. ASSUME NEW b \in Actors PROVE Found(b)'
  <2>1. CASE b # a
    <3>1. CASE pc'[b] = pc[b] /\ at'[b] = at[b] /\ (pc[b] # "idle" => CallOf(b)' = CallOf(b))
      BY <3>1, <1>1, <1>2 DEF ControlTypes, Found, SameArray
    <3>2. CASE pc'[b] \in {"idle", "waiting"}
      BY <3>2 DEF Found
    <3> QED BY <2>1, <3>1, <3>2 DEF OthersKeep
  <2> QED BY <2>1
<1>8. SpdkFound' /\ Making'
  <2>1. CASE a # Spdk
    <3>1. /\ pc'[Spdk] = pc[Spdk] /\ at'[Spdk] = at[Spdk] /\ at[Spdk] \in Records
          /\ pc[Spdk] # "idle" => call'[serving'] = call[serving]
      BY <2>1, <1>1, Numbers DEF OthersKeep, CallOf, ControlTypes
    <3>2. SpdkFound'
      BY <3>1, <1>1, <1>2 DEF SpdkFound, SameArray
    <3>3. ASSUME pc[Spdk] # "idle"
          PROVE  Active(call[serving].name)' = Active(call[serving].name)
      BY <3>1, <3>3, <1>2 DEF Active, SameArray
    <3>4. \A i : InUndo(i)' <=> InUndo(i)
      BY <3>1 DEF InUndo
    <3>5. Making'
      BY <3>1, <3>3, <3>4, <1>1 DEF Making
    <3> QED BY <3>2, <3>5
  <2> QED BY <2>1
<1> QED BY <1>4, <1>5, <1>6, <1>7, <1>8 DEF DInv

\* A step that touches no data.
LEMMA QuietDInv ==
  ASSUME CInv, DInv, NEW a \in Actors, OthersKeep(a), a = Spdk => pc[Spdk] # "undo",
         UNCHANGED <<md, created, base, skewed>>,
         Found(a)', a = Spdk => SpdkFound' /\ Making'
  PROVE  DInv'
<1>1. md' \in [Records -> RecordSet] /\ \A i \in Records : Keeps(md[i], md'[i])
  BY DEF DInv, DataTypes, Keeps, SameArray
<1> QED BY <1>1, SoftDInv

\* A call ends, or its request has been handed in, with no data touched.
LEMMA EndsDInv ==
  ASSUME CInv, DInv, NEW a \in Actors, OthersKeep(a), a = Spdk => pc[Spdk] # "undo",
         UNCHANGED <<md, created, base, skewed>>,
         pc'[a] \in {"idle", "check", "queued"}
  PROVE  DInv'
<1>1. Found(a)' /\ (a = Spdk => SpdkFound' /\ Making')
  BY DEF Found, SpdkFound, Making
<1> QED BY <1>1, QuietDInv

LEMMA EnteringDInv ==
  ASSUME CInv, DInv, NEW c \in Clients, EnterCall(c) \/ CheckName(c)
  PROVE  DInv'
<1>1. /\ ControlTypes /\ SpdkAt /\ c \in Actors /\ c # Spdk /\ Spdk \in Actors
  BY Numbers DEF CInv
<1>2. /\ pc[c] \in {"idle", "check"}
      /\ \E l : l \in {"idle", "check", "table", "queued"} /\ pc' = [pc EXCEPT ![c] = l]
      /\ \E r : call' = [call EXCEPT ![c] = r]
      /\ UNCHANGED <<md, created, base, skewed, at, serving>>
  <2>1. CASE CheckName(c)
    <3>1. call = [call EXCEPT ![c] = call[c]]
      BY <1>1 DEF ControlTypes
    <3> QED BY <2>1, <3>1 DEF CheckName, tableVars, spdkVars
  <2>2. ASSUME NEW ops, Enter(c, ops)
        PROVE  /\ pc[c] \in {"idle", "check"}
               /\ \E l : l \in {"idle", "check", "table", "queued"} /\ pc' = [pc EXCEPT ![c] = l]
               /\ \E r : call' = [call EXCEPT ![c] = r]
               /\ UNCHANGED <<md, created, base, skewed, at, serving>>
    BY <2>2 DEF Enter, tableVars, spdkVars
  <2>3. CASE EnterCall(c)
    BY <2>2, <2>3 DEF EnterCall, MdCreate, MdAssemble, MdStop, MdRun, MdExamine, MdDetail,
       MdList, MdManage, MdReplaceDisk, MdStartRebuild, MdStopRebuild, MdSetFaulty,
       MdSetNormal, MdGetProgress, MdUpdateProgress
  <2> QED BY <2>1, <2>3
<1>3. OthersKeep(c)
  <2>1. pc[Spdk] # "idle" => serving \in Clients /\ serving # c
    BY <1>1, <1>2 DEF SpdkAt
  <2> QED BY <2>1, <1>1, <1>2 DEF OthersKeep, ControlTypes, CallOf, Actors
<1>4. Found(c)'
  BY <1>1, <1>2 DEF Found, ControlTypes
<1> QED BY <1>1, <1>2, <1>3, <1>4, QuietDInv

LEMMA TakeDInv ==
  ASSUME CInv, DInv, NEW c \in Clients, Take(c)
  PROVE  DInv'
<1> DEFINE l == IF call[c].op \in Creates THEN "make" ELSE "table"
<1>1. /\ ControlTypes /\ c \in Actors /\ c # Spdk /\ Spdk \in Actors
      /\ pc[c] = "queued" /\ pc[Spdk] = "idle" /\ serving' = c
      /\ pc' = [pc EXCEPT ![c] = "waiting", ![Spdk] = l]
      /\ UNCHANGED <<md, created, base, skewed, call, at>>
  BY Numbers DEF Take, tableVars, spdkVars, CInv
<1>2. l \in {"make", "table"} /\ (l = "table" => call[c].op \notin Creates)
  OBVIOUS
<1> HIDE DEF l
<1>3. pc'[c] = "waiting" /\ pc'[Spdk] = l /\ \A b \in Actors \ {c, Spdk} : pc'[b] = pc[b]
  BY <1>1 DEF ControlTypes
<1>4. OthersKeep(Spdk)
  BY <1>1, <1>3 DEF OthersKeep, CallOf
<1>5. Found(Spdk)' /\ SpdkFound' /\ Making'
  BY <1>1, <1>2, <1>3 DEF Found, SpdkFound, Making
<1> QED BY <1>1, <1>4, <1>5, QuietDInv

\* Locking the table, finding a record and locking it.
LEMMA LockTableDInv ==
  ASSUME CInv, DInv, NEW a \in Actors, LockTable(a)
  PROVE  DInv'
<1> DEFINE l == CASE CallOf(a).op \in LookOnly -> "look"
                  [] CallOf(a).op = "examine"  -> "walk"
                  [] OTHER                     -> "find"
<1>1. /\ ControlTypes /\ pc[a] = "table" /\ at' = [at EXCEPT ![a] = 1]
      /\ pc' = [pc EXCEPT ![a] = l]
      /\ UNCHANGED <<md, created, base, skewed, call, serving>>
  BY DEF LockTable, tableVars, spdkVars, CInv
<1>2. l \in {"look", "walk", "find"}
  OBVIOUS
<1> HIDE DEF l
<1>3. pc'[a] = l
  BY <1>1 DEF ControlTypes
<1>4. OthersKeep(a)
  BY <1>1, MovesKeep
<1>5. Found(a)' /\ (a = Spdk => SpdkFound' /\ Making')
  BY <1>1, <1>2, <1>3 DEF Found, SpdkFound, Making, InUndo, Active, DInv
<1> QED BY <1>1, <1>4, <1>5, QuietDInv

LEMMA FindRecordDInv ==
  ASSUME CInv, DInv, NEW a \in Actors, FindRecord(a)
  PROVE  DInv'
<1> DEFINE k == First(Wanted(a))
<1>1. /\ ControlTypes /\ pc[a] = "find" /\ at' = [at EXCEPT ![a] = k]
      /\ pc' = [pc EXCEPT ![a] = "lock"]
      /\ UNCHANGED <<md, created, base, skewed, call, serving>>
  BY DEF FindRecord, tableVars, spdkVars, CInv
<1>2. k \in Wanted(a) /\ k \in Records
  BY WantedRecords DEF FindRecord
<1> HIDE DEF k
<1>3. pc'[a] = "lock" /\ at'[a] = k
  BY <1>1 DEF ControlTypes
<1>4. OthersKeep(a)
  BY <1>1, MovesKeep
<1>5. Found(a)'
  BY <1>1, <1>2, <1>3 DEF Found, Wanted, Active, CallOf
<1>6. ASSUME a = Spdk PROVE SpdkFound' /\ Making'
  <2>1. SpdkFound'
    BY <1>1, <1>2, <1>3, <1>6 DEF SpdkFound, Wanted, Active, CallOf
  <2>2. Making'
    BY <1>1, <1>3, <1>6 DEF Making, InUndo, Active, DInv
  <2> QED BY <2>1, <2>2
<1> QED BY <1>1, <1>4, <1>5, <1>6, QuietDInv

LEMMA LockRecordDInv ==
  ASSUME CInv, DInv, NEW a \in Actors, LockRecord(a)
  PROVE  DInv'
<1>1. /\ ControlTypes /\ pc[a] = "lock" /\ at' = at
      /\ pc' = [pc EXCEPT ![a] = "body"]
      /\ UNCHANGED <<md, created, base, skewed, call, serving>>
  BY DEF LockRecord, tableVars, spdkVars, CInv
<1>2. pc'[a] = "body" /\ at' = [at EXCEPT ![a] = at[a]]
  BY <1>1 DEF ControlTypes
<1>3. OthersKeep(a)
  BY <1>1, <1>2, MovesKeep
<1>4. Found(a)'
  BY <1>1, <1>2 DEF Found, CallOf, DInv
<1>5. a = Spdk => SpdkFound' /\ Making'
  BY <1>1, <1>2 DEF SpdkFound, Making, InUndo, Active, DInv
<1> QED BY <1>1, <1>3, <1>4, <1>5, QuietDInv

\* Going from record to record.
LEMMA WalkingDInv ==
  ASSUME CInv, DInv, WalkOn(Spdk) \/ LookForMember(Spdk)
  PROVE  DInv'
<1>1. /\ ControlTypes /\ Spdk \in Actors /\ pc[Spdk] \in {"walk", "member"}
      /\ UNCHANGED <<md, created, base, skewed>>
  BY Numbers DEF WalkOn, LookForMember, tableVars, spdkVars, CInv
<1>2. CASE Finished(Spdk) /\ UNCHANGED at
  BY <1>1, <1>2, FinishedKeeps, EndsDInv
<1>3. ASSUME NEW l \in {"walk", "member"}, pc' = [pc EXCEPT ![Spdk] = l], NEW k \in Records,
             at' = [at EXCEPT ![Spdk] = k], UNCHANGED <<call, serving>>
      PROVE  DInv'
  <2>1. pc'[Spdk] = l
    BY <1>1, <1>3 DEF ControlTypes
  <2>2. OthersKeep(Spdk)
    BY <1>1, <1>3, MovesKeep
  <2>3. Found(Spdk)' /\ SpdkFound' /\ Making'
    BY <2>1 DEF Found, SpdkFound, Making
  <2> QED BY <1>1, <2>2, <2>3, QuietDInv
<1>4. CASE NextRecord(Spdk)
  <2>1. CASE at[Spdk] < MaxRaids
    <3>1. at[Spdk] + 1 \in Records
      BY <1>1, <2>1, Numbers DEF ControlTypes
    <3> QED BY <1>1, <1>3, <1>4, <2>1, <3>1 DEF NextRecord, ControlTypes
  <2>2. CASE ~(at[Spdk] < MaxRaids)
    BY <1>2, <1>4, <2>2 DEF NextRecord
  <2> QED BY <2>1, <2>2
<1>5. CASE pc' = [pc EXCEPT ![Spdk] = "member"] /\ UNCHANGED <<call, at, serving>>
  <2>1. at' = [at EXCEPT ![Spdk] = at[Spdk]] /\ at[Spdk] \in Records
    BY <1>1, <1>5 DEF ControlTypes
  <2> QED BY <1>3, <1>5, <2>1
<1> QED BY <1>2, <1>4, <1>5 DEF WalkOn, LookForMember

\* A step of the SPDK thread that changes data.
LEMMA ChangeDInv ==
  ASSUME CInv, DInv, OthersKeep(Spdk), DataTypes',
         \A i \in Records : RecordTrue(i)',
         OneRecordPerName',
         \A b \in Clients : pc[b] \in {"lock", "body"} => md'[at[b]].name = md[at[b]].name,
         Found(Spdk)', SpdkFound', Making'
  PROVE  DInv'
<1>1. ASSUME NEW b \in Clients PROVE Found(b)'
  <2>1. CASE pc'[b] = pc[b] /\ at'[b] = at[b] /\ (pc[b] # "idle" => CallOf(b)' = CallOf(b))
    BY <2>1, Numbers DEF Found, DInv
  <2>2. CASE pc'[b] \in {"idle", "waiting"}
    BY <2>2 DEF Found
  <2> QED BY <2>1, <2>2, Numbers DEF OthersKeep
<1> QED BY <1>1 DEF DInv, Actors

\* The same when the handler ends with it.
LEMMA ChangeEndsDInv ==
  ASSUME CInv, DInv, pc[Spdk] \notin {"idle", "waiting"}, Finished(Spdk), at' = at,
         DataTypes',
         \A i \in Records : RecordTrue(i)',
         OneRecordPerName',
         \A b \in Clients : pc[b] \in {"lock", "body"} => md'[at[b]].name = md[at[b]].name
  PROVE  DInv'
<1>1. OthersKeep(Spdk) /\ pc'[Spdk] = "idle"
  BY FinishedKeeps, Numbers
<1>2. Found(Spdk)' /\ SpdkFound' /\ Making'
  BY <1>1 DEF Found, SpdkFound, Making
<1> QED BY <1>1, <1>2, ChangeDInv

\* SPDK gets or loses an array that no record has, or may lose only its disks.
LEMMA SpdkSide ==
  ASSUME DInv, pc[Spdk] # "undo", UNCHANGED <<md, skewed>>,
         NEW n \in Names, Active(n) = {},
         created' \in SUBSET Names, created \ {n} \subseteq created',
         NEW disks \in [Positions -> Disks \cup {NoDisk}],
         base' = [base EXCEPT ![n] = disks]
  PROVE  /\ DataTypes' /\ OneRecordPerName'
         /\ \A i \in Records : RecordTrue(i)'
         /\ \A b \in Clients : pc[b] \in {"lock", "body"} => md'[at[b]].name = md[at[b]].name
<1>1. DataTypes /\ OneRecordPerName /\ \A i \in Records : RecordTrue(i)
  BY DEF DInv
<1>2. DataTypes' /\ OneRecordPerName'
  BY <1>1 DEF DataTypes, OneRecordPerName
<1>3. ASSUME NEW i \in Records, md[i].active PROVE Agrees(i)'
  <2>1. Agrees(i) /\ md[i].name # n
    BY <1>1, <1>3 DEF RecordTrue, InUndo, Active
  <2>2. md[i].name \in created /\ md[i].name \in Names
    BY <1>1, <2>1 DEF Agrees, DataTypes
  <2>3. base'[md[i].name] = base[md[i].name] /\ md[i].name \in created'
    BY <1>1, <2>1, <2>2 DEF DataTypes
  <2> QED BY <2>1, <2>3 DEF Agrees
<1>4. ASSUME NEW i \in Records PROVE RecordTrue(i)'
  BY <1>1, <1>3 DEF RecordTrue, InUndo
<1> QED BY <1>2, <1>4

\* The calls that end without having found anything, and the making of an array.
LEMMA NotFoundDInv ==
  ASSUME CInv, DInv, NEW a \in Actors, NotFound(a)
  PROVE  DInv'
<1>1. /\ pc[a] = "find" /\ Finished(a) /\ UNCHANGED <<md, skewed, at>>
      /\ IF CallOf(a).op \in Creates THEN TakenDown(CallOf(a).name) ELSE UNCHANGED spdkVars
  BY DEF NotFound, tableVars
<1>2. OthersKeep(a) /\ pc'[a] = "idle"
  BY <1>1, FinishedKeeps
<1>3. CASE CallOf(a).op \notin Creates
  BY <1>1, <1>2, <1>3, EndsDInv DEF spdkVars
<1>4. CASE CallOf(a).op \in Creates
  <2>1. a = Spdk /\ CallOf(a) = call[serving] /\ call[serving] \in AllCalls
    <3>1. a \in Clients => CallOf(a).op \in OnCallersThread
      BY <1>1, CallOfTypes DEF ClientAt
    <3>2. Creates \cap OnCallersThread = {}
      BY DEF Creates, OnCallersThread, LookOnly
    <3> QED BY <1>1, <1>4, <3>1, <3>2, CallOfTypes DEF Actors
  <2> DEFINE n == call[serving].name
             none == [p \in Positions |-> NoDisk]
  <2>2. n \in Names
    BY <2>1, <1>4, CallTypes
  <2>3. Active(n) = {} /\ created \in SUBSET Names
    BY <1>1, <1>4, <2>1 DEF DInv, Making, InUndo, Active, DataTypes
  <2>4. /\ base' = [base EXCEPT ![n] = none] /\ created' \in {created, created \ {n}}
        /\ none \in [Positions -> Disks \cup {NoDisk}]
    BY <1>1, <1>4, <2>1 DEF TakenDown
  <2> HIDE DEF n, none
  <2>5. /\ DataTypes' /\ OneRecordPerName'
        /\ \A i \in Records : RecordTrue(i)'
        /\ \A b \in Clients : pc[b] \in {"lock", "body"} => md'[at[b]].name = md[at[b]].name
    BY <1>1, <2>1, <2>2, <2>3, <2>4, SpdkSide
  <2> QED BY <1>1, <2>1, <2>5, ChangeEndsDInv
<1> QED BY <1>3, <1>4

LEMMA MakeArrayDInv ==
  ASSUME CInv, DInv, MakeArray
  PROVE  DInv'
<1> DEFINE r == call[serving]
<1>1. /\ pc[Spdk] = "make" /\ UNCHANGED <<md, skewed, at>> /\ Spdk \in Actors
      /\ ControlTypes /\ DataTypes
  BY Numbers DEF MakeArray, tableVars, CInv, DInv
<1>2. r.name \in Names /\ r.disks \in [Positions -> Disks] /\ r.op \in Creates
  <2>1. r \in AllCalls /\ r.op \in Creates
    BY <1>1, CallOfTypes DEF SpdkAt
  <2> QED BY <2>1, CallTypes
<1>3. r.name \notin created => Active(r.name) = {}
  BY <1>1 DEF DInv, RecordTrue, Agrees, InUndo, Active
<1>4. CASE /\ r.name \notin created
           /\ created' = created \cup {r.name}
           /\ base' = [base EXCEPT ![r.name] = r.disks]
           /\ pc' = [pc EXCEPT ![Spdk] = "table"]
           /\ UNCHANGED <<call, serving>>
  <2>1. pc'[Spdk] = "table" /\ at' = [at EXCEPT ![Spdk] = at[Spdk]]
    BY <1>1, <1>4 DEF ControlTypes
  <2>2. OthersKeep(Spdk)
    BY <1>1, <1>4, <2>1, MovesKeep
  <2>3. /\ r.disks \in [Positions -> Disks \cup {NoDisk}]
        /\ created' \in SUBSET Names /\ created \ {r.name} \subseteq created'
    BY <1>1, <1>2, <1>4 DEF DataTypes
  <2> HIDE DEF r
  <2>4. /\ DataTypes' /\ OneRecordPerName'
        /\ \A i \in Records : RecordTrue(i)'
        /\ \A b \in Clients : pc[b] \in {"lock", "body"} => md'[at[b]].name = md[at[b]].name
    BY <1>1, <1>2, <1>3, <1>4, <2>3, SpdkSide
  <2>5. Found(Spdk)' /\ SpdkFound'
    BY <2>1 DEF Found, SpdkFound
  <2>6. Making'
    <3>1. r.name \in created' /\ base'[r.name] = r.disks
      BY <1>1, <1>2, <1>4 DEF DataTypes
    <3>2. Active(r.name)' = {}
      BY <1>1, <1>3, <1>4 DEF Active, r
    <3> QED BY <1>4, <3>1, <3>2 DEF Making, r
  <2> QED BY <2>2, <2>4, <2>5, <2>6, ChangeDInv
<1>5. CASE Finished(Spdk) /\ UNCHANGED spdkVars
  <2>1. OthersKeep(Spdk) /\ pc'[Spdk] = "idle"
    BY <1>1, <1>5, FinishedKeeps
  <2> QED BY <1>1, <1>5, <2>1, EndsDInv DEF spdkVars
<1>6. CASE /\ r.name \notin created
           /\ created' \in {created, created \cup {r.name}}
           /\ UNCHANGED base
           /\ Finished(Spdk)
  <2>1. /\ base' = [base EXCEPT ![r.name] = base[r.name]]
        /\ base[r.name] \in [Positions -> Disks \cup {NoDisk}]
        /\ created' \in SUBSET Names /\ created \ {r.name} \subseteq created'
    BY <1>1, <1>2, <1>6 DEF DataTypes
  <2> HIDE DEF r
  <2>2. /\ DataTypes' /\ OneRecordPerName'
        /\ \A i \in Records : RecordTrue(i)'
        /\ \A b \in Clients : pc[b] \in {"lock", "body"} => md'[at[b]].name = md[at[b]].name
    BY <1>1, <1>2, <1>3, <1>6, <2>1, SpdkSide
  <2> QED BY <1>1, <1>6, <2>2, ChangeEndsDInv
<1> QED BY <1>4, <1>5, <1>6 DEF MakeArray

\* While a handler has the lock of a record, no client works on that record; while it
\* also has the mutex of the table, no client is about to lock one.
LEMMA Excluded ==
  ASSUME CInv, pc[Spdk] = "body", NEW b \in Clients
  PROVE  /\ pc[b] = "body" => at[b] # at[Spdk]
         /\ call[serving].op \in Creates => pc[b] # "lock"
<1>1. b # Spdk /\ b \in Actors /\ Spdk \in Actors
  BY Numbers
<1> QED BY <1>1 DEF CInv, TableHeld, RecordHeld, HoldsTable, CallOf

\* The two records a handler that creates may leave.
LEMMA NewRecords ==
  ASSUME NEW r \in AllCalls, r.op \in Creates
  PROVE  /\ Fresh(r) \in RecordSet /\ Sound(Fresh(r)) /\ Exact(Fresh(r))
         /\ Fresh(r).active /\ Fresh(r).name = r.name /\ Fresh(r).disks = r.disks
         /\ [Blank EXCEPT !.active = TRUE, !.name = r.name] \in RecordSet
         /\ Sound([Blank EXCEPT !.active = TRUE, !.name = r.name])
         /\ [Blank EXCEPT !.active = TRUE, !.name = r.name].active
         /\ [Blank EXCEPT !.active = TRUE, !.name = r.name].name = r.name
<1>1. r.name \in Names /\ r.disks \in [Positions -> Disks]
  BY CallTypes
<1>2. 0 \in 0 .. Width /\ 0 \in 0 .. Full /\ Width \in Nat
  BY SizesAssumption
<1>3. /\ Fresh(r) \in RecordSet /\ Fresh(r).failed = 0 /\ FaultyOf(Fresh(r)) = {}
      /\ Fresh(r).active /\ Fresh(r).name = r.name /\ Fresh(r).disks = r.disks
  BY <1>1, <1>2 DEF Fresh, RecordSet, FaultyOf
<1> DEFINE half == [Blank EXCEPT !.active = TRUE, !.name = r.name]
<1>4. half \in RecordSet /\ half.failed = 0 /\ half.active /\ half.name = r.name
  BY <1>1, <1>2 DEF Blank, RecordSet
<1> HIDE DEF half
<1>5. FaultyOf(half) \in SUBSET Positions
  BY DEF FaultyOf
<1>6. Cardinality(FaultyOf(half)) >= 0
  BY <1>2, <1>5, FaultySize
<1>7. Sound(half)
  BY <1>4, <1>6 DEF Sound
<1>8. Sound(Fresh(r)) /\ Exact(Fresh(r))
  BY <1>3, FS_EmptySet DEF Sound, Exact
<1> QED BY <1>3, <1>4, <1>7, <1>8 DEF half

\* A handler that creates writes a record of the new name: no other record has it.
LEMMA Filling ==
  ASSUME CInv, DInv, pc[Spdk] = "body", call[serving].op \in Creates,
         NEW rec \in RecordSet, rec.active, rec.name = call[serving].name, Sound(rec),
         md' = [md EXCEPT ![at[Spdk]] = rec], skewed' = skewed \ {at[Spdk]},
         UNCHANGED <<created, base, at>>,
         \/ Exact(rec) /\ rec.disks = call[serving].disks
         \/ pc'[Spdk] = "undo"
  PROVE  /\ DataTypes' /\ OneRecordPerName'
         /\ \A i \in Records : RecordTrue(i)'
         /\ \A b \in Clients : pc[b] \in {"lock", "body"} => md'[at[b]].name = md[at[b]].name
<1> DEFINE k == at[Spdk]
           n == call[serving].name
<1>1. /\ DataTypes /\ OneRecordPerName /\ \A i \in Records : RecordTrue(i)
      /\ ControlTypes /\ k \in Records /\ \A b \in Clients : at[b] \in Records
  BY Numbers DEF DInv, CInv, ControlTypes
<1>2. n \in created /\ base[n] = call[serving].disks /\ Active(n) = {}
  BY DEF DInv, Making, InUndo, Active
<1>3. md'[k] = rec /\ \A i \in Records \ {k} : md'[i] = md[i]
  BY <1>1 DEF DataTypes
<1>4. DataTypes'
  BY <1>1 DEF DataTypes
<1>5. OneRecordPerName'
  BY <1>1, <1>2, <1>3 DEF OneRecordPerName, Active
<1>6. ASSUME NEW i \in Records PROVE RecordTrue(i)'
  <2>1. CASE i # k
    <3>1. RecordTrue(i) /\ ~InUndo(i) /\ ~InUndo(i)' /\ (i \in skewed <=> i \in skewed')
      BY <1>1, <2>1 DEF InUndo
    <3>2. Agrees(i) <=> Agrees(i)'
      BY <1>3, <2>1 DEF Agrees
    <3> QED BY <1>3, <2>1, <3>1, <3>2 DEF RecordTrue
  <2>2. CASE i = k
    <3>1. Agrees(i)' \/ pc'[Spdk] = "undo"
      BY <1>2, <1>3, <2>2 DEF Agrees
    <3> QED BY <1>3, <2>2, <3>1 DEF RecordTrue, InUndo
  <2> QED BY <2>1, <2>2
<1>7. ASSUME NEW b \in Clients, pc[b] \in {"lock", "body"}
      PROVE  md'[at[b]].name = md[at[b]].name
  BY <1>1, <1>3, <1>7, Excluded
<1> QED BY <1>4, <1>5, <1>6, <1>7

LEMMA FillRecordDInv ==
  ASSUME CInv, DInv, FillRecord
  PROVE  DInv'
<1> DEFINE rec == Fresh(call[serving])
<1>1. /\ pc[Spdk] = "body" /\ call[serving].op \in Creates /\ call[serving] \in AllCalls
      /\ md' = [md EXCEPT ![at[Spdk]] = rec] /\ skewed' = skewed \ {at[Spdk]}
      /\ Finished(Spdk) /\ UNCHANGED <<created, base, at>>
  BY CallOfTypes, Numbers DEF FillRecord, spdkVars
<1>2. /\ rec \in RecordSet /\ rec.active /\ rec.name = call[serving].name /\ Sound(rec)
      /\ Exact(rec) /\ rec.disks = call[serving].disks
  BY <1>1, NewRecords
<1> HIDE DEF rec
<1>3. /\ DataTypes' /\ OneRecordPerName'
      /\ \A i \in Records : RecordTrue(i)'
      /\ \A b \in Clients : pc[b] \in {"lock", "body"} => md'[at[b]].name = md[at[b]].name
  BY <1>1, <1>2, Filling
<1> QED BY <1>1, <1>3, ChangeEndsDInv

LEMMA FillFailsDInv ==
  ASSUME CInv, DInv, FillFails
  PROVE  DInv'
<1> DEFINE rec == [Blank EXCEPT !.active = TRUE, !.name = call[serving].name]
           k   == at[Spdk]
           n   == call[serving].name
<1>1. /\ pc[Spdk] = "body" /\ call[serving].op \in Creates /\ call[serving] \in AllCalls
      /\ md' = [md EXCEPT ![k] = rec] /\ skewed' = skewed \ {k}
      /\ pc' = [pc EXCEPT ![Spdk] = "undo"]
      /\ UNCHANGED <<created, base, at, call, serving>>
      /\ Spdk \in Actors /\ ControlTypes
  BY CallOfTypes, Numbers DEF FillFails, spdkVars
<1>2. rec \in RecordSet /\ rec.active /\ rec.name = n /\ Sound(rec)
  BY <1>1, NewRecords
<1> HIDE DEF rec
<1>3. pc'[Spdk] = "undo" /\ at' = [at EXCEPT ![Spdk] = k] /\ k \in Records
  BY <1>1 DEF ControlTypes
<1>4. /\ DataTypes' /\ OneRecordPerName'
      /\ \A i \in Records : RecordTrue(i)'
      /\ \A b \in Clients : pc[b] \in {"lock", "body"} => md'[at[b]].name = md[at[b]].name
  BY <1>1, <1>2, <1>3, Filling
<1>5. OthersKeep(Spdk)
  BY <1>1, <1>3, MovesKeep
<1>6. Found(Spdk)' /\ SpdkFound'
  BY <1>3 DEF Found, SpdkFound
<1>7. Making'
  <2>1. n \in created /\ base[n] = call[serving].disks /\ Active(n) = {}
    BY <1>1 DEF DInv, Making, InUndo, Active
  <2>2. \A i \in Records \ {k} : md'[i] = md[i]
    BY <1>1 DEF DInv, DataTypes
  <2>3. Active(n)' \subseteq {k}
    BY <1>1, <2>1, <2>2 DEF Active
  <2> QED BY <1>1, <1>3, <2>1, <2>3 DEF Making, InUndo
<1> QED BY <1>4, <1>5, <1>6, <1>7, ChangeDInv

LEMMA UndoFillDInv ==
  ASSUME CInv, DInv, UndoFill
  PROVE  DInv'
<1> DEFINE k    == at[Spdk]
           n    == call[serving].name
           none == [p \in Positions |-> NoDisk]
<1>1. /\ pc[Spdk] = "undo" /\ md' = [md EXCEPT ![k].active = FALSE]
      /\ base' = [base EXCEPT ![n] = none] /\ created' \in {created, created \ {n}}
      /\ Finished(Spdk) /\ UNCHANGED <<skewed, at>>
  BY DEF UndoFill, TakenDown
<1>2. call[serving] \in AllCalls /\ call[serving].op \in Creates /\ k \in Records /\ ControlTypes
  BY <1>1, CallOfTypes, Numbers DEF SpdkAt
<1>3. n \in Names
  BY <1>2, CallTypes
<1>4. DataTypes /\ OneRecordPerName /\ \A i \in Records : RecordTrue(i)
  BY DEF DInv
<1>5. \A i \in Records \ {k} : md[i].active => md[i].name # n
  BY <1>1, <1>2 DEF DInv, Making, InUndo, Active
<1>6. /\ \A i \in Records \ {k} : md'[i] = md[i]
      /\ md'[k] \in RecordSet /\ ~md'[k].active /\ md'[k].name = md[k].name
  <2>1. md[k] \in RecordSet
    BY <1>2, <1>4 DEF DataTypes
  <2>2. /\ md' = [md EXCEPT ![k] = [md[k] EXCEPT !.active = FALSE]]
        /\ [md[k] EXCEPT !.active = FALSE] \in RecordSet
        /\ ~[md[k] EXCEPT !.active = FALSE].active
        /\ [md[k] EXCEPT !.active = FALSE].name = md[k].name
    BY <1>1, <2>1 DEF RecordSet
  <2> QED BY <1>2, <1>4, <2>2 DEF DataTypes
<1>7. DataTypes'
  <2>1. md' \in [Records -> RecordSet]
    BY <1>1, <1>2, <1>4, <1>6 DEF DataTypes
  <2> QED BY <1>1, <1>3, <1>4, <2>1 DEF DataTypes
<1>8. OneRecordPerName'
  BY <1>4, <1>6 DEF OneRecordPerName
<1>9. ASSUME NEW i \in Records PROVE RecordTrue(i)'
  <2>1. CASE i # k /\ md[i].active
    <3>1. RecordTrue(i) /\ ~InUndo(i) /\ md'[i] = md[i] /\ md[i].name # n
      BY <1>4, <1>5, <1>6, <2>1 DEF InUndo
    <3>2. Agrees(i) /\ md[i].name \in created /\ md[i].name \in Names
      BY <1>4, <2>1, <3>1 DEF RecordTrue, Agrees, DataTypes
    <3>3. base'[md[i].name] = base[md[i].name] /\ md[i].name \in created'
      BY <1>1, <1>4, <3>1, <3>2 DEF DataTypes
    <3>4. Agrees(i)'
      BY <3>1, <3>2, <3>3 DEF Agrees
    <3> QED BY <1>1, <3>1, <3>4 DEF RecordTrue
  <2>2. CASE i = k \/ ~md[i].active
    BY <1>6, <2>2 DEF RecordTrue
  <2> QED BY <2>1, <2>2
<1>10. \A b \in Clients : pc[b] \in {"lock", "body"} => md'[at[b]].name = md[at[b]].name
  BY <1>2, <1>6, Numbers DEF ControlTypes
<1> QED BY <1>1, <1>7, <1>8, <1>9, <1>10, ChangeEndsDInv
-----------------------------------------------------------------------------
(***************************************************************************)
(* The steps that write a record under its lock.                           *)
(***************************************************************************)
LEMMA ConcludeDInv ==
  ASSUME CInv, DInv, NEW a \in Actors, pc[a] = "body",
         NEW rec, Conclude(a, rec), Keeps(md[at[a]], rec), UNCHANGED spdkVars
  PROVE  DInv'
<1>1. /\ md' = [md EXCEPT ![at[a]] = rec] /\ Finished(a) /\ UNCHANGED <<at, skewed>>
      /\ UNCHANGED <<created, base>> /\ rec \in RecordSet
      /\ at[a] \in Records /\ md \in [Records -> RecordSet]
  BY DEF Conclude, Written, spdkVars, Keeps, CInv, ControlTypes, DInv, DataTypes
<1>2. OthersKeep(a) /\ pc'[a] = "idle"
  BY <1>1, FinishedKeeps
<1>3. md' \in [Records -> RecordSet] /\ \A i \in Records : Keeps(md[i], md'[i])
  BY <1>1 DEF Keeps, SameArray
<1>4. Found(a)' /\ (a = Spdk => SpdkFound' /\ Making')
  BY <1>2 DEF Found, SpdkFound, Making
<1> QED BY <1>1, <1>2, <1>3, <1>4, SoftDInv

\* A handler that has the lock of a record works on an active array of its name.
LEMMA HandlersRecord ==
  ASSUME CInv, DInv, pc[Spdk] = "body", call[serving].op \notin Creates
  PROVE  /\ at[Spdk] \in Records /\ md[at[Spdk]] \in RecordSet /\ Sound(md[at[Spdk]])
         /\ md[at[Spdk]].active /\ md[at[Spdk]].name = call[serving].name
         /\ call[serving] \in AllCalls /\ call[serving].op # "examine"
         /\ Agrees(at[Spdk])
         /\ at[Spdk] \notin skewed => Exact(md[at[Spdk]])
<1>1. at[Spdk] \in Records /\ call[serving] \in AllCalls /\ call[serving].op # "examine"
  BY CallOfTypes, Numbers DEF SpdkAt
<1>2. md[at[Spdk]] \in RecordSet /\ md[at[Spdk]].active
  BY <1>1 DEF DInv, DataTypes, SpdkFound
<1>3. md[at[Spdk]].name = call[serving].name
  BY Numbers DEF DInv, Found, CallOf
<1>4. RecordTrue(at[Spdk]) /\ ~InUndo(at[Spdk])
  BY <1>1 DEF DInv, InUndo
<1> QED BY <1>1, <1>2, <1>3, <1>4 DEF RecordTrue

LEMMA FirstPosition ==
  ASSUME NEW i, NEW d, PositionsOf(i, d) # {}
  PROVE  First(PositionsOf(i, d)) \in PositionsOf(i, d) /\ First(PositionsOf(i, d)) \in Positions
<1>1. PositionsOf(i, d) \in SUBSET Positions /\ PositionsOf(i, d) \in SUBSET Nat
  BY Numbers DEF PositionsOf
<1>2. First(PositionsOf(i, d)) \in PositionsOf(i, d)
  BY <1>1, FirstIsMember
<1> QED BY <1>1, <1>2

\* The handlers of the SPDK thread that leave the array what it is.
LEMMA HandlersDInv ==
  ASSUME CInv, DInv,
         \/ AddSpare \/ RemoveSpare \/ FailDisk \/ SetDiskState
         \/ Rebuild \/ StartRebuild \/ StopRebuild \/ Detail
  PROVE  DInv'
<1> DEFINE i   == at[Spdk]
           r   == call[serving]
           rec == md[i]
<1>1. pc[Spdk] = "body" /\ r.op \notin Creates /\ UNCHANGED spdkVars
  BY DEF AddSpare, RemoveSpare, FailDisk, SetDiskState, Rebuild, StartRebuild, StopRebuild,
         Detail, InBody, Creates, CallOf
<1>2. i \in Records /\ rec \in RecordSet /\ Sound(rec) /\ r \in AllCalls
  BY <1>1, HandlersRecord
<1>3. ASSUME NEW new, Conclude(Spdk, new), Keeps(rec, new)
      PROVE  DInv'
  BY <1>1, <1>3, ConcludeDInv, Numbers
<1>4. Keeps(rec, rec)
  BY <1>2 DEF Keeps, SameArray
<1>5. Keeps(rec, Rebuilding(rec))
  <2>1. 0 \in 0 .. Full
    BY SizesAssumption
  <2>2. Rebuilding(rec) \in RecordSet /\ SameArray(rec, Rebuilding(rec))
    BY <1>2, <2>1 DEF Rebuilding, RecordSet, SameArray
  <2>3. /\ Rebuilding(rec).ok = rec.ok /\ Rebuilding(rec).failed = rec.failed
        /\ Rebuilding(rec).degraded = rec.degraded
    BY <1>2 DEF Rebuilding, RecordSet
  <2> QED BY <1>2, <2>2, <2>3, FlagsKeep
<1>6. CASE Detail
  BY <1>3, <1>4, <1>6 DEF Detail
<1>7. ASSUME NEW s \in SUBSET Disks
      PROVE  Keeps(rec, [rec EXCEPT !.spares = s])
  <2> DEFINE new == [rec EXCEPT !.spares = s]
  <2>1. /\ new \in RecordSet /\ SameArray(rec, new)
        /\ new.ok = rec.ok /\ new.failed = rec.failed /\ new.degraded = rec.degraded
    BY <1>2 DEF RecordSet, SameArray
  <2> HIDE DEF new
  <2>2. Keeps(rec, new)
    BY <1>2, <2>1, FlagsKeep
  <2> QED BY <2>2 DEF new
<1>8. CASE AddSpare \/ RemoveSpare
  <2>1. r.disk \in Disks /\ rec.spares \in SUBSET Disks
    <3>1. r.op \in {"add spare", "remove spare"}
      BY <1>8 DEF AddSpare, RemoveSpare, InBody, CallOf
    <3> QED BY <1>2, <3>1, CallTypes, RecordFields
  <2>2. Keeps(rec, [rec EXCEPT !.spares = @ \cup {r.disk}])
    <3>1. rec.spares \cup {r.disk} \in SUBSET Disks
      BY <2>1
    <3> QED BY <3>1, <1>7
  <2>3. Keeps(rec, [rec EXCEPT !.spares = @ \ {r.disk}])
    <3>1. rec.spares \ {r.disk} \in SUBSET Disks
      BY <2>1
    <3> QED BY <3>1, <1>7
  <2>4. CASE AddSpare
    BY <1>3, <1>4, <2>2, <2>4 DEF AddSpare
  <2>5. CASE RemoveSpare
    BY <1>3, <2>3, <2>5 DEF RemoveSpare
  <2> QED BY <1>8, <2>4, <2>5
<1>9. CASE FailDisk
  <2>1. r.position \in Positions
    BY <1>2, <1>9, CallTypes DEF FailDisk, InBody, CallOf
  <2>2. Keeps(rec, Fail(rec, r.position))
    BY <1>2, <2>1, FailKeeps
  <2> QED BY <1>3, <1>9, <2>2 DEF FailDisk
<1>10. CASE SetDiskState
  <2> DEFINE P == PositionsOf(i, r.disk)
             p == First(P)
  <2>1. P # {} => Keeps(rec, Fail(rec, p)) /\ Keeps(rec, Recover(rec, p))
    BY <1>2, FirstPosition, FailKeeps, RecoverKeeps
  <2>2. \/ P # {} /\ Conclude(Spdk, Fail(rec, p))
        \/ P # {} /\ Conclude(Spdk, Recover(rec, p))
        \/ Conclude(Spdk, rec)
    BY <1>10 DEF SetDiskState
  <2> HIDE DEF P, p, rec
  <2> QED BY <1>3, <1>4, <2>1, <2>2
<1>11. CASE Rebuild
  BY <1>3, <1>4, <1>5, <1>11 DEF Rebuild
<1>12. CASE StartRebuild
  BY <1>3, <1>4, <1>5, <1>12 DEF StartRebuild
<1>13. CASE StopRebuild
  <2> DEFINE new == [rec EXCEPT !.rebuild = FALSE]
  <2>1. /\ new \in RecordSet /\ SameArray(rec, new)
        /\ new.ok = rec.ok /\ new.failed = rec.failed /\ new.degraded = rec.degraded
    BY <1>2 DEF RecordSet, SameArray
  <2>2. Conclude(Spdk, new)
    BY <1>13 DEF StopRebuild
  <2> HIDE DEF new
  <2> QED BY <1>2, <1>3, <2>1, <2>2, FlagsKeep
<1> QED BY <1>6, <1>8, <1>9, <1>10, <1>11, <1>12, <1>13

\* The functions of the callers' threads.
LEMMA CallersDInv ==
  ASSUME CInv, DInv, NEW c \in Clients, UpdateProgress(c) \/ GetProgress(c)
  PROVE  DInv'
<1> DEFINE i   == at[c]
           rec == md[i]
           p   == call[c].progress
           moved == [rec EXCEPT !.progress = p, !.rebuild = p # Full,
                                !.degraded = @ /\ (p # Full \/ rec.failed # 0)]
<1>1. /\ pc[c] = "body" /\ UNCHANGED spdkVars /\ c \in Actors
      /\ Conclude(c, rec) \/ (call[c].op = "update progress" /\ Conclude(c, moved))
  <2>1. pc[c] = "body" /\ UNCHANGED spdkVars /\ c \in Actors
    BY Numbers DEF UpdateProgress, GetProgress, InBody
  <2>2. CASE UpdateProgress(c)
    <3>1. Conclude(c, IF rec.rebuild THEN moved ELSE rec)
      BY <2>2 DEF UpdateProgress
    <3>2. call[c].op = "update progress"
      BY <2>2, Numbers DEF UpdateProgress, InBody, CallOf
    <3> HIDE DEF moved, rec
    <3> QED BY <2>1, <3>1, <3>2
  <2>3. CASE GetProgress(c)
    BY <2>1, <2>3 DEF GetProgress
  <2> QED BY <2>2, <2>3
<1>2. i \in Records /\ rec \in RecordSet /\ call[c] \in AllCalls
  BY <1>1, CallOfTypes DEF DInv, DataTypes
<1>3. ASSUME NEW new, Conclude(c, new), Keeps(rec, new)
      PROVE  DInv'
  BY <1>1, <1>3, ConcludeDInv
<1>4. Keeps(rec, rec)
  BY <1>2 DEF Keeps, SameArray
<1>5. CASE call[c].op = "update progress" /\ Conclude(c, moved)
  <2>1. p \in 0 .. Full /\ rec.degraded \in BOOLEAN /\ rec.failed \in 0 .. Width
    BY <1>2, <1>5, CallTypes, RecordFields
  <2>2. moved \in RecordSet
    <3>1. (rec.degraded /\ (p # Full \/ rec.failed # 0)) \in BOOLEAN /\ (p # Full) \in BOOLEAN
      BY <2>1
    <3> QED BY <1>2, <2>1, <3>1 DEF RecordSet
  <2>3. /\ SameArray(rec, moved) /\ moved.ok = rec.ok /\ moved.failed = rec.failed
        /\ moved.degraded = (rec.degraded /\ (p # Full \/ rec.failed # 0))
    BY <1>2 DEF RecordSet, SameArray
  <2> HIDE DEF moved
  <2>4. rec.degraded /\ rec.failed > 0 => moved.degraded
    <3>1. rec.failed > 0 => rec.failed # 0
      BY <2>1, SizesAssumption
    <3>2. (rec.degraded /\ (p # Full \/ rec.failed # 0)) = moved.degraded
      BY <2>3
    <3> QED BY <3>1, <3>2
  <2>5. Keeps(rec, moved)
    BY <1>2, <2>2, <2>3, <2>4, FlagsKeep
  <2> QED BY <1>3, <1>5, <2>5
<1> QED BY <1>1, <1>3, <1>4, <1>5

\* An array is stopped: its record gives up the name together with SPDK.
LEMMA StopDInv ==
  ASSUME CInv, DInv, Stop
  PROVE  DInv'
<1> DEFINE k    == at[Spdk]
           n    == call[serving].name
           none == [p \in Positions |-> NoDisk]
<1>1. pc[Spdk] = "body" /\ call[serving].op = "stop"
  BY DEF Stop, InBody, CallOf
<1>2. /\ k \in Records /\ md[k] \in RecordSet /\ md[k].active /\ md[k].name = n /\ n \in Names
      /\ ControlTypes /\ DataTypes /\ OneRecordPerName /\ \A i \in Records : RecordTrue(i)
  <2>1. k \in Records /\ md[k] \in RecordSet /\ md[k].active /\ md[k].name = n
        /\ call[serving] \in AllCalls
    BY <1>1, HandlersRecord DEF Creates
  <2> QED BY <1>1, <2>1, CallTypes DEF DInv, CInv
<1>3. CASE Conclude(Spdk, md[k]) /\ UNCHANGED spdkVars
  <2>1. Keeps(md[k], md[k])
    BY <1>2 DEF Keeps, SameArray
  <2> QED BY <1>1, <1>3, <2>1, ConcludeDInv, Numbers
<1>4. CASE /\ created' = created \ {n} /\ base' = [base EXCEPT ![n] = none]
           /\ Conclude(Spdk, Freed(md[k]))
  <2>1. /\ Freed(md[k]) \in RecordSet /\ ~Freed(md[k]).active
        /\ Freed(md[k]).name = md[k].name
    BY <1>2 DEF Freed, RecordSet
  <2>2. /\ md' = [md EXCEPT ![k] = Freed(md[k])] /\ Finished(Spdk) /\ UNCHANGED <<at, skewed>>
    BY <1>4 DEF Conclude, Written
  <2>3. md'[k] = Freed(md[k]) /\ \A i \in Records \ {k} : md'[i] = md[i]
    BY <1>2, <2>2 DEF DataTypes
  <2>4. DataTypes'
    <3>1. md' \in [Records -> RecordSet]
      BY <1>2, <2>1, <2>2 DEF DataTypes
    <3>2. none \in [Positions -> Disks \cup {NoDisk}]
      OBVIOUS
    <3> HIDE DEF none
    <3> QED BY <1>2, <1>4, <2>2, <3>1, <3>2 DEF DataTypes
  <2>5. OneRecordPerName'
    BY <1>2, <2>1, <2>3 DEF OneRecordPerName
  <2>6. ASSUME NEW i \in Records PROVE RecordTrue(i)'
    <3>1. CASE i # k /\ md[i].active
      <4>1. RecordTrue(i) /\ ~InUndo(i) /\ md'[i] = md[i] /\ md[i].name # n
        BY <1>1, <1>2, <2>3, <3>1 DEF InUndo, OneRecordPerName
      <4>2. Agrees(i) /\ md[i].name \in created /\ md[i].name \in Names
        BY <1>2, <3>1, <4>1 DEF RecordTrue, Agrees, DataTypes
      <4>3. base'[md[i].name] = base[md[i].name] /\ md[i].name \in created'
        BY <1>2, <1>4, <4>1, <4>2 DEF DataTypes
      <4>4. Agrees(i)'
        BY <4>1, <4>2, <4>3 DEF Agrees
      <4> QED BY <2>2, <4>1, <4>4 DEF RecordTrue
    <3>2. CASE i = k \/ ~md[i].active
      BY <2>1, <2>3, <3>2 DEF RecordTrue
    <3> QED BY <3>1, <3>2
  <2>7. \A b \in Clients : pc[b] \in {"lock", "body"} => md'[at[b]].name = md[at[b]].name
    BY <1>2, <2>1, <2>3, Numbers DEF ControlTypes
  <2> QED BY <1>1, <2>2, <2>4, <2>5, <2>6, <2>7, ChangeEndsDInv
<1> QED BY <1>3, <1>4 DEF Stop

\* A disk is replaced in SPDK first: what the record says about the array may be ahead
\* of SPDK by a hole, never by another disk.
LEMMA ReplaceDiskDInv ==
  ASSUME CInv, DInv, ReplaceDisk
  PROVE  DInv'
<1> DEFINE k == at[Spdk]
           r == call[serving]
           p == First(PositionsOf(k, r.old))
           rec == Replaced(md[k], p, r)
<1>1. pc[Spdk] = "body" /\ r.op = "replace disk"
  BY DEF ReplaceDisk, InBody, CallOf
<1>2. /\ k \in Records /\ md[k] \in RecordSet /\ Sound(md[k])
      /\ md[k].active /\ md[k].name = r.name /\ Agrees(k) /\ (k \notin skewed => Exact(md[k]))
      /\ r \in AllCalls
  BY <1>1, HandlersRecord DEF Creates
<1>3. r.name \in Names /\ r.new \in Disks /\ r.auto \in BOOLEAN
  BY <1>1, <1>2, CallTypes
<1>4. /\ ControlTypes /\ DataTypes /\ OneRecordPerName /\ \A i \in Records : RecordTrue(i)
  BY DEF DInv, CInv
<1>5. CASE Conclude(Spdk, md[k]) /\ UNCHANGED spdkVars
  <2>1. Keeps(md[k], md[k])
    BY <1>2 DEF Keeps, SameArray
  <2> QED BY <1>1, <1>5, <2>1, ConcludeDInv, Numbers
<1>6. PositionsOf(k, r.old) # {} => p \in Positions
  BY FirstPosition
<1> HIDE DEF p
<1>7. ASSUME p \in Positions, NEW d \in Disks \cup {NoDisk}, base' = [base EXCEPT ![r.name][p] = d]
      PROVE  /\ base' \in [Names -> [Positions -> Disks \cup {NoDisk}]]
             /\ base'[r.name][p] = d
             /\ \A q \in Positions \ {p} : base'[r.name][q] = base[r.name][q]
             /\ \A m \in Names \ {r.name} : base'[m] = base[m]
  <2>1. base[r.name] \in [Positions -> Disks \cup {NoDisk}]
    BY <1>3, <1>4 DEF DataTypes
  <2>2. [base[r.name] EXCEPT ![p] = d] \in [Positions -> Disks \cup {NoDisk}]
    BY <1>7, <2>1
  <2>3. base' = [base EXCEPT ![r.name] = [base[r.name] EXCEPT ![p] = d]]
    BY <1>7
  <2> QED BY <1>3, <1>4, <1>7, <2>1, <2>2, <2>3 DEF DataTypes
<1>8. CASE /\ p \in Positions /\ base' = [base EXCEPT ![r.name][p] = NoDisk]
           /\ Conclude(Spdk, md[k]) /\ UNCHANGED created
  <2>1. md' = md /\ Finished(Spdk) /\ UNCHANGED <<at, skewed>>
    BY <1>2, <1>4, <1>8 DEF Conclude, Written, DataTypes
  <2>2. /\ base' \in [Names -> [Positions -> Disks \cup {NoDisk}]]
        /\ base'[r.name][p] = NoDisk
        /\ \A q \in Positions \ {p} : base'[r.name][q] = base[r.name][q]
        /\ \A m \in Names \ {r.name} : base'[m] = base[m]
    BY <1>7, <1>8
  <2>3. DataTypes' /\ OneRecordPerName'
    BY <1>4, <1>8, <2>1, <2>2 DEF DataTypes, OneRecordPerName
  <2>4. ASSUME NEW i \in Records PROVE RecordTrue(i)'
    <3>1. Agrees(i) => Agrees(i)'
      BY <1>4, <1>8, <2>1, <2>2 DEF Agrees, DataTypes
    <3> QED BY <1>1, <1>4, <2>1, <3>1 DEF RecordTrue, InUndo
  <2> QED BY <1>1, <2>1, <2>3, <2>4, ChangeEndsDInv
<1>9. CASE /\ p \in Positions /\ base' = [base EXCEPT ![r.name][p] = r.new]
           /\ Written(Spdk, rec) /\ skewed' = Skewed(k, p) /\ UNCHANGED created
  <2>1. /\ rec \in RecordSet /\ rec.active /\ rec.name = r.name
        /\ rec.disks = [md[k].disks EXCEPT ![p] = r.new]
        /\ Sound(rec)
        /\ Exact(md[k]) /\ ~(md[k].ok[p] /\ md[k].failed > 0) => Exact(rec)
    BY <1>2, <1>3, <1>9, ReplacedRecord
  <2> HIDE DEF rec
  <2>2. md' = [md EXCEPT ![k] = rec] /\ Finished(Spdk) /\ UNCHANGED at
    BY <1>9 DEF Written
  <2>3. md'[k] = rec /\ \A i \in Records \ {k} : md'[i] = md[i]
    BY <1>2, <1>4, <2>2 DEF DataTypes
  <2>4. /\ base' \in [Names -> [Positions -> Disks \cup {NoDisk}]]
        /\ base'[r.name][p] = r.new
        /\ \A q \in Positions \ {p} : base'[r.name][q] = base[r.name][q]
        /\ \A m \in Names \ {r.name} : base'[m] = base[m]
    BY <1>3, <1>7, <1>9
  <2>5. /\ skewed \subseteq skewed' /\ skewed' \subseteq skewed \cup {k}
        /\ k \notin skewed' => ~(md[k].ok[p] /\ md[k].failed > 0)
    BY <1>9 DEF Skewed
  <2>6. DataTypes'
    BY <1>2, <1>4, <1>9, <2>1, <2>2, <2>4, <2>5 DEF DataTypes
  <2>7. OneRecordPerName'
    BY <1>2, <1>4, <2>1, <2>3 DEF OneRecordPerName
  <2>8. ASSUME NEW i \in Records PROVE RecordTrue(i)'
    <3>1. CASE i # k /\ md[i].active
      <4>1. RecordTrue(i) /\ ~InUndo(i) /\ md'[i] = md[i] /\ md[i].name # r.name
        BY <1>1, <1>2, <1>4, <2>3, <3>1 DEF InUndo, OneRecordPerName
      <4>2. Agrees(i) /\ md[i].name \in Names
        BY <1>4, <3>1, <4>1 DEF RecordTrue, Agrees, DataTypes
      <4>3. Agrees(i)'
        BY <1>9, <2>4, <4>1, <4>2 DEF Agrees
      <4> QED BY <2>5, <3>1, <4>1, <4>3 DEF RecordTrue
    <3>2. CASE i = k
      <4>1. Agrees(i)'
        <5>1. \A q \in Positions : base'[r.name][q] \in {rec.disks[q], NoDisk}
          BY <1>2, <2>1, <2>4, RecordFields DEF Agrees
        <5>2. md'[i] = rec /\ r.name \in created'
          BY <1>2, <1>9, <2>3, <3>2 DEF Agrees
        <5> QED BY <2>1, <5>1, <5>2 DEF Agrees
      <4>2. k \notin skewed' => Exact(rec)
        BY <1>2, <2>1, <2>5
      <4> QED BY <2>1, <2>3, <3>2, <4>1, <4>2 DEF RecordTrue
    <3>3. CASE i # k /\ ~md[i].active
      BY <2>3, <3>3 DEF RecordTrue
    <3> QED BY <3>1, <3>2, <3>3
  <2>9. \A b \in Clients : pc[b] \in {"lock", "body"} => md'[at[b]].name = md[at[b]].name
    BY <1>2, <1>4, <2>1, <2>3, Numbers DEF ControlTypes
  <2> QED BY <1>1, <2>2, <2>6, <2>7, <2>8, <2>9, ChangeEndsDInv
<1> QED BY <1>5, <1>6, <1>8, <1>9 DEF ReplaceDisk, p

LEMMA EndedDInv ==
  ASSUME CInv, DInv, NEW a \in Actors, pc[a] \in {"look", "table"}, Finished(a),
         UNCHANGED <<md, skewed, created, base, at>>
  PROVE  DInv'
<1>1. OthersKeep(a) /\ pc'[a] = "idle"
  BY FinishedKeeps
<1> QED BY <1>1, EndsDInv

LEMMA ModuleDInv ==
  ASSUME CInv, DInv, ModuleInit \/ ModuleFini
  PROVE  DInv'
<1>1. (\A a \in Actors : pc[a] = "idle") /\ UNCHANGED <<created, base, pc, at, call, serving>>
  BY DEF CInv, Quiet, ModuleInit, ModuleFini, spdkVars
<1>2. \A a \in Actors : Found(a)'
  BY <1>1 DEF Found
<1>3. SpdkFound' /\ Making'
  BY <1>1, Numbers DEF SpdkFound, Making
<1>4. CASE ModuleInit
  <2>1. Blank \in RecordSet /\ ~Blank.active
    BY SizesAssumption DEF Blank, RecordSet
  <2>2. md' = [i \in Records |-> Blank] /\ skewed' = {}
    BY <1>4 DEF ModuleInit
  <2>3. DataTypes'
    BY <1>1, <2>1, <2>2 DEF DInv, DataTypes
  <2>4. OneRecordPerName' /\ \A i \in Records : RecordTrue(i)'
    BY <2>1, <2>2 DEF OneRecordPerName, RecordTrue
  <2> QED BY <1>2, <1>3, <2>3, <2>4 DEF DInv
<1>5. CASE ModuleFini
  <2>1. UNCHANGED <<md, skewed>>
    BY <1>5 DEF ModuleFini
  <2>2. DataTypes' /\ OneRecordPerName' /\ \A i \in Records : RecordTrue(i)'
    BY <1>1, <2>1 DEF DInv, DataTypes, OneRecordPerName, RecordTrue, Agrees, InUndo
  <2> QED BY <1>2, <1>3, <2>2 DEF DInv
<1> QED BY <1>4, <1>5

\* Every step keeps the data part of the invariant.
LEMMA NextDInv == CInv /\ DInv /\ [Next]_vars => DInv'
<1> SUFFICES ASSUME CInv, DInv, [Next]_vars PROVE DInv'
  OBVIOUS
<1>1. ASSUME NEW a \in Actors,
             LockTable(a) \/ LookAtTable(a) \/ FindRecord(a) \/ NotFound(a) \/ LockRecord(a)
      PROVE  DInv'
  <2>1. CASE LookAtTable(a)
    BY <2>1, EndedDInv DEF LookAtTable, tableVars, spdkVars
  <2> QED BY <1>1, <2>1, LockTableDInv, FindRecordDInv, NotFoundDInv, LockRecordDInv
<1>2. CASE ModuleInit \/ ModuleFini
  BY <1>2, ModuleDInv
<1>3. CASE SpdkStep
  <2>1. CASE \/ AddSpare \/ RemoveSpare \/ FailDisk \/ SetDiskState
             \/ Rebuild \/ StartRebuild \/ StopRebuild \/ Detail
    BY <2>1, HandlersDInv
  <2>2. CASE Stop \/ ReplaceDisk
    BY <2>2, StopDInv, ReplaceDiskDInv
  <2>3. CASE \E c \in Clients : Take(c)
    BY <2>3, TakeDInv
  <2>4. CASE WalkOn(Spdk) \/ LookForMember(Spdk)
    BY <2>4, WalkingDInv
  <2>5. CASE LockTable(Spdk) \/ FindRecord(Spdk) \/ NotFound(Spdk) \/ LockRecord(Spdk)
    BY <2>5, <1>1, Numbers
  <2>6. CASE MakeArray \/ FillRecord \/ FillFails \/ UndoFill
    BY <2>6, MakeArrayDInv, FillRecordDInv, FillFailsDInv, UndoFillDInv
  <2>7. CASE NoSuchDevice
    BY <2>7, EndedDInv, Numbers DEF NoSuchDevice, tableVars, spdkVars
  <2> QED BY <2>1, <2>2, <2>3, <2>4, <2>5, <2>6, <2>7, <1>3 DEF SpdkStep
<1>4. ASSUME NEW c \in Clients, ClientStep(c) \/ EnterCall(c)
      PROVE  DInv'
  <2>1. CASE UpdateProgress(c) \/ GetProgress(c)
    BY <2>1, CallersDInv
  <2>2. CASE EnterCall(c) \/ CheckName(c)
    BY <2>2, EnteringDInv
  <2>3. CASE LockTable(c) \/ LookAtTable(c) \/ FindRecord(c) \/ NotFound(c) \/ LockRecord(c)
    BY <2>3, <1>1, Numbers
  <2> QED BY <2>1, <2>2, <2>3, <1>4 DEF ClientStep
<1>5. CASE UNCHANGED vars
  BY <1>5 DEF vars, DInv, DataTypes, RecordTrue, Agrees, InUndo, OneRecordPerName, Found,
              SpdkFound, Making, Active, CallOf
<1> QED BY <1>2, <1>3, <1>4, <1>5 DEF Next

\* The inductive invariant: who holds which mutex where, and what that says of the data.
IInv == CInv /\ DInv

\* The inductive invariant holds in every reachable state.
THEOREM InvariantHolds == Spec => []IInv
<1>1. Init => IInv
  BY InitCInv, InitDInv DEF IInv
<1>2. IInv /\ [Next]_vars => IInv'
  BY NextCInv, NextDInv DEF IInv
<1> QED BY <1>1, <1>2, PTL DEF Spec
-----------------------------------------------------------------------------
(***************************************************************************)
(* What follows for the properties of RaidTable.                           *)
(***************************************************************************)

\* Every variable has a value of its type: in particular no counter of failed disks is
\* above the number of disks or below zero.
THEOREM TypeCorrect == Spec => []TypeOK
<1>1. IInv => TypeOK
  BY DEF IInv, CInv, DInv, ControlTypes, DataTypes, RecordSet, TypeOK
<1> QED BY <1>1, InvariantHolds, PTL

\* The counter of failed disks of an active array is not above the number of faulty
\* disks, and an array with a counted failure is degraded.
THEOREM FailuresReported == Spec => []FailuresAreReported
<1>1. IInv => FailuresAreReported
  BY DEF IInv, DInv, RecordTrue, Sound, FailuresAreReported, Faulty, FaultyOf
<1> QED BY <1>1, InvariantHolds, PTL

\* As long as no disk in good state is replaced while another has failed, the counter is
\* the number of faulty disks.
THEOREM CountsExact == Spec => []FailedCountIsExact
<1>1. IInv => FailedCountIsExact
  BY DEF IInv, DInv, RecordTrue, Exact, FailedCountIsExact, Faulty, FaultyOf, InUndo
<1> QED BY <1>1, InvariantHolds, PTL

\* A thread that works on a record under its lock works on the array it looked up, though
\* the array may have been stopped, and its record reused, since the name was found.
THEOREM ThreadsWorkOnTheirArray == Spec => []WorksOnItsArray
<1>1. IInv => WorksOnItsArray
  BY DEF IInv, DInv, Found, WorksOnItsArray
<1> QED BY <1>1, InvariantHolds, PTL

\* No two active records have the same name, although the name is checked by the client
\* before the request and never again.
THEOREM NamesUnique == Spec => []OneRecordPerName
<1>1. IInv => OneRecordPerName
  BY DEF IInv, DInv
<1> QED BY <1>1, InvariantHolds, PTL

\* The array of an active record exists in SPDK, with the disks of the record or holes.
THEOREM TableTellsTheTruth == Spec => []TableMatchesSpdk
<1>1. IInv => TableMatchesSpdk
  BY DEF IInv, DInv, RecordTrue, Agrees, TableMatchesSpdk, InUndo
<1> QED BY <1>1, InvariantHolds, PTL
=============================================================================
