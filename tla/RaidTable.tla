------------------------------ MODULE RaidTable ------------------------------
(***************************************************************************)
(* The table of RAID arrays of src/libxbdev/md.c: a fixed number of        *)
(* records, a mutex of the table and a mutex of each record, the handlers  *)
(* that run on the SPDK thread one request at a time, and the functions    *)
(* that read and write records on the caller's own thread.                 *)
(*                                                                         *)
(* Both kinds of code find a record the same way: lock the table, find the *)
(* name, lock the record, unlock the table.  Stopping an array clears its  *)
(* active flag under the lock of the record alone.                         *)
(*                                                                         *)
(* The requests of sync calls wait for the SPDK thread in no order here:   *)
(* the queue itself is modelled in PooledQueue and LockFreeQueue.  SPDK's  *)
(* RAID module is external: an array is a name with a base device or a     *)
(* hole at each position, a base device belongs to one array at most, and  *)
(* every operation may fail.  Names of levels, sizes, strip, layout, uuid  *)
(* and speed are left out; the spare disks of an array are a set, because  *)
(* their order is never used.                                              *)
(***************************************************************************)
EXTENDS Integers, FiniteSets

CONSTANTS Clients,   \* the client threads
          Names,     \* names of arrays, no longer than the 63 characters a record keeps
          Disks,     \* names of base devices
          Width,     \* disk_count of every array
          MaxRaids,  \* XBDEV_MD_MAX_RAIDS
          Full,      \* the rebuild progress that means complete (1.0)
          Ops,       \* the operations the clients call
          Spdk,      \* the SPDK thread
          Nobody,    \* the owner of a free mutex
          NoName, NoDisk

Records   == 1 .. MaxRaids
Positions == 1 .. Width
Actors    == Clients \cup {Spdk}

\* The calls of the library interface, with their arguments.
AllCalls ==
       [op : {"create", "assemble"}, name : Names, disks : [Positions -> Disks]]
  \cup [op : {"stop", "rebuild", "start rebuild", "stop rebuild", "get progress",
              "detail", "run"},
        name : Names]
  \cup [op : {"examine"}, disk : Disks]
  \cup [op : {"list"}]
  \cup [op : {"add spare", "remove spare", "set faulty", "set normal"},
        name : Names, disk : Disks]
  \cup [op : {"fail disk"}, name : Names, position : Positions]
  \cup [op : {"replace disk"}, name : Names, old : Disks, new : Disks, auto : BOOLEAN]
  \cup [op : {"update progress"}, name : Names, progress : 0 .. Full]

Calls == {r \in AllCalls : r.op \in Ops}
NoCall == [op |-> "none"]

Creates == {"create", "assemble"}
Managed == {"add spare", "remove spare", "fail disk", "rebuild"}
LookOnly == {"run", "list"}
OnCallersThread == {"update progress", "get progress"} \cup LookOnly

ASSUME SetsAssumption  == IsFiniteSet(Clients) /\ IsFiniteSet(Names) /\ IsFiniteSet(Disks)
ASSUME SizesAssumption == Width \in Nat /\ MaxRaids \in Nat \ {0} /\ Full \in Nat \ {0}
ASSUME NullAssumption  == /\ NoName \notin Names /\ NoDisk \notin Disks
                          /\ Spdk \notin Clients /\ Nobody \notin Actors

VARIABLES
  ready,     \* g_md_initialized
  md,        \* g_md_devices
  md_mutex,  \* the owner of g_md_mutex
  dev_lock,  \* dev_lock[i]: the owner of the lock of record i
  created,   \* the arrays SPDK has
  base,      \* base[n][p]: the base device of array n at position p
  pc,        \* pc[a]: where thread a is
  call,      \* call[c]: the call client c makes
  at,        \* at[a]: the record thread a has found
  serving,   \* the client whose request the SPDK thread handles
  skewed     \* history: the records where a disk in good state was replaced while
             \* others had failed

tableVars == <<ready, md, skewed>>
lockVars  == <<md_mutex, dev_lock>>
spdkVars  == <<created, base>>
vars == <<ready, md, skewed, md_mutex, dev_lock, created, base, pc, call, at, serving>>

Locations == {"idle", "check", "queued", "waiting", "make", "table", "find", "look",
              "walk", "member", "lock", "body", "undo"}

\* The fields of a record.  ok is disk_state, failed is failed_disk_count.
Blank == [active |-> FALSE, name |-> NoName,
          disks |-> [p \in Positions |-> NoDisk], ok |-> [p \in Positions |-> FALSE],
          failed |-> 0, spares |-> {}, degraded |-> FALSE,
          rebuild |-> FALSE, progress |-> 0]

\* A record as the two handlers that create arrays fill it in.
Fresh(r) == [active |-> TRUE, name |-> r.name,
             disks |-> r.disks, ok |-> [p \in Positions |-> TRUE],
             failed |-> 0, spares |-> {}, degraded |-> FALSE,
             rebuild |-> FALSE, progress |-> 0]

\* A record whose arrays have been freed.
Freed(rec) == [rec EXCEPT !.active = FALSE, !.spares = {},
                          !.disks = [p \in Positions |-> NoDisk],
                          !.ok = [p \in Positions |-> FALSE]]

Members(i) == {md[i].disks[p] : p \in Positions}
Faulty(i)  == {p \in Positions : ~md[i].ok[p]}

\* The base devices SPDK has handed to an array.
Claimed == {base[n][p] : n \in created, p \in Positions} \ {NoDisk}
-----------------------------------------------------------------------------
Init ==
  /\ ready = FALSE
  /\ md = [i \in Records |-> Blank] /\ skewed = {}
  /\ md_mutex = Nobody /\ dev_lock = [i \in Records |-> Nobody]
  /\ created = {} /\ base = [n \in Names |-> [p \in Positions |-> NoDisk]]
  /\ pc = [a \in Actors |-> "idle"]
  /\ call = [c \in Clients |-> NoCall]
  /\ at = [a \in Actors |-> 1]
  /\ serving = Nobody

\* xbdev_md_module_init clears the table, whatever arrays SPDK still has.
ModuleInit ==
  /\ ~ready
  /\ ready' = TRUE
  /\ md' = [i \in Records |-> Blank] /\ skewed' = {}
  /\ UNCHANGED <<lockVars, spdkVars, pc, call, at, serving>>

\* xbdev_md_module_fini, called when no call is in progress: it frees what the
\* records point to, warns about active arrays and stops none of them.
ModuleFini ==
  /\ ready
  /\ \A a \in Actors : pc[a] = "idle"
  /\ ready' = FALSE
  /\ UNCHANGED <<md, skewed, lockVars, spdkVars, pc, call, at, serving>>
-----------------------------------------------------------------------------
(***************************************************************************)
(* Calls.                                                                  *)
(***************************************************************************)

\* The call a thread works on.
CallOf(a) == IF a = Spdk THEN call[serving] ELSE call[a]

\* The positions of a disk in record i, and the first of a set of numbers: the
\* handlers use the first position, and the first record, that fits.
PositionsOf(i, d) == {p \in Positions : md[i].disks[p] = d}
First(S) == CHOOSE i \in S : \A j \in S : i <= j

\* Client c enters one of the calls ops.  Creating and assembling first look for
\* the name; the functions on the caller's thread go to the table; the rest is a
\* request.
Enter(c, ops) ==
  /\ ready
  /\ pc[c] = "idle"
  /\ \E r \in Calls :
       /\ r.op \in ops
       /\ call' = [call EXCEPT ![c] = r]
       /\ pc' = [pc EXCEPT ![c] = CASE r.op \in Creates         -> "check"
                                    [] r.op \in OnCallersThread -> "table"
                                    [] OTHER                    -> "queued"]
  /\ UNCHANGED <<tableVars, lockVars, spdkVars, at, serving>>

\* xbdev_md_create and the five calls that fix its level for the caller (levels are
\* left out).
MdCreate(c)         == Enter(c, {"create"})
MdAssemble(c)       == Enter(c, {"assemble"})
MdStop(c)           == Enter(c, {"stop"})
MdRun(c)            == Enter(c, {"run"})
MdExamine(c)        == Enter(c, {"examine"})
MdDetail(c)         == Enter(c, {"detail"})
MdManage(c)         == Enter(c, Managed)
MdReplaceDisk(c)    == Enter(c, {"replace disk"})
MdStartRebuild(c)   == Enter(c, {"start rebuild"})
MdStopRebuild(c)    == Enter(c, {"stop rebuild"})
MdSetFaulty(c)      == Enter(c, {"set faulty"})
MdSetNormal(c)      == Enter(c, {"set normal"})
MdGetProgress(c)    == Enter(c, {"get progress"})
MdUpdateProgress(c) == Enter(c, {"update progress"})
MdList(c)           == Enter(c, {"list"})

Active(n) == {i \in Records : md[i].active /\ md[i].name = n}

\* xbdev_md_create and xbdev_md_assemble look for the name under the mutex of
\* the table, let go of it and only then hand the request in.
CheckName(c) ==
  /\ pc[c] = "check"
  /\ md_mutex = Nobody
  /\ \/ /\ Active(call[c].name) = {}
        /\ pc' = [pc EXCEPT ![c] = "queued"]
        /\ UNCHANGED call
     \/ /\ Active(call[c].name) # {}
        /\ pc' = [pc EXCEPT ![c] = "idle"]
        /\ call' = [call EXCEPT ![c] = NoCall]
  /\ UNCHANGED <<tableVars, lockVars, spdkVars, at, serving>>

\* xbdev_md_dispatch_request: the SPDK thread turns to the request of client c.
Take(c) ==
  /\ pc[Spdk] = "idle"
  /\ pc[c] = "queued"
  /\ serving' = c
  /\ pc' = [pc EXCEPT ![c] = "waiting",
                      ![Spdk] = IF call[c].op \in Creates THEN "make" ELSE "table"]
  /\ UNCHANGED <<tableVars, lockVars, spdkVars, call, at>>

\* The call is over: the client returns and, if the SPDK thread worked for it,
\* that thread is free for the next request.
Finished(a) ==
  LET c == IF a = Spdk THEN serving ELSE a
  IN  /\ pc' = [pc EXCEPT ![a] = "idle", ![c] = "idle"]
      /\ call' = [call EXCEPT ![c] = NoCall]
      /\ serving' = IF a = Spdk THEN Nobody ELSE serving
-----------------------------------------------------------------------------
(***************************************************************************)
(* Finding and locking a record, the same in every function.               *)
(***************************************************************************)
LockTable(a) ==
  /\ pc[a] = "table"
  /\ md_mutex = Nobody
  /\ md_mutex' = a
  /\ at' = [at EXCEPT ![a] = 1]
  /\ pc' = [pc EXCEPT ![a] = CASE CallOf(a).op \in LookOnly -> "look"
                               [] CallOf(a).op = "examine"  -> "walk"
                               [] OTHER                     -> "find"]
  /\ UNCHANGED <<tableVars, dev_lock, spdkVars, call, serving>>

\* xbdev_md_run and xbdev_md_list look at the table under its mutex, no more.
LookAtTable(a) ==
  /\ pc[a] = "look"
  /\ md_mutex' = Nobody
  /\ Finished(a)
  /\ UNCHANGED <<tableVars, dev_lock, spdkVars, at>>

\* find_md_by_name, or find_free_md_slot for a new array.
Wanted(a) ==
  IF CallOf(a).op \in Creates THEN {i \in Records : ~md[i].active}
                              ELSE Active(CallOf(a).name)

\* Mutant of FindRecord: the mutex of the table is given back before the lock of
\* the record is taken.
FindRecordUnlocks(a) ==
  /\ pc[a] = "find"
  /\ Wanted(a) # {}
  /\ at' = [at EXCEPT ![a] = First(Wanted(a))]
  /\ md_mutex' = IF CallOf(a).op \in Creates THEN md_mutex ELSE Nobody
  /\ pc' = [pc EXCEPT ![a] = "lock"]
  /\ UNCHANGED <<tableVars, dev_lock, spdkVars, call, serving>>

FindRecord(a) ==
  /\ pc[a] = "find"
  /\ Wanted(a) # {}
  /\ at' = [at EXCEPT ![a] = First(Wanted(a))]
  /\ pc' = [pc EXCEPT ![a] = "lock"]
  /\ UNCHANGED <<tableVars, lockVars, spdkVars, call, serving>>

\* What SPDK keeps of array n when a handler takes it down again: the base
\* devices are given back, and deleting the array may fail unnoticed.
TakenDown(n) ==
  /\ base' = [base EXCEPT ![n] = [p \in Positions |-> NoDisk]]
  /\ created' \in {created, created \ {n}}

\* Mutant of NotFound: an error return that forgets the mutex of the table.
NotFoundKeepsMutex(a) ==
  /\ pc[a] = "find"
  /\ Wanted(a) = {}
  /\ IF CallOf(a).op \in Creates THEN TakenDown(CallOf(a).name) ELSE UNCHANGED spdkVars
  /\ Finished(a)
  /\ UNCHANGED <<tableVars, lockVars, at>>

\* No such array, or no free record: the call fails, and an array made for it is
\* taken down.
NotFound(a) ==
  /\ pc[a] = "find"
  /\ Wanted(a) = {}
  /\ md_mutex' = Nobody
  /\ IF CallOf(a).op \in Creates THEN TakenDown(CallOf(a).name) ELSE UNCHANGED spdkVars
  /\ Finished(a)
  /\ UNCHANGED <<tableVars, dev_lock, at>>

\* The lock of the record is taken before the mutex of the table is given back;
\* a new array keeps both until its record is filled in.
LockRecord(a) ==
  /\ pc[a] = "lock"
  /\ dev_lock[at[a]] = Nobody
  /\ dev_lock' = [dev_lock EXCEPT ![at[a]] = a]
  /\ md_mutex' = IF CallOf(a).op \in Creates THEN md_mutex ELSE Nobody
  /\ pc' = [pc EXCEPT ![a] = "body"]
  /\ UNCHANGED <<tableVars, spdkVars, call, at, serving>>

\* xbdev_md_examine_on_thread goes from record to record, with the mutex of the
\* table held and the lock of one active record after the other.
NextRecord(a) ==
  IF at[a] < MaxRaids
  THEN /\ at' = [at EXCEPT ![a] = @ + 1]
       /\ pc' = [pc EXCEPT ![a] = "walk"]
       /\ UNCHANGED <<md_mutex, call, serving>>
  ELSE md_mutex' = Nobody /\ Finished(a) /\ UNCHANGED at

WalkOn(a) ==
  /\ pc[a] = "walk"
  /\ \/ ~md[at[a]].active /\ NextRecord(a) /\ UNCHANGED dev_lock
     \/ /\ md[at[a]].active /\ dev_lock[at[a]] = Nobody
        /\ dev_lock' = [dev_lock EXCEPT ![at[a]] = a]
        /\ pc' = [pc EXCEPT ![a] = "member"]
        /\ UNCHANGED <<md_mutex, call, at, serving>>
  /\ UNCHANGED <<tableVars, spdkVars>>

\* A member or a spare of the record is what it looked for.
LookForMember(a) ==
  /\ pc[a] = "member"
  /\ dev_lock' = [dev_lock EXCEPT ![at[a]] = Nobody]
  /\ IF CallOf(a).disk \in Members(at[a]) \cup md[at[a]].spares
     THEN md_mutex' = Nobody /\ Finished(a) /\ UNCHANGED at
     ELSE NextRecord(a)
  /\ UNCHANGED <<tableVars, spdkVars>>

\* Thread a is in the part of operation op that runs under the lock of a record.
InBody(a, op) == pc[a] = "body" /\ CallOf(a).op = op

\* The record gets the value rec, its lock is given back and the call is over.
Written(a, rec) ==
  /\ md' = [md EXCEPT ![at[a]] = rec]
  /\ dev_lock' = [dev_lock EXCEPT ![at[a]] = Nobody]
  /\ Finished(a)
  /\ UNCHANGED <<ready, md_mutex, at>>

Conclude(a, rec) == Written(a, rec) /\ UNCHANGED skewed
-----------------------------------------------------------------------------
(***************************************************************************)
(* The handlers of the SPDK thread.                                        *)
(***************************************************************************)

\* Mutant of MakeArray: the code SPDK's create returns is not looked at.
MakeArrayAnyway ==
  LET r == call[serving]
  IN  /\ pc[Spdk] = "make"
      /\ created' = created \cup {r.name}
      /\ base' = [base EXCEPT ![r.name] = r.disks]
      /\ pc' = [pc EXCEPT ![Spdk] = "table"]
      /\ UNCHANGED <<tableVars, lockVars, call, serving, at>>

\* xbdev_md_create_on_thread and xbdev_md_assemble_on_thread, before the table:
\* the array is made in SPDK and its base devices are added one by one.
MakeArray ==
  LET r == call[serving]
  IN  /\ pc[Spdk] = "make"
      /\ \/ /\ r.name \notin created
            /\ \A p \in Positions : r.disks[p] \notin Claimed
            /\ \A p, q \in Positions : p # q => r.disks[p] # r.disks[q]
            /\ created' = created \cup {r.name}
            /\ base' = [base EXCEPT ![r.name] = r.disks]
            /\ pc' = [pc EXCEPT ![Spdk] = "table"]
            /\ UNCHANGED <<call, serving>>
         \/ /\ Finished(Spdk)           \* a base device is missing, or no array made
            /\ UNCHANGED spdkVars
         \/ /\ r.name \notin created    \* a base device could not be added
            /\ created' \in {created, created \cup {r.name}}
            /\ UNCHANGED base
            /\ Finished(Spdk)
      /\ UNCHANGED <<tableVars, lockVars, at>>

\* The record is filled in under both mutexes.  md.c:354 and :821 cut the name to the
\* 63 characters of md_dev->name, while look-ups compare it whole: Names are those that
\* fit.
FillRecord ==
  LET i == at[Spdk]
  IN  /\ pc[Spdk] = "body" /\ call[serving].op \in Creates
      /\ md' = [md EXCEPT ![i] = Fresh(call[serving])]
      /\ skewed' = skewed \ {i}
      /\ dev_lock' = [dev_lock EXCEPT ![i] = Nobody]
      /\ md_mutex' = Nobody
      /\ Finished(Spdk)
      /\ UNCHANGED <<ready, spdkVars, at>>

\* Out of memory while it is filled in: both mutexes are given back with the
\* record active and its arrays missing ...
FillFails ==
  LET i == at[Spdk]
  IN  /\ pc[Spdk] = "body" /\ call[serving].op \in Creates
      /\ md' = [md EXCEPT ![i] = [Blank EXCEPT !.active = TRUE,
                                               !.name = call[serving].name]]
      /\ skewed' = skewed \ {i}
      /\ dev_lock' = [dev_lock EXCEPT ![i] = Nobody]
      /\ md_mutex' = Nobody
      /\ pc' = [pc EXCEPT ![Spdk] = "undo"]
      /\ UNCHANGED <<ready, spdkVars, call, at, serving>>

\* ... and the clean-up that follows clears it without any mutex.
UndoFill ==
  /\ pc[Spdk] = "undo"
  /\ TakenDown(call[serving].name)
  /\ md' = [md EXCEPT ![at[Spdk]].active = FALSE]
  /\ Finished(Spdk)
  /\ UNCHANGED <<ready, skewed, lockVars, at>>

\* xbdev_md_stop_on_thread.  SPDK may refuse to delete the array.
Stop ==
  LET i == at[Spdk]
  IN  /\ InBody(Spdk, "stop")
      /\ \/ /\ created' = created \ {call[serving].name}
            /\ base' = [base EXCEPT ![call[serving].name] = [p \in Positions |-> NoDisk]]
            /\ Conclude(Spdk, Freed(md[i]))
         \/ /\ Conclude(Spdk, md[i])
            /\ UNCHANGED spdkVars

\* xbdev_md_manage, XBDEV_MD_ADD_SPARE: refused for a member or a spare of this
\* array, and when the disk does not exist or memory is short.
AddSpare ==
  LET i == at[Spdk]
      d == call[serving].disk
  IN  /\ InBody(Spdk, "add spare")
      /\ \/ /\ d \notin Members(i) \cup md[i].spares
            /\ Conclude(Spdk, [md[i] EXCEPT !.spares = @ \cup {d}])
         \/ Conclude(Spdk, md[i])
      /\ UNCHANGED spdkVars

\* XBDEV_MD_REMOVE_SPARE.
RemoveSpare ==
  LET i == at[Spdk]
  IN  /\ InBody(Spdk, "remove spare")
      /\ Conclude(Spdk, [md[i] EXCEPT !.spares = @ \ {call[serving].disk}])
      /\ UNCHANGED spdkVars

\* Mutants of Fail and OneLess: a disk that is faulty already is counted again; the
\* counter goes below zero.
FailCountsTwice(rec, p) ==
  [rec EXCEPT !.ok[p] = FALSE, !.failed = @ + 1, !.degraded = TRUE]

OneLessUnchecked(n) == n - 1

\* The record after position p is found faulty, and after it is found good.
Fail(rec, p) ==
  IF rec.ok[p]
  THEN [rec EXCEPT !.ok[p] = FALSE, !.failed = @ + 1, !.degraded = TRUE]
  ELSE rec

OneLess(n) == IF n > 0 THEN n - 1 ELSE n

\* Mutant of Recover: the counter is left alone.
RecoverKeepsCount(rec, p) ==
  IF rec.ok[p]
  THEN rec
  ELSE [rec EXCEPT !.ok[p] = TRUE, !.degraded = @ /\ rec.failed # 0]

Recover(rec, p) ==
  IF rec.ok[p]
  THEN rec
  ELSE [rec EXCEPT !.ok[p] = TRUE, !.failed = OneLess(@),
                   !.degraded = @ /\ OneLess(rec.failed) # 0]

\* XBDEV_MD_FAIL_DISK.
FailDisk ==
  LET i == at[Spdk]
  IN  /\ InBody(Spdk, "fail disk")
      /\ Conclude(Spdk, Fail(md[i], call[serving].position))
      /\ UNCHANGED spdkVars

\* xbdev_md_set_disk_state_on_thread.
SetDiskState ==
  LET i == at[Spdk]
      r == call[serving]
      P == PositionsOf(i, r.disk)
  IN  /\ InBody(Spdk, "set faulty") \/ InBody(Spdk, "set normal")
      /\ \/ /\ P # {} /\ r.op = "set faulty"
            /\ Conclude(Spdk, Fail(md[i], First(P)))
         \/ /\ P # {} /\ r.op = "set normal"
            /\ Conclude(Spdk, Recover(md[i], First(P)))
         \/ /\ P = {}
            /\ Conclude(Spdk, md[i])
      /\ UNCHANGED spdkVars

\* The record after a rebuild has started.
Rebuilding(rec) == [rec EXCEPT !.rebuild = TRUE, !.progress = 0]

\* XBDEV_MD_REBUILD: it asks for a spare, not for a degraded array.
Rebuild ==
  LET i == at[Spdk]
  IN  /\ InBody(Spdk, "rebuild")
      /\ Conclude(Spdk, IF ~md[i].rebuild /\ md[i].spares # {}
                        THEN Rebuilding(md[i]) ELSE md[i])
      /\ UNCHANGED spdkVars

\* xbdev_md_rebuild_control_on_thread: it asks for a degraded array, not for a
\* spare.
StartRebuild ==
  LET i == at[Spdk]
  IN  /\ InBody(Spdk, "start rebuild")
      /\ Conclude(Spdk, IF ~md[i].rebuild /\ md[i].degraded
                        THEN Rebuilding(md[i]) ELSE md[i])
      /\ UNCHANGED spdkVars

StopRebuild ==
  LET i == at[Spdk]
  IN  /\ InBody(Spdk, "stop rebuild")
      /\ Conclude(Spdk, [md[i] EXCEPT !.rebuild = FALSE])
      /\ UNCHANGED spdkVars

\* The record after the disk at position p has been replaced by r.new: one less
\* disk counts as failed, whether or not the old one was.
Replaced(rec, p, r) ==
  LET n == OneLess(rec.failed)
      new == [rec EXCEPT !.disks[p] = r.new, !.ok[p] = TRUE, !.failed = n,
                         !.degraded = @ /\ (n # 0 \/ r.auto)]
  IN  IF r.auto THEN Rebuilding(new) ELSE new

\* Whether the counter of record i parts from its disks when position p is replaced.
Skewed(i, p) == IF md[i].ok[p] /\ md[i].failed > 0 THEN skewed \cup {i} ELSE skewed

\* Mutant of ReplaceDisk: the record changes although SPDK keeps the old disk.
ReplaceDiskUnchecked ==
  LET i == at[Spdk]
      r == call[serving]
      P == PositionsOf(i, r.old)
  IN  /\ InBody(Spdk, "replace disk")
      /\ Written(Spdk, IF P = {} THEN md[i] ELSE Replaced(md[i], First(P), r))
      /\ skewed' = IF P = {} THEN skewed ELSE Skewed(i, First(P))
      /\ UNCHANGED spdkVars

\* xbdev_md_replace_disk_on_thread: take the old disk out of the SPDK array, put
\* the new one in, and only then change the record.
ReplaceDisk ==
  LET i == at[Spdk]
      r == call[serving]
      P == PositionsOf(i, r.old)
      p == First(P)
      others == {base[x[1]][x[2]] : x \in (created \X Positions) \ {<<r.name, p>>}}
  IN  /\ InBody(Spdk, "replace disk")
      /\ \/ /\ Conclude(Spdk, md[i])   \* no such disk, or SPDK keeps the old one
            /\ UNCHANGED spdkVars
         \/ /\ P # {}                  \* the new one is refused: a hole is left
            /\ base' = [base EXCEPT ![r.name][p] = NoDisk]
            /\ Conclude(Spdk, md[i])
            /\ UNCHANGED created
         \/ /\ P # {}
            /\ r.new \notin others
            /\ base' = [base EXCEPT ![r.name][p] = r.new]
            /\ Written(Spdk, Replaced(md[i], p, r))
            /\ skewed' = Skewed(i, p)
            /\ UNCHANGED created

\* SPDK has no such device, or the device to examine is an array itself: the table
\* is not looked at.
NoSuchDevice ==
  /\ pc[Spdk] = "table" /\ call[serving].op \in {"examine", "detail"}
  /\ Finished(Spdk)
  /\ UNCHANGED <<tableVars, lockVars, spdkVars, at>>

\* xbdev_md_detail_on_thread only reads.
Detail ==
  /\ InBody(Spdk, "detail")
  /\ Conclude(Spdk, md[at[Spdk]])
  /\ UNCHANGED spdkVars

SpdkStep ==
  \/ \E c \in Clients : Take(c)
  \/ NoSuchDevice \/ WalkOn(Spdk) \/ LookForMember(Spdk) \/ Detail
  \/ LockTable(Spdk) \/ FindRecord(Spdk) \/ NotFound(Spdk) \/ LockRecord(Spdk)
  \/ MakeArray \/ FillRecord \/ FillFails \/ UndoFill \/ Stop
  \/ AddSpare \/ RemoveSpare \/ FailDisk \/ SetDiskState
  \/ Rebuild \/ StartRebuild \/ StopRebuild \/ ReplaceDisk
-----------------------------------------------------------------------------
(***************************************************************************)
(* The functions that run on the caller's thread.                          *)
(***************************************************************************)

\* xbdev_md_update_rebuild_progress.
UpdateProgress(c) ==
  LET i == at[c]
      p == call[c].progress
      moved == [md[i] EXCEPT !.progress = p, !.rebuild = p # Full,
                             !.degraded = @ /\ (p # Full \/ md[i].failed # 0)]
  IN  /\ InBody(c, "update progress")
      /\ Conclude(c, IF md[i].rebuild THEN moved ELSE md[i])
      /\ UNCHANGED spdkVars

\* xbdev_md_get_rebuild_progress only reads.
GetProgress(c) ==
  /\ InBody(c, "get progress")
  /\ Conclude(c, md[at[c]])
  /\ UNCHANGED spdkVars

ClientStep(c) ==
  \/ CheckName(c)
  \/ LockTable(c) \/ LookAtTable(c)
  \/ FindRecord(c) \/ NotFound(c) \/ LockRecord(c)
  \/ UpdateProgress(c) \/ GetProgress(c)
-----------------------------------------------------------------------------
EnterCall(c) ==
  \/ MdCreate(c) \/ MdAssemble(c) \/ MdStop(c) \/ MdRun(c)
  \/ MdExamine(c) \/ MdDetail(c) \/ MdList(c)
  \/ MdManage(c) \/ MdReplaceDisk(c) \/ MdStartRebuild(c) \/ MdStopRebuild(c)
  \/ MdSetFaulty(c) \/ MdSetNormal(c) \/ MdGetProgress(c) \/ MdUpdateProgress(c)

Next ==
  \/ ModuleInit \/ ModuleFini
  \/ SpdkStep
  \/ \E c \in Clients : ClientStep(c) \/ EnterCall(c)

\* The SPDK thread keeps polling and a client inside a call keeps running.  No
\* thread is bound to make a call, and a mutex is given to any of its waiters.
Fairness == WF_vars(SpdkStep) /\ \A c \in Clients : WF_vars(ClientStep(c))

Spec     == Init /\ [][Next]_vars
FairSpec == Spec /\ Fairness
-----------------------------------------------------------------------------
(***************************************************************************)
(* Properties.                                                             *)
(***************************************************************************)

\* Every variable has a value of its type.
TypeOK ==
  /\ ready \in BOOLEAN
  /\ md \in [Records ->
        [active : BOOLEAN, name : Names \cup {NoName},
         disks : [Positions -> Disks \cup {NoDisk}], ok : [Positions -> BOOLEAN],
         failed : 0 .. Width, spares : SUBSET Disks, degraded : BOOLEAN,
         rebuild : BOOLEAN, progress : 0 .. Full]]
  /\ md_mutex \in Actors \cup {Nobody}
  /\ dev_lock \in [Records -> Actors \cup {Nobody}]
  /\ created \in SUBSET Names
  /\ base \in [Names -> [Positions -> Disks \cup {NoDisk}]]
  /\ pc \in [Actors -> Locations]
  /\ call \in [Clients -> AllCalls \cup {NoCall}]
  /\ at \in [Actors -> Records]
  /\ serving \in Clients \cup {Nobody}
  /\ skewed \in SUBSET Records

\* The counter of failed disks and the degraded flag are kept in step by four
\* handlers: the counter is never above the number of faulty disks, and an array
\* with a counted failure is degraded.
FailuresAreReported ==
  \A i \in Records : md[i].active =>
     /\ md[i].failed <= Cardinality(Faulty(i))
     /\ md[i].failed > 0 => md[i].degraded

\* As long as no disk in good state is replaced while another has failed, the
\* counter is the number of faulty disks: four handlers and two error paths keep
\* the two in step.  The record whose creation just failed is the only exception.
FailedCountIsExact ==
  \A i \in Records :
    (md[i].active /\ i \notin skewed /\ ~(pc[Spdk] = "undo" /\ at[Spdk] = i))
      => md[i].failed = Cardinality(Faulty(i))

\* A thread that works on a record under its lock works on the array it looked
\* up: the record may have been stopped while the thread waited for the lock,
\* but it never belongs to another array by then.
WorksOnItsArray ==
  \A a \in Actors :
    (pc[a] = "body" /\ CallOf(a).op \notin Creates) => md[at[a]].name = CallOf(a).name

\* No two active records have the same name, although the name is checked by the
\* client before the request and never again.
OneRecordPerName ==
  \A i, j \in Records :
    (md[i].active /\ md[j].active /\ md[i].name = md[j].name) => i = j

\* The table tells the truth about SPDK: the array of an active record exists,
\* and at every position SPDK has the disk of the record or, after a replacement
\* that went half way, none; never another one.
TableMatchesSpdk ==
  \A i \in Records :
    (md[i].active /\ ~(pc[Spdk] = "undo" /\ at[Spdk] = i)) =>
      /\ md[i].name \in created
      /\ \A p \in Positions : base[md[i].name][p] \in {md[i].disks[p], NoDisk}

\* The two mutexes are taken in one order by every function: the library never
\* comes to a standstill with all clients inside calls.
NoStandstill == []<>(\E c \in Clients : pc[c] = "idle")
=============================================================================
