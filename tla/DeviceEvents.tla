---------------------------- MODULE DeviceEvents ----------------------------
(***************************************************************************)
(* The device list and the management server together: an application      *)
(* registers, as the list's event callback, one that hands every event to  *)
(* xbdev_mgmt_device_event, which tells the listeners.  That forwarding    *)
(* callback is the application's; the rest is device_list.c and mgmt.c.    *)
(*                                                                         *)
(* The event callback runs on the scanning thread with the list's mutex    *)
(* released, the listeners with the server's mutex released: devices,      *)
(* registrations, requests and look-ups go on meanwhile.                   *)
(***************************************************************************)
EXTENDS DeviceList, MgmtServer

CONSTANT MaxChanges  \* bound: how often SPDK's devices change

ASSUME ChangesAssumption == MaxChanges \in Nat

VARIABLES
  changes,  \* how often they have
  view,     \* per listener: the devices it has been told of and not told gone
  whole     \* history: the listeners that heard of every change of the list

eventHistory == <<view, whole>>
vars == <<deviceVars, mgmtVars, changes, eventHistory>>

TypeOK ==
  /\ DeviceTypeOK /\ MgmtTypeOK
  /\ changes \in 0 .. MaxChanges
  /\ view \in [Listeners -> SUBSET Devices]
  /\ whole \subseteq Listeners

Init ==
  /\ DeviceInit /\ MgmtInit
  /\ changes = 0
  /\ view = [l \in Listeners |-> {}] /\ whole = {}

Registered == IF initialized THEN {l \in Listeners : InList(l, notify_list)} ELSE {}

SpdkDevice ==
  /\ changes < MaxChanges /\ changes' = changes + 1
  /\ SpdkDevices
  /\ UNCHANGED <<mgmtVars, eventHistory>>

\* Scans come one at a time, and none while the server is being stopped.
StartScan ==
  /\ admin # "stopping"
  /\ Scan \/ StartMonitoring
  /\ whole' = IF event_cb THEN Registered \cap (IF entries = <<>> THEN Registered ELSE whole)
                          ELSE {}
  /\ UNCHANGED <<mgmtVars, changes, view>>

Application ==
  /\ RegisterCallback \/ ScanFails \/ StopMonitoring
  /\ UNCHANGED <<mgmtVars, changes, eventHistory>>

\* The list starts afresh, and so does what the listeners know of it.
Forget ==
  /\ ListFini
  /\ view' = [l \in Listeners |-> {}] /\ whole' = {}
  /\ UNCHANGED <<mgmtVars, changes>>

ScanWork ==
  /\ ScanStep
  /\ UNCHANGED <<mgmtVars, changes, eventHistory>>

\* The forwarding callback is called: it returns at once or tells the first listener.
InCallback == scan_pc \in {"added", "removed"}

NobodyIsTold ==
  /\ InCallback /\ telling = NoListener /\ NobodyToTell
  /\ CallbackReturns
  /\ UNCHANGED <<mgmtVars, changes, eventHistory>>

TellFirst ==
  /\ InCallback /\ EventStarts
  /\ UNCHANGED <<deviceVars, changes, eventHistory>>

\* What the listener that is told takes from the event.
Heard(l) ==
  view' = [view EXCEPT ![l] = IF event.kind = "added" THEN @ \cup {event.name}
                                                      ELSE @ \ {event.name}]

Tell ==
  /\ telling # NoListener /\ Heard(telling)
  /\ \/ EventGoesOn /\ UNCHANGED deviceVars
     \/ EventEnds /\ CallbackReturns
  /\ UNCHANGED <<changes, whole>>

\* A listener that registers knows of no device yet.
Listen ==
  /\ \E l \in Listeners :
       /\ RegisterNotification(l)
       /\ view' = [view EXCEPT ![l] = {}] /\ whole' = whole \ {l}
  /\ UNCHANGED <<deviceVars, changes>>

\* The server is not stopped during a scan.
Administration ==
  /\ \/ ServerInit \/ CreateThread \/ Join
     \/ ServerFini /\ scan_pc = "idle"
     \/ RequestStep
  /\ UNCHANGED <<deviceVars, changes, eventHistory>>

Next ==
  \/ SpdkDevice \/ StartScan \/ Application \/ Forget
  \/ ScanWork \/ NobodyIsTold \/ TellFirst \/ Tell
  \/ Listen \/ Administration

Spec == Init /\ [][Next]_vars

\* The scanning thread and the server's threads go on with what they have begun, and
\* callbacks and handlers return.  The server thread looks at running between any two
\* polls, so it sees it cleared however many requests come.
FairSpec ==
  /\ Spec
  /\ WF_vars(ScanWork) /\ WF_vars(NobodyIsTold) /\ WF_vars(TellFirst) /\ WF_vars(Tell)
  /\ WF_vars(RpcReturns /\ Administration) /\ WF_vars(Join /\ Administration)
  /\ SF_vars(ServerThreadEnds /\ Administration)
-----------------------------------------------------------------------------
(***************************************************************************)
(* Between scans, a listener that heard of every change knows exactly the  *)
(* devices of the list: no event was lost or told of the wrong device,     *)
(* whatever came, went or registered during the scan.                      *)
(* device_list.c:116-157, 286-311 with mgmt.c:1001-1015.                   *)
(***************************************************************************)
EventsTellTheList == scan_pc = "idle" => \A l \in whole : view[l] = Names

(***************************************************************************)
(* Such a listener is never told that a device came which it knew of, nor  *)
(* that one went which it did not know of: every event is news.            *)
(* device_list.c:116-157, 286-311 with mgmt.c:1001-1015.                   *)
(***************************************************************************)
EveryEventIsNews == [][Tell /\ telling \in whole => view' # view]_vars

(***************************************************************************)
(* A scan ends, however often devices change and callbacks register while  *)
(* it runs.  device_list.c:218-324 with mgmt.c:1001-1015.                  *)
(***************************************************************************)
ScanEnds == scan_pc # "idle" ~> scan_pc = "idle"

(***************************************************************************)
(* xbdev_mgmt_server_fini returns, also when requests keep coming and      *)
(* handlers add commands: mgmt.c:646-699 with 568-580.                     *)
(***************************************************************************)
FiniReturns == admin = "stopping" ~> admin = "idle"
=============================================================================
