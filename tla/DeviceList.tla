----------------------------- MODULE DeviceList -----------------------------
(***************************************************************************)
(* The device list of src/libxbdev/device_list.c.                          *)
(*                                                                         *)
(* A scan reads the names of SPDK's devices without the mutex, takes it,   *)
(* marks every entry off-line, puts each named device that still answers   *)
(* on-line or at the head of the list, and takes out the entries left      *)
(* off-line.  It releases the mutex around every call of the event         *)
(* callback, keeping its place in the list, so an application must not run *)
(* two scans at a time, tear the list down or clear the callback during a  *)
(* scan; here it does not.  Meanwhile SPDK's devices come and go, and      *)
(* other threads look at the list whenever the mutex is free.              *)
(*                                                                         *)
(* What the callback does is left to the module that composes this one:    *)
(* it runs between Calls and CallbackReturns.                              *)
(***************************************************************************)
EXTENDS Integers, Sequences, FiniteSets

CONSTANTS Devices,     \* the devices there may be, with names that fit an entry (name[256])
          MaxDevices,  \* max_devices, what a scan has room for
          NoDevice     \* no device

ASSUME RoomAssumption    == MaxDevices \in Nat
ASSUME DevicesAssumption == IsFiniteSet(Devices)

VARIABLES
  devs,      \* the devices SPDK has
  entries,   \* the list, head first: the name of each entry and if it is on-line
  event_cb,  \* whether a callback is registered
  monitor_running,
  scan_pc,   \* where the scan is
  names,     \* the names it has read and not yet handled
  pos,       \* the entry it looks at in the last step
  event,     \* the event the callback is told: its kind and its device
  stayed,    \* history: the devices there ever since the scan read the names
  seen,      \* history: the devices there at some moment since then
  unlisted   \* history: the new devices it found no memory for

listVars    == <<entries, event_cb, monitor_running>>
scanVars    == <<scan_pc, names, pos, event>>
scanHistory == <<stayed, seen, unlisted>>
deviceVars  == <<devs, listVars, scanVars, scanHistory>>

Kinds == {"added", "removed"}
NoEvent == [kind |-> "added", name |-> NoDevice]

DeviceTypeOK ==
  /\ devs \subseteq Devices
  /\ entries \in Seq([name : Devices, online : BOOLEAN])
  /\ event_cb \in BOOLEAN /\ monitor_running \in BOOLEAN
  /\ scan_pc \in {"idle", "lock", "update", "added", "sweep", "removed"}
  /\ names \subseteq Devices
  /\ pos \in 0 .. Cardinality(Devices) + 1
  /\ event \in [kind : Kinds, name : Devices \cup {NoDevice}]
  /\ stayed \subseteq devs /\ seen \subseteq Devices /\ unlisted \subseteq Devices

DeviceInit ==
  /\ devs \in SUBSET Devices
  /\ entries = <<>> /\ event_cb = FALSE /\ monitor_running = FALSE
  /\ scan_pc = "idle" /\ names = {} /\ pos = 0 /\ event = NoEvent
  /\ stayed = {} /\ seen = {} /\ unlisted = {}

Names == {entries[i].name : i \in DOMAIN entries}

\* xbdev_device_exists and xbdev_get_device_count, asked when the mutex is free.
Exists(d) == \E i \in DOMAIN entries : entries[i].name = d /\ entries[i].online
Count     == Len(entries)

\* SPDK gains or loses a device.
DeviceComes(d) ==
  /\ d \notin devs
  /\ devs' = devs \cup {d}
  /\ seen' = seen \cup {d}
  /\ UNCHANGED <<listVars, scanVars, stayed, unlisted>>

DeviceGoes(d) ==
  /\ d \in devs
  /\ devs' = devs \ {d}
  /\ stayed' = stayed \ {d}
  /\ UNCHANGED <<listVars, scanVars, seen, unlisted>>

\* The first callback is registered, when the scan does not hold the mutex.
RegisterCallback ==
  /\ ~event_cb /\ scan_pc \in {"idle", "lock"}
  /\ event_cb' = TRUE
  /\ UNCHANGED <<devs, entries, monitor_running, scanVars, scanHistory>>

\* xbdev_device_list_fini, then xbdev_device_list_init for the next use: nobody is
\* told.
ListFini ==
  /\ scan_pc = "idle"
  /\ entries' = <<>> /\ event_cb' = FALSE /\ monitor_running' = FALSE
  /\ stayed' = {} /\ seen' = {} /\ unlisted' = {}
  /\ UNCHANGED <<devs, scanVars>>

\* The first part of xbdev_scan_devices: names are read while there is room.
ReadNames ==
  /\ scan_pc = "idle"
  /\ \E ns \in SUBSET devs :
       /\ Cardinality(ns) <= MaxDevices
       /\ ns # devs => Cardinality(ns) = MaxDevices
       /\ names' = ns
  /\ scan_pc' = "lock"
  /\ stayed' = devs /\ seen' = devs /\ unlisted' = {}
  /\ UNCHANGED <<devs, entries, event_cb, pos, event>>

Scan == ReadNames /\ UNCHANGED monitor_running

\* xbdev_start_device_monitoring scans once; nothing in the library scans again.
StartMonitoring == ~monitor_running /\ monitor_running' = TRUE /\ ReadNames

\* There is no memory for the names: the scan ends with -ENOMEM before it has looked
\* at the list.  Monitoring has started all the same, the result is ignored.
ScanFails ==
  /\ scan_pc = "idle"
  /\ monitor_running' \in {monitor_running, TRUE}
  /\ UNCHANGED <<devs, entries, event_cb, scanVars, scanHistory>>

StopMonitoring ==
  /\ monitor_running /\ monitor_running' = FALSE
  /\ UNCHANGED <<devs, entries, event_cb, scanVars, scanHistory>>

\* The scan takes the mutex and marks every entry off-line.
MarkAll ==
  /\ scan_pc = "lock"
  /\ entries' = [i \in DOMAIN entries |-> [entries[i] EXCEPT !.online = FALSE]]
  /\ scan_pc' = "update"
  /\ UNCHANGED <<devs, event_cb, monitor_running, names, pos, event, scanHistory>>

\* The callback is called with the mutex released.
Calls(kind, d, next) ==
  /\ event' = [kind |-> kind, name |-> d]
  /\ scan_pc' = next

\* add_device_entry, for a device that is not in the list.
AddEntry(d) ==
  /\ entries' = <<[name |-> d, online |-> TRUE]>> \o entries
  /\ \/ event_cb /\ Calls("added", d, "added")
     \/ ~event_cb /\ UNCHANGED <<event, scan_pc>>
  /\ UNCHANGED unlisted

\* The same without memory: no entry and no event.  The scan ignores its -ENOMEM, goes
\* on and returns 0.
AddFails(d) ==
  /\ unlisted' = unlisted \cup {d}
  /\ UNCHANGED <<entries, scan_pc, event>>

Handled(d) ==
  /\ names' = names \ {d}
  /\ UNCHANGED <<devs, event_cb, monitor_running, pos, stayed, seen>>

\* Mutant of UpdateDevice: a device in the list is not put on-line again.
UpdateNewOnly(d) ==
  /\ scan_pc = "update" /\ d \in names
  /\ \/ (d \notin devs \/ d \in Names) /\ UNCHANGED <<entries, scan_pc, event, unlisted>>
     \/ d \in devs /\ d \notin Names /\ (AddEntry(d) \/ AddFails(d))
  /\ Handled(d)

\* One name of the second step: the device does not answer, is in the list, or is
\* new.
UpdateDevice(d) ==
  /\ scan_pc = "update" /\ d \in names
  /\ \/ d \notin devs /\ UNCHANGED <<entries, scan_pc, event, unlisted>>
     \/ /\ d \in devs /\ d \in Names
        /\ entries' = [i \in DOMAIN entries |->
             IF entries[i].name = d THEN [entries[i] EXCEPT !.online = TRUE] ELSE entries[i]]
        /\ UNCHANGED <<scan_pc, event, unlisted>>
     \/ d \in devs /\ d \notin Names /\ (AddEntry(d) \/ AddFails(d))
  /\ Handled(d)

StartSweep ==
  /\ scan_pc = "update" /\ names = {}
  /\ scan_pc' = "sweep" /\ pos' = 1
  /\ UNCHANGED <<devs, listVars, names, event, scanHistory>>

Unlinked(i) == SubSeq(entries, 1, i - 1) \o SubSeq(entries, i + 1, Len(entries))

\* Mutant of SweepEntry: an entry that stays is not passed.
SweepEntryStuck ==
  /\ scan_pc = "sweep" /\ pos <= Len(entries)
  /\ \/ entries[pos].online /\ UNCHANGED <<pos, entries, scan_pc, event>>
     \/ /\ ~entries[pos].online /\ event_cb
        /\ Calls("removed", entries[pos].name, "removed")
        /\ UNCHANGED <<entries, pos>>
     \/ /\ ~entries[pos].online /\ ~event_cb
        /\ entries' = Unlinked(pos)
        /\ UNCHANGED <<pos, scan_pc, event>>
  /\ UNCHANGED <<devs, event_cb, monitor_running, names, scanHistory>>

\* Mutant of EndScan: the scan goes past the end of the list.
EndScanLate ==
  /\ scan_pc = "sweep" /\ pos > Len(entries)
  /\ pos' = pos + 1
  /\ scan_pc' = IF pos > Len(entries) + 1 THEN "idle" ELSE "sweep"
  /\ UNCHANGED <<devs, listVars, names, event, scanHistory>>

\* The third step looks at the entry at pos: it stays, or it goes, and the callback
\* is told first.
SweepEntry ==
  /\ scan_pc = "sweep" /\ pos <= Len(entries)
  /\ \/ entries[pos].online /\ pos' = pos + 1 /\ UNCHANGED <<entries, scan_pc, event>>
     \/ /\ ~entries[pos].online /\ event_cb
        /\ Calls("removed", entries[pos].name, "removed")
        /\ UNCHANGED <<entries, pos>>
     \/ /\ ~entries[pos].online /\ ~event_cb
        /\ entries' = Unlinked(pos)
        /\ UNCHANGED <<pos, scan_pc, event>>
  /\ UNCHANGED <<devs, event_cb, monitor_running, names, scanHistory>>

\* Mutant of CallbackReturns: the entry is left in the list.
ReturnsKeeping ==
  \/ /\ scan_pc = "added"
     /\ scan_pc' = "update" /\ event' = NoEvent
     /\ UNCHANGED <<devs, listVars, names, pos, scanHistory>>
  \/ /\ scan_pc = "removed"
     /\ scan_pc' = "sweep" /\ event' = NoEvent
     /\ UNCHANGED <<devs, listVars, names, pos, scanHistory>>

\* The callback has returned: the scan takes the mutex again.
CallbackReturns ==
  \/ /\ scan_pc = "added"
     /\ scan_pc' = "update" /\ event' = NoEvent
     /\ UNCHANGED <<devs, listVars, names, pos, scanHistory>>
  \/ /\ scan_pc = "removed"
     /\ entries' = Unlinked(pos)
     /\ scan_pc' = "sweep" /\ event' = NoEvent
     /\ UNCHANGED <<devs, event_cb, monitor_running, names, pos, scanHistory>>

EndScan ==
  /\ scan_pc = "sweep" /\ pos > Len(entries)
  /\ scan_pc' = "idle" /\ pos' = 0
  /\ UNCHANGED <<devs, listVars, names, event, scanHistory>>

ScanStep ==
  \/ MarkAll \/ StartSweep \/ SweepEntry \/ EndScan
  \/ \E d \in Devices : UpdateDevice(d)

AppStep ==
  RegisterCallback \/ ListFini \/ Scan \/ StartMonitoring \/ ScanFails \/ StopMonitoring

SpdkDevices == \E d \in Devices : DeviceComes(d) \/ DeviceGoes(d)
-----------------------------------------------------------------------------
(***************************************************************************)
(* After a scan the list has every device that was there all the while,    *)
(* unless there was no room for its name or, the device being new, no      *)
(* memory for its entry (then nothing of it is there); it has no device    *)
(* that never was; every entry is on-line and no device has two.           *)
(* device_list.c:218-324 with 116-157.                                     *)
(***************************************************************************)
ScanIsSound ==
  scan_pc = "idle" =>
    /\ Cardinality(seen) <= MaxDevices => \A d \in stayed \ unlisted : Exists(d)
    /\ unlisted \cap Names = {}
    /\ Names \subseteq seen
    /\ \A i \in DOMAIN entries : entries[i].online
    /\ Cardinality(Names) = Count
=============================================================================
