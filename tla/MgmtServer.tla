----------------------------- MODULE MgmtServer -----------------------------
(***************************************************************************)
(* The management server of src/libxbdev/mgmt.c: a table of commands, a    *)
(* list of listeners for device events, and a thread that polls SPDK's     *)
(* JSON-RPC server.                                                        *)
(*                                                                         *)
(* One thread, the administrator, starts and stops the server.  Requests   *)
(* come over JSON-RPC to the server thread, or by xbdev_mgmt_execute_cmd   *)
(* to the thread that calls it.  The server's own methods are answered at  *)
(* once and an unknown one is refused; a command of the table is answered  *)
(* by its handler, called with the mutex released, which may itself add    *)
(* commands and listeners.  A device event is told to one listener after   *)
(* the other, the mutex released around each call.                         *)
(*                                                                         *)
(* Stopping the server waits for the server thread and for nobody else, so *)
(* an application must not stop it during a device event or a call of      *)
(* xbdev_mgmt_execute_cmd, nor from a handler; here it does not.           *)
(***************************************************************************)
EXTENDS Integers, Sequences, FiniteSets

CONSTANTS BuiltIns,    \* the methods the server knows itself
          Commands,    \* the methods an application may add, with names that fit name[64]
          Listeners,   \* the notification callbacks an application may register
          Callers,     \* the threads that call xbdev_mgmt_execute_cmd
          NoMethod,    \* no method
          NoListener   \* no listener

ASSUME NamesAssumption == NoMethod \notin BuiltIns \cup Commands /\ NoListener \notin Listeners

VARIABLES
  initialized, running, server,  \* g_mgmt's flags; whether SPDK's server listens
  server_thread,                 \* the server thread: none, polling, or in a handler
  handling,                      \* the command whose handler it runs
  cmd_list,                      \* the commands, the newest first
  notify_list,                   \* the listeners, the newest first
  admin,                         \* where the administrator is
  executing,                     \* per caller: the command whose handler it runs
  telling                        \* the listener that is told the device event

serverVars == <<initialized, running, server, server_thread, handling>>
tableVars  == <<cmd_list, notify_list>>
mgmtVars   == <<serverVars, tableVars, admin, executing, telling>>

InList(x, list) == \E i \in DOMAIN list : list[i] = x

MgmtTypeOK ==
  /\ initialized \in BOOLEAN /\ running \in BOOLEAN /\ server \in BOOLEAN
  /\ server_thread \in {"none", "polling", "handling"}
  /\ handling \in Commands \cup {NoMethod}
  /\ cmd_list \in Seq(Commands) /\ notify_list \in Seq(Listeners)
  /\ admin \in {"idle", "starting", "stopping"}
  /\ executing \in [Callers -> Commands \cup {NoMethod}]
  /\ telling \in Listeners \cup {NoListener}

MgmtInit ==
  /\ initialized = FALSE /\ running = FALSE /\ server = FALSE
  /\ server_thread = "none" /\ handling = NoMethod
  /\ cmd_list = <<>> /\ notify_list = <<>>
  /\ admin = "idle" /\ executing = [c \in Callers |-> NoMethod]
  /\ telling = NoListener
-----------------------------------------------------------------------------
(* Starting and stopping. *)

\* xbdev_mgmt_server_init until it makes the thread; if SPDK's server does not
\* listen nothing has changed.
ServerInit ==
  /\ admin = "idle" /\ ~initialized
  /\ server' = TRUE /\ running' = TRUE /\ initialized' = TRUE
  /\ admin' = "starting"
  /\ UNCHANGED <<server_thread, handling, tableVars, executing, telling>>

\* pthread_create makes the thread, or fails and what was done is undone.
CreateThread ==
  /\ admin = "starting"
  /\ admin' = "idle"
  /\ \/ server_thread' = "polling" /\ UNCHANGED <<initialized, running, server>>
     \/ /\ server' = FALSE /\ running' = FALSE /\ initialized' = FALSE
        /\ UNCHANGED server_thread
  /\ UNCHANGED <<handling, tableVars, executing, telling>>

\* Mutant of ServerFini: running is left as it is.
FiniKeepsRunning ==
  /\ admin = "idle" /\ initialized
  /\ telling = NoListener /\ \A c \in Callers : executing[c] = NoMethod
  /\ admin' = "stopping"
  /\ UNCHANGED <<serverVars, tableVars, executing, telling>>

\* xbdev_mgmt_server_fini until it waits for the server thread.
ServerFini ==
  /\ admin = "idle" /\ initialized
  /\ telling = NoListener /\ \A c \in Callers : executing[c] = NoMethod
  /\ running' = FALSE
  /\ admin' = "stopping"
  /\ UNCHANGED <<initialized, server, server_thread, handling, tableVars, executing, telling>>

\* What it does after that.
Shut ==
  /\ server' = FALSE /\ initialized' = FALSE /\ running' = FALSE
  /\ cmd_list' = <<>> /\ notify_list' = <<>>
  /\ admin' = "idle"
  /\ UNCHANGED <<server_thread, handling, executing, telling>>

\* Mutant of Join: it does not wait.
JoinNobody == admin = "stopping" /\ Shut

Join == admin = "stopping" /\ server_thread = "none" /\ Shut
-----------------------------------------------------------------------------
(* The tables. *)

\* Who may call into the server: the administrator between its own calls, and the
\* handlers.
MayCall == initialized /\ (admin = "idle" \/ server_thread = "handling")

\* xbdev_mgmt_register_notification_callback; an application registers a listener once.
\* Here as for commands, a call that finds no memory is refused and changes nothing.
RegisterNotification(l) ==
  /\ MayCall /\ ~InList(l, notify_list)
  /\ notify_list' = <<l>> \o notify_list
  /\ UNCHANGED <<serverVars, cmd_list, admin, executing, telling>>

\* xbdev_mgmt_add_command: a name that the table has is refused.
AddCommand(m) ==
  /\ MayCall /\ ~InList(m, cmd_list)
  /\ cmd_list' = <<m>> \o cmd_list
  /\ UNCHANGED <<serverVars, notify_list, admin, executing, telling>>
-----------------------------------------------------------------------------
(* Requests.  What the server's own methods do is outside this module. *)

\* The handler of m is called: m is not one of the server's own methods.
HasHandler(m) == m \notin BuiltIns /\ InList(m, cmd_list)

\* handle_rpc_request, called by the server thread's poll.
RpcRequest(m) ==
  /\ server_thread = "polling" /\ HasHandler(m)
  /\ server_thread' = "handling" /\ handling' = m
  /\ UNCHANGED <<initialized, running, server, tableVars, admin, executing, telling>>

RpcReturns ==
  /\ server_thread = "handling"
  /\ server_thread' = "polling" /\ handling' = NoMethod
  /\ UNCHANGED <<initialized, running, server, tableVars, admin, executing, telling>>

\* The loop of mgmt_server_thread ends once running is cleared.
ServerThreadEnds ==
  /\ server_thread = "polling" /\ ~running
  /\ server_thread' = "none"
  /\ UNCHANGED <<initialized, running, server, handling, tableVars, admin, executing, telling>>

\* xbdev_mgmt_execute_cmd for a command of the table.
ExecuteCmd(c, m) ==
  /\ executing[c] = NoMethod /\ admin # "stopping" /\ HasHandler(m)
  /\ executing' = [executing EXCEPT ![c] = m]
  /\ UNCHANGED <<serverVars, tableVars, admin, telling>>

ExecuteReturns(c) ==
  /\ executing[c] # NoMethod
  /\ executing' = [executing EXCEPT ![c] = NoMethod]
  /\ UNCHANGED <<serverVars, tableVars, admin, telling>>
-----------------------------------------------------------------------------
(* Device events: xbdev_mgmt_device_event.  The loop keeps its place in the list. *)

\* Mutant of HasNext: the loop ends before the last listener.
HasNextButLast(l) == \E i \in DOMAIN notify_list : notify_list[i] = l /\ i + 1 < Len(notify_list)

\* The listener after l in the list.
HasNext(l) == \E i \in DOMAIN notify_list : notify_list[i] = l /\ i < Len(notify_list)
NextOf(l)  == notify_list[1 + CHOOSE i \in DOMAIN notify_list : notify_list[i] = l]

NobodyToTell == ~initialized \/ notify_list = <<>>

EventStarts ==
  /\ telling = NoListener /\ ~NobodyToTell
  /\ telling' = Head(notify_list)
  /\ UNCHANGED <<serverVars, tableVars, admin, executing>>

\* The callback of the listener has returned.
EventGoesOn ==
  /\ telling # NoListener /\ HasNext(telling)
  /\ telling' = NextOf(telling)
  /\ UNCHANGED <<serverVars, tableVars, admin, executing>>

EventEnds ==
  /\ telling # NoListener /\ ~HasNext(telling)
  /\ telling' = NoListener
  /\ UNCHANGED <<serverVars, tableVars, admin, executing>>
-----------------------------------------------------------------------------
ThreadStep == RpcReturns \/ ServerThreadEnds
RequestStep ==
  \/ ThreadStep
  \/ \E m \in Commands : RpcRequest(m) \/ AddCommand(m)
  \/ \E c \in Callers : ExecuteReturns(c) \/ \E m \in Commands : ExecuteCmd(c, m)

(***************************************************************************)
(* The server thread lives only while SPDK's server listens, and a thread  *)
(* in the handler of a command finds the command's entry still in the      *)
(* table: it is not freed under it.  mgmt.c:646-699 with 530-545, 925-935. *)
(***************************************************************************)
HandlersKeepTheirEntry ==
  /\ server_thread # "none" => server
  /\ server_thread = "handling" => InList(handling, cmd_list)
  /\ \A c \in Callers : executing[c] # NoMethod => InList(executing[c], cmd_list)
=============================================================================
