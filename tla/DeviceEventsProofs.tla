------------------------- MODULE DeviceEventsProofs -------------------------
(***************************************************************************)
(* Theorems about DeviceEvents, for all devices, listeners, commands and   *)
(* callers: the device list is right after every scan, the events tell a   *)
(* listener what the list says, and a command's entry stays while its      *)
(* handler runs.                                                           *)
(***************************************************************************)
EXTENDS DeviceEvents, FiniteSetTheorems, FunctionTheorems, SequenceTheorems, TLAPS

-----------------------------------------------------------------------------
(* Lists. *)

\* No two members of a list are the same.
Distinct(s) == \A i, j \in 1 .. Len(s) : s[i] = s[j] => i = j

LEMMA Pushed ==
  ASSUME NEW S, NEW s \in Seq(S), NEW x \in S
  PROVE  /\ <<x>> \o s \in Seq(S) /\ Len(<<x>> \o s) = Len(s) + 1
         /\ Len(s) \in Nat
         /\ (<<x>> \o s)[1] = x
         /\ \A i \in 1 .. Len(s) : (<<x>> \o s)[i + 1] = s[i]
         /\ \A i \in 2 .. Len(s) + 1 : (<<x>> \o s)[i] = s[i - 1]
<1> DEFINE t == <<x>> \o s
<1>1. <<x>> \in Seq(S) /\ Len(<<x>>) = 1 /\ <<x>>[1] = x /\ Len(s) \in Nat
  BY LenProperties
<1>2. /\ t \in Seq(S) /\ Len(t) = Len(<<x>>) + Len(s)
      /\ \A i \in 1 .. Len(<<x>>) + Len(s) :
            t[i] = IF i <= Len(<<x>>) THEN <<x>>[i] ELSE s[i - Len(<<x>>)]
  BY <1>1, ConcatProperties, Zenon
<1> HIDE DEF t
<1>3. \A i \in 1 .. 1 + Len(s) : t[i] = IF i <= 1 THEN x ELSE s[i - 1]
  BY <1>1, <1>2
<1>4. t[1] = x /\ \A i \in 2 .. Len(s) + 1 : t[i] = s[i - 1]
  BY <1>1, <1>3
<1>5. \A i \in 1 .. Len(s) : t[i + 1] = s[i]
  <2> TAKE i \in 1 .. Len(s)
  <2>1. i + 1 \in 2 .. Len(s) + 1 /\ (i + 1) - 1 = i
    BY <1>1
  <2> QED BY <1>4, <2>1
<1> QED BY <1>1, <1>2, <1>4, <1>5 DEF t

\* A list without its member at position k.
LEMMA Without ==
  ASSUME NEW S, NEW s \in Seq(S), NEW k \in 1 .. Len(s),
         NEW t, t = SubSeq(s, 1, k - 1) \o SubSeq(s, k + 1, Len(s))
  PROVE  /\ t \in Seq(S) /\ Len(t) = Len(s) - 1
         /\ \A i \in 1 .. k - 1 : t[i] = s[i]
         /\ \A i \in k .. Len(s) - 1 : t[i] = s[i + 1]
<1> DEFINE a == SubSeq(s, 1, k - 1)
           b == SubSeq(s, k + 1, Len(s))
<1>1. Len(s) \in Nat /\ \A i \in 1 .. Len(s) : s[i] \in S
  BY LenProperties, ElementOfSeq
<1>2. /\ a \in Seq(S) /\ Len(a) = k - 1
      /\ \A i \in 1 .. k - 1 : a[i] = s[i]
  <2>1. /\ a \in Seq(S) /\ Len(a) = (IF 1 <= k - 1 THEN (k - 1) - 1 + 1 ELSE 0)
        /\ \A i \in 1 .. (k - 1) - 1 + 1 : a[i] = s[1 + i - 1]
    <3>1. 1 \in Int /\ k - 1 \in Int /\ \A i \in 1 .. k - 1 : s[i] \in S
      BY <1>1
    <3> QED BY <3>1, SubSeqProperties
  <2> HIDE DEF a
  <2>2. \A i \in 1 .. k - 1 : i \in 1 .. (k - 1) - 1 + 1 /\ 1 + i - 1 = i
    OBVIOUS
  <2> QED BY <2>1, <2>2
<1>3. /\ b \in Seq(S) /\ Len(b) = Len(s) - k
      /\ \A i \in 1 .. Len(s) - k : b[i] = s[k + i]
  <2>1. /\ b \in Seq(S)
        /\ Len(b) = (IF k + 1 <= Len(s) THEN Len(s) - (k + 1) + 1 ELSE 0)
        /\ \A i \in 1 .. Len(s) - (k + 1) + 1 : b[i] = s[(k + 1) + i - 1]
    <3>1. k + 1 \in Int /\ Len(s) \in Int /\ \A i \in k + 1 .. Len(s) : s[i] \in S
      BY <1>1
    <3> QED BY <3>1, SubSeqProperties
  <2> HIDE DEF b
  <2>2. \A i \in 1 .. Len(s) - k : i \in 1 .. Len(s) - (k + 1) + 1 /\ (k + 1) + i - 1 = k + i
    BY <1>1
  <2> QED BY <1>1, <2>1, <2>2
<1>4. /\ t \in Seq(S) /\ Len(t) = Len(a) + Len(b)
      /\ \A i \in 1 .. Len(a) + Len(b) : t[i] = IF i <= Len(a) THEN a[i] ELSE b[i - Len(a)]
  <2> HIDE DEF a, b
  <2>1. t = a \o b
    BY DEF a, b
  <2>2. a \in Seq(S) /\ b \in Seq(S)
    BY <1>2, <1>3
  <2>3. /\ a \o b \in Seq(S) /\ Len(a \o b) = Len(a) + Len(b)
        /\ \A i \in 1 .. Len(a) + Len(b) :
              (a \o b)[i] = IF i <= Len(a) THEN a[i] ELSE b[i - Len(a)]
    BY <2>2, ConcatProperties, Zenon
  <2> QED BY <2>1, <2>3
<1> HIDE DEF a, b
<1>5. Len(t) = Len(s) - 1 /\ \A i \in 1 .. k - 1 : t[i] = s[i]
  <2>1. Len(t) = Len(s) - 1
    BY <1>1, <1>2, <1>3, <1>4
  <2>2. ASSUME NEW i \in 1 .. k - 1 PROVE t[i] = s[i]
    <3>1. i \in 1 .. Len(a) + Len(b) /\ i <= Len(a)
      BY <1>1, <1>2, <1>3
    <3> QED BY <1>2, <1>4, <3>1
  <2> QED BY <2>1, <2>2
<1>6. ASSUME NEW i \in k .. Len(s) - 1 PROVE t[i] = s[i + 1]
  <2>1. /\ i \in 1 .. Len(a) + Len(b) /\ ~(i <= Len(a)) /\ i - Len(a) \in 1 .. Len(s) - k
        /\ k + (i - Len(a)) = i + 1
    BY <1>1, <1>2, <1>3
  <2> QED BY <1>3, <1>4, <2>1
<1> QED BY <1>4, <1>5, <1>6

LEMMA InListIs ==
  ASSUME NEW S, NEW s \in Seq(S), NEW x
  PROVE  /\ InList(x, s) <=> \E i \in 1 .. Len(s) : s[i] = x
         /\ InList(x, s) => x \in S
BY LenProperties, ElementOfSeq DEF InList

\* What is in a list stays in it when something is put before it.
LEMMA PushedList ==
  ASSUME NEW S, NEW s \in Seq(S), NEW x \in S, NEW t, t = <<x>> \o s
  PROVE  /\ t \in Seq(S)
         /\ \A y : InList(y, t) <=> y = x \/ InList(y, s)
         /\ Distinct(s) /\ ~InList(x, s) => Distinct(t)
<1>1. /\ t \in Seq(S) /\ Len(t) = Len(s) + 1 /\ Len(s) \in Nat
      /\ t[1] = x
      /\ \A i \in 1 .. Len(s) : t[i + 1] = s[i]
      /\ \A i \in 2 .. Len(s) + 1 : t[i] = s[i - 1]
  BY Pushed
<1>2. ASSUME NEW y PROVE InList(y, t) <=> y = x \/ InList(y, s)
  <2>1. ASSUME InList(y, t) PROVE y = x \/ InList(y, s)
    <3>1. DOMAIN t = 1 .. Len(t)
      BY <1>1, LenProperties
    <3>2. PICK i \in 1 .. Len(t) : t[i] = y
      BY <2>1, <3>1 DEF InList
    <3>3. CASE i = 1
      BY <1>1, <3>2, <3>3
    <3>4. CASE i # 1
      <4>1. i \in 2 .. Len(s) + 1 /\ i - 1 \in 1 .. Len(s)
        BY <1>1, <3>2, <3>4
      <4>2. s[i - 1] = y
        BY <1>1, <3>2, <4>1
      <4> QED BY <4>1, <4>2, InListIs
    <3> QED BY <3>3, <3>4
  <2>2. ASSUME y = x PROVE InList(y, t)
    <3>1. 1 \in 1 .. Len(t)
      BY <1>1
    <3> QED BY <1>1, <2>2, <3>1, InListIs
  <2>3. ASSUME InList(y, s) PROVE InList(y, t)
    <3>1. PICK i \in 1 .. Len(s) : s[i] = y
      BY <2>3, InListIs
    <3>2. i + 1 \in 1 .. Len(t) /\ t[i + 1] = y
      BY <1>1, <3>1
    <3> QED BY <1>1, <3>2, InListIs
  <2> QED BY <2>1, <2>2, <2>3
<1>3. ASSUME Distinct(s), ~InList(x, s) PROVE Distinct(t)
  <2> SUFFICES ASSUME NEW i \in 1 .. Len(t), NEW j \in 1 .. Len(t), t[i] = t[j]
               PROVE  i = j
    BY DEF Distinct
  <2>1. \A k \in 2 .. Len(s) + 1 : k - 1 \in 1 .. Len(s) /\ t[k] = s[k - 1]
    BY <1>1
  <2>2. \A k \in 2 .. Len(s) + 1 : t[k] # x
    BY <1>3, <2>1, InListIs
  <2>3. CASE i = 1 \/ j = 1
    BY <1>1, <2>2, <2>3
  <2>4. CASE i # 1 /\ j # 1
    <3>1. i \in 2 .. Len(s) + 1 /\ j \in 2 .. Len(s) + 1
      BY <1>1, <2>4
    <3>2. i - 1 \in 1 .. Len(s) /\ j - 1 \in 1 .. Len(s) /\ s[i - 1] = s[j - 1]
      BY <2>1, <3>1
    <3>3. i - 1 = j - 1
      BY <1>3, <3>2 DEF Distinct
    <3> QED BY <3>1, <3>3
  <2> QED BY <2>3, <2>4
<1> QED BY <1>1, <1>2, <1>3

-----------------------------------------------------------------------------
(***************************************************************************)
(* The management server.                                                  *)
(***************************************************************************)

\* While it is not initialized the server has no thread and empty lists, and while it
\* is stopped nobody but its own thread runs a handler.
SInv ==
  /\ MgmtTypeOK
  /\ server = initialized
  /\ server_thread # "none" => initialized
  /\ ~initialized => admin = "idle" /\ cmd_list = <<>> /\ notify_list = <<>>
  /\ admin = "starting" => server_thread = "none" /\ cmd_list = <<>> /\ notify_list = <<>>
  /\ admin = "stopping" => \A c \in Callers : executing[c] = NoMethod
  /\ server_thread = "handling" => InList(handling, cmd_list)
  /\ \A c \in Callers : executing[c] # NoMethod => InList(executing[c], cmd_list)
  /\ Distinct(notify_list)

LEMMA NothingInList == \A x : ~InList(x, <<>>)
BY DEF InList

\* The listener after the one at position i.
LEMMA NextListener ==
  ASSUME notify_list \in Seq(Listeners), Distinct(notify_list),
         NEW i \in 1 .. Len(notify_list), NEW l, notify_list[i] = l
  PROVE  /\ Len(notify_list) \in Nat
         /\ HasNext(l) <=> i < Len(notify_list)
         /\ HasNext(l) => /\ i + 1 \in 1 .. Len(notify_list)
                          /\ NextOf(l) = notify_list[i + 1]
<1>1. DOMAIN notify_list = 1 .. Len(notify_list) /\ Len(notify_list) \in Nat
  BY LenProperties
<1>2. \A j \in DOMAIN notify_list : notify_list[j] = l => j = i
  BY <1>1 DEF Distinct
<1> DEFINE k == CHOOSE j \in DOMAIN notify_list : notify_list[j] = l
<1>3. k = i
  <2>1. i \in DOMAIN notify_list /\ notify_list[i] = l
    BY <1>1
  <2>2. k \in DOMAIN notify_list /\ notify_list[k] = l
    BY <2>1
  <2> QED BY <1>2, <2>2
<1>4. HasNext(l) <=> i < Len(notify_list)
  BY <1>1, <1>2 DEF HasNext
<1>5. NextOf(l) = notify_list[1 + k]
  BY DEF NextOf
<1>6. 1 + k = i + 1
  <2> HIDE DEF k
  <2> QED BY <1>3
<1> HIDE DEF k
<1> QED BY <1>1, <1>4, <1>5, <1>6

LEMMA InitSInv == MgmtInit => SInv
<1>1. /\ <<>> \in Seq(Commands) /\ <<>> \in Seq(Listeners) /\ Distinct(<<>>)
  BY EmptySeq DEF Distinct
<1> QED BY <1>1 DEF MgmtInit, SInv, MgmtTypeOK

\* Starting and stopping the server.
LEMMA AdminSInv ==
  ASSUME SInv, ServerInit \/ CreateThread \/ ServerFini \/ Join
  PROVE  SInv'
<1>1. CASE ServerInit
  BY <1>1 DEF SInv, MgmtTypeOK, ServerInit, tableVars, Distinct
<1>2. CASE CreateThread
  BY <1>2, NothingInList DEF SInv, MgmtTypeOK, CreateThread, tableVars, Distinct
<1>3. CASE ServerFini
  BY <1>3 DEF SInv, MgmtTypeOK, ServerFini, tableVars, Distinct
<1>4. CASE Join
  <2>1. /\ <<>> \in Seq(Commands) /\ <<>> \in Seq(Listeners) /\ Distinct(<<>>)
    BY EmptySeq DEF Distinct
  <2> QED BY <1>4, <2>1 DEF SInv, MgmtTypeOK, Join, Shut, Distinct
<1> QED BY <1>1, <1>2, <1>3, <1>4

\* Requests, and the handlers that add commands.
LEMMA RequestSInv ==
  ASSUME SInv, RequestStep
  PROVE  SInv'
<1>1. ASSUME NEW m \in Commands, AddCommand(m) PROVE SInv'
  <2>1. cmd_list' = <<m>> \o cmd_list /\ cmd_list \in Seq(Commands)
    BY <1>1 DEF AddCommand, SInv, MgmtTypeOK
  <2>2. cmd_list' \in Seq(Commands) /\ \A y : InList(y, cmd_list) => InList(y, cmd_list')
    BY <2>1, PushedList
  <2>3. initialized /\ admin # "starting"
    BY <1>1 DEF AddCommand, MayCall, SInv
  <2> QED BY <1>1, <2>2, <2>3 DEF AddCommand, SInv, MgmtTypeOK, serverVars, Distinct
<1>2. ASSUME NEW m \in Commands, RpcRequest(m) PROVE SInv'
  BY <1>2 DEF RpcRequest, HasHandler, SInv, MgmtTypeOK, tableVars, Distinct
<1>3. CASE ThreadStep
  BY <1>3 DEF ThreadStep, RpcReturns, ServerThreadEnds, SInv, MgmtTypeOK, tableVars, Distinct
<1>4. ASSUME NEW c \in Callers, NEW m \in Commands, ExecuteCmd(c, m) PROVE SInv'
  BY <1>4 DEF ExecuteCmd, HasHandler, SInv, MgmtTypeOK, serverVars, tableVars, Distinct
<1>5. ASSUME NEW c \in Callers, ExecuteReturns(c) PROVE SInv'
  BY <1>5 DEF ExecuteReturns, SInv, MgmtTypeOK, serverVars, tableVars, Distinct
<1> QED BY <1>1, <1>2, <1>3, <1>4, <1>5 DEF RequestStep

\* Listeners register and are told.
LEMMA ListenerSInv ==
  ASSUME SInv,
         \/ \E l \in Listeners : RegisterNotification(l)
         \/ EventStarts
         \/ EventEnds
         \/ EventGoesOn /\ InList(telling, notify_list)
  PROVE  SInv'
<1>1. ASSUME NEW l \in Listeners, RegisterNotification(l) PROVE SInv'
  <2>1. notify_list' = <<l>> \o notify_list /\ notify_list \in Seq(Listeners)
    BY <1>1 DEF RegisterNotification, SInv, MgmtTypeOK
  <2>2. notify_list' \in Seq(Listeners) /\ Distinct(notify_list')
    BY <1>1, <2>1, PushedList DEF RegisterNotification, SInv
  <2>3. initialized /\ admin # "starting"
    BY <1>1 DEF RegisterNotification, MayCall, SInv
  <2> QED BY <1>1, <2>2, <2>3 DEF RegisterNotification, SInv, MgmtTypeOK, serverVars, Distinct
<1>2. ASSUME telling' \in Listeners \cup {NoListener},
             UNCHANGED <<serverVars, tableVars, admin, executing>>
      PROVE  SInv'
  BY <1>2 DEF SInv, MgmtTypeOK, serverVars, tableVars, Distinct
<1>3. CASE EventStarts
  <2>1. Head(notify_list) \in Listeners
    BY <1>3, HeadTailProperties DEF EventStarts, NobodyToTell, SInv, MgmtTypeOK
  <2> QED BY <1>2, <1>3, <2>1 DEF EventStarts
<1>4. CASE EventEnds
  BY <1>2, <1>4 DEF EventEnds
<1>5. CASE EventGoesOn /\ InList(telling, notify_list)
  <2>1. notify_list \in Seq(Listeners) /\ Distinct(notify_list) /\ HasNext(telling)
    BY <1>5 DEF EventGoesOn, SInv, MgmtTypeOK
  <2>2. PICK i \in 1 .. Len(notify_list) : notify_list[i] = telling
    BY <1>5, <2>1, InListIs
  <2>3. NextOf(telling) \in Listeners
    BY <2>1, <2>2, NextListener, ElementOfSeq
  <2> QED BY <1>2, <1>5, <2>3 DEF EventGoesOn
<1> QED BY <1>1, <1>3, <1>4, <1>5

-----------------------------------------------------------------------------
(***************************************************************************)
(* Lists of entries.                                                       *)
(***************************************************************************)
Entry == [name : Devices, online : BOOLEAN]

\* The devices that have an entry, and those whose entry is on-line.
NamesOf(s)  == {s[i].name : i \in 1 .. Len(s)}
OnlineOf(s) == {s[i].name : i \in {j \in 1 .. Len(s) : s[j].online}}

\* No device has two entries.
NoTwice(s) == \A i, j \in 1 .. Len(s) : s[i].name = s[j].name => i = j

LEMMA EntryFields ==
  ASSUME NEW s \in Seq(Entry)
  PROVE  /\ Len(s) \in Nat /\ DOMAIN s = 1 .. Len(s)
         /\ \A i \in 1 .. Len(s) : /\ s[i] \in Entry
                                   /\ s[i].name \in Devices /\ s[i].online \in BOOLEAN
         /\ NamesOf(s) \subseteq Devices /\ OnlineOf(s) \subseteq NamesOf(s)
<1>1. /\ Len(s) \in Nat /\ DOMAIN s = 1 .. Len(s)
      /\ \A i \in 1 .. Len(s) : s[i] \in Entry
  BY LenProperties, ElementOfSeq
<1>2. \A i \in 1 .. Len(s) : s[i].name \in Devices /\ s[i].online \in BOOLEAN
  BY <1>1 DEF Entry
<1> QED BY <1>1, <1>2 DEF NamesOf, OnlineOf

\* The length of such a list is the number of its devices.
LEMMA EntriesCounted ==
  ASSUME NEW s \in Seq(Entry), NoTwice(s)
  PROVE  Cardinality(NamesOf(s)) = Len(s) /\ Len(s) <= Cardinality(Devices)
<1> DEFINE f == [i \in 1 .. Len(s) |-> s[i].name]
<1>1. Len(s) \in Nat /\ NamesOf(s) \subseteq Devices
  BY EntryFields
<1>2. f \in [1 .. Len(s) -> NamesOf(s)]
  BY DEF NamesOf
<1>3. \A i, j \in 1 .. Len(s) : f[i] = f[j] => i = j
  BY DEF NoTwice
<1>4. \A d \in NamesOf(s) : \E i \in 1 .. Len(s) : f[i] = d
  BY DEF NamesOf
<1> HIDE DEF f
<1>5. f \in Bijection(1 .. Len(s), NamesOf(s))
  BY <1>2, <1>3, <1>4, Fun_IsBij
<1>6. Cardinality(NamesOf(s)) = Len(s)
  BY <1>1, <1>5, FS_CountingElements DEF ExistsBijection
<1>7. Cardinality(NamesOf(s)) <= Cardinality(Devices)
  BY <1>1, DevicesAssumption, FS_Subset
<1> QED BY <1>6, <1>7

\* An entry is put before a list.
LEMMA EntryAdded ==
  ASSUME NEW s \in Seq(Entry), NEW d \in Devices,
         NEW t, t = <<[name |-> d, online |-> TRUE]>> \o s
  PROVE  /\ t \in Seq(Entry)
         /\ NamesOf(t) = NamesOf(s) \cup {d} /\ OnlineOf(t) = OnlineOf(s) \cup {d}
         /\ NoTwice(s) /\ d \notin NamesOf(s) => NoTwice(t)
<1>1. [name |-> d, online |-> TRUE] \in Entry
  BY DEF Entry
<1>2. /\ t \in Seq(Entry) /\ Len(t) = Len(s) + 1 /\ Len(s) \in Nat
      /\ t[1].name = d /\ t[1].online = TRUE
      /\ \A i \in 1 .. Len(s) : t[i + 1] = s[i]
      /\ \A i \in 2 .. Len(s) + 1 : t[i] = s[i - 1]
  BY <1>1, Pushed
<1>3. /\ 1 \in 1 .. Len(t)
      /\ \A i \in 1 .. Len(s) : i + 1 \in 1 .. Len(t)
      /\ \A i \in 1 .. Len(t) : i # 1 => i - 1 \in 1 .. Len(s) /\ t[i] = s[i - 1]
  BY <1>2
<1>4. NamesOf(t) = NamesOf(s) \cup {d}
  <2>1. NamesOf(t) \subseteq NamesOf(s) \cup {d}
    BY <1>2, <1>3 DEF NamesOf
  <2>2. d \in NamesOf(t)
    BY <1>2, <1>3 DEF NamesOf
  <2>3. NamesOf(s) \subseteq NamesOf(t)
    BY <1>2, <1>3 DEF NamesOf
  <2> QED BY <2>1, <2>2, <2>3
<1>5. OnlineOf(t) = OnlineOf(s) \cup {d}
  <2>1. OnlineOf(t) \subseteq OnlineOf(s) \cup {d}
    BY <1>2, <1>3 DEF OnlineOf
  <2>2. d \in OnlineOf(t)
    BY <1>2, <1>3 DEF OnlineOf
  <2>3. OnlineOf(s) \subseteq OnlineOf(t)
    BY <1>2, <1>3 DEF OnlineOf
  <2> QED BY <2>1, <2>2, <2>3
<1>6. ASSUME NoTwice(s), d \notin NamesOf(s) PROVE NoTwice(t)
  <2> SUFFICES ASSUME NEW i \in 1 .. Len(t), NEW j \in 1 .. Len(t), t[i].name = t[j].name
               PROVE  i = j
    BY DEF NoTwice
  <2>1. \A k \in 1 .. Len(t) : k # 1 => t[k].name # d
    BY <1>3, <1>6 DEF NamesOf
  <2>2. CASE i = 1 \/ j = 1
    BY <1>2, <2>1, <2>2
  <2>3. CASE i # 1 /\ j # 1
    <3>1. i - 1 \in 1 .. Len(s) /\ j - 1 \in 1 .. Len(s) /\ s[i - 1].name = s[j - 1].name
      BY <1>3, <2>3
    <3>2. i - 1 = j - 1
      BY <1>6, <3>1 DEF NoTwice
    <3> QED BY <3>2
  <2> QED BY <2>2, <2>3
<1> QED BY <1>2, <1>4, <1>5, <1>6

\* The entry at position k is taken out.
LEMMA OneEntryLess ==
  ASSUME NEW s \in Seq(Entry), NoTwice(s), NEW k \in 1 .. Len(s), s[k].online = FALSE,
         NEW t \in Seq(Entry), Len(t) = Len(s) - 1,
         \A i \in 1 .. k - 1 : t[i] = s[i],
         \A i \in k .. Len(s) - 1 : t[i] = s[i + 1]
  PROVE  /\ NoTwice(t)
         /\ NamesOf(t) = NamesOf(s) \ {s[k].name} /\ OnlineOf(t) = OnlineOf(s)
<1>1. Len(s) \in Nat
  BY LenProperties
<1> DEFINE from(i) == IF i < k THEN i ELSE i + 1
<1>2. \A i \in 1 .. Len(t) : from(i) \in 1 .. Len(s) /\ from(i) # k /\ t[i] = s[from(i)]
  BY <1>1
<1>3. \A i, j \in 1 .. Len(t) : from(i) = from(j) => i = j
  BY <1>1
<1>4. \A j \in 1 .. Len(s) : j # k => \E i \in 1 .. Len(t) : t[i] = s[j]
  <2> SUFFICES ASSUME NEW j \in 1 .. Len(s), j # k
               PROVE  \E i \in 1 .. Len(t) : t[i] = s[j]
    OBVIOUS
  <2>1. CASE j < k
    <3>1. j \in 1 .. Len(t) /\ j \in 1 .. k - 1
      BY <1>1, <2>1
    <3> QED BY <1>1, <3>1
  <2>2. CASE j > k
    <3>1. j - 1 \in 1 .. Len(t) /\ j - 1 \in k .. Len(s) - 1 /\ (j - 1) + 1 = j
      BY <1>1, <2>2
    <3> QED BY <1>1, <3>1
  <2> QED BY <2>1, <2>2
<1> HIDE DEF from
<1>5. NoTwice(t)
  BY <1>2, <1>3 DEF NoTwice
<1>6. NamesOf(t) = NamesOf(s) \ {s[k].name}
  <2>1. \A i \in 1 .. Len(t) : t[i].name \in NamesOf(s) /\ t[i].name # s[k].name
    <3> TAKE i \in 1 .. Len(t)
    <3>1. from(i) \in 1 .. Len(s) /\ from(i) # k /\ t[i].name = s[from(i)].name
      BY <1>2
    <3>2. s[from(i)].name # s[k].name
      BY <3>1 DEF NoTwice
    <3> QED BY <3>1, <3>2 DEF NamesOf
  <2>2. ASSUME NEW j \in 1 .. Len(s), s[j].name # s[k].name PROVE s[j].name \in NamesOf(t)
    <3>1. PICK i \in 1 .. Len(t) : t[i] = s[j]
      BY <1>4, <2>2
    <3>2. t[i].name = s[j].name
      BY <3>1
    <3> QED BY <3>2 DEF NamesOf
  <2>3. /\ NamesOf(t) = {t[i].name : i \in 1 .. Len(t)}
        /\ NamesOf(s) = {s[i].name : i \in 1 .. Len(s)}
    BY DEF NamesOf
  <2> QED BY <2>1, <2>2, <2>3
<1>7. OnlineOf(t) = OnlineOf(s)
  <2>1. OnlineOf(t) \subseteq OnlineOf(s)
    BY <1>2 DEF OnlineOf
  <2>2. ASSUME NEW j \in 1 .. Len(s), s[j].online PROVE s[j].name \in OnlineOf(t)
    <3>1. j # k
      BY <2>2
    <3>2. PICK i \in 1 .. Len(t) : t[i] = s[j]
      BY <1>4, <3>1
    <3>3. t[i].online /\ t[i].name = s[j].name
      BY <2>2, <3>2
    <3> QED BY <3>3 DEF OnlineOf
  <2>3. OnlineOf(s) = {s[j].name : j \in {i \in 1 .. Len(s) : s[i].online}}
    BY DEF OnlineOf
  <2> QED BY <2>1, <2>2, <2>3
<1> QED BY <1>5, <1>6, <1>7

LEMMA EntryRemoved ==
  ASSUME NEW s \in Seq(Entry), NoTwice(s), NEW k \in 1 .. Len(s), s[k].online = FALSE,
         NEW t, t = SubSeq(s, 1, k - 1) \o SubSeq(s, k + 1, Len(s))
  PROVE  /\ t \in Seq(Entry) /\ NoTwice(t) /\ Len(t) = Len(s) - 1
         /\ NamesOf(t) = NamesOf(s) \ {s[k].name} /\ OnlineOf(t) = OnlineOf(s)
         /\ \A i \in 1 .. k - 1 : t[i] = s[i]
<1>1. /\ t \in Seq(Entry) /\ Len(t) = Len(s) - 1
      /\ \A i \in 1 .. k - 1 : t[i] = s[i]
      /\ \A i \in k .. Len(s) - 1 : t[i] = s[i + 1]
  BY Without
<1>2. /\ NoTwice(t)
      /\ NamesOf(t) = NamesOf(s) \ {s[k].name} /\ OnlineOf(t) = OnlineOf(s)
  BY <1>1, OneEntryLess, ZenonT(30)
<1> QED BY <1>1, <1>2

\* Entries go on-line or off-line.
LEMMA EntriesSwitched ==
  ASSUME NEW s \in Seq(Entry), NEW t, DOMAIN t = 1 .. Len(s), t = [i \in 1 .. Len(s) |-> t[i]],
         \A i \in 1 .. Len(s) : t[i] \in Entry /\ t[i].name = s[i].name
  PROVE  /\ t \in Seq(Entry) /\ Len(t) = Len(s)
         /\ NamesOf(t) = NamesOf(s) /\ (NoTwice(s) => NoTwice(t))
<1>1. t \in Seq(Entry) /\ Len(t) = Len(s)
  <2>1. Len(s) \in Nat /\ t \in [1 .. Len(s) -> Entry]
    BY LenProperties
  <2> QED BY <2>1
<1> QED BY <1>1 DEF NamesOf, NoTwice
-----------------------------------------------------------------------------
(***************************************************************************)
(* The scan.                                                               *)
(***************************************************************************)
Room == Cardinality(seen) <= MaxDevices

\* Every device that stayed is still to be handled, on-line in the list or found no memory
\* (then it is neither), and what is on-line was seen; before the entries are marked the list says nothing.
ListKnows ==
  /\ NoTwice(entries)
  /\ names \subseteq seen
  /\ scan_pc \in {"idle", "sweep", "removed"} => names = {}
  /\ scan_pc = "lock" /\ Room => stayed \subseteq names
  /\ scan_pc # "lock" => OnlineOf(entries) \subseteq seen
  /\ scan_pc # "lock" /\ Room => stayed \subseteq names \cup OnlineOf(entries) \cup unlisted
  /\ scan_pc = "lock" => unlisted = {}
  /\ unlisted \cap NamesOf(entries) = {} /\ unlisted \cap names = {}

\* The entries the last step has passed are on-line, and in the end all are.
SweepKnows ==
  /\ scan_pc \in {"sweep", "removed"} => /\ pos \in 1 .. Len(entries) + 1
                                         /\ \A i \in 1 .. pos - 1 : entries[i].online
  /\ scan_pc = "removed" => pos <= Len(entries) /\ entries[pos].online = FALSE
  /\ scan_pc = "idle" => \A i \in 1 .. Len(entries) : entries[i].online

\* The event is about an entry of the list.
EventKnown ==
  /\ scan_pc = "added" => event.kind = "added" /\ event.name \in NamesOf(entries)
  /\ scan_pc = "removed" => event.kind = "removed" /\ event.name = entries[pos].name
  /\ InCallback => event_cb

LInv == DeviceTypeOK /\ ListKnows /\ SweepKnows /\ EventKnown

LEMMA ListFacts ==
  ASSUME DeviceTypeOK
  PROVE  /\ entries \in Seq(Entry) /\ Len(entries) \in Nat
         /\ DOMAIN entries = 1 .. Len(entries)
         /\ Names = NamesOf(entries) /\ \A d : Exists(d) <=> d \in OnlineOf(entries)
         /\ IsFiniteSet(seen) /\ IsFiniteSet(devs)
         /\ Cardinality(Devices) \in Nat
<1>1. entries \in Seq(Entry)
  BY DEF DeviceTypeOK, Entry
<1>2. Len(entries) \in Nat /\ DOMAIN entries = 1 .. Len(entries)
  BY <1>1, LenProperties
<1>3. Names = NamesOf(entries) /\ \A d : Exists(d) <=> d \in OnlineOf(entries)
  BY <1>2 DEF Names, NamesOf, Exists, OnlineOf
<1>4. IsFiniteSet(seen) /\ IsFiniteSet(devs)
  BY DevicesAssumption, FS_Subset DEF DeviceTypeOK
<1>5. Cardinality(Devices) \in Nat
  BY DevicesAssumption, FS_CardinalityType
<1> QED BY <1>1, <1>2, <1>3, <1>4, <1>5

LEMMA InitLInv == DeviceInit => LInv
<1> SUFFICES ASSUME DeviceInit PROVE LInv
  OBVIOUS
<1>1. Cardinality(Devices) \in Nat
  BY DevicesAssumption, FS_CardinalityType
<1>2. DeviceTypeOK
  <2>1. entries \in Seq([name : Devices, online : BOOLEAN])
    BY EmptySeq DEF DeviceInit
  <2>2. NoEvent \in [kind : Kinds, name : Devices \cup {NoDevice}]
    BY DEF NoEvent, Kinds
  <2>3. pos \in 0 .. Cardinality(Devices) + 1
    BY <1>1 DEF DeviceInit
  <2> QED BY <2>1, <2>2, <2>3 DEF DeviceInit, DeviceTypeOK
<1>3. Len(entries) = 0
  BY EmptySeq DEF DeviceInit
<1>4. NoTwice(entries) /\ OnlineOf(entries) = {}
  BY <1>3 DEF NoTwice, OnlineOf
<1> QED BY <1>2, <1>3, <1>4 DEF DeviceInit, LInv, ListKnows, SweepKnows, EventKnown, InCallback

\* Devices come and go.
LEMMA SpdkLInv ==
  ASSUME LInv, SpdkDevices
  PROVE  LInv'
<1> USE DEF listVars, scanVars
<1>1. ASSUME NEW d \in Devices, DeviceComes(d) PROVE LInv'
  <2>1. IsFiniteSet(seen') /\ seen \subseteq seen'
    BY <1>1, DevicesAssumption, FS_Subset DEF DeviceComes, LInv, DeviceTypeOK
  <2>2. /\ Cardinality(seen) \in Nat /\ Cardinality(seen') \in Nat
        /\ Cardinality(seen) <= Cardinality(seen')
    BY <2>1, FS_Subset, FS_CardinalityType
  <2>3. Room' => Room
    BY <2>2, RoomAssumption DEF Room
  <2>4. DeviceTypeOK'
    BY <1>1 DEF DeviceComes, LInv, DeviceTypeOK
  <2>5. ListKnows'
    BY <1>1, <2>1, <2>3 DEF DeviceComes, LInv, ListKnows
  <2>6. SweepKnows' /\ EventKnown'
    BY <1>1 DEF DeviceComes, LInv, SweepKnows, EventKnown, InCallback
  <2> QED BY <2>4, <2>5, <2>6 DEF LInv
<1>2. ASSUME NEW d \in Devices, DeviceGoes(d) PROVE LInv'
  <2>1. DeviceTypeOK'
    BY <1>2 DEF DeviceGoes, LInv, DeviceTypeOK
  <2>2. ListKnows'
    BY <1>2 DEF DeviceGoes, LInv, ListKnows, Room
  <2>3. SweepKnows' /\ EventKnown'
    BY <1>2 DEF DeviceGoes, LInv, SweepKnows, EventKnown, InCallback
  <2> QED BY <2>1, <2>2, <2>3 DEF LInv
<1> QED BY <1>1, <1>2 DEF SpdkDevices

\* What the application does between scans.
LEMMA AppLInv ==
  ASSUME LInv, AppStep
  PROVE  LInv'
<1> USE DEF listVars, scanVars, scanHistory
<1>1. CASE RegisterCallback
  <2>1. DeviceTypeOK'
    BY <1>1 DEF RegisterCallback, LInv, DeviceTypeOK
  <2>2. ListKnows' /\ SweepKnows' /\ EventKnown'
    BY <1>1 DEF RegisterCallback, LInv, ListKnows, Room, SweepKnows, EventKnown, InCallback
  <2> QED BY <2>1, <2>2 DEF LInv
<1>2. CASE StopMonitoring
  <2>1. DeviceTypeOK'
    BY <1>2 DEF StopMonitoring, LInv, DeviceTypeOK
  <2>2. ListKnows' /\ SweepKnows' /\ EventKnown'
    BY <1>2 DEF StopMonitoring, LInv, ListKnows, Room, SweepKnows, EventKnown, InCallback
  <2> QED BY <2>1, <2>2 DEF LInv
<1>3. CASE ListFini
  <2>1. /\ entries' \in Seq([name : Devices, online : BOOLEAN])
        /\ Len(entries') = 0
    BY <1>3, EmptySeq DEF ListFini
  <2>2. DeviceTypeOK'
    BY <1>3, <2>1 DEF ListFini, LInv, DeviceTypeOK
  <2>3. NoTwice(entries') /\ OnlineOf(entries') = {}
    BY <2>1 DEF NoTwice, OnlineOf
  <2>4. ListKnows'
    BY <1>3, <2>3 DEF ListFini, LInv, ListKnows
  <2>5. SweepKnows' /\ EventKnown'
    BY <1>3, <2>1 DEF ListFini, LInv, SweepKnows, EventKnown, InCallback
  <2> QED BY <2>2, <2>4, <2>5 DEF LInv
<1>4. ASSUME ReadNames, monitor_running' \in BOOLEAN PROVE LInv'
  <2>1. PICK ns \in SUBSET devs :
          /\ ns # devs => Cardinality(ns) = MaxDevices
          /\ names' = ns
    BY <1>4 DEF ReadNames
  <2>2. DeviceTypeOK'
    BY <1>4, <2>1 DEF ReadNames, LInv, DeviceTypeOK
  <2>3. ASSUME Cardinality(devs) <= MaxDevices PROVE ns = devs
    <3>1. IsFiniteSet(devs)
      BY ListFacts DEF LInv
    <3>2. IsFiniteSet(ns) /\ (Cardinality(ns) = Cardinality(devs) => ns = devs)
          /\ Cardinality(ns) <= Cardinality(devs)
      BY <2>1, <3>1, FS_Subset
    <3>3. Cardinality(ns) \in Nat /\ Cardinality(devs) \in Nat
      BY <3>1, <3>2, FS_CardinalityType
    <3>4. ns # devs => Cardinality(ns) = Cardinality(devs)
      BY <2>1, <2>3, <3>2, <3>3, RoomAssumption
    <3> QED BY <3>2, <3>4
  <2>4. ListKnows'
    BY <1>4, <2>1, <2>3 DEF ReadNames, LInv, ListKnows, Room
  <2>5. SweepKnows' /\ EventKnown'
    BY <1>4 DEF ReadNames, LInv, SweepKnows, EventKnown, InCallback
  <2> QED BY <2>2, <2>4, <2>5 DEF LInv
<1>5. CASE Scan
  BY <1>4, <1>5 DEF Scan, LInv, DeviceTypeOK
<1>6. CASE StartMonitoring
  BY <1>4, <1>6 DEF StartMonitoring
<1>7. CASE ScanFails
  <2>1. DeviceTypeOK'
    BY <1>7 DEF ScanFails, LInv, DeviceTypeOK
  <2>2. ListKnows' /\ SweepKnows' /\ EventKnown'
    BY <1>7 DEF ScanFails, LInv, ListKnows, Room, SweepKnows, EventKnown, InCallback
  <2> QED BY <2>1, <2>2 DEF LInv
<1> QED BY <1>1, <1>2, <1>3, <1>5, <1>6, <1>7 DEF AppStep

\* The scan takes the mutex, and every entry is off-line.
LEMMA MarkAllLInv ==
  ASSUME LInv, MarkAll
  PROVE  LInv'
<1>1. /\ entries \in Seq(Entry) /\ Len(entries) \in Nat /\ DOMAIN entries = 1 .. Len(entries)
  BY ListFacts DEF LInv
<1>2. /\ \A i \in 1 .. Len(entries) : /\ entries[i] \in Entry
                                      /\ entries[i].name \in Devices
  BY <1>1, EntryFields
<1>3. /\ entries' = [i \in 1 .. Len(entries) |-> [entries[i] EXCEPT !.online = FALSE]]
      /\ scan_pc = "lock" /\ scan_pc' = "update"
      /\ UNCHANGED <<devs, event_cb, monitor_running, names, pos, event, stayed, seen, unlisted>>
  BY <1>1 DEF MarkAll, scanHistory
<1>4. \A i \in 1 .. Len(entries) : /\ entries'[i] \in Entry
                                   /\ entries'[i].name = entries[i].name
                                   /\ entries'[i].online = FALSE
  BY <1>2, <1>3 DEF Entry
<1>5. DOMAIN entries' = 1 .. Len(entries) /\ entries' = [i \in 1 .. Len(entries) |-> entries'[i]]
  BY <1>3
<1>6. /\ entries' \in Seq(Entry) /\ Len(entries') = Len(entries)
      /\ NamesOf(entries') = NamesOf(entries) /\ NoTwice(entries')
  BY <1>1, <1>4, <1>5, EntriesSwitched DEF LInv, ListKnows
<1>7. OnlineOf(entries') = {}
  BY <1>4, <1>6 DEF OnlineOf
<1>8. DeviceTypeOK'
  BY <1>3, <1>6 DEF LInv, DeviceTypeOK, Entry
<1>9. ListKnows'
  BY <1>3, <1>6, <1>7 DEF LInv, ListKnows, Room
<1>10. SweepKnows' /\ EventKnown'
  BY <1>3 DEF SweepKnows, EventKnown, InCallback
<1> QED BY <1>8, <1>9, <1>10 DEF LInv

\* A device that the list has is put on-line again.
LEMMA PutOnline ==
  ASSUME NEW s \in Seq(Entry), NEW d \in NamesOf(s), NEW t,
         t = [i \in DOMAIN s |-> IF s[i].name = d THEN [s[i] EXCEPT !.online = TRUE] ELSE s[i]]
  PROVE  /\ t \in Seq(Entry) /\ Len(t) = Len(s)
         /\ NamesOf(t) = NamesOf(s) /\ (NoTwice(s) => NoTwice(t))
         /\ OnlineOf(t) = OnlineOf(s) \cup {d}
<1>1. /\ DOMAIN s = 1 .. Len(s)
      /\ \A i \in 1 .. Len(s) : s[i] \in Entry /\ s[i].name \in Devices /\ s[i].online \in BOOLEAN
  BY EntryFields
<1>2. t = [i \in 1 .. Len(s) |-> IF s[i].name = d THEN [s[i] EXCEPT !.online = TRUE] ELSE s[i]]
  BY <1>1
<1>3. \A i \in 1 .. Len(s) : t[i] = IF s[i].name = d THEN [s[i] EXCEPT !.online = TRUE] ELSE s[i]
  BY <1>2
<1>4. \A i \in 1 .. Len(s) : /\ t[i] \in Entry
                             /\ t[i].name = s[i].name
                             /\ t[i].online = (s[i].online \/ s[i].name = d)
  <2> TAKE i \in 1 .. Len(s)
  <2>1. CASE s[i].name = d
    <3>1. t[i] = [s[i] EXCEPT !.online = TRUE]
      BY <1>3, <2>1
    <3> QED BY <1>1, <2>1, <3>1 DEF Entry
  <2>2. CASE s[i].name # d
    <3>1. t[i] = s[i]
      BY <1>3, <2>2
    <3> QED BY <1>1, <2>2, <3>1
  <2> QED BY <2>1, <2>2
<1>5. DOMAIN t = 1 .. Len(s) /\ t = [i \in 1 .. Len(s) |-> t[i]]
  BY <1>2
<1>6. /\ t \in Seq(Entry) /\ Len(t) = Len(s)
      /\ NamesOf(t) = NamesOf(s) /\ (NoTwice(s) => NoTwice(t))
  BY <1>4, <1>5, EntriesSwitched
<1>7. \A i \in 1 .. Len(s) : t[i].online <=> s[i].online \/ s[i].name = d
  BY <1>4
<1>8. OnlineOf(t) = OnlineOf(s) \cup {d}
  <2>1. OnlineOf(t) = {t[i].name : i \in {j \in 1 .. Len(s) : t[j].online}}
    BY <1>6 DEF OnlineOf
  <2>2. PICK k \in 1 .. Len(s) : s[k].name = d
    BY DEF NamesOf
  <2>3. \A x : x \in OnlineOf(t) <=> \E i \in 1 .. Len(s) : t[i].online /\ t[i].name = x
    BY <2>1
  <2>4. \A x : x \in OnlineOf(s) <=> \E i \in 1 .. Len(s) : s[i].online /\ s[i].name = x
    BY DEF OnlineOf
  <2>5. \A i \in 1 .. Len(s) : t[i].name = s[i].name
    BY <1>4
  <2>6. ASSUME NEW x PROVE x \in OnlineOf(t) <=> x \in OnlineOf(s) \/ x = d
    <3>1. ASSUME x \in OnlineOf(t) PROVE x \in OnlineOf(s) \/ x = d
      <4>1. PICK i \in 1 .. Len(s) : t[i].online /\ t[i].name = x
        BY <2>3, <3>1
      <4>2. s[i].name = x /\ (s[i].online \/ s[i].name = d)
        BY <1>7, <2>5, <4>1
      <4> QED BY <2>4, <4>2
    <3>2. ASSUME x \in OnlineOf(s) PROVE x \in OnlineOf(t)
      BY <1>7, <2>3, <2>4, <2>5, <3>2
    <3>3. d \in OnlineOf(t)
      BY <1>7, <2>2, <2>3, <2>5
    <3> QED BY <3>1, <3>2, <3>3
  <2> QED BY <2>6
<1> QED BY <1>6, <1>8

\* One name is handled: the device does not answer, is in the list, or is new.
LEMMA UpdateLInv ==
  ASSUME LInv, NEW d \in Devices, UpdateDevice(d)
  PROVE  LInv'
<1>1. /\ entries \in Seq(Entry) /\ Names = NamesOf(entries)
      /\ entries \in Seq([name : Devices, online : BOOLEAN])
  BY ListFacts DEF LInv, DeviceTypeOK
<1>2. /\ scan_pc = "update" /\ d \in names /\ d \in seen /\ names' = names \ {d}
      /\ UNCHANGED <<devs, event_cb, monitor_running, pos, stayed, seen>>
  BY DEF UpdateDevice, Handled, LInv, ListKnows
<1>3. CASE d \notin devs /\ UNCHANGED <<entries, scan_pc, event, unlisted>>
  <2>1. d \notin stayed
    BY <1>3 DEF LInv, DeviceTypeOK
  <2>2. DeviceTypeOK'
    BY <1>2, <1>3 DEF LInv, DeviceTypeOK
  <2>3. ListKnows'
    BY <1>2, <1>3, <2>1 DEF LInv, ListKnows, Room
  <2>4. SweepKnows' /\ EventKnown'
    BY <1>2, <1>3 DEF SweepKnows, EventKnown, InCallback
  <2> QED BY <2>2, <2>3, <2>4 DEF LInv
<1>4. CASE /\ d \in devs /\ d \in Names
           /\ entries' = [i \in DOMAIN entries |->
                IF entries[i].name = d THEN [entries[i] EXCEPT !.online = TRUE] ELSE entries[i]]
           /\ UNCHANGED <<scan_pc, event, unlisted>>
  <2>1. /\ entries' \in Seq(Entry) /\ (NoTwice(entries) => NoTwice(entries'))
        /\ OnlineOf(entries') = OnlineOf(entries) \cup {d}
        /\ NamesOf(entries') = NamesOf(entries)
    BY <1>1, <1>4, PutOnline
  <2>2. DeviceTypeOK'
    BY <1>2, <1>4, <2>1 DEF LInv, DeviceTypeOK, Entry
  <2>3. ListKnows'
    BY <1>2, <1>4, <2>1 DEF LInv, ListKnows, Room
  <2>4. SweepKnows' /\ EventKnown'
    BY <1>2, <1>4 DEF SweepKnows, EventKnown, InCallback
  <2> QED BY <2>2, <2>3, <2>4 DEF LInv
<1>5. CASE d \notin Names /\ AddEntry(d)
  <2>1. entries' = <<[name |-> d, online |-> TRUE]>> \o entries /\ unlisted' = unlisted
    BY <1>5 DEF AddEntry
  <2>2. /\ entries' \in Seq(Entry)
        /\ NamesOf(entries') = NamesOf(entries) \cup {d}
        /\ OnlineOf(entries') = OnlineOf(entries) \cup {d}
        /\ NoTwice(entries) /\ d \notin NamesOf(entries) => NoTwice(entries')
    BY <1>1, <2>1, EntryAdded
  <2>3. \/ event_cb /\ event' = [kind |-> "added", name |-> d] /\ scan_pc' = "added"
        \/ UNCHANGED <<event, scan_pc>>
    BY <1>5 DEF AddEntry, Calls
  <2>4. DeviceTypeOK'
    BY <1>2, <2>1, <2>2, <2>3 DEF LInv, DeviceTypeOK, Entry, Kinds
  <2>5. NoTwice(entries')
    BY <1>1, <1>5, <2>2 DEF LInv, ListKnows
  <2>6. ListKnows'
    <3>1. /\ unlisted' \cap NamesOf(entries)' = {} /\ unlisted' \cap names' = {}
          /\ scan_pc' \in {"update", "added"}
      BY <1>2, <2>1, <2>2, <2>3 DEF LInv, ListKnows
    <3>2. Room => stayed \subseteq names' \cup OnlineOf(entries)' \cup unlisted'
      BY <1>2, <2>1, <2>2 DEF LInv, ListKnows, Room
    <3>3. OnlineOf(entries)' \subseteq seen /\ names' \subseteq seen
      BY <1>2, <2>2 DEF LInv, ListKnows
    <3> QED BY <1>2, <2>5, <3>1, <3>2, <3>3 DEF ListKnows, Room
  <2>7. SweepKnows' /\ EventKnown'
    BY <1>2, <2>2, <2>3 DEF LInv, SweepKnows, EventKnown, InCallback
  <2> QED BY <2>4, <2>6, <2>7 DEF LInv
<1>6. CASE d \notin Names /\ AddFails(d)
  <2>1. unlisted' = unlisted \cup {d} /\ UNCHANGED <<entries, scan_pc, event>>
    BY <1>6 DEF AddFails
  <2>2. DeviceTypeOK'
    BY <1>2, <2>1 DEF LInv, DeviceTypeOK
  <2>3. ListKnows'
    BY <1>1, <1>2, <1>6, <2>1 DEF LInv, ListKnows, Room
  <2>4. SweepKnows' /\ EventKnown'
    BY <1>2, <2>1 DEF LInv, SweepKnows, EventKnown, InCallback
  <2> QED BY <2>2, <2>3, <2>4 DEF LInv
<1> QED BY <1>3, <1>4, <1>5, <1>6 DEF UpdateDevice

\* The last step begins and ends.
LEMMA SweepLimitsLInv ==
  ASSUME LInv, StartSweep \/ EndScan
  PROVE  LInv'
<1> USE DEF listVars, scanHistory
<1>1. /\ Len(entries) \in Nat /\ Cardinality(Devices) \in Nat
      /\ entries \in Seq(Entry)
  BY ListFacts DEF LInv
<1>2. CASE StartSweep
  <2>1. DeviceTypeOK'
    BY <1>1, <1>2 DEF StartSweep, LInv, DeviceTypeOK
  <2>2. ListKnows'
    BY <1>2 DEF StartSweep, LInv, ListKnows, Room
  <2>3. SweepKnows' /\ EventKnown'
    BY <1>1, <1>2 DEF StartSweep, SweepKnows, EventKnown, InCallback
  <2> QED BY <2>1, <2>2, <2>3 DEF LInv
<1>3. CASE EndScan
  <2>1. DeviceTypeOK'
    BY <1>1, <1>3 DEF EndScan, LInv, DeviceTypeOK
  <2>2. ListKnows'
    BY <1>3 DEF EndScan, LInv, ListKnows, Room
  <2>3. \A i \in 1 .. Len(entries) : entries[i].online
    BY <1>1, <1>3 DEF EndScan, LInv, SweepKnows
  <2>4. SweepKnows' /\ EventKnown'
    BY <1>3, <2>3 DEF EndScan, SweepKnows, EventKnown, InCallback
  <2> QED BY <2>1, <2>2, <2>4 DEF LInv
<1> QED BY <1>2, <1>3

\* The entry at pos is taken out of the list.
LEMMA UnlinkLInv ==
  ASSUME LInv, scan_pc \in {"sweep", "removed"}, pos \in 1 .. Len(entries),
         entries[pos].online = FALSE,
         entries' = Unlinked(pos), scan_pc' = "sweep",
         event' \in {event, NoEvent},
         UNCHANGED <<devs, event_cb, monitor_running, names, pos, stayed, seen, unlisted>>
  PROVE  LInv'
<1>1. /\ entries \in Seq(Entry) /\ Len(entries) \in Nat
  BY ListFacts DEF LInv
<1>2. NoTwice(entries)
  BY DEF LInv, ListKnows
<1>3. entries' = SubSeq(entries, 1, pos - 1) \o SubSeq(entries, pos + 1, Len(entries))
  BY DEF Unlinked
<1>4. /\ entries' \in Seq(Entry) /\ NoTwice(entries') /\ Len(entries') = Len(entries) - 1
      /\ NamesOf(entries') = NamesOf(entries) \ {entries[pos].name}
      /\ OnlineOf(entries') = OnlineOf(entries)
      /\ \A i \in 1 .. pos - 1 : entries'[i] = entries[i]
  BY <1>1, <1>2, <1>3, EntryRemoved, ZenonT(90)
<1>5. NoEvent \in [kind : Kinds, name : Devices \cup {NoDevice}]
  BY DEF NoEvent, Kinds
<1>6. DeviceTypeOK'
  <2>1. entries' \in Seq([name : Devices, online : BOOLEAN])
    BY <1>4 DEF Entry
  <2>2. event' \in [kind : Kinds, name : Devices \cup {NoDevice}]
    BY <1>5 DEF LInv, DeviceTypeOK
  <2> QED BY <2>1, <2>2 DEF LInv, DeviceTypeOK
<1>7. ListKnows'
  BY <1>4 DEF LInv, ListKnows, Room
<1>8. SweepKnows' /\ EventKnown'
  BY <1>1, <1>4 DEF LInv, SweepKnows, EventKnown, InCallback
<1> QED BY <1>6, <1>7, <1>8 DEF LInv

LEMMA SweepLInv ==
  ASSUME LInv, SweepEntry
  PROVE  LInv'
<1>1. /\ entries \in Seq(Entry) /\ Len(entries) \in Nat /\ Cardinality(Devices) \in Nat
      /\ scan_pc = "sweep" /\ pos <= Len(entries)
      /\ UNCHANGED <<devs, event_cb, monitor_running, names, stayed, seen, unlisted>>
  BY ListFacts DEF SweepEntry, LInv, scanHistory
<1>2. pos \in 1 .. Len(entries)
  BY <1>1 DEF LInv, SweepKnows
<1>3. entries[pos].online \in BOOLEAN /\ entries[pos].name \in Devices
  BY <1>1, <1>2, EntryFields
<1>4. CASE entries[pos].online /\ pos' = pos + 1 /\ UNCHANGED <<entries, scan_pc, event>>
  <2>1. Len(entries) <= Cardinality(Devices)
    BY <1>1, EntriesCounted DEF LInv, ListKnows
  <2>2. DeviceTypeOK'
    BY <1>1, <1>2, <1>4, <2>1 DEF LInv, DeviceTypeOK
  <2>3. ListKnows'
    BY <1>1, <1>4 DEF LInv, ListKnows, Room
  <2>4. \A i \in 1 .. pos' - 1 : entries[i].online
    BY <1>1, <1>2, <1>4 DEF LInv, SweepKnows
  <2>5. SweepKnows' /\ EventKnown'
    BY <1>1, <1>2, <1>4, <2>4 DEF SweepKnows, EventKnown, InCallback
  <2> QED BY <2>2, <2>3, <2>5 DEF LInv
<1>5. CASE /\ ~entries[pos].online /\ event_cb
           /\ Calls("removed", entries[pos].name, "removed")
           /\ UNCHANGED <<entries, pos>>
  <2>1. /\ event' = [kind |-> "removed", name |-> entries[pos].name] /\ scan_pc' = "removed"
        /\ UNCHANGED <<entries, pos>> /\ event_cb /\ entries[pos].online = FALSE
    BY <1>3, <1>5 DEF Calls
  <2>2. event' \in [kind : Kinds, name : Devices \cup {NoDevice}]
    BY <1>3, <2>1 DEF Kinds
  <2>3. DeviceTypeOK'
    BY <1>1, <2>1, <2>2 DEF LInv, DeviceTypeOK
  <2>4. ListKnows'
    BY <1>1, <2>1 DEF LInv, ListKnows, Room
  <2>5. SweepKnows' /\ EventKnown'
    BY <1>1, <2>1 DEF LInv, SweepKnows, EventKnown, InCallback
  <2> QED BY <2>3, <2>4, <2>5 DEF LInv
<1>6. CASE /\ ~entries[pos].online /\ ~event_cb
           /\ entries' = Unlinked(pos)
           /\ UNCHANGED <<pos, scan_pc, event>>
  <2>1. entries[pos].online = FALSE
    BY <1>3, <1>6
  <2> QED BY <1>1, <1>2, <1>6, <2>1, UnlinkLInv
<1> QED BY <1>4, <1>5, <1>6 DEF SweepEntry

LEMMA CallbackLInv ==
  ASSUME LInv, CallbackReturns
  PROVE  LInv'
<1> USE DEF listVars, scanHistory
<1>1. CASE /\ scan_pc = "added"
           /\ scan_pc' = "update" /\ event' = NoEvent
           /\ UNCHANGED <<devs, listVars, names, pos, scanHistory>>
  <2>1. NoEvent \in [kind : Kinds, name : Devices \cup {NoDevice}]
    BY DEF NoEvent, Kinds
  <2>2. DeviceTypeOK'
    BY <1>1, <2>1 DEF LInv, DeviceTypeOK
  <2>3. ListKnows' /\ SweepKnows' /\ EventKnown'
    BY <1>1 DEF LInv, ListKnows, Room, SweepKnows, EventKnown, InCallback
  <2> QED BY <2>2, <2>3 DEF LInv
<1>2. CASE /\ scan_pc = "removed"
           /\ entries' = Unlinked(pos)
           /\ scan_pc' = "sweep" /\ event' = NoEvent
           /\ UNCHANGED <<devs, event_cb, monitor_running, names, pos, scanHistory>>
  <2>1. pos \in 1 .. Len(entries) /\ entries[pos].online = FALSE
    BY <1>2, ListFacts DEF LInv, SweepKnows
  <2> QED BY <1>2, <2>1, UnlinkLInv
<1> QED BY <1>1, <1>2 DEF CallbackReturns

LEMMA ScanLInv ==
  ASSUME LInv, ScanStep
  PROVE  LInv'
BY MarkAllLInv, UpdateLInv, SweepLimitsLInv, SweepLInv DEF ScanStep

LEMMA LInvIsSound ==
  ASSUME LInv
  PROVE  ScanIsSound
<1>1. /\ entries \in Seq(Entry) /\ DOMAIN entries = 1 .. Len(entries)
      /\ Names = NamesOf(entries) /\ \A d : Exists(d) <=> d \in OnlineOf(entries)
  BY ListFacts DEF LInv
<1> SUFFICES ASSUME scan_pc = "idle"
             PROVE  /\ Cardinality(seen) <= MaxDevices => \A d \in stayed \ unlisted : Exists(d)
                    /\ unlisted \cap Names = {}
                    /\ Names \subseteq seen
                    /\ \A i \in DOMAIN entries : entries[i].online
                    /\ Cardinality(Names) = Count
  BY DEF ScanIsSound
<1>2. \A i \in DOMAIN entries : entries[i].online
  BY <1>1 DEF LInv, SweepKnows
<1>3. NamesOf(entries) = OnlineOf(entries)
  BY <1>1, <1>2 DEF NamesOf, OnlineOf
<1>4. Names \subseteq seen
  BY <1>1, <1>3 DEF LInv, ListKnows
<1>5. /\ Cardinality(seen) <= MaxDevices => \A d \in stayed \ unlisted : Exists(d)
      /\ unlisted \cap Names = {}
  BY <1>1 DEF LInv, ListKnows, Room
<1>6. Cardinality(Names) = Count
  BY <1>1, EntriesCounted DEF LInv, ListKnows, Count
<1> QED BY <1>2, <1>4, <1>5, <1>6

-----------------------------------------------------------------------------
(***************************************************************************)
(* The order of the listeners.                                             *)
(***************************************************************************)
Before(s, x, y) == \E i, j \in 1 .. Len(s) : i < j /\ s[i] = x /\ s[j] = y

LEMMA BeforeNobody ==
  ASSUME NEW s \in Seq(Listeners), NEW x
  PROVE  ~Before(s, x, NoListener)
BY NamesAssumption, ElementOfSeq DEF Before

LEMMA BeforeHead ==
  ASSUME NEW s \in Seq(Listeners), Distinct(s), s # <<>>, NEW x
  PROVE  Len(s) \in Nat /\ Head(s) = s[1] /\ InList(Head(s), s) /\ ~Before(s, x, Head(s))
<1>1. Len(s) \in Nat /\ 1 \in 1 .. Len(s) /\ Head(s) = s[1] /\ DOMAIN s = 1 .. Len(s)
  BY LenProperties, EmptySeq
<1>2. ASSUME NEW i \in 1 .. Len(s), NEW j \in 1 .. Len(s), i < j, s[j] = s[1] PROVE FALSE
  <2>1. j = 1
    BY <1>1, <1>2 DEF Distinct
  <2> QED BY <1>1, <1>2, <2>1
<1> QED BY <1>1, <1>2 DEF Before, InList

LEMMA BeforeNext ==
  ASSUME NEW s \in Seq(Listeners), Distinct(s), NEW i \in 1 .. Len(s), i + 1 \in 1 .. Len(s),
         NEW x
  PROVE  Before(s, x, s[i + 1]) <=> Before(s, x, s[i]) \/ x = s[i]
<1>1. Len(s) \in Nat
  BY LenProperties
<1>2. \A j \in 1 .. Len(s) : (s[j] = s[i] => j = i) /\ (s[j] = s[i + 1] => j = i + 1)
  BY DEF Distinct
<1>3. ASSUME Before(s, x, s[i + 1]) PROVE Before(s, x, s[i]) \/ x = s[i]
  <2>1. PICK k, j \in 1 .. Len(s) : k < j /\ s[k] = x /\ s[j] = s[i + 1]
    BY <1>3 DEF Before
  <2>2. k < i + 1
    BY <1>2, <2>1
  <2>3. CASE k = i
    BY <2>1, <2>3
  <2>4. CASE k < i
    BY <2>1, <2>4 DEF Before
  <2> QED BY <2>2, <2>3, <2>4
<1>4. ASSUME Before(s, x, s[i]) PROVE Before(s, x, s[i + 1])
  <2>1. PICK k, j \in 1 .. Len(s) : k < j /\ s[k] = x /\ s[j] = s[i]
    BY <1>4 DEF Before
  <2>2. k < i + 1
    BY <1>2, <2>1
  <2> QED BY <2>1, <2>2 DEF Before
<1>5. ASSUME x = s[i] PROVE Before(s, x, s[i + 1])
  BY <1>5 DEF Before
<1> QED BY <1>3, <1>4, <1>5

LEMMA BeforeItself ==
  ASSUME NEW s \in Seq(Listeners), Distinct(s), NEW x
  PROVE  ~Before(s, x, x)
<1>1. Len(s) \in Nat
  BY LenProperties
<1>2. ASSUME NEW i \in 1 .. Len(s), NEW j \in 1 .. Len(s), i < j, s[i] = x, s[j] = x PROVE FALSE
  <2>1. i = j
    BY <1>2 DEF Distinct
  <2> QED BY <1>1, <1>2, <2>1
<1> QED BY <1>2 DEF Before

LEMMA BeforeLast ==
  ASSUME NEW s \in Seq(Listeners), NEW x, InList(x, s), Len(s) >= 1, x # s[Len(s)]
  PROVE  Before(s, x, s[Len(s)])
<1>1. Len(s) \in Nat /\ Len(s) \in 1 .. Len(s)
  BY LenProperties
<1>2. PICK i \in 1 .. Len(s) : s[i] = x
  BY InListIs
<1>3. i < Len(s)
  BY <1>1, <1>2
<1> QED BY <1>1, <1>2, <1>3 DEF Before

LEMMA BeforePushed ==
  ASSUME NEW s \in Seq(Listeners), NEW l \in Listeners, NEW t, t = <<l>> \o s,
         NEW x, NEW y, x # l, y # l
  PROVE  Before(t, x, y) <=> Before(s, x, y)
<1>1. /\ Len(t) = Len(s) + 1 /\ Len(s) \in Nat /\ t[1] = l
      /\ \A i \in 1 .. Len(s) : t[i + 1] = s[i]
      /\ \A i \in 2 .. Len(s) + 1 : t[i] = s[i - 1]
  BY Pushed
<1>2. ASSUME Before(t, x, y) PROVE Before(s, x, y)
  <2>1. PICK i, j \in 1 .. Len(t) : i < j /\ t[i] = x /\ t[j] = y
    BY <1>2 DEF Before
  <2>2. i # 1 /\ j # 1
    BY <1>1, <2>1
  <2>3. i \in 2 .. Len(s) + 1 /\ j \in 2 .. Len(s) + 1
    BY <1>1, <2>1, <2>2
  <2>4. i - 1 \in 1 .. Len(s) /\ j - 1 \in 1 .. Len(s) /\ i - 1 < j - 1
    BY <1>1, <2>1, <2>3
  <2>5. s[i - 1] = x /\ s[j - 1] = y
    BY <1>1, <2>1, <2>3
  <2> QED BY <2>4, <2>5 DEF Before
<1>3. ASSUME Before(s, x, y) PROVE Before(t, x, y)
  <2>1. PICK i, j \in 1 .. Len(s) : i < j /\ s[i] = x /\ s[j] = y
    BY <1>3 DEF Before
  <2>2. i + 1 \in 1 .. Len(t) /\ j + 1 \in 1 .. Len(t) /\ i + 1 < j + 1
    BY <1>1, <2>1
  <2>3. t[i + 1] = x /\ t[j + 1] = y
    BY <1>1, <2>1
  <2> QED BY <2>2, <2>3 DEF Before
<1> QED BY <1>2, <1>3

-----------------------------------------------------------------------------
(***************************************************************************)
(* The events.                                                             *)
(***************************************************************************)

\* The listener has had the event that is being told.
Told(l) == Before(notify_list, l, telling)

\* What a listener knows that heard of every change: an entry is added before its event
\* is told, and taken out after.
Lags(l) == \/ scan_pc = "added" /\ ~Told(l)
           \/ scan_pc = "removed" /\ Told(l)
Known(l) == IF Lags(l) THEN NamesOf(entries) \ {event.name} ELSE NamesOf(entries)

\* Events are told only by the callback of a scan, and no scan runs while the server is
\* being stopped.
TellingKnown ==
  /\ admin = "stopping" => scan_pc = "idle"
  /\ telling # NoListener => InCallback /\ InList(telling, notify_list)

HistoryKnown ==
  /\ changes \in 0 .. MaxChanges
  /\ view \in [Listeners -> SUBSET Devices] /\ whole \in SUBSET Listeners
  /\ whole # {} => event_cb
  /\ scan_pc # "idle" => \A l \in whole : InList(l, notify_list)
  /\ ~event_cb => \A l \in Listeners : view[l] = {}

\* No listener knows of a device that the list does not have.
ViewsWithin ==
  \A l \in Listeners : InList(l, notify_list) =>
    /\ view[l] \subseteq NamesOf(entries)
    /\ scan_pc = "removed" /\ Told(l) => event.name \notin view[l]

ViewsRight == \A l \in whole : view[l] = Known(l)

EInv == TellingKnown /\ HistoryKnown /\ ViewsWithin /\ ViewsRight

IInv == LInv /\ SInv /\ EInv

LEMMA InitEInv == Init => EInv
<1> SUFFICES ASSUME Init PROVE EInv
  OBVIOUS
<1> USE DEF Init, DeviceInit, MgmtInit
<1>1. TellingKnown
  BY DEF TellingKnown
<1>2. HistoryKnown
  BY ChangesAssumption DEF HistoryKnown
<1>3. ViewsWithin
  BY DEF ViewsWithin
<1>4. ViewsRight
  BY DEF ViewsRight
<1> QED BY <1>1, <1>2, <1>3, <1>4 DEF EInv

\* A step that no listener notices: the list has the same devices, the same listeners
\* are told the same event, and no callback begins or ends.
Unnoticed ==
  /\ NamesOf(entries') = NamesOf(entries)
  /\ \/ scan_pc' = scan_pc /\ event' = event
     \/ ~InCallback /\ ~InCallback'
  /\ event_cb => event_cb'
  /\ scan_pc = "idle" => scan_pc' = "idle"
  /\ admin' = "stopping" => scan_pc' = "idle"
  /\ changes' \in 0 .. MaxChanges
  /\ UNCHANGED <<notify_list, telling, view, whole>>

LEMMA UnnoticedEInv ==
  ASSUME EInv, Unnoticed
  PROVE  EInv'
<1> USE DEF EInv, Unnoticed
<1>1. \A l : Told(l)' <=> Told(l)
  BY DEF Told
<1>2. \A l : Lags(l)' <=> Lags(l)
  BY <1>1 DEF Lags, InCallback
<1>3. \A l : Lags(l) => event' = event
  BY DEF Lags, InCallback
<1>4. TellingKnown'
  BY DEF TellingKnown, InCallback
<1>5. HistoryKnown'
  BY DEF HistoryKnown
<1>6. ViewsWithin'
  <2> SUFFICES ASSUME NEW l \in Listeners, InList(l, notify_list)
               PROVE  /\ view[l] \subseteq NamesOf(entries')
                      /\ scan_pc' = "removed" /\ Told(l)' => event'.name \notin view[l]
    BY DEF ViewsWithin
  <2>1. scan_pc' = "removed" => scan_pc = "removed" /\ event' = event
    BY DEF InCallback
  <2> QED BY <1>1, <2>1 DEF ViewsWithin
<1>7. ViewsRight'
  <2> SUFFICES ASSUME NEW l \in whole PROVE view[l] = Known(l)'
    BY DEF ViewsRight
  <2>1. Known(l)' = Known(l)
    BY <1>2, <1>3 DEF Known
  <2> QED BY <2>1 DEF ViewsRight
<1> QED BY <1>4, <1>5, <1>6, <1>7

\* While there is no event, nobody has been told it and nobody lags.
LEMMA NobodyLags ==
  ASSUME LInv, SInv, EInv, ~InCallback
  PROVE  /\ telling = NoListener
         /\ \A l : ~Told(l) /\ ~Lags(l)
         /\ \A l \in whole : view[l] = NamesOf(entries)
<1>1. telling = NoListener
  BY DEF EInv, TellingKnown
<1>2. notify_list \in Seq(Listeners)
  BY DEF SInv, MgmtTypeOK
<1>3. \A l : ~Told(l)
  BY <1>1, <1>2, BeforeNobody DEF Told
<1>4. \A l : ~Lags(l)
  BY DEF Lags, InCallback
<1>5. \A l \in whole : view[l] = NamesOf(entries)
  BY <1>4 DEF EInv, ViewsRight, Known
<1> QED BY <1>1, <1>3, <1>4, <1>5

\* An entry is added to the list, or one is found that will go.
LEMMA CallbackBegins ==
  ASSUME LInv, SInv, EInv, ~InCallback, scan_pc # "idle", event_cb, event_cb',
         \/ /\ scan_pc' = "added" /\ event'.name \notin NamesOf(entries)
            /\ NamesOf(entries') = NamesOf(entries) \cup {event'.name}
         \/ scan_pc' = "removed" /\ NamesOf(entries') = NamesOf(entries),
         UNCHANGED <<mgmtVars, changes, eventHistory>>
  PROVE  EInv'
<1> USE DEF mgmtVars, tableVars, eventHistory
<1>1. /\ telling = NoListener
      /\ \A l : ~Told(l)
      /\ \A l \in whole : view[l] = NamesOf(entries)
  BY NobodyLags
<1>2. \A l : Told(l)' <=> Told(l)
  BY DEF Told
<1>3. TellingKnown'
  BY <1>1 DEF EInv, TellingKnown
<1>4. HistoryKnown'
  BY DEF EInv, HistoryKnown
<1>5. ViewsWithin'
  <2> SUFFICES ASSUME NEW l \in Listeners, InList(l, notify_list)
               PROVE  /\ view[l] \subseteq NamesOf(entries')
                      /\ scan_pc' = "removed" /\ Told(l)' => event'.name \notin view[l]
    BY DEF ViewsWithin
  <2> QED BY <1>1, <1>2 DEF EInv, ViewsWithin
<1>6. ViewsRight'
  <2> SUFFICES ASSUME NEW l \in whole PROVE view[l] = Known(l)'
    BY DEF ViewsRight
  <2>1. ~Told(l)' /\ view[l] = NamesOf(entries)
    BY <1>1, <1>2
  <2>2. CASE /\ scan_pc' = "added" /\ event'.name \notin NamesOf(entries)
             /\ NamesOf(entries') = NamesOf(entries) \cup {event'.name}
    <3>1. Known(l)' = NamesOf(entries') \ {event'.name}
      BY <2>1, <2>2 DEF Known, Lags
    <3> QED BY <2>1, <2>2, <3>1
  <2>3. CASE scan_pc' = "removed" /\ NamesOf(entries') = NamesOf(entries)
    <3>1. Known(l)' = NamesOf(entries')
      BY <2>1, <2>3 DEF Known, Lags
    <3> QED BY <2>1, <2>3, <3>1
  <2> QED BY <2>2, <2>3
<1> QED BY <1>3, <1>4, <1>5, <1>6 DEF EInv

\* Without a callback nobody knows of any device.
LEMMA WithoutCallback ==
  ASSUME LInv, SInv, EInv, ~event_cb, ~event_cb',
         scan_pc # "idle", scan_pc' \notin {"added", "removed"},
         UNCHANGED <<mgmtVars, changes, eventHistory>>
  PROVE  EInv'
<1> USE DEF mgmtVars, tableVars, eventHistory
<1>1. whole = {} /\ ~InCallback
  BY DEF EInv, HistoryKnown, LInv, EventKnown
<1>2. telling = NoListener
  BY <1>1, NobodyLags
<1>3. TellingKnown'
  BY <1>2 DEF EInv, TellingKnown
<1>4. HistoryKnown'
  BY <1>1 DEF EInv, HistoryKnown
<1>5. ViewsWithin'
  BY DEF EInv, ViewsWithin, HistoryKnown
<1>6. ViewsRight'
  BY <1>1 DEF ViewsRight
<1> QED BY <1>3, <1>4, <1>5, <1>6 DEF EInv

\* The scan.
LEMMA ScanEInv ==
  ASSUME LInv, SInv, EInv, ScanWork
  PROVE  EInv'
<1> USE DEF mgmtVars, tableVars, eventHistory, scanHistory, listVars
<1>1. /\ entries \in Seq(Entry) /\ Len(entries) \in Nat /\ Names = NamesOf(entries)
  BY ListFacts DEF LInv
<1>2. changes' \in 0 .. MaxChanges /\ UNCHANGED <<mgmtVars, changes, eventHistory>>
  BY DEF ScanWork, EInv, HistoryKnown
<1>3. ASSUME NamesOf(entries') = NamesOf(entries), event_cb' = event_cb, scan_pc # "idle",
             \/ scan_pc' = scan_pc /\ event' = event
             \/ ~InCallback /\ ~InCallback'
      PROVE  EInv'
  <2>1. admin # "stopping"
    BY <1>3 DEF EInv, TellingKnown
  <2>2. Unnoticed
    BY <1>2, <1>3, <2>1 DEF Unnoticed
  <2> QED BY <2>2, UnnoticedEInv
<1>4. CASE MarkAll
  <2>1. \A i \in 1 .. Len(entries) : entries[i] \in Entry /\ entries[i].name \in Devices
    BY <1>1, EntryFields
  <2>2. DOMAIN entries = 1 .. Len(entries)
    BY <1>1, EntryFields
  <2>3. entries' = [i \in 1 .. Len(entries) |-> [entries[i] EXCEPT !.online = FALSE]]
    BY <1>4, <2>2 DEF MarkAll
  <2>4. \A i \in 1 .. Len(entries) : entries'[i] \in Entry /\ entries'[i].name = entries[i].name
    BY <2>1, <2>3 DEF Entry
  <2>5. DOMAIN entries' = 1 .. Len(entries) /\ entries' = [i \in 1 .. Len(entries) |-> entries'[i]]
    BY <2>3
  <2>6. NamesOf(entries') = NamesOf(entries)
    BY <1>1, <2>4, <2>5, EntriesSwitched
  <2>7. event_cb' = event_cb /\ scan_pc # "idle" /\ ~InCallback /\ ~InCallback'
    BY <1>4 DEF MarkAll, InCallback
  <2> QED BY <1>3, <2>6, <2>7
<1>5. CASE StartSweep \/ EndScan
  BY <1>3, <1>5 DEF StartSweep, EndScan, InCallback
<1>6. ASSUME NEW d \in Devices, UpdateDevice(d) PROVE EInv'
  <2>1. scan_pc = "update" /\ event_cb' = event_cb
    BY <1>6 DEF UpdateDevice, Handled
  <2>2. CASE d \notin devs /\ UNCHANGED <<entries, scan_pc, event, unlisted>>
    BY <1>3, <2>1, <2>2
  <2>3. CASE /\ d \in devs /\ d \in Names
             /\ entries' = [i \in DOMAIN entries |->
                  IF entries[i].name = d THEN [entries[i] EXCEPT !.online = TRUE] ELSE entries[i]]
             /\ UNCHANGED <<scan_pc, event, unlisted>>
    <3>1. NamesOf(entries') = NamesOf(entries)
      BY <1>1, <2>3, PutOnline
    <3> QED BY <1>3, <2>1, <2>3, <3>1
  <2>4. CASE d \notin Names /\ AddEntry(d)
    <3>1. entries' = <<[name |-> d, online |-> TRUE]>> \o entries
      BY <2>4 DEF AddEntry
    <3>2. NamesOf(entries') = NamesOf(entries) \cup {d}
      BY <1>1, <3>1, EntryAdded
    <3>3. CASE event_cb /\ event' = [kind |-> "added", name |-> d] /\ scan_pc' = "added"
      <4>1. event'.name = d /\ ~InCallback
        BY <2>1, <3>3 DEF InCallback
      <4> QED BY <1>1, <1>2, <2>1, <2>4, <3>2, <3>3, <4>1, CallbackBegins
    <3>4. CASE ~event_cb /\ UNCHANGED <<event, scan_pc>>
      BY <1>2, <2>1, <3>4, WithoutCallback
    <3> QED BY <2>4, <3>3, <3>4 DEF AddEntry, Calls
  <2>5. CASE AddFails(d)
    BY <1>3, <2>1, <2>5 DEF AddFails
  <2> QED BY <1>6, <2>2, <2>3, <2>4, <2>5 DEF UpdateDevice
<1>7. CASE SweepEntry
  <2>1. scan_pc = "sweep" /\ event_cb' = event_cb /\ ~InCallback
    BY <1>7 DEF SweepEntry, InCallback
  <2>2. CASE UNCHANGED <<entries, scan_pc, event>>
    BY <1>3, <2>1, <2>2
  <2>3. CASE event_cb /\ scan_pc' = "removed" /\ UNCHANGED entries
    BY <1>2, <2>1, <2>3, CallbackBegins
  <2>4. CASE ~event_cb /\ UNCHANGED <<scan_pc, event>>
    BY <1>2, <2>1, <2>4, WithoutCallback
  <2> QED BY <1>7, <2>2, <2>3, <2>4 DEF SweepEntry, Calls
<1> QED BY <1>4, <1>5, <1>6, <1>7 DEF ScanWork, ScanStep

\* What happens to the list between its scans.
LEMMA BetweenScansEInv ==
  ASSUME LInv, SInv, EInv, SpdkDevice \/ StartScan \/ Application \/ Forget
  PROVE  EInv'
<1> USE DEF mgmtVars, tableVars, eventHistory, scanVars, listVars
<1>1. changes \in 0 .. MaxChanges
  BY DEF EInv, HistoryKnown
<1>2. CASE SpdkDevice
  <2>1. changes' \in 0 .. MaxChanges
    BY <1>1, <1>2, ChangesAssumption DEF SpdkDevice
  <2>2. UNCHANGED <<entries, event_cb, scan_pc, event, mgmtVars, eventHistory>>
    BY <1>2 DEF SpdkDevice, SpdkDevices, DeviceComes, DeviceGoes
  <2>3. Unnoticed
    BY <2>1, <2>2 DEF Unnoticed, EInv, TellingKnown
  <2> QED BY <2>3, UnnoticedEInv
<1>3. CASE Application
  <2>1. /\ UNCHANGED <<entries, scan_pc, event, mgmtVars, changes, eventHistory>>
        /\ event_cb => event_cb'
    <3>1. UNCHANGED <<mgmtVars, changes, eventHistory>>
      BY <1>3 DEF Application
    <3>2. UNCHANGED <<entries, scan_pc, event>> /\ (event_cb => event_cb')
      <4>1. CASE RegisterCallback
        BY <4>1, SMT DEF RegisterCallback
      <4>2. CASE ScanFails
        BY <4>2, SMT DEF ScanFails
      <4>3. CASE StopMonitoring
        BY <4>3, SMT DEF StopMonitoring
      <4> QED BY <1>3, <4>1, <4>2, <4>3 DEF Application
    <3> QED BY <3>1, <3>2
  <2>2. Unnoticed
    BY <1>1, <2>1 DEF Unnoticed, EInv, TellingKnown
  <2> QED BY <2>2, UnnoticedEInv
<1>4. CASE Forget
  <2>1. /\ scan_pc = "idle" /\ scan_pc' = "idle" /\ entries' = <<>> /\ ~event_cb'
        /\ view' = [l \in Listeners |-> {}] /\ whole' = {}
        /\ UNCHANGED <<mgmtVars, changes>>
    BY <1>4 DEF Forget, ListFini
  <2>2. telling = NoListener
    BY <2>1, NobodyLags DEF InCallback
  <2>3. TellingKnown'
    BY <2>1, <2>2 DEF TellingKnown
  <2>4. HistoryKnown'
    BY <1>1, <2>1 DEF HistoryKnown
  <2>5. ViewsWithin' /\ ViewsRight'
    BY <2>1 DEF ViewsWithin, ViewsRight
  <2> QED BY <2>3, <2>4, <2>5 DEF EInv
<1>5. CASE StartScan
  <2>1. /\ scan_pc = "idle" /\ scan_pc' = "lock" /\ admin # "stopping"
        /\ UNCHANGED <<entries, event_cb, mgmtVars, changes, view>>
    BY <1>5 DEF StartScan, Scan, StartMonitoring, ReadNames
  <2>2. /\ telling = NoListener
        /\ \A l \in whole : view[l] = NamesOf(entries)
    BY <2>1, NobodyLags DEF InCallback
  <2>3. \A l \in whole' : /\ l \in Listeners /\ InList(l, notify_list) /\ event_cb
                          /\ entries = <<>> \/ l \in whole
    BY <1>5 DEF StartScan, Registered
  <2>4. TellingKnown'
    BY <2>1, <2>2 DEF TellingKnown
  <2>5. HistoryKnown'
    BY <2>1, <2>3 DEF EInv, HistoryKnown
  <2>6. ViewsWithin'
    BY <2>1 DEF EInv, ViewsWithin
  <2>7. ViewsRight'
    <3> SUFFICES ASSUME NEW l \in whole' PROVE view[l] = Known(l)'
      BY <2>1 DEF ViewsRight
    <3>1. Known(l)' = NamesOf(entries)
      BY <2>1 DEF Known, Lags
    <3>2. CASE l \in whole
      BY <2>2, <3>1, <3>2
    <3>3. CASE entries = <<>>
      <4>1. NamesOf(entries) = {}
        <5>1. Len(entries) = 0
          BY <3>3, EmptySeq
        <5> QED BY <5>1 DEF NamesOf
      <4> QED BY <2>3, <3>1, <4>1 DEF EInv, ViewsWithin
    <3> QED BY <2>3, <3>2, <3>3
  <2> QED BY <2>4, <2>5, <2>6, <2>7 DEF EInv
<1> QED BY <1>2, <1>3, <1>4, <1>5

\* The server starts and stops and answers requests.
LEMMA AdministrationEInv ==
  ASSUME LInv, SInv, EInv, Administration
  PROVE  EInv'
<1> USE DEF eventHistory, deviceVars, scanVars, listVars
<1>1. /\ UNCHANGED <<entries, event_cb, scan_pc, event, changes, view, whole>>
      /\ changes \in 0 .. MaxChanges
  BY DEF Administration, EInv, HistoryKnown
<1>2. ASSUME UNCHANGED <<notify_list, telling>>,
             admin' = "stopping" => admin = "stopping" \/ scan_pc = "idle"
      PROVE  EInv'
  <2>1. Unnoticed
    BY <1>1, <1>2 DEF Unnoticed, EInv, TellingKnown
  <2> QED BY <2>1, UnnoticedEInv
<1>3. CASE ServerInit \/ CreateThread \/ (ServerFini /\ scan_pc = "idle")
  BY <1>2, <1>3 DEF ServerInit, CreateThread, ServerFini, tableVars
<1>4. CASE RequestStep
  BY <1>2, <1>4 DEF RequestStep, ThreadStep, RpcReturns, ServerThreadEnds, RpcRequest,
                    AddCommand, ExecuteCmd, ExecuteReturns, tableVars
<1>5. CASE Join
  <2>1. /\ admin = "stopping" /\ admin' = "idle" /\ notify_list' = <<>> /\ telling' = telling
    BY <1>5 DEF Join, Shut
  <2>2. scan_pc = "idle"
    BY <2>1 DEF EInv, TellingKnown
  <2>3. /\ telling = NoListener
        /\ \A l \in whole : view[l] = NamesOf(entries)
    BY <2>2, NobodyLags DEF InCallback
  <2>4. TellingKnown'
    BY <2>1, <2>3 DEF TellingKnown
  <2>5. HistoryKnown'
    BY <1>1, <2>2 DEF EInv, HistoryKnown
  <2>6. ViewsWithin'
    BY <2>1, NothingInList DEF ViewsWithin
  <2>7. ViewsRight'
    BY <1>1, <2>2, <2>3 DEF ViewsRight, Known, Lags
  <2> QED BY <2>4, <2>5, <2>6, <2>7 DEF EInv
<1> QED BY <1>3, <1>4, <1>5 DEF Administration

\* The callback returns: after "removed" the list has one device less.
LEMMA ReturnFacts ==
  ASSUME LInv, CallbackReturns
  PROVE  /\ event_cb /\ event_cb' = event_cb /\ ~InCallback' /\ scan_pc # "idle" /\ scan_pc' # "idle"
         /\ \/ /\ scan_pc = "added" /\ event.kind = "added"
               /\ event.name \in NamesOf(entries) /\ NamesOf(entries') = NamesOf(entries)
            \/ /\ scan_pc = "removed" /\ event.kind = "removed"
               /\ event.name \in NamesOf(entries)
               /\ NamesOf(entries') = NamesOf(entries) \ {event.name}
<1> USE DEF listVars
<1>1. /\ entries \in Seq(Entry) /\ Len(entries) \in Nat /\ NoTwice(entries)
  BY ListFacts DEF LInv, ListKnows
<1>2. event_cb /\ event_cb' = event_cb /\ ~InCallback' /\ scan_pc # "idle" /\ scan_pc' # "idle"
  BY DEF CallbackReturns, InCallback, LInv, EventKnown
<1>3. CASE scan_pc = "added"
  BY <1>2, <1>3 DEF CallbackReturns, LInv, EventKnown
<1>4. CASE scan_pc = "removed"
  <2>1. pos \in 1 .. Len(entries) /\ entries[pos].online = FALSE
    BY <1>1, <1>4 DEF LInv, SweepKnows
  <2>2. event.kind = "removed" /\ event.name = entries[pos].name
    BY <1>4 DEF LInv, EventKnown
  <2>3. entries' = SubSeq(entries, 1, pos - 1) \o SubSeq(entries, pos + 1, Len(entries))
    BY <1>4 DEF CallbackReturns, Unlinked
  <2>4. NamesOf(entries') = NamesOf(entries) \ {entries[pos].name}
    BY <1>1, <2>1, <2>3, EntryRemoved, ZenonT(90)
  <2>5. event.name \in NamesOf(entries)
    BY <2>1, <2>2 DEF NamesOf
  <2> QED BY <1>2, <1>4, <2>2, <2>4, <2>5
<1> QED BY <1>3, <1>4 DEF CallbackReturns

\* There is nobody to tell.
LEMMA NobodyEInv ==
  ASSUME LInv, SInv, EInv, NobodyIsTold
  PROVE  EInv'
<1> USE DEF mgmtVars, tableVars, eventHistory
<1>1. /\ telling = NoListener /\ CallbackReturns
      /\ UNCHANGED <<mgmtVars, changes, view, whole>>
  BY DEF NobodyIsTold
<1>2. notify_list = <<>>
  BY DEF NobodyIsTold, NobodyToTell, SInv
<1>3. \A l : ~InList(l, notify_list)
  BY <1>2, NothingInList
<1>4. event_cb /\ event_cb' = event_cb /\ ~InCallback' /\ scan_pc # "idle" /\ scan_pc' # "idle"
  BY <1>1, ReturnFacts
<1>5. whole = {}
  BY <1>3, <1>4 DEF EInv, HistoryKnown
<1>6. TellingKnown'
  BY <1>1, <1>4 DEF EInv, TellingKnown
<1>7. HistoryKnown'
  BY <1>1, <1>4, <1>5 DEF EInv, HistoryKnown
<1>8. ViewsWithin' /\ ViewsRight'
  BY <1>1, <1>3, <1>5 DEF ViewsWithin, ViewsRight
<1> QED BY <1>6, <1>7, <1>8 DEF EInv

\* The first listener is told: nobody has been told yet.
LEMMA FirstEInv ==
  ASSUME LInv, SInv, EInv, TellFirst
  PROVE  EInv'
<1> USE DEF deviceVars, listVars, scanVars, tableVars, eventHistory
<1>1. /\ InCallback /\ telling = NoListener /\ notify_list # <<>>
      /\ telling' = Head(notify_list)
      /\ UNCHANGED <<entries, event_cb, scan_pc, event, notify_list, admin, changes, view, whole>>
  BY DEF TellFirst, EventStarts, NobodyToTell
<1>2. notify_list \in Seq(Listeners) /\ Distinct(notify_list)
  BY DEF SInv, MgmtTypeOK
<1>3. InList(telling', notify_list) /\ \A l : ~Before(notify_list, l, telling')
  BY <1>1, <1>2, BeforeHead
<1>4. \A l : ~Told(l) /\ ~Told(l)'
  BY <1>1, <1>2, <1>3, BeforeNobody DEF Told
<1>5. TellingKnown'
  BY <1>1, <1>3 DEF EInv, TellingKnown, InCallback
<1>6. HistoryKnown'
  BY <1>1 DEF EInv, HistoryKnown
<1>7. ViewsWithin'
  BY <1>1, <1>4 DEF EInv, ViewsWithin
<1>8. ViewsRight'
  <2> SUFFICES ASSUME NEW l \in whole PROVE view[l] = Known(l)'
    BY <1>1 DEF ViewsRight
  <2>1. Known(l)' = Known(l)
    BY <1>1, <1>4 DEF Known, Lags
  <2> QED BY <2>1 DEF EInv, ViewsRight
<1> QED BY <1>5, <1>6, <1>7, <1>8 DEF EInv

\* What the listener that is told knows then, and what the others know.
LEMMA TellFacts ==
  ASSUME LInv, SInv, EInv, Tell
  PROVE  /\ telling \in Listeners /\ telling # NoListener
         /\ InCallback /\ InList(telling, notify_list) /\ event_cb
         /\ notify_list \in Seq(Listeners) /\ Distinct(notify_list) /\ ~Told(telling)
         /\ \A l \in Listeners : l # telling => view'[l] = view[l]
         /\ scan_pc = "added" => /\ event.name \in NamesOf(entries)
                                 /\ view'[telling] = view[telling] \cup {event.name}
         /\ scan_pc = "removed" => /\ event.name \in NamesOf(entries)
                                   /\ view'[telling] = view[telling] \ {event.name}
         /\ view' \in [Listeners -> SUBSET Devices]
         /\ view[telling] \subseteq NamesOf(entries)
         /\ telling \in whole => event.name \in view'[telling] <=> event.name \notin view[telling]
<1>1. notify_list \in Seq(Listeners) /\ Distinct(notify_list)
  BY DEF SInv, MgmtTypeOK
<1>2. telling \in Listeners /\ telling # NoListener /\ InCallback /\ InList(telling, notify_list)
  BY <1>1, InListIs DEF Tell, EInv, TellingKnown
<1>3. ~Told(telling)
  BY <1>1, BeforeItself DEF Told
<1>4. view \in [Listeners -> SUBSET Devices]
  BY DEF EInv, HistoryKnown
<1>5. /\ \A l \in Listeners : l # telling => view'[l] = view[l]
      /\ event.kind = "added" => view'[telling] = view[telling] \cup {event.name}
      /\ event.kind # "added" => view'[telling] = view[telling] \ {event.name}
      /\ DOMAIN view' = Listeners /\ view' = [l \in Listeners |-> view'[l]]
  BY <1>2, <1>4 DEF Tell, Heard
<1>6. entries \in Seq(Entry) /\ Len(entries) \in Nat /\ NamesOf(entries) \subseteq Devices
  BY ListFacts, EntryFields DEF LInv
<1>7. /\ event_cb /\ event.name \in NamesOf(entries)
      /\ scan_pc = "added" <=> event.kind = "added"
  <2>1. CASE scan_pc = "added"
    BY <1>2, <2>1 DEF LInv, EventKnown
  <2>2. CASE scan_pc = "removed"
    <3>1. pos \in 1 .. Len(entries) /\ event.name = entries[pos].name /\ event.kind = "removed"
      BY <1>6, <2>2 DEF LInv, SweepKnows, EventKnown
    <3> QED BY <1>2, <2>2, <3>1 DEF LInv, EventKnown, NamesOf
  <2> QED BY <1>2, <2>1, <2>2 DEF InCallback
<1>8. view' \in [Listeners -> SUBSET Devices]
  <2>1. \A l \in Listeners : view'[l] \in SUBSET Devices
    BY <1>2, <1>4, <1>5, <1>6, <1>7
  <2> QED BY <1>5, <2>1
<1>9. view[telling] \subseteq NamesOf(entries)
  BY <1>2 DEF EInv, ViewsWithin
<1>10. telling \in whole => event.name \in view'[telling] <=> event.name \notin view[telling]
  <2> SUFFICES ASSUME telling \in whole
               PROVE  event.name \in view'[telling] <=> event.name \notin view[telling]
    OBVIOUS
  <2>1. view[telling] = Known(telling)
    BY DEF EInv, ViewsRight
  <2>2. CASE scan_pc = "added"
    <3>1. view[telling] = NamesOf(entries) \ {event.name}
      BY <1>3, <2>1, <2>2 DEF Known, Lags
    <3> QED BY <1>5, <1>7, <2>2, <3>1
  <2>3. CASE scan_pc = "removed"
    <3>1. view[telling] = NamesOf(entries)
      BY <1>3, <2>1, <2>3 DEF Known, Lags
    <3> QED BY <1>5, <1>7, <2>3, <3>1
  <2> QED BY <1>2, <2>2, <2>3 DEF InCallback
<1> QED BY <1>1, <1>2, <1>3, <1>5, <1>7, <1>8, <1>9, <1>10 DEF InCallback

\* The next listener is told.
LEMMA GoesOnEInv ==
  ASSUME LInv, SInv, EInv, Tell, EventGoesOn, UNCHANGED deviceVars
  PROVE  EInv'
<1> USE DEF deviceVars, listVars, scanVars, tableVars
<1>1. /\ telling \in Listeners /\ InCallback /\ InList(telling, notify_list) /\ event_cb
      /\ notify_list \in Seq(Listeners) /\ Distinct(notify_list) /\ ~Told(telling)
      /\ view' \in [Listeners -> SUBSET Devices]
  BY TellFacts
<1>2. /\ UNCHANGED <<entries, event_cb, scan_pc, event, notify_list, admin, changes, whole>>
      /\ HasNext(telling) /\ telling' = NextOf(telling)
  BY DEF Tell, EventGoesOn
<1>3. PICK i \in 1 .. Len(notify_list) : notify_list[i] = telling
  BY <1>1, InListIs
<1>4. i + 1 \in 1 .. Len(notify_list) /\ telling' = notify_list[i + 1]
  BY <1>1, <1>2, <1>3, NextListener
<1>5. \A l : Told(l)' <=> Told(l) \/ l = telling
  <2>1. \A l : Before(notify_list, l, notify_list[i + 1]) <=>
               Before(notify_list, l, notify_list[i]) \/ l = notify_list[i]
    BY <1>1, <1>3, <1>4, BeforeNext
  <2> QED BY <1>2, <1>3, <1>4, <2>1 DEF Told
<1>6. TellingKnown'
  <2>1. InList(telling', notify_list)
    BY <1>1, <1>4, InListIs
  <2> QED BY <1>1, <1>2, <2>1 DEF EInv, TellingKnown, InCallback
<1>7. HistoryKnown'
  BY <1>1, <1>2 DEF EInv, HistoryKnown
<1>8. ViewsWithin'
  <2> SUFFICES ASSUME NEW l \in Listeners, InList(l, notify_list)
               PROVE  /\ view'[l] \subseteq NamesOf(entries)
                      /\ scan_pc = "removed" /\ Told(l)' => event.name \notin view'[l]
    BY <1>2 DEF ViewsWithin
  <2>1. CASE l = telling
    BY <1>1, <2>1, TellFacts DEF InCallback
  <2>2. CASE l # telling
    <3>1. view'[l] = view[l] /\ (Told(l)' <=> Told(l))
      BY <1>5, <2>2, TellFacts
    <3> QED BY <3>1 DEF EInv, ViewsWithin
  <2> QED BY <2>1, <2>2
<1>9. ViewsRight'
  <2> SUFFICES ASSUME NEW l \in whole PROVE view'[l] = Known(l)'
    BY <1>2 DEF ViewsRight
  <2>1. view[l] = Known(l) /\ l \in Listeners
    BY DEF EInv, ViewsRight, HistoryKnown
  <2>2. CASE l # telling
    <3>1. view'[l] = view[l] /\ (Told(l)' <=> Told(l))
      BY <1>5, <2>1, <2>2, TellFacts
    <3>2. Known(l)' = Known(l)
      BY <1>2, <3>1 DEF Known, Lags
    <3> QED BY <2>1, <3>1, <3>2
  <2>3. CASE l = telling
    <3>1. Told(l)' /\ ~Told(l)
      BY <1>1, <1>5, <2>3
    <3>2. CASE scan_pc = "added"
      <4>1. Known(l)' = NamesOf(entries) /\ Known(l) = NamesOf(entries) \ {event.name}
        BY <1>2, <3>1, <3>2 DEF Known, Lags
      <4> QED BY <2>1, <2>3, <3>2, <4>1, TellFacts
    <3>3. CASE scan_pc = "removed"
      <4>1. Known(l)' = NamesOf(entries) \ {event.name} /\ Known(l) = NamesOf(entries)
        BY <1>2, <3>1, <3>3 DEF Known, Lags
      <4> QED BY <2>1, <2>3, <3>3, <4>1, TellFacts
    <3> QED BY <1>1, <3>2, <3>3 DEF InCallback
  <2> QED BY <2>2, <2>3
<1> QED BY <1>6, <1>7, <1>8, <1>9 DEF EInv

\* The last listener has been told, and the callback returns.
LEMMA EndsEInv ==
  ASSUME LInv, SInv, EInv, Tell, EventEnds, CallbackReturns
  PROVE  EInv'
<1> USE DEF tableVars
<1>1. /\ telling \in Listeners /\ InCallback /\ InList(telling, notify_list)
      /\ notify_list \in Seq(Listeners) /\ Distinct(notify_list) /\ ~Told(telling)
      /\ view' \in [Listeners -> SUBSET Devices]
  BY TellFacts
<1>2. /\ UNCHANGED <<notify_list, admin, changes, whole>>
      /\ ~HasNext(telling) /\ telling' = NoListener
  BY DEF Tell, EventEnds
<1>3. event_cb /\ event_cb' = event_cb /\ ~InCallback' /\ scan_pc # "idle" /\ scan_pc' # "idle"
  BY ReturnFacts
<1>4. \A l : InList(l, notify_list) /\ l # telling => Told(l)
  <2>1. PICK i \in 1 .. Len(notify_list) : notify_list[i] = telling
    BY <1>1, InListIs
  <2>2. Len(notify_list) \in Nat /\ ~(i < Len(notify_list))
    BY <1>1, <1>2, <2>1, NextListener
  <2>3. Len(notify_list) >= 1 /\ telling = notify_list[Len(notify_list)]
    BY <2>1, <2>2
  <2> QED BY <1>1, <2>3, BeforeLast DEF Told
<1>5. TellingKnown'
  BY <1>2, <1>3 DEF EInv, TellingKnown
<1>6. HistoryKnown'
  BY <1>1, <1>2, <1>3 DEF EInv, HistoryKnown
<1>7. \A l \in Listeners : InList(l, notify_list) => view'[l] \subseteq NamesOf(entries')
  <2> SUFFICES ASSUME NEW l \in Listeners, InList(l, notify_list)
               PROVE  view'[l] \subseteq NamesOf(entries')
    OBVIOUS
  <2>1. view[l] \subseteq NamesOf(entries)
    BY DEF EInv, ViewsWithin
  <2>2. CASE scan_pc = "added"
    <3>1. NamesOf(entries') = NamesOf(entries) /\ event.name \in NamesOf(entries)
      BY <2>2, ReturnFacts
    <3> QED BY <2>1, <2>2, <3>1, TellFacts
  <2>3. CASE scan_pc = "removed"
    <3>1. NamesOf(entries') = NamesOf(entries) \ {event.name}
      BY <2>3, ReturnFacts
    <3>2. CASE l = telling
      BY <2>1, <2>3, <3>1, <3>2, TellFacts
    <3>3. CASE l # telling
      <4>1. event.name \notin view[l]
        BY <1>4, <2>3, <3>3 DEF EInv, ViewsWithin
      <4> QED BY <2>1, <3>1, <3>3, <4>1, TellFacts
    <3> QED BY <3>2, <3>3
  <2> QED BY <1>1, <2>2, <2>3 DEF InCallback
<1>8. ViewsWithin'
  BY <1>2, <1>3, <1>7 DEF ViewsWithin, InCallback
<1>9. ViewsRight'
  <2> SUFFICES ASSUME NEW l \in whole PROVE view'[l] = Known(l)'
    BY <1>2 DEF ViewsRight
  <2>1. view[l] = Known(l) /\ l \in Listeners /\ InList(l, notify_list)
    BY <1>3 DEF EInv, ViewsRight, HistoryKnown
  <2>2. Known(l)' = NamesOf(entries')
    BY <1>3 DEF Known, Lags, InCallback
  <2>3. CASE scan_pc = "added"
    <3>1. NamesOf(entries') = NamesOf(entries) /\ event.name \in NamesOf(entries)
      BY <2>3, ReturnFacts
    <3>2. CASE l = telling
      <4>1. view[l] = NamesOf(entries) \ {event.name}
        BY <1>1, <2>1, <2>3, <3>2 DEF Known, Lags
      <4> QED BY <2>2, <2>3, <3>1, <3>2, <4>1, TellFacts
    <3>3. CASE l # telling
      <4>1. view[l] = NamesOf(entries)
        BY <1>4, <2>1, <2>3, <3>3 DEF Known, Lags
      <4> QED BY <2>1, <2>2, <3>1, <3>3, <4>1, TellFacts
    <3> QED BY <3>2, <3>3
  <2>4. CASE scan_pc = "removed"
    <3>1. NamesOf(entries') = NamesOf(entries) \ {event.name}
      BY <2>4, ReturnFacts
    <3>2. CASE l = telling
      <4>1. view[l] = NamesOf(entries)
        BY <1>1, <2>1, <2>4, <3>2 DEF Known, Lags
      <4> QED BY <2>2, <2>4, <3>1, <3>2, <4>1, TellFacts
    <3>3. CASE l # telling
      <4>1. view[l] = NamesOf(entries) \ {event.name}
        BY <1>4, <2>1, <2>4, <3>3 DEF Known, Lags
      <4> QED BY <2>1, <2>2, <3>1, <3>3, <4>1, TellFacts
    <3> QED BY <3>2, <3>3
  <2> QED BY <1>1, <2>3, <2>4 DEF InCallback
<1> QED BY <1>5, <1>6, <1>8, <1>9 DEF EInv

\* A listener registers, perhaps while an event is told.
LEMMA ListenEInv ==
  ASSUME LInv, SInv, EInv, Listen
  PROVE  EInv'
<1> USE DEF deviceVars, listVars, scanVars
<1>1. PICK l \in Listeners :
        /\ RegisterNotification(l)
        /\ view' = [view EXCEPT ![l] = {}] /\ whole' = whole \ {l}
  BY DEF Listen
<1>2. /\ ~InList(l, notify_list) /\ notify_list' = <<l>> \o notify_list
      /\ UNCHANGED <<entries, event_cb, scan_pc, event, telling, admin, changes>>
  BY <1>1 DEF RegisterNotification, Listen
<1>3. /\ notify_list \in Seq(Listeners) /\ view \in [Listeners -> SUBSET Devices]
      /\ whole \in SUBSET Listeners
  BY DEF SInv, MgmtTypeOK, EInv, HistoryKnown
<1>4. \A y : InList(y, notify_list') <=> y = l \/ InList(y, notify_list)
  BY <1>2, <1>3, PushedList
<1>5. telling # l
  BY <1>2, NamesAssumption DEF EInv, TellingKnown
<1>6. \A y : y # l => (Told(y)' <=> Told(y))
  BY <1>2, <1>3, <1>5, BeforePushed DEF Told
<1>7. TellingKnown'
  BY <1>2, <1>4 DEF EInv, TellingKnown, InCallback
<1>8. view'[l] = {} /\ \A y \in Listeners : y # l => view'[y] = view[y]
  BY <1>1, <1>3
<1>9. HistoryKnown'
  <2>1. view' \in [Listeners -> SUBSET Devices] /\ whole' \in SUBSET Listeners
    BY <1>1, <1>3
  <2>2. scan_pc' # "idle" => \A y \in whole' : InList(y, notify_list')
    BY <1>1, <1>2, <1>4 DEF EInv, HistoryKnown
  <2>3. ~event_cb' => \A y \in Listeners : view'[y] = {}
    BY <1>2, <1>8 DEF EInv, HistoryKnown
  <2> QED BY <1>1, <1>2, <2>1, <2>2, <2>3 DEF EInv, HistoryKnown
<1>10. ViewsWithin'
  <2> SUFFICES ASSUME NEW y \in Listeners, InList(y, notify_list')
               PROVE  /\ view'[y] \subseteq NamesOf(entries)
                      /\ scan_pc = "removed" /\ Told(y)' => event.name \notin view'[y]
    BY <1>2 DEF ViewsWithin
  <2>1. CASE y = l
    BY <1>8, <2>1
  <2>2. CASE y # l
    BY <1>4, <1>6, <1>8, <2>2 DEF EInv, ViewsWithin
  <2> QED BY <2>1, <2>2
<1>11. ViewsRight'
  <2> SUFFICES ASSUME NEW y \in whole' PROVE view'[y] = Known(y)'
    BY DEF ViewsRight
  <2>1. y \in whole /\ y # l /\ y \in Listeners
    BY <1>1, <1>3
  <2>2. Known(y)' = Known(y)
    BY <1>2, <1>6, <2>1 DEF Known, Lags
  <2> QED BY <1>8, <2>1, <2>2 DEF EInv, ViewsRight
<1> QED BY <1>7, <1>9, <1>10, <1>11 DEF EInv

-----------------------------------------------------------------------------
(***************************************************************************)
(* Every step.                                                             *)
(***************************************************************************)
LEMMA NextIInv ==
  ASSUME IInv, Next
  PROVE  IInv'
<1> USE DEF IInv
<1>1. ASSUME UNCHANGED deviceVars PROVE LInv'
  BY <1>1 DEF LInv, DeviceTypeOK, ListKnows, Room, SweepKnows, EventKnown, InCallback,
              deviceVars, listVars, scanVars, scanHistory
<1>2. ASSUME UNCHANGED mgmtVars PROVE SInv'
  BY <1>2 DEF SInv, MgmtTypeOK, mgmtVars, serverVars, tableVars, Distinct
<1>3. CASE SpdkDevice \/ StartScan \/ Application \/ Forget
  <2>1. LInv'
    <3>1. SpdkDevices \/ AppStep
      BY <1>3 DEF SpdkDevice, StartScan, Application, Forget, AppStep
    <3> QED BY <3>1, SpdkLInv, AppLInv
  <2>2. SInv'
    BY <1>2, <1>3 DEF SpdkDevice, StartScan, Application, Forget
  <2> QED BY <1>3, <2>1, <2>2, BetweenScansEInv
<1>4. CASE ScanWork
  BY <1>2, <1>4, ScanLInv, ScanEInv DEF ScanWork
<1>5. CASE NobodyIsTold
  BY <1>2, <1>5, CallbackLInv, NobodyEInv DEF NobodyIsTold
<1>6. CASE TellFirst
  BY <1>1, <1>6, ListenerSInv, FirstEInv DEF TellFirst
<1>7. CASE Tell
  <2>1. InList(telling, notify_list)
    BY <1>7, TellFacts
  <2>2. CASE EventGoesOn /\ UNCHANGED deviceVars
    BY <1>1, <1>7, <2>1, <2>2, ListenerSInv, GoesOnEInv
  <2>3. CASE EventEnds /\ CallbackReturns
    BY <1>7, <2>3, ListenerSInv, CallbackLInv, EndsEInv
  <2> QED BY <1>7, <2>2, <2>3 DEF Tell
<1>8. CASE Listen
  BY <1>1, <1>8, ListenerSInv, ListenEInv DEF Listen
<1>9. CASE Administration
  BY <1>1, <1>9, AdminSInv, RequestSInv, AdministrationEInv DEF Administration
<1> QED BY <1>3, <1>4, <1>5, <1>6, <1>7, <1>8, <1>9 DEF Next

LEMMA StutterIInv ==
  ASSUME IInv, UNCHANGED vars
  PROVE  IInv'
<1> USE DEF vars
<1>1. LInv'
  BY DEF IInv, LInv, DeviceTypeOK, ListKnows, Room, SweepKnows, EventKnown, InCallback,
         deviceVars, listVars, scanVars, scanHistory
<1>2. SInv'
  BY DEF IInv, SInv, MgmtTypeOK, mgmtVars, serverVars, tableVars, Distinct
<1>3. Unnoticed
  BY DEF IInv, EInv, TellingKnown, HistoryKnown, Unnoticed,
         deviceVars, listVars, scanVars, mgmtVars, tableVars, eventHistory
<1>4. EInv'
  BY <1>3, UnnoticedEInv DEF IInv
<1> QED BY <1>1, <1>2, <1>4 DEF IInv

(***************************************************************************)
(* The inductive invariant of the whole: the scan's part, the server's and *)
(* the events'.                                                            *)
(***************************************************************************)
THEOREM InvariantHolds == Spec => []IInv
<1>1. Init => IInv
  BY InitLInv, InitSInv, InitEInv DEF Init, IInv
<1>2. IInv /\ [Next]_vars => IInv'
  BY NextIInv, StutterIInv
<1> QED BY <1>1, <1>2, PTL DEF Spec

(***************************************************************************)
(* The list, the server and the history hold values of their kind.         *)
(***************************************************************************)
THEOREM TypeCorrect == Spec => []TypeOK
<1>1. IInv => TypeOK
  BY DEF IInv, LInv, SInv, EInv, HistoryKnown, TypeOK
<1> QED BY <1>1, InvariantHolds, PTL

(***************************************************************************)
(* After a scan the list has every device that stayed, if there was room   *)
(* for the names of all, but the new ones whose entry found no memory      *)
(* (device_list.c:126-130, which the scan ignores), and none that was      *)
(* never there, each once and on-line, whatever SPDK gained and lost while *)
(* the scan went on and whatever happened during its callbacks:            *)
(* device_list.c:218-324.                                                  *)
(***************************************************************************)
THEOREM ScansAreSound == Spec => []ScanIsSound
<1>1. IInv => ScanIsSound
  BY LInvIsSound DEF IInv
<1> QED BY <1>1, InvariantHolds, PTL

(***************************************************************************)
(* The command whose handler runs stays in the table, and the server       *)
(* thread lives only while SPDK's server listens: mgmt.c:646-699 with      *)
(* 530-545, 925-935.                                                       *)
(***************************************************************************)
THEOREM EntriesAreKept == Spec => []HandlersKeepTheirEntry
<1>1. IInv => HandlersKeepTheirEntry
  BY DEF IInv, SInv, HandlersKeepTheirEntry
<1> QED BY <1>1, InvariantHolds, PTL

(***************************************************************************)
(* Between scans a listener that heard of every change knows the devices   *)
(* of the list, however many listeners there are and whoever registers     *)
(* while an event is told: device_list.c:118-157, 296-318 with             *)
(* mgmt.c:1001-1018.                                                       *)
(***************************************************************************)
THEOREM ListenersAreUpToDate == Spec => []EventsTellTheList
<1>1. ASSUME IInv PROVE EventsTellTheList
  <2>1. Names = NamesOf(entries)
    BY <1>1, ListFacts DEF IInv, LInv
  <2>2. scan_pc = "idle" => \A l \in whole : view[l] = NamesOf(entries)
    BY <1>1, NobodyLags DEF IInv, InCallback
  <2> QED BY <2>1, <2>2 DEF EventsTellTheList
<1> QED BY <1>1, InvariantHolds, PTL

(***************************************************************************)
(* Such a listener is told nothing that it knew already:                   *)
(* device_list.c:118-157, 296-318 with mgmt.c:1001-1018.                   *)
(***************************************************************************)
THEOREM EventsAreNews == Spec => EveryEventIsNews
<1>1. ASSUME IInv, Tell, telling \in whole PROVE view' # view
  <2>1. event.name \in view'[telling] <=> event.name \notin view[telling]
    BY <1>1, TellFacts DEF IInv
  <2> QED BY <2>1
<1>2. IInv => [Tell /\ telling \in whole => view' # view]_vars
  BY <1>1
<1> QED BY <1>2, InvariantHolds, PTL DEF EveryEventIsNews
=============================================================================
