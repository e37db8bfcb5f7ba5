--------------------------- MODULE SecurityProofs ---------------------------
(***************************************************************************)
(* The properties of Security hold for every number of users, volumes,     *)
(* clients and records, and whatever the bounds on tokens, configurations  *)
(* and clock.                                                              *)
(*                                                                         *)
(* What the invariants need besides themselves: a call that is about to    *)
(* write its token has a user, authenticated no later than now, and before *)
(* the mode if that is tokens; a clean-up about to sweep read the clock in *)
(* the past; a name in the table of tokens fits its field.                 *)
(***************************************************************************)
EXTENDS Security, TLAPS

CallsBeganBefore ==
  \A c \in Clients :
    /\ pc[c] = "write" => /\ call[c].root <= epoch
                          /\ mode = "token" => call[c].root < epoch
    /\ pc[c] \in {"again", "write"} => call[c].user \in Users
    /\ pc[c] = "sweep" => call[c].time <= now

NamesFit == \A i \in InUse : UserField[tokens[i].user] = tokens[i].user

UsersAreUnique ==
  \A i, j \in InUse :
    Own(UserField, tokens[i].user) /\ tokens[i].user = tokens[j].user => i = j

VolumesAreSound ==
  \A i, j \in VolSlots : vols[i].vol \in Volumes /\ Own(VolField, vols[i].vol) =>
    /\ vols[i].enabled
    /\ vols[i].vol = vols[j].vol => i = j

Inv == /\ TypeOK /\ NamesFit /\ UsersAreUnique /\ VolumesAreSound
       /\ TokenModeTokens /\ CallsBeganBefore

\* The domains of the two fields.
LEMMA FieldDomains == DOMAIN UserField = Users /\ DOMAIN VolField = Volumes
BY FieldsAssumption DEF CutsNames

-----------------------------------------------------------------------------
\* The initial state satisfies the invariant.
LEMMA InitInv == Init => Inv
BY SlotsAssumption, NamesAssumption
DEF Init, Inv, TypeOK, NamesFit, UsersAreUnique, VolumesAreSound, TokenModeTokens,
    CallsBeganBefore, InUse, Modes, Epochs, Secrets, NoCredentials, FreeVol, NoCall

\* The root of a token that is generated on the strength of an admitted secret.
LEMMA RootIsEarlier ==
  ASSUME Inv, NEW u \in Users, NEW s \in Secrets, Admits(u, s)
  PROVE  /\ RootOf(s) \in Epochs
         /\ RootOf(s) <= epoch
         /\ mode = "token" => RootOf(s) < epoch
<1>1. CASE mode = "token"
  <2>1. PICK i \in InUse : tokens[i].value = s
    BY <1>1 DEF Admits, Valid
  <2>2. PICK k \in InUse : k = (CHOOSE j \in InUse : tokens[j].value = s)
    BY <2>1
  <2>3. RootOf(s) = tokens[k].root
    BY <1>1, <2>1, <2>2 DEF RootOf
  <2>4. tokens[k] \in TokenRecords
    BY <2>2 DEF Inv, TypeOK, InUse
  <2>. QED
    BY <1>1, <2>2, <2>3, <2>4, SlotsAssumption
    DEF Inv, TokenModeTokens, TokenRecords, Epochs, TypeOK
<1>2. CASE mode # "token"
  BY <1>2, SlotsAssumption DEF RootOf, Inv, TypeOK, Epochs
<1>. QED BY <1>1, <1>2

\* Configuring access control keeps the invariant, the mode known or not.
LEMMA SetAccessControlInv ==
  ASSUME Inv, NEW m \in Modes \cup {"unknown"},
         NEW cred \in Credentials \cup {NoCredentials}, SetAccessControl(m, cred)
  PROVE  Inv'
<1>. USE SlotsAssumption, NamesAssumption
<1>1. TypeOK'
  BY DEF Inv, TypeOK, SetAccessControl, Epochs, callVars
<1>2. UsersAreUnique' /\ NamesFit'
  BY DEF Inv, NamesFit, UsersAreUnique, SetAccessControl, InUse
<1>3. VolumesAreSound'
  BY DEF Inv, VolumesAreSound, SetAccessControl
<1>4. TokenModeTokens'
  BY DEF TokenModeTokens, SetAccessControl, InUse
<1>5. CallsBeganBefore'
  BY DEF Inv, TypeOK, CallsBeganBefore, SetAccessControl, callVars, Epochs
<1>. QED BY <1>1, <1>2, <1>3, <1>4, <1>5 DEF Inv

\* A call that begins, or goes on, touches nothing but its own place.
LEMMA CallInv ==
  ASSUME Inv, NEW c \in Clients, UNCHANGED <<accessVars, tokenVars, vols, now>>,
         NEW p \in {"idle", "again", "write", "sweep"},
         NEW rec \in [user : Users \cup {NoUser}, life : Lifetimes \cup {0},
                      secret : Secrets, root : Epochs, time : 0 .. MaxTime],
         p = "write" => rec.root <= epoch /\ (mode = "token" => rec.root < epoch),
         p \in {"again", "write"} => rec.user \in Users,
         p = "sweep" => rec.time <= now,
         pc' = [pc EXCEPT ![c] = p], call' = [call EXCEPT ![c] = rec]
  PROVE  Inv'
<1>. USE SlotsAssumption, NamesAssumption
<1>1. TypeOK'
  BY DEF Inv, TypeOK, accessVars, tokenVars
<1>2. NamesFit' /\ UsersAreUnique' /\ VolumesAreSound' /\ TokenModeTokens'
  BY DEF Inv, NamesFit, UsersAreUnique, VolumesAreSound, TokenModeTokens, accessVars,
         tokenVars, InUse
<1>3. CallsBeganBefore'
  BY DEF Inv, TypeOK, CallsBeganBefore, accessVars, tokenVars
<1>. QED BY <1>1, <1>2, <1>3 DEF Inv

\* Authenticating keeps the invariant: at once, or once more on the way to a token.
LEMMA AuthenticateInv ==
  ASSUME Inv, NEW c \in Clients
  PROVE  /\ \A u \in Users, s \in Presented, l \in Lifetimes :
              GenerateToken(c, u, s, l) \/ HandleAuthenticate(c, u, s, l) => Inv'
         /\ AuthenticateAgain(c) => Inv'
<1>. USE SlotsAssumption, NamesAssumption
<1>1. \A s \in Presented : s \in Secrets
  BY DEF Presented, Secrets, Numbers, Inv, TypeOK
<1>. DEFINE Recs == [user : Users \cup {NoUser}, life : Lifetimes \cup {0},
                     secret : Secrets, root : Epochs, time : 0 .. MaxTime]
<1>2. NoCall \in Recs
  BY DEF NoCall, Secrets, Epochs
<1>3. ASSUME NEW u \in Users, NEW s \in Presented, NEW l \in Lifetimes,
             GenerateToken(c, u, s, l)
      PROVE  Inv'
  <2>. DEFINE rec == [NoCall EXCEPT !.user = u, !.life = l, !.root = RootOf(s)]
  <2>1. Admits(u, s) /\ s \in Secrets
    BY <1>1, <1>3 DEF GenerateToken
  <2>2. /\ rec \in Recs /\ rec.user \in Users
        /\ rec.root <= epoch /\ (mode = "token" => rec.root < epoch)
    BY <1>2, <2>1, RootIsEarlier DEF NoCall
  <2>3. /\ pc' = [pc EXCEPT ![c] = "write"] /\ call' = [call EXCEPT ![c] = rec]
        /\ UNCHANGED <<accessVars, tokenVars, vols, now>>
    BY <1>3 DEF GenerateToken, Begins
  <2>. HIDE DEF rec
  <2>. QED BY <2>2, <2>3, CallInv
<1>4. ASSUME NEW u \in Users, NEW s \in Presented, NEW l \in Lifetimes,
             HandleAuthenticate(c, u, s, l)
      PROVE  Inv'
  <2>. DEFINE rec == [NoCall EXCEPT !.user = u, !.life = l, !.secret = s]
  <2>1. rec \in Recs /\ rec.user \in Users
    BY <1>1, <1>2 DEF NoCall
  <2>2. /\ pc' = [pc EXCEPT ![c] = "again"] /\ call' = [call EXCEPT ![c] = rec]
        /\ UNCHANGED <<accessVars, tokenVars, vols, now>>
    BY <1>4 DEF HandleAuthenticate, Begins
  <2>. HIDE DEF rec
  <2>. QED BY <2>1, <2>2, CallInv
<1>5. ASSUME AuthenticateAgain(c) PROVE Inv'
  <2>. DEFINE u == call[c].user
              s == call[c].secret
              rec == [call[c] EXCEPT !.secret = Wrong, !.root = RootOf(s)]
  <2>1. call[c] \in Recs /\ u \in Users
    BY <1>5 DEF AuthenticateAgain, Inv, TypeOK, CallsBeganBefore
  <2>2. CASE Over(c)
    BY <1>2, <1>5, <2>2, CallInv DEF Over, AuthenticateAgain
  <2>3. CASE /\ Admits(u, s) /\ pc' = [pc EXCEPT ![c] = "write"]
             /\ call' = [call EXCEPT ![c] = rec]
    <3>1. /\ RootOf(s) \in Epochs /\ RootOf(s) <= epoch
          /\ mode = "token" => RootOf(s) < epoch
      BY <2>1, <2>3, RootIsEarlier
    <3>2. /\ rec \in Recs /\ rec.user \in Users
          /\ rec.root <= epoch /\ (mode = "token" => rec.root < epoch)
      BY <2>1, <3>1 DEF Secrets
    <3>3. UNCHANGED <<accessVars, tokenVars, vols, now>>
      BY <1>5 DEF AuthenticateAgain
    <3>. HIDE DEF rec
    <3>. QED BY <2>3, <3>2, <3>3, CallInv
  <2>4. \/ Over(c)
        \/ /\ Admits(u, s) /\ pc' = [pc EXCEPT ![c] = "write"]
           /\ call' = [call EXCEPT ![c] = rec]
    BY <1>5, <2>1 DEF AuthenticateAgain, Inv, TypeOK
  <2>. QED BY <2>2, <2>3, <2>4
<1>. QED BY <1>3, <1>4, <1>5

\* What is written is a record of a user.
LEMMA NewRecord ==
  ASSUME Inv, NEW c \in Clients, pc[c] = "write", issued + 1 \in Numbers
  PROVE  [user |-> UserField[call[c].user], value |-> issued + 1,
          expiry |-> now + call[c].life, written |-> epoch, root |-> call[c].root]
            \in TokenRecords
<1>1. call[c] \in [user : Users \cup {NoUser}, life : Lifetimes \cup {0},
                  secret : Secrets, root : Epochs, time : 0 .. MaxTime]
  BY DEF Inv, TypeOK
<1>2. now \in Nat /\ epoch \in Epochs
  BY SlotsAssumption DEF Inv, TypeOK
<1>3. now + call[c].life \in Nat
  <2>1. call[c].life \in Lifetimes \cup {0}
    BY <1>1
  <2>2. \A x \in Lifetimes \cup {0} : x \in Nat
    BY SlotsAssumption
  <2>. QED BY <1>2, <2>1, <2>2
<1>4. UserField[call[c].user] \in Users
  BY FieldsAssumption DEF CutsNames, Inv, CallsBeganBefore
<1>. QED BY <1>1, <1>2, <1>3, <1>4 DEF TokenRecords

\* The token goes to the record of its user, or to a free one if there is none.
LEMMA WriteTokenInv ==
  ASSUME Inv, NEW c \in Clients, WriteToken(c)
  PROVE  Inv'
<1>. USE SlotsAssumption, NamesAssumption
<1>. DEFINE u == call[c].user
            rec == [user |-> UserField[u], value |-> issued + 1,
                    expiry |-> now + call[c].life, written |-> epoch, root |-> call[c].root]
<1>1. PICK i \in SlotFor(u) : tokens' = [tokens EXCEPT ![i] = rec]
  BY DEF WriteToken
<1>2. /\ pc[c] = "write" /\ issued + 1 \in Numbers /\ issued' = issued + 1 /\ Over(c)
      /\ UNCHANGED <<accessVars, vols, now>>
  BY DEF WriteToken
<1>3. i \in Slots /\ \A j \in InUse : Own(UserField, u) /\ tokens[j].user = u => i = j
  BY DEF SlotFor, First, InUse, Inv, UsersAreUnique
<1>4. u \in Users /\ rec \in TokenRecords /\ rec # NoToken
  BY <1>2, NewRecord DEF Inv, CallsBeganBefore
<1>5. tokens' \in [Slots -> TokenRecords \cup {NoToken}] /\ tokens'[i] = rec
  BY <1>1, <1>3, <1>4 DEF Inv, TypeOK
<1>6. \A j \in Slots : j # i => tokens'[j] = tokens[j]
  BY <1>1, <1>3 DEF Inv, TypeOK
<1>. HIDE DEF rec
<1>7. TypeOK'
  <2>1. issued' \in 0 .. MaxTokens
    BY <1>2 DEF Inv, TypeOK, Numbers
  <2>2. /\ pc' \in [Clients -> {"idle", "again", "write", "sweep"}]
        /\ call' \in [Clients -> [user : Users \cup {NoUser}, life : Lifetimes \cup {0},
                      secret : Secrets, root : Epochs, time : 0 .. MaxTime]]
    BY <1>2 DEF Over, NoCall, Inv, TypeOK, Secrets, Epochs
  <2>. QED BY <1>2, <1>5, <2>1, <2>2 DEF Inv, TypeOK, accessVars
<1>8. rec.user = UserField[u]
  BY DEF rec
<1>9. \A j \in InUse' : j # i => j \in InUse /\ tokens'[j] = tokens[j]
  <2>1. SUFFICES ASSUME NEW j \in InUse', j # i
                 PROVE  j \in InUse /\ tokens'[j] = tokens[j]
    OBVIOUS
  <2>2. j \in Slots /\ tokens'[j] # NoToken
    BY DEF InUse
  <2>3. tokens'[j] = tokens[j]
    BY <1>6, <2>1, <2>2
  <2>. QED BY <2>2, <2>3 DEF InUse
<1>10. NamesFit'
  <2>1. UserField[rec.user] = rec.user
    BY <1>4, <1>8, FieldsAssumption DEF CutsNames
  <2>. QED BY <1>5, <1>9, <2>1 DEF Inv, NamesFit
<1>11. UsersAreUnique'
  <2>1. SUFFICES ASSUME NEW j \in InUse', NEW k \in InUse', Own(UserField, tokens'[j].user),
                        tokens'[j].user = tokens'[k].user
                 PROVE  j = k
    BY DEF UsersAreUnique
  <2>2. CASE j # i /\ k # i
    BY <1>9, <2>1, <2>2 DEF Inv, UsersAreUnique
  <2>3. CASE j = i \/ k = i
    <3>1. tokens'[j].user = UserField[u] /\ tokens'[k].user = UserField[u]
      BY <1>5, <1>8, <2>1, <2>3
    <3>2. UserField[u] = u /\ Own(UserField, u)
      <4>1. Own(UserField, UserField[u])
        BY <2>1, <3>1
      <4>2. UserField[u] = u
        BY <1>4, <4>1, FieldDomains DEF Own
      <4>. QED BY <4>1, <4>2
    <3>. QED BY <1>3, <1>9, <2>3, <3>1, <3>2
  <2>. QED BY <2>2, <2>3
<1>12. VolumesAreSound'
  BY <1>2 DEF Inv, VolumesAreSound
<1>13. TokenModeTokens'
  <2>1. mode = "token" => rec.root < epoch /\ rec.written = epoch
    BY <1>2 DEF rec, Inv, CallsBeganBefore
  <2>. QED
    BY <1>2, <1>5, <1>6, <2>1 DEF Inv, TokenModeTokens, InUse, accessVars
<1>14. CallsBeganBefore'
  BY <1>2 DEF Inv, TypeOK, CallsBeganBefore, Over, accessVars
<1>. QED BY <1>7, <1>10, <1>11, <1>12, <1>13, <1>14 DEF Inv

\* Sweeping takes records out of the table, and does nothing else to it.
LEMMA SweepInv ==
  ASSUME Inv, NEW c \in Clients, Sweep(c)
  PROVE  Inv'
<1>. USE SlotsAssumption, NamesAssumption
<1>1. TypeOK'
  BY DEF Inv, TypeOK, Sweep, Over, accessVars, NoCall, Secrets, Epochs
<1>2. \A i \in InUse' : i \in InUse /\ tokens'[i] = tokens[i]
  BY DEF Sweep, InUse
<1>3. NamesFit' /\ UsersAreUnique' /\ TokenModeTokens'
  BY <1>2 DEF Inv, NamesFit, UsersAreUnique, TokenModeTokens, Sweep, accessVars
<1>4. VolumesAreSound' /\ CallsBeganBefore'
  BY DEF Inv, TypeOK, VolumesAreSound, CallsBeganBefore, Sweep, Over, accessVars
<1>. QED BY <1>1, <1>3, <1>4 DEF Inv

Tables == [VolSlots -> [vol : Volumes \cup {NoVolume}, enabled : BOOLEAN]]

\* free_crypto_ctx clears a record of volume v or nothing; with one record of the
\* volume it clears that.
LEMMA FreedVolume ==
  ASSUME NEW table \in Tables, NEW v \in Volumes
  PROVE  /\ FreeCryptoCtx(table, v) \in Tables
         /\ \A i \in VolSlots : FreeCryptoCtx(table, v)[i] \in {table[i], FreeVol}
         /\ \A i \in VolSlots :
              (table[i].vol = v /\ \A j \in VolSlots : table[j].vol = v => i = j)
                => FreeCryptoCtx(table, v)[i] = FreeVol
<1>1. ASSUME NEW i \in VolSlots, table[i].vol = v,
             \A j \in VolSlots : table[j].vol = v => i = j
      PROVE  i \in First({j \in VolSlots : table[j].vol = v})
  <2>1. i \in Nat /\ i <= i
    BY SlotsAssumption
  <2>. QED BY <1>1, <2>1 DEF First
<1>2. FreeVol \in [vol : Volumes \cup {NoVolume}, enabled : BOOLEAN]
  BY DEF FreeVol
<1>. QED BY <1>1, <1>2 DEF FreeCryptoCtx, Tables

\* Records that are cleared, and nothing else, leave the volumes sound.
LEMMA FewerVolumes ==
  ASSUME VolumesAreSound, \A i \in VolSlots : vols'[i] \in {vols[i], FreeVol}
  PROVE  VolumesAreSound'
BY NamesAssumption DEF VolumesAreSound, FreeVol

\* Enabling and disabling encryption keep the invariant.
LEMMA EncryptionInv ==
  ASSUME Inv, NEW v \in Volumes, EncryptionEnable(v) \/ EncryptionDisable(v)
  PROVE  Inv'
<1>. USE SlotsAssumption, NamesAssumption
<1>1. UNCHANGED <<accessVars, tokenVars, now, callVars>>
  BY DEF EncryptionEnable, EncryptionDisable
<1>2. vols \in Tables
  BY DEF Inv, TypeOK, Tables
<1>3. vols' \in Tables /\ VolumesAreSound'
  <2>1. CASE EncryptionDisable(v)
    <3>1. vols' \in Tables /\ \A i \in VolSlots : vols'[i] \in {vols[i], FreeVol}
      BY <1>2, <2>1, FreedVolume DEF EncryptionDisable
    <3>. QED BY <3>1, FewerVolumes DEF Inv
  <2>2. CASE EncryptionEnable(v)
    <3>. DEFINE w      == VolField[v]
                row(e) == [vol |-> w, enabled |-> e]
    <3>1. /\ \A i \in VolSlots : vols[i].vol # v
          /\ w \in Volumes /\ (Own(VolField, w) => w = v)
      BY <2>2, FieldsAssumption, FieldDomains DEF EncryptionEnable, Found, CutsNames, Own
    <3>2. PICK i \in VolSlots, e \in BOOLEAN :
            vols' = IF e THEN [vols EXCEPT ![i] = row(e)]
                         ELSE FreeCryptoCtx([vols EXCEPT ![i] = row(e)], v)
      <4>1. \A e \in Prepared : e \in BOOLEAN
        BY DEF Prepared
      <4>2. First(Found(NoVolume)) \subseteq VolSlots
        BY DEF First, Found
      <4>3. PICK i \in First(Found(NoVolume)), e \in Prepared :
              vols' = IF e THEN [vols EXCEPT ![i] = row(e)]
                           ELSE FreeCryptoCtx([vols EXCEPT ![i] = row(e)], v)
        BY <2>2 DEF EncryptionEnable
      <4>. QED BY <4>1, <4>2, <4>3
    <3>. HIDE DEF w
    <3>3. row(e) \in [vol : Volumes \cup {NoVolume}, enabled : BOOLEAN]
      BY <3>1
    <3>4. CASE e = TRUE
      <4>1. /\ vols' \in Tables /\ vols'[i] = row(TRUE)
            /\ \A j \in VolSlots : j # i => vols'[j] = vols[j]
        BY <1>2, <3>2, <3>3, <3>4 DEF Tables
      <4>2. vols'[i].vol = w /\ vols'[i].enabled
        BY <4>1
      <4>. HIDE DEF row
      <4>3. ASSUME NEW j \in VolSlots, vols'[j].vol \in Volumes, Own(VolField, vols'[j].vol)
            PROVE  vols'[j].enabled
        BY <4>1, <4>2, <4>3 DEF Inv, VolumesAreSound
      <4>4. ASSUME NEW j \in VolSlots, NEW k \in VolSlots, vols'[j].vol \in Volumes,
                   Own(VolField, vols'[j].vol), vols'[j].vol = vols'[k].vol
            PROVE  j = k
        <5>1. CASE j = i \/ k = i
          <6>1. vols'[j].vol = v /\ vols'[k].vol = v
            BY <3>1, <4>2, <4>4, <5>1
          <6>. QED BY <3>1, <4>1, <5>1, <6>1
        <5>2. CASE j # i /\ k # i
          BY <4>1, <4>4, <5>2 DEF Inv, VolumesAreSound
        <5>. QED BY <5>1, <5>2
      <4>. QED BY <4>1, <4>3, <4>4 DEF VolumesAreSound
    <3>5. CASE e = FALSE
      <4>. DEFINE filled == [vols EXCEPT ![i] = row(e)]
      <4>1. /\ filled \in Tables /\ filled[i].vol = w
            /\ \A j \in VolSlots : j # i => filled[j] = vols[j]
        BY <1>2, <3>3 DEF Tables
      <4>2. vols' = FreeCryptoCtx(filled, v)
        BY <3>2, <3>5
      <4>. HIDE DEF filled, row
      <4>3. vols' \in Tables /\ \A j \in VolSlots : vols'[j] \in {filled[j], FreeVol}
        BY <4>1, <4>2, FreedVolume
      <4>4. CASE w = v
        <5>1. filled[i].vol = v /\ \A j \in VolSlots : filled[j].vol = v => i = j
          BY <3>1, <4>1, <4>4
        <5>2. FreeCryptoCtx(filled, v)[i] = FreeVol
          BY <4>1, <5>1, FreedVolume
        <5>3. vols'[i] = FreeVol
          BY <4>2, <5>2
        <5>4. \A j \in VolSlots : vols'[j] \in {vols[j], FreeVol}
          BY <4>1, <4>3, <5>3
        <5>. QED BY <4>3, <5>4, FewerVolumes DEF Inv
      <4>5. CASE w # v
        <5>1. ~Own(VolField, w)
          BY <3>1, <4>5
        <5>2. ASSUME NEW j \in VolSlots, vols'[j].vol \in Volumes, Own(VolField, vols'[j].vol)
              PROVE  vols'[j] = vols[j]
          <6>1. vols'[j] # FreeVol
            BY <5>2, NamesAssumption DEF FreeVol
          <6>2. vols'[j] = filled[j]
            BY <4>3, <6>1
          <6>3. j # i
            BY <4>1, <5>1, <5>2, <6>2
          <6>. QED BY <4>1, <6>2, <6>3
        <5>3. VolumesAreSound'
          BY <5>2 DEF Inv, VolumesAreSound
        <5>. QED BY <4>3, <5>3
      <4>. QED BY <4>4, <4>5
    <3>. QED BY <3>4, <3>5
  <2>. QED BY <2>1, <2>2
<1>5. TypeOK'
  BY <1>1, <1>3 DEF Inv, TypeOK, Tables, accessVars, tokenVars, callVars
<1>6. NamesFit' /\ UsersAreUnique' /\ TokenModeTokens' /\ CallsBeganBefore'
  BY <1>1 DEF Inv, NamesFit, UsersAreUnique, TokenModeTokens, CallsBeganBefore, InUse,
              accessVars, tokenVars, callVars
<1>. QED BY <1>3, <1>5, <1>6 DEF Inv

\* Every step keeps the invariant.
LEMMA NextInv == Inv /\ [Next]_vars => Inv'
<1>. USE SlotsAssumption, NamesAssumption
<1>. SUFFICES ASSUME Inv, [Next]_vars PROVE Inv'
  OBVIOUS
<1>1. ASSUME HandleSecurityConfig \/ ImportConfig PROVE Inv'
  BY <1>1, SetAccessControlInv DEF HandleSecurityConfig, ImportConfig
<1>2. ASSUME NEW c \in Clients, ClientStep(c) PROVE Inv'
  <2>1. CASE \/ \E u \in Users, s \in Presented, l \in Lifetimes :
                  GenerateToken(c, u, s, l) \/ HandleAuthenticate(c, u, s, l)
             \/ AuthenticateAgain(c)
    BY <2>1, AuthenticateInv
  <2>2. CASE WriteToken(c)
    BY <2>2, WriteTokenInv
  <2>3. CASE TableFull(c)
    <3>1. NoCall \in [user : Users \cup {NoUser}, life : Lifetimes \cup {0},
                       secret : Secrets, root : Epochs, time : 0 .. MaxTime]
      BY DEF NoCall, Secrets, Epochs
    <3>. QED BY <2>3, <3>1, CallInv DEF TableFull, Over
  <2>4. CASE CleanupTokens(c)
    <3>. DEFINE rec == [NoCall EXCEPT !.time = now]
    <3>1. /\ rec \in [user : Users \cup {NoUser}, life : Lifetimes \cup {0},
                      secret : Secrets, root : Epochs, time : 0 .. MaxTime]
          /\ rec.time <= now
      BY DEF NoCall, Secrets, Epochs, Inv, TypeOK
    <3>2. /\ pc' = [pc EXCEPT ![c] = "sweep"] /\ call' = [call EXCEPT ![c] = rec]
          /\ UNCHANGED <<accessVars, tokenVars, vols, now>>
      BY <2>4 DEF CleanupTokens, Begins
    <3>. HIDE DEF rec
    <3>. QED BY <3>1, <3>2, CallInv
  <2>5. CASE Sweep(c)
    BY <2>5, SweepInv
  <2>. QED BY <1>2, <2>1, <2>2, <2>3, <2>4, <2>5 DEF ClientStep
<1>3. ASSUME NEW v \in Volumes, EncryptionEnable(v) \/ EncryptionDisable(v)
      PROVE  Inv'
  BY <1>3, EncryptionInv
<1>4. ASSUME SecurityInit PROVE Inv'
  BY <1>4 DEF SecurityInit, Inv, TypeOK, NamesFit, UsersAreUnique, VolumesAreSound,
     TokenModeTokens, CallsBeganBefore, InUse, FreeVol, accessVars, callVars
<1>5. ASSUME Tick PROVE Inv'
  BY <1>5 DEF Tick, Inv, TypeOK, NamesFit, UsersAreUnique, VolumesAreSound,
     TokenModeTokens, CallsBeganBefore, InUse, accessVars, tokenVars, callVars
<1>6. ASSUME UNCHANGED vars PROVE Inv'
  BY <1>6 DEF vars, Inv, TypeOK, NamesFit, UsersAreUnique, VolumesAreSound,
     TokenModeTokens, CallsBeganBefore, InUse, accessVars, tokenVars, callVars
<1>. QED BY <1>1, <1>2, <1>3, <1>4, <1>5, <1>6 DEF Next

-----------------------------------------------------------------------------
\* The variables have their types, in every behaviour of security.c.
THEOREM TypeCorrect == Spec => []TypeOK
<1>1. Inv => TypeOK
  BY DEF Inv
<1>. QED BY <1>1, InitInv, NextInv, PTL DEF Spec

\* Neither table ever has two records of a name that fits and that no longer name is
\* cut to, and such a volume that enable refuses as encrypted is one that get_status
\* reports as encrypted.
THEOREM TablesStaySound == Spec => []TablesAreSound
<1>1. Inv => TablesAreSound
  <2>. SUFFICES ASSUME Inv PROVE TablesAreSound
    OBVIOUS
  <2>1. \A v \in Volumes : Own(VolField, v) =>
          \A i, j \in Found(v) : vols[i].enabled /\ i = j
    BY DEF Inv, VolumesAreSound, Found
  <2>2. ASSUME NEW v \in Volumes, Own(VolField, v), Found(v) # {} PROVE IsEncrypted(v)
    <3>1. PICK i \in Found(v) : vols[i].enabled /\ \A j \in Found(v) : i = j
      BY <2>1, <2>2
    <3>2. i \in First(Found(v))
      BY <3>1, SlotsAssumption DEF First, Found
    <3>. QED BY <3>1, <3>2 DEF IsEncrypted
  <2>. QED BY <2>1, <2>2 DEF Inv, UsersAreUnique, TablesAreSound
<1>. QED BY <1>1, InitInv, NextInv, PTL DEF Spec

\* Once tokens are asked for, every token in the table goes back to a call that
\* authenticated before they were, and was written since.
THEOREM TokensStemFromBefore == Spec => []TokenModeTokens
<1>1. Inv => TokenModeTokens
  BY DEF Inv
<1>. QED BY <1>1, InitInv, NextInv, PTL DEF Spec

-----------------------------------------------------------------------------
\* The action of ValidTokensLast.
TokensLast ==
  \A i \in InUse :
    tokens[i].expiry > now =>
      \/ tokens'[i] # NoToken /\ tokens'[i].user = tokens[i].user
      \/ pc' = pc /\ \A j \in Slots : tokens'[j] = NoToken

\* No step gives up a token that is valid, but for a newer one under the same name
\* or with the whole table.
LEMMA StepKeepsTokens == Inv /\ [Next]_vars => TokensLast
<1>. USE SlotsAssumption, NamesAssumption
<1>. SUFFICES ASSUME Inv, [Next]_vars PROVE TokensLast
  OBVIOUS
<1>1. CASE UNCHANGED tokens
  BY <1>1 DEF TokensLast, InUse
<1>2. CASE HandleSecurityConfig \/ ImportConfig
  BY <1>2 DEF HandleSecurityConfig, ImportConfig, SetAccessControl, TokensLast, InUse, callVars
<1>3. ASSUME NEW c \in Clients, WriteToken(c) PROVE TokensLast
  <2>. DEFINE u == call[c].user
              rec == [user |-> UserField[u], value |-> issued + 1,
                      expiry |-> now + call[c].life, written |-> epoch, root |-> call[c].root]
  <2>1. PICK i \in SlotFor(u) : tokens' = [tokens EXCEPT ![i] = rec]
    BY <1>3 DEF WriteToken
  <2>2. i \in Slots /\ (i \in InUse => tokens[i].user = u)
    BY DEF SlotFor, First, InUse
  <2>3. rec \in TokenRecords
    BY <1>3, NewRecord DEF WriteToken
  <2>4. tokens'[i] = rec /\ \A j \in Slots : j # i => tokens'[j] = tokens[j]
    BY <2>1, <2>2 DEF Inv, TypeOK
  <2>5. rec # NoToken /\ rec.user = UserField[u]
    BY <2>3
  <2>6. i \in InUse => UserField[u] = u
    BY <2>2 DEF Inv, NamesFit
  <2>. HIDE DEF rec
  <2>. QED BY <2>2, <2>4, <2>5, <2>6 DEF TokensLast, InUse
<1>4. ASSUME NEW c \in Clients, Sweep(c) PROVE TokensLast
  <2>1. call[c].time \in Nat /\ now \in Nat /\ call[c].time <= now
    BY <1>4 DEF Sweep, Inv, TypeOK, CallsBeganBefore
  <2>2. \A i \in InUse : tokens[i].expiry \in Nat
    BY DEF Inv, TypeOK, InUse, TokenRecords
  <2>. QED BY <1>4, <2>1, <2>2 DEF Sweep, TokensLast, InUse
<1>5. CASE SecurityInit
  BY <1>5 DEF SecurityInit, TokensLast, callVars
<1>6. ASSUME NEW c \in Clients, ClientStep(c) PROVE TokensLast
  BY <1>1, <1>3, <1>4, <1>6 DEF ClientStep, GenerateToken, HandleAuthenticate,
     AuthenticateAgain, TableFull, CleanupTokens, tokenVars
<1>7. ASSUME NEW v \in Volumes, EncryptionEnable(v) \/ EncryptionDisable(v)
      PROVE  TokensLast
  BY <1>1, <1>7 DEF EncryptionEnable, EncryptionDisable, tokenVars
<1>8. CASE Tick \/ UNCHANGED vars
  BY <1>1, <1>8 DEF Tick, vars, tokenVars
<1>. QED BY <1>2, <1>5, <1>6, <1>7, <1>8 DEF Next

\* A token that has not expired is never taken by a clean-up, however long ago it
\* read the clock, nor by another user who finds the table full.
THEOREM ValidTokensAreKept == Spec => ValidTokensLast
<1>1. Inv /\ [Next]_vars => [TokensLast]_vars
  BY StepKeepsTokens
<1>2. Spec => [][TokensLast]_vars
  BY <1>1, InitInv, NextInv, PTL DEF Spec
<1>3. [TokensLast]_vars <=>
        [\A i \in InUse :
           tokens[i].expiry > now =>
             \/ tokens'[i] # NoToken /\ tokens'[i].user = tokens[i].user
             \/ pc' = pc /\ \A j \in Slots : tokens'[j] = NoToken]_vars
  BY DEF TokensLast
<1>. QED BY <1>2, <1>3, PTL DEF ValidTokensLast
=============================================================================
