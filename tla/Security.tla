------------------------------ MODULE Security ------------------------------
(***************************************************************************)
(* src/libxbdev/security.c and the handlers of mgmt.c that call it: access *)
(* control of the management server, its table of tokens, and the table of *)
(* encrypted volumes.                                                      *)
(*                                                                         *)
(* Each table and the access-control record has a mutex; what is done      *)
(* under one is one step.  Between two of its critical sections a call may *)
(* be overtaken: generating a token authenticates under the first mutex    *)
(* and writes the table under the second, the clean-up reads the clock     *)
(* before it takes the mutex.                                              *)
(*                                                                         *)
(* Lists of allowed addresses and users and the audit log do not take part *)
(* in authentication and are left out, as are ciphers and keys: whether a  *)
(* key can be derived and a cipher set up is chosen freely.  Tokens are    *)
(* numbered in the order they are generated: two are never equal.          *)
(*                                                                         *)
(* Both tables keep a name in a field that may be too short for it, and    *)
(* look names up in full: a name that was cut is not found again, unless   *)
(* by those whose own name is what is left of it.                          *)
(***************************************************************************)
EXTENDS Integers

CONSTANTS Users,       \* names of users
          Volumes,     \* names of logical volumes
          UserField,   \* what username[64] of a token keeps of a user's name
          VolField,    \* what lvol_name[256] of a record keeps of a volume's name
          Clients,     \* threads that call the functions
          Slots,       \* the records of g_tokens, numbered from 1
          VolSlots,    \* the records of g_encrypted_vols, numbered from 1
          Lifetimes,   \* the values of expiry_seconds
          MaxTokens,   \* bound on the tokens ever generated
          MaxEpochs,   \* bound on the calls that configure access control
          MaxTime,     \* bound on the clock
          Passwords,   \* the passwords that credentials are set with
          Wrong,       \* any other secret
          NoUser,      \* no user
          NoToken,     \* a record of g_tokens that is not in use
          NoVolume     \* no volume

ASSUME SlotsAssumption ==
  /\ Slots \subseteq Nat /\ VolSlots \subseteq Nat /\ Lifetimes \subseteq Nat
  /\ MaxTokens \in Nat /\ MaxEpochs \in Nat /\ MaxTime \in Nat

\* strncpy: a function that changes nothing the second time.
CutsNames(field, names) ==
  /\ field \in [names -> names]
  /\ \A n \in names : field[field[n]] = field[n]

ASSUME FieldsAssumption == CutsNames(UserField, Users) /\ CutsNames(VolField, Volumes)

VARIABLES
  mode,     \* g_access_control.mode
  owner,    \* g_access_control.credentials: a user and a password
  tokens,   \* g_tokens
  vols,     \* g_encrypted_vols: the volume of a record, and whether it is enabled
  now,      \* the clock
  pc,       \* pc[c]: where the call of client c is
  call,     \* call[c]: its arguments and locals
  epoch,    \* how often access control was configured
  issued    \* how many tokens were generated

accessVars == <<mode, owner, epoch>>
tokenVars  == <<tokens, issued>>
callVars   == <<pc, call>>
vars == <<accessVars, tokenVars, vols, now, callVars>>

Modes   == {"open", "basic", "token", "tls"}
Numbers == 1 .. MaxTokens
Epochs  == 0 .. MaxEpochs

\* What is presented as the password: a password, a token, or something else.
Secrets == Passwords \cup {Wrong} \cup Numbers

\* A number that was not given out is as good as any other secret.
Presented == Passwords \cup {Wrong} \cup 1 .. issued

Credentials == [user : Users, password : Passwords]
NoCredentials == [user |-> NoUser, password |-> Wrong]

\* Two fields are history: the epoch the token was put into the table in, and the
\* epoch in which the chain of tokens it stems from began with a call that had
\* something else to show than a token.
TokenRecords == [user : Users, value : Numbers, expiry : Nat,
                 written : Epochs, root : Epochs]

ASSUME NamesAssumption ==
  /\ NoUser \notin Users /\ NoVolume \notin Volumes /\ NoToken \notin TokenRecords

NoCall   == [user |-> NoUser, life |-> 0, secret |-> Wrong, root |-> 0,
             time |-> 0]
FreeVol  == [vol |-> NoVolume, enabled |-> FALSE]

Init ==
  /\ mode = "open" /\ owner = NoCredentials
  /\ tokens = [i \in Slots |-> NoToken]
  /\ vols = [i \in VolSlots |-> FreeVol]
  /\ now = 0
  /\ pc = [c \in Clients |-> "idle"]
  /\ call = [c \in Clients |-> NoCall]
  /\ epoch = 0 /\ issued = 0

\* The first record of a set of them, if there is one: no element or one.
First(S) == {i \in S : \A j \in S : i <= j}

InUse == {i \in Slots : tokens[i] # NoToken}

\* The call of c is over.
Over(c) ==
  /\ pc' = [pc EXCEPT ![c] = "idle"]
  /\ call' = [call EXCEPT ![c] = NoCall]

\* The call of c goes on at place p, with the values rec.
Begins(c, p, rec) ==
  /\ pc[c] = "idle"
  /\ pc' = [pc EXCEPT ![c] = p]
  /\ call' = [call EXCEPT ![c] = rec]
-----------------------------------------------------------------------------
(***************************************************************************)
(* Access control.                                                         *)
(***************************************************************************)

\* xbdev_mgmt_set_access_control: the record is copied first, then the mode is
\* looked at.  A mode it does not know is refused with the record changed.
SetAccessControl(m, cred) ==
  /\ epoch < MaxEpochs
  /\ epoch' = epoch + 1
  /\ mode' = m /\ owner' = cred
  /\ tokens' = IF m = "token" THEN [i \in Slots |-> NoToken] ELSE tokens
  /\ UNCHANGED <<issued, vols, now, callVars>>

\* _handle_security_config knows the modes by name.
HandleSecurityConfig ==
  \E m \in Modes, cred \in Credentials \cup {NoCredentials} : SetAccessControl(m, cred)

\* xbdev_security_import_config takes any number for a mode, and no credentials.
ImportConfig ==
  \E m \in Modes \cup {"unknown"} : SetAccessControl(m, NoCredentials)

\* The tokens that are taken for user u.
Valid(u) == {t \in Numbers :
               \E i \in InUse : /\ tokens[i].user = u /\ tokens[i].value = t
                                /\ tokens[i].expiry > now}

\* Mutant of Admits: the credentials count whatever the mode is.
AdmitsCredentials(u, s) ==
  \/ mode = "open"
  \/ owner = [user |-> u, password |-> s]
  \/ mode = "token" /\ s \in Valid(u)

\* xbdev_mgmt_authenticate: TLS certificates are not implemented.
Admits(u, s) ==
  \/ mode = "open"
  \/ mode = "basic" /\ owner = [user |-> u, password |-> s]
  \/ mode = "token" /\ s \in Valid(u)

\* The epoch a token generated on the strength of secret s stems from.
RootOf(s) ==
  IF mode = "token" /\ \E i \in InUse : tokens[i].value = s
  THEN tokens[CHOOSE i \in InUse : tokens[i].value = s].root
  ELSE epoch

\* xbdev_mgmt_generate_token authenticates, and gives its mutexes back.
GenerateToken(c, u, s, life) ==
  /\ Admits(u, s)
  /\ Begins(c, "write", [NoCall EXCEPT !.user = u, !.life = life, !.root = RootOf(s)])
  /\ UNCHANGED <<accessVars, tokenVars, vols, now>>

\* _handle_authenticate authenticates once more before it generates a token.
HandleAuthenticate(c, u, s, life) ==
  /\ Admits(u, s)
  /\ Begins(c, "again", [NoCall EXCEPT !.user = u, !.life = life, !.secret = s])
  /\ UNCHANGED <<accessVars, tokenVars, vols, now>>

\* Credentials are compared in a copy, for which there may be no memory.
AuthenticateAgain(c) ==
  LET u == call[c].user
      s == call[c].secret
  IN  /\ pc[c] = "again"
      /\ \/ /\ Admits(u, s)
            /\ pc' = [pc EXCEPT ![c] = "write"]
            /\ call' = [call EXCEPT ![c].secret = Wrong, ![c].root = RootOf(s)]
         \/ ~Admits(u, s) /\ Over(c)
         \/ mode = "basic" /\ Over(c)
      /\ UNCHANGED <<accessVars, tokenVars, vols, now>>

\* Mutant of SlotFor: a full table gives up the record that expires first.
SlotForEvicting(u) ==
  LET own == {i \in InUse : tokens[i].user = u}
  IN  IF own # {} THEN First(own)
      ELSE IF InUse # Slots THEN First(Slots \ InUse)
      ELSE {CHOOSE i \in Slots : \A j \in Slots : tokens[i].expiry <= tokens[j].expiry}

\* The record a token for user u goes to: the one that has the user's full name, or
\* the first that is free, if any.
SlotFor(u) ==
  LET own == {i \in InUse : tokens[i].user = u}
  IN  IF own # {} THEN First(own) ELSE First(Slots \ InUse)

\* The second half of xbdev_mgmt_generate_token; the name is cut to its field.
WriteToken(c) ==
  LET u == call[c].user
      t == issued + 1
  IN  /\ pc[c] = "write" /\ t \in Numbers
      /\ \E i \in SlotFor(u) :
           tokens' = [tokens EXCEPT ![i] = [user |-> UserField[u], value |-> t,
                                            expiry |-> now + call[c].life,
                                            written |-> epoch, root |-> call[c].root]]
      /\ issued' = t
      /\ Over(c)
      /\ UNCHANGED <<accessVars, vols, now>>

TableFull(c) ==
  /\ pc[c] = "write"
  /\ SlotFor(call[c].user) = {}
  /\ Over(c)
  /\ UNCHANGED <<accessVars, tokenVars, vols, now>>

\* xbdev_security_cleanup_tokens reads the clock and then takes the mutex.
CleanupTokens(c) ==
  /\ Begins(c, "sweep", [NoCall EXCEPT !.time = now])
  /\ UNCHANGED <<accessVars, tokenVars, vols, now>>

Sweep(c) ==
  /\ pc[c] = "sweep"
  /\ tokens' = [i \in Slots |->
                  IF i \in InUse /\ tokens[i].expiry < call[c].time
                  THEN NoToken ELSE tokens[i]]
  /\ Over(c)
  /\ UNCHANGED <<accessVars, issued, vols, now>>

Tick == /\ now < MaxTime
        /\ now' = now + 1
        /\ UNCHANGED <<accessVars, tokenVars, vols, callVars>>
-----------------------------------------------------------------------------
(***************************************************************************)
(* Encrypted volumes.                                                      *)
(***************************************************************************)

\* find_crypto_ctx.
Found(v) == {i \in VolSlots : vols[i].vol = v}

Algorithms == {"xts128", "xts256", "cbc256", "sm4"}
KeyMethods == {"none", "pbkdf2", "scrypt", "argon2id"}

\* derive_key: whether there is a key at the end.
DeriveKey(method) ==
  IF method = "none" THEN {TRUE} ELSE IF method = "pbkdf2" THEN BOOLEAN ELSE {FALSE}

\* init_crypto_ctx: whether the context is enabled at the end.
InitCryptoCtx(algorithm) == IF algorithm = "sm4" THEN {FALSE} ELSE BOOLEAN

\* How the two may end for some algorithm and method: the second has no say when
\* the first fails.
Prepared ==
  {ok \in BOOLEAN : \E m \in KeyMethods, a \in Algorithms :
                      \E key \in DeriveKey(m), ready \in InitCryptoCtx(a) :
                        ok = (key /\ ready)}

\* Mutant of FreeCryptoCtx: the record is marked as not enabled, and stays.
FreeKeepsRecord(table, v) ==
  [i \in VolSlots |-> IF table[i].vol = v THEN [table[i] EXCEPT !.enabled = FALSE]
                                          ELSE table[i]]

\* free_crypto_ctx: the first record with the full name of volume v is cleared, if
\* there is one.
FreeCryptoCtx(table, v) ==
  [i \in VolSlots |->
     IF i \in First({j \in VolSlots : table[j].vol = v}) THEN FreeVol ELSE table[i]]

\* xbdev_encryption_enable of a device that exists, with an algorithm it does not
\* refuse at once, under the mutex: alloc_crypto_ctx, derive_key, init_crypto_ctx.
\* If one of the last two fails the record is freed again, which misses it when the
\* name was cut.  A volume whose full name is found is refused as encrypted, and so
\* is any other when the table is full.
EncryptionEnable(v) ==
  /\ Found(v) = {}
  /\ \E i \in First(Found(NoVolume)), ready \in Prepared :
       LET filled == [vols EXCEPT ![i] = [vol |-> VolField[v], enabled |-> ready]]
       IN  vols' = IF ready THEN filled ELSE FreeCryptoCtx(filled, v)
  /\ UNCHANGED <<accessVars, tokenVars, now, callVars>>

\* xbdev_encryption_disable.
EncryptionDisable(v) ==
  /\ Found(v) # {}
  /\ vols' = FreeCryptoCtx(vols, v)
  /\ UNCHANGED <<accessVars, tokenVars, now, callVars>>

\* xbdev_encryption_get_status.
IsEncrypted(v) == \E i \in First(Found(v)) : vols[i].enabled

\* xbdev_security_init clears both tables; the application calls it first of all,
\* or once nothing is going on.
SecurityInit ==
  /\ \A c \in Clients : pc[c] = "idle"
  /\ tokens' = [i \in Slots |-> NoToken]
  /\ vols' = [i \in VolSlots |-> FreeVol]
  /\ UNCHANGED <<accessVars, issued, now, callVars>>
-----------------------------------------------------------------------------
ClientStep(c) ==
  \/ \E u \in Users, s \in Presented, l \in Lifetimes :
       GenerateToken(c, u, s, l) \/ HandleAuthenticate(c, u, s, l)
  \/ AuthenticateAgain(c) \/ WriteToken(c) \/ TableFull(c)
  \/ CleanupTokens(c) \/ Sweep(c)

Next ==
  \/ HandleSecurityConfig \/ ImportConfig
  \/ \E c \in Clients : ClientStep(c)
  \/ \E v \in Volumes : EncryptionEnable(v) \/ EncryptionDisable(v)
  \/ SecurityInit
  \/ Tick

Spec == Init /\ [][Next]_vars
-----------------------------------------------------------------------------
(***************************************************************************)
(* Properties.                                                             *)
(***************************************************************************)

\* The variables have their types.
TypeOK ==
  /\ mode \in Modes \cup {"unknown"} /\ owner \in Credentials \cup {NoCredentials}
  /\ tokens \in [Slots -> TokenRecords \cup {NoToken}]
  /\ vols \in [VolSlots -> [vol : Volumes \cup {NoVolume}, enabled : BOOLEAN]]
  /\ now \in 0 .. MaxTime /\ epoch \in Epochs /\ issued \in 0 .. MaxTokens
  /\ pc \in [Clients -> {"idle", "again", "write", "sweep"}]
  /\ call \in [Clients -> [user : Users \cup {NoUser}, life : Lifetimes \cup {0},
                           secret : Secrets, root : Epochs, time : 0 .. MaxTime]]

\* A name that its field keeps in full, and that is all the field keeps of no other.
Own(field, n) == \A m \in DOMAIN field : field[m] = n <=> m = n

\* Both tables have at most one record per name, and the two functions that look
\* at an encrypted volume agree: one that enable refuses as encrypted is one that
\* get_status reports as encrypted, after every failure half way.  Names that were
\* cut keep none of this, and neither do the names they are cut to: a user with a
\* longer name gets another record with every token, and a failed enable of a
\* volume with a longer name leaves its record behind.
TablesAreSound ==
  /\ \A i, j \in InUse :
       Own(UserField, tokens[i].user) /\ tokens[i].user = tokens[j].user => i = j
  /\ \A v \in Volumes : Own(VolField, v) =>
       /\ \A i, j \in Found(v) : i = j
       /\ Found(v) # {} => IsEncrypted(v)

\* Token mode begins with an empty table, and asks for a token whoever wants one:
\* a token that is in the table then goes back to a call that had authenticated
\* before the mode was set, and wrote its token afterwards.
TokenModeTokens ==
  mode = "token" =>
    \A i \in InUse : tokens[i].root < epoch /\ tokens[i].written = epoch

\* A token that has not expired is only given up for a new one under the same name,
\* or with the whole table by a step that is no client's: by the configuration of
\* access control or xbdev_security_init.  A clean-up that read the clock long ago
\* does not take it, nor does another user who finds the table full.
ValidTokensLast ==
  [][\A i \in InUse :
       tokens[i].expiry > now =>
         \/ tokens'[i] # NoToken /\ tokens'[i].user = tokens[i].user
         \/ pc' = pc /\ \A j \in Slots : tokens'[j] = NoToken]_vars
=============================================================================
