---------------------------- MODULE LvolCatalogue ----------------------------
(***************************************************************************)
(* What the calls of src/libxbdev/lvol.c promise: each takes effect at one *)
(* moment between its start and its return, completely or not at all, and  *)
(* its answer says which.                                                  *)
(***************************************************************************)
EXTENDS LvolStore

CONSTANTS Clients,  \* the client threads
          Requests, \* what they can ask for; the field valid says if it makes sense
          NoRequest \* no request

VARIABLES store,  \* the volumes
          asked,  \* asked[c]: the request of the call of c, or NoRequest
          answer  \* answer[c]: its code and what it was told, once there is one

catalogueVars == <<store, asked, answer>>

Pending == [code |-> "pending", told |-> {}]

Init ==
  /\ store = NoPools
  /\ asked = [c \in Clients |-> NoRequest]
  /\ answer = [c \in Clients |-> Pending]

Ask(c, k) ==
  /\ asked[c] = NoRequest
  /\ asked' = [asked EXCEPT ![c] = k]
  /\ UNCHANGED <<store, answer>>

Answered(c, code, told) == answer' = [answer EXCEPT ![c] = [code |-> code, told |-> told]]

\* The request succeeds at this moment, with all of its effect.
Succeed(c) ==
  /\ asked[c] # NoRequest /\ answer[c] = Pending
  /\ asked[c].valid /\ ~Missing(store, asked[c])
  /\ store' \in Accepted(store, asked[c])
  /\ Answered(c, "ok", Told(store, asked[c]))
  /\ UNCHANGED asked

\* It fails and has no effect.  A code that blames the request or a missing object
\* is right at this moment.
Fail(c, code) ==
  /\ asked[c] # NoRequest /\ answer[c] = Pending
  /\ code = "invalid" => ~asked[c].valid
  /\ code = "missing" => Missing(store, asked[c])
  /\ Answered(c, code, {})
  /\ UNCHANGED <<store, asked>>

Return(c) ==
  /\ asked[c] # NoRequest /\ answer[c] # Pending
  /\ asked' = [asked EXCEPT ![c] = NoRequest]
  /\ answer' = [answer EXCEPT ![c] = Pending]
  /\ UNCHANGED store

Lose ==
  /\ store' \in Pulled(store) \cup Dropped(store)
  /\ UNCHANGED <<asked, answer>>

Next ==
  \/ Lose
  \/ \E c \in Clients :
       \/ \E k \in Requests : Ask(c, k)
       \/ Succeed(c)
       \/ \E code \in {"invalid", "missing", "refused", "busy"} : Fail(c, code)
       \/ Return(c)

Spec == Init /\ [][Next]_catalogueVars
=============================================================================
