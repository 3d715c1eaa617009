---------------------------- MODULE CloudPairing ----------------------------
(***************************************************************************)
(* The accounts, sessions, pairing codes and devices of the cloud          *)
(* (aura/cloud/router.py over aura/cloud/storage.py), and the agent that   *)
(* exchanges a code for its device token and keeps it in a file            *)
(* (aura/agent/cloud_client.py). A request handler has no await, so it is  *)
(* one step; its answer may be lost, and the agent may crash between any   *)
(* two steps of its own.                                                   *)
(***************************************************************************)
EXTENDS Naturals

CONSTANTS Emails,      \* accounts
          Tokens,      \* session tokens (token_urlsafe: never drawn twice)
          Codes,       \* pairing codes, not drawn twice either
          Devices,     \* a device stands for its device_id and its device_token
          None,        \* no account, no code, no device
          Broken,      \* cloud_pairing.json with half a document in it
          SessionTtl,  \* ttl_hours
          PairingTtl,  \* ttl_seconds
          MaxTime      \* bound: the clock stops here

ASSUME NoneAssumption ==
    /\ None \notin Emails \cup Codes \cup Devices
    /\ Broken \notin Devices \cup {None}
ASSUME TimeAssumption == SessionTtl \in Nat /\ PairingTtl \in Nat /\ MaxTime \in Nat

VARIABLES
    now,          \* datetime.now
    users,        \* users
    holder,       \* user_sessions: the user of each token, None for no row
    expires,      \* expires_at of each token
    ended,        \* is_revoked of each token
    codeOwner,    \* pairing_sessions: the user of each code, None for no row
    codeExpires,  \* expires_at of each code
    consumedBy,   \* consumed_by_device_id, None while is_consumed = 0
    devOwner,     \* the user of each device, None before its row exists
    devState,     \* "new", "active", "revoked" or "deleted"
    requests,     \* the agent's requests on their way to the cloud
    answer,       \* the device whose token is on its way to the agent, or None
    pc,           \* pair_with_code and save_config
    saving,       \* the device that save_config writes
    memory,       \* _device_token
    file          \* cloud_pairing.json

serverVars == <<users, holder, expires, ended, codeOwner, codeExpires, consumedBy,
                devOwner, devState>>
agentVars == <<requests, answer, pc, saving, memory, file>>
pairingVars == <<now, serverVars, agentVars>>

PairingTypeOK ==
    /\ now \in 0 .. MaxTime
    /\ users \in SUBSET Emails
    /\ holder \in [Tokens -> users \cup {None}]
    /\ expires \in [Tokens -> Nat]
    /\ ended \in [Tokens -> BOOLEAN]
    /\ codeOwner \in [Codes -> users \cup {None}]
    /\ codeExpires \in [Codes -> Nat]
    /\ consumedBy \in [Codes -> Devices \cup {None}]
    /\ devOwner \in [Devices -> users \cup {None}]
    /\ devState \in [Devices -> {"new", "active", "revoked", "deleted"}]
    /\ requests \in SUBSET [code : Codes, awaited : BOOLEAN]
    /\ answer \in Devices \cup {None}
    /\ pc \in {"idle", "waiting", "answered", "writing"}
    /\ saving \in Devices \cup {None}
    /\ memory \in Devices \cup {None}
    /\ file \in Devices \cup {None, Broken}

PairingInit ==
    /\ now = 0
    /\ users = {}
    /\ holder = [t \in Tokens |-> None]
    /\ expires = [t \in Tokens |-> 0]
    /\ ended = [t \in Tokens |-> FALSE]
    /\ codeOwner = [c \in Codes |-> None]
    /\ codeExpires = [c \in Codes |-> 0]
    /\ consumedBy = [c \in Codes |-> None]
    /\ devOwner = [d \in Devices |-> None]
    /\ devState = [d \in Devices |-> "new"]
    /\ requests = {} /\ answer = None
    /\ pc = "idle" /\ saving = None
    /\ memory = None /\ file = None

Tick ==
    /\ now < MaxTime
    /\ now' = now + 1
    /\ UNCHANGED <<serverVars, agentVars>>

-----------------------------------------------------------------------------
(* The cloud *)

create_session(u, t) ==
    /\ holder[t] = None
    /\ holder' = [holder EXCEPT ![t] = u]
    /\ expires' = [expires EXCEPT ![t] = now + SessionTtl]

\* A known e-mail address is refused; the password of a login is right.
register(u) ==
    /\ u \notin users
    /\ users' = users \cup {u}
    /\ \E t \in Tokens : create_session(u, t)
    /\ UNCHANGED <<now, ended, codeOwner, codeExpires, consumedBy, devOwner, devState,
                   agentVars>>

login(u) ==
    /\ u \in users
    /\ \E t \in Tokens : create_session(u, t)
    /\ UNCHANGED <<now, users, ended, codeOwner, codeExpires, consumedBy, devOwner,
                   devState, agentVars>>

logout(t) ==
    /\ holder[t] # None
    /\ ended' = [ended EXCEPT ![t] = TRUE]
    /\ UNCHANGED <<now, users, holder, expires, codeOwner, codeExpires, consumedBy,
                   devOwner, devState, agentVars>>

\* get_current_user over validate_session
Authenticated(t) == holder[t] # None /\ ~ ended[t] /\ now <= expires[t]

create_pairing(t, c) ==
    /\ Authenticated(t)
    /\ codeOwner[c] = None
    /\ codeOwner' = [codeOwner EXCEPT ![c] = holder[t]]
    /\ codeExpires' = [codeExpires EXCEPT ![c] = now + PairingTtl]
    /\ UNCHANGED <<now, users, holder, expires, ended, consumedBy, devOwner, devState,
                   agentVars>>

\* consume_pairing_code, one transaction: a code that exists, is not consumed and has
\* not expired buys a device.
Unexpired(c) == codeOwner[c] # None /\ now <= codeExpires[c]
Consumable(c) == Unexpired(c) /\ consumedBy[c] = None
Buys(c, d) ==
    /\ devState[d] = "new"
    /\ devState' = [devState EXCEPT ![d] = "active"]
    /\ devOwner' = [devOwner EXCEPT ![d] = codeOwner[c]]
    /\ consumedBy' = [consumedBy EXCEPT ![c] = d]

\* complete_agent_pairing of a request. Its answer is lost if nobody awaits it.
complete_agent_pairing(r) ==
    /\ r \in requests
    /\ requests' = requests \ {r}
    /\ \/ /\ Consumable(r.code)
          /\ \E d \in Devices : Buys(r.code, d) /\ answer' = IF r.awaited THEN d ELSE answer
       \/ /\ ~ Consumable(r.code)
          /\ UNCHANGED <<devState, devOwner, consumedBy, answer>>
    /\ UNCHANGED <<now, users, holder, expires, ended, codeOwner, codeExpires, pc, saving,
                   memory, file>>

\* UPDATE and DELETE name the device and its user.
\* (a device of anybody, and the user's own)
AnyDevice(t, d) == devOwner[d] # None
OwnDevice(t, d) == devOwner[d] = holder[t]
Shut(t, d, state) ==
    /\ Authenticated(t)
    /\ OwnDevice(t, d) /\ devState[d] # "deleted"
    /\ devState' = [devState EXCEPT ![d] = state]
    /\ UNCHANGED <<now, users, holder, expires, ended, codeOwner, codeExpires, consumedBy,
                   devOwner, agentVars>>
revoke_device(t, d) == Shut(t, d, "revoked")
delete_device(t, d) == Shut(t, d, "deleted")

-----------------------------------------------------------------------------
(* The agent *)

pair_with_code(c) ==
    /\ pc = "idle"
    /\ pc' = "waiting"
    /\ requests' = requests \cup {[code |-> c, awaited |-> TRUE]}
    /\ UNCHANGED <<now, serverVars, answer, saving, memory, file>>

AnswerArrives ==
    /\ pc = "waiting" /\ answer # None
    /\ pc' = "answered"
    /\ saving' = answer
    /\ answer' = None
    /\ UNCHANGED <<now, serverVars, requests, memory, file>>

\* What is left of the requests when nobody awaits an answer any more.
Abandoned == {[r EXCEPT !.awaited = FALSE] : r \in requests}

\* A refusal, an unreachable cloud or no answer in ten seconds: RuntimeError. The cloud
\* may still handle the request.
RequestFails ==
    /\ pc = "waiting"
    /\ pc' = "idle"
    /\ answer' = None
    /\ requests' = Abandoned
    /\ UNCHANGED <<now, serverVars, saving, memory, file>>

\* save_config: first the attributes, ...
save_config ==
    /\ pc = "answered"
    /\ memory' = saving
    /\ \/ /\ pc' = "writing"        \* ... then open(), which empties the file, ...
          /\ file' = Broken
       \/ /\ pc' = "idle"           \* (it may fail: an exception, the file untouched)
          /\ UNCHANGED file
    /\ UNCHANGED <<now, serverVars, requests, answer, saving>>

SaveEnds ==
    /\ pc = "writing"
    /\ pc' = "idle"
    /\ file' = saving \/ UNCHANGED file     \* ... and the document, which may fail too
    /\ saving' = None
    /\ UNCHANGED <<now, serverVars, requests, answer, memory>>

\* load_config by the constructor: a document that does not parse is ignored.
LoadedUnparsed == file
Loaded == IF file = Broken THEN None ELSE file
Restart ==
    /\ pc' = "idle"
    /\ memory' = Loaded
    /\ saving' = None
    /\ answer' = None
    /\ requests' = Abandoned
    /\ UNCHANGED <<now, serverVars, file>>

\* clear_config: an error of unlink() is ignored.
clear_config ==
    /\ pc = "idle"
    /\ memory' = None
    /\ file' \in {None, file}
    /\ UNCHANGED <<now, serverVars, requests, answer, pc, saving>>

PairingNext ==
    \/ Tick
    \/ \E u \in Emails : register(u) \/ login(u)
    \/ \E t \in Tokens : logout(t) \/ \E c \in Codes : create_pairing(t, c)
    \/ \E c \in Codes : pair_with_code(c)
    \/ \E r \in requests : complete_agent_pairing(r)
    \/ \E t \in Tokens, d \in Devices : revoke_device(t, d) \/ delete_device(t, d)
    \/ AnswerArrives \/ RequestFails \/ save_config \/ SaveEnds \/ Restart \/ clear_config

PairingSpec == PairingInit /\ [][PairingNext]_pairingVars

-----------------------------------------------------------------------------
(* Properties *)

\* Retries, late requests and lost answers: every device was bought by a code that
\* names it, made by the user it belongs to, so a code never buys two.
EveryDeviceHasItsCode ==
    \A d \in Devices : devState[d] # "new" =>
        \E c \in Codes : consumedBy[c] = d /\ codeOwner[c] = devOwner[d]

\* A device is revoked or deleted only in a session, neither ended nor expired, of the
\* user whose code paired it.
OnlyItsUserShutsADevice ==
    [][\A d \in Devices : devState[d] \notin {"new", devState'[d]} =>
          \E t \in Tokens, c \in Codes :
              /\ consumedBy[c] = d /\ holder[t] = codeOwner[c]
              /\ ~ ended[t] /\ now <= expires[t]]_pairingVars

\* "Exchange pairing code for permanent device_token": the token that a consumed code
\* bought is held by the agent.
ConsumedCodesAreHeld ==
    \A c \in Codes : consumedBy[c] # None =>
        consumedBy[c] \in {memory, Loaded, answer, saving}
=============================================================================
