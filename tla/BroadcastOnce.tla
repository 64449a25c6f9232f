---------------------------- MODULE BroadcastOnce ----------------------------
(* What kt_broadcast promises its callers, whatever happens to Redis, to    *)
(* the node and to the processes: one owner per payload and window, one     *)
(* submission per owner, one outcome per submission, and replies that are   *)
(* the outcome of a submission of the same payload or say nothing of it.    *)
EXTENDS Naturals

CONSTANTS
    Request,    \* the POSTs
    Payload,    \* the fingerprints
    TTL,        \* how long a payload is remembered
    NoReply,    \* not answered yet
    NoReq       \* the origin of a reply that names no submission

VARIABLES
    now,        \* the clock
    payload,    \* payload[r]: the fingerprint r submits
    owner,      \* the requests admitted to submit
    ownedAt,    \* when they were admitted
    submitted,  \* the owners that contacted a node
    outcome,    \* outcome[r]: what r's submission ended in
    reply       \* reply[r]: what the caller of r was told

once == <<now, payload, owner, ownedAt, submitted, outcome, reply>>

Rec(s, r)   == [state |-> s, from |-> r]
Results(r)  == {Rec(o, r) : o \in {"accepted", "rejected", "unknown"}}
Evasions    == {Rec("pending", r) : r \in Request} \cup {Rec("unavailable", NoReq)}

Init ==
    /\ now = 0
    /\ owner = {} /\ submitted = {}
    /\ payload \in [Request -> Payload]
    /\ ownedAt = [r \in Request |-> 0]
    /\ outcome = [r \in Request |-> NoReply]
    /\ reply = [r \in Request |-> NoReply]

\* A payload has an owner at most once per window.
Own(r) ==
    /\ r \notin owner /\ reply[r] = NoReply
    /\ \A s \in owner : payload[s] = payload[r] => ownedAt[s] + TTL <= now
    /\ owner' = owner \cup {r}
    /\ ownedAt' = [ownedAt EXCEPT ![r] = now]
    /\ UNCHANGED <<now, payload, submitted, outcome, reply>>

Submit(r) ==
    /\ r \in owner \ submitted /\ outcome[r] = NoReply
    /\ submitted' = submitted \cup {r}
    /\ UNCHANGED <<now, payload, owner, ownedAt, outcome, reply>>

\* Only a submission proves acceptance or rejection.
Settle(r) ==
    /\ r \in owner /\ outcome[r] = NoReply
    /\ \E v \in Results(r) :
         /\ r \notin submitted => v = Rec("unknown", r)
         /\ outcome' = [outcome EXCEPT ![r] = v]
    /\ UNCHANGED <<now, payload, owner, ownedAt, submitted, reply>>

\* An owner answers with its own outcome, anyone else with any owner's.
Tell(r) ==
    /\ reply[r] = NoReply
    /\ \E s \in owner :
         /\ payload[s] = payload[r] /\ outcome[s] # NoReply
         /\ r \in owner => s = r
         /\ reply' = [reply EXCEPT ![r] = outcome[s]]
    /\ UNCHANGED <<now, payload, owner, ownedAt, submitted, outcome>>

\* One who does not own a submission may be told nothing of its outcome.
Decline(r) ==
    /\ reply[r] = NoReply /\ r \notin owner
    /\ \E v \in Evasions : reply' = [reply EXCEPT ![r] = v]
    /\ UNCHANGED <<now, payload, owner, ownedAt, submitted, outcome>>

Pass == now' = now + 1 /\ UNCHANGED <<payload, owner, ownedAt, submitted, outcome, reply>>

Next ==
    \/ Pass
    \/ \E r \in Request : Own(r) \/ Submit(r) \/ Settle(r) \/ Tell(r) \/ Decline(r)

Spec == Init /\ [][Next]_once
=============================================================================
