--------------------------- MODULE BroadcastGuard ---------------------------
(***************************************************************************)
(* The idempotency guard of kt_broadcast: Gateway.Broadcast (broadcast.go) *)
(* and broadcastGuard (broadcast_guard.go) running in several Gateway      *)
(* processes that share one Redis, or in one process without Redis.        *)
(*                                                                         *)
(* A signed payload is a Key (its SHA-256 fingerprint).  Each Request is   *)
(* one POST, handled by one goroutine of one Instance.  A step of a request*)
(* is one critical section of guard.mu, or one call of Redis or of the     *)
(* node.  The text of an answer (transaction hash, error message) is       *)
(* abstracted to the request whose upstream attempt produced it.           *)
(***************************************************************************)
EXTENDS Naturals, FiniteSets

CONSTANTS
    Request,      \* the POSTs, each handled once
    Key,          \* the payload fingerprints
    Instance,     \* the Gateway processes
    NoReq,        \* no request: the origin of an absent record
    Shared,       \* TRUE when a shared AtomicStore is configured
    TTL,          \* broadcastGuardTTL, in ticks
    Budget,       \* bound, in ticks, on the life of one request
    MaxRecords,   \* maxBroadcastRecords
    SweepBudget,  \* broadcastExpirySweepBudget
    MaxTime,      \* bound on the clock
    MaxCrashes    \* bound on the number of process crashes

ASSUME ConstantsOK ==
    /\ NoReq \notin Request
    /\ IsFiniteSet(Key)
    /\ Shared \in BOOLEAN
    /\ TTL \in Nat /\ Budget \in Nat /\ Budget < TTL
    /\ MaxRecords \in Nat \ {0} /\ SweepBudget \in Nat
    /\ MaxTime \in Nat /\ MaxCrashes \in Nat
    /\ ~Shared => \A i, j \in Instance : i = j

VARIABLES
    now,        \* the clock, common to the processes and to Redis
    entries,    \* entries[i][k]: g.records (and g.expiries) of process i
    lru,        \* lru[i][k]: place of k in g.evictable of process i, 0 when out
    redis,      \* redis[k]: the claim stored under k
    late,       \* requests whose abandoned Redis write may still be executed
    pc,         \* pc[r]: where the handler of r stands
    at,         \* at[r]: the process that handles r
    key,        \* key[r]: the fingerprint of r's payload
    start,      \* start[r]: the time r was admitted
    val,        \* val[r]: the record r holds, its reply once pc[r] = "done"
    claimed,    \* history: requests that begin() made owners
    claimedAt,  \* history: when they became owners
    sent,       \* history: requests that contacted a node
    crashes     \* number of crashes so far

store   == <<redis, late>>
local   == <<entries, lru>>
request == <<at, key, start>>
history == <<claimed, claimedAt, sent>>
vars    == <<now, entries, lru, redis, late, pc, at, key, start, val,
             claimed, claimedAt, sent, crashes>>
-----------------------------------------------------------------------------
Outcomes  == {"accepted", "rejected", "unknown"}
Steps     == {"idle", "setnx", "get", "install", "peek", "owner", "sent",
              "complete", "persist", "markOk", "markErr", "done", "crashed"}

\* broadcastRecord; "none" stands for a missing one, "unavailable" for
\* errBroadcastGuardUnavailable.
Rec(s, r)   == [state |-> s, from |-> r]
NoRec       == Rec("none", NoReq)
Unavailable == Rec("unavailable", NoReq)
Valid       == {NoRec} \cup [state : {"pending"} \cup Outcomes, from : Request]
Record      == Valid \cup {Unavailable}

\* localBroadcastRecord: "by" is the identity of the expiry node, which the
\* request that made the reservation allocated.
Entry   == [rec : Valid, expires : Nat, by : Request \cup {NoReq}]
NoEntry == [rec |-> NoRec, expires |-> 0, by |-> NoReq]
Stored  == [rec : Valid, expires : Nat]
NoClaim == [rec |-> NoRec, expires |-> 0]

InFlight(r) == pc[r] \notin {"idle", "done", "crashed"}
-----------------------------------------------------------------------------
(* The local table: a map, an expiry heap over the same keys, and the list *)
(* of evictable keys, written as the place of each key in it.              *)

Used(T)     == {k \in Key : T[k].rec.state # "none"}
Expired(T)  == {k \in Used(T) : T[k].expires <= now}
Linked(q)   == {k \in Key : q[k] > 0}

Clear(T, S)  == [k \in Key |-> IF k \in S THEN NoEntry ELSE T[k]]

\* Mutant: a record leaves the map and stays in the list.
UnlinkForgets(q, S) == q

Unlink(q, S) == [k \in Key |->
                   IF k \in S \/ q[k] = 0 THEN 0
                   ELSE Cardinality({y \in Linked(q) \ S : q[y] <= q[k]})]
PushBack(q, k)   == [q EXCEPT ![k] = Cardinality(Linked(q)) + 1]
MoveToBack(q, k) == IF k \in Linked(q) THEN PushBack(Unlink(q, {k}), k) ELSE q
IsFront(q, k)    == k \in Linked(q) /\ \A y \in Linked(q) : q[k] <= q[y]

\* removeLocal, for the keys of S
RemoveLocal(i, S) ==
    /\ entries' = [entries EXCEPT ![i] = Clear(@, S)]
    /\ lru' = [lru EXCEPT ![i] = Unlink(@, S)]

\* markEvictable, in a table that holds k
MarkEvictable(q, k) == IF k \in Linked(q) THEN q ELSE PushBack(q, k)

\* The expired keys that the bounded sweep takes: the earliest, up to the budget.
SweepSets(T) ==
    {S \in SUBSET Expired(T) :
        /\ \/ Cardinality(S) = SweepBudget
           \/ Cardinality(S) < SweepBudget /\ S = Expired(T)
        /\ \A x \in S, y \in Expired(T) \ S : T[x].expires <= T[y].expires}
-----------------------------------------------------------------------------
Finish(r, v) ==
    /\ pc' = [pc EXCEPT ![r] = "done"]
    /\ val' = [val EXCEPT ![r] = v]

Goto(r, step) == pc' = [pc EXCEPT ![r] = step]

Init ==
    /\ now = 0
    /\ entries = [i \in Instance |-> [k \in Key |-> NoEntry]]
    /\ lru = [i \in Instance |-> [k \in Key |-> 0]]
    /\ redis = [k \in Key |-> NoClaim]
    /\ late = {}
    /\ pc = [r \in Request |-> "idle"]
    /\ at \in [Request -> Instance]
    /\ key \in [Request -> Key]
    /\ start = [r \in Request |-> 0]
    /\ val = [r \in Request |-> NoRec]
    /\ claimed = {}
    /\ claimedAt = [r \in Request |-> 0]
    /\ sent = {}
    /\ crashes = 0

\* The first critical section of begin(): T and q are the table and the list
\* after the sweep and after removing a record of k that has expired.
Replay(r, T, q) ==
    LET i == at[r] k == key[r] IN
    /\ k \in Used(T)
    /\ entries' = [entries EXCEPT ![i] = T]
    /\ lru' = [lru EXCEPT ![i] = MoveToBack(q, k)]
    /\ Finish(r, T[k].rec)
    /\ UNCHANGED <<claimed, claimedAt>>

\* A full table gives up its least recently replayed evictable record.
Evicting(T, q, S) ==
    IF Cardinality(Used(T)) >= MaxRecords /\ Linked(q) # {}
    THEN \E k \in Key : IsFront(q, k) /\ S = {k}
    ELSE S = {}

\* Without a shared store the reservation itself is the claim.
Reserve(r, T, q) ==
    LET i == at[r] k == key[r] IN
    /\ k \notin Used(T)
    /\ \E S \in SUBSET Used(T) :
         /\ Evicting(T, q, S)
         /\ Cardinality(Used(Clear(T, S))) < MaxRecords
         /\ entries' = [entries EXCEPT ![i] =
                [Clear(T, S) EXCEPT ![k] = [rec |-> Rec("pending", r),
                                            expires |-> now + TTL, by |-> r]]]
         /\ lru' = [lru EXCEPT ![i] = Unlink(q, S)]
    /\ UNCHANGED val
    /\ IF Shared
       THEN Goto(r, "setnx") /\ UNCHANGED <<claimed, claimedAt>>
       ELSE /\ Goto(r, "owner")
            /\ claimed' = claimed \cup {r}
            /\ claimedAt' = [claimedAt EXCEPT ![r] = now]

Saturated(r, T, q) ==
    /\ key[r] \notin Used(T)
    /\ Cardinality(Used(T)) >= MaxRecords /\ Linked(q) = {}
    /\ entries' = [entries EXCEPT ![at[r]] = T]
    /\ lru' = [lru EXCEPT ![at[r]] = q]
    /\ IF Shared THEN Goto(r, "peek") /\ UNCHANGED val
                 ELSE Finish(r, Unavailable)
    /\ UNCHANGED <<claimed, claimedAt>>

Begin(r) ==
    /\ pc[r] = "idle"
    /\ start' = [start EXCEPT ![r] = now]
    /\ \E S \in SweepSets(entries[at[r]]) :
         LET gone == S \cup ({key[r]} \cap Expired(entries[at[r]]))
             T == Clear(entries[at[r]], gone)
             q == Unlink(lru[at[r]], gone)
         IN Replay(r, T, q) \/ Reserve(r, T, q) \/ Saturated(r, T, q)
    /\ UNCHANGED <<now, redis, late, at, key, sent, crashes>>
-----------------------------------------------------------------------------
(* begin(), with a shared store.  A call of Redis may fail with its effect *)
(* done, not done, or still to be done.                                    *)

Absent(k) == redis[k].rec.state = "none"

CreateClaim(r) ==
    redis' = [redis EXCEPT ![key[r]] = [rec |-> Rec("pending", r),
                                        expires |-> now + TTL]]

SetNXCreated(r) ==
    /\ pc[r] = "setnx" /\ Absent(key[r])
    /\ CreateClaim(r)
    /\ Goto(r, "owner")
    /\ claimed' = claimed \cup {r}
    /\ claimedAt' = [claimedAt EXCEPT ![r] = now]
    /\ UNCHANGED <<now, local, late, request, val, sent, crashes>>

SetNXExists(r) ==
    /\ pc[r] = "setnx" /\ ~Absent(key[r])
    /\ Goto(r, "get")
    /\ UNCHANGED <<now, local, store, request, val, history, crashes>>

\* Mutant: when Redis cannot tell, the process goes ahead.
SetNXFailedOpen(r) ==
    /\ pc[r] = "setnx"
    /\ Goto(r, "owner")
    /\ claimed' = claimed \cup {r}
    /\ claimedAt' = [claimedAt EXCEPT ![r] = now]
    /\ UNCHANGED <<now, local, store, request, val, sent, crashes>>

\* releaseUnsubmitted, then errBroadcastGuardUnavailable
SetNXFailed(r) ==
    /\ pc[r] = "setnx"
    /\ \/ UNCHANGED store
       \/ Absent(key[r]) /\ CreateClaim(r) /\ UNCHANGED late
       \/ late' = late \cup {r} /\ UNCHANGED redis
    /\ RemoveLocal(at[r], {key[r]})
    /\ Finish(r, Unavailable)
    /\ UNCHANGED <<now, request, history, crashes>>

\* readShared: the claim may have expired since SetNX
GetClaim(r) ==
    /\ pc[r] = "get" /\ ~Absent(key[r])
    /\ val' = [val EXCEPT ![r] = redis[key[r]].rec]
    /\ Goto(r, "install")
    /\ UNCHANGED <<now, local, store, request, history, crashes>>

\* Mutant: a read that finds nothing is tried again and again.
GetRetried(r) ==
    /\ pc[r] = "get" /\ Absent(key[r])
    /\ UNCHANGED vars

GetFailed(r) ==
    /\ pc[r] = "get"
    /\ RemoveLocal(at[r], {key[r]})
    /\ Finish(r, Unavailable)
    /\ UNCHANGED <<now, store, request, history, crashes>>

\* Mutant: the copy of a peer's outcome gets a window of its own.
InstallRenewing(r) ==
    LET i == at[r] k == key[r] IN
    /\ pc[r] = "install"
    /\ entries[i][k].rec.state # "none"
    /\ val[r].state # "pending"
    /\ entries' = [entries EXCEPT ![i][k].rec = val[r], ![i][k].expires = now + TTL]
    /\ lru' = [lru EXCEPT ![i] = MarkEvictable(@, k)]
    /\ Finish(r, val[r])
    /\ UNCHANGED <<now, store, request, history, crashes>>

\* A pending claim of a peer is never kept; a terminal one is, under the
\* expiry of the reservation it replaces.
Install(r) ==
    LET i == at[r] k == key[r] IN
    /\ pc[r] = "install"
    /\ \/ /\ entries[i][k].rec.state = "none"
          /\ Finish(r, Unavailable) /\ UNCHANGED local
       \/ /\ entries[i][k].rec.state # "none" /\ val[r].state = "pending"
          /\ RemoveLocal(i, {k})
          /\ Finish(r, val[r])
       \/ /\ entries[i][k].rec.state # "none" /\ val[r].state # "pending"
          /\ entries' = [entries EXCEPT ![i][k].rec = val[r]]
          /\ lru' = [lru EXCEPT ![i] = MarkEvictable(@, k)]
          /\ Finish(r, val[r])
    /\ UNCHANGED <<now, store, request, history, crashes>>

\* A saturated process still answers from the shared store.
Peek(r) ==
    /\ pc[r] = "peek"
    /\ \/ ~Absent(key[r]) /\ Finish(r, redis[key[r]].rec)
       \/ Finish(r, Unavailable)
    /\ UNCHANGED <<now, local, store, request, history, crashes>>
-----------------------------------------------------------------------------
(* The owner makes the single upstream attempt and publishes its outcome.  *)

Contact(r) ==
    /\ pc[r] = "owner"
    /\ sent' = sent \cup {r}
    /\ Goto(r, "sent")
    /\ UNCHANGED <<now, local, store, request, val, claimed, claimedAt, crashes>>

\* No eligible endpoint: Unavailable before any request, hence unknown.
NoEndpoint(r) ==
    /\ pc[r] = "owner"
    /\ val' = [val EXCEPT ![r] = Rec("unknown", r)]
    /\ Goto(r, "complete")
    /\ UNCHANGED <<now, local, store, request, history, crashes>>

\* Mutant: an error that is no node rejection gets a state of its own.
AnswerUnclassified(r) ==
    /\ pc[r] = "sent"
    /\ \E o \in Outcomes \cup {"timeout"} : val' = [val EXCEPT ![r] = Rec(o, r)]
    /\ Goto(r, "complete")
    /\ UNCHANGED <<now, local, store, request, history, crashes>>

Answer(r) ==
    /\ pc[r] = "sent"
    /\ \E o \in Outcomes : val' = [val EXCEPT ![r] = Rec(o, r)]
    /\ Goto(r, "complete")
    /\ UNCHANGED <<now, local, store, request, history, crashes>>

\* complete() up to its first unlock
CompleteLocal(r) ==
    LET i == at[r] k == key[r] IN
    /\ pc[r] = "complete"
    /\ UNCHANGED val
    /\ \/ /\ entries[i][k].rec.state = "none"
          /\ Goto(r, "done") /\ UNCHANGED local
       \/ /\ entries[i][k].rec.state # "none"
          /\ entries' = [entries EXCEPT ![i][k].rec = val[r]]
          /\ lru' = IF ~Shared /\ val[r].state = "rejected"
                    THEN [lru EXCEPT ![i] = MarkEvictable(@, k)] ELSE lru
          /\ Goto(r, IF Shared THEN "persist" ELSE "done")
    /\ UNCHANGED <<now, store, request, history, crashes>>

\* Mutant: the two kinds of failure are stored alike.
StoreOutcomeCoarse(r) ==
    redis' = [redis EXCEPT ![key[r]] =
                [rec |-> Rec(IF val[r].state = "accepted" THEN "accepted"
                             ELSE "rejected", r),
                 expires |-> now + TTL]]

\* Mutant: a rejection gives the shared claim back.
StoreOutcomeReleasing(r) ==
    redis' = [redis EXCEPT ![key[r]] =
                IF val[r].state = "rejected" THEN NoClaim
                ELSE [rec |-> val[r], expires |-> now + TTL]]

StoreOutcome(r) ==
    redis' = [redis EXCEPT ![key[r]] = [rec |-> val[r], expires |-> now + TTL]]

PersistOk(r) ==
    /\ pc[r] = "persist"
    /\ StoreOutcome(r)
    /\ Goto(r, "markOk")
    /\ UNCHANGED <<now, local, late, request, val, history, crashes>>

PersistFailed(r) ==
    /\ pc[r] = "persist"
    /\ \/ UNCHANGED store
       \/ StoreOutcome(r) /\ UNCHANGED late
       \/ late' = late \cup {r} /\ UNCHANGED redis
    /\ Goto(r, "markErr")
    /\ UNCHANGED <<now, local, request, val, history, crashes>>

\* Mutant: the record becomes evictable even when the write failed.
MarkAlways(r) ==
    LET i == at[r] k == key[r] IN
    /\ pc[r] \in {"markOk", "markErr"}
    /\ lru' = IF entries[i][k].rec.state # "none" /\ entries[i][k].by = r
              THEN [lru EXCEPT ![i] = MarkEvictable(@, k)] ELSE lru
    /\ Goto(r, "done")
    /\ UNCHANGED <<now, entries, store, request, val, history, crashes>>

\* The record r reserved becomes evictable once it is durable, or when it is
\* an explicit rejection; Broadcast then replies with the outcome.  The code
\* compares the expiry node it saw at CompleteLocal, which is the one r made: a
\* reservation that is not settled yet stays in its place.
Mark(r) ==
    LET i == at[r] k == key[r] IN
    /\ pc[r] \in {"markOk", "markErr"}
    /\ lru' = IF /\ entries[i][k].rec.state # "none" /\ entries[i][k].by = r
                 /\ pc[r] = "markOk" \/ val[r].state = "rejected"
              THEN [lru EXCEPT ![i] = MarkEvictable(@, k)] ELSE lru
    /\ Goto(r, "done")
    /\ UNCHANGED <<now, entries, store, request, val, history, crashes>>
-----------------------------------------------------------------------------
(* The environment.                                                        *)

\* A write the client gave up on reaches Redis after all.
DeliverLate(r) ==
    /\ r \in late
    /\ late' = late \ {r}
    /\ IF r \in claimed THEN StoreOutcome(r)
       ELSE IF Absent(key[r]) THEN CreateClaim(r) ELSE UNCHANGED redis
    /\ UNCHANGED <<now, local, pc, request, val, history, crashes>>

\* An abandoned write may also be lost for good.
LoseLate(r) ==
    /\ r \in late
    /\ late' = late \ {r}
    /\ UNCHANGED <<now, local, redis, pc, request, val, history, crashes>>

\* No request, nor a write it abandoned, outlives its budget: the handler's
\* context and the one-second persist context bound every call.
Tick ==
    /\ now < MaxTime
    /\ \A r \in Request : InFlight(r) \/ r \in late => now < start[r] + Budget
    /\ now' = now + 1
    /\ redis' = [k \in Key |-> IF redis[k].expires <= now + 1 THEN NoClaim
                               ELSE redis[k]]
    /\ UNCHANGED <<local, late, pc, request, val, history, crashes>>

\* A process dies and restarts empty; its writes under way may still land.
Crash(i) ==
    LET dead == {r \in Request : at[r] = i /\ InFlight(r)} IN
    /\ crashes < MaxCrashes
    /\ crashes' = crashes + 1
    /\ entries' = [entries EXCEPT ![i] = [k \in Key |-> NoEntry]]
    /\ lru' = [lru EXCEPT ![i] = [k \in Key |-> 0]]
    /\ pc' = [r \in Request |-> IF r \in dead THEN "crashed" ELSE pc[r]]
    /\ \E S \in SUBSET {r \in dead : pc[r] \in {"setnx", "persist"}} :
         late' = late \cup S
    /\ UNCHANGED <<now, redis, request, val, history>>

Step(r) ==
    \/ SetNXCreated(r) \/ SetNXExists(r) \/ SetNXFailed(r)
    \/ GetClaim(r) \/ GetFailed(r) \/ Install(r) \/ Peek(r)
    \/ Contact(r) \/ NoEndpoint(r) \/ Answer(r)
    \/ CompleteLocal(r) \/ PersistOk(r) \/ PersistFailed(r) \/ Mark(r)

Next ==
    \/ \E r \in Request : Begin(r) \/ Step(r) \/ DeliverLate(r) \/ LoseLate(r)
    \/ Tick
    \/ \E i \in Instance : Crash(i)

Fairness == \A r \in Request : WF_vars(Step(r))

Spec     == Init /\ [][Next]_vars
FairSpec == Spec /\ Fairness
-----------------------------------------------------------------------------
(* Properties.                                                             *)

\* Every variable keeps its shape; a stored record is one that
\* validBroadcastRecord accepts.
TypeOK ==
    /\ now \in 0..MaxTime
    /\ entries \in [Instance -> [Key -> Entry]]
    /\ lru \in [Instance -> [Key -> Nat]]
    /\ redis \in [Key -> Stored]
    /\ late \subseteq Request
    /\ pc \in [Request -> Steps]
    /\ at \in [Request -> Instance]
    /\ key \in [Request -> Key]
    /\ start \in [Request -> 0..MaxTime]
    /\ val \in [Request -> Record]
    /\ claimed \subseteq Request
    /\ claimedAt \in [Request -> 0..MaxTime]
    /\ sent \subseteq claimed
    /\ crashes \in 0..MaxCrashes

\* The payload of two requests is submitted twice within 24 hours only when
\* nothing shared remembers it and the first submission was rejected, or was
\* forgotten in a crash: begin() admits one owner per fingerprint and window
\* whatever Redis, the node, the clock and the other process do.
OncePerWindow ==
    \A r, s \in claimed :
        /\ r # s /\ key[r] = key[s]
        /\ claimedAt[r] <= claimedAt[s] /\ claimedAt[s] < claimedAt[r] + TTL
        => /\ ~Shared
           /\ \/ crashes > 0
              \/ val[r].state = "rejected"
              \/ claimedAt[r] = claimedAt[s] /\ val[s].state = "rejected"

\* An outcome that any request holds, any process caches or Redis stores is
\* the outcome of the one attempt it is attributed to, made for the same
\* payload: a replay never answers with another transaction's result.
Attributed(rec, k) ==
    rec.state \in Outcomes =>
        /\ rec.from \in claimed
        /\ key[rec.from] = k
        /\ val[rec.from] = rec

ReplyAttribution ==
    /\ \A i \in Instance, k \in Key : Attributed(entries[i][k].rec, k)
    /\ \A k \in Key : Attributed(redis[k].rec, k)
    /\ \A r \in Request : Attributed(val[r], key[r])

\* What the local cache may give up early is an explicit rejection, or an
\* outcome the shared store still holds until the window of its claim is over
\* (broadcast_guard.go:28-29); never a pending reservation.
EvictableIsSafe ==
    \A i \in Instance : \A k \in Linked(lru[i]) :
        LET rec == entries[i][k].rec IN
        \/ rec.state = "rejected"
        \/ /\ rec.state \in Outcomes /\ Shared
           /\ redis[k].rec = rec \/ now >= claimedAt[rec.from] + TTL

\* The local table stays within its bound, and the list of evictable keys
\* names records of the table, each at a place of its own: every slot that may
\* be reclaimed is found, whatever order replays, sweeps and releases come in.
LocalBound ==
    \A i \in Instance :
        /\ Cardinality(Used(entries[i])) <= MaxRecords
        /\ Linked(lru[i]) \subseteq Used(entries[i])
        /\ {lru[i][k] : k \in Linked(lru[i])} = 1..Cardinality(Linked(lru[i]))

\* A peer reserves its copy before the owner's claim, stored at most Budget
\* after it was made, expires, and replays it before the copy expires: neither
\* replays nor completion extend a record (broadcast_guard.go:206-207).
ReplyAge ==
    \A r \in Request :
        pc[r] = "done" /\ val[r].state \in Outcomes
        => start[r] + 1 < claimedAt[val[r].from] + Budget + 2 * TTL

\* The two-level store implements the one-shot ledger of BroadcastOnce: the
\* owners are the requests begin() let through, and a reply is what a finished
\* handler holds.  Every step of the code is a step of the ledger or none.
Once == INSTANCE BroadcastOnce WITH
    Payload   <- Key,
    NoReply   <- NoRec,
    payload   <- key,
    owner     <- claimed,
    ownedAt   <- claimedAt,
    submitted <- sent,
    outcome   <- [r \in Request |-> IF r \in claimed /\ val[r].state \in Outcomes
                                   THEN val[r] ELSE NoRec],
    reply     <- [r \in Request |-> IF pc[r] = "done" THEN val[r] ELSE NoRec]

ImplementsOnce == Once!Spec

\* Every POST that entered the guard is answered unless its process dies:
\* no outcome of Redis, of the node or of a peer leaves it waiting.
Answered == \A r \in Request : InFlight(r) ~> pc[r] \in {"done", "crashed"}

\* README.md:121-123 of the gateway: within 24 hours a replay returns the
\* first outcome, and "pending" means that the owner is concurrent or crashed.
ReplayReturnsOutcome ==
    \A r \in Request :
        pc[r] = "done" /\ val[r].state = "pending" =>
            LET s == val[r].from IN
            ~ (/\ s \in claimed /\ pc[s] = "done"
               /\ claimedAt[s] + Budget < start[r]
               /\ start[r] < claimedAt[s] + TTL)
=============================================================================
