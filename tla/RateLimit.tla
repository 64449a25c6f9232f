------------------------------ MODULE RateLimit ------------------------------
(***************************************************************************)
(* The per-client limiter in front of the JSON-RPC server: Limiter         *)
(* (ratelimit/ratelimit.go).  A bucket is kept only for keys seen lately;  *)
(* it is filled when it is used.  Credits make the fractional tokens of    *)
(* the code whole: a request costs Cost of them and one comes back per     *)
(* tick, so the code's rate is 1/Cost tokens per tick.                     *)
(***************************************************************************)
EXTENDS Integers, FiniteSets

CONSTANTS
    Client,      \* the keys callers have
    Overflow,    \* overflowBucketKey
    MaxBuckets,  \* maxBuckets
    Burst,       \* burst, in credits
    Cost,        \* the credits of one request
    MaxTick      \* bound on the clock

ASSUME LimitConstants ==
    /\ Overflow \notin Client
    /\ IsFiniteSet(Client)
    /\ MaxBuckets \in Nat \ {0}
    /\ Cost \in Nat \ {0} /\ Burst \in Nat /\ Burst >= Cost
    /\ MaxTick \in Nat

VARIABLES
    tick,    \* the clock
    held,    \* the keys of l.buckets
    credit,  \* credit[k]: b.tokens
    last,    \* last[k]: b.last
    verdict  \* what Allow answered last, and for which bucket

Slot == Client \cup {Overflow}

limiter == <<held, credit, last, verdict>>

LimitInit ==
    /\ tick = 0
    /\ held = {}
    /\ credit = [k \in Slot |-> Burst]
    /\ last = [k \in Slot |-> 0]
    /\ verdict \in [bucket : Slot, allowed : BOOLEAN]
-----------------------------------------------------------------------------
Crowded(S) == Cardinality(S) >= MaxBuckets - 1

\* Mutant: the bucket need not have filled up to be dropped.
RefilledEarly(k) == tick - last[k] >= Cost

Refilled(k) == tick - last[k] >= Burst

\* The buckets left when a request of c has made room for its own.
Swept(c) ==
    IF c \notin held /\ Crowded(held)
    THEN {k \in held : k = Overflow \/ ~Refilled(k)} ELSE held

\* Mutant: a table that stays full takes one more key.
PayerAlways(c) == c

\* The bucket that pays: with no room left, the one all newcomers share.
Payer(c) == IF c \notin held /\ Crowded(Swept(c)) THEN Overflow ELSE c

Filled(k) ==
    IF credit[k] + (tick - last[k]) < Burst THEN credit[k] + (tick - last[k]) ELSE Burst

Level(k) == IF k \in held THEN Filled(k) ELSE Burst

\* Limiter.Allow
Allow(c) ==
    LET k == Payer(c)
        n == IF k \in Swept(c) THEN Filled(k) ELSE Burst
    IN  /\ verdict' = [bucket |-> k, allowed |-> n >= Cost]
        /\ held' = Swept(c) \cup {k}
        /\ credit' = [credit EXCEPT ![k] = IF n >= Cost THEN n - Cost ELSE n]
        /\ last' = [last EXCEPT ![k] = tick]

LimitTick == tick < MaxTick /\ tick' = tick + 1 /\ UNCHANGED limiter

LimitNext == LimitTick \/ \E c \in Client : Allow(c) /\ UNCHANGED tick

LimitSpec == LimitInit /\ [][LimitNext]_<<tick, limiter>>
-----------------------------------------------------------------------------
(* Properties                                                               *)

LimitTypeOK ==
    /\ tick \in Nat /\ held \subseteq Slot
    /\ credit \in [Slot -> 0 .. Burst]
    /\ last \in [Slot -> 0 .. tick]
    /\ verdict \in [bucket : Slot, allowed : BOOLEAN]

\* However many clients come, the table never outgrows maxBuckets: the slot
\* that Allow (ratelimit.go:75-84) keeps back is enough for the overflow.
TableBound == Cardinality(held) <= MaxBuckets

Ideal == INSTANCE TokenBuckets
    WITH Bucket <- Slot, level <- [k \in Slot |-> Level(k)]

\* Lazy filling and sweeping cannot be told from buckets that live for ever
\* (ratelimit.go:70-73 calls a swept bucket "indistinguishable" from a fresh
\* one): nobody gains or loses a credit because somebody else was swept.
IdealBuckets == Ideal!BucketsSpec
=============================================================================
