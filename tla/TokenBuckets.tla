---------------------------- MODULE TokenBuckets ----------------------------
(***************************************************************************)
(* What the inbound limiter promises: every key has a bucket of its own    *)
(* for ever, which fills by one credit per tick up to Burst, and a request *)
(* is let in exactly when its bucket holds the Cost of one.                *)
(***************************************************************************)
EXTENDS Integers

CONSTANTS Bucket, Burst, Cost, MaxTick

VARIABLES
    tick,    \* the clock
    level,   \* level[b]: the credits of b now
    verdict  \* the last decision: the bucket asked, and whether it paid

Decisions == [bucket : Bucket, allowed : BOOLEAN]

BucketsInit ==
    /\ tick = 0
    /\ level = [b \in Bucket |-> Burst]
    /\ verdict \in Decisions

Decide(b) ==
    /\ verdict' = [bucket |-> b, allowed |-> level[b] >= Cost]
    /\ level' = [level EXCEPT ![b] = IF @ >= Cost THEN @ - Cost ELSE @]
    /\ UNCHANGED tick

Fill ==
    /\ tick < MaxTick /\ tick' = tick + 1
    /\ level' = [b \in Bucket |-> IF level[b] < Burst THEN level[b] + 1 ELSE Burst]
    /\ UNCHANGED verdict

BucketsSpec == BucketsInit /\ [][Fill \/ \E b \in Bucket : Decide(b)]_<<tick, level, verdict>>
=============================================================================
