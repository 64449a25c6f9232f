---------------------------- MODULE RedisCircuit ----------------------------
(***************************************************************************)
(* The breaker in front of Redis (cache/redis.go).  Get, Set, SetNX and    *)
(* Ping all have the same shape: beginOperation under the lock, the call   *)
(* of the client without it, finishOperation under the lock again.  A      *)
(* Worker is a goroutine; it has at most one operation under way.          *)
(***************************************************************************)
EXTENDS GatewayProcess

CONSTANTS
    Cooldown,   \* redisFailureCooldown, in ticks
    OpBudget    \* bound, in ticks, on one call of the client

\* The client's pool, dial, write and read timeouts are 750 ms each and it
\* does not retry; the cooldown is 5 s.
ASSUME RedisConstants ==
    /\ Cooldown \in Nat /\ OpBudget \in Nat
    /\ OpBudget < Cooldown

VARIABLES
    openUntil,      \* openUntil, 0 for the zero time
    halfOpenProbe,  \* halfOpenProbe
    op              \* op[w]: the operation of w

redisVars == <<now, openUntil, halfOpenProbe, op>>

Op   == [on : BOOLEAN, probe : BOOLEAN, began : Nat]
NoOp == [on |-> FALSE, probe |-> FALSE, began |-> 0]

Running == {w \in Worker : op[w].on}

RedisInit ==
    /\ openUntil = 0 /\ halfOpenProbe = FALSE
    /\ op = [w \in Worker |-> NoOp]
-----------------------------------------------------------------------------
\* Mutant: the probe slot is not compared.
RefusedEarly == openUntil # 0 /\ now < openUntil

\* errRedisCircuitOpen
Refused == openUntil # 0 /\ (now < openUntil \/ halfOpenProbe)

\* beginOperation, when it does not refuse
BeginOperation(w) ==
    /\ ~op[w].on
    /\ ~Refused
    /\ op' = [op EXCEPT ![w] = [on |-> TRUE, probe |-> openUntil # 0, began |-> now]]
    /\ halfOpenProbe' = (halfOpenProbe \/ openUntil # 0)
    /\ UNCHANGED <<now, openUntil>>

\* Mutant: any success closes the circuit.
ClosesAlways(w, err) == err = "none"

Closes(w, err) == err = "none" /\ op[w].probe

\* Mutant: a probe whose caller left keeps the slot.
FinishOperationLeaky(w, err) ==
    /\ op[w].on
    /\ op' = [op EXCEPT ![w] = NoOp]
    /\ halfOpenProbe' = (halfOpenProbe /\ (err = "context" \/ ~op[w].probe))
    /\ openUntil' = IF err = "redis" THEN now + Cooldown
                    ELSE IF Closes(w, err) THEN 0 ELSE openUntil
    /\ UNCHANGED now

\* finishOperation; redis.Nil is an answer, so err is "none" for it.
FinishOperation(w, err) ==
    /\ op[w].on
    /\ op' = [op EXCEPT ![w] = NoOp]
    /\ halfOpenProbe' = (halfOpenProbe /\ ~op[w].probe)
    /\ openUntil' = IF err = "redis" THEN now + Cooldown
                    ELSE IF Closes(w, err) THEN 0 ELSE openUntil
    /\ UNCHANGED now

\* No call of the client outlives its timeouts.
RedisTick ==
    /\ Advance
    /\ \A w \in Running : now < op[w].began + OpBudget
    /\ UNCHANGED <<openUntil, halfOpenProbe, op>>

\* What the call of the client came to: an answer, the end of the caller's
\* context, or a failure of Redis.
Errors == {"none", "context", "redis"}

RedisNext ==
    \/ RedisTick
    \/ \E w \in Worker :
         \/ BeginOperation(w)
         \/ \E err \in Errors : FinishOperation(w, err)

RedisSpec == now = 0 /\ RedisInit /\ [][RedisNext]_redisVars
-----------------------------------------------------------------------------
(* Properties.                                                             *)

RedisTypeOK ==
    /\ now \in Nat
    /\ openUntil \in Nat
    /\ halfOpenProbe \in BOOLEAN
    /\ op \in [Worker -> Op]

\* A recovery probe has Redis to itself: no operation that began before the
\* circuit opened is still under way to decide against it (redis.go:155-157
\* and 189-190).  This is where the cooldown must exceed an operation.
ProbeRunsAlone ==
    \A v, w \in Running : op[w].probe => v = w

\* The probe slot is taken exactly while a probe runs: a probe that its caller
\* abandons gives it back, or the process would never use Redis again.
ProbeSlot == halfOpenProbe <=> \E w \in Running : op[w].probe

\* After a failure Redis is left alone for the whole cooldown: no success, of a
\* stale operation or of a probe that the failure overtook, closes the circuit
\* before the time the last failure set.
CooldownHolds ==
    [][openUntil # 0 /\ openUntil' = 0 => openUntil <= now]_redisVars
=============================================================================
