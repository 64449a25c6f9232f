-------------------------- MODULE GatewayReadProofs --------------------------
(***************************************************************************)
(* What the breaker of Redis, the pool and the read cache guarantee for    *)
(* any number of goroutines, any number of endpoints and any durations.    *)
(* The breaker and the pool are each proved on their own; GatewayRead is   *)
(* proved to implement both, so that what holds of them holds in it.       *)
(***************************************************************************)
EXTENDS GatewayRead, TLAPS

LEMMA Durations ==
  /\ Cooldown \in Nat /\ OpBudget \in Nat /\ OpBudget < Cooldown
  /\ Endpoints \in Nat /\ Prefix \in Nat /\ Prefix <= Endpoints
  /\ FailThreshold \in Nat /\ FailThreshold > 0
  /\ OpenDuration \in Nat /\ OpenDuration > 0
  /\ AttemptBudget \in Nat /\ TTL \in Nat /\ TTL > 0
  BY RedisConstants, PoolConstants, CacheConstants
     DEF RedisConstants, PoolConstants, CacheConstants
-----------------------------------------------------------------------------
(* The breaker of Redis.                                                   *)

\* The times an operation under way has to do with: an ordinary one began
\* before the circuit opened, and is over before it may be probed; a probe
\* began when the cooldown was over.
OpTimes ==
    \A w \in Running :
        /\ op[w].began <= now /\ now <= op[w].began + OpBudget
        /\ ~op[w].probe => openUntil = 0 \/ op[w].began + Cooldown <= openUntil
        /\ op[w].probe => openUntil # 0 /\ openUntil <= op[w].began

RedisInv == RedisTypeOK /\ OpTimes /\ ProbeRunsAlone /\ ProbeSlot

LEMMA RedisInitial == now = 0 /\ RedisInit => RedisInv
  <1> SUFFICES ASSUME now = 0, RedisInit PROVE RedisInv
    OBVIOUS
  <1>1. Running = {} /\ ~halfOpenProbe
    BY DEF RedisInit, Running, NoOp
  <1>2. RedisTypeOK
    <2>1. halfOpenProbe \in BOOLEAN
      BY DEF RedisInit
    <2> QED BY <2>1 DEF RedisInit, RedisTypeOK, Op, NoOp
  <1> QED BY <1>1, <1>2 DEF RedisInv, OpTimes, ProbeRunsAlone, ProbeSlot

LEMMA RedisTypes == RedisInv /\ [RedisNext]_redisVars => RedisTypeOK'
  <1> SUFFICES ASSUME RedisTypeOK, [RedisNext]_redisVars PROVE RedisTypeOK'
    BY DEF RedisInv
  <1>1. CASE UNCHANGED redisVars
    BY <1>1 DEF RedisTypeOK, redisVars
  <1>2. CASE RedisTick
    BY <1>2 DEF RedisTypeOK, RedisTick, Advance
  <1>3. ASSUME NEW w \in Worker, BeginOperation(w) PROVE RedisTypeOK'
    <2>1. [on |-> TRUE, probe |-> openUntil # 0, began |-> now] \in Op
      BY DEF RedisTypeOK, Op
    <2>2. halfOpenProbe' \in BOOLEAN
      BY <1>3 DEF RedisTypeOK, BeginOperation
    <2> QED BY <1>3, <2>1, <2>2 DEF RedisTypeOK, BeginOperation
  <1>4. ASSUME NEW w \in Worker, NEW err \in Errors, FinishOperation(w, err)
        PROVE  RedisTypeOK'
    <2>1. NoOp \in Op
      BY DEF NoOp, Op
    <2>2. halfOpenProbe' \in BOOLEAN
      BY <1>4 DEF RedisTypeOK, FinishOperation
    <2>3. openUntil' \in Nat
      BY <1>4, Durations DEF RedisTypeOK, FinishOperation
    <2> QED BY <1>4, <2>1, <2>2, <2>3 DEF RedisTypeOK, FinishOperation
  <1> QED BY <1>1, <1>2, <1>3, <1>4 DEF RedisNext

\* When the breaker lets a probe through, nothing else is under way: an
\* operation that began before the circuit opened has had the whole cooldown,
\* which is longer than an operation.
LEMMA ProbeFindsNoOne ==
  ASSUME RedisInv, NEW w \in Worker, BeginOperation(w), openUntil # 0
  PROVE  Running = {}
  <1> SUFFICES ASSUME NEW v \in Running PROVE FALSE
    OBVIOUS
  <1>t. /\ v \in Worker /\ now \in Nat /\ openUntil \in Nat
        /\ op[v].began \in Nat /\ op[v].probe \in BOOLEAN
    BY DEF RedisInv, RedisTypeOK, Op, Running
  <1>1. openUntil <= now /\ ~halfOpenProbe
    BY <1>t DEF BeginOperation, Refused
  <1>2. CASE op[v].probe
    BY <1>1, <1>2 DEF RedisInv, ProbeSlot
  <1>3. CASE ~op[v].probe
    <2>1. op[v].began + Cooldown <= openUntil /\ now <= op[v].began + OpBudget
      BY <1>3 DEF RedisInv, OpTimes
    <2> QED BY <1>t, <1>1, <2>1, Durations
  <1> QED BY <1>2, <1>3

LEMMA BeginKeeps ==
  ASSUME RedisInv, NEW w \in Worker, BeginOperation(w)
  PROVE  (OpTimes /\ ProbeRunsAlone /\ ProbeSlot)'
  <1>t. /\ now \in Nat /\ openUntil \in Nat /\ op \in [Worker -> Op]
        /\ now' = now /\ openUntil' = openUntil /\ w \notin Running
    BY DEF RedisInv, RedisTypeOK, BeginOperation, Running
  <1>1. /\ op'[w] = [on |-> TRUE, probe |-> openUntil # 0, began |-> now]
        /\ \A v \in Worker : v # w => op'[v] = op[v]
        /\ Running' = Running \cup {w}
    BY <1>t DEF BeginOperation, Running
  <1>2. CASE openUntil = 0
    <2>1. \A v \in Running : ~op[v].probe
      BY <1>2 DEF RedisInv, OpTimes
    <2>2. ~halfOpenProbe' /\ \A v \in Running' : ~op'[v].probe
      BY <1>1, <1>2, <1>t, <2>1 DEF RedisInv, ProbeSlot, BeginOperation, Running
    <2>3. OpTimes'
      BY <1>1, <1>2, <1>t, <2>2, Durations DEF RedisInv, OpTimes, Running
    <2> QED BY <2>2, <2>3 DEF ProbeRunsAlone, ProbeSlot
  <1>3. CASE openUntil # 0
    <2>1. Running' = {w} /\ op'[w].probe /\ op'[w].began = now
      <3>1. Running = {}
        BY <1>3, ProbeFindsNoOne
      <3>2. op'[w].probe = (openUntil # 0) /\ op'[w].began = now
        BY <1>1
      <3> QED BY <1>1, <1>3, <3>1, <3>2
    <2>2. openUntil <= now /\ halfOpenProbe'
      <3>1. ~(now < openUntil)
        BY <1>3 DEF BeginOperation, Refused
      <3>2. halfOpenProbe'
        BY <1>3 DEF BeginOperation
      <3> QED BY <1>t, <3>1, <3>2
    <2>3. OpTimes'
      BY <1>3, <1>t, <2>1, <2>2, Durations DEF OpTimes
    <2> QED BY <2>1, <2>2, <2>3 DEF ProbeRunsAlone, ProbeSlot
  <1> QED BY <1>2, <1>3

LEMMA FinishKeeps ==
  ASSUME RedisInv, NEW w \in Worker, NEW err \in Errors, FinishOperation(w, err)
  PROVE  (OpTimes /\ ProbeRunsAlone /\ ProbeSlot)'
  <1>t. /\ now \in Nat /\ openUntil \in Nat /\ op \in [Worker -> Op]
        /\ now' = now /\ w \in Running
    BY DEF RedisInv, RedisTypeOK, FinishOperation, Running
  <1>1. /\ op' = [op EXCEPT ![w] = NoOp]
        /\ Running' = Running \ {w}
        /\ \A v \in Running' : v \in Running /\ op'[v] = op[v]
    BY <1>t DEF FinishOperation, Running, NoOp
  <1>2. CASE op[w].probe
    <2>1. Running' = {}
      BY <1>1, <1>2, <1>t DEF RedisInv, ProbeRunsAlone
    <2>2. ~halfOpenProbe'
      BY <1>2 DEF FinishOperation
    <2> QED BY <2>1, <2>2 DEF OpTimes, ProbeRunsAlone, ProbeSlot
  <1>3. CASE ~op[w].probe
    <2>1. \/ openUntil' = openUntil
          \/ openUntil' = now + Cooldown
      BY <1>3 DEF FinishOperation, Closes
    <2>2. \A v \in Running' : ~op[v].probe
      BY <1>1, <1>3, <1>t DEF RedisInv, ProbeRunsAlone
    <2>3. halfOpenProbe' = halfOpenProbe /\ ~halfOpenProbe
      <3>1. \A v \in Running : ~op[v].probe
        BY <1>1, <1>3, <2>2
      <3> QED BY <1>3, <3>1 DEF RedisInv, ProbeSlot, FinishOperation, RedisTypeOK
    <2>4. OpTimes'
      <3> SUFFICES ASSUME NEW v \in Running'
                   PROVE  /\ op'[v].began <= now' /\ now' <= op'[v].began + OpBudget
                          /\ openUntil' = 0 \/ op'[v].began + Cooldown <= openUntil'
                          /\ ~op'[v].probe
        BY DEF OpTimes
      <3>1. /\ op[v].began \in Nat /\ op[v].began <= now
            /\ now <= op[v].began + OpBudget
            /\ openUntil = 0 \/ op[v].began + Cooldown <= openUntil
        BY <1>1, <2>2, <1>t DEF RedisInv, OpTimes, Op, Running
      <3> QED BY <1>1, <1>t, <2>1, <2>2, <3>1, Durations
    <2> QED BY <1>1, <2>2, <2>3, <2>4 DEF ProbeRunsAlone, ProbeSlot
  <1> QED BY <1>2, <1>3

LEMMA RedisStep == RedisInv /\ [RedisNext]_redisVars => RedisInv'
  <1> SUFFICES ASSUME RedisInv, [RedisNext]_redisVars
               PROVE  (OpTimes /\ ProbeRunsAlone /\ ProbeSlot)'
    BY RedisTypes DEF RedisInv
  <1>1. CASE UNCHANGED redisVars
    BY <1>1 DEF RedisInv, redisVars, OpTimes, ProbeRunsAlone, ProbeSlot, Running
  <1>2. CASE RedisTick
    <2>1. /\ now \in Nat /\ openUntil \in Nat /\ now' = now + 1
          /\ UNCHANGED <<openUntil, halfOpenProbe, op>>
          /\ \A w \in Running : op[w].began \in Nat /\ now < op[w].began + OpBudget
      BY <1>2 DEF RedisInv, RedisTypeOK, RedisTick, Advance, Running, Op
    <2>2. Running' = Running
      BY <2>1 DEF Running
    <2>3. OpTimes'
      BY <2>1, <2>2, Durations DEF RedisInv, OpTimes
    <2> QED BY <2>1, <2>2, <2>3 DEF RedisInv, ProbeRunsAlone, ProbeSlot
  <1>3. ASSUME NEW w \in Worker, BeginOperation(w)
        PROVE  (OpTimes /\ ProbeRunsAlone /\ ProbeSlot)'
    BY <1>3, BeginKeeps
  <1>4. ASSUME NEW w \in Worker, NEW err \in Errors, FinishOperation(w, err)
        PROVE  (OpTimes /\ ProbeRunsAlone /\ ProbeSlot)'
    BY <1>4, FinishKeeps
  <1> QED BY <1>1, <1>2, <1>3, <1>4 DEF RedisNext

\* The breaker of the shared store always satisfies its invariant: what a running
\* operation knows, who probes, and whose slot the probe is (circuit.go:56-99).
THEOREM RedisInvariant == RedisSpec => []RedisInv
  BY RedisInitial, RedisStep, PTL DEF RedisSpec

\* A recovery probe runs alone, for any cooldown longer than an operation.
THEOREM ProbeIsAlone == RedisSpec => []ProbeRunsAlone
  BY RedisInvariant, PTL DEF RedisInv

\* The probe slot is taken exactly while a probe runs.
THEOREM SlotIsOwned == RedisSpec => []ProbeSlot
  BY RedisInvariant, PTL DEF RedisInv

\* Nothing closes the circuit before the cooldown of the last failure is over.
THEOREM CooldownIsKept == RedisSpec => CooldownHolds
  <1>1. RedisInv /\ [RedisNext]_redisVars
        => [openUntil # 0 /\ openUntil' = 0 => openUntil <= now]_redisVars
    <2> SUFFICES ASSUME RedisInv, RedisNext, openUntil # 0, openUntil' = 0
                 PROVE  openUntil <= now
      BY DEF redisVars
    <2>1. PICK w \in Worker, err \in Errors : FinishOperation(w, err)
      BY DEF RedisNext, RedisTick, BeginOperation
    <2>2. op[w].on /\ op[w].probe
      BY <2>1, Durations DEF FinishOperation, Closes, RedisInv, RedisTypeOK
    <2>3. openUntil <= op[w].began /\ op[w].began <= now
      BY <2>2 DEF RedisInv, OpTimes, Running
    <2>4. openUntil \in Nat /\ now \in Nat /\ op[w].began \in Nat
      BY DEF RedisInv, RedisTypeOK, Op
    <2> QED BY <2>3, <2>4
  <1> QED BY <1>1, RedisInvariant, PTL DEF RedisSpec, CooldownHolds
-----------------------------------------------------------------------------
(* The pool.                                                               *)

LEMMA PlaceIsEndpoint ==
  ASSUME NEW start \in Nat, NEW pos \in 1..Endpoints
  PROVE  At(start, pos) \in Endpoint
  <1>1. CASE pos <= Prefix
    <2>1. (start + pos - 1) \in Nat /\ Prefix \in Nat \ {0}
      BY <1>1, Durations
    <2>2. (start + pos - 1) % Prefix \in 0..(Prefix - 1)
      BY <2>1
    <2> QED BY <1>1, <2>2, Durations DEF At, Endpoint
  <1>2. CASE ~(pos <= Prefix)
    BY <1>2 DEF At, Endpoint
  <1> QED BY <1>1, <1>2

\* A call has tried fewer requests than it has passed endpoints, a write none
\* before its only one; an attempt is under way at a real endpoint, within its
\* timeout.
CallInv ==
    \A w \in Worker :
        /\ call[w].step = "none" => call[w].tries = 0
        /\ call[w].step = "pick" =>
              call[w].tries < call[w].pos /\ (call[w].write => call[w].tries = 0)
        /\ call[w].step = "attempt" =>
              /\ call[w].pos <= Endpoints /\ call[w].tries <= call[w].pos
              /\ call[w].write => call[w].tries <= 1
              /\ call[w].since <= now /\ now <= call[w].since + AttemptBudget

PoolInv == PoolTypeOK /\ CallInv /\ WindowIsEarned /\ WindowShelters

LEMMA NoCallOK == NoCall \in Call
  BY Durations DEF NoCall, Fresh, Call

LEMMA PoolInitial == now = 0 /\ PoolInit => PoolInv
  <1> SUFFICES ASSUME now = 0, PoolInit PROVE PoolInv
    OBVIOUS
  <1>1. PoolTypeOK
    BY NoCallOK, Durations DEF PoolInit, PoolTypeOK
  <1>2. \A w \in Worker : call[w].step = "none" /\ call[w].tries = 0
    BY DEF PoolInit, NoCall, Fresh
  <1>3. WindowIsEarned
    BY DEF PoolInit, WindowIsEarned
  <1> QED BY <1>1, <1>2, <1>3 DEF PoolInv, CallInv, WindowShelters

\* The parts of the state that the rest of the proof looks at, with their types.
LEMMA PoolTypes ==
  ASSUME PoolInv, NEW w \in Worker
  PROVE  /\ now \in Nat /\ nextPrimary \in Nat
         /\ fails \in [Endpoint -> 0..FailThreshold] /\ skipUntil \in [Endpoint -> Nat]
         /\ call \in [Worker -> Call] /\ call[w] \in Call
         /\ call[w].start \in Nat /\ call[w].since \in Nat /\ call[w].tries \in Nat
         /\ call[w].pos \in 1..(Endpoints + 1)
         /\ call[w].step = "attempt" => Target(w) \in Endpoint
         /\ call[w].step = "pick" /\ call[w].pos <= Endpoints => Target(w) \in Endpoint
  <1>1. /\ now \in Nat /\ nextPrimary \in Nat
        /\ fails \in [Endpoint -> 0..FailThreshold] /\ skipUntil \in [Endpoint -> Nat]
        /\ call \in [Worker -> Call] /\ call[w] \in Call
    BY DEF PoolInv, PoolTypeOK
  <1>2. /\ call[w].start \in Nat /\ call[w].since \in Nat /\ call[w].tries \in Nat
        /\ call[w].pos \in 1..(Endpoints + 1)
    BY <1>1 DEF Call
  <1>3. call[w].pos <= Endpoints => Target(w) \in Endpoint
    <2> SUFFICES ASSUME call[w].pos <= Endpoints PROVE Target(w) \in Endpoint
      OBVIOUS
    <2>1. call[w].pos \in 1..Endpoints
      BY <1>2, Durations
    <2> QED BY <1>2, <2>1, PlaceIsEndpoint DEF Target
  <1>4. call[w].step = "attempt" => call[w].pos <= Endpoints
    BY DEF PoolInv, CallInv
  <1> QED BY <1>1, <1>2, <1>3, <1>4

\* What the record of an outcome does to the breaker of an endpoint.
LEMMA FailureRecorded ==
  ASSUME PoolInv, NEW e \in Endpoint, RecordFailure(e)
  PROVE  /\ fails' \in [Endpoint -> 0..FailThreshold] /\ skipUntil' \in [Endpoint -> Nat]
         /\ \A x \in Endpoint : skipUntil'[x] > 0 => fails'[x] = FailThreshold
         /\ \A x \in Endpoint : \/ skipUntil'[x] = skipUntil[x]
                                \/ skipUntil'[x] = now + OpenDuration
  <1>1. /\ now \in Nat /\ fails \in [Endpoint -> 0..FailThreshold]
        /\ skipUntil \in [Endpoint -> Nat]
        /\ \A x \in Endpoint : skipUntil[x] > 0 => fails[x] = FailThreshold
    BY DEF PoolInv, PoolTypeOK, WindowIsEarned
  <1>2. /\ fails' = [fails EXCEPT ![e] = IF fails[e] < FailThreshold
                                         THEN fails[e] + 1 ELSE fails[e]]
        /\ skipUntil' = [skipUntil EXCEPT ![e] =
              IF fails[e] + 1 >= FailThreshold THEN now + OpenDuration ELSE skipUntil[e]]
    BY DEF RecordFailure
  <1> QED BY <1>1, <1>2, Durations

LEMMA SuccessRecorded ==
  ASSUME PoolInv, NEW e \in Endpoint, RecordSuccess(e)
  PROVE  /\ fails' \in [Endpoint -> 0..FailThreshold] /\ skipUntil' \in [Endpoint -> Nat]
         /\ \A x \in Endpoint : skipUntil'[x] > 0 => fails'[x] = FailThreshold
         /\ \A x \in Endpoint : skipUntil'[x] = skipUntil[x] \/ skipUntil'[x] = 0
  BY Durations DEF PoolInv, PoolTypeOK, WindowIsEarned, RecordSuccess

\* A call of w that has no attempt under way after the step, while breakers
\* change as above, keeps the invariant.
LEMMA CallMoves ==
  ASSUME PoolInv, NEW w \in Worker, NEW c \in Call,
         call' = [call EXCEPT ![w] = c], now' = now, nextPrimary' \in Nat,
         fails' \in [Endpoint -> 0..FailThreshold], skipUntil' \in [Endpoint -> Nat],
         \A x \in Endpoint : skipUntil'[x] > 0 => fails'[x] = FailThreshold,
         \A x \in Endpoint : \/ skipUntil'[x] \in {0, skipUntil[x]}
                             \/ skipUntil'[x] = now + OpenDuration,
         c.step # "attempt",
         c.step = "none" => c.tries = 0,
         c.step = "pick" => c.tries < c.pos /\ (c.write => c.tries = 0)
  PROVE  PoolInv'
  <1>t. call \in [Worker -> Call] /\ now \in Nat /\ skipUntil \in [Endpoint -> Nat]
    BY DEF PoolInv, PoolTypeOK
  <1>1. PoolTypeOK' /\ WindowIsEarned'
    BY <1>t DEF PoolTypeOK, WindowIsEarned
  <1>2. call'[w] = c /\ \A v \in Worker : v # w => call'[v] = call[v]
    BY <1>t
  <1>3. CallInv'
    BY <1>2 DEF PoolInv, CallInv
  <1>4. WindowShelters'
    <2> SUFFICES ASSUME NEW v \in Worker, call'[v].step = "attempt",
                        skipUntil'[Target(v)'] > 0
                 PROVE  \/ call'[v].since + OpenDuration <= skipUntil'[Target(v)']
                        \/ call'[v].since >= skipUntil'[Target(v)']
      BY DEF WindowShelters
    <2>1. v # w /\ call'[v] = call[v] /\ Target(v)' = Target(v)
      BY <1>2 DEF Target
    <2>2. /\ Target(v) \in Endpoint /\ call[v].since \in Nat
          /\ call[v].since <= now
      BY <2>1, PoolTypes DEF PoolInv, CallInv
    <2>3. skipUntil[Target(v)] > 0 =>
            \/ call[v].since + OpenDuration <= skipUntil[Target(v)]
            \/ call[v].since >= skipUntil[Target(v)]
      BY <2>1 DEF PoolInv, WindowShelters
    <2> QED BY <1>t, <2>1, <2>2, <2>3, Durations
  <1> QED BY <1>1, <1>3, <1>4 DEF PoolInv

LEMMA StartKeeps ==
  ASSUME PoolInv, NEW w \in Worker, NEW write \in BOOLEAN, StartCall(w, write)
  PROVE  PoolInv'
  <1> DEFINE first == IF Prefix <= 1 THEN 0 ELSE nextPrimary % Prefix
             c     == Fresh("pick", write, first)
  <1>t. nextPrimary \in Nat
    BY DEF PoolInv, PoolTypeOK
  <1>1. /\ call' = [call EXCEPT ![w] = c]
        /\ nextPrimary' = IF Prefix <= 1 THEN nextPrimary ELSE (nextPrimary + 1) % Prefix
        /\ UNCHANGED <<now, fails, skipUntil>>
    BY DEF StartCall
  <1>2. first \in Nat /\ nextPrimary' \in Nat
    <2>1. CASE Prefix <= 1
      BY <1>t, <1>1, <2>1
    <2>2. CASE ~(Prefix <= 1)
      <3>1. Prefix \in Nat \ {0}
        BY <2>2, Durations
      <3>2. \A n \in Nat : n % Prefix \in Nat
        BY <3>1
      <3> QED BY <1>t, <1>1, <2>2, <3>2
    <2> QED BY <2>1, <2>2
  <1>3. /\ c \in Call /\ c.step = "pick" /\ c.tries = 0 /\ c.pos = 1
    BY <1>2, Durations DEF Fresh, Call
  <1>4. /\ fails \in [Endpoint -> 0..FailThreshold] /\ skipUntil \in [Endpoint -> Nat]
        /\ \A x \in Endpoint : skipUntil[x] > 0 => fails[x] = FailThreshold
    BY DEF PoolInv, PoolTypeOK, WindowIsEarned
  <1>5. /\ call' = [call EXCEPT ![w] = c] /\ now' = now
        /\ fails' = fails /\ skipUntil' = skipUntil /\ nextPrimary' \in Nat
    BY <1>1, <1>2
  <1> HIDE DEF c
  <1>6. c.tries < c.pos /\ (c.write => c.tries = 0)
    BY <1>3
  <1>7. c.step # "attempt" /\ c.step # "none"
    BY <1>3
  <1>8. /\ fails' \in [Endpoint -> 0..FailThreshold] /\ skipUntil' \in [Endpoint -> Nat]
        /\ \A x \in Endpoint : skipUntil'[x] > 0 => fails'[x] = FailThreshold
        /\ \A x \in Endpoint : skipUntil'[x] \in {0, skipUntil[x]}
    BY <1>4, <1>5
  <1> QED BY <1>3, <1>5, <1>6, <1>7, <1>8, CallMoves

LEMMA RouteKeeps ==
  ASSUME PoolInv, NEW w \in Worker, Skip(w) \/ FailOver(w)
  PROVE  PoolInv'
  <1>t. /\ call \in [Worker -> Call] /\ call[w] \in Call /\ nextPrimary \in Nat
        /\ call[w].pos \in 1..(Endpoints + 1) /\ call[w].tries \in Nat
        /\ fails \in [Endpoint -> 0..FailThreshold] /\ skipUntil \in [Endpoint -> Nat]
        /\ \A x \in Endpoint : skipUntil[x] > 0 => fails[x] = FailThreshold
    BY PoolTypes DEF PoolInv, WindowIsEarned
  <1>1. CASE Skip(w)
    <2> DEFINE c == [call[w] EXCEPT !.pos = @ + 1]
    <2>1. call' = [call EXCEPT ![w] = c] /\ UNCHANGED <<now, fails, skipUntil, nextPrimary>>
      BY <1>1 DEF Skip
    <2>2. call[w].step = "pick" /\ call[w].pos <= Endpoints
      BY <1>1 DEF Skip, Picking
    <2>3. c \in Call /\ c.step = "pick" /\ c.pos = call[w].pos + 1
          /\ c.tries = call[w].tries /\ c.write = call[w].write
      BY <1>t, <2>2, Durations DEF Call
    <2>4. c.tries < c.pos /\ (c.write => c.tries = 0)
      BY <1>t, <2>2, <2>3 DEF PoolInv, CallInv
    <2> HIDE DEF c
    <2> QED BY <1>t, <2>1, <2>3, <2>4, CallMoves
  <1>2. CASE FailOver(w)
    <2> DEFINE c == [call[w] EXCEPT !.step = "pick", !.pos = @ + 1, !.since = 0]
    <2>1. /\ call' = [call EXCEPT ![w] = c] /\ UNCHANGED <<now, nextPrimary>>
          /\ RecordFailure(Target(w)) /\ call[w].step = "attempt" /\ ~call[w].write
      BY <1>t, <1>2 DEF FailOver
    <2>2. Target(w) \in Endpoint
      BY <2>1, PoolTypes
    <2>3. /\ call[w].pos <= Endpoints /\ call[w].tries <= call[w].pos
      BY <2>1 DEF PoolInv, CallInv
    <2>4. c \in Call /\ c.step = "pick" /\ c.pos = call[w].pos + 1
          /\ c.tries = call[w].tries /\ c.write = call[w].write
      <3>1. call[w].pos + 1 \in 1..(Endpoints + 1) /\ 0 \in Nat
        BY <1>t, <2>3, Durations
      <3>2. /\ c.step = "pick" /\ c.pos = call[w].pos + 1
            /\ c.tries = call[w].tries /\ c.write = call[w].write
        BY <1>t DEF Call
      <3>3. c \in Call
        BY <1>t, <3>1 DEF Call
      <3> QED BY <3>2, <3>3
    <2>5. c.tries < c.pos /\ ~c.write
      BY <1>t, <2>1, <2>3, <2>4
    <2> HIDE DEF c
    <2> QED BY <1>t, <2>1, <2>2, <2>4, <2>5, FailureRecorded, CallMoves
  <1> QED BY <1>1, <1>2

LEMMA EndKeeps ==
  ASSUME PoolInv, NEW w \in Worker, Succeed(w) \/ GiveUp(w) \/ Exhaust(w)
  PROVE  PoolInv'
  <1>t. /\ nextPrimary \in Nat
        /\ fails \in [Endpoint -> 0..FailThreshold] /\ skipUntil \in [Endpoint -> Nat]
        /\ \A x \in Endpoint : skipUntil[x] > 0 => fails[x] = FailThreshold
    BY PoolTypes DEF PoolInv, WindowIsEarned
  <1>1. /\ call' = [call EXCEPT ![w] = NoCall] /\ now' = now /\ nextPrimary' = nextPrimary
        /\ NoCall.step = "none" /\ NoCall.tries = 0
    BY DEF Succeed, GiveUp, Exhaust, EndCall, NoCall, Fresh
  <1>2. CASE Succeed(w)
    <2>1. Target(w) \in Endpoint /\ RecordSuccess(Target(w))
      BY <1>2, PoolTypes DEF Succeed
    <2> QED BY <1>t, <1>1, <2>1, NoCallOK, SuccessRecorded, CallMoves
  <1>3. CASE GiveUp(w)
    <2>1. Target(w) \in Endpoint /\ RecordFailure(Target(w))
      BY <1>3, PoolTypes DEF GiveUp
    <2> QED BY <1>t, <1>1, <2>1, NoCallOK, FailureRecorded, CallMoves
  <1>4. CASE Exhaust(w)
    <2>1. UNCHANGED <<fails, skipUntil>>
      BY <1>4 DEF Exhaust
    <2> QED BY <1>t, <1>1, <2>1, NoCallOK, CallMoves
  <1> QED BY <1>2, <1>3, <1>4

\* The breaker was closed when the request went out, so the window it may
\* still show is over.
LEMMA AttemptKeeps ==
  ASSUME PoolInv, NEW w \in Worker, Attempt(w)
  PROVE  PoolInv'
  <1> DEFINE c == [call[w] EXCEPT !.step = "attempt", !.since = now, !.tries = @ + 1]
  <1>t. /\ call \in [Worker -> Call] /\ call[w] \in Call /\ now \in Nat
        /\ call[w].pos \in 1..(Endpoints + 1) /\ call[w].tries \in Nat
    BY PoolTypes
  <1>1. /\ call' = [call EXCEPT ![w] = c]
        /\ UNCHANGED <<now, fails, skipUntil, nextPrimary>>
        /\ call[w].step = "pick" /\ call[w].pos <= Endpoints
        /\ ~CircuitOpen(Target(w))
    BY <1>t DEF Attempt, Picking
  <1>2. /\ c \in Call /\ c.step = "attempt" /\ c.since = now
        /\ c.tries = call[w].tries + 1 /\ c.pos = call[w].pos
        /\ c.start = call[w].start /\ c.write = call[w].write
    <2>1. call[w].tries + 1 \in Nat /\ now \in Nat
      BY <1>t
    <2>2. /\ c.step = "attempt" /\ c.since = now
          /\ c.tries = call[w].tries + 1 /\ c.pos = call[w].pos
          /\ c.start = call[w].start /\ c.write = call[w].write
      BY <1>t DEF Call
    <2>3. c \in Call
      BY <1>t, <2>1 DEF Call
    <2> QED BY <2>2, <2>3
  <1>3. call[w].tries < call[w].pos /\ (call[w].write => call[w].tries = 0)
    BY <1>1 DEF PoolInv, CallInv
  <1> HIDE DEF c
  <1>4. call'[w] = c /\ \A v \in Worker : v # w => call'[v] = call[v]
    BY <1>t, <1>1
  <1>5. PoolTypeOK' /\ WindowIsEarned'
    BY <1>t, <1>1, <1>2 DEF PoolInv, PoolTypeOK, WindowIsEarned
  <1>6. CallInv'
    <2> SUFFICES ASSUME NEW v \in Worker
                 PROVE  /\ call'[v].step = "none" => call'[v].tries = 0
                        /\ call'[v].step = "pick" =>
                              /\ call'[v].tries < call'[v].pos
                              /\ call'[v].write => call'[v].tries = 0
                        /\ call'[v].step = "attempt" =>
                              /\ call'[v].pos <= Endpoints /\ call'[v].tries <= call'[v].pos
                              /\ call'[v].write => call'[v].tries <= 1
                              /\ call'[v].since <= now'
                              /\ now' <= call'[v].since + AttemptBudget
      BY DEF CallInv
    <2>1. CASE v = w
      BY <1>t, <1>1, <1>2, <1>3, <1>4, <2>1, Durations
    <2>2. CASE v # w
      BY <1>1, <1>4, <2>2 DEF PoolInv, CallInv
    <2> QED BY <2>1, <2>2
  <1>7. WindowShelters'
    <2> SUFFICES ASSUME NEW v \in Worker, call'[v].step = "attempt",
                        skipUntil'[Target(v)'] > 0
                 PROVE  \/ call'[v].since + OpenDuration <= skipUntil'[Target(v)']
                        \/ call'[v].since >= skipUntil'[Target(v)']
      BY DEF WindowShelters
    <2>1. CASE v = w
      <3>1. Target(w)' = Target(w)
        BY <1>2, <1>4 DEF Target
      <3>2. Target(w) \in Endpoint /\ skipUntil \in [Endpoint -> Nat]
        BY <1>1, PoolTypes
      <3>3. ~(skipUntil[Target(w)] > now)
        BY <1>1 DEF CircuitOpen
      <3> QED BY <1>t, <1>1, <1>2, <1>4, <2>1, <3>1, <3>2, <3>3
    <2>2. CASE v # w
      <3>1. call'[v] = call[v] /\ Target(v)' = Target(v)
        BY <1>4, <2>2 DEF Target
      <3> QED BY <1>1, <3>1 DEF PoolInv, WindowShelters
    <2> QED BY <2>1, <2>2
  <1> QED BY <1>5, <1>6, <1>7 DEF PoolInv

LEMMA PoolStepKeeps == PoolInv /\ [PoolNext]_poolVars => PoolInv'
  <1> SUFFICES ASSUME PoolInv, [PoolNext]_poolVars PROVE PoolInv'
    OBVIOUS
  <1>1. CASE UNCHANGED poolVars
    BY <1>1 DEF poolVars, PoolInv, PoolTypeOK, CallInv, WindowIsEarned, WindowShelters,
       Target
  <1>2. CASE PoolTick
    <2>1. /\ now \in Nat /\ now' = now + 1
          /\ UNCHANGED <<fails, skipUntil, nextPrimary, call>>
      BY <1>2 DEF PoolTick, Advance, PoolInv, PoolTypeOK
    <2>2. PoolTypeOK' /\ WindowIsEarned' /\ WindowShelters'
      BY <2>1 DEF PoolInv, PoolTypeOK, WindowIsEarned, WindowShelters, Target
    <2>3. CallInv'
      <3> SUFFICES ASSUME NEW w \in Worker, call[w].step = "attempt"
                   PROVE  call[w].since <= now' /\ now' <= call[w].since + AttemptBudget
        BY <2>1 DEF PoolInv, CallInv
      <3>1. now < call[w].since + AttemptBudget
        BY <1>2 DEF PoolTick
      <3>2. call[w].since \in Nat /\ call[w].since <= now
        BY PoolTypes DEF PoolInv, CallInv
      <3> QED BY <2>1, <3>1, <3>2, Durations
    <2> QED BY <2>2, <2>3 DEF PoolInv
  <1>3. ASSUME NEW w \in Worker, PoolStep(w) PROVE PoolInv'
    BY <1>3, RouteKeeps, EndKeeps, AttemptKeeps DEF PoolStep
  <1>4. ASSUME NEW w \in Worker, NEW write \in BOOLEAN, StartCall(w, write) PROVE PoolInv'
    BY <1>4, StartKeeps
  <1> QED BY <1>1, <1>2, <1>3, <1>4 DEF PoolNext

\* The pool of endpoints always satisfies its invariant: what a call has tried, which
\* breakers it knows open, and how its failures count (pool.go:211-511).
THEOREM PoolInvariant == PoolSpec => []PoolInv
  BY PoolInitial, PoolStepKeeps, PTL DEF PoolSpec

\* A skipped endpoint has earned its window by failures in a row.
THEOREM WindowsAreEarned == PoolSpec => []WindowIsEarned
  BY PoolInvariant, PTL DEF PoolInv

\* No request goes out to an endpoint inside its window.
THEOREM WindowsShelter == PoolSpec => []WindowShelters
  BY PoolInvariant, PTL DEF PoolInv

\* A write is one request at most, whatever the endpoints answer.
THEOREM WritesAreSingle == PoolSpec => []AttemptBound
  <1>1. PoolInv => AttemptBound
    <2> SUFFICES ASSUME PoolInv, NEW w \in Worker
                 PROVE  call[w].tries <= Endpoints /\ (call[w].write => call[w].tries <= 1)
      BY DEF AttemptBound
    <2>1. /\ call[w].tries \in Nat /\ call[w].pos \in 1..(Endpoints + 1)
          /\ call[w].step \in {"none", "pick", "attempt"}
      BY PoolTypes DEF Call
    <2> QED BY <2>1, Durations DEF PoolInv, CallInv
  <1> QED BY <1>1, PoolInvariant, PTL
-----------------------------------------------------------------------------
(* The read cache over both.                                               *)

\* Whatever a handler does, the breaker of Redis takes a step of its own
\* module or none, and so does the pool.
LEMMA ReadIsRedisStep == [ReadNext]_readVars => [RedisNext]_redisVars
  <1> SUFFICES ASSUME [ReadNext]_readVars PROVE [RedisNext]_redisVars
    OBVIOUS
  <1>1. CASE UNCHANGED readVars
    BY <1>1 DEF readVars, redisVars
  <1>2. CASE Tick
    BY <1>2 DEF Tick, RedisNext
  <1>3. ASSUME NEW w \in Worker, BeginGet(w) \/ BeginSet(w) PROVE [RedisNext]_redisVars
    BY <1>3 DEF BeginGet, BeginSet, RedisNext
  <1>4. ASSUME NEW w \in Worker, FinishGet(w) \/ LoseGet(w) \/ FinishSet(w)
        PROVE  [RedisNext]_redisVars
    <2>1. \E err \in Errors : FinishOperation(w, err)
      BY <1>4 DEF FinishGet, LoseGet, FinishSet, Errors
    <2> QED BY <2>1 DEF RedisNext
  <1>5. ASSUME NEW w \in Worker, Lookup(w) \/ RedisServes(w) \/ SetLocal(w)
        PROVE  UNCHANGED redisVars
    BY <1>5 DEF Lookup, RedisServes, SetLocal, NoRedis, redisVars
  <1>6. ASSUME NEW w \in Worker,
               Broadcast(w) \/ Fetch(w) \/ Route(w) \/ Fetched(w) \/ NoBalance(w)
        PROVE  UNCHANGED redisVars
    BY <1>6 DEF Broadcast, Fetch, Route, Fetched, NoBalance, NoRedis, redisVars,
       StartCall, Skip, Attempt, FailOver, Succeed, GiveUp, Exhaust
  <1> QED BY <1>1, <1>2, <1>3, <1>4, <1>5, <1>6 DEF ReadNext, Serve

LEMMA ReadIsPoolStep == [ReadNext]_readVars => [PoolNext]_poolVars
  <1> SUFFICES ASSUME [ReadNext]_readVars PROVE [PoolNext]_poolVars
    OBVIOUS
  <1>1. CASE UNCHANGED readVars
    BY <1>1 DEF readVars, redisVars, poolVars
  <1>2. CASE Tick
    BY <1>2 DEF Tick, PoolNext
  <1>3. ASSUME NEW w \in Worker, Broadcast(w) \/ Fetch(w) PROVE [PoolNext]_poolVars
    <2>1. \E write \in BOOLEAN : StartCall(w, write)
      BY <1>3 DEF Broadcast, Fetch
    <2> QED BY <2>1 DEF PoolNext
  <1>4. ASSUME NEW w \in Worker, Route(w) \/ Fetched(w) \/ NoBalance(w)
        PROVE  [PoolNext]_poolVars
    <2>1. PoolStep(w)
      BY <1>4 DEF Route, Fetched, NoBalance, PoolStep
    <2> QED BY <2>1 DEF PoolNext
  <1>5. ASSUME NEW w \in Worker,
               \/ Lookup(w) \/ BeginGet(w) \/ RedisServes(w) \/ FinishGet(w)
               \/ LoseGet(w) \/ SetLocal(w) \/ BeginSet(w) \/ FinishSet(w)
        PROVE  UNCHANGED poolVars
    BY <1>5 DEF Lookup, BeginGet, RedisServes, FinishGet, LoseGet, SetLocal, BeginSet,
       FinishSet, NoPool, poolVars, redisVars, BeginOperation, FinishOperation
  <1> QED BY <1>1, <1>2, <1>3, <1>4, <1>5 DEF ReadNext, Serve

\* The composition uses the breaker of Redis and the pool as their modules say.
THEOREM ReadImplementsRedis == ReadSpec => RedisSpec
  <1>1. ReadInit => now = 0 /\ RedisInit
    BY DEF ReadInit
  <1> QED BY <1>1, ReadIsRedisStep, PTL DEF ReadSpec, RedisSpec

\* Whatever the cache, the store and the callers do, the pool underneath a read takes
\* none but its own steps (pool.go:211-511).
THEOREM ReadImplementsPool == ReadSpec => PoolSpec
  <1>1. ReadInit => now = 0 /\ PoolInit
    BY DEF ReadInit
  <1> QED BY <1>1, ReadIsPoolStep, PTL DEF ReadSpec, PoolSpec

CacheTypes ==
    /\ local \in Record
    /\ pc \in [Worker -> Steps]
    /\ held \in [Worker -> Record]

\* A record expires within a TTL and an attempt of the answer it carries.
Bounded(r) == r.expires <= r.stamp + AttemptBudget + TTL

\* That holds of the local entry, of what Redis serves, and of what a handler
\* is about to keep, whose attempt has just ended.
Ages ==
    /\ Bounded(local)
    /\ \A w \in Worker :
         /\ pc[w] = "got" => Bounded(held[w])
         /\ pc[w] = "set" => held[w].stamp <= now /\ now <= held[w].stamp + AttemptBudget

CacheInv == CacheTypes /\ Ages

LEMMA MissingOK == Missing \in Record /\ Bounded(Missing)
  BY Durations DEF Missing, Record, Bounded

LEMMA CacheInitial == ReadInit => CacheInv
  BY MissingOK DEF ReadInit, CacheInv, CacheTypes, Ages, Steps

\* A handler that moves to a step where it holds nothing to keep.
LEMMA HandlerMoves ==
  ASSUME CacheInv, NEW w \in Worker, NEW s \in Steps \ {"got", "set"},
         Goto(w, s), now' = now, local' \in Record, Bounded(local)',
         held' \in [Worker -> Record], \A v \in Worker : v # w => held'[v] = held[v]
  PROVE  CacheInv'
  <1>1. pc' \in [Worker -> Steps] /\ pc'[w] = s /\ \A v \in Worker : v # w => pc'[v] = pc[v]
    BY DEF CacheInv, CacheTypes, Goto
  <1>2. CacheTypes'
    BY <1>1 DEF CacheTypes
  <1>3. ASSUME NEW v \in Worker
        PROVE  /\ pc'[v] = "got" => Bounded(held[v])'
               /\ pc'[v] = "set" => held'[v].stamp <= now' /\ now' <= held'[v].stamp + AttemptBudget
    BY <1>1 DEF CacheInv, Ages, Bounded
  <1> QED BY <1>2, <1>3 DEF CacheInv, Ages

LEMMA CacheStep == CacheInv /\ PoolInv /\ [ReadNext]_readVars => CacheInv'
  <1> SUFFICES ASSUME CacheInv, PoolInv, [ReadNext]_readVars PROVE CacheInv'
    OBVIOUS
  <1>t. /\ now \in Nat /\ local \in Record /\ held \in [Worker -> Record]
        /\ pc \in [Worker -> Steps] /\ Bounded(local)
    BY DEF CacheInv, CacheTypes, Ages, PoolInv, PoolTypeOK
  <1>d. ASSUME NEW w \in Worker, Drop(w)
        PROVE  held' \in [Worker -> Record] /\ \A v \in Worker : v # w => held'[v] = held[v]
    BY <1>t, <1>d, MissingOK DEF Drop
  <1>u. local' = local => local' \in Record /\ Bounded(local)'
    BY <1>t DEF Bounded
  <1>1. CASE UNCHANGED readVars
    BY <1>1 DEF readVars, redisVars, cacheVars, CacheInv, CacheTypes, Ages, Bounded
  <1>2. CASE Tick
    <2>1. UNCHANGED <<local, pc, held>> /\ \A w \in Worker : pc[w] # "set"
      BY <1>2 DEF Tick, cacheVars
    <2> QED BY <2>1 DEF CacheInv, CacheTypes, Ages, Bounded
  <1>3. ASSUME NEW w \in Worker, Lookup(w) PROVE CacheInv'
    <2>1. local' \in Record /\ Bounded(local)'
      BY <1>3, MissingOK DEF Lookup, Bounded
    <2> QED BY <1>3, <1>t, <2>1, HandlerMoves DEF Lookup, Steps
  <1>4. ASSUME NEW w \in Worker, BeginGet(w) \/ BeginSet(w) PROVE CacheInv'
    <2>1. /\ UNCHANGED <<now, local, held>>
          /\ \E s \in {"getting", "fetch", "setting", "idle"} : Goto(w, s)
      BY <1>4 DEF BeginGet, BeginSet, BeginOperation, redisVars
    <2> QED BY <1>t, <1>u, <2>1, HandlerMoves DEF Steps
  <1>5. ASSUME NEW w \in Worker, RedisServes(w) PROVE CacheInv'
    <2>1. PICK r \in Written \cup {Missing} : held' = [held EXCEPT ![w] = r]
      BY <1>5 DEF RedisServes
    <2>2. r \in Record /\ Bounded(r)
      BY <1>t, <2>1, MissingOK, Durations DEF Written, Record, Bounded
    <2>3. /\ pc' = [pc EXCEPT ![w] = "got"] /\ UNCHANGED <<now, local>>
      BY <1>5 DEF RedisServes, Goto
    <2>4. CacheTypes'
      BY <1>t, <2>1, <2>2, <2>3 DEF CacheTypes, Steps
    <2>5. Ages'
      BY <1>t, <2>1, <2>2, <2>3 DEF CacheInv, Ages, Bounded
    <2> QED BY <2>4, <2>5 DEF CacheInv
  <1>6. ASSUME NEW w \in Worker, FinishGet(w) PROVE CacheInv'
    <2>1. Drop(w) /\ now' = now /\ pc[w] = "got"
      BY <1>6 DEF FinishGet, FinishOperation
    <2>2. local' \in {local, held[w]} /\ (Goto(w, "idle") \/ Goto(w, "fetch"))
      BY <1>6 DEF FinishGet, Keep
    <2>3. held[w] \in Record /\ Bounded(held[w])
      BY <1>t, <2>1 DEF CacheInv, Ages
    <2>4. local' \in Record /\ Bounded(local)'
      BY <1>t, <2>2, <2>3 DEF Bounded
    <2> QED BY <1>d, <2>1, <2>2, <2>4, HandlerMoves DEF Steps
  <1>7. ASSUME NEW w \in Worker, LoseGet(w) PROVE CacheInv'
    <2>1. Drop(w) /\ now' = now /\ local' = local /\ Goto(w, "fetch")
      BY <1>7 DEF LoseGet, FinishOperation
    <2> QED BY <1>d, <1>u, <2>1, HandlerMoves DEF Steps
  <1>8. ASSUME NEW w \in Worker, Fetch(w) \/ Broadcast(w) PROVE CacheInv'
    <2>1. /\ UNCHANGED <<now, local, held>>
          /\ \E s \in {"fetching", "writing"} : Goto(w, s)
      BY <1>8 DEF Fetch, Broadcast, StartCall
    <2> QED BY <1>t, <1>u, <2>1, HandlerMoves DEF Steps
  <1>9. ASSUME NEW w \in Worker, Route(w) PROVE CacheInv'
    <2>1. UNCHANGED <<now, local, pc, held>>
      BY <1>9 DEF Route, Skip, Attempt, FailOver, cacheVars
    <2> QED BY <2>1 DEF CacheInv, CacheTypes, Ages, Bounded
  <1>10. ASSUME NEW w \in Worker, Fetched(w) PROVE CacheInv'
    <2>1. /\ held' = [held EXCEPT ![w] = [stamp |-> call[w].since, expires |-> 0]]
          /\ pc' = [pc EXCEPT ![w] = "set"] /\ UNCHANGED <<now, local>>
          /\ call[w].step = "attempt"
      BY <1>10 DEF Fetched, Succeed, Goto
    <2>2. /\ call[w].since \in Nat /\ call[w].since <= now
          /\ now <= call[w].since + AttemptBudget
      BY <2>1, PoolTypes DEF PoolInv, CallInv
    <2>3. CacheTypes'
      BY <1>t, <2>1, <2>2 DEF CacheTypes, Steps, Record
    <2>4. Ages'
      BY <1>t, <2>1, <2>2 DEF CacheInv, Ages, Bounded
    <2> QED BY <2>3, <2>4 DEF CacheInv
  <1>11. ASSUME NEW w \in Worker, NoBalance(w) PROVE CacheInv'
    <2>1. UNCHANGED <<now, local, held>> /\ Goto(w, "idle")
      BY <1>11 DEF NoBalance, Succeed, GiveUp, Exhaust
    <2> QED BY <1>t, <1>u, <2>1, HandlerMoves DEF Steps
  <1>12. ASSUME NEW w \in Worker, SetLocal(w) PROVE CacheInv'
    <2>1. /\ local' = [stamp |-> held[w].stamp, expires |-> now + TTL]
          /\ Drop(w) /\ now' = now /\ Goto(w, "store") /\ pc[w] = "set"
      BY <1>12 DEF SetLocal
    <2>2. /\ held[w].stamp \in Nat
          /\ held[w].stamp <= now /\ now <= held[w].stamp + AttemptBudget
      BY <1>t, <2>1 DEF CacheInv, Ages, Record
    <2>3. local' \in Record /\ Bounded(local)'
      BY <1>t, <2>1, <2>2, Durations DEF Record, Bounded
    <2> QED BY <1>d, <2>1, <2>3, HandlerMoves DEF Steps
  <1>13. ASSUME NEW w \in Worker, FinishSet(w) PROVE CacheInv'
    <2>1. UNCHANGED <<now, local, held>> /\ Goto(w, "idle")
      BY <1>13 DEF FinishSet, FinishOperation
    <2> QED BY <1>t, <1>u, <2>1, HandlerMoves DEF Steps
  <1> QED BY <1>1, <1>2, <1>3, <1>4, <1>5, <1>6, <1>7, <1>8, <1>9, <1>10, <1>11, <1>12,
             <1>13 DEF ReadNext, Serve

\* What a lookup answers is no older than the TTL and one attempt, whatever
\* Redis, the other processes and the endpoints do.
THEOREM AnswersStayFresh == ReadSpec => []AnswersAreFresh
  <1>1. CacheInv /\ PoolInv => AnswersAreFresh
    <2> SUFFICES ASSUME CacheInv, PoolInv, Hit PROVE now <= local.stamp + TTL + AttemptBudget
      BY DEF AnswersAreFresh
    <2>1. now \in Nat /\ local.stamp \in Nat /\ local.expires \in Nat
      BY DEF CacheInv, CacheTypes, Record, PoolInv, PoolTypeOK
    <2>2. now <= local.expires /\ local.expires <= local.stamp + AttemptBudget + TTL
      BY DEF Hit, CacheInv, Ages, Bounded
    <2> QED BY <2>1, <2>2, Durations
  <1>2. ReadSpec => []PoolInv
    BY ReadImplementsPool, PoolInvariant, PTL
  <1>3. ReadSpec => []CacheInv
    BY <1>2, CacheInitial, CacheStep, PTL DEF ReadSpec
  <1> QED BY <1>1, <1>2, <1>3, PTL

\* No operation of one part disturbs the other: in the composition too a probe
\* of Redis runs alone and a write is one request at most.
THEOREM ReadKeepsParts ==
  ReadSpec => [](ProbeRunsAlone /\ ProbeSlot /\ WindowIsEarned /\ WindowShelters /\ AttemptBound)
  BY ReadImplementsRedis, ReadImplementsPool, ProbeIsAlone, SlotIsOwned,
     WindowsAreEarned, WindowsShelter, WritesAreSingle, PTL
-----------------------------------------------------------------------------
(* Type correctness of the whole: a handler waits for Redis, or for the     *)
(* pool, exactly where it has asked.                                        *)

Asking == \A w \in Worker :
    /\ op[w].on <=> pc[w] \in {"getting", "got", "setting"}
    /\ call[w].step # "none" <=> pc[w] \in {"fetching", "writing"}

Shapes == /\ pc \in [Worker -> Steps]
          /\ op \in [Worker -> Op]
          /\ call \in [Worker -> Call]

LEMMA AskingInitial == ReadInit => Asking
  <1> SUFFICES ASSUME ReadInit, NEW w \in Worker
               PROVE  /\ op[w].on <=> pc[w] \in {"getting", "got", "setting"}
                      /\ call[w].step # "none" <=> pc[w] \in {"fetching", "writing"}
    BY DEF Asking
  <1>1. pc[w] = "idle" /\ op[w] = NoOp /\ call[w] = NoCall
    BY DEF ReadInit, RedisInit, PoolInit
  <1>2. ~NoOp.on
    BY DEF NoOp
  <1>3. NoCall.step = "none"
    BY DEF NoCall, Fresh
  <1>4. ~op[w].on
    BY <1>1, <1>2
  <1>5. call[w].step = "none" /\ pc[w] \notin {"getting", "got", "setting", "fetching", "writing"}
    BY <1>1, <1>3
  <1> QED BY <1>4, <1>5

\* A step that touches one handler, told by how it leaves that handler.
LEMMA AskingAt ==
  ASSUME Asking, NEW w \in Worker,
         \A v \in Worker \ {w} : pc'[v] = pc[v] /\ op'[v] = op[v] /\ call'[v] = call[v],
         op'[w].on <=> pc'[w] \in {"getting", "got", "setting"},
         call'[w].step # "none" <=> pc'[w] \in {"fetching", "writing"}
  PROVE  Asking'
  <1> SUFFICES ASSUME NEW v \in Worker
               PROVE  /\ op'[v].on <=> pc'[v] \in {"getting", "got", "setting"}
                      /\ call'[v].step # "none" <=> pc'[v] \in {"fetching", "writing"}
    BY DEF Asking
  <1>1. CASE v = w
    BY <1>1
  <1>2. CASE v # w
    BY <1>2 DEF Asking
  <1> QED BY <1>1, <1>2

\* A step of one handler, told by what it does to that handler alone.
LEMMA AskingMoves ==
  ASSUME Shapes, Asking, NEW w \in Worker, NEW s \in Steps,
         pc' = [pc EXCEPT ![w] = s],
         \/ op' = op
         \/ \E o \in Op : op' = [op EXCEPT ![w] = o] /\ (o.on <=> s \in {"getting", "got", "setting"}),
         \/ call' = call
         \/ \E c \in Call : call' = [call EXCEPT ![w] = c]
                           /\ (c.step # "none" <=> s \in {"fetching", "writing"}),
         op' = op => (pc[w] \in {"getting", "got", "setting"} <=> s \in {"getting", "got", "setting"}),
         call' = call => (pc[w] \in {"fetching", "writing"} <=> s \in {"fetching", "writing"})
  PROVE  Asking'
  <1>1. \A v \in Worker : pc'[v] = IF v = w THEN s ELSE pc[v]
    BY DEF Shapes
  <1>2. \A v \in Worker : op'[v].on <=> pc'[v] \in {"getting", "got", "setting"}
    <2>1. CASE op' = op
      BY <2>1, <1>1 DEF Asking
    <2>2. CASE \E o \in Op : op' = [op EXCEPT ![w] = o] /\ (o.on <=> s \in {"getting", "got", "setting"})
      <3>1. PICK o \in Op : op' = [op EXCEPT ![w] = o] /\ (o.on <=> s \in {"getting", "got", "setting"})
        BY <2>2
      <3>2. \A v \in Worker : op'[v] = IF v = w THEN o ELSE op[v]
        BY <3>1 DEF Shapes
      <3> QED BY <3>1, <3>2, <1>1 DEF Asking
    <2> QED BY <2>1, <2>2
  <1>3. \A v \in Worker : call'[v].step # "none" <=> pc'[v] \in {"fetching", "writing"}
    <2>1. CASE call' = call
      BY <2>1, <1>1 DEF Asking
    <2>2. CASE \E c \in Call : call' = [call EXCEPT ![w] = c]
                             /\ (c.step # "none" <=> s \in {"fetching", "writing"})
      <3>1. PICK c \in Call : call' = [call EXCEPT ![w] = c]
                             /\ (c.step # "none" <=> s \in {"fetching", "writing"})
        BY <2>2
      <3>2. \A v \in Worker : call'[v] = IF v = w THEN c ELSE call[v]
        BY <3>1 DEF Shapes
      <3> QED BY <3>1, <3>2, <1>1 DEF Asking
    <2> QED BY <2>1, <2>2
  <1> QED BY <1>2, <1>3 DEF Asking

\* What an operation of Redis, or the end of a call, leaves.
LEMMA Marks ==
  /\ NoOp \in Op /\ ~NoOp.on
  /\ NoCall \in Call /\ NoCall.step = "none"
  /\ \A p \in BOOLEAN, n \in Nat :
        [on |-> TRUE, probe |-> p, began |-> n] \in Op
  /\ \A b \in BOOLEAN, n \in Nat : Fresh("pick", b, n) \in Call
  BY NoCallOK, Durations DEF NoOp, Op, NoCall, Fresh, Call

LEMMA AskingStep ==
  ASSUME Shapes, now \in Nat, openUntil \in Nat, nextPrimary \in Nat, Asking,
         [ReadNext]_readVars
  PROVE  Asking'
  <1>1. CASE UNCHANGED readVars
    BY <1>1 DEF readVars, redisVars, cacheVars, Asking
  <1>2. CASE Tick
    BY <1>2 DEF Tick, RedisTick, PoolTick, cacheVars, Asking
  <1>3. ASSUME NEW w \in Worker, Lookup(w) PROVE Asking'
    BY <1>3, AskingMoves DEF Lookup, Goto, NoRedis, NoPool, Steps
  <1>4. ASSUME NEW w \in Worker, BeginGet(w) \/ BeginSet(w) PROVE Asking'
    <2>1. ASSUME BeginOperation(w), NEW s \in {"getting", "setting"}, Goto(w, s), NoPool,
                 pc[w] \in {"missed", "store"}
          PROVE  Asking'
      <3>1. (openUntil # 0) \in BOOLEAN
        OBVIOUS
      <3>2. PICK o \in Op : op' = [op EXCEPT ![w] = o] /\ o.on
        BY <2>1, <3>1, Marks DEF BeginOperation
      <3>3. \A v \in Worker \ {w} : pc'[v] = pc[v] /\ op'[v] = op[v] /\ call'[v] = call[v]
        BY <2>1, <3>2 DEF Shapes, Goto, NoPool
      <3>4. pc'[w] = s /\ op'[w] = o /\ call'[w] = call[w]
        BY <2>1, <3>2 DEF Shapes, Goto, NoPool
      <3>5. op'[w].on /\ pc'[w] \in {"getting", "got", "setting"}
        BY <3>2, <3>4
      <3>6. call'[w].step = "none" /\ pc'[w] \notin {"fetching", "writing"}
        BY <2>1, <3>4 DEF Asking
      <3> QED BY <3>3, <3>5, <3>6, AskingAt
    <2>2. ASSUME UNCHANGED redisVars, NEW s \in {"fetch", "idle"}, Goto(w, s), NoPool,
                 pc[w] \in {"missed", "store"}
          PROVE  Asking'
      BY <2>2, AskingMoves DEF Goto, NoPool, Steps, redisVars
    <2> QED BY <1>4, <2>1, <2>2 DEF BeginGet, BeginSet
  <1>5. ASSUME NEW w \in Worker, RedisServes(w) PROVE Asking'
    BY <1>5, AskingMoves DEF RedisServes, Goto, NoRedis, NoPool, Steps
  <1>6. ASSUME NEW w \in Worker, FinishGet(w) \/ LoseGet(w) \/ FinishSet(w) PROVE Asking'
    <2>1. /\ op' = [op EXCEPT ![w] = NoOp] /\ call' = call
          /\ pc[w] \in {"getting", "got", "setting"}
      BY <1>6 DEF FinishGet, LoseGet, FinishSet, FinishOperation, NoPool
    <2>2. PICK s \in {"idle", "fetch"} : pc' = [pc EXCEPT ![w] = s]
      BY <1>6 DEF FinishGet, LoseGet, FinishSet, Goto
    <2>3. \A v \in Worker \ {w} : pc'[v] = pc[v] /\ op'[v] = op[v] /\ call'[v] = call[v]
      BY <2>1, <2>2 DEF Shapes
    <2>4. pc'[w] = s /\ op'[w] = NoOp /\ call'[w] = call[w]
      BY <2>1, <2>2 DEF Shapes
    <2>5. ~op'[w].on /\ pc'[w] \notin {"getting", "got", "setting"}
      BY <2>4, Marks
    <2>6. call'[w].step = "none" /\ pc'[w] \notin {"fetching", "writing"}
      BY <2>1, <2>4 DEF Asking
    <2> QED BY <2>3, <2>5, <2>6, AskingAt
  <1>7. ASSUME NEW w \in Worker, Fetch(w) \/ Broadcast(w) PROVE Asking'
    <2>1. PICK s \in {"fetching", "writing"} : pc' = [pc EXCEPT ![w] = s]
      BY <1>7 DEF Fetch, Broadcast, Goto
    <2>2. pc[w] \in {"fetch", "idle"} /\ op' = op
      BY <1>7 DEF Fetch, Broadcast, NoRedis
    <2>3. PICK c \in Call : call' = [call EXCEPT ![w] = c] /\ c.step # "none"
      <3>1. PICK b \in BOOLEAN : StartCall(w, b)
        BY <1>7 DEF Fetch, Broadcast
      <3>2. (IF Prefix <= 1 THEN 0 ELSE nextPrimary % Prefix) \in Nat
        BY Durations
      <3>3. PICK n \in Nat : call' = [call EXCEPT ![w] = Fresh("pick", b, n)]
        BY <3>1, <3>2 DEF StartCall
      <3> QED BY <3>3, Marks DEF Fresh
    <2>4. \A v \in Worker \ {w} : pc'[v] = pc[v] /\ op'[v] = op[v] /\ call'[v] = call[v]
      BY <2>1, <2>2, <2>3 DEF Shapes
    <2>5. pc'[w] = s /\ op'[w] = op[w] /\ call'[w] = c
      BY <2>1, <2>2, <2>3 DEF Shapes
    <2>6. ~op'[w].on /\ pc'[w] \notin {"getting", "got", "setting"}
      BY <2>2, <2>5 DEF Asking
    <2>7. call'[w].step # "none" /\ pc'[w] \in {"fetching", "writing"}
      BY <2>3, <2>5
    <2> QED BY <2>4, <2>6, <2>7, AskingAt
  <1>8. ASSUME NEW w \in Worker, Route(w) PROVE Asking'
    <2>1. pc' = pc /\ op' = op /\ pc[w] \in {"fetching", "writing"}
      BY <1>8 DEF Route, cacheVars, NoRedis
    <2>2. call'[w].step # "none" /\ \A v \in Worker : v # w => call'[v] = call[v]
      BY <1>8 DEF Route, Skip, Attempt, FailOver, Shapes, Call, Picking
    <2> QED BY <2>1, <2>2 DEF Asking
  <1>9. ASSUME NEW w \in Worker, Fetched(w) \/ NoBalance(w) PROVE Asking'
    <2>1. /\ call' = [call EXCEPT ![w] = NoCall] /\ op' = op
          /\ pc[w] \in {"fetching", "writing"}
      BY <1>9 DEF Fetched, NoBalance, Succeed, GiveUp, Exhaust, EndCall, NoRedis
    <2>2. PICK s \in {"set", "idle"} : pc' = [pc EXCEPT ![w] = s]
      BY <1>9 DEF Fetched, NoBalance, Goto
    <2>3. \A v \in Worker \ {w} : pc'[v] = pc[v] /\ op'[v] = op[v] /\ call'[v] = call[v]
      BY <2>1, <2>2 DEF Shapes
    <2>4. pc'[w] = s /\ op'[w] = op[w] /\ call'[w] = NoCall
      BY <2>1, <2>2 DEF Shapes
    <2>5. ~op'[w].on /\ pc'[w] \notin {"getting", "got", "setting"}
      BY <2>1, <2>4 DEF Asking
    <2>6. call'[w].step = "none" /\ pc'[w] \notin {"fetching", "writing"}
      BY <2>4, Marks
    <2> QED BY <2>3, <2>5, <2>6, AskingAt
  <1>10. ASSUME NEW w \in Worker, SetLocal(w) PROVE Asking'
    BY <1>10, AskingMoves DEF SetLocal, Goto, NoRedis, NoPool, Steps
  <1> QED BY <1>1, <1>2, <1>3, <1>4, <1>5, <1>6, <1>7, <1>8, <1>9, <1>10 DEF ReadNext, Serve

\* Every variable keeps its shape, and no operation of Redis or call of the pool
\* is left over by a handler, however it ends (cache.go:78-147).
THEOREM ReadTypeCorrect == ReadSpec => []ReadTypeOK
  <1>1. RedisInv => RedisTypeOK
    BY DEF RedisInv
  <1>2. PoolInv => PoolTypeOK
    BY DEF PoolInv
  <1>3. RedisTypeOK /\ PoolTypeOK /\ CacheInv
          => Shapes /\ now \in Nat /\ openUntil \in Nat /\ nextPrimary \in Nat
    BY DEF RedisTypeOK, PoolTypeOK, CacheInv, CacheTypes, Shapes
  <1>4. RedisTypeOK /\ PoolTypeOK /\ CacheInv /\ Asking => ReadTypeOK
    BY DEF ReadTypeOK, CacheInv, CacheTypes, Asking
  <1>5. RedisTypeOK /\ PoolTypeOK /\ CacheInv /\ Asking /\ [ReadNext]_readVars => Asking'
    BY <1>3, AskingStep
  <1>6. CacheInv /\ PoolInv /\ [ReadNext]_readVars => CacheInv'
    BY CacheStep
  <1> QED BY <1>1, <1>2, <1>4, <1>5, <1>6, AskingInitial, CacheInitial, ReadImplementsRedis,
             ReadImplementsPool, RedisInvariant, PoolInvariant, PTL DEF ReadSpec
=============================================================================
