---------------------------- MODULE UpstreamPool ----------------------------
(***************************************************************************)
(* A pool of JSON-RPC endpoints (upstream/pool.go): reads (Call and        *)
(* CallExtensible) fail over from one endpoint to the next, a write        *)
(* (CallOnce) is sent to one endpoint only, and each endpoint has a        *)
(* breaker.  The lock is held for one look at a breaker or one record of   *)
(* an outcome, never across a request.  A Worker makes one call at a time. *)
(***************************************************************************)
EXTENDS GatewayProcess

CONSTANTS
    Endpoints,      \* number of endpoints
    Prefix,         \* roundRobinPrefix
    FailThreshold,  \* FailThreshold
    OpenDuration,   \* OpenDuration, in ticks
    AttemptBudget   \* p.timeout, in ticks

ASSUME PoolConstants ==
    /\ Endpoints \in Nat /\ Prefix \in 0..Endpoints
    /\ FailThreshold \in Nat \ {0}
    /\ OpenDuration \in Nat \ {0}
    /\ AttemptBudget \in Nat

VARIABLES
    fails,          \* fails[e], which stays at FailThreshold once there
    skipUntil,      \* skipUntil[e]: openUntil of endpoint e, 0 for the zero time
    nextPrimary,    \* nextPrimary
    call            \* call[w]: the call of w

poolVars == <<now, fails, skipUntil, nextPrimary, call>>

Endpoint == 1..Endpoints

\* "start" and "pos" stand for the slice endpointsForCall returns and the
\* place in it; "since" is when the attempt began, "tries" counts attempts.
Call   == [step : {"none", "pick", "attempt"}, write : BOOLEAN, start : Nat,
           pos : 1..(Endpoints + 1), since : Nat, tries : Nat]
Fresh(step, write, start) == [step |-> step, write |-> write, start |-> start,
                              pos |-> 1, since |-> 0, tries |-> 0]
NoCall == Fresh("none", FALSE, 0)

\* The endpoint at a place of the slice: the first Prefix ones rotated.
At(start, pos) ==
    IF pos <= Prefix THEN ((start + pos - 1) % Prefix) + 1 ELSE pos

Target(w) == At(call[w].start, call[w].pos)

PoolInit ==
    /\ fails = [e \in Endpoint |-> 0]
    /\ skipUntil = [e \in Endpoint |-> 0]
    /\ nextPrimary = 0
    /\ call = [w \in Worker |-> NoCall]
-----------------------------------------------------------------------------
\* endpointsForCall
StartCall(w, write) ==
    /\ call[w].step = "none"
    /\ LET start == IF Prefix <= 1 THEN 0 ELSE nextPrimary % Prefix IN
         /\ call' = [call EXCEPT ![w] = Fresh("pick", write, start)]
         /\ nextPrimary' = IF Prefix <= 1 THEN nextPrimary
                           ELSE (nextPrimary + 1) % Prefix
    /\ UNCHANGED <<now, fails, skipUntil>>

\* circuitOpen
CircuitOpen(e) == skipUntil[e] > now

Picking(w) == call[w].step = "pick" /\ call[w].pos <= Endpoints

Skip(w) ==
    /\ Picking(w)
    /\ CircuitOpen(Target(w))
    /\ call' = [call EXCEPT ![w].pos = @ + 1]
    /\ UNCHANGED <<now, fails, skipUntil, nextPrimary>>

\* Mutant: the breaker is not looked at.
AttemptBlind(w) ==
    /\ Picking(w)
    /\ call' = [call EXCEPT ![w].step = "attempt", ![w].since = now,
                            ![w].tries = @ + 1]
    /\ UNCHANGED <<now, fails, skipUntil, nextPrimary>>

\* The breaker was closed when it was looked at: the request goes out.
Attempt(w) ==
    /\ Picking(w)
    /\ ~CircuitOpen(Target(w))
    /\ call' = [call EXCEPT ![w].step = "attempt", ![w].since = now,
                            ![w].tries = @ + 1]
    /\ UNCHANGED <<now, fails, skipUntil, nextPrimary>>
-----------------------------------------------------------------------------
(* The attempt returns.                                                     *)

EndCall(w) == call' = [call EXCEPT ![w] = NoCall]

\* Mutant: a success clears the count and leaves the window.
RecordSuccessHalf(e) ==
    /\ fails' = [fails EXCEPT ![e] = 0]
    /\ UNCHANGED skipUntil

RecordSuccess(e) ==
    /\ fails' = [fails EXCEPT ![e] = 0]
    /\ skipUntil' = [skipUntil EXCEPT ![e] = 0]

RecordFailure(e) ==
    /\ fails' = [fails EXCEPT ![e] = IF @ < FailThreshold THEN @ + 1 ELSE @]
    /\ skipUntil' = [skipUntil EXCEPT ![e] =
                       IF fails[e] + 1 >= FailThreshold THEN now + OpenDuration ELSE @]

\* A result, or an error that the node itself gave.
Succeed(w) ==
    /\ call[w].step = "attempt"
    /\ RecordSuccess(Target(w))
    /\ EndCall(w)
    /\ UNCHANGED <<now, nextPrimary>>

\* Mutant: a write that failed goes on with the next endpoint.
FailOverAll(w) ==
    /\ call[w].step = "attempt"
    /\ RecordFailure(Target(w))
    /\ call' = [call EXCEPT ![w].step = "pick", ![w].pos = @ + 1, ![w].since = 0]
    /\ UNCHANGED <<now, nextPrimary>>

\* A read goes on after a failure, or after an error in the provider's routing.
FailOver(w) ==
    /\ call[w].step = "attempt" /\ ~call[w].write
    /\ RecordFailure(Target(w))
    /\ call' = [call EXCEPT ![w].step = "pick", ![w].pos = @ + 1, ![w].since = 0]
    /\ UNCHANGED <<now, nextPrimary>>

\* A write stops at the first failure; a read stops when the attempt fails and
\* the caller's context is done.  Either way the failure counts.
GiveUp(w) ==
    /\ call[w].step = "attempt"
    /\ RecordFailure(Target(w))
    /\ EndCall(w)
    /\ UNCHANGED <<now, nextPrimary>>

\* No endpoint is left: every one failed or was skipped.
Exhaust(w) ==
    /\ call[w].step = "pick" /\ call[w].pos > Endpoints
    /\ EndCall(w)
    /\ UNCHANGED <<now, fails, skipUntil, nextPrimary>>

\* An attempt ends within its timeout.
PoolTick ==
    /\ Advance
    /\ \A w \in Worker : call[w].step = "attempt" => now < call[w].since + AttemptBudget
    /\ UNCHANGED <<fails, skipUntil, nextPrimary, call>>

PoolStep(w) == Skip(w) \/ Attempt(w) \/ Succeed(w) \/ FailOver(w) \/ GiveUp(w) \/ Exhaust(w)

PoolNext ==
    \/ PoolTick
    \/ \E w \in Worker : PoolStep(w) \/ \E write \in BOOLEAN : StartCall(w, write)

PoolSpec == now = 0 /\ PoolInit /\ [][PoolNext]_poolVars
-----------------------------------------------------------------------------
(* Properties.                                                             *)

PoolTypeOK ==
    /\ now \in Nat
    /\ fails \in [Endpoint -> 0..FailThreshold]
    /\ skipUntil \in [Endpoint -> Nat]
    /\ nextPrimary \in Nat
    /\ call \in [Worker -> Call]

\* A window comes only from FailThreshold failures with no success between
\* them, and lasts until a success: when it is over, the count is still there
\* and a single failure opens the next one (pool.go:24-27).
WindowIsEarned ==
    \A e \in Endpoint : skipUntil[e] > 0 => fails[e] = FailThreshold

\* While an endpoint is skipped, the only requests it still has to answer are
\* those that went out before the failure that opened the window.
WindowShelters ==
    \A w \in Worker :
        call[w].step = "attempt" /\ skipUntil[Target(w)] > 0 =>
            \/ call[w].since + OpenDuration <= skipUntil[Target(w)]
            \/ call[w].since >= skipUntil[Target(w)]

\* A call sends no more requests than there are endpoints, and a write sends
\* one at most: a lost answer can hide an accepted transaction
\* (pool.go:282-284).
AttemptBound ==
    \A w \in Worker :
        /\ call[w].tries <= Endpoints
        /\ call[w].write => call[w].tries <= 1
=============================================================================
