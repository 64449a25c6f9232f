--------------------------- MODULE ProviderCircuit ---------------------------
(***************************************************************************)
(* The circuit that guards an external security provider, and the handlers *)
(* that use it: providerCircuit (provider_circuit.go), its caller          *)
(* lookupExternalTokenRisk (token_risk.go) and the cache they share.       *)
(* ListTokenApprovals (token_approvals.go) makes the same calls in the     *)
(* same order on a circuit and a cache of its own.                         *)
(*                                                                         *)
(* A Worker is a goroutine that serves one lookup after another.  A step   *)
(* is one critical section of the cache or of the circuit.                 *)
(***************************************************************************)
EXTENDS Naturals, FiniteSets

CONSTANTS
    Worker,     \* the concurrent lookups
    Token,      \* the (network, contract) identities
    Official,   \* the tokens of the operator's verified catalogue
    Kind,       \* the classifications the provider gives
    Threshold,  \* externalProviderFailureThreshold
    OpenFor,    \* externalProviderOpenDuration, in ticks
    CacheTTL,   \* tokenRiskTTL, in ticks
    Budget,     \* bound, in ticks, on the life of one lookup
    MaxTime     \* bound on the clock

ASSUME ConstantsOK ==
    /\ Official \subseteq Token
    /\ Kind \subseteq {"unsafe", "found", "missing"}
    /\ Threshold \in Nat \ {0}
    /\ OpenFor \in Nat \ {0}
    /\ CacheTTL \in Nat /\ Budget \in Nat /\ MaxTime \in Nat

VARIABLES
    now,            \* the clock
    fails,          \* consecutiveFailures
    openUntil,      \* openUntil, 0 when the circuit is closed
    probeInFlight,  \* probeInFlight
    generation,     \* generation
    pc,             \* pc[w]: where the lookup of w stands
    token,          \* token[w]: the identity w looks up
    permit,         \* permit[w]: the permit w was given
    threat,         \* threat[w]: the answer w got, from the provider or the cache
    cache,          \* cache[t]: the cached answer for t
    reply,          \* reply[w]: what the caller of w was told
    started,        \* history: when w's lookup began
    overtaken       \* history: calls that were under way when the circuit opened

circuit == <<fails, openUntil, probeInFlight, generation>>
lookup  == <<pc, token, permit, threat, reply, started>>
vars    == <<now, fails, openUntil, probeInFlight, generation, pc, token,
             permit, threat, cache, reply, started, overtaken>>
-----------------------------------------------------------------------------
\* upstream.TokenThreat: Unsafe, or Found, or neither; "none" before there is
\* one.  "of" and "at" are history: the token the provider was asked about,
\* and when it answered.
Threat(kind, t, n) == [kind |-> kind, of |-> t, at |-> n]
Threats   == [kind : Kind \cup {"none"}, of : Token, at : Nat]
Entry     == [threat : Threats, expires : Nat]
Absent(t) == [threat |-> Threat("none", t, 0), expires |-> 0]
Permit    == [generation : Nat, probe : BOOLEAN]
Replies   == {"none", "unsafe", "safe", "unknown", "error"}

Calling == {w \in Worker : pc[w] = "calling"}

\* externalTokenRiskResult
Result(t, th) ==
    CASE th.kind = "unsafe"                    -> "unsafe"
      [] th.kind = "found" /\ t \in Official   -> "safe"
      [] OTHER                                 -> "unknown"

Init ==
    /\ now = 0
    /\ fails = 0 /\ openUntil = 0 /\ probeInFlight = FALSE /\ generation = 0
    /\ pc = [w \in Worker |-> "idle"]
    /\ token \in [Worker -> Token]
    /\ permit = [w \in Worker |-> [generation |-> 0, probe |-> FALSE]]
    /\ threat = [w \in Worker |-> Threat("none", token[w], 0)]
    /\ cache = [t \in Token |-> Absent(t)]
    /\ reply = [w \in Worker |-> "none"]
    /\ started = [w \in Worker |-> 0]
    /\ overtaken = {}
-----------------------------------------------------------------------------
Tell(w, r) ==
    /\ pc' = [pc EXCEPT ![w] = "idle"]
    /\ reply' = [reply EXCEPT ![w] = r]

\* Mutant: the cache forgets to compare the clock.
LiveForever(t) == cache[t].threat.kind # "none"

\* Cache.Get: an entry is good up to and including its expiry.
Live(t) == cache[t].threat.kind # "none" /\ now <= cache[t].expires

\* A new lookup reads the cache; an expired entry is dropped.
Look(w) ==
    /\ pc[w] = "idle"
    /\ \E t \in Token :
         /\ token' = [token EXCEPT ![w] = t]
         /\ IF Live(t)
            THEN /\ Tell(w, Result(t, cache[t].threat))
                 /\ threat' = [threat EXCEPT ![w] = cache[t].threat]
                 /\ UNCHANGED cache
            ELSE /\ pc' = [pc EXCEPT ![w] = "missed"]
                 /\ cache' = [cache EXCEPT ![t] = Absent(t)]
                 /\ UNCHANGED <<threat, reply>>
    /\ started' = [started EXCEPT ![w] = now]
    /\ UNCHANGED <<now, circuit, permit, overtaken>>
-----------------------------------------------------------------------------
(* providerCircuit.allow                                                    *)

Admit(w, probe) ==
    /\ pc' = [pc EXCEPT ![w] = "calling"]
    /\ permit' = [permit EXCEPT ![w] = [generation |-> generation, probe |-> probe]]
    /\ overtaken' = overtaken \ {w}
    /\ UNCHANGED reply

\* Mutant: every call after the open window is admitted as the probe.
AllowCrowd(w) ==
    /\ pc[w] = "missed"
    /\ \/ openUntil = 0 /\ Admit(w, FALSE) /\ UNCHANGED probeInFlight
       \/ openUntil # 0 /\ now >= openUntil
          /\ Admit(w, TRUE) /\ probeInFlight' = TRUE
       \/ openUntil # 0 /\ now < openUntil
          /\ Tell(w, "error") /\ UNCHANGED <<permit, overtaken, probeInFlight>>
    /\ UNCHANGED <<now, fails, openUntil, generation, token, threat, cache, started>>

Allow(w) ==
    /\ pc[w] = "missed"
    /\ \/ /\ openUntil = 0
          /\ Admit(w, FALSE)
          /\ UNCHANGED probeInFlight
       \/ /\ openUntil # 0 /\ now >= openUntil /\ ~probeInFlight
          /\ Admit(w, TRUE)
          /\ probeInFlight' = TRUE
       \/ /\ openUntil # 0 /\ (now < openUntil \/ probeInFlight)
          /\ Tell(w, "error")
          /\ UNCHANGED <<permit, overtaken, probeInFlight>>
    /\ UNCHANGED <<now, fails, openUntil, generation, token, threat, cache, started>>
-----------------------------------------------------------------------------
(* providerCircuit.finish, for the permit of w                              *)

Open(n) ==
    /\ fails' = n
    /\ openUntil' = now + OpenFor
    /\ probeInFlight' = FALSE
    /\ generation' = generation + 1

Overtake == overtaken' = overtaken \cup Calling

Close(w) ==
    /\ fails' = 0 /\ openUntil' = 0 /\ probeInFlight' = FALSE
    /\ generation' = IF permit[w].probe THEN generation + 1 ELSE generation

\* Mutant: an abandoned probe keeps its slot.
ReleaseNothing(w) == UNCHANGED circuit

Release(w) ==
    /\ probeInFlight' = (probeInFlight /\ ~permit[w].probe)
    /\ UNCHANGED <<fails, openUntil, generation>>

\* Mutant: the generation of the permit is not compared.
CurrentAlways(w) == permit[w].generation <= generation

Current(w) == permit[w].generation = generation

FinishStale(w) == ~Current(w) /\ UNCHANGED <<circuit, overtaken>>

FinishSuccess(w) == Current(w) /\ Close(w) /\ UNCHANGED overtaken

FinishAbandoned(w) == Current(w) /\ Release(w) /\ UNCHANGED overtaken

FinishFailure(w) ==
    /\ Current(w)
    /\ \/ /\ permit[w].probe
          /\ Open(Threshold) /\ Overtake
       \/ /\ ~permit[w].probe /\ fails + 1 >= Threshold
          /\ Open(fails + 1) /\ Overtake
       \/ /\ ~permit[w].probe /\ fails + 1 < Threshold
          /\ fails' = fails + 1
          /\ UNCHANGED <<openUntil, probeInFlight, generation, overtaken>>
-----------------------------------------------------------------------------
(* The provider's answer, and what lookupExternalTokenRisk does with it.    *)

Answer(w) ==
    /\ pc[w] = "calling"
    /\ FinishStale(w) \/ FinishSuccess(w)
    /\ \E kind \in Kind :
         threat' = [threat EXCEPT ![w] = Threat(kind, token[w], now)]
    /\ pc' = [pc EXCEPT ![w] = "answered"]
    /\ UNCHANGED <<now, token, permit, cache, reply, started>>

\* The provider fails, or the budget of the lookup's own call runs out.
Fail(w) ==
    /\ pc[w] = "calling"
    /\ FinishStale(w) \/ FinishFailure(w)
    /\ Tell(w, "error")
    /\ UNCHANGED <<now, token, permit, threat, cache, started>>

\* The caller's context ended: the wallet left the screen.
Cancel(w) ==
    /\ pc[w] = "calling"
    /\ FinishStale(w) \/ FinishAbandoned(w)
    /\ Tell(w, "error")
    /\ UNCHANGED <<now, token, permit, threat, cache, started>>

\* Cache.Set, then the reply
Store(w) ==
    /\ pc[w] = "answered"
    /\ cache' = [cache EXCEPT ![token[w]] = [threat |-> threat[w],
                                             expires |-> now + CacheTTL]]
    /\ Tell(w, Result(token[w], threat[w]))
    /\ UNCHANGED <<now, circuit, token, permit, threat, started, overtaken>>

\* No lookup outlives its budget (the 25 s of the RPC server).
Tick ==
    /\ now < MaxTime
    /\ \A w \in Worker : pc[w] # "idle" => now < started[w] + Budget
    /\ now' = now + 1
    /\ UNCHANGED <<circuit, lookup, cache, overtaken>>

Serve(w) == Allow(w) \/ Answer(w) \/ Fail(w) \/ Cancel(w) \/ Store(w)

Next == Tick \/ \E w \in Worker : Look(w) \/ Serve(w)

Spec     == Init /\ [][Next]_vars
FairSpec == Spec /\ \A w \in Worker : WF_vars(Serve(w))
-----------------------------------------------------------------------------
(* Properties.                                                             *)

\* Every variable keeps its shape; the counter stays at or below the
\* threshold that opens the circuit.
TypeOK ==
    /\ now \in Nat
    /\ fails \in 0..Threshold
    /\ openUntil \in Nat
    /\ probeInFlight \in BOOLEAN
    /\ generation \in Nat
    /\ pc \in [Worker -> {"idle", "missed", "calling", "answered"}]
    /\ token \in [Worker -> Token]
    /\ permit \in [Worker -> Permit]
    /\ threat \in [Worker -> Threats]
    /\ cache \in [Token -> Entry]
    /\ reply \in [Worker -> Replies]
    /\ started \in [Worker -> Nat]
    /\ overtaken \subseteq Worker

\* An open circuit shelters the provider: no call begins before the window is
\* over, and then one single call is under way, whatever calls that were
\* under way when it opened come back with (provider_circuit.go:20-22).
Sheltered ==
    openUntil # 0 =>
        \A v, w \in Calling \ overtaken : v = w /\ now >= openUntil

\* The probe slot is taken exactly while a call that may free it is under way:
\* a slot nobody frees would keep the provider unused for ever.
ProbeOwned ==
    probeInFlight <=> \E w \in Calling : permit[w].probe /\ Current(w)

\* A call that was under way when the circuit opened never closes it: only
\* the answer of a probe does.
StaleCannotClose ==
    [][openUntil # 0 /\ openUntil' = 0
       => \A w \in Worker : pc[w] = "calling" /\ pc'[w] # "calling" =>
             permit[w].probe /\ w \notin overtaken]_vars

\* What a caller is told of a token is what the provider said of that very
\* token, no longer ago than the cache keeps it; an outage is never told as
\* safe or as unsafe (token_risk.go:146-150).
VerdictIsEvidence ==
    \A w \in Worker :
        pc[w] = "idle" /\ reply[w] \in {"safe", "unsafe", "unknown"} =>
            /\ threat[w].kind # "none"
            /\ threat[w].of = token[w]
            /\ reply[w] = Result(token[w], threat[w])
            /\ started[w] <= threat[w].at + CacheTTL + Budget

\* The probe slot is always given back: a wallet that walks away from the
\* probing lookup does not lock the provider out.
ProbeReleased == probeInFlight ~> ~probeInFlight
=============================================================================
