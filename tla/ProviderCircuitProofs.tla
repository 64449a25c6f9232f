------------------------ MODULE ProviderCircuitProofs ------------------------
(* What the provider circuit guarantees for any number of lookups, tokens   *)
(* and failures, and for any timing.                                        *)
EXTENDS ProviderCircuit, TLAPS

\* The generation of a permit tells which calls the circuit still listens to:
\* those admitted since it last opened.  While it is open that is the probe.
PermitInv ==
    /\ \A w \in Calling :
         /\ permit[w].generation <= generation
         /\ w \notin overtaken <=> Current(w)
         /\ Current(w) => (permit[w].probe <=> openUntil # 0)
    /\ \A v, w \in Calling : Current(v) /\ Current(w) /\ openUntil # 0 => v = w

ProbeInv ==
    /\ ProbeOwned
    /\ probeInFlight => openUntil # 0 /\ now >= openUntil
    /\ openUntil = 0 => fails < Threshold

IInv == TypeOK /\ PermitInv /\ ProbeInv

LEMMA Constants ==
  Threshold \in Nat /\ Threshold > 0 /\ OpenFor \in Nat /\ OpenFor > 0 /\ CacheTTL \in Nat
  BY ConstantsOK DEF ConstantsOK

LEMMA InitInv == Init => IInv
  <1> SUFFICES ASSUME Init PROVE IInv
    OBVIOUS
  <1>1. \A t \in Token : Threat("none", t, 0) \in Threats /\ Absent(t) \in Entry
    BY DEF Threat, Threats, Absent, Entry
  <1>2. /\ threat \in [Worker -> Threats] /\ cache \in [Token -> Entry]
        /\ token \in [Worker -> Token]
    BY <1>1 DEF Init
  <1>3. TypeOK
    <2>1. probeInFlight \in BOOLEAN
      BY DEF Init
    <2>3. fails \in 0..Threshold
      BY Constants DEF Init
    <2>2. permit \in [Worker -> Permit]
      BY DEF Init, Permit
    <2> QED BY <1>2, <2>1, <2>2, <2>3 DEF Init, TypeOK, Replies
  <1>4. Calling = {}
    BY DEF Init, Calling
  <1> QED BY <1>3, <1>4, Constants DEF Init, IInv, PermitInv, ProbeInv, ProbeOwned

-----------------------------------------------------------------------------
(* Type correctness, action by action.                                      *)

\* What finish does to the circuit keeps the types, whatever the outcome.
LEMMA FinishTypes ==
  ASSUME IInv, NEW w \in Worker, pc[w] = "calling",
         FinishStale(w) \/ FinishSuccess(w) \/ FinishAbandoned(w) \/ FinishFailure(w)
  PROVE  /\ fails' \in 0..Threshold
         /\ openUntil' \in Nat
         /\ probeInFlight' \in BOOLEAN
         /\ generation' \in Nat
         /\ overtaken' \subseteq Worker
  <1> USE Constants
  <1>0. TypeOK
    BY DEF IInv
  <1>1. CASE FinishStale(w)
    BY <1>0, <1>1 DEF TypeOK, circuit, FinishStale
  <1>2. CASE FinishSuccess(w)
    <2>1. probeInFlight' \in BOOLEAN
      BY <1>2 DEF FinishSuccess, Close
    <2>2. generation' \in Nat
      BY <1>0, <1>2 DEF TypeOK, FinishSuccess, Close
    <2> QED BY <1>0, <1>2, <2>1, <2>2, Constants DEF TypeOK, FinishSuccess, Close
  <1>3. CASE FinishAbandoned(w)
    BY <1>0, <1>3 DEF TypeOK, FinishAbandoned, Release
  <1>4. CASE FinishFailure(w)
    <2>1. Current(w) /\ (permit[w].probe \/ fails < Threshold)
      BY <1>4 DEF FinishFailure, IInv, PermitInv, ProbeInv, Calling
    <2>2. /\ fails \in Nat /\ fails <= Threshold /\ now \in Nat /\ openUntil \in Nat
          /\ generation \in Nat /\ probeInFlight \in BOOLEAN
      BY <1>0 DEF TypeOK
    <2>3. overtaken' \subseteq Worker
      BY <1>0, <1>4 DEF TypeOK, FinishFailure, Overtake, Calling
    <2>4. probeInFlight' \in BOOLEAN
      BY <1>4, <2>2 DEF FinishFailure, Open
    <2>5. CASE permit[w].probe
      <3>1. fails' = Threshold /\ openUntil' = now + OpenFor /\ generation' = generation + 1
        BY <1>4, <2>5 DEF FinishFailure, Open
      <3> QED BY <2>2, <2>3, <2>4, <3>1, Constants
    <2>6. CASE ~permit[w].probe
      <3>1. fails' = fails + 1
        BY <1>4, <2>6 DEF FinishFailure, Open
      <3>2. \/ openUntil' = now + OpenFor /\ generation' = generation + 1
            \/ UNCHANGED <<openUntil, generation>>
        BY <1>4, <2>6 DEF FinishFailure, Open
      <3>3. fails < Threshold
        BY <2>1, <2>6
      <3> QED BY <2>2, <2>3, <2>4, <3>1, <3>2, <3>3, Constants
    <2> QED BY <2>5, <2>6
  <1> QED BY <1>1, <1>2, <1>3, <1>4

LEMMA TypesPreserved == IInv /\ [Next]_vars => TypeOK'
  <1> SUFFICES ASSUME IInv, TypeOK, [Next]_vars PROVE TypeOK'
    BY DEF IInv
  <1> USE Constants
  <1>1. CASE UNCHANGED vars
    BY <1>1 DEF TypeOK, vars
  <1>2. CASE Tick
    BY <1>2 DEF TypeOK, Tick, circuit, lookup
  <1>3. ASSUME NEW w \in Worker, Look(w) PROVE TypeOK'
    <2> PICK t \in Token :
            /\ token' = [token EXCEPT ![w] = t]
            /\ IF Live(t)
               THEN /\ Tell(w, Result(t, cache[t].threat))
                    /\ threat' = [threat EXCEPT ![w] = cache[t].threat]
                    /\ UNCHANGED cache
               ELSE /\ pc' = [pc EXCEPT ![w] = "missed"]
                    /\ cache' = [cache EXCEPT ![t] = Absent(t)]
                    /\ UNCHANGED <<threat, reply>>
      BY <1>3 DEF Look
    <2>1. Result(t, cache[t].threat) \in Replies
      BY DEF Result, Replies
    <2>2. Absent(t) \in Entry
      BY DEF Absent, Entry, Threat, Threats
    <2>3. cache[t].threat \in Threats
      BY DEF TypeOK, Entry
    <2>4. /\ reply' \in [Worker -> Replies]
          /\ threat' \in [Worker -> Threats]
          /\ cache' \in [Token -> Entry]
          /\ pc' \in [Worker -> {"idle", "missed", "calling", "answered"}]
      BY <2>1, <2>2, <2>3 DEF TypeOK, Tell
    <2> QED BY <1>3, <2>4 DEF TypeOK, Look, circuit
  <1>4. ASSUME NEW w \in Worker, Allow(w) PROVE TypeOK'
    <2>1. /\ UNCHANGED <<now, fails, openUntil, generation, token, threat, cache, started>>
          /\ generation \in Nat
      BY <1>4 DEF Allow, TypeOK
    <2>2. ASSUME NEW probe \in BOOLEAN, Admit(w, probe)
          PROVE  /\ permit' \in [Worker -> Permit]
                 /\ pc' \in [Worker -> {"idle", "missed", "calling", "answered"}]
                 /\ reply' \in [Worker -> Replies] /\ overtaken' \subseteq Worker
      <3>1. [generation |-> generation, probe |-> probe] \in Permit
        BY <2>1 DEF Permit
      <3> QED BY <2>2, <3>1 DEF Admit, TypeOK
    <2>3. probeInFlight' \in BOOLEAN
      BY <1>4 DEF Allow, TypeOK
    <2>4. ASSUME Tell(w, "error"), UNCHANGED <<permit, overtaken>>
          PROVE  /\ permit' \in [Worker -> Permit]
                 /\ pc' \in [Worker -> {"idle", "missed", "calling", "answered"}]
                 /\ reply' \in [Worker -> Replies] /\ overtaken' \subseteq Worker
      BY <2>4 DEF TypeOK, Tell, Replies
    <2>5. \/ \E probe \in BOOLEAN : Admit(w, probe)
          \/ Tell(w, "error") /\ UNCHANGED <<permit, overtaken>>
      BY <1>4 DEF Allow
    <2> QED BY <2>1, <2>2, <2>3, <2>4, <2>5 DEF TypeOK
  <1>5. ASSUME NEW w \in Worker, Answer(w) PROVE TypeOK'
    <2>1. \A kind \in Kind : Threat(kind, token[w], now) \in Threats
      BY DEF TypeOK, Threat, Threats
    <2> QED BY <1>5, <2>1, FinishTypes DEF TypeOK, Answer
  <1>6. ASSUME NEW w \in Worker, Fail(w) PROVE TypeOK'
    BY <1>6, FinishTypes DEF TypeOK, Fail, Tell, Replies
  <1>7. ASSUME NEW w \in Worker, Cancel(w) PROVE TypeOK'
    BY <1>7, FinishTypes DEF TypeOK, Cancel, Tell, Replies
  <1>8. ASSUME NEW w \in Worker, Store(w) PROVE TypeOK'
    <2>1. Result(token[w], threat[w]) \in Replies
      BY DEF Result, Replies
    <2>2. [threat |-> threat[w], expires |-> now + CacheTTL] \in Entry
      BY DEF TypeOK, Entry
    <2> QED BY <1>8, <2>1, <2>2 DEF TypeOK, Store, Tell, circuit
  <1> QED BY <1>1, <1>2, <1>3, <1>4, <1>5, <1>6, <1>7, <1>8 DEF Next, Serve

-----------------------------------------------------------------------------
(* The permits and the probe.                                               *)

\* Ending a call, whatever its outcome, keeps both parts.
LEMMA FinishKeeps ==
  ASSUME IInv, NEW w \in Worker, pc[w] = "calling",
         FinishStale(w) \/ FinishSuccess(w) \/ FinishAbandoned(w) \/ FinishFailure(w),
         NEW step \in {"idle", "answered"}, pc' = [pc EXCEPT ![w] = step],
         UNCHANGED <<now, permit>>
  PROVE  PermitInv' /\ ProbeInv'
  <1>0. /\ Calling' = Calling \ {w} /\ w \in Calling
        /\ Calling \subseteq Worker
    BY DEF IInv, TypeOK, Calling
  <1>t. /\ generation \in Nat /\ openUntil \in Nat /\ now \in Nat
        /\ probeInFlight \in BOOLEAN /\ fails \in Nat /\ 0 < Threshold
        /\ \A v \in Worker : permit[v].generation \in Nat /\ permit[v].probe \in BOOLEAN
    BY Constants DEF IInv, TypeOK, Permit
  <1>1. CASE FinishStale(w)
    <2>1. \A v \in Calling' : Current(v)' <=> Current(v)
      BY <1>1 DEF FinishStale, Current, circuit
    <2> QED BY <1>0, <1>1, <2>1 DEF IInv, PermitInv, ProbeInv, ProbeOwned, FinishStale,
               Current, circuit
  <1>2. CASE FinishSuccess(w) /\ permit[w].probe
    <2>1. openUntil # 0
      BY <1>0, <1>2 DEF IInv, PermitInv, FinishSuccess
    <2>2. \A v \in Calling' : v \in overtaken /\ permit[v].generation < generation
      BY <1>0, <1>2, <1>t, <2>1 DEF IInv, PermitInv, FinishSuccess, Current
    <2>3. /\ generation' = generation + 1 /\ openUntil' = 0 /\ probeInFlight' = FALSE
          /\ overtaken' = overtaken /\ fails' = 0
      BY <1>2 DEF FinishSuccess, Close
    <2> QED BY <1>0, <1>t, <2>2, <2>3 DEF PermitInv, ProbeInv, ProbeOwned, Current
  <1>3. CASE FinishSuccess(w) /\ ~permit[w].probe
    <2>1. openUntil = 0
      BY <1>0, <1>3 DEF IInv, PermitInv, FinishSuccess
    <2>2. /\ generation' = generation /\ openUntil' = 0 /\ probeInFlight' = FALSE
          /\ overtaken' = overtaken /\ fails' = 0
      BY <1>3 DEF FinishSuccess, Close
    <2>3. ~probeInFlight
      BY <2>1 DEF IInv, ProbeInv
    <2> QED BY <1>0, <1>t, <2>1, <2>2, <2>3 DEF IInv, PermitInv, ProbeInv, ProbeOwned, Current
  <1>4. CASE FinishAbandoned(w)
    <2>1. /\ probeInFlight' = (probeInFlight /\ ~permit[w].probe)
          /\ UNCHANGED <<fails, generation, openUntil, overtaken>> /\ Current(w)
      BY <1>4 DEF FinishAbandoned, Release
    <2>2. PermitInv'
      BY <1>0, <2>1 DEF IInv, PermitInv, Current
    <2>3. CASE permit[w].probe
      <3>1. openUntil # 0
        BY <1>0, <2>1, <2>3 DEF IInv, PermitInv
      <3>2. \A v \in Calling' : ~Current(v)
        BY <1>0, <2>1, <3>1 DEF IInv, PermitInv
      <3> QED BY <2>1, <2>2, <2>3, <3>1, <3>2 DEF IInv, ProbeInv, ProbeOwned, Current
    <2>4. CASE ~permit[w].probe
      BY <1>0, <2>1, <2>2, <2>4 DEF IInv, ProbeInv, ProbeOwned, Current
    <2> QED BY <2>3, <2>4
  <1>5. CASE FinishFailure(w) /\ (permit[w].probe \/ fails + 1 >= Threshold)
    <2>1. /\ generation' = generation + 1 /\ openUntil' = now + OpenFor
          /\ probeInFlight' = FALSE /\ overtaken' = overtaken \cup Calling
      BY <1>5, <1>t, Constants DEF FinishFailure, Open, Overtake
    <2>2. \A v \in Calling' : permit[v].generation < generation'
      BY <1>0, <1>t, <2>1 DEF IInv, PermitInv
    <2> QED BY <1>0, <1>t, <2>1, <2>2, Constants
            DEF PermitInv, ProbeInv, ProbeOwned, Current
  <1>6. CASE FinishFailure(w) /\ ~permit[w].probe /\ fails + 1 < Threshold
    <2>1. /\ UNCHANGED <<openUntil, probeInFlight, generation, overtaken>>
          /\ fails' < Threshold
      BY <1>6, <1>t, Constants DEF FinishFailure
    <2> QED BY <1>0, <1>6, <2>1 DEF IInv, PermitInv, ProbeInv, ProbeOwned, Current
  <1>7. permit[w].probe \/ fails + 1 >= Threshold \/ (~permit[w].probe /\ fails + 1 < Threshold)
    BY <1>t, Constants
  <1> QED BY <1>1, <1>2, <1>3, <1>4, <1>5, <1>6, <1>7

LEMMA InvPreserved == IInv /\ [Next]_vars => IInv'
  <1> SUFFICES ASSUME IInv, [Next]_vars PROVE PermitInv' /\ ProbeInv'
    BY TypesPreserved DEF IInv
  <1>t. /\ generation \in Nat /\ openUntil \in Nat /\ now \in Nat
        /\ probeInFlight \in BOOLEAN /\ overtaken \subseteq Worker
        /\ pc \in [Worker -> {"idle", "missed", "calling", "answered"}]
        /\ permit \in [Worker -> Permit]
        /\ \A v \in Worker : permit[v].generation \in Nat /\ permit[v].probe \in BOOLEAN
    BY DEF IInv, TypeOK, Permit
  \* A step that neither admits nor ends a call, and leaves the circuit alone.
  <1>0. ASSUME UNCHANGED <<circuit, permit, overtaken>>, Calling' = Calling, now' >= now,
               now' \in Nat
        PROVE  PermitInv' /\ ProbeInv'
    BY <1>t, <1>0 DEF IInv, PermitInv, ProbeInv, ProbeOwned, Current, circuit
  <1>1. CASE UNCHANGED vars
    BY <1>0, <1>1, <1>t DEF vars, circuit, Calling
  <1>2. CASE Tick
    BY <1>0, <1>2, <1>t DEF Tick, circuit, lookup, Calling
  <1>3. ASSUME NEW w \in Worker, Look(w) PROVE PermitInv' /\ ProbeInv'
    <2>1. pc[w] = "idle" /\ UNCHANGED <<now, circuit, permit, overtaken>>
      BY <1>3 DEF Look
    <2>2. pc' = [pc EXCEPT ![w] = "idle"] \/ pc' = [pc EXCEPT ![w] = "missed"]
      BY <1>3 DEF Look, Tell
    <2>3. Calling' = Calling
      BY <1>t, <2>1, <2>2 DEF Calling
    <2> QED BY <1>0, <1>t, <2>1, <2>3
  <1>4. ASSUME NEW w \in Worker, Allow(w) PROVE PermitInv' /\ ProbeInv'
    <2>1. UNCHANGED <<now, fails, openUntil, generation>> /\ w \notin Calling
      BY <1>4 DEF Allow, Calling
    <2>2. ASSUME NEW probe \in BOOLEAN, Admit(w, probe)
          PROVE  /\ Calling' = Calling \cup {w}
                 /\ overtaken' = overtaken \ {w}
                 /\ \A v \in Calling : permit'[v] = permit[v] /\ v # w
                 /\ permit'[w].generation = generation /\ (permit'[w].probe <=> probe)
      BY <1>t, <2>1, <2>2 DEF Admit, Calling
    <2>3. CASE openUntil = 0 /\ Admit(w, FALSE) /\ UNCHANGED probeInFlight
      <3>1. ~probeInFlight
        BY <2>3 DEF IInv, ProbeInv
      <3>2. \A v \in Calling' : Current(v)' <=> v = w \/ Current(v)
        BY <1>t, <2>1, <2>2, <2>3 DEF Current
      <3>3. PermitInv'
        <4>1. /\ ~permit'[w].probe /\ openUntil' = 0 /\ generation' = generation
              /\ permit'[w].generation = generation /\ overtaken' = overtaken \ {w}
              /\ \A v \in Calling : permit'[v] = permit[v] /\ v # w
              /\ Calling' = Calling \cup {w}
          BY <2>1, <2>2, <2>3
        <4>2. ASSUME NEW v \in Calling'
              PROVE  /\ permit'[v].generation <= generation'
                     /\ v \notin overtaken' <=> Current(v)'
                     /\ Current(v)' => (permit'[v].probe <=> openUntil' # 0)
          <5>1. CASE v = w
            BY <1>t, <4>1, <5>1 DEF Current
          <5>2. CASE v # w
            BY <1>t, <2>1, <2>3, <4>1, <4>2, <5>2 DEF IInv, PermitInv, Current
          <5> QED BY <5>1, <5>2
        <4> QED BY <4>1, <4>2 DEF PermitInv
      <3>4. \A v \in Calling' : Current(v)' => ~permit[v].probe'
        BY <2>1, <2>3, <3>3 DEF PermitInv
      <3> QED BY <2>1, <2>3, <3>1, <3>3, <3>4 DEF IInv, ProbeInv, ProbeOwned
    <2>4. CASE /\ openUntil # 0 /\ now >= openUntil /\ ~probeInFlight
               /\ Admit(w, TRUE) /\ probeInFlight' = TRUE
      <3>1. \A v \in Calling : ~Current(v)
        BY <2>4 DEF IInv, PermitInv, ProbeInv, ProbeOwned
      <3>2. \A v \in Calling' : Current(v)' <=> v = w
        BY <1>t, <2>1, <2>2, <2>4, <3>1 DEF Current
      <3>3. permit[w].probe' /\ w \in Calling'
        BY <2>2, <2>4
      <3>4. PermitInv'
        <4>1. /\ permit'[w].probe /\ openUntil' # 0 /\ generation' = generation
              /\ permit'[w].generation = generation /\ overtaken' = overtaken \ {w}
              /\ \A v \in Calling : permit'[v] = permit[v] /\ v # w
              /\ Calling' = Calling \cup {w}
          BY <2>1, <2>2, <2>4
        <4>2. ASSUME NEW v \in Calling'
              PROVE  /\ permit'[v].generation <= generation'
                     /\ v \notin overtaken' <=> Current(v)'
                     /\ Current(v)' => (permit'[v].probe <=> openUntil' # 0)
          <5>1. CASE v = w
            BY <1>t, <4>1, <5>1 DEF Current
          <5>2. CASE v # w
            BY <1>t, <2>1, <3>1, <3>2, <4>1, <4>2, <5>2 DEF IInv, PermitInv, Current
          <5> QED BY <5>1, <5>2
        <4> QED BY <3>2, <4>2 DEF PermitInv
      <3> QED BY <2>1, <2>4, <3>2, <3>3, <3>4 DEF IInv, ProbeInv, ProbeOwned
    <2>5. CASE Tell(w, "error") /\ UNCHANGED <<permit, overtaken, probeInFlight>>
      <3>1. Calling' = Calling
        BY <1>t, <2>1, <2>5 DEF Tell, Calling
      <3> QED BY <1>0, <1>t, <2>1, <2>5, <3>1 DEF circuit
    <2> QED BY <1>4, <2>3, <2>4, <2>5 DEF Allow
  <1>5. ASSUME NEW w \in Worker, Answer(w) \/ Fail(w) \/ Cancel(w)
        PROVE  PermitInv' /\ ProbeInv'
    BY <1>5, FinishKeeps DEF Answer, Fail, Cancel, Tell
  <1>6. ASSUME NEW w \in Worker, Store(w) PROVE PermitInv' /\ ProbeInv'
    <2>1. pc[w] = "answered" /\ UNCHANGED <<now, circuit, permit, overtaken>>
      BY <1>6 DEF Store
    <2>2. Calling' = Calling
      BY <1>t, <1>6, <2>1 DEF Store, Tell, Calling
    <2> QED BY <1>0, <1>t, <2>1, <2>2
  <1> QED BY <1>1, <1>2, <1>3, <1>4, <1>5, <1>6 DEF Next, Serve

\* The types hold in every reachable state, and with them the meaning of the
\* generations that the other theorems rest on.
THEOREM InductiveInvariant == Spec => []IInv
  BY InitInv, InvPreserved, PTL DEF Spec

-----------------------------------------------------------------------------
\* Type correctness of the circuit and of the lookups.
THEOREM TypeCorrect == Spec => []TypeOK
  BY InductiveInvariant, PTL DEF IInv

\* No call begins before the window of an open circuit is over, and then one
\* at a time, whatever the calls under way come back with.
THEOREM CircuitShelters == Spec => []Sheltered
  <1>1. IInv => Sheltered
    BY DEF IInv, PermitInv, ProbeInv, ProbeOwned, Sheltered
  <1> QED BY <1>1, InductiveInvariant, PTL

\* The probe slot always has an owner that can give it back.
THEOREM ProbeHasOwner == Spec => []ProbeOwned
  <1>1. IInv => ProbeOwned
    BY DEF IInv, ProbeInv
  <1> QED BY <1>1, InductiveInvariant, PTL

\* A call that was under way when the circuit opened never closes it.
THEOREM OnlyProbeCloses == Spec => StaleCannotClose
  <1> DEFINE Closing == openUntil # 0 /\ openUntil' = 0
             Kept    == \A w \in Worker : pc[w] = "calling" /\ pc'[w] # "calling" =>
                           permit[w].probe /\ w \notin overtaken
  <1>1. IInv /\ [Next]_vars => [Closing => Kept]_vars
    <2> SUFFICES ASSUME IInv, Next, Closing, NEW w \in Worker,
                        pc[w] = "calling", pc'[w] # "calling"
                 PROVE  permit[w].probe /\ w \notin overtaken
      BY DEF vars
    <2>t. pc \in [Worker -> {"idle", "missed", "calling", "answered"}] /\ w \in Calling
      BY DEF IInv, TypeOK, Calling
    <2>1. PICK v \in Worker : Answer(v) \/ Fail(v) \/ Cancel(v)
      <3>1. ~Tick
        BY DEF Tick, circuit
      <3>2. ASSUME NEW v \in Worker PROVE ~Look(v) /\ ~Allow(v) /\ ~Store(v)
        BY DEF Look, Allow, Store, circuit
      <3> QED BY <3>1, <3>2 DEF Next, Serve
    <2>2. v = w
      BY <2>1, <2>t DEF Answer, Fail, Cancel, Tell
    <2>3. Current(w)
      BY <2>1, <2>2 DEF Answer, Fail, Cancel, FinishStale, FinishSuccess, FinishFailure,
         FinishAbandoned, circuit
    <2> QED BY <2>t, <2>3 DEF IInv, PermitInv
  <1> QED BY <1>1, InductiveInvariant, PTL DEF Spec, StaleCannotClose
-----------------------------------------------------------------------------
(* What callers are told.                                                   *)

\* A cached answer is about its own token, and its life was counted from when
\* it was stored, at most a Budget after the provider gave it.
EvidenceInv ==
    /\ \A w \in Worker : pc[w] # "idle" => now <= started[w] + Budget
    /\ \A w \in Worker : pc[w] = "answered" =>
         /\ threat[w].kind # "none" /\ threat[w].of = token[w]
         /\ started[w] <= threat[w].at
    /\ \A w \in Worker : pc[w] = "calling" \/ pc[w] = "missed" => started[w] <= now
    /\ \A t \in Token : cache[t].threat.kind # "none" =>
         /\ cache[t].threat.of = t
         /\ cache[t].expires <= cache[t].threat.at + CacheTTL + Budget
    /\ VerdictIsEvidence

LEMMA EvidenceInit == Init => EvidenceInv
  <1> SUFFICES ASSUME Init PROVE EvidenceInv
    OBVIOUS
  <1>1. \A t \in Token : cache[t].threat.kind = "none"
    BY DEF Init, Absent, Threat
  <1>2. \A w \in Worker : pc[w] = "idle" /\ reply[w] = "none"
    BY DEF Init
  <1> QED BY <1>1, <1>2 DEF EvidenceInv, VerdictIsEvidence

\* A step of one lookup leaves what the others know as it was.
LEMMA OthersKeep ==
  ASSUME EvidenceInv, NEW w \in Worker, UNCHANGED now,
         \A v \in Worker \ {w} : /\ pc'[v] = pc[v] /\ started'[v] = started[v]
                                /\ threat'[v] = threat[v] /\ token'[v] = token[v]
                                /\ reply'[v] = reply[v]
  PROVE  \A v \in Worker \ {w} :
           /\ pc'[v] # "idle" => now' <= started'[v] + Budget
           /\ pc'[v] = "answered" => /\ threat'[v].kind # "none" /\ threat'[v].of = token'[v]
                                     /\ started'[v] <= threat'[v].at
           /\ pc'[v] = "calling" \/ pc'[v] = "missed" => started'[v] <= now'
           /\ pc'[v] = "idle" /\ reply'[v] \in {"safe", "unsafe", "unknown"} =>
                /\ threat'[v].kind # "none" /\ threat'[v].of = token'[v]
                /\ reply'[v] = Result(token'[v], threat'[v])
                /\ started'[v] <= threat'[v].at + CacheTTL + Budget
  BY DEF EvidenceInv, VerdictIsEvidence

LEMMA EvidenceStep == TypeOK /\ EvidenceInv /\ [Next]_vars => EvidenceInv'
  <1> SUFFICES ASSUME TypeOK, EvidenceInv, [Next]_vars PROVE EvidenceInv'
    OBVIOUS
  <1>c. CacheTTL \in Nat /\ Budget \in Nat /\ now \in Nat
    BY ConstantsOK DEF ConstantsOK, TypeOK
  <1>1. CASE UNCHANGED vars
    BY <1>1 DEF EvidenceInv, VerdictIsEvidence, vars, Result
  <1>2. CASE Tick
    <2>1. /\ UNCHANGED <<pc, token, threat, reply, started, cache>> /\ now' = now + 1
          /\ \A w \in Worker : pc[w] # "idle" => now < started[w] + Budget
      BY <1>2 DEF Tick, lookup
    <2>2. \A w \in Worker : started[w] \in Nat
      BY DEF TypeOK
    <2> QED BY <2>1, <2>2, <1>c DEF EvidenceInv, VerdictIsEvidence, Result
  <1>3. ASSUME NEW w \in Worker, Look(w) PROVE EvidenceInv'
    <2> PICK t \in Token :
            /\ token' = [token EXCEPT ![w] = t]
            /\ IF Live(t)
               THEN /\ Tell(w, Result(t, cache[t].threat))
                    /\ threat' = [threat EXCEPT ![w] = cache[t].threat]
                    /\ UNCHANGED cache
               ELSE /\ pc' = [pc EXCEPT ![w] = "missed"]
                    /\ cache' = [cache EXCEPT ![t] = Absent(t)]
                    /\ UNCHANGED <<threat, reply>>
      BY <1>3 DEF Look
    <2>1. started' = [started EXCEPT ![w] = now] /\ now' = now /\ token'[w] = t /\ started'[w] = now
      BY <1>3 DEF Look, TypeOK
    <2>2. CASE Live(t)
      <3>1. /\ pc'[w] = "idle" /\ threat'[w] = cache[t].threat /\ cache' = cache
            /\ reply'[w] = Result(t, cache[t].threat)
        BY <2>2 DEF Tell, TypeOK
      <3>2. /\ cache[t].threat.kind # "none" /\ cache[t].threat.of = t
            /\ now <= cache[t].threat.at + CacheTTL + Budget
        <4>1. cache[t].expires \in Nat /\ cache[t].threat.at \in Nat
          BY DEF TypeOK, Entry, Threats
        <4> QED BY <2>2, <4>1, <1>c DEF Live, EvidenceInv
      <3>3. \A v \in Worker \ {w} : /\ pc'[v] = pc[v] /\ started'[v] = started[v]
                                     /\ threat'[v] = threat[v] /\ token'[v] = token[v]
                                     /\ reply'[v] = reply[v]
        BY <2>1, <2>2 DEF Tell, TypeOK
      <3> QED BY <2>1, <3>1, <3>2, <3>3, OthersKeep DEF EvidenceInv, VerdictIsEvidence
    <2>3. CASE ~Live(t)
      <3>1. pc'[w] = "missed" /\ \A u \in Token : cache'[u] = IF u = t THEN Absent(t) ELSE cache[u]
        BY <2>3 DEF TypeOK
      <3>2. Absent(t).threat.kind = "none"
        BY DEF Absent, Threat
      <3>3. \A v \in Worker \ {w} : /\ pc'[v] = pc[v] /\ started'[v] = started[v]
                                     /\ threat'[v] = threat[v] /\ token'[v] = token[v]
                                     /\ reply'[v] = reply[v]
        BY <2>1, <2>3 DEF TypeOK
      <3> QED BY <2>1, <3>1, <3>2, <3>3, <1>c, OthersKeep DEF EvidenceInv, VerdictIsEvidence
    <2> QED BY <2>2, <2>3
  <1>4. ASSUME NEW w \in Worker, Allow(w) PROVE EvidenceInv'
    <2>1. /\ UNCHANGED <<now, token, threat, cache, started>> /\ pc[w] = "missed"
          /\ \A v \in Worker \ {w} : pc'[v] = pc[v] /\ reply'[v] = reply[v]
          /\ \/ pc'[w] = "calling"
             \/ pc'[w] = "idle" /\ reply'[w] = "error"
      BY <1>4 DEF Allow, Admit, Tell, TypeOK
    <2> QED BY <2>1, OthersKeep DEF EvidenceInv, VerdictIsEvidence
  <1>5. ASSUME NEW w \in Worker, Answer(w) PROVE EvidenceInv'
    <2>1. PICK kind \in Kind : threat' = [threat EXCEPT ![w] = Threat(kind, token[w], now)]
      BY <1>5 DEF Answer
    <2>2. /\ UNCHANGED <<now, token, cache, reply, started>> /\ pc[w] = "calling"
          /\ pc'[w] = "answered" /\ threat'[w] = Threat(kind, token[w], now)
          /\ \A v \in Worker \ {w} : pc'[v] = pc[v] /\ threat'[v] = threat[v]
      BY <1>5, <2>1 DEF Answer, TypeOK
    <2>3. kind # "none" /\ started[w] <= now
      BY <2>2, ConstantsOK DEF ConstantsOK, EvidenceInv
    <2> QED BY <2>2, <2>3, OthersKeep DEF EvidenceInv, VerdictIsEvidence, Threat
  <1>6. ASSUME NEW w \in Worker, Fail(w) \/ Cancel(w) PROVE EvidenceInv'
    <2>1. /\ UNCHANGED <<now, token, threat, cache, started>>
          /\ \A v \in Worker \ {w} : pc'[v] = pc[v] /\ reply'[v] = reply[v]
          /\ pc'[w] = "idle" /\ reply'[w] = "error"
      BY <1>6 DEF Fail, Cancel, Tell, TypeOK
    <2> QED BY <2>1, OthersKeep DEF EvidenceInv, VerdictIsEvidence
  <1>7. ASSUME NEW w \in Worker, Store(w) PROVE EvidenceInv'
    <2>1. /\ UNCHANGED <<now, token, threat, started>> /\ pc[w] = "answered"
          /\ pc'[w] = "idle" /\ reply'[w] = Result(token[w], threat[w])
          /\ \A v \in Worker \ {w} : pc'[v] = pc[v] /\ reply'[v] = reply[v]
          /\ \A t \in Token : cache'[t] = IF t = token[w]
                THEN [threat |-> threat[w], expires |-> now + CacheTTL] ELSE cache[t]
      BY <1>7 DEF Store, Tell, TypeOK
    <2>2. /\ threat[w].kind # "none" /\ threat[w].of = token[w]
          /\ started[w] <= threat[w].at /\ now <= started[w] + Budget
          /\ started[w] \in Nat /\ threat[w].at \in Nat
      BY <2>1 DEF EvidenceInv, TypeOK, Threats
    <2>3. /\ now + CacheTTL <= threat[w].at + CacheTTL + Budget
          /\ started[w] <= threat[w].at + CacheTTL + Budget
      BY <2>2, <1>c
    <2>4. \A t \in Token : cache'[t].threat.kind # "none" =>
            /\ cache'[t].threat.of = t
            /\ cache'[t].expires <= cache'[t].threat.at + CacheTTL + Budget
      BY <2>1, <2>2, <2>3 DEF EvidenceInv
    <2> QED BY <2>1, <2>2, <2>3, <2>4, OthersKeep DEF EvidenceInv, VerdictIsEvidence
  <1> QED BY <1>1, <1>2, <1>3, <1>4, <1>5, <1>6, <1>7 DEF Next, Serve

\* A caller is told only what the provider said of that token, no longer ago
\* than the cache and the budget allow; an outage is never told as a verdict.
THEOREM VerdictsHaveEvidence == Spec => []VerdictIsEvidence
  <1>1. EvidenceInv => VerdictIsEvidence
    BY DEF EvidenceInv
  <1> QED BY <1>1, EvidenceInit, EvidenceStep, TypeCorrect, PTL DEF Spec
=============================================================================
