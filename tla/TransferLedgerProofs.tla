------------------------- MODULE TransferLedgerProofs -------------------------
(* What the wallet's transaction table guarantees for any number of          *)
(* transactions, wallets, screens, nonces and crashes.                        *)
EXTENDS TransferLedger, TLAPS

Begun(t)   == flow[t] \notin {"new", "quoted"}
Writing(t) == flow[t] \in {"reserved", "stored", "accepted", "rejected"}

\* A transaction is unknown before its flow reserves it, in the table and on
\* the chain; a row that its own flow may still write is live or its nonce is
\* consumed; a replacement competes for the nonce of its original.
FlowInv == \A t \in Tx :
    /\ ~Begun(t) => status[t] = "none" /\ t \notin network
    /\ Writing(t) => Live(t) \/ nonce[t] < spent
    /\ Writing(t) /\ flow[t] # "accepted" => t \notin network
    /\ flow[t] = "new" => replaces[t] = None
    /\ replaces[t] # None => nonce[replaces[t]] = nonce[t] /\ Begun(replaces[t])

\* Only what a node accepted is mined.
ChainInv == \A n \in Nonces : winner[n] \in Tx => winner[n] \in network

Proven(t, v) ==
    /\ v = "confirmed" => Mined(t) /\ t \notin reverted
    /\ v = "failed" => Mined(t) /\ t \in reverted
    /\ v = "replaced" => nonce[t] < spent

\* What a check has learned stays true however long it is kept.
Sound(t, k) ==
    /\ k.at # "idle" => Begun(t) /\ k.saw \in LiveStatus
    /\ k.at = "answered" => Proven(t, k.says)

CheckInv == \A c \in Check, t \in Tx : Sound(t, check[c][t])

VerdictInv == \A t \in Tx :
    /\ status[t] = "confirmed" => Mined(t) /\ t \notin reverted
    /\ status[t] = "failed" => \/ Mined(t) /\ t \in reverted
                               \/ t \notin network /\ flow[t] = "done"

IInv == TypeOK /\ FlowInv /\ ChainInv /\ CheckInv /\ VerdictInv /\ NonceCompetitors

LEMMA Constants == MaxNonce \in Nat /\ MaxCrash \in Nat /\ None \notin Tx /\ Foreign \notin Tx
                   /\ None # Foreign /\ Home \in Wallet
  BY ConstantsOK DEF ConstantsOK

LEMMA InitInv == Init => IInv
  <1> SUFFICES ASSUME Init PROVE IInv
    OBVIOUS
  <1>1. Idle \in Checks
    BY DEF Idle, Checks, Verdicts
  <1>2. check \in [Check -> [Tx -> Checks]] /\ hashed \in [Tx -> BOOLEAN]
    BY <1>1 DEF Init
  <1>3. TypeOK
    BY <1>2, Constants DEF Init, TypeOK, Statuses, Flows, Nonces
  <1>4. FlowInv /\ ChainInv
    BY Constants DEF Init, FlowInv, ChainInv, Begun, Writing
  <1>5. CheckInv
    BY DEF Init, CheckInv, Sound, Idle
  <1> QED BY <1>3, <1>4, <1>5 DEF Init, IInv, VerdictInv, NonceCompetitors, Live, LiveStatus

\* Only what a node accepted is mined.
LEMMA MinedLanded == ASSUME IInv, NEW t \in Tx, Mined(t) PROVE t \in network
  BY DEF IInv, TypeOK, ChainInv, Mined

-----------------------------------------------------------------------------
(* Three kinds of steps: a flow writes its own row, a check moves on without  *)
(* writing, a check writes its answer.                                        *)

\* A flow that goes on may bring its own row back to life; it only may while
\* the row is live or its nonce is consumed.
LEMMA FlowWrites ==
  ASSUME IInv, NEW t \in Tx, Writing(t),
         NEW f \in {"stored", "done"}, f = "stored" => flow[t] = "reserved", Goto(t, f),
         NEW s \in {"submitted", "pending", "failed"},
         s = "failed" => f = "done" /\ flow[t] # "accepted",
         status' \in {status, [status EXCEPT ![t] = s]},
         hashed' \in [Tx -> BOOLEAN], replacedBy' \in [Tx -> Tx \cup {None}],
         UNCHANGED <<owner, samples, chain, plan, check, current, crashes>>
  PROVE  IInv'
  <1>0. TypeOK /\ FlowInv /\ ChainInv /\ CheckInv /\ VerdictInv /\ NonceCompetitors
    BY DEF IInv
  <1>1. UNCHANGED <<owner, samples, network, spent, winner, reverted, nonce, replaces,
                    check, current, crashes>>
    BY DEF chain, plan
  <1>2. \A x \in Tx : /\ x # t => status'[x] = status[x] /\ flow'[x] = flow[x]
                      /\ flow'[t] = f
                      /\ status'[t] = status[t] \/ status'[t] = s
    BY <1>0 DEF TypeOK, Goto
  <1>3. flow' \in [Tx -> Flows]
    BY <1>0 DEF TypeOK, Goto, Flows
  <1>4. status' \in [Tx -> Statuses]
    BY <1>0 DEF TypeOK, Statuses, LiveStatus, Settled
  <1>5. TypeOK'
    BY <1>0, <1>1, <1>3, <1>4 DEF TypeOK
  <1>6. FlowInv'
    <2> SUFFICES ASSUME NEW x \in Tx
                 PROVE  /\ (~Begun(x) => status[x] = "none" /\ x \notin network)'
                        /\ (Writing(x) => Live(x) \/ nonce[x] < spent)'
                        /\ (Writing(x) /\ flow[x] # "accepted" => x \notin network)'
                        /\ (flow[x] = "new" => replaces[x] = None)'
                        /\ (replaces[x] # None => nonce[replaces[x]] = nonce[x]
                                                  /\ Begun(replaces[x]))'
      BY DEF FlowInv
    <2>1. CASE x # t
      <3>1. flow'[x] = flow[x] /\ status'[x] = status[x]
        BY <1>2, <2>1
      <3>2. replaces[x] \in Tx \cup {None} /\ \A y \in Tx : Begun(y) => Begun(y)'
        BY <1>0, <1>2 DEF TypeOK, Begun, Writing
      <3> QED BY <1>0, <1>1, <3>1, <3>2 DEF FlowInv, Begun, Writing, Live
    <2>2. CASE x = t
      <3>1. flow'[t] = f /\ (status'[t] = status[t] \/ status'[t] = s)
        BY <1>2
      <3>2. replaces[t] \in Tx \cup {None} /\ \A y \in Tx : Begun(y) => Begun(y)'
        BY <1>0, <1>2 DEF TypeOK, Begun, Writing
      <3>3. (Writing(t) => Live(t) \/ nonce[t] < spent)'
        BY <1>0, <1>1, <3>1 DEF FlowInv, Writing, Live, LiveStatus
      <3>4. (Writing(t) /\ flow[t] # "accepted" => t \notin network)'
        BY <1>0, <1>1, <3>1 DEF FlowInv, Writing
      <3> QED BY <1>0, <1>1, <2>2, <3>1, <3>2, <3>3, <3>4 DEF FlowInv, Begun
    <2> QED BY <2>1, <2>2
  <1>7. ChainInv' /\ \A x \in Tx : Mined(x)' <=> Mined(x)
    BY <1>0, <1>1 DEF ChainInv, Mined
  <1>8. CheckInv'
    <2>1. \A x \in Tx : Begun(x) => Begun(x)'
      BY <1>2 DEF Begun, Writing
    <2> QED BY <1>0, <1>1, <1>7, <2>1 DEF CheckInv, Sound, Proven
  <1>9. VerdictInv'
    <2>1. Writing(t) /\ flow[t] # "accepted" => t \notin network
      BY <1>0 DEF FlowInv
    <2>2. \A x \in Tx : flow[x] = "done" => flow'[x] = "done"
      BY <1>2 DEF Writing
    <2>3. \A x \in Tx : \/ status'[x] = status[x]
                        \/ status'[x] \in {"submitted", "pending"}
                        \/ status'[x] = "failed" /\ x \notin network /\ flow'[x] = "done"
      BY <1>2, <2>1
    <2> QED BY <1>0, <1>1, <1>7, <2>2, <2>3 DEF VerdictInv
  <1>10. NonceCompetitors'
    <2> SUFFICES ASSUME NEW x \in Tx, NEW y \in Tx, x # y, Live(x)', Live(y)',
                        owner[x] = owner[y], nonce[x] = nonce[y], spent <= nonce[x]
                 PROVE  replaces[x] = y \/ replaces[y] = x
      BY <1>1 DEF NonceCompetitors
    <2>1. nonce[x] \in Nat /\ nonce[y] \in Nat /\ spent \in Nat
      BY <1>0, Constants DEF TypeOK, Nonces
    <2>2. Live(t) \/ nonce[t] < spent
      BY <1>0 DEF FlowInv
    <2>3. \A z \in Tx : z # t => (Live(z)' <=> Live(z))
      BY <1>2 DEF Live
    <2>4. Live(x) /\ Live(y)
      BY <2>1, <2>2, <2>3
    <2> QED BY <1>0, <2>4 DEF NonceCompetitors
  <1> QED BY <1>5, <1>6, <1>7, <1>8, <1>9, <1>10 DEF IInv

\* A check that learns something true, or that ends, changes nothing else.
LEMMA CheckMoves ==
  ASSUME IInv, NEW c \in Check, NEW t \in Tx, NEW k \in Checks, Sound(t, k),
         Become(c, t, k), UNCHANGED <<row, chain, plan, flow, current, crashes>>
  PROVE  IInv'
  <1>0. TypeOK /\ FlowInv /\ ChainInv /\ CheckInv /\ VerdictInv /\ NonceCompetitors
    BY DEF IInv
  <1>1. UNCHANGED <<status, hashed, owner, replacedBy, samples, network, spent, winner,
                    reverted, nonce, replaces, flow, current, crashes>>
    BY DEF row, chain, plan
  <1>2. check' \in [Check -> [Tx -> Checks]]
    BY <1>0 DEF TypeOK, Become
  <1>3. TypeOK'
    BY <1>0, <1>1, <1>2 DEF TypeOK
  <1>4. FlowInv'
    BY <1>0, <1>1 DEF FlowInv, Begun, Writing, Live
  <1>5. ChainInv'
    BY <1>0, <1>1 DEF ChainInv
  <1>6. \A d \in Check, x \in Tx : check'[d][x] = IF d = c /\ x = t THEN k ELSE check[d][x]
    BY <1>0 DEF TypeOK, Become
  <1>7. \A d \in Check, x \in Tx : Sound(x, check'[d][x])
    BY <1>0, <1>6 DEF CheckInv
  <1>8. CheckInv'
    BY <1>1, <1>7 DEF CheckInv, Sound, Proven, Mined, Begun
  <1>9. VerdictInv' /\ NonceCompetitors'
    BY <1>0, <1>1 DEF VerdictInv, NonceCompetitors, Mined, Live
  <1> QED BY <1>3, <1>4, <1>5, <1>8, <1>9 DEF IInv

\* A check that writes leaves what is settled alone, and settles only what the
\* chain has decided.
LEMMA CheckWrites ==
  ASSUME IInv, NEW c \in Check, NEW t \in Tx, Become(c, t, Idle),
         status' \in [Tx -> Statuses],
         \A x \in Tx : \/ status'[x] = status[x]
                       \/ Live(x) /\ status'[x] \in LiveStatus
                       \/ Live(x) /\ status'[x] \in Settled /\ Proven(x, status'[x])
                          /\ nonce[x] < spent,
         replacedBy' \in [Tx -> Tx \cup {None}], samples' \in [Tx -> Nat],
         UNCHANGED <<hashed, owner, chain, plan, flow, current, crashes>>
  PROVE  IInv'
  <1>0. TypeOK /\ FlowInv /\ ChainInv /\ CheckInv /\ VerdictInv /\ NonceCompetitors
    BY DEF IInv
  <1>1. UNCHANGED <<hashed, owner, network, spent, winner,
                    reverted, nonce, replaces, flow, current, crashes>>
    BY DEF chain, plan
  <1>2. check' \in [Check -> [Tx -> Checks]]
    <2>1. Idle \in Checks
      BY DEF Idle, Checks, Verdicts
    <2> QED BY <1>0, <2>1 DEF TypeOK, Become
  <1>3. TypeOK'
    BY <1>0, <1>1, <1>2 DEF TypeOK
  <1>4. FlowInv'
    BY <1>0, <1>1 DEF FlowInv, Begun, Writing, Live, LiveStatus
  <1>5. ChainInv'
    BY <1>0, <1>1 DEF ChainInv
  <1>6. \A d \in Check, x \in Tx : check'[d][x] = IF d = c /\ x = t THEN Idle ELSE check[d][x]
    BY <1>0 DEF TypeOK, Become
  <1>7. \A d \in Check, x \in Tx : Sound(x, check'[d][x])
    BY <1>0, <1>6 DEF CheckInv, Sound, Idle
  <1>8. CheckInv'
    BY <1>1, <1>7 DEF CheckInv, Sound, Proven, Mined, Begun
  <1>9. VerdictInv'
    BY <1>0, <1>1 DEF VerdictInv, Mined, Proven, LiveStatus, Settled
  <1>10. \A x \in Tx : Live(x)' => Live(x)
    BY DEF Live, LiveStatus
  <1>11. NonceCompetitors'
    BY <1>0, <1>1, <1>10 DEF NonceCompetitors
  <1> QED BY <1>3, <1>4, <1>5, <1>8, <1>9, <1>11 DEF IInv

-----------------------------------------------------------------------------
(* The actions of a flow.                                                     *)

LEMMA WritesKeepInv ==
  ASSUME IInv, NEW t \in Tx, SignFails(t) \/ StoreHash(t) \/ LandAccepted(t)
                             \/ LandRejected(t) \/ LandLost(t)
  PROVE  IInv'
  <1>0. /\ status \in [Tx -> Statuses] /\ hashed \in [Tx -> BOOLEAN]
        /\ replacedBy \in [Tx -> Tx \cup {None}]
    BY DEF IInv, TypeOK
  <1>1. ASSUME NEW s, NEW h \in BOOLEAN, Overwrite(t, s, h)
        PROVE  /\ status' \in {status, [status EXCEPT ![t] = s]}
               /\ hashed' \in [Tx -> BOOLEAN]
    <2>1. hashed' \in {hashed, [hashed EXCEPT ![t] = hashed[t] \/ h]}
      BY <1>1 DEF Overwrite
    <2>2. (hashed[t] \/ h) \in BOOLEAN
      OBVIOUS
    <2>3. [hashed EXCEPT ![t] = hashed[t] \/ h] \in [Tx -> BOOLEAN]
      BY <1>0, <2>2
    <2> QED BY <1>0, <1>1, <2>1, <2>3 DEF Overwrite
  <1>2. CASE SignFails(t)
    <2>1. Writing(t) /\ flow[t] = "reserved" /\ Goto(t, "done") /\ Overwrite(t, "failed", FALSE)
      BY <1>2 DEF SignFails, Writing
    <2>2. /\ status' \in {status, [status EXCEPT ![t] = "failed"]}
          /\ hashed' \in [Tx -> BOOLEAN] /\ replacedBy' \in [Tx -> Tx \cup {None}]
      BY <1>0, <1>1, <1>2, <2>1 DEF SignFails
    <2>3. UNCHANGED <<owner, samples, chain, plan, check, current, crashes>>
      BY <1>2 DEF SignFails
    <2> QED BY <2>1, <2>2, <2>3, FlowWrites
  <1>3. CASE StoreHash(t)
    <2>1. Writing(t) /\ flow[t] = "reserved" /\ Goto(t, "stored") /\ Overwrite(t, "submitted", TRUE)
      BY <1>3 DEF StoreHash, Writing
    <2>2. /\ status' \in {status, [status EXCEPT ![t] = "submitted"]}
          /\ hashed' \in [Tx -> BOOLEAN] /\ replacedBy' \in [Tx -> Tx \cup {None}]
      BY <1>0, <1>1, <1>3, <2>1 DEF StoreHash
    <2>3. UNCHANGED <<owner, samples, chain, plan, check, current, crashes>>
      BY <1>3 DEF StoreHash
    <2> QED BY <2>1, <2>2, <2>3, FlowWrites
  <1>4. CASE LandAccepted(t)
    <2>1. Writing(t) /\ Goto(t, "done") /\ Overwrite(t, "pending", TRUE)
      BY <1>4 DEF LandAccepted, RecordReplacement, Writing
    <2>2. replacedBy' \in [Tx -> Tx \cup {None}]
      BY <1>0, <1>4 DEF LandAccepted, RecordReplacement
    <2>3. /\ status' \in {status, [status EXCEPT ![t] = "pending"]}
          /\ hashed' \in [Tx -> BOOLEAN]
      BY <1>1, <2>1
    <2>4. UNCHANGED <<owner, samples, chain, plan, check, current, crashes>>
      BY <1>4 DEF LandAccepted
    <2> QED BY <2>1, <2>2, <2>3, <2>4, FlowWrites
  <1>5. CASE LandRejected(t)
    <2>1. /\ Writing(t) /\ flow[t] = "rejected" /\ Goto(t, "done")
          /\ Overwrite(t, "failed", TRUE)
      BY <1>5 DEF LandRejected, Writing
    <2>2. /\ status' \in {status, [status EXCEPT ![t] = "failed"]}
          /\ hashed' \in [Tx -> BOOLEAN] /\ replacedBy' \in [Tx -> Tx \cup {None}]
      BY <1>0, <1>1, <1>5, <2>1 DEF LandRejected
    <2>3. UNCHANGED <<owner, samples, chain, plan, check, current, crashes>>
      BY <1>5 DEF LandRejected
    <2> QED BY <2>1, <2>2, <2>3, FlowWrites
  <1>6. CASE LandLost(t)
    <2>1. Writing(t) /\ Goto(t, "done") /\ UNCHANGED <<row, chain, plan, check, current, crashes>>
      BY <1>6 DEF LandLost, Writing
    <2>2. /\ status' \in {status, [status EXCEPT ![t] = "pending"]}
          /\ hashed' \in [Tx -> BOOLEAN] /\ replacedBy' \in [Tx -> Tx \cup {None}]
          /\ UNCHANGED <<owner, samples, chain, plan, check, current, crashes>>
      BY <1>0, <2>1 DEF row
    <2> QED BY <2>1, <2>2, FlowWrites
  <1> QED BY <1>2, <1>3, <1>4, <1>5, <1>6

\* Quote and Prepare give a transaction that nobody knows yet its nonce.
LEMMA PlanKeepsInv ==
  ASSUME IInv, NEW t \in Tx, Quote(t) \/ Prepare(t)
  PROVE  IInv'
  <1>0. TypeOK /\ FlowInv /\ ChainInv /\ CheckInv /\ VerdictInv /\ NonceCompetitors
    BY DEF IInv
  <1>1. /\ UNCHANGED <<status, hashed, owner, replacedBy, samples, network, spent, winner,
                       reverted, check, current, crashes>>
        /\ flow[t] = "new" /\ flow' = [flow EXCEPT ![t] = "quoted"]
    BY DEF Quote, Prepare, row, chain, Goto
  <1>2. PICK n \in Nonces : nonce' = [nonce EXCEPT ![t] = n]
    BY <1>0 DEF Quote, Prepare, TypeOK
  <1>3. /\ \A x \in Tx : x # t => nonce'[x] = nonce[x] /\ flow'[x] = flow[x]
        /\ nonce'[t] = n /\ flow'[t] = "quoted"
    BY <1>0, <1>1, <1>2 DEF TypeOK
  <1>4. /\ replaces' \in [Tx -> Tx \cup {None}]
        /\ \A x \in Tx : x # t => replaces'[x] = replaces[x]
        /\ replaces'[t] # None =>
              replaces'[t] \in Tx \ {t} /\ Begun(replaces'[t]) /\ nonce[replaces'[t]] = n
    <2>1. CASE Quote(t)
      BY <1>0, <1>1, <2>1 DEF Quote, TypeOK, FlowInv
    <2>2. CASE Prepare(t)
      <3>1. PICK o \in Tx \ {t} : /\ Replaceable(o)
                                  /\ nonce' = [nonce EXCEPT ![t] = nonce[o]]
                                  /\ replaces' = [replaces EXCEPT ![t] = o]
        BY <2>2 DEF Prepare
      <3>2. status[o] # "none"
        BY <3>1 DEF Replaceable, Live, LiveStatus
      <3>3. Begun(o)
        BY <1>0, <3>2 DEF FlowInv
      <3>4. n = nonce[o]
        BY <1>0, <1>3, <3>1 DEF TypeOK
      <3> QED BY <1>0, <3>1, <3>3, <3>4 DEF TypeOK
    <2> QED BY <2>1, <2>2
  <1>5. TypeOK'
    <2>1. flow' \in [Tx -> Flows] /\ nonce' \in [Tx -> Nonces]
      BY <1>0, <1>1, <1>2 DEF TypeOK, Flows
    <2> QED BY <1>0, <1>1, <1>4, <2>1 DEF TypeOK
  <1>6. /\ ~Begun(t) /\ status[t] = "none" /\ t \notin network /\ ~Live(t)
        /\ \A x \in Tx : Begun(x)' <=> Begun(x)
    BY <1>0, <1>1, <1>3 DEF FlowInv, Begun, Live, LiveStatus
  <1>7. FlowInv'
    <2> SUFFICES ASSUME NEW x \in Tx
                 PROVE  /\ (~Begun(x) => status[x] = "none" /\ x \notin network)'
                        /\ (Writing(x) => Live(x) \/ nonce[x] < spent)'
                        /\ (Writing(x) /\ flow[x] # "accepted" => x \notin network)'
                        /\ (flow[x] = "new" => replaces[x] = None)'
                        /\ (replaces[x] # None => nonce[replaces[x]] = nonce[x]
                                                  /\ Begun(replaces[x]))'
      BY DEF FlowInv
    <2>1. CASE x = t
      <3>1. ~Writing(x)' /\ flow'[x] # "new" /\ ~Begun(x)'
        BY <1>3, <2>1 DEF Writing, Begun
      <3>2. (replaces[t] # None => nonce[replaces[t]] = n /\ Begun(replaces[t]))'
        <4> DEFINE o == replaces'[t]
        <4>1. ASSUME o # None PROVE o \in Tx /\ o # t /\ Begun(o) /\ nonce[o] = n
          BY <1>4, <4>1
        <4>2. ASSUME o # None PROVE nonce'[o] = n /\ flow'[o] = flow[o]
          BY <1>3, <4>1, <4>2
        <4> QED BY <1>1, <1>2, <4>1, <4>2 DEF Begun
      <3> QED BY <1>1, <1>3, <1>6, <2>1, <3>1, <3>2
    <2>2. CASE x # t
      <3>1. flow'[x] = flow[x] /\ nonce'[x] = nonce[x] /\ replaces'[x] = replaces[x]
        BY <1>3, <1>4, <2>2
      <3>2. replaces[x] # None => replaces[x] \in Tx /\ Begun(replaces[x]) /\ replaces[x] # t
        BY <1>0, <1>6 DEF FlowInv, TypeOK
      <3>3. replaces[x] # None => nonce'[replaces[x]] = nonce[replaces[x]]
        BY <1>3, <3>2
      <3> QED BY <1>0, <1>1, <1>6, <3>1, <3>2, <3>3 DEF FlowInv, Writing, Live
    <2> QED BY <2>1, <2>2
  <1>8. ChainInv'
    BY <1>0, <1>1 DEF ChainInv
  <1>9. \A x \in Tx : x # t => (Mined(x)' <=> Mined(x))
    BY <1>1, <1>3 DEF Mined
  <1>10. CheckInv'
    <2> SUFFICES ASSUME NEW c \in Check, NEW x \in Tx PROVE Sound(x, check[c][x])'
      BY DEF CheckInv
    <2>1. Sound(x, check[c][x])
      BY <1>0 DEF CheckInv
    <2>2. x = t => check[c][x].at = "idle"
      BY <1>6, <2>1 DEF Sound
    <2> QED BY <1>1, <1>3, <1>6, <1>9, <2>1, <2>2 DEF Sound, Proven
  <1>11. VerdictInv'
    BY <1>0, <1>1, <1>3, <1>6, <1>9 DEF VerdictInv
  <1>12. NonceCompetitors'
    <2>1. ~Live(t)' /\ \A x \in Tx : Live(x)' <=> Live(x)
      BY <1>1, <1>6 DEF Live
    <2> QED BY <1>0, <1>1, <1>3, <1>4, <2>1 DEF NonceCompetitors
  <1> QED BY <1>5, <1>7, <1>8, <1>10, <1>11, <1>12 DEF IInv

\* The reservation is where competitors meet.
LEMMA ReserveKeepsInv ==
  ASSUME IInv, NEW t \in Tx, Reserve(t)
  PROVE  IInv'
  <1>0. TypeOK /\ FlowInv /\ ChainInv /\ CheckInv /\ VerdictInv /\ NonceCompetitors
    BY DEF IInv
  <1>1. /\ UNCHANGED <<hashed, replacedBy, samples, network, spent, winner, reverted, nonce,
                       replaces, check, current, crashes>>
        /\ flow[t] = "quoted" /\ flow' = [flow EXCEPT ![t] = flow'[t]]
        /\ flow'[t] \in {"reserved", "done"}
    <2>1. \E f \in {"reserved", "done"} : flow' = [flow EXCEPT ![t] = f]
      BY DEF Reserve, Goto
    <2> QED BY <1>0, <2>1 DEF Reserve, TypeOK, chain, plan
  <1>2. /\ \A x \in Tx : x # t => flow'[x] = flow[x]
        /\ status[t] = "none" /\ t \notin network /\ ~Live(t)
    BY <1>0, <1>1 DEF TypeOK, FlowInv, Begun, Live, LiveStatus
  <1>3. \/ status' = status /\ owner' = owner /\ flow'[t] = "done"
        \/ /\ Conflicts(t) = {} /\ status' = [status EXCEPT ![t] = "submitted"]
           /\ owner' = [owner EXCEPT ![t] = current] /\ flow'[t] = "reserved"
    BY <1>0 DEF Reserve, Goto, TypeOK
  <1>4. /\ \A x \in Tx : x # t => status'[x] = status[x] /\ owner'[x] = owner[x]
        /\ flow'[t] = "done" => status'[t] = "none"
        /\ flow'[t] = "reserved" => status'[t] = "submitted"
        /\ status'[t] \in {"none", "submitted"}
    BY <1>0, <1>2, <1>3 DEF TypeOK
  <1>5. TypeOK'
    <2>1. flow' \in [Tx -> Flows]
      BY <1>0, <1>1 DEF TypeOK, Flows
    <2>2. status' \in [Tx -> Statuses] /\ owner' \in [Tx -> Wallet]
      BY <1>0, <1>3 DEF TypeOK, Statuses, LiveStatus
    <2> QED BY <1>0, <1>1, <2>1, <2>2 DEF TypeOK
  <1>6. Begun(t)' /\ \A x \in Tx : Begun(x) => Begun(x)'
    BY <1>1, <1>2 DEF Begun
  <1>7. FlowInv'
    <2> SUFFICES ASSUME NEW x \in Tx
                 PROVE  /\ (~Begun(x) => status[x] = "none" /\ x \notin network)'
                        /\ (Writing(x) => Live(x) \/ nonce[x] < spent)'
                        /\ (Writing(x) /\ flow[x] # "accepted" => x \notin network)'
                        /\ (flow[x] = "new" => replaces[x] = None)'
                        /\ (replaces[x] # None => nonce[replaces[x]] = nonce[x]
                                                  /\ Begun(replaces[x]))'
      BY DEF FlowInv
    <2>1. (replaces[x] # None => nonce[replaces[x]] = nonce[x] /\ Begun(replaces[x]))'
      BY <1>0, <1>1, <1>6 DEF FlowInv, TypeOK
    <2>2. CASE x = t
      <3>1. (Writing(t) => Live(t))'
        BY <1>1, <1>4 DEF Writing, Live, LiveStatus
      <3> QED BY <1>1, <1>2, <1>6, <2>1, <2>2, <3>1
    <2>3. CASE x # t
      <3>1. flow'[x] = flow[x] /\ status'[x] = status[x]
        BY <1>2, <1>4, <2>3
      <3> QED BY <1>0, <1>1, <2>1, <3>1 DEF FlowInv, Begun, Writing, Live
    <2> QED BY <2>2, <2>3
  <1>8. ChainInv' /\ \A x \in Tx : Mined(x)' <=> Mined(x)
    BY <1>0, <1>1 DEF ChainInv, Mined
  <1>9. CheckInv'
    BY <1>0, <1>1, <1>6, <1>8 DEF CheckInv, Sound, Proven
  <1>10. VerdictInv'
    BY <1>0, <1>1, <1>2, <1>4, <1>8 DEF VerdictInv
  <1>11. NonceCompetitors'
    <2>1. CASE flow'[t] = "done"
      <3>1. status' = status /\ owner' = owner
        BY <1>3, <2>1
      <3> QED BY <1>0, <1>1, <3>1 DEF NonceCompetitors, Live
    <2>2. CASE flow'[t] = "reserved"
      <3>1. Conflicts(t) = {} /\ owner'[t] = current
        BY <1>0, <1>3, <2>2 DEF TypeOK
      <3>2. \A x \in Tx : Live(x) /\ owner[x] = current /\ nonce[x] = nonce[t] => x = replaces[t]
        BY <3>1 DEF Conflicts
      <3>3. \A x \in Tx : x # t => (Live(x)' <=> Live(x)) /\ owner'[x] = owner[x]
        BY <1>4 DEF Live
      <3> SUFFICES ASSUME NEW x \in Tx, NEW y \in Tx, x # y, Live(x)', Live(y)',
                          owner'[x] = owner'[y], nonce[x] = nonce[y], spent <= nonce[x]
                   PROVE  replaces[x] = y \/ replaces[y] = x
        BY <1>1 DEF NonceCompetitors
      <3>4. CASE x = t
        BY <3>1, <3>2, <3>3, <3>4
      <3>5. CASE y = t
        BY <3>1, <3>2, <3>3, <3>5
      <3>6. CASE x # t /\ y # t
        BY <1>0, <3>3, <3>6 DEF NonceCompetitors
      <3> QED BY <3>4, <3>5, <3>6
    <2> QED BY <1>1, <2>1, <2>2
  <1> QED BY <1>5, <1>7, <1>8, <1>9, <1>10, <1>11 DEF IInv

\* The POST may reach the node; nothing that is already said changes.
LEMMA SendKeepsInv ==
  ASSUME IInv, NEW t \in Tx, Send(t)
  PROVE  IInv'
  <1>0. TypeOK /\ FlowInv /\ ChainInv /\ CheckInv /\ VerdictInv /\ NonceCompetitors
    BY DEF IInv
  <1>1. /\ UNCHANGED <<status, hashed, owner, replacedBy, samples, spent, winner, reverted,
                       nonce, replaces, check, current, crashes>>
        /\ flow[t] = "stored" /\ flow' = [flow EXCEPT ![t] = flow'[t]]
        /\ \/ network' = network \cup {t} /\ flow'[t] \in {"accepted", "done"}
           \/ network' = network /\ flow'[t] \in {"rejected", "done"}
    <2>1. \/ /\ network' = network \cup {t}
             /\ \E f \in {"accepted", "done"} : flow' = [flow EXCEPT ![t] = f]
          \/ /\ network' = network
             /\ \E f \in {"rejected", "done"} : flow' = [flow EXCEPT ![t] = f]
      BY DEF Send
    <2> QED BY <1>0, <2>1 DEF Send, TypeOK, row, plan
  <1>2. /\ \A x \in Tx : x # t => flow'[x] = flow[x]
        /\ t \notin network /\ Writing(t) /\ (Live(t) \/ nonce[t] < spent)
    BY <1>0, <1>1 DEF TypeOK, FlowInv, Writing
  <1>3. TypeOK'
    <2>1. flow' \in [Tx -> Flows] /\ network' \subseteq Tx
      BY <1>0, <1>1 DEF TypeOK, Flows
    <2> QED BY <1>0, <1>1, <2>1 DEF TypeOK
  <1>4. Begun(t) /\ Begun(t)' /\ \A x \in Tx : Begun(x)' <=> Begun(x)
    BY <1>1, <1>2 DEF Begun
  <1>5. FlowInv'
    <2> SUFFICES ASSUME NEW x \in Tx
                 PROVE  /\ (~Begun(x) => status[x] = "none" /\ x \notin network)'
                        /\ (Writing(x) => Live(x) \/ nonce[x] < spent)'
                        /\ (Writing(x) /\ flow[x] # "accepted" => x \notin network)'
                        /\ (flow[x] = "new" => replaces[x] = None)'
                        /\ (replaces[x] # None => nonce[replaces[x]] = nonce[x]
                                                  /\ Begun(replaces[x]))'
      BY DEF FlowInv
    <2>1. (replaces[x] # None => nonce[replaces[x]] = nonce[x] /\ Begun(replaces[x]))'
      BY <1>0, <1>1, <1>4 DEF FlowInv, TypeOK
    <2>2. CASE x = t
      <3>1. (Live(t) \/ nonce[t] < spent)'
        BY <1>1, <1>2 DEF Live
      <3>2. (Writing(t) /\ flow[t] # "accepted" => t \notin network)'
        BY <1>1, <1>2 DEF Writing
      <3> QED BY <1>1, <1>4, <2>1, <2>2, <3>1, <3>2
    <2>3. CASE x # t
      <3>1. flow'[x] = flow[x] /\ (x \in network' <=> x \in network)
        BY <1>1, <1>2, <2>3
      <3> QED BY <1>0, <1>1, <2>1, <3>1 DEF FlowInv, Begun, Writing, Live
    <2> QED BY <2>2, <2>3
  <1>6. ChainInv' /\ \A x \in Tx : Mined(x)' <=> Mined(x)
    BY <1>0, <1>1 DEF ChainInv, Mined
  <1>7. CheckInv'
    BY <1>0, <1>1, <1>4, <1>6 DEF CheckInv, Sound, Proven
  <1>8. VerdictInv'
    <2>1. ~Mined(t)
      BY <1>2, MinedLanded
    <2>2. status[t] # "failed"
      BY <1>0, <1>1, <2>1 DEF VerdictInv
    <2>3. \A x \in Tx : x # t => flow'[x] = flow[x] /\ (x \in network' <=> x \in network)
      BY <1>1, <1>2
    <2> QED BY <1>0, <1>1, <1>6, <2>2, <2>3 DEF VerdictInv
  <1>9. NonceCompetitors'
    BY <1>0, <1>1 DEF NonceCompetitors, Live
  <1> QED BY <1>3, <1>5, <1>6, <1>7, <1>8, <1>9 DEF IInv

-----------------------------------------------------------------------------
(* The actions of a check.                                                    *)

\* Each request of a check adds what it proves to what the check knows.
LEMMA PollKeepsInv ==
  ASSUME IInv, NEW c \in Check, NEW t \in Tx,
         Look(c, t) \/ Receipt(c, t) \/ Listed(c, t) \/ Unlisted(c, t) \/ ByNonce(c, t)
         \/ Unheard(c, t) \/ Abandon(c, t)
  PROVE  IInv'
  <1> DEFINE k == check[c][t]
  <1>0. /\ k \in Checks /\ Sound(t, k) /\ status[t] \in Statuses
        /\ nonce[t] \in Nat /\ spent \in Nat
    BY Constants DEF IInv, TypeOK, CheckInv, Nonces
  <1>1. UNCHANGED <<row, chain, plan, flow, current, crashes>>
    BY DEF Look, Receipt, Listed, Unlisted, ByNonce, Unheard, Abandon
  <1>2. \A a \in {"asked", "unmined", "unlisted"} : k.at = a =>
          /\ [k EXCEPT !.at = "unmined"] \in Checks /\ Sound(t, [k EXCEPT !.at = "unmined"])
          /\ [k EXCEPT !.at = "unlisted"] \in Checks /\ Sound(t, [k EXCEPT !.at = "unlisted"])
          /\ \A v \in Verdicts : Proven(t, v) =>
               /\ [k EXCEPT !.at = "answered", !.says = v] \in Checks
               /\ Sound(t, [k EXCEPT !.at = "answered", !.says = v])
    BY <1>0 DEF Checks, Sound
  <1>3. CASE Look(c, t)
    <2> DEFINE e == [Idle EXCEPT !.at = "asked", !.saw = status[t]]
    <2>1. Become(c, t, e) /\ Live(t)
      BY <1>3 DEF Look
    <2>2. e \in Checks
      BY <2>1 DEF Idle, Checks, Verdicts, Live
    <2>3. Begun(t)
      BY <2>1 DEF IInv, FlowInv, Live, LiveStatus
    <2>4. Sound(t, e)
      BY <2>1, <2>3 DEF Sound, Idle, Live
    <2> QED BY <1>1, <2>1, <2>2, <2>4, CheckMoves
  <1>4. CASE Receipt(c, t)
    <2>1. k.at = "asked"
      BY <1>4 DEF Receipt
    <2>2. CASE Mined(t) /\ t \notin reverted /\ Says(c, t, "confirmed")
      <3>1. Proven(t, "confirmed") /\ "confirmed" \in Verdicts
        BY <2>2 DEF Proven, Verdicts
      <3> QED BY <1>1, <1>2, <2>1, <2>2, <3>1, CheckMoves DEF Says
    <2>3. CASE Mined(t) /\ t \in reverted /\ Says(c, t, "failed")
      <3>1. Proven(t, "failed") /\ "failed" \in Verdicts
        BY <2>3 DEF Proven, Verdicts
      <3> QED BY <1>1, <1>2, <2>1, <2>3, <3>1, CheckMoves DEF Says
    <2>4. CASE Become(c, t, [k EXCEPT !.at = "unmined"])
      BY <1>1, <1>2, <2>1, <2>4, CheckMoves
    <2> QED BY <1>4, <2>2, <2>3, <2>4 DEF Receipt
  <1>5. CASE Listed(c, t)
    <2>1. k.at = "unmined" /\ Says(c, t, "pending") /\ Proven(t, "pending") /\ "pending" \in Verdicts
      BY <1>5 DEF Listed, Proven, Verdicts
    <2> QED BY <1>1, <1>2, <2>1, CheckMoves DEF Says
  <1>6. CASE Unlisted(c, t)
    BY <1>1, <1>2, <1>6, CheckMoves DEF Unlisted
  <1>7. CASE ByNonce(c, t)
    <2> DEFINE v == IF spent > nonce[t] THEN "replaced" ELSE "unknown"
    <2>1. k.at = "unlisted" /\ Says(c, t, v)
      BY <1>7 DEF ByNonce
    <2>2. Proven(t, v) /\ v \in Verdicts
      BY <1>0 DEF Proven, Verdicts
    <2> HIDE DEF v
    <2> QED BY <1>1, <1>2, <2>1, <2>2, CheckMoves DEF Says
  <1>8. CASE Unheard(c, t)
    <2>1. /\ k.at \in {"asked", "unmined", "unlisted"} /\ Says(c, t, "unknown")
          /\ Proven(t, "unknown") /\ "unknown" \in Verdicts
      BY <1>8 DEF Unheard, Proven, Verdicts
    <2> QED BY <1>1, <1>2, <2>1, CheckMoves DEF Says
  <1>9. CASE Abandon(c, t)
    <2>1. Idle \in Checks /\ Sound(t, Idle) /\ Become(c, t, Idle)
      BY <1>9 DEF Abandon, Idle, Checks, Verdicts, Sound
    <2> QED BY <1>1, <2>1, CheckMoves
  <1> QED BY <1>3, <1>4, <1>5, <1>6, <1>7, <1>8, <1>9

\* A competitor of t competes for the nonce of t.
LEMMA CompetitorNonce ==
  ASSUME IInv, NEW t \in Tx, NEW x \in Competitors(t)
  PROVE  x \in Tx /\ Live(x) /\ nonce[x] = nonce[t]
  <1>1. x \in Tx /\ Live(x) /\ (replaces[t] = x \/ replaces[x] = t) /\ None \notin Tx
    BY Constants DEF Competitors
  <1> QED BY <1>1 DEF IInv, FlowInv

LEMMA WriteKeepsInv ==
  ASSUME IInv, NEW c \in Check, NEW t \in Tx, Write(c, t)
  PROVE  IInv'
  <1> DEFINE k == check[c][t]
  <1>0. /\ TypeOK /\ k \in Checks /\ Sound(t, k) /\ nonce[t] \in Nat /\ spent \in Nat
    BY Constants DEF IInv, TypeOK, CheckInv, Nonces
  <1>1. /\ Become(c, t, Idle) /\ k.at = "answered"
        /\ UNCHANGED <<hashed, owner, chain, plan, flow, current, crashes>>
    BY DEF Write
  <1>2. Proven(t, k.says) /\ k.saw \in LiveStatus
    BY <1>0, <1>1 DEF Sound
  <1>3. /\ status \in [Tx -> Statuses] /\ replacedBy \in [Tx -> Tx \cup {None}]
        /\ samples \in [Tx -> Nat] /\ \A x \in Tx : samples[x] + 1 \in Nat
    BY <1>0 DEF TypeOK
  <1>4. CASE k.says \in {"confirmed", "failed"} /\ Settle(t, k.says)
    <2>1. CASE ~Live(t)
      <3>1. UNCHANGED <<status, replacedBy, samples>>
        BY <1>4, <2>1 DEF Settle
      <3> QED BY <1>1, <1>3, <3>1, CheckWrites
    <2>2. CASE Live(t)
      <3>1. nonce[t] < spent
        BY <1>2, <1>4 DEF Proven, Mined
      <3>2. /\ status' = [x \in Tx |-> IF x = t THEN k.says
                                       ELSE IF x \in Competitors(t) THEN "replaced"
                                       ELSE status[x]]
            /\ replacedBy' = [x \in Tx |-> IF x \in Competitors(t) THEN t ELSE replacedBy[x]]
            /\ samples' = [x \in Tx |-> IF x \in Competitors(t) \cup {t}
                                        THEN samples[x] + 1 ELSE samples[x]]
        BY <1>4, <2>2 DEF Settle
      <3>3. \A x \in Tx : \/ status'[x] = status[x]
                          \/ Live(x) /\ status'[x] \in Settled /\ Proven(x, status'[x])
                             /\ nonce[x] < spent
        <4> SUFFICES ASSUME NEW x \in Tx, status'[x] # status[x]
                     PROVE  Live(x) /\ status'[x] \in Settled /\ Proven(x, status'[x])
                            /\ nonce[x] < spent
          OBVIOUS
        <4>1. CASE x = t
          BY <1>2, <1>4, <2>2, <3>1, <3>2, <4>1 DEF Settled
        <4>2. CASE x # t
          <5>1. x \in Competitors(t) /\ status'[x] = "replaced"
            BY <3>2, <4>2
          <5>2. Live(x) /\ nonce[x] = nonce[t]
            BY <5>1, CompetitorNonce
          <5> QED BY <3>1, <5>1, <5>2 DEF Settled, Proven
        <4> QED BY <4>1, <4>2
      <3>4. status' \in [Tx -> Statuses]
        BY <1>3, <1>4, <3>2 DEF Statuses, Settled
      <3>5. replacedBy' \in [Tx -> Tx \cup {None}] /\ samples' \in [Tx -> Nat]
        BY <1>3, <3>2
      <3> QED BY <1>1, <3>3, <3>4, <3>5, CheckWrites
    <2> QED BY <2>1, <2>2
  <1>5. CASE k.says = "replaced" /\ WriteFinal(t, "replaced") /\ UNCHANGED replacedBy
    <2>1. CASE ~Live(t)
      <3>1. UNCHANGED <<status, replacedBy, samples>>
        BY <1>5, <2>1 DEF WriteFinal
      <3> QED BY <1>1, <1>3, <3>1, CheckWrites
    <2>2. CASE Live(t)
      <3>1. /\ status' = [status EXCEPT ![t] = "replaced"]
            /\ samples' = [samples EXCEPT ![t] = samples[t] + 1]
            /\ nonce[t] < spent /\ Proven(t, "replaced")
        BY <1>2, <1>5, <2>2 DEF WriteFinal, Proven
      <3>2. status' \in [Tx -> Statuses] /\ samples' \in [Tx -> Nat]
        BY <1>3, <3>1 DEF Statuses, Settled
      <3>3. \A x \in Tx : \/ status'[x] = status[x]
                          \/ Live(x) /\ status'[x] \in Settled /\ Proven(x, status'[x])
                             /\ nonce[x] < spent
        BY <1>3, <2>2, <3>1 DEF Settled
      <3> QED BY <1>1, <1>3, <1>5, <3>2, <3>3, CheckWrites
    <2> QED BY <2>1, <2>2
  <1>6. ASSUME NEW s \in LiveStatus, WriteChecked(t, s), UNCHANGED <<replacedBy, samples>>
        PROVE  IInv'
    <2>1. status' \in [Tx -> Statuses]
      BY <1>3, <1>6 DEF WriteChecked, Statuses
    <2>2. \A x \in Tx : status'[x] = status[x] \/ (Live(x) /\ status'[x] \in LiveStatus)
      BY <1>3, <1>6 DEF WriteChecked
    <2> QED BY <1>1, <1>3, <1>6, <2>1, <2>2, CheckWrites
  <1>7. "pending" \in LiveStatus
    BY DEF LiveStatus
  <1>8. CASE /\ k.says = "pending" /\ \E s \in {"pending", k.saw} : WriteChecked(t, s)
             /\ UNCHANGED <<replacedBy, samples>>
    BY <1>2, <1>6, <1>7, <1>8
  <1>9. CASE k.says = "unknown" /\ WriteChecked(t, k.saw) /\ UNCHANGED <<replacedBy, samples>>
    BY <1>2, <1>6, <1>9
  <1> QED BY <1>4, <1>5, <1>8, <1>9 DEF Write

-----------------------------------------------------------------------------
(* The user, the operating system and the chain.                              *)

LEMMA SelectKeepsInv ==
  ASSUME IInv, NEW w \in Wallet, Select(w) PROVE IInv'
  <1>1. /\ UNCHANGED <<status, hashed, owner, replacedBy, samples, network, spent, winner,
                       reverted, nonce, replaces, flow, check, crashes>>
        /\ current' \in Wallet
    BY DEF Select, row, chain, plan
  <1>2. TypeOK'
    BY <1>1 DEF IInv, TypeOK
  <1>3. FlowInv' /\ ChainInv' /\ CheckInv'
    BY <1>1 DEF IInv, FlowInv, ChainInv, CheckInv, Begun, Writing, Live, Sound, Proven, Mined
  <1>4. VerdictInv' /\ NonceCompetitors'
    BY <1>1 DEF IInv, VerdictInv, NonceCompetitors, Live, Mined
  <1> QED BY <1>2, <1>3, <1>4 DEF IInv

\* A crash loses every flow and every check, and no row.
LEMMA CrashKeepsInv ==
  ASSUME IInv, Crash PROVE IInv'
  <1>0. TypeOK /\ FlowInv /\ ChainInv /\ CheckInv /\ VerdictInv /\ NonceCompetitors
    BY DEF IInv
  <1>1. /\ UNCHANGED <<status, hashed, owner, replacedBy, samples, network, spent, winner,
                       reverted, nonce, replaces, current>>
        /\ flow' = [t \in Tx |-> IF flow[t] = "new" THEN "new" ELSE "done"]
        /\ check' = [c \in Check |-> [t \in Tx |-> Idle]] /\ crashes' = crashes + 1
    BY DEF Crash, row, chain, plan
  <1>2. TypeOK'
    <2>1. flow' \in [Tx -> Flows] /\ crashes' \in Nat
      BY <1>0, <1>1 DEF TypeOK, Flows
    <2>2. Idle \in Checks
      BY DEF Idle, Checks, Verdicts
    <2>3. check' \in [Check -> [Tx -> Checks]]
      BY <1>1, <2>2
    <2> QED BY <1>0, <1>1, <2>1, <2>3 DEF TypeOK
  <1>3. \A t \in Tx : /\ flow'[t] \in {"new", "done"} /\ (flow[t] = "done" => flow'[t] = "done")
                      /\ (flow'[t] = "new" <=> flow[t] = "new")
    BY <1>1
  <1>4. FlowInv'
    BY <1>0, <1>1, <1>3 DEF FlowInv, TypeOK, Begun, Writing
  <1>5. ChainInv'
    BY <1>0, <1>1 DEF ChainInv
  <1>6. CheckInv'
    BY <1>1 DEF CheckInv, Sound, Idle
  <1>7. VerdictInv' /\ NonceCompetitors'
    BY <1>0, <1>1, <1>3 DEF VerdictInv, NonceCompetitors, Live, Mined
  <1> QED BY <1>2, <1>4, <1>5, <1>6, <1>7 DEF IInv

\* A block consumes the next nonce: what was mined stays mined.
LEMMA MineKeepsInv ==
  ASSUME IInv, NEW x \in network \cup {Foreign}, Mine(x) PROVE IInv'
  <1>0. TypeOK /\ FlowInv /\ ChainInv /\ CheckInv /\ VerdictInv /\ NonceCompetitors
    BY DEF IInv
  <1>1. /\ UNCHANGED <<status, hashed, owner, replacedBy, samples, network, nonce, replaces,
                       flow, check, current, crashes>>
        /\ spent \in Nonces /\ spent \in Nat /\ spent <= MaxNonce /\ spent' = spent + 1
        /\ winner' = [winner EXCEPT ![spent] = x]
        /\ x # Foreign => x \in Tx /\ x \in network /\ nonce[x] = spent
        /\ reverted' \in {reverted, reverted \cup ({x} \cap Tx)}
    BY <1>0, Constants DEF Mine, TypeOK, Nonces, row, plan
  <1>2. \A t \in Tx : nonce[t] \in Nonces /\ nonce[t] \in Nat
    BY <1>0, Constants DEF TypeOK, Nonces
  <1>3. TypeOK'
    <2>1. spent' \in 0..(MaxNonce + 1) /\ winner' \in [Nonces -> Tx \cup {None, Foreign}]
      BY <1>0, <1>1, Constants DEF TypeOK
    <2> QED BY <1>0, <1>1, <2>1 DEF TypeOK
  <1>4. \A t \in Tx : nonce[t] < spent => nonce[t] < spent'
    BY <1>1, <1>2
  <1>5. FlowInv'
    BY <1>0, <1>1, <1>4 DEF FlowInv, TypeOK, Begun, Writing, Live
  <1>6. ChainInv'
    BY <1>0, <1>1, Constants DEF ChainInv, TypeOK
  <1>7. \A t \in Tx : Mined(t) => Mined(t)' /\ (t \in reverted' <=> t \in reverted)
    <2> SUFFICES ASSUME NEW t \in Tx, Mined(t)
                 PROVE  Mined(t)' /\ (t \in reverted' <=> t \in reverted)
      OBVIOUS
    <2>1. nonce[t] # spent /\ nonce[t] < spent /\ winner[nonce[t]] = t
      BY <1>1, <1>2 DEF Mined
    <2>2. Mined(t)'
      BY <1>0, <1>1, <1>2, <1>4, <2>1 DEF Mined, TypeOK
    <2>3. t # x
      BY <1>1, <2>1, Constants
    <2> QED BY <1>1, <2>2, <2>3
  <1>8. CheckInv'
    BY <1>0, <1>1, <1>4, <1>7 DEF CheckInv, Sound, Proven, Begun
  <1>9. VerdictInv'
    BY <1>0, <1>1, <1>7 DEF VerdictInv
  <1>10. NonceCompetitors'
    <2> SUFFICES ASSUME NEW u \in Tx, NEW v \in Tx, u # v, Live(u), Live(v),
                        owner[u] = owner[v], nonce[u] = nonce[v], spent + 1 <= nonce[u]
                 PROVE  replaces[u] = v \/ replaces[v] = u
      BY <1>1 DEF NonceCompetitors, Live
    <2>1. spent <= nonce[u]
      BY <1>1, <1>2
    <2> QED BY <1>0, <2>1 DEF NonceCompetitors
  <1> QED BY <1>3, <1>5, <1>6, <1>8, <1>9, <1>10 DEF IInv

-----------------------------------------------------------------------------
(* The invariant, and what follows from it.                                   *)

LEMMA StepInv == IInv /\ [Next]_vars => IInv'
  <1> SUFFICES ASSUME IInv, [Next]_vars PROVE IInv'
    OBVIOUS
  <1>1. ASSUME NEW t \in Tx, Flow(t) PROVE IInv'
    BY <1>1, PlanKeepsInv, ReserveKeepsInv, WritesKeepInv, SendKeepsInv DEF Flow, Send_
  <1>2. ASSUME NEW t \in Tx, NEW c \in Check, Poll(c, t) PROVE IInv'
    BY <1>2, PollKeepsInv, WriteKeepsInv DEF Poll
  <1>3. CASE UNCHANGED vars
    <2>1. UNCHANGED <<status, hashed, owner, replacedBy, samples, network, spent, winner,
                      reverted, nonce, replaces, flow, check, current, crashes>>
      BY <1>3 DEF vars, row, chain, plan
    <2>2. TypeOK' /\ FlowInv' /\ ChainInv'
      BY <2>1 DEF IInv, TypeOK, FlowInv, ChainInv, Begun, Writing, Live
    <2>3. CheckInv' /\ VerdictInv' /\ NonceCompetitors'
      BY <2>1 DEF IInv, CheckInv, VerdictInv, NonceCompetitors, Sound, Proven, Begun, Live, Mined
    <2> QED BY <2>2, <2>3 DEF IInv
  <1> QED BY <1>1, <1>2, <1>3, SelectKeepsInv, CrashKeepsInv, MineKeepsInv DEF Next

\* The inductive invariant holds in every behaviour.
THEOREM Invariance == Spec => []IInv
  BY InitInv, StepInv, PTL DEF Spec

\* Every variable keeps its shape, for any number of transactions, wallets,
\* screens and nonces.
THEOREM TypeCorrect == Spec => []TypeOK
  <1>1. IInv => TypeOK
    BY DEF IInv
  <1> QED BY <1>1, Invariance, PTL

\* No interleaving of sends, speed-ups, cancels, late answers, checks and
\* crashes gives an unconsumed nonce two live rows of a wallet that are not an
\* original and its replacement.
THEOREM OneLiveLineage == Spec => []NonceCompetitors
  <1>1. IInv => NonceCompetitors
    BY DEF IInv
  <1> QED BY <1>1, Invariance, PTL

\* A row says confirmed or failed only when it is so.
THEOREM VerdictsHold == Spec => []VerdictsAreTrue
  <1>1. IInv => VerdictsAreTrue
    BY DEF IInv, VerdictInv, VerdictsAreTrue
  <1> QED BY <1>1, Invariance, PTL

\* A step of a flow never leaves it where it was.
LEMMA FlowsMove ==
  ASSUME flow \in [Tx -> Flows], NEW t \in Tx, Flow(t)
  PROVE  flow' # flow /\ UNCHANGED samples
  <1>1. \E f : f # flow[t] /\ flow' = [flow EXCEPT ![t] = f]
    BY DEF Flow, Send_, Quote, Prepare, Reserve, SignFails, StoreHash, Send,
           LandAccepted, LandRejected, LandLost, Goto
  <1>2. UNCHANGED samples
    BY DEF Flow, Send_, Quote, Prepare, Reserve, SignFails, StoreHash, Send,
           LandAccepted, LandRejected, LandLost, row
  <1> QED BY <1>1, <1>2

\* No check, however late, changes a settled row.
THEOREM SettledByChecks == Spec => ChecksNeverRevive
  <1>1. IInv /\ [Next]_vars =>
          [flow' = flow =>
             \A t \in Tx : status[t] \in Settled => status'[t] = status[t]]_vars
    <2> SUFFICES ASSUME IInv, Next, flow' = flow,
                        NEW t \in Tx, status[t] \in Settled
                 PROVE  status'[t] = status[t]
      OBVIOUS
    <2>0. /\ ~Live(t) /\ status \in [Tx -> Statuses]
          /\ flow \in [Tx -> Flows] /\ FlowInv
      BY DEF Live, LiveStatus, Settled, IInv, TypeOK
    <2>1. ASSUME NEW x \in Tx, Flow(x) PROVE FALSE
      BY <2>0, <2>1, FlowsMove
    <2>2. ASSUME NEW x \in Tx, NEW c \in Check, Poll(c, x) PROVE status'[t] = status[t]
      <3>1. CASE Write(c, x)
        <4>1. t \notin Competitors(x)
          BY <2>0 DEF Competitors
        <4> QED BY <2>0, <3>1, <4>1 DEF Write, Settle, WriteFinal, WriteChecked
      <3>2. CASE ~Write(c, x)
        BY <2>2, <3>2 DEF Poll, Look, Receipt, Listed, Unlisted, ByNonce, Unheard, Abandon, row
      <3> QED BY <3>1, <3>2
    <2>3. CASE (\E w \in Wallet : Select(w)) \/ Crash \/ \E x \in network \cup {Foreign} : Mine(x)
      BY <2>3 DEF Select, Crash, Mine, row
    <2> QED BY <2>1, <2>2, <2>3 DEF Next
  <1> QED BY <1>1, Invariance, PTL DEF Spec, ChecksNeverRevive

\* A check that settles rows counts each of them once, in the same step; no
\* other step counts anything.
THEOREM SettlementsAreCounted == Spec => OneSamplePerSettlement
  <1>1. IInv /\ [Next]_vars =>
          [\A t \in Tx : samples'[t] = samples[t]
              + IF flow' = flow /\ Live(t) /\ status'[t] \in Settled THEN 1 ELSE 0]_vars
    <2> SUFFICES ASSUME IInv, Next, NEW t \in Tx
                 PROVE  samples'[t] = samples[t]
                          + IF flow' = flow /\ Live(t) /\ status'[t] \in Settled THEN 1 ELSE 0
      OBVIOUS
    <2>0. /\ status \in [Tx -> Statuses] /\ samples \in [Tx -> Nat] /\ flow \in [Tx -> Flows]
          /\ \A s : s \in LiveStatus => s \notin Settled
      BY DEF IInv, TypeOK, LiveStatus, Settled
    <2>1. ASSUME UNCHANGED samples, flow' # flow \/ UNCHANGED status
          PROVE  samples'[t] = samples[t]
                   + IF flow' = flow /\ Live(t) /\ status'[t] \in Settled THEN 1 ELSE 0
      <3>1. ~(flow' = flow /\ Live(t) /\ status'[t] \in Settled)
        BY <2>0, <2>1 DEF Live
      <3> QED BY <2>0, <2>1, <3>1
    <2>2. ASSUME NEW x \in Tx, Flow(x) PROVE UNCHANGED samples /\ flow' # flow
      BY <2>0, <2>2, FlowsMove
    <2>3. ASSUME NEW x \in Tx, NEW c \in Check, Write(c, x)
          PROVE  samples'[t] = samples[t]
                   + IF flow' = flow /\ Live(t) /\ status'[t] \in Settled THEN 1 ELSE 0
      <3>1. flow' = flow
        BY <2>3 DEF Write
      <3>2. check[c][x].saw \in LiveStatus
        BY <2>3 DEF Write, IInv, CheckInv, Sound
      <3>3. \A y \in Competitors(x) : Live(y)
        BY DEF Competitors
      <3>4. CASE check[c][x].says \in {"confirmed", "failed"} /\ Settle(x, check[c][x].says)
        <4>1. CASE ~Live(x)
          BY <2>1, <3>4, <4>1 DEF Settle
        <4>2. CASE Live(x) /\ t \in Competitors(x) \cup {x}
          <5>1. samples'[t] = samples[t] + 1 /\ Live(t) /\ status'[t] \in Settled
            BY <3>3, <3>4, <4>2 DEF Settle, Settled
          <5> QED BY <3>1, <5>1
        <4>3. CASE Live(x) /\ t \notin Competitors(x) \cup {x}
          <5>1. samples'[t] = samples[t] /\ status'[t] = status[t]
            BY <3>4, <4>3 DEF Settle
          <5> QED BY <2>0, <5>1 DEF Live
        <4> QED BY <4>1, <4>2, <4>3
      <3>5. CASE WriteFinal(x, "replaced")
        <4>1. CASE ~Live(x)
          BY <2>1, <3>5, <4>1 DEF WriteFinal
        <4>2. CASE Live(x) /\ x = t
          <5>1. samples'[t] = samples[t] + 1 /\ status'[t] = "replaced"
            BY <2>0, <3>5, <4>2 DEF WriteFinal
          <5> QED BY <3>1, <4>2, <5>1 DEF Settled
        <4>3. CASE Live(x) /\ x # t
          <5>1. samples'[t] = samples[t] /\ status'[t] = status[t]
            BY <2>0, <3>5, <4>3 DEF WriteFinal
          <5> QED BY <2>0, <5>1 DEF Live
        <4> QED BY <4>1, <4>2, <4>3
      <3>6. ASSUME NEW s \in LiveStatus, WriteChecked(x, s), UNCHANGED samples
            PROVE  samples'[t] = samples[t]
                     + IF flow' = flow /\ Live(t) /\ status'[t] \in Settled THEN 1 ELSE 0
        <4>1. Live(t) => status'[t] \notin Settled
          BY <2>0, <3>6 DEF WriteChecked, Live
        <4> QED BY <2>0, <3>6, <4>1
      <3>7. "pending" \in LiveStatus
        BY DEF LiveStatus
      <3> QED BY <2>3, <3>2, <3>4, <3>5, <3>6, <3>7 DEF Write
    <2>4. ASSUME NEW x \in Tx, NEW c \in Check, Poll(c, x), ~Write(c, x)
          PROVE  UNCHANGED <<status, samples>>
      BY <2>4 DEF Poll, Look, Receipt, Listed, Unlisted, ByNonce, Unheard, Abandon, row
    <2>5. CASE (\E w \in Wallet : Select(w)) \/ Crash \/ \E x \in network \cup {Foreign} : Mine(x)
      BY <2>1, <2>5 DEF Select, Crash, Mine, row
    <2> QED BY <2>1, <2>2, <2>3, <2>4, <2>5 DEF Next
  <1> QED BY <1>1, Invariance, PTL DEF Spec, OneSamplePerSettlement
=============================================================================
