---------------------------- MODULE TransferLedger ----------------------------
(* The EVM rows of KT Wallet's transaction table, for one account on one      *)
(* network: packages/wallet_data/lib/src/repositories.dart and its callers    *)
(* in apps/kt_wallet: the send flow (_submitLive) and the speed-up and cancel *)
(* flow (_replace) of transfer_screens.dart, and the status checks of         *)
(* history_controller.dart, of the result screen and of the detail screen     *)
(* with transaction_status_service.dart.                                      *)
(*                                                                            *)
(* Every await of the code is a point where another flow, another check, the  *)
(* user or the chain moves: a flow is one step from one await to the next.    *)
(* SQLite survives a crash, flows and checks do not.  TRON and Solana rows,   *)
(* which have no nonce, are not modelled.                                     *)
EXTENDS Naturals

CONSTANTS
    Tx,             \* the transactions the user may start
    None,           \* no transaction
    Foreign,        \* a transaction of the same account sent by other means
    Wallet,         \* the wallets in the app
    Home,           \* the wallet that holds the account's key
    Check,          \* the places that poll: history list, result, detail
    MaxNonce,       \* bound: nonces 0..MaxNonce are used
    MaxCrash        \* bound: how often the app is killed

ASSUME ConstantsOK ==
    /\ None \notin Tx /\ Foreign \notin Tx /\ None # Foreign
    /\ Home \in Wallet
    /\ MaxNonce \in Nat /\ MaxCrash \in Nat

VARIABLES
    status,         \* status[t]: the row's status, "none" before it exists
    hashed,         \* hashed[t]: the row holds the hash of t
    owner,          \* owner[t]: the wallet the row belongs to
    replacedBy,     \* replacedBy[t]: the row's replacedById
    nonce,          \* nonce[t]: the nonce t is prepared with
    replaces,       \* replaces[t]: the transaction t is a replacement of
    flow,           \* flow[t]: how far the flow that sends t has come
    check,          \* check[c][t]: how far the status check of t by c has come
    current,        \* the wallet selected in the app
    samples,        \* samples[t]: finality metrics recorded for t
    crashes,        \* how often the app was killed
    network,        \* chain: the transactions some node has accepted
    spent,          \* chain: how many nonces of the account are consumed
    winner,         \* winner[n]: chain: the transaction that consumed nonce n
    reverted        \* chain: the transactions whose receipt says failed

row   == <<status, hashed, owner, replacedBy, samples>>
chain == <<network, spent, winner, reverted>>
plan  == <<nonce, replaces>>
vars  == <<row, chain, plan, flow, check, current, crashes>>
-----------------------------------------------------------------------------
LiveStatus == {"submitted", "pending"}
Settled    == {"confirmed", "failed", "replaced"}
Statuses   == {"none"} \cup LiveStatus \cup Settled
Flows      == {"new", "quoted", "reserved", "stored", "accepted", "rejected", "done"}
Verdicts   == {"confirmed", "failed", "pending", "replaced", "unknown"}
Nonces     == 0..MaxNonce

Idle == [at |-> "idle", saw |-> "none", says |-> "unknown"]
Checks == [at : {"idle", "asked", "unmined", "unlisted", "answered"},
           saw : LiveStatus \cup {"none"}, says : Verdicts]

Live(t)  == status[t] \in LiveStatus
Mined(t) == nonce[t] < spent /\ winner[nonce[t]] = t

Init ==
    /\ status = [t \in Tx |-> "none"]
    /\ hashed = [t \in Tx |-> FALSE]
    /\ owner = [t \in Tx |-> Home]
    /\ replacedBy = [t \in Tx |-> None]
    /\ samples = [t \in Tx |-> 0]
    /\ nonce = [t \in Tx |-> 0]
    /\ replaces = [t \in Tx |-> None]
    /\ flow = [t \in Tx |-> "new"]
    /\ check = [c \in Check |-> [t \in Tx |-> Idle]]
    /\ current = Home
    /\ crashes = 0
    /\ network = {} /\ reverted = {}
    /\ spent = 0
    /\ winner = [n \in Nonces |-> None]

Goto(t, f) == flow' = [flow EXCEPT ![t] = f]
-----------------------------------------------------------------------------
(* Preparing: what the flow learns from the node before it reserves.        *)

\* prepareEvm: the node's pending nonce counts the transactions it holds; a
\* node that holds fewer answers less.  Nonces in between must be held.
PendingNonce(n) ==
    /\ spent <= n
    /\ \A k \in spent..MaxNonce :
          k < n => \E x \in network : nonce[x] = k

Quote(t) ==
    /\ flow[t] = "new" /\ current = Home
    /\ \E n \in Nonces :
         /\ PendingNonce(n)
         /\ nonce' = [nonce EXCEPT ![t] = n]
    /\ Goto(t, "quoted")
    /\ UNCHANGED <<row, chain, replaces, check, current, crashes>>

\* _canReplace, then prepareEvmReplacement: the confirmed nonce has not moved
\* past the row's.
Replaceable(o) ==
    /\ Live(o) /\ owner[o] = current
    /\ replacedBy[o] = None
    /\ spent <= nonce[o]

Prepare(t) ==
    /\ flow[t] = "new" /\ current = Home
    /\ \E o \in Tx \ {t} :
         /\ Replaceable(o)
         /\ nonce' = [nonce EXCEPT ![t] = nonce[o]]
         /\ replaces' = [replaces EXCEPT ![t] = o]
    /\ Goto(t, "quoted")
    /\ UNCHANGED <<row, chain, check, current, crashes>>
-----------------------------------------------------------------------------
(* WalletRepository, one database transaction each; every write of a flow   *)
(* goes to the wallet that is selected when it runs.                         *)

\* Mutant: the query only finds rows that replace nothing.
ConflictsOriginals(t) ==
    {x \in Tx : Live(x) /\ owner[x] = current /\ nonce[x] = nonce[t]
                /\ x # replaces[t] /\ replaces[x] = None}

Conflicts(t) ==
    {x \in Tx : Live(x) /\ owner[x] = current /\ nonce[x] = nonce[t]
                /\ x # replaces[t]}

\* reserveEvmTransaction.  A send quote is only valid for the sender's own
\* wallet (validEvmQuote); a replacement is not looked at again.
Reserve(t) ==
    /\ flow[t] = "quoted"
    /\ replaces[t] = None => current = Home
    /\ IF Conflicts(t) # {}
       THEN Goto(t, "done") /\ UNCHANGED <<status, owner>>
       ELSE /\ status' = [status EXCEPT ![t] = "submitted"]
            /\ owner' = [owner EXCEPT ![t] = current]
            /\ Goto(t, "reserved")
    /\ UNCHANGED <<hashed, replacedBy, samples, chain, plan, check, current, crashes>>

\* updateTransactionStatus without onlyIfLive: the row is overwritten whatever
\* its status is, if it belongs to the selected wallet.
Overwrite(t, s, h) ==
    IF owner[t] = current
    THEN /\ status' = [status EXCEPT ![t] = s]
         /\ hashed' = [hashed EXCEPT ![t] = hashed[t] \/ h]
    ELSE UNCHANGED <<status, hashed>>

\* Mutant: the compare-and-set on the status is forgotten.
WriteCheckedBlind(t, s) == status' = [status EXCEPT ![t] = s]

\* updateTransactionStatus with onlyIfLive, without a metric
WriteChecked(t, s) ==
    status' = [status EXCEPT ![t] = IF Live(t) THEN s ELSE status[t]]

\* recordEvmReplacementBroadcast: the link is only set on a live original, the
\* replacement becomes pending whatever its status is.
RecordReplacement(t) ==
    LET o == replaces[t] IN
    /\ replacedBy' = IF Live(o) /\ owner[o] = current
                     THEN [replacedBy EXCEPT ![o] = t] ELSE replacedBy
    /\ Overwrite(t, "pending", TRUE)

\* The live rows of the wallet that settleEvmTransaction settles with t
Competitors(t) ==
    {x \in Tx : Live(x) /\ owner[x] = owner[t]
                /\ (replaces[t] = x \/ replaces[x] = t)}

\* Mutant: only the winner is counted.
SettleUncounted(t, s) ==
    IF ~Live(t)
    THEN UNCHANGED <<status, replacedBy, samples>>
    ELSE /\ status' = [x \in Tx |-> IF x = t THEN s
                                    ELSE IF x \in Competitors(t) THEN "replaced"
                                    ELSE status[x]]
         /\ replacedBy' = [x \in Tx |-> IF x \in Competitors(t) THEN t
                                        ELSE replacedBy[x]]
         /\ samples' = [samples EXCEPT ![t] = samples[t] + 1]

\* settleEvmTransaction
Settle(t, s) ==
    IF ~Live(t)
    THEN UNCHANGED <<status, replacedBy, samples>>
    ELSE /\ status' = [x \in Tx |-> IF x = t THEN s
                                    ELSE IF x \in Competitors(t) THEN "replaced"
                                    ELSE status[x]]
         /\ replacedBy' = [x \in Tx |-> IF x \in Competitors(t) THEN t
                                        ELSE replacedBy[x]]
         /\ samples' = [x \in Tx |-> IF x \in Competitors(t) \cup {t}
                                     THEN samples[x] + 1 ELSE samples[x]]

\* updateTransactionStatus with a metric: both or neither
WriteFinal(t, s) ==
    IF ~Live(t)
    THEN UNCHANGED <<status, samples>>
    ELSE /\ status' = [status EXCEPT ![t] = s]
         /\ samples' = [samples EXCEPT ![t] = samples[t] + 1]
-----------------------------------------------------------------------------
(* The rest of a flow.                                                      *)

\* The signature is refused, or the hash cannot be stored: the row is failed
\* and nothing was sent.
SignFails(t) ==
    /\ flow[t] = "reserved"
    /\ Overwrite(t, "failed", FALSE)
    /\ Goto(t, "done")
    /\ UNCHANGED <<owner, replacedBy, samples, chain, plan, check, current, crashes>>

\* signPreparedEvm, then the hash is stored before anything is sent.
StoreHash(t) ==
    /\ flow[t] = "reserved"
    /\ Overwrite(t, "submitted", TRUE)
    /\ Goto(t, "stored")
    /\ UNCHANGED <<owner, replacedBy, samples, chain, plan, check, current, crashes>>

\* Mutant: an answer that got lost is taken for a rejection.
SendHasty(t) ==
    /\ flow[t] = "stored"
    /\ \/ /\ spent <= nonce[t]
          /\ network' = network \cup {t}
          /\ flow' \in {[flow EXCEPT ![t] = f] : f \in {"accepted", "rejected"}}
       \/ Goto(t, "rejected") /\ UNCHANGED network
    /\ UNCHANGED <<row, plan, check, current, crashes, spent, winner, reverted>>

\* broadcastSigned, one single POST.  The node takes the transaction and says
\* so, takes it and its answer is lost, refuses it, or never gets it.  "nonce
\* too low" and "already known" count as unknown (_rejectionRequiresReconciliation).
Send(t) ==
    /\ flow[t] = "stored"
    /\ \/ /\ spent <= nonce[t]
          /\ network' = network \cup {t}
          /\ flow' \in {[flow EXCEPT ![t] = f] : f \in {"accepted", "done"}}
       \/ /\ flow' \in {[flow EXCEPT ![t] = f] : f \in {"rejected", "done"}}
          /\ UNCHANGED network
    /\ UNCHANGED <<row, plan, check, current, crashes, spent, winner, reverted>>

\* The node's answer reaches the row.
LandAccepted(t) ==
    /\ flow[t] = "accepted"
    /\ \/ replaces[t] = None /\ Overwrite(t, "pending", TRUE) /\ UNCHANGED replacedBy
       \/ replaces[t] # None /\ RecordReplacement(t)
    /\ Goto(t, "done")
    /\ UNCHANGED <<owner, samples, chain, plan, check, current, crashes>>

LandRejected(t) ==
    /\ flow[t] = "rejected"
    /\ Overwrite(t, "failed", TRUE)
    /\ Goto(t, "done")
    /\ UNCHANGED <<owner, replacedBy, samples, chain, plan, check, current, crashes>>

\* The last write of the flow fails: the row stays as it was before the POST.
LandLost(t) ==
    /\ flow[t] \in {"accepted", "rejected"}
    /\ Goto(t, "done")
    /\ UNCHANGED <<row, chain, plan, check, current, crashes>>
-----------------------------------------------------------------------------
(* A status check: TransactionStatusService.check and what its callers do   *)
(* with the answer.                                                         *)

Become(c, t, k) == check' = [check EXCEPT ![c][t] = k]

\* Mutant: a poll reads the pending rows only.
LookPending(c, t) ==
    /\ check[c][t].at = "idle"
    /\ status[t] = "pending" /\ hashed[t] /\ owner[t] = current
    /\ Become(c, t, [Idle EXCEPT !.at = "asked", !.saw = status[t]])
    /\ UNCHANGED <<row, chain, plan, flow, current, crashes>>

\* A poll reads the hashed live rows of the selected wallet.
Look(c, t) ==
    /\ check[c][t].at = "idle"
    /\ Live(t) /\ hashed[t] /\ owner[t] = current
    /\ Become(c, t, [Idle EXCEPT !.at = "asked", !.saw = status[t]])
    /\ UNCHANGED <<row, chain, plan, flow, current, crashes>>

Says(c, t, v) == Become(c, t, [check[c][t] EXCEPT !.at = "answered", !.says = v])

\* eth_getTransactionReceipt
Receipt(c, t) ==
    /\ check[c][t].at = "asked"
    /\ \/ Mined(t) /\ t \notin reverted /\ Says(c, t, "confirmed")
       \/ Mined(t) /\ t \in reverted    /\ Says(c, t, "failed")
       \/ ~Mined(t) /\ Become(c, t, [check[c][t] EXCEPT !.at = "unmined"])
    /\ UNCHANGED <<row, chain, plan, flow, current, crashes>>

\* eth_getTransactionByHash: a node may not hold what another one accepted,
\* or still hold what lost its nonce.
Listed(c, t) ==
    /\ check[c][t].at = "unmined" /\ t \in network
    /\ Says(c, t, "pending")
    /\ UNCHANGED <<row, chain, plan, flow, current, crashes>>

Unlisted(c, t) ==
    /\ check[c][t].at = "unmined" /\ ~Mined(t)
    /\ Become(c, t, [check[c][t] EXCEPT !.at = "unlisted"])
    /\ UNCHANGED <<row, chain, plan, flow, current, crashes>>

\* eth_getTransactionCount at "latest"
ByNonce(c, t) ==
    /\ check[c][t].at = "unlisted"
    /\ Says(c, t, IF spent > nonce[t] THEN "replaced" ELSE "unknown")
    /\ UNCHANGED <<row, chain, plan, flow, current, crashes>>

\* Any of the requests fails.
Unheard(c, t) ==
    /\ check[c][t].at \in {"asked", "unmined", "unlisted"}
    /\ Says(c, t, "unknown")
    /\ UNCHANGED <<row, chain, plan, flow, current, crashes>>

\* The answer is written over what is live by now.  On pending the history
\* list and the result screen write pending, the detail screen what it saw.
Write(c, t) ==
    LET k == check[c][t] IN
    /\ k.at = "answered"
    /\ \/ k.says \in {"confirmed", "failed"} /\ Settle(t, k.says)
       \/ k.says = "replaced" /\ WriteFinal(t, "replaced") /\ UNCHANGED replacedBy
       \/ /\ k.says = "pending" /\ \E s \in {"pending", k.saw} : WriteChecked(t, s)
          /\ UNCHANGED <<replacedBy, samples>>
       \/ /\ k.says = "unknown" /\ WriteChecked(t, k.saw)
          /\ UNCHANGED <<replacedBy, samples>>
    /\ Become(c, t, Idle)
    /\ UNCHANGED <<hashed, owner, chain, plan, flow, current, crashes>>

\* The wallet or the network changed, or the screen is gone.
Abandon(c, t) ==
    /\ check[c][t].at # "idle"
    /\ Become(c, t, Idle)
    /\ UNCHANGED <<row, chain, plan, flow, current, crashes>>
-----------------------------------------------------------------------------
(* The user, the operating system and the chain.                            *)

Select(w) ==
    /\ current # w /\ current' = w
    /\ UNCHANGED <<row, chain, plan, flow, check, crashes>>

Crash ==
    /\ crashes < MaxCrash /\ crashes' = crashes + 1
    /\ flow' = [t \in Tx |-> IF flow[t] = "new" THEN "new" ELSE "done"]
    /\ check' = [c \in Check |-> [t \in Tx |-> Idle]]
    /\ UNCHANGED <<row, chain, plan, current>>

Mine(x) ==
    /\ spent <= MaxNonce
    /\ x # Foreign => nonce[x] = spent
    /\ winner' = [winner EXCEPT ![spent] = x]
    /\ spent' = spent + 1
    /\ reverted' \in {reverted, reverted \cup ({x} \cap Tx)}
    /\ UNCHANGED <<row, plan, flow, check, current, crashes, network>>

Send_(t)    == StoreHash(t) \/ Send(t) \/ LandAccepted(t) \/ LandRejected(t) \/ LandLost(t)
Flow(t)     == Quote(t) \/ Prepare(t) \/ Reserve(t) \/ SignFails(t) \/ Send_(t)
Poll(c, t)  == Look(c, t) \/ Receipt(c, t) \/ Listed(c, t) \/ Unlisted(c, t)
               \/ ByNonce(c, t) \/ Unheard(c, t) \/ Write(c, t) \/ Abandon(c, t)

Next ==
    \/ \E t \in Tx : Flow(t)
    \/ \E t \in Tx, c \in Check : Poll(c, t)
    \/ \E w \in Wallet : Select(w)
    \/ \E x \in network \cup {Foreign} : Mine(x)
    \/ Crash

Spec == Init /\ [][Next]_vars

\* Every request has a timeout, so a check ends; and a poll comes again, so a
\* request that is made again and again succeeds in the end, and a final answer
\* that is obtained again and again is written in the end.
FairSpec ==
    /\ Spec
    /\ \A c \in Check, t \in Tx :
          /\ WF_vars(Look(c, t)) /\ SF_vars(Receipt(c, t))
          /\ WF_vars(Unheard(c, t) \/ Listed(c, t) \/ Unlisted(c, t) \/ ByNonce(c, t))
          /\ SF_vars(Unlisted(c, t)) /\ SF_vars(ByNonce(c, t))
          /\ WF_vars(Write(c, t)) /\ SF_vars(check[c][t].says \in Settled /\ Write(c, t))
-----------------------------------------------------------------------------
(* Properties.                                                              *)

\* Every variable keeps its shape.
TypeOK ==
    /\ status \in [Tx -> Statuses]
    /\ hashed \in [Tx -> BOOLEAN]
    /\ owner \in [Tx -> Wallet]
    /\ replacedBy \in [Tx -> Tx \cup {None}]
    /\ nonce \in [Tx -> Nonces]
    /\ replaces \in [Tx -> Tx \cup {None}]
    /\ flow \in [Tx -> Flows]
    /\ check \in [Check -> [Tx -> Checks]]
    /\ current \in Wallet
    /\ samples \in [Tx -> Nat]
    /\ crashes \in Nat
    /\ network \subseteq Tx
    /\ spent \in 0..(MaxNonce + 1)
    /\ winner \in [Nonces -> Tx \cup {None, Foreign}]
    /\ reverted \subseteq Tx

\* As long as a nonce is not consumed, two live rows of a wallet that compete
\* for it are an original and its one replacement, whatever late answers,
\* checks and crashes did to them (repositories.dart:223-227).
NonceCompetitors ==
    \A x, y \in Tx :
        /\ x # y /\ Live(x) /\ Live(y)
        /\ owner[x] = owner[y] /\ nonce[x] = nonce[y] /\ spent <= nonce[x]
        => replaces[x] = y \/ replaces[y] = x

\* A row that says confirmed was mined and succeeded; a row that says failed
\* was mined and reverted, or no node ever took it.
VerdictsAreTrue ==
    \A t \in Tx :
        /\ status[t] = "confirmed" => Mined(t) /\ t \notin reverted
        /\ status[t] = "failed" => t \notin network \/ (Mined(t) /\ t \in reverted)

\* No check, however old what it read is, changes a row that is settled
\* (README.md:648-649).
ChecksNeverRevive ==
    [][flow' = flow =>
        \A t \in Tx : status[t] \in Settled => status'[t] = status[t]]_vars

\* A check that settles a row counts it, once, in the same step, and so for
\* every competitor it settles with it; nothing else is counted.
OneSamplePerSettlement ==
    [][\A t \in Tx :
        samples'[t] = samples[t]
            + IF flow' = flow /\ Live(t) /\ status'[t] \in Settled THEN 1 ELSE 0]_vars

\* A hashed live row whose nonce is consumed is settled in the end, if its
\* wallet stays selected.
Settles ==
    \A t \in Tx :
        (Live(t) /\ hashed[t] /\ nonce[t] < spent /\ owner[t] = current)
            ~> (~Live(t) \/ owner[t] # current)
-----------------------------------------------------------------------------
(* What the documents say, and the code does not do.                        *)

\* A late answer cannot overwrite a settled row with pending
\* (README.md:648-649).
SettledStaysSettled ==
    [][\A t \in Tx : status[t] \in Settled => status'[t] \notin LiveStatus]_vars

\* A row that says replaced lost its nonce to another transaction
\* (transaction_status_service.dart:225-229).
ReplacedIsTrue == \A t \in Tx : status[t] = "replaced" => ~Mined(t)

\* The row of a transaction holds its hash before a node has it
\* (README.md:202-204).
HashBeforeSend == \A t \in network : hashed[t]
=============================================================================
