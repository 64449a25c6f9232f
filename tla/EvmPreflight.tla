----------------------------- MODULE EvmPreflight -----------------------------
(***************************************************************************)
(* May a transfer be paid for?  prepareEvm of the wallet                   *)
(* (transfer/local_transfer_service.dart), which asks the Gateway's        *)
(* kt_getEvmSpendableBalances (handlers/evm_preflight.go) or its own       *)
(* endpoints what the account can spend once its queued transactions are   *)
(* paid for.  Some endpoints have no pending state; each call may reach    *)
(* another one.  Every transaction of the account costs one of each asset. *)
(***************************************************************************)
EXTENDS Integers

CONSTANTS
    Costs,       \* what a transfer may need of an asset
    Funds,       \* what the account has of each asset at first
    NotRead,     \* no answer yet
    MaxSent,     \* bounds of the model: transactions of the account, from here or
    MaxIncome    \* from another device, and payments to it

ASSUME PreflightConstants ==
    /\ Costs \subseteq Nat /\ Funds \in Nat /\ NotRead \notin Int
    /\ MaxSent \in Nat /\ MaxIncome \in Nat

VARIABLES
    views,     \* which endpoints there are: with a pending state (TRUE), without
    sent, mined, income, \* the chain: transactions of the account, payments to it
    progress,  \* how far the preparation is
    need,      \* need[a]: what it needs of a; of the token 0 if it is of the coin
    nonce,     \* params.nonce
    older, newer, \* what is known of the latest and of the pending balances
    marker,    \* pendingAvailable
    nonceState,  \* the two counts that prove an empty queue
    minedThen  \* history: mined when the preparation began

preflightVars == <<views, sent, mined, income, progress, need, nonce, older,
                   newer, marker, nonceState, minedThen>>
chainVars == <<sent, mined, income>>
plan      == <<views, need, nonce, minedThen>>

Coins == {"coin", "token"}
Counts == {"confirmed", "pending"}
Spends == IF need["token"] = 0 THEN {"coin"} ELSE Coins

Latest  == Funds + income - mined
Pending == Funds + income - sent

Unseen == [a \in Coins |-> NotRead]
Unproved == [c \in Counts |-> NotRead]
-----------------------------------------------------------------------------
PreflightInit ==
    /\ views \in {{TRUE}, {FALSE}, BOOLEAN}
    /\ sent \in 0 .. MaxSent /\ mined = 0 /\ income = 0
    /\ progress = "idle" /\ need = [a \in Coins |-> 0] /\ nonce = 0 /\ minedThen = 0
    /\ older = Unseen /\ newer = Unseen /\ marker = TRUE /\ nonceState = Unproved

\* fetchEvmParams
Prepare ==
    /\ progress \in {"idle", "ready"} /\ progress' = "simulate"
    /\ \E c \in Costs, t \in Costs \cup {0} : need' = [coin |-> c, token |-> t]
    /\ nonce' = sent /\ minedThen' = mined
    /\ older' = Unseen /\ newer' = Unseen /\ marker' = TRUE /\ nonceState' = Unproved
    /\ UNCHANGED <<views, chainVars>>

\* A call fails, the balance is short, or the queue may hold something.
GiveUp ==
    /\ progress \notin {"idle", "ready"} /\ progress' = "idle"
    /\ UNCHANGED <<plan, chainVars, older, newer, marker, nonceState>>

\* simulateEvmTransfer: against the pending state, or else against the latest
\* one once the queue is known to be empty.
Simulate ==
    /\ progress = "simulate"
    /\ \E v \in views : progress' = IF v THEN "latest" ELSE "prove latest"
    /\ UNCHANGED <<plan, chainVars, older, newer, marker, nonceState>>

\* fetchEvmNonceState: the two counts are asked for at the same time, once.
Count(c) ==
    /\ progress \in {"prove latest", "prove spend"} /\ nonceState[c] = NotRead
    /\ nonceState' = [nonceState EXCEPT ![c] = IF c = "confirmed" THEN mined ELSE sent]
    /\ UNCHANGED <<plan, chainVars, progress, older, newer, marker>>

\* verifiedEmptyPendingQueue
Proved ==
    /\ progress \in {"prove latest", "prove spend"}
    /\ \A c \in Counts : nonceState[c] = nonce
    /\ progress' = IF progress = "prove latest" THEN "latest" ELSE "weigh"
    /\ UNCHANGED <<plan, chainVars, older, newer, marker, nonceState>>
-----------------------------------------------------------------------------
(* GetEVMSpendableBalances                                                  *)

Weighed(m) == IF m THEN "weigh" ELSE "prove spend"

NativeLatest ==
    /\ progress = "latest" /\ progress' = "pending"
    /\ older' = [older EXCEPT !["coin"] = Latest]
    /\ UNCHANGED <<plan, chainVars, newer, marker, nonceState>>

NativePending ==
    /\ progress = "pending"
    /\ \E v \in views :
         /\ marker' = v
         /\ newer' = [newer EXCEPT !["coin"] = IF v THEN Pending ELSE older["coin"]]
         /\ progress' = IF Spends = Coins THEN IF v THEN "token" ELSE "token latest" ELSE Weighed(v)
    /\ UNCHANGED <<plan, chainVars, older, nonceState>>

\* Mutant: the answer still says that its amounts are pending ones.
TokenPendingMarked ==
    /\ progress = "token"
    /\ \E v \in views :
         /\ newer' = [newer EXCEPT !["token"] = IF v THEN Pending ELSE Latest]
         /\ progress' = "weigh"
    /\ UNCHANGED <<plan, chainVars, older, marker, nonceState>>

TokenPending ==
    /\ progress = "token"
    /\ \E v \in views :
         /\ marker' = v
         /\ newer' = IF v THEN [newer EXCEPT !["token"] = Pending] ELSE newer
         /\ progress' = IF v THEN "weigh" ELSE "token latest"
    /\ UNCHANGED <<plan, chainVars, older, nonceState>>

TokenLatest ==
    /\ progress = "token latest" /\ progress' = Weighed(marker)
    /\ newer' = [newer EXCEPT !["token"] = Latest]
    /\ UNCHANGED <<plan, chainVars, older, marker, nonceState>>

\* There is no Gateway, or it fails: fetchEvmSpendableBalances reads for itself.
GoDirect ==
    /\ progress \in {"latest", "pending", "token", "token latest"} /\ progress' = "direct"
    /\ older' = Unseen /\ newer' = Unseen /\ marker' = TRUE
    /\ UNCHANGED <<plan, chainVars, nonceState>>

\* Both balances at the same time, first the latest ones.
DirectLatest(a) ==
    /\ progress = "direct" /\ a \in Spends /\ older[a] = NotRead
    /\ older' = [older EXCEPT ![a] = Latest]
    /\ UNCHANGED <<plan, chainVars, progress, newer, marker, nonceState>>

DirectPending(a) ==
    /\ progress = "direct" /\ a \in Spends /\ newer[a] = NotRead
    /\ \A b \in Spends : older[b] # NotRead
    /\ \E v \in views :
         /\ marker' = v
         /\ newer' = IF v THEN [newer EXCEPT ![a] = Pending] ELSE older
         /\ progress' = IF \E b \in Spends : newer'[b] = NotRead THEN progress ELSE Weighed(v)
    /\ UNCHANGED <<plan, chainVars, older, nonceState>>

\* What prepareEvm compares before it makes the transaction to sign.
Weigh ==
    /\ progress = "weigh" /\ \A a \in Spends : newer[a] >= need[a]
    /\ progress' = "ready"
    /\ UNCHANGED <<plan, chainVars, older, newer, marker, nonceState>>
-----------------------------------------------------------------------------
(* The chain                                                                *)

\* The account sends another transaction, from another device.
Enqueue == sent < MaxSent /\ Pending > 0 /\ sent' = sent + 1 /\ UNCHANGED <<mined, income>>
Include == mined < sent /\ mined' = mined + 1 /\ UNCHANGED <<sent, income>>
Receive == income < MaxIncome /\ income' = income + 1 /\ UNCHANGED <<sent, mined>>

ChainMoves ==
    /\ Enqueue \/ Include \/ Receive
    /\ UNCHANGED <<plan, progress, older, newer, marker, nonceState>>

PreflightNext ==
    \/ Prepare \/ GiveUp \/ Simulate \/ Proved \/ Weigh \/ ChainMoves
    \/ NativeLatest \/ NativePending \/ TokenPending \/ TokenLatest \/ GoDirect
    \/ \E c \in Counts : Count(c)
    \/ \E a \in Coins : DirectLatest(a) \/ DirectPending(a)

PreflightSpec == PreflightInit /\ [][PreflightNext]_preflightVars
-----------------------------------------------------------------------------
(* Properties                                                               *)

\* A transfer is made ready to sign only with money that the transactions sent
\* before it leave over, whichever endpoints told its balances and whatever is
\* sent or received meanwhile (chain_params_service.dart:66-72: "fail closed when
\* an earlier queued liability cannot be accounted for").  The exception is the
\* hazard of local_transfer_service.dart:326: on a latest balance, the queue is
\* looked at after the balance, and what was mined in between is not missed.
SpendIsCovered ==
    progress = "ready" =>
        \/ \A a \in Spends : need[a] <= Funds + income - nonce
        \/ ~marker /\ mined # minedThen
=============================================================================
