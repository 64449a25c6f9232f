--------------------------- MODULE TransactionReads ---------------------------
(***************************************************************************)
(* What the Gateway says of one signed transaction: kt_broadcast of it,    *)
(* behind the guard (handlers/broadcast.go; upstream SendRawTransaction,   *)
(* SendTransaction, Tron.Broadcast), and kt_getTransactionStatus           *)
(* (handlers/transaction_status.go; upstream TransactionStatus and         *)
(* SignatureStatus).  Nodes may lag behind the chain, answer for another   *)
(* transaction, or garble what they say.  Other calls that an answer took  *)
(* from endpoint to endpoint are left out: they changed nothing.           *)
(***************************************************************************)
EXTENDS JsonRows, Integers, Sequences

CONSTANTS
    Hash,          \* the name of the transaction
    Replies(_, _), \* what a node may answer to a question, when it sees a fate
    Taken(_),      \* what a node of a chain may answer to a submission it takes
    Refusals(_)    \* and to one it refuses

VARIABLES
    kind,    \* the chain: "evm", "tron" or "solana"
    fate,    \* what the chain did with the transaction so far
    asking,  \* the question that is put to a node
    took,    \* whether a node took the last submission
    word  \* what the caller was told last

transactionVars == <<kind, fate, asking, took, word>>
-----------------------------------------------------------------------------
(* Pool.attempt: the envelope of an EVM or Solana answer.                   *)

Enveloped(a, extensible) ==
    /\ IF extensible THEN Fits(a, {"jsonrpc", "id"}, {"error"})
       ELSE Exact(a, {"jsonrpc", "id"}, {"result", "error"})
    /\ a.jsonrpc = "2.0" /\ a.id = 1 /\ OneOf(a, "result", "error")
    /\ "error" \in DOMAIN a =>
         IF extensible THEN Fits(a.error, {"code", "message"}, {})
         ELSE Exact(a.error, {"code", "message"}, {"data"})

\* providerRoutingError: the provider speaks of the caller's account and not of
\* the transaction.  Each text stands for the messages it occurs in.
Routing == {"not enabled for this app", "api key is not valid", "invalid api key",
            "authentication failed"}

\* CallOnce: the error of a node, and not of a provider in front of it.
Denied(a) ==
    Enveloped(a, FALSE) /\ "error" \in DOMAIN a /\ a.error.message \notin Routing

Given(a) == Enveloped(a, FALSE) /\ "result" \in DOMAIN a
-----------------------------------------------------------------------------
(* Submissions                                                              *)

\* Tron.Broadcast: an acceptance names the transaction and says nothing more, a
\* refusal does not name it.
TronFits(a) == Exact(a, {}, {"result", "txid", "code", "message", "Error"})

TronAccepts(a) == DOMAIN a = {"result", "txid"} /\ a.result

TronRefuses(a) ==
    IF "result" \in DOMAIN a THEN ~a.result /\ {"txid", "Error"} \cap DOMAIN a = {}
    ELSE DOMAIN a = {"Error"}

TronOutcome(a) ==
    CASE TronFits(a) /\ TronAccepts(a) -> "accepted"
      [] TronFits(a) /\ TronRefuses(a) -> "rejected"
      [] OTHER                         -> "unknown"

\* Mutant: without an answer, nothing was submitted.
OutcomeLax(a) ==
    CASE kind = "tron"                               -> TronOutcome(a)
      [] kind # "tron" /\ Given(a) /\ a.result # Bad -> "accepted"
      [] OTHER                                       -> "rejected"

\* SendRawTransaction, SendTransaction and broadcastError: only a node's own
\* error proves that it refused.
Outcome(a) ==
    CASE kind = "tron"                               -> TronOutcome(a)
      [] kind # "tron" /\ Given(a) /\ a.result # Bad -> "accepted"
      [] kind # "tron" /\ Denied(a)                  -> "rejected"
      [] OTHER                                       -> "unknown"
-----------------------------------------------------------------------------
(* Receipts.  Each gives a status, "error", or another question to ask.     *)

Bound(row, f) == Fits(row, {f}, {}) /\ row[f] = Hash

\* EVM.TransactionStatus: a receipt has its place in the chain.
Placed(r) ==
    /\ Fits(r, {"transactionHash", "blockHash", "blockNumber", "transactionIndex"}, {})
    /\ Bound(r, "transactionHash")

EvmReceipt(r) ==
    IF r = Null THEN "transaction"
    ELSE CASE Placed(r) /\ Member(r, "status") = "0x1" -> "confirmed"
           [] Placed(r) /\ Member(r, "status") = "0x0" -> "failed"
           [] OTHER                                   -> "error"

EvmTransaction(r) ==
    IF r = Null THEN "unknown" ELSE IF Bound(r, "hash") THEN "pending" ELSE "error"

\* tronReceiptResults, but for SUCCESS
Reverts == {"REVERT", "OUT_OF_ENERGY"}

TronResult(result) ==
    CASE result = "SUCCESS"               -> "confirmed"
      [] result \in Reverts \cup {"FAILED"} -> "failed"
      [] OTHER                            -> "error"

\* Tron.TransactionStatus: a receipt without a result, as those of plain
\* transfers, sends it to the transaction itself.
TronMined(r) == Fits(r, {"id", "blockNumber"}, {}) /\ Bound(r, "id")

TronInfo(r) ==
    IF r # Bad /\ DOMAIN r = {} THEN "unknown"
    ELSE IF r = Bad \/ ~TronMined(r) THEN "error"
    ELSE IF Member(r, "receipt") # Null THEN TronResult(r.receipt)
    ELSE IF Member(r, "result") = Null THEN "contract"
    ELSE IF r.result = "FAILED" THEN "failed" ELSE "error"

\* transactionContractResult: every contract has to have succeeded.
TronExecuted(r) ==
    /\ Bound(r, "txID") /\ "ret" \in DOMAIN r /\ r.ret # <<>>
    /\ \A i \in DOMAIN r.ret : r.ret[i] \in Reverts \cup {"SUCCESS"}

TronContractResult(r) ==
    IF ~TronExecuted(r) THEN "error"
    ELSE IF \A i \in DOMAIN r.ret : r.ret[i] = "SUCCESS" THEN "confirmed" ELSE "failed"

\* decodeSolanaSignatureStatus, with the rest of the members that one entry
\* has to have in agreement: the slot with the context's, the confirmations with
\* the commitment, the deprecated status with the error.
SolanaEntry(e, slot) ==
    /\ Exact(e, {"slot", "confirmations", "err", "status", "confirmationStatus"}, {})
    /\ e.slot <= slot
    /\ e.confirmationStatus \in {Null, "processed", "confirmed", "finalized"}
    /\ e.confirmationStatus # Null => (e.confirmationStatus = "finalized" <=> e.confirmations = Null)
    /\ IF e.err = Null THEN e.status = [Ok |-> Null] ELSE e.status = [Err |-> e.err]

SolanaFits(r) == Exact(r, {"context", "value"}, {}) /\ Len(r.value) = 1

SolanaFound(r) == SolanaFits(r) /\ r.value[1] # Null /\ SolanaEntry(r.value[1], r.context)

SolanaStatus(r) ==
    IF ~SolanaFound(r) THEN IF SolanaFits(r) /\ r.value[1] = Null THEN "unknown" ELSE "error"
    ELSE LET e == r.value[1]
         IN  IF e.confirmationStatus = Null THEN "unknown"
             ELSE IF e.confirmationStatus = "processed" THEN "pending"
             ELSE IF e.err = Null THEN "confirmed" ELSE "failed"

\* What an answer to a question comes to.
Verdict(question, a) ==
    IF question = "info" THEN TronInfo(a)
    ELSE IF question = "contract" THEN TronContractResult(a)
    ELSE IF ~Given(a) THEN "error"
    ELSE CASE question = "receipt"     -> EvmReceipt(a.result)
           [] question = "transaction" -> EvmTransaction(a.result)
           [] question = "statuses"    -> SolanaStatus(a.result)
-----------------------------------------------------------------------------
(* What is assumed of the nodes: a row that is whole and names the          *)
(* transaction is true of some state the node may have seen the chain in,   *)
(* a whole answer to a submission says what the node did, unless it is one  *)
(* of a provider about its routing.  Anything else they may say.            *)

Fates == {"none", "pool", "ok", "failed"}

ASSUME HonestReceipts ==
    \A seen \in Fates : \A a \in Replies("receipt", seen) :
        Given(a) /\ a.result # Null /\ Placed(a.result) =>
            /\ Member(a.result, "status") = "0x1" => seen = "ok"
            /\ Member(a.result, "status") = "0x0" => seen = "failed"

ASSUME HonestTransactions ==
    \A seen \in Fates : \A a \in Replies("transaction", seen) :
        Given(a) /\ a.result # Null /\ Bound(a.result, "hash") => seen # "none"

ASSUME HonestInfos ==
    \A seen \in Fates : \A r \in Replies("info", seen) :
        r # Bad /\ TronMined(r) =>
            /\ Member(r, "receipt") = "SUCCESS" => seen = "ok"
            /\ Member(r, "receipt") \in Reverts \cup {"FAILED"} => seen = "failed"
            /\ Member(r, "result") = "FAILED" => seen = "failed"

ASSUME HonestContracts ==
    \A seen \in Fates : \A r \in Replies("contract", seen) :
        TronExecuted(r) =>
            seen = IF \A i \in DOMAIN r.ret : r.ret[i] = "SUCCESS" THEN "ok" ELSE "failed"

ASSUME HonestStatuses ==
    \A seen \in Fates : \A a \in Replies("statuses", seen) :
        Given(a) /\ SolanaFound(a.result) =>
            LET e == a.result.value[1]
            IN  /\ e.confirmationStatus = "processed" => seen # "none"
                /\ e.confirmationStatus \in {"confirmed", "finalized"} =>
                     seen = IF e.err = Null THEN "ok" ELSE "failed"

ASSUME HonestSubmissions ==
    \A c \in {"evm", "tron", "solana"} :
        /\ \A a \in Taken(c) :
             IF c = "tron"
             THEN TronFits(a) => "txid" \in DOMAIN a \/ ("result" \in DOMAIN a /\ a.result)
             ELSE Enveloped(a, FALSE) /\ "error" \in DOMAIN a =>
                    a.error.message \in Routing
        /\ \A a \in Refusals(c) :
             IF c = "tron" THEN TronFits(a) => ~("result" \in DOMAIN a /\ a.result)
             ELSE Enveloped(a, FALSE) => "error" \in DOMAIN a
-----------------------------------------------------------------------------
TransactionInit ==
    /\ kind \in {"evm", "tron", "solana"}
    /\ fate = "none" /\ asking = "nothing" /\ took = FALSE /\ word = "nothing"

\* kt_broadcast, once the guard lets it through.  A node may refuse what the
\* chain already has.
Submit ==
    /\ asking = "nothing"
    /\ \E taken \in BOOLEAN :
         /\ took' = taken
         /\ fate' = IF taken /\ fate = "none" THEN "pool" ELSE fate
         /\ \E a \in IF taken THEN Taken(kind) ELSE Refusals(kind) : word' = Outcome(a)
    /\ UNCHANGED <<kind, asking>>

\* kt_getTransactionStatus
AskStatus ==
    /\ asking = "nothing"
    /\ asking' = CASE kind = "evm" -> "receipt" [] kind = "tron" -> "info" [] OTHER -> "statuses"
    /\ word' = "nothing"
    /\ UNCHANGED <<kind, fate, took>>

\* What a node may see of the chain, up to now.
Seen == {"none", fate} \cup (IF fate = "none" THEN {} ELSE {"pool"})

\* A node answers, or nobody does.
Hear ==
    /\ asking # "nothing"
    /\ \E seen \in Seen : \E a \in Replies(asking, seen) :
         LET v == Verdict(asking, a)
         IN  IF v \in {"transaction", "contract"} THEN asking' = v /\ UNCHANGED word
             ELSE asking' = "nothing" /\ word' = v
    /\ UNCHANGED <<kind, fate, took>>

\* The chain executes the transaction.
Execute ==
    /\ fate = "pool" /\ fate' \in {"ok", "failed"}
    /\ UNCHANGED <<kind, asking, took, word>>

TransactionNext == Submit \/ AskStatus \/ Hear \/ Execute

TransactionSpec == TransactionInit /\ [][TransactionNext]_transactionVars
-----------------------------------------------------------------------------
(* Properties                                                               *)

\* A transaction is said to be accepted, refused, under way or executed only on
\* the word of a node about this transaction; whatever was lost, garbled, told
\* of another one or told halfway is said to be unknown, or an error
\* (broadcast.go:164-167, upstream/evm.go:166-170, upstream/tron.go:411-413).
VerdictIsTrue ==
    CASE word = "confirmed" -> fate = "ok"
      [] word = "failed"    -> fate = "failed"
      [] word = "pending"   -> fate # "none"
      [] word = "accepted"  -> took
      [] word = "rejected"  -> ~took
      [] OTHER                 -> TRUE
=============================================================================
