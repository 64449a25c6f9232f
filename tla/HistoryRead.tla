------------------------------ MODULE HistoryRead ------------------------------
(***************************************************************************)
(* kt_getHistory of the Gateway (handlers/history.go): where the movements *)
(* of a wallet are asked for, in which order, what happens when a provider *)
(* fails or the caller leaves, and what is cached.  The feeds of a stage   *)
(* are read side by side, each at one source after the other until one     *)
(* gives a page.  Requests for one wallet and network come one by one.     *)
(***************************************************************************)
EXTENDS HistoryPage

CONSTANTS
    Setups,        \* what is configured: [chain, alchemy, explorers, helius]
    Answers(_),    \* what a source may answer for a feed, Bad for no answer
    Asked,         \* the limits that callers ask for, Null for none
    DefaultLimit,  \* defaultHistoryLimit
    MaxLimit,      \* maxHistoryLimit
    MaxKept        \* bound of the model: pages kept when a request goes upstream

VARIABLES
    setup,    \* the chain of the wallet, and the sources configured for it
    stage,    \* where the request stands
    limit,    \* its limit
    left,     \* whether its caller's context is done
    tried,    \* tried[f]: the sources that failed for feed f
    got,      \* got[f]: what feed f came to, Null before it is read
    todo,     \* the Solana signatures still to be looked into
    page,     \* movements, then records, of the request so far
    reply,    \* how the last request was answered
    cached    \* historyCache: cached[l] is the answer kept for limit l

historyVars == <<setup, stage, limit, left, tried, got, todo, page, reply, cached>>

Tron     == {"trc20", "native", "traces"}
Transfer == {"from", "to"}
Explorer == {"tx", "token", "internal"}
Every    == Tron \cup Transfer \cup Explorer \cup {"times", "helius"}

Unheard == [f \in Every \cup {"detail"} |-> Null]

Feeds(s) ==
    CASE s = "tron"     -> Tron
      [] s = "alchemy"  -> Transfer
      [] s = "explorer" -> Explorer
      [] OTHER          -> {s}

\* Each direction of Alchemy is asked with internal transfers, and again
\* without them.
Sources(f) ==
    CASE f \in Transfer -> 2 * setup.alchemy
      [] f = "times"    -> setup.alchemy
      [] f \in Explorer -> setup.explorers
      [] OTHER          -> 1

Movements(f, a) ==
    CASE f = "trc20"     -> TRC20Transfers(a)
      [] f = "native"    -> NativeTransactions(a)
      [] f = "traces"    -> InternalTransactions(a)
      [] f \in Transfer  -> Alchemy(a)
      [] f = "tx"        -> TxList(a)
      [] f = "token"     -> TokenTxList(a)
      [] f = "internal"  -> InternalTxList(a)
      [] f = "helius"    -> Helius(a)

Decoded(f, a) ==
    IF f # "times" THEN Movements(f, a)
    ELSE IF BlockTimestamps(a, Undated(page)) THEN Feed(a) ELSE Failed

-----------------------------------------------------------------------------
(* What is taken for granted of the answers: a JSON array is a sequence, a   *)
(* field that holds a number holds one unless it fails its format, a page of *)
(* transfers that Alchemy sends has one of the direction asked for, and what *)
(* names a movement on the page names one movement.                          *)

Rows(f, a) == IF f \in Tron THEN a.data ELSE a.result

Accepted(f, a) ==
    CASE f \in Tron     -> TronRows(a)
      [] f \in Explorer -> ExplorerRows(a)
      [] OTHER          -> RpcRows(a)

Sound(f, r) ==
    CASE f = "trc20"    -> TronTRC20(r)
      [] f = "native"   -> TronNative(r)
      [] f = "traces"   -> TronInternal(r)
      [] f = "tx"       -> EtherscanTx(r)
      [] f = "token"    -> EtherscanTokenTx(r)
      [] f = "internal" -> EtherscanInternalTx(r)
      [] f = "helius"   -> HeliusTransfer(r)
      [] OTHER          -> AlchemyTransfer(r)

Array(s) == s \in Seq(ToSet(s))

Numeric(f, r) ==
    CASE f \in Explorer -> r.timeStamp \in Int
      [] f = "trc20"    -> r.type = "Transfer" => r.block_timestamp \in Int
      [] f = "native"   -> r.block_timestamp \in Int /\ Array(r.contract)
      [] f = "traces"   -> r.block_timestamp \in Int
      [] f = "helius"   -> r.blockTime \in Int
      [] OTHER          -> r.blockNum \in Int /\ (BlockTime(r) = Null \/ BlockTime(r) \in Int)

ASSUME WellFormedRows ==
    \A f \in Every \ {"times"} : \A a \in Answers(f) : Accepted(f, a) =>
        Array(Rows(f, a)) /\ \A r \in ToSet(Rows(f, a)) : Sound(f, r) => Numeric(f, r)

ASSUME WellFormedTimes ==
    \A a \in Answers("times") \ {Bad} :
        Array(a) /\ \A r \in ToSet(a) : Fits(r, {"id", "timestamp"}, {}) => r.timestamp \in Nat

ASSUME OwnTransfers ==
    \A f \in Transfer : \A a \in Answers(f) :
        RpcRows(a) /\ (\E r \in ToSet(a.result) : AlchemyTransfer(r))
            => \E r \in ToSet(a.result) : AlchemyTransfer(r) /\ r[f] = Wallet

\* The movements of a feed, told apart as the page tells them apart.
Apart(f, moves) == IF f = "token" THEN Numbered(moves) ELSE moves

Name(f, m) ==
    CASE f \in Tron     -> TronId(m)
      [] f = "tx"       -> <<m.hash>>
      [] f = "token"    -> <<m.hash, m.tag>>
      [] f = "internal" -> <<m.hash, "internal", m.tag>>
      [] OTHER          -> m.tag

Alike(x, y) ==
    /\ x.hash = y.hash /\ x.value = y.value /\ x.asset = y.asset
    /\ x.from = y.from /\ x.to = y.to

ASSUME NamesAreUnique ==
    /\ \A f \in Every \ {"times", "helius"} : \A a \in Answers(f) :
         LET told == ToSet(Apart(f, Movements(f, a).moves))
         IN  \A x, y \in told : Name(f, x) = Name(f, y) => Alike(x, y)
    /\ \A a \in Answers("from"), b \in Answers("to") :
         \A x \in ToSet(Alchemy(a).moves), y \in ToSet(Alchemy(b).moves) : x.tag = y.tag => Alike(x, y)

Limits == 1 .. MaxLimit

ASSUME HistoryConstants ==
    /\ MaxLimit \in Nat /\ DefaultLimit \in Limits
    /\ \A l \in Asked : l = Null \/ l \in Int
    /\ \A s \in Setups : s.chain \in {"tron", "evm", "sol"}
    /\ Null \notin {"0", "1"}
-----------------------------------------------------------------------------

Told(status, records, by) ==
    [status |-> status, records |-> records, by |-> by, fresh |-> TRUE]

Nothing == [status |-> "none", fresh |-> FALSE]

HistoryInit ==
    /\ setup \in Setups
    /\ stage = "idle" /\ limit = DefaultLimit /\ left = FALSE
    /\ tried = [f \in Every |-> 0]
    /\ got = Unheard /\ todo = <<>> /\ page = <<>>
    /\ reply = Nothing
    /\ cached = [l \in Limits |-> Null]
-----------------------------------------------------------------------------
Tell(answer) == stage' = "idle" /\ reply' = answer /\ page' = <<>>

\* Only an answer that is not an error is kept.
Answer(status, records) ==
    /\ Tell(Told(status, records, stage))
    /\ cached' = [cached EXCEPT ![limit] = Told(status, records, stage)]

Fail == Tell(Told("error", <<>>, stage)) /\ UNCHANGED cached

Enter(s) == stage' = s /\ UNCHANGED <<reply, cached>>

FirstStage ==
    CASE setup.chain = "tron" -> "tron"
      [] setup.chain = "evm"  -> IF setup.alchemy > 0 THEN "alchemy" ELSE "explorer"
      [] setup.chain = "sol"  -> IF setup.helius THEN "helius" ELSE "owner"

Unsupported == setup.chain = "evm" /\ setup.alchemy = 0 /\ setup.explorers = 0

\* The page kept for the limit is answered again; otherwise the first stage begins.
Look(l) ==
    \/ /\ cached[l] # Null
       /\ reply' = [cached[l] EXCEPT !.fresh = FALSE]
       /\ UNCHANGED <<stage, cached>>
    \/ /\ cached[l] = Null /\ ~Unsupported
       /\ Cardinality({k \in Limits : cached[k] # Null}) <= MaxKept
       /\ stage' = FirstStage
       /\ reply' = Nothing
       /\ UNCHANGED cached
    \/ /\ cached[l] = Null /\ Unsupported
       /\ reply' = Told("unsupported", <<>>, "idle")
       /\ cached' = [cached EXCEPT ![l] = reply']
       /\ UNCHANGED stage

\* GetHistory, up to the first call upstream.
Ask ==
    /\ stage = "idle"
    /\ \E asked \in Asked :
         \/ /\ asked # Null /\ asked <= 0
            /\ reply' = [Nothing EXCEPT !.status = "refused"]
            /\ UNCHANGED <<stage, limit, cached>>
         \/ /\ asked # Null => asked > 0
            /\ limit' = IF asked = Null THEN DefaultLimit ELSE Min({asked, MaxLimit})
            /\ Look(limit')
    /\ left' = FALSE
    /\ tried' = [f \in Every |-> 0]
    /\ got' = Unheard
    /\ UNCHANGED <<setup, todo, page>>

Heeded(f, a) == [raw |-> a, ok |-> Decoded(f, a).ok, moves |-> Decoded(f, a).moves]

\* A source of feed f answers, or does not: firstExplorerTxList and its like,
\* Alchemy's loop over its endpoints, and the feeds with a single source.
Read(f) ==
    /\ stage \in {"tron", "alchemy", "times", "explorer", "helius"}
    /\ f \in Feeds(stage) /\ got[f] = Null
    /\ \E a \in IF left THEN {Bad} ELSE Answers(f) :
         IF Decoded(f, a).ok \/ tried[f] + 1 = Sources(f) \/ left
         THEN got' = [got EXCEPT ![f] = Heeded(f, a)] /\ tried' = [tried EXCEPT ![f] = 0]
         ELSE tried' = [tried EXCEPT ![f] = @ + 1] /\ UNCHANGED got
    /\ UNCHANGED <<setup, stage, limit, left, todo, page, reply, cached>>
-----------------------------------------------------------------------------
AllRead(s) == stage = s /\ \A f \in Feeds(s) : got[f] # Null

Ok(fs) == \A f \in fs : got[f].ok

\* tronHistory, once its three feeds are back
TronDone ==
    /\ AllRead("tron")
    /\ LET records == TronPage(got["trc20"].moves, got["native"].moves, got["traces"].moves, limit)
       IN  IF ~Ok(Tron) /\ records = <<>> THEN Fail ELSE Answer("ok", records)
    /\ UNCHANGED got

\* Alchemy has failed: its error is told only when no explorer is left to ask.
Fallback ==
    \/ setup.explorers = 0 /\ Fail /\ UNCHANGED got
    \/ setup.explorers > 0 /\ Enter("explorer") /\ page' = <<>> /\ got' = Unheard

\* Alchemy.Transfers: the directions are joined in the order they come in.
AlchemyDone ==
    /\ AllRead("alchemy")
    /\ \E first \in Transfer :
         LET moves == got[first].moves \o got[CHOOSE f \in Transfer : f # first].moves
         IN  CASE ~Ok(Transfer) /\ moves = <<>> -> Fallback
               [] Undated(moves) # {}           -> Enter("times") /\ page' = moves /\ UNCHANGED got
               [] OTHER                         -> Answer("ok", AlchemyPage(moves, limit)) /\ UNCHANGED got

TimesDone ==
    /\ AllRead("times")
    /\ IF got["times"].ok
       THEN Answer("ok", AlchemyPage(Dated(page, got["times"].moves), limit)) /\ UNCHANGED got
       ELSE Fallback

\* evmHistoryLists and what evmHistory makes of them.  The internal movements
\* may fail.
ExplorerDone ==
    /\ AllRead("explorer")
    /\ LET records == EvmPage(got["tx"].moves, got["token"].moves, got["internal"].moves, limit)
       IN  IF Ok({"tx", "token"}) \/ records # <<>> THEN Answer("ok", records) ELSE Fail
    /\ UNCHANGED got

\* Helius is optional: when it fails, the standard node is asked.
HeliusDone ==
    /\ AllRead("helius")
    /\ IF got["helius"].ok THEN Answer("ok", HeliusPage(got["helius"].moves, limit)) /\ UNCHANGED got
       ELSE Enter("owner") /\ got' = Unheard /\ UNCHANGED page

Joined ==
    /\ TronDone \/ AlchemyDone \/ TimesDone \/ ExplorerDone \/ HeliusDone
    /\ UNCHANGED <<setup, limit, left, tried, todo>>
-----------------------------------------------------------------------------
(* The standard Solana node: the signatures of the owner, those of its      *)
(* token accounts, then each transaction.                                   *)

Owner ==
    /\ stage = "owner"
    /\ \E a \in IF left THEN {Bad} ELSE Answers("owner") :
         IF a = Bad \/ Bad \in ToSet(a)
         THEN Fail /\ UNCHANGED todo
         ELSE Enter("accounts") /\ todo' = a /\ UNCHANGED page
    /\ UNCHANGED <<setup, limit, left, tried, got>>

\* Token accounts that cannot be listed or read add nothing, and no error.
Accounts ==
    /\ stage = "accounts"
    /\ \E more \in IF left THEN {{}} ELSE Answers("accounts") :
         \E order \in Orders(ToSet(todo) \cup more) :
             todo' = SubSeq(order, 1, Min({4 * limit, Len(order)}))
    /\ Enter("detail")
    /\ UNCHANGED <<setup, limit, left, tried, got, page>>

Detail ==
    /\ stage = "detail" /\ todo # <<>>
    /\ \E tx \in IF left THEN {Bad} ELSE Answers("detail") :
         IF ~Readable(tx)
         THEN todo' = Tail(todo) /\ got' = [got EXCEPT !["detail"] = Failed] /\ UNCHANGED page
         ELSE \E new \in SolRecords(Head(todo), tx) :
                /\ page' = SolAppend(page, new, limit)
                /\ todo' = IF SolFull(page, new, limit) THEN <<>> ELSE Tail(todo)
                /\ UNCHANGED got
    /\ UNCHANGED <<setup, stage, limit, left, tried, reply, cached>>

\* Mutant: an unreadable transaction is no reason to fail.
DetailDoneLax ==
    /\ stage = "detail" /\ todo = <<>>
    /\ Answer("ok", page)
    /\ UNCHANGED <<setup, limit, left, tried, got, todo>>

DetailDone ==
    /\ stage = "detail" /\ todo = <<>>
    /\ IF page = <<>> /\ got["detail"] # Null THEN Fail ELSE Answer("ok", page)
    /\ UNCHANGED <<setup, limit, left, tried, got, todo>>
-----------------------------------------------------------------------------
\* The caller goes away, or its budget is over: every call upstream fails.
Leave ==
    /\ stage # "idle" /\ ~left /\ left' = TRUE
    /\ UNCHANGED <<setup, stage, limit, tried, got, todo, page, reply, cached>>

\* historyTTL is over.
Expire ==
    /\ stage = "idle"
    /\ \E l \in Limits : cached[l] # Null /\ cached' = [cached EXCEPT ![l] = Null]
    /\ UNCHANGED <<setup, stage, limit, left, tried, got, todo, page, reply>>

HistoryStep ==
    \/ \E f \in Every : Read(f)
    \/ Joined \/ Owner \/ Accounts \/ Detail \/ DetailDone

HistoryNext == Ask \/ HistoryStep \/ Leave \/ Expire

HistorySpec == HistoryInit /\ [][HistoryNext]_historyVars
-----------------------------------------------------------------------------
(* Properties                                                               *)

Answered == reply.fresh /\ reply.status = "ok"

\* The feeds an answer was made of, and those it cannot do without.
Used(by) == IF by = "times" THEN Transfer ELSE Feeds(by)

Needed(by) == Used(by) \ {"internal", "detail"}

RowsOf(f) == Rows(f, got[f].raw)

\* That a wallet has no history is never told, and never cached, on the strength
\* of a feed that failed or of a page without one sound row; Etherscan's internal
\* feed and the token accounts of Solana excepted (history.go:178-180, 299-304,
\* upstream/alchemy.go:296-301).
EmptyPageIsProven ==
    Answered /\ reply.records = <<>> =>
        /\ \A f \in Needed(reply.by) :
             got[f].ok /\ (RowsOf(f) = <<>> \/ \E r \in ToSet(RowsOf(f)) : Sound(f, r))
        /\ reply.by = "detail" => got["detail"] = Null

Merged == Answered /\ reply.by \in {"tron", "alchemy", "times", "explorer"}

\* A merged page is newest first, names nothing twice, and keeps to the limit
\* the caller asked for, whichever feeds and sources it came from.
PageShape ==
    reply.status = "ok" /\ reply.by \in {"tron", "alchemy", "times", "explorer"} =>
        LET R == reply.records
        IN  /\ Len(R) <= limit
            /\ \A i, j \in DOMAIN R : i < j => R[i].time >= R[j].time /\ R[i].id # R[j].id

Shows(r, m) ==
    /\ r.hash = m.hash /\ r.value = m.value /\ r.asset = m.asset
    /\ r.from = m.from /\ r.to = m.to
    /\ r.direction = "out" <=> m.from = Wallet

\* A movement that a feed told of is on the page, as often as the feed tells it
\* apart, unless the page is full of newer ones: a shared transaction hash hides
\* nothing (history.go:116-118, 436-440).
NoMovementHidden ==
    Merged =>
        \A f \in Used(reply.by) : \A m \in ToSet(Mine(got[f].moves)) :
            LET R     == reply.records
                twins == {t \in ToSet(Apart(f, got[f].moves)) : [t EXCEPT !.tag = m.tag] = m}
            IN  \/ m.value = 0
                \/ Len(R) = limit /\ \A i \in DOMAIN R : R[i].time >= m.time
                \/ Cardinality({i \in DOMAIN R : Shows(R[i], m)})
                      >= IF f \in {"tx", "internal"} THEN 1 ELSE Cardinality(twins)

Names(x, hash) ==
    \E f \in {"hash", "transactionHash", "transaction_id", "txID", "tx_id", "signature"} :
        Member(x, f) = hash

\* What a row of a feed has to say for its movements to have failed, and to have
\* happened: an event of a log has happened wherever it is told of.
Denies(f, x) ==
    CASE f \in Explorer -> Member(x, "isError") = "1" \/ Member(x, "txreceipt_status") = "0"
      [] f = "native"   -> "ret" \in DOMAIN x /\ \E i \in DOMAIN x.ret : x.ret[i] # "SUCCESS"
      [] f = "traces"   -> Member(x.data, "rejected") = TRUE
      [] OTHER          -> FALSE

Affirms(f, x) ==
    CASE f \in Explorer -> \/ f = "token"
                           \/ Member(x, "isError") = "0" \/ Member(x, "txreceipt_status") = "1"
      [] f = "native"   -> "ret" \in DOMAIN x /\ x.ret # <<>>
      [] f = "traces"   -> Member(x.data, "rejected") = FALSE
      [] f = "helius"   -> Member(x, "confirmationStatus") \in {"confirmed", "finalized"}
      [] OTHER          -> TRUE

\* A movement is shown as executed, or as failed, only on the word of a row of
\* that transaction; a row that says nothing, or two things, proves neither
\* (upstream/history.go:18-53, 101-105).
StatusIsEvidence ==
    Answered /\ reply.by # "detail" =>
        \A r \in ToSet(reply.records) : r.status \in {"ok", "failed"} =>
            \E f \in Used(reply.by) : got[f].ok /\ \E x \in ToSet(RowsOf(f)) :
                /\ x # Bad /\ Names(x, r.hash)
                /\ r.status = "failed" <=> Denies(f, x)
                /\ r.status = "ok" => Affirms(f, x)
=============================================================================
