------------------------------ MODULE HistoryRows ------------------------------
(***************************************************************************)
(* What the Gateway takes from a history provider's answer (upstream:      *)
(* history.go, alchemy.go, tron_history.go, solana.go): which rows are     *)
(* sound, and which movements they tell of.                                *)
(***************************************************************************)
EXTENDS JsonRows, Integers, SequencesExt

CONSTANTS
    Wallet,  \* the address asked about
    Coin     \* the chain's own coin, as an asset

\* An asset movement as the providers' typed rows carry it.  "tag" is what tells
\* it from another movement of its transaction.
Move(hash, from, to, value, time, status, asset, tag) ==
    [hash |-> hash, from |-> from, to |-> to, value |-> value, time |-> time,
     status |-> status, asset |-> asset, tag |-> tag]

Failed    == [ok |-> FALSE, moves |-> <<>>]
Feed(seq) == [ok |-> TRUE, moves |-> seq]

\* The members of a finite set S, in the order of the pairs in R.
InOrder(S, R) ==
    [n \in 1 .. Cardinality(S) |-> CHOOSE p \in S : Cardinality({q \in S : <<q, p>> \in R}) = n - 1]

\* What s has at some of its places.
Ascending(places) == {r \in places \X places : r[1] < r[2]}

Keep(s, places) ==
    LET order == InOrder(places, Ascending(places))
    IN  [n \in 1 .. Cardinality(places) |-> s[order[n]]]

\* The sequences of a family, one after the other.
Places(family) == UNION {{i} \X (DOMAIN family[i]) : i \in DOMAIN family}

Earlier(places) ==
    {r \in places \X places : r[1][1] < r[2][1] \/ (r[1][1] = r[2][1] /\ r[1][2] < r[2][2])}

Chain(family) ==
    LET order == InOrder(Places(family), Earlier(Places(family)))
    IN  [n \in 1 .. Cardinality(Places(family)) |-> family[order[n][1]][order[n][2]]]

\* What the sound rows tell of.  A malformed row is left out; a page with such
\* rows and no movement fails.
Collect(rows, told) ==
    IF DOMAIN told # DOMAIN rows /\ \A i \in DOMAIN told : told[i] = <<>>
    THEN Failed ELSE Feed(Chain(told))

Page(rows, Reads(_), Moves(_)) ==
    Collect(rows, [i \in {j \in DOMAIN rows : Reads(rows[j])} |-> Moves(rows[i])])
-----------------------------------------------------------------------------
(* Etherscan and its look-alikes.                                           *)

\* Mutant: a row that says nothing of its execution counts as executed.
EtherscanExecutionStatusLax(r) ==
    IF Member(r, "isError") = "1" \/ Member(r, "txreceipt_status") = "0" THEN "failed" ELSE "ok"

EtherscanExecutionStatus(r) ==
    LET confirmed == Member(r, "isError") = "0" \/ Member(r, "txreceipt_status") = "1"
        failed    == Member(r, "isError") = "1" \/ Member(r, "txreceipt_status") = "0"
    IN  CASE confirmed /\ ~failed -> "ok"
          [] failed /\ ~confirmed -> "failed"
          [] OTHER                -> "unknown"

Flags == {"isError", "txreceipt_status"}

EtherscanTx(r) == Fits(r, {"hash", "from", "to", "value", "timeStamp"}, Flags)

TxMoves(r) ==
    <<Move(r.hash, r.from, r.to, r.value, r.timeStamp, EtherscanExecutionStatus(r), Coin, Null)>>

EtherscanTokenTx(r) ==
    Fits(r, {"blockNumber", "timeStamp", "hash", "blockHash", "from", "to", "value",
             "tokenSymbol", "tokenDecimal", "contractAddress", "transactionIndex",
             "confirmations"}, Flags \cup {"logIndex"})

\* The block location that EtherscanTokenTx requires is evidence by itself.
EtherscanTokenExecutionStatus(r) ==
    IF Member(r, "isError") = Null /\ Member(r, "txreceipt_status") = Null
    THEN "ok" ELSE EtherscanExecutionStatus(r)

TokenMoves(r) ==
    <<Move(r.hash, r.from, r.to, r.value, r.timeStamp, EtherscanTokenExecutionStatus(r),
           r.contractAddress, Member(r, "logIndex"))>>

EtherscanInternalTx(r) ==
    /\ Fits(r, {"from", "to", "value", "timeStamp"},
            Flags \cup {"hash", "transactionHash", "traceId", "index"})
    /\ OneOf(r, "hash", "transactionHash") /\ OneOf(r, "traceId", "index")

InternalMoves(r) ==
    <<Move(IF "hash" \in DOMAIN r THEN r.hash ELSE r.transactionHash, r.from, r.to, r.value,
           r.timeStamp, EtherscanExecutionStatus(r), Coin,
           IF "traceId" \in DOMAIN r THEN r.traceId ELSE r.index)>>

\* decodeExplorerAccountEnvelope
ExplorerRows(a) ==
    /\ a # Bad /\ a.result # Bad
    /\ \/ a.status = "1" /\ a.message = "OK"
       \/ a.status = "0" /\ a.message = "No transactions found" /\ a.result = <<>>

TxList(a)         == IF ExplorerRows(a) THEN Page(a.result, EtherscanTx, TxMoves) ELSE Failed
TokenTxList(a)    == IF ExplorerRows(a) THEN Page(a.result, EtherscanTokenTx, TokenMoves) ELSE Failed
InternalTxList(a) == IF ExplorerRows(a) THEN Page(a.result, EtherscanInternalTx, InternalMoves) ELSE Failed
-----------------------------------------------------------------------------
(* The JSON-RPC providers, Alchemy and Helius: either a result or an error. *)

RpcRows(a) == a # Bad /\ OneOf(a, "result", "error") /\ Member(a, "result") \notin {Null, Bad}

\* decodeAlchemyTransfer.  "to" and, for a native transfer, "address" are null;
\* a time stamp that is missing or unreadable is asked for later.
AlchemyTransfer(r) ==
    /\ Fits(r, {"blockNum", "uniqueId", "hash", "from", "to", "category", "value",
                "address", "decimal"}, {})
    /\ r.blockNum # Null /\ r.uniqueId # Null /\ r.hash # Null /\ r.from # Null
    /\ r.value # Null /\ r.value > 0 /\ r.decimal # Null
    /\ r.category \in {"external", "internal", "erc20"}
    /\ r.category = "erc20" <=> r.address # Null

BlockTime(r) == IF Member(r, "blockTimestamp") = Bad THEN Null ELSE Member(r, "blockTimestamp")

\* Until its block is known the time of such a transfer is the block's number,
\* negated.
AlchemyMoves(r) ==
    <<Move(r.hash, r.from, r.to, r.value,
           IF BlockTime(r) = Null THEN -r.blockNum ELSE BlockTime(r), "ok",
           IF r.category = "erc20" THEN r.address ELSE Coin, r.uniqueId)>>

Alchemy(a) == IF RpcRows(a) THEN Page(a.result, AlchemyTransfer, AlchemyMoves) ELSE Failed

Undated(moves) == {-moves[i].time : i \in {j \in DOMAIN moves : moves[j].time < 0}}

\* decodeAlchemyBlockTimestamps: one entry for each block, each with an id of
\* its own and a time.
BlockTimestamps(a, blocks) ==
    /\ a # Bad /\ Len(a) = Cardinality(blocks)
    /\ \A i \in DOMAIN a : Fits(a[i], {"id", "timestamp"}, {}) /\ a[i].id \in blocks
    /\ \A i, j \in DOMAIN a : a[i].id = a[j].id => i = j

\* fillMissingBlockTimes
Dated(moves, a) ==
    [i \in DOMAIN moves |->
        IF moves[i].time >= 0 THEN moves[i]
        ELSE [moves[i] EXCEPT !.time = (CHOOSE e \in ToSet(a) : e.id = -moves[i].time).timestamp]]

\* decodeHeliusTransfer
HeliusTransfer(r) ==
    /\ Fits(r, {"signature", "blockTime", "type", "fromUserAccount", "toUserAccount", "mint",
                "amount", "decimals", "confirmationStatus", "transactionIdx",
                "instructionIdx"}, {"innerInstructionIdx"})
    /\ \A f \in DOMAIN r \ {"fromUserAccount", "toUserAccount", "innerInstructionIdx"} : r[f] # Null
    /\ r.fromUserAccount # Null \/ r.toUserAccount # Null
    /\ r.type \in {"transfer", "mint", "burn", "wrap", "unwrap", "changeOwner",
                   "withdrawWithheldFee"}

HeliusMoves(r) ==
    <<Move(r.signature, r.fromUserAccount, r.toUserAccount, r.amount, r.blockTime,
           CASE r.confirmationStatus \in {"confirmed", "finalized"} -> "ok"
             [] r.confirmationStatus = "processed"                  -> "pending"
             [] OTHER                                               -> "unknown",
           r.mint, <<r.transactionIdx, r.instructionIdx, Member(r, "innerInstructionIdx")>>)>>

Helius(a) == IF RpcRows(a) THEN Page(a.result, HeliusTransfer, HeliusMoves) ELSE Failed
-----------------------------------------------------------------------------
(* TronGrid.                                                                *)

\* decodeTronHistoryEnvelope
TronRows(a) == a # Bad /\ a.success /\ a.data # Bad

\* decodeTronTRC20Transfer.  Approvals and NFT events are well-formed, and move
\* nothing.
TronTRC20(r) ==
    /\ Fits(r, {"type"}, {})
    /\ r.type = "Transfer" =>
         Fits(r, {"transaction_id", "from", "to", "value", "block_timestamp",
                  "symbol", "address", "decimals"}, {})

TRC20Moves(r) ==
    IF r.type # "Transfer" THEN <<>>
    ELSE <<Move(r.transaction_id, r.from, r.to, r.value, r.block_timestamp, "ok", r.address,
                <<"trc20">>)>>

\* decodeTronNativeStatus
TronStatus(r) ==
    LET ret == IF "ret" \in DOMAIN r THEN r.ret ELSE <<>>
    IN  IF ret = <<>> THEN "unknown"
        ELSE IF \A i \in DOMAIN ret : ret[i] = "SUCCESS" THEN "ok" ELSE "failed"

Transfers == {"TransferContract", "TransferAssetContract"}

\* decodeTronNativeTransaction: every contract of the transaction has to be
\* sound, those that move nothing up to their type.
TronContract(c) ==
    /\ Fits(c, {"type"}, {})
    /\ c.type \in Transfers =>
         /\ Fits(c, {"amount", "owner_address", "to_address"}, {"type_url", "asset_name"})
         /\ Member(c, "type_url") \in {Null, c.type}
         /\ "asset_name" \in DOMAIN c <=> c.type = "TransferAssetContract"

TronNative(r) ==
    /\ Fits(r, {"txID", "block_timestamp", "contract"}, {"ret"})
    /\ "ret" \in DOMAIN r => \A i \in DOMAIN r.ret : r.ret[i] # Bad
    /\ \A i \in DOMAIN r.contract : TronContract(r.contract[i])

NativeMoves(r) ==
    Chain([i \in DOMAIN r.contract |->
        LET c == r.contract[i]
        IN  IF c.type \notin Transfers THEN <<>>
            ELSE <<Move(r.txID, c.owner_address, c.to_address, c.amount, r.block_timestamp,
                        TronStatus(r), IF "asset_name" \in DOMAIN c THEN c.asset_name ELSE Coin,
                        <<"contract", i>>)>>])

\* decodeTronInternalTransaction
TronInternal(r) ==
    /\ Fits(r, {"tx_id", "internal_tx_id", "from_address", "to_address", "block_timestamp",
                "data"}, {})
    /\ Fits(r.data, {}, {"rejected", "call_value", "call_token_value", "token_id"})
    /\ Member(r.data, "call_token_value") \notin {Null, 0} => Member(r.data, "token_id") \notin {Null, "0"}

TronInternalMoves(r) ==
    LET status == CASE Member(r.data, "rejected") = TRUE  -> "failed"
                    [] Member(r.data, "rejected") = FALSE -> "ok"
                    [] OTHER                              -> "unknown"
        Part(value, asset) ==
            IF Member(r.data, value) \in {Null, 0} THEN <<>>
            ELSE <<Move(r.tx_id, r.from_address, r.to_address, r.data[value], r.block_timestamp,
                        status, asset, <<"internal", r.internal_tx_id>>)>>
    IN  Part("call_value", Coin) \o Part("call_token_value", Member(r.data, "token_id"))

TRC20Transfers(a)       == IF TronRows(a) THEN Page(a.data, TronTRC20, TRC20Moves) ELSE Failed
NativeTransactions(a)   == IF TronRows(a) THEN Page(a.data, TronNative, NativeMoves) ELSE Failed
InternalTransactions(a) == IF TronRows(a) THEN Page(a.data, TronInternal, TronInternalMoves) ELSE Failed
-----------------------------------------------------------------------------
(* The standard Solana node.                                                *)

\* SolanaSignature.ExecutionStatus
SignatureStatus(s) ==
    IF "err" \notin DOMAIN s THEN "unknown" ELSE IF s.err = Null THEN "ok" ELSE "failed"

\* What a parsed transaction did to the wallet: GetTransactionAccountImpact.
Place(tx) ==
    LET mine == {i \in DOMAIN tx.keys : tx.keys[i] = Wallet}
    IN  IF mine = {} \/ Max(mine) > Len(tx.pre) THEN 0 ELSE Max(mine)

TokenRows(tx, mint) == {b \in tx.tokens : b.owner = Wallet /\ b.mint = mint /\ b.amount # Bad}

TokenDelta(tx, mint) ==
    MapThenSumSet(LAMBDA b : IF b.after THEN b.amount ELSE -b.amount, TokenRows(tx, mint))

Mints(tx) == {m \in {b.mint : b \in tx.tokens} : TokenRows(tx, m) # {} /\ TokenDelta(tx, m) # 0}

\* The parties of the last instruction that names the wallet as one.
Parties(tx, asset) ==
    LET named == {i \in DOMAIN tx.instructions :
                    /\ tx.instructions[i].asset = asset
                    /\ Wallet \in {tx.instructions[i].from, tx.instructions[i].to}}
    IN  IF named = {} THEN [from |-> Null, to |-> Null, asset |-> asset]
        ELSE tx.instructions[Max(named)]

Readable(tx) ==
    /\ tx \notin {Bad, Null}
    /\ Place(tx) > 0 => tx.pre[Place(tx)] # Bad /\ tx.post[Place(tx)] # Bad
    /\ Wallet \in ToSet(tx.keys) \/ Mints(tx) # {}

NativeDelta(tx) == IF Place(tx) = 0 THEN 0 ELSE tx.post[Place(tx)] - tx.pre[Place(tx)]
=============================================================================
