------------------------------ MODULE MCHistory ------------------------------
(* Pages of each provider for one wallet, "me".                             *)
EXTENDS HistoryRead, TLC

\* Without some members
Less(r, F) == [f \in DOMAIN r \ F |-> r[f]]

Tx == [hash |-> "h1", from |-> "me", to |-> "you", value |-> 5, timeStamp |-> 30,
       isError |-> "0", txreceipt_status |-> "1"]
Explorers(pages) == {Bad, [status |-> "0", message |-> "NOTOK", result |-> Bad],
                     [status |-> "0", message |-> "No transactions found", result |-> <<>>]}
                    \cup {[status |-> "1", message |-> "OK", result |-> p] : p \in pages}
TxPages == {
    <<Tx>>,
    <<[Tx EXCEPT !.value = 0]>>,
    <<Less(Tx, {"value"})>>,
    <<[Tx EXCEPT !.hash = "h3", !.timeStamp = 40], [Tx EXCEPT !.value = Bad]>>,
    <<[Tx EXCEPT !.isError = "1"], [Tx EXCEPT !.hash = "h3", !.from = "you", !.to = "me"]>>,
    <<[Less(Tx, {"txreceipt_status"}) EXCEPT !.isError = "1"]>>,
    <<Less(Tx, {"isError", "txreceipt_status"})>>,
    <<[Tx EXCEPT !.from = "you"]>> }

TokenRow == [blockNumber |-> 7, timeStamp |-> 30, hash |-> "h1", blockHash |-> "b", from |-> "you",
          to |-> "me", value |-> 9, tokenSymbol |-> "t", tokenDecimal |-> 6,
          contractAddress |-> "usd", transactionIndex |-> 0, confirmations |-> 3]
TokenPages == {
    <<TokenRow>>,
    <<TokenRow, TokenRow>>,
    <<[TokenRow EXCEPT !.blockHash = Bad]>>,
    <<TokenRow @@ [logIndex |-> 4], [TokenRow EXCEPT !.timeStamp = 50] @@ [logIndex |-> 5]>>,
    <<TokenRow @@ [isError |-> "1"], [TokenRow EXCEPT !.contractAddress = "spam", !.timeStamp = 20]>>,
    <<TokenRow @@ [isError |-> "0", txreceipt_status |-> "0"]>> }

Trace == [hash |-> "h1", traceId |-> "0_1", from |-> "you", to |-> "me", value |-> 2,
          timeStamp |-> 30, isError |-> "0"]
TracePages == {
    <<Trace>>,
    <<Trace @@ [index |-> "1"]>>,
    <<[Less(Trace, {"hash"}) EXCEPT !.traceId = "2"] @@ [transactionHash |-> "h2"], Trace>>,
    <<[Trace EXCEPT !.from = "me", !.to = "you", !.value = 5]>> }

Sent == [blockNum |-> 7, uniqueId |-> "u1", hash |-> "h1", from |-> "me", to |-> "you",
         category |-> "external", value |-> 5, address |-> Null, decimal |-> 18,
         blockTimestamp |-> 30]
Results(pages) == {Bad, [error |-> Null]} \cup {[result |-> p] : p \in pages}
SentPages == {
    <<>>,
    <<Sent>>,
    <<Less(Sent, {"blockTimestamp"})>>,
    <<[Sent EXCEPT !.value = 0]>>,
    <<[Sent EXCEPT !.uniqueId = "u6", !.to = "me"], [Sent EXCEPT !.category = "erc20"]>>,
    <<[Sent EXCEPT !.uniqueId = "u2", !.category = "erc20", !.address = "usd", !.blockTimestamp = Bad]>> }
ReceivedPages == {
    <<>>,
    <<[Sent EXCEPT !.uniqueId = "u6", !.to = "me"]>>,
    <<[Sent EXCEPT !.uniqueId = "u3", !.blockNum = 8, !.from = "you", !.to = "me", !.blockTimestamp = Bad]>>,
    <<[Sent EXCEPT !.uniqueId = "u4", !.from = "you", !.to = "me", !.blockTimestamp = 60],
      [Sent EXCEPT !.uniqueId = "u5", !.from = "you", !.to = Null, !.blockTimestamp = 20]>> }
Blocks == {
    Bad,
    <<[id |-> 7, timestamp |-> 30]>>,
    <<[id |-> 8, timestamp |-> 40], [id |-> 7, timestamp |-> 30]>>,
    <<[id |-> 7, timestamp |-> 30], [id |-> 7, timestamp |-> 31]>>,
    <<[id |-> 8, timestamp |-> 40]>> }

HeliusRow == [signature |-> "s1", blockTime |-> 30, type |-> "transfer", fromUserAccount |-> "me",
          toUserAccount |-> "you", mint |-> "usd", amount |-> 5, decimals |-> 6,
          confirmationStatus |-> "finalized", transactionIdx |-> 0, instructionIdx |-> 1]
HeliusPages == {
    <<>>,
    <<HeliusRow, HeliusRow @@ [innerInstructionIdx |-> 0], [HeliusRow EXCEPT !.mint = "wsol"]>>,
    <<[HeliusRow EXCEPT !.type = "swap"]>>,
    <<[HeliusRow EXCEPT !.fromUserAccount = Null, !.toUserAccount = "me", !.confirmationStatus = "processed"],
      [HeliusRow EXCEPT !.fromUserAccount = Null, !.toUserAccount = Null]>>,
    <<[HeliusRow EXCEPT !.fromUserAccount = "you", !.confirmationStatus = "rooted"]>> }

Trons(pages) == {Bad, [success |-> FALSE, data |-> <<>>], [success |-> TRUE, data |-> Bad]}
                \cup {[success |-> TRUE, data |-> p] : p \in pages}
Event == [type |-> "Transfer", transaction_id |-> "h1", from |-> "me", to |-> "you", value |-> 9,
          block_timestamp |-> 30, symbol |-> "t", address |-> "usd", decimals |-> 6]
EventPages == {
    <<>>,
    <<Event, [Event EXCEPT !.value = 8]>>,
    <<Event, Event, [Event EXCEPT !.to = "me", !.from = "you", !.block_timestamp = 50]>>,
    <<[Event EXCEPT !.type = "Approval"]>>,
    <<[Event EXCEPT !.value = Bad]>>,
    <<[Event EXCEPT !.type = "Approval"], [Event EXCEPT !.to = Bad]>> }
Pay == [type |-> "TransferContract", amount |-> 5, owner_address |-> "me", to_address |-> "you"]
Paid == [txID |-> "h1", block_timestamp |-> 30, ret |-> <<"SUCCESS">>, contract |-> <<Pay>>]
PaidPages == {
    <<>>,
    <<Paid>>,
    <<[Paid EXCEPT !.contract = <<Pay, Pay>>], [Paid EXCEPT !.txID = "h2", !.block_timestamp = 40, !.ret = <<"REVERT">>]>>,
    <<[Paid EXCEPT !.contract = <<[type |-> "TriggerSmartContract"],
        [Pay EXCEPT !.type = "TransferAssetContract"] @@ [asset_name |-> "1002"]>>, !.ret = <<>>]>>,
    <<[Paid EXCEPT !.contract = <<Pay @@ [asset_name |-> "1002"]>>]>>,
    <<Less(Paid, {"ret"}), [Paid EXCEPT !.ret = <<Bad>>]>> }
Call == [tx_id |-> "h1", internal_tx_id |-> "i1", from_address |-> "you", to_address |-> "me",
           block_timestamp |-> 30, data |-> [rejected |-> FALSE, call_value |-> 3]]
CalledPages == {
    <<>>,
    <<Call>>,
    <<[Call EXCEPT !.data = [call_value |-> 3, call_token_value |-> 4, token_id |-> "1002"]]>>,
    <<[Call EXCEPT !.data = [rejected |-> TRUE, call_token_value |-> 4]]>>,
    <<[Call EXCEPT !.data = [rejected |-> TRUE, call_value |-> 3]],
      [Call EXCEPT !.internal_tx_id = "i2", !.data = [rejected |-> FALSE, call_value |-> 0]]>> }

Sig(s, t) == [signature |-> s, blockTime |-> t, err |-> Null]
Signatures == { Bad, <<>>, <<Sig("s1", 30)>>,
    <<Sig("s1", 30), [signature |-> "s2", blockTime |-> 30], [signature |-> "s3", err |-> "x"]>>,
    <<Sig("s1", 30), Bad>> }
Spent == [keys |-> <<"me", "you">>, pre |-> <<9, 0>>, post |-> <<4, 5>>, tokens |-> {},
          instructions |-> <<[asset |-> Coin, from |-> "me", to |-> "you"]>>]
Balance(mint, after, amount) == [owner |-> "me", mint |-> mint, after |-> after, amount |-> amount]
Transactions == {
    Bad, Null, Spent,
    [Spent EXCEPT !.pre = <<Bad, 0>>],
    [Spent EXCEPT !.keys = <<"you">>],
    [Spent EXCEPT !.post = <<9, 0>>],
    [Spent EXCEPT !.keys = <<"you">>, !.instructions = <<>>,
        !.tokens = {Balance("usd", FALSE, 1), Balance("usd", TRUE, 4), Balance("spam", TRUE, 2)}] }

MCAnswers(f) ==
    CASE f = "tx"       -> Explorers(TxPages)
      [] f = "token"    -> Explorers(TokenPages)
      [] f = "internal" -> Explorers(TracePages)
      [] f = "from"     -> Results(SentPages)
      [] f = "to"       -> Results(ReceivedPages)
      [] f = "times"    -> Blocks
      [] f = "helius"   -> Results(HeliusPages)
      [] f = "trc20"    -> Trons(EventPages)
      [] f = "native"   -> Trons(PaidPages)
      [] f = "traces"   -> Trons(CalledPages)
      [] f = "owner"    -> Signatures
      [] f = "accounts" -> {{}, {Sig("s4", 40)}, {Sig("s1", 30)}}
      [] f = "detail"   -> Transactions

MCAsked == {Null, 0, 5}

MCSetups ==
    {[chain |-> c, alchemy |-> 0, explorers |-> 0, helius |-> h] : c \in {"tron", "sol"}, h \in BOOLEAN}
    \cup {[chain |-> "evm", alchemy |-> a, explorers |-> e, helius |-> FALSE] : a \in 0 .. 1, e \in 0 .. 2}
=============================================================================
