--------------------------- MODULE MCTransaction ---------------------------
EXTENDS TransactionReads, TLC

Says2(result) == [jsonrpc |-> "2.0", id |-> 1, result |-> result]
NodeSays(error) == [jsonrpc |-> "2.0", id |-> 1, error |-> error]
Refusal == [code |-> 3, message |-> "no"]
Unrouted == NodeSays([code |-> 3, message |-> "authentication failed"])

Broken == {Bad, [jsonrpc |-> "2.0", id |-> 1], [Says2(Hash) EXCEPT !.id = 2],
           [Says2(Hash) EXCEPT !.result = Bad], NodeSays([code |-> Bad, message |-> "no"]),
           Unrouted, Says2(Hash) @@ [error |-> Refusal]}

MCTaken(c) ==
    IF c # "tron" THEN Broken \cup {Says2(Hash)}
    ELSE {Bad, [result |-> TRUE, txid |-> Hash], [result |-> TRUE], [txid |-> Hash],
          [result |-> FALSE, txid |-> Hash, code |-> "c"], [result |-> Bad, txid |-> Hash]}

MCRefusals(c) ==
    IF c # "tron" THEN {Bad, Unrouted, NodeSays(Refusal), NodeSays(Refusal @@ [data |-> 1])}
    ELSE {Bad, [result |-> FALSE, code |-> "c", message |-> "m"], [result |-> FALSE],
          [Error |-> "e"], [Error |-> "e", code |-> "c"]}

Receipt == [transactionHash |-> Hash, blockHash |-> "b", blockNumber |-> 7,
            transactionIndex |-> 0, status |-> "0x1"]
Receipts(seen) ==
    {[Receipt EXCEPT !.transactionHash = "other"], [Receipt EXCEPT !.status = "0x2"],
     [Receipt EXCEPT !.blockHash = Bad]}
    \cup IF seen = "ok" THEN {Receipt} ELSE IF seen = "failed" THEN {[Receipt EXCEPT !.status = "0x0"]} ELSE {Null}

Info == [id |-> Hash, blockNumber |-> 7]
Infos(seen) ==
    {Bad, Info @@ [receipt |-> "ODD"], [Info EXCEPT !.id = "other"] @@ [receipt |-> "SUCCESS"], [id |-> Hash]}
    \cup (CASE seen = "ok"     -> {Info, Info @@ [receipt |-> "SUCCESS"]}
            [] seen = "failed" -> {Info, Info @@ [receipt |-> "REVERT"], Info @@ [result |-> "FAILED"]}
            [] OTHER           -> {<<>>})

Contracts(seen) ==
    {Bad, [txID |-> Hash, ret |-> <<>>], [txID |-> "other", ret |-> <<"SUCCESS">>],
     [txID |-> Hash, ret |-> <<"SUCCESS", "ODD">>]}
    \cup (CASE seen = "ok"     -> {[txID |-> Hash, ret |-> <<"SUCCESS">>]}
            [] seen = "failed" -> {[txID |-> Hash, ret |-> <<"SUCCESS", "OUT_OF_ENERGY">>]}
            [] OTHER           -> {})

Entry_ == [slot |-> 5, confirmations |-> Null, err |-> Null, status |-> [Ok |-> Null],
          confirmationStatus |-> "finalized"]
Failure_ == [Entry_ EXCEPT !.err = "e", !.status = [Err |-> "e"]]
Entries(seen) ==
    {[Entry_ EXCEPT !.slot = 9], [Entry_ EXCEPT !.err = "e"], [Entry_ EXCEPT !.confirmations = 3],
     [Entry_ EXCEPT !.confirmationStatus = "rooted"], [Entry_ EXCEPT !.confirmationStatus = Null]}
    \cup (CASE seen = "ok"     -> {Entry_, [Entry_ EXCEPT !.confirmations = 3, !.confirmationStatus = "confirmed"]}
            [] seen = "failed" -> {Failure_}
            [] seen = "pool"   -> {Null, [Entry_ EXCEPT !.confirmations = 0, !.confirmationStatus = "processed"]}
            [] OTHER           -> {Null})

MCReplies(question, seen) ==
    CASE question = "info"     -> Infos(seen)
      [] question = "contract" -> Contracts(seen)
      [] question = "receipt"  -> {Bad, NodeSays(Refusal)} \cup {Says2(r) : r \in Receipts(seen)}
      [] question = "transaction" ->
           {Bad, Says2([hash |-> "other"])} \cup {Says2(IF seen = "none" THEN Null ELSE [hash |-> Hash])}
      [] question = "statuses" ->
           {Bad, Says2([context |-> 5, value |-> <<>>])}
           \cup {Says2([context |-> 5, value |-> <<e>>]) : e \in Entries(seen)}
=============================================================================
