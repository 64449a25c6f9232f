----------------------------- MODULE MCBalance -----------------------------
EXTENDS BalanceReads, TLC

OtherAccount == CHOOSE y : y \notin Account

Row(q, amount, key) ==
    [pubkey |-> key, program |-> "spl-token", parsed |-> "spl-token", mint |-> q.asset,
     owner |-> q.of, state |-> "initialized", amount |-> amount, ui |-> amount]

Ctx(value) == [context |-> 1, value |-> value]

TronRow(q, v) == [address |-> q.of, balance |-> v, trc20 |-> <<>>]
TronAccounts(q, v) ==
    {[data |-> <<TronRow(q, v)>>, success |-> TRUE],
     [data |-> <<TronRow(q, v)>>, success |-> FALSE],
     [data |-> <<[TronRow(q, 9) EXCEPT !.address = "other"]>>, success |-> TRUE],
     [data |-> <<[TronRow(q, v) EXCEPT !.balance = Bad]>>, success |-> TRUE]}
    \cup IF v # 0 THEN {} ELSE {[data |-> <<[address |-> q.of]>>, success |-> TRUE],
                               [data |-> <<>>, success |-> TRUE]}

Called(q, v) ==
    [transaction |-> <<[call |-> "balanceOf", owner |-> q.of, contract |-> q.asset]>>,
     constant_result |-> <<v>>, result |-> TRUE]
TronTokens(q, v) ==
    {Called(q, v), [Called(q, 0) EXCEPT !.result = FALSE], [Called(q, 0) EXCEPT !.constant_result = <<>>],
     [Called(q, 9) EXCEPT !.transaction = <<[call |-> "balanceOf", owner |-> "other", contract |-> q.asset]>>]}

SolTokens(q, v) ==
    {Ctx(IF v = 0 THEN <<>> ELSE <<Row(q, v - 1, "k1"), Row(q, 1, "k2")>>),
     Ctx(<<Row(q, v, "k1"), Row(q, v, "k1")>>),
     Ctx(<<Row(q, MaxU64, "k1"), Row(q, 1, "k2")>>),
     Ctx(<<[Row(q, 9, "k1") EXCEPT !.owner = "other"]>>),
     Ctx(<<[Row(q, 9, "k1") EXCEPT !.mint = "mint"]>>),
     Ctx(<<[Row(q, v, "k1") EXCEPT !.ui = 9]>>)}

MCSays(c, q, v) == {Bad} \cup
    CASE c = "evm"                           -> {v}
      [] c = "tron" /\ q.asset = Native      -> TronAccounts(q, v)
      [] c = "tron" /\ q.asset # Native      -> TronTokens(q, v)
      [] c = "solana" /\ q.asset = Native    -> {Ctx(v), [value |-> v], Ctx(MaxU64 + 1)}
      [] c = "solana" /\ q.asset # Native    -> SolTokens(q, v)
=============================================================================
