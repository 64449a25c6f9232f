------------------------------ MODULE MCParts ------------------------------
(***************************************************************************)
(* Six parts that share no state, four of the Gateway, one of KT Wallet and *)
(* one of Cold Signer: each behaviour takes steps of one, so that the run   *)
(* explores every state of each part, and not every pair of them.           *)
(***************************************************************************)
EXTENDS RpcServer, MCHistory, MCBalance, MCTransaction, EvmPreflight, ColdWallets
CONSTANTS c1, c2, proxy1, proxy2

VARIABLE part

Forged == UNION {[1 .. n -> {c1, c2, Garbled}] : n \in 0 .. 2}
MCWires ==
    {[origin |-> c, peer |-> c, chain |-> f, real |-> NoHeader] : c \in {c1, c2}, f \in Forged}
    \cup {[origin |-> c, peer |-> proxy1, chain |-> f \o <<c>>, real |-> NoHeader] : c \in {c1, c2}, f \in Forged}
    \cup {[origin |-> c, peer |-> proxy1, chain |-> f \o <<c, proxy2>>, real |-> NoHeader] : c \in {c1, c2}, f \in Forged}
    \cup {[origin |-> c, peer |-> proxy1, chain |-> <<>>, real |-> x] : c \in {c1, c2}, x \in {NoHeader, Garbled}}
    \cup {[origin |-> c, peer |-> proxy1, chain |-> <<>>, real |-> c] : c \in {c1, c2}}

Query == [shape |-> "object", twice |-> {}, strange |-> {}, misfit |-> {},
          version |-> TRUE, method |-> "known", id |-> "given"]
MCBodies ==
    {[Query EXCEPT !.shape = s] : s \in {"huge", "cut", "batch", "text", "scalar", "object"}}
    \cup {[Query EXCEPT !.twice = {"id"}], [Query EXCEPT !.strange = {"Method"}],
          [Query EXCEPT !.misfit = {"params"}], [Query EXCEPT !.version = FALSE],
          [Query EXCEPT !.method = ""], [Query EXCEPT !.method = "unknown"],
          [Query EXCEPT !.id = "absent"], [Query EXCEPT !.id = "null", !.method = "unknown"]}

MCWalletOf == [q \in ReqId |-> q]

OneOfMany(x, S) == x = CHOOSE y \in S : TRUE

PartsInit ==
    /\ part \in {"rpc", "history", "balances", "transactions", "preflight", "cold"}
    /\ RpcInit /\ HistoryInit /\ BalanceInit /\ TransactionInit /\ PreflightInit /\ ColdInit
    /\ part # "rpc" => OneOfMany(verdict, [bucket : Slot, allowed : BOOLEAN])
    /\ part # "history" => OneOfMany(setup, Setups)
    /\ part # "balances" =>
         chain = "evm" /\ OneOfMany(had, [Account -> [Assets -> {<<v>> : v \in Worths}]])
    /\ part # "transactions" => kind = "evm"
    /\ part # "preflight" => views = BOOLEAN /\ sent = 0

PartsNext ==
    /\ \/ part = "rpc" /\ RpcNext
          /\ UNCHANGED <<historyVars, balanceVars, transactionVars, preflightVars,
                         coldVars>>
       \/ part = "history" /\ HistoryNext
          /\ UNCHANGED <<rpcVars, balanceVars, transactionVars, preflightVars,
                         coldVars>>
       \/ part = "balances" /\ BalanceNext
          /\ UNCHANGED <<rpcVars, historyVars, transactionVars, preflightVars,
                         coldVars>>
       \/ part = "transactions" /\ TransactionNext
          /\ UNCHANGED <<rpcVars, historyVars, balanceVars, preflightVars,
                         coldVars>>
       \/ part = "preflight" /\ PreflightNext
          /\ UNCHANGED <<rpcVars, historyVars, balanceVars, transactionVars, coldVars>>
       \/ part = "cold" /\ ColdNext
          /\ UNCHANGED <<rpcVars, historyVars, balanceVars, transactionVars, preflightVars>>
    /\ UNCHANGED part

PartsSpec ==
    PartsInit /\ [][PartsNext]_<<part, rpcVars, historyVars, balanceVars, transactionVars,
                                 preflightVars, coldVars>>
=============================================================================
