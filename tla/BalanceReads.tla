----------------------------- MODULE BalanceReads -----------------------------
(***************************************************************************)
(* kt_getPortfolio and kt_getBalances (handlers/balances.go): the balances *)
(* of several accounts, each its native coin first and its tokens then,    *)
(* read from nodes that may lag, garble their answers or answer for        *)
(* somebody else (upstream: evm.go, tron.go, solana_balance.go).  Answers  *)
(* are kept per account; a token that fails is told as zero with an error. *)
(***************************************************************************)
EXTENDS JsonRows, Integers, FiniteSetsExt, Folds, SequencesExt

CONSTANTS
    Account,       \* the accounts of a portfolio
    Token,         \* the tokens asked for
    Native,        \* the native coin
    MaxU64,        \* the largest amount of a Solana account
    Worths,        \* what an account may hold of an asset
    Says(_, _, _), \* what a node of a chain may say of an asset, and of a value of it
    Slots,         \* how many accounts are read at a time
    MaxMoves       \* bound of the model: changes on the chain

VARIABLES
    chain,  \* the chain of the accounts
    had,    \* had[x][a]: what x has held of a, each value once; the last is what it holds
    gone,   \* whether the caller's context is done
    at,     \* at[x]: where the reading of x stands
    found,  \* found[x]: what was read of x so far
    told,   \* told[x]: the entry of x in the answer
    kept    \* kept[x]: balanceCache

balanceVars == <<chain, had, gone, at, found, told, kept>>

Assets == Token \cup {Native}

Error  == [error |-> TRUE, raw |-> 0]
Raw(v) == [error |-> FALSE, raw |-> v]
-----------------------------------------------------------------------------
(* What is made of an answer: a value, or an error.                         *)

\* decodeTronAccount: an account that was never used has no row, one without
\* the coin no balance.
TronListed(a) == Exact(a, {"data", "success"}, {"meta"}) /\ a.success /\ Len(a.data) <= 1

TronOwn(row, x) == Fits(row, {"address"}, {"balance", "trc20"}) /\ row.address = x

TronCoins(row) == IF "balance" \in DOMAIN row THEN row.balance ELSE 0

TronAccount(a, x) ==
    IF ~TronListed(a) THEN Error
    ELSE IF a.data = <<>> THEN Raw(0)
    ELSE IF TronOwn(a.data[1], x) THEN Raw(TronCoins(a.data[1])) ELSE Error

\* decodeTronTRC20Balance: the node repeats the call that it made; "call" stands
\* for the type, owner, contract and call data in it.
TronCalled(a, x, t) ==
    /\ Fits(a, {"transaction", "constant_result", "result"}, {})
    /\ a.result = TRUE
    /\ a.transaction = <<[call |-> "balanceOf", owner |-> x, contract |-> t]>>
    /\ Len(a.constant_result) = 1 /\ a.constant_result[1] # Bad

TronToken(a, x, t) == IF TronCalled(a, x, t) THEN Raw(a.constant_result[1]) ELSE Error

\* decodeSolanaNativeBalance
SolanaContext(a) == Exact(a, {"context", "value"}, {})

SolanaNative(a) == IF SolanaContext(a) /\ a.value <= MaxU64 THEN Raw(a.value) ELSE Error

\* decodeSolanaTokenAccount, decodeSolanaTokenInfo, decodeSolanaTokenAmount:
\* "ui" is what uiAmountString says of the amount.
SolanaTokenAccount(row, x, t) ==
    /\ Exact(row, {"pubkey", "program", "parsed", "mint", "owner", "state", "amount", "ui"},
             {"executable", "space"})
    /\ {row.program, row.parsed} \subseteq {"spl-token", "spl-token-2022"}
    /\ row.program = "spl-token" => row.parsed = "spl-token"
    /\ Member(row, "executable") # TRUE
    /\ row.mint = t /\ row.owner = x
    /\ row.state \in {"initialized", "frozen"}
    /\ row.amount <= MaxU64 /\ row.ui = row.amount

\* decodeSolanaTokenBalance: what all accounts of the owner for the mint hold.
SolanaAccounts(a, x, t) ==
    /\ SolanaContext(a)
    /\ \A i \in DOMAIN a.value : SolanaTokenAccount(a.value[i], x, t)
    /\ \A i, j \in DOMAIN a.value : a.value[i].pubkey = a.value[j].pubkey => i = j

Total(rows) == FoldSeq(LAMBDA r, sum : r.amount + sum, 0, rows)

SolanaToken(a, x, t) ==
    IF SolanaAccounts(a, x, t) /\ Total(a.value) <= MaxU64 THEN Raw(Total(a.value)) ELSE Error

\* parseQuantity, parseABIUint256
Decode(a, x, t) ==
    IF a = Bad THEN Error
    ELSE CASE chain = "evm"                     -> Raw(a)
           [] chain = "tron" /\ t = Native      -> TronAccount(a, x)
           [] chain = "tron" /\ t # Native      -> TronToken(a, x, t)
           [] chain = "solana" /\ t = Native    -> SolanaNative(a)
           [] chain = "solana" /\ t # Native    -> SolanaToken(a, x, t)
-----------------------------------------------------------------------------
(* What is assumed of the nodes: a whole row of this account and this asset *)
(* tells a value that the account had.  Rows of somebody else, damaged ones *)
(* and amounts that no account can hold they may tell as they like.         *)

Of(x, t) == [of |-> x, asset |-> t]

\* An EVM node answers with a number, of which nothing can be checked.
ASSUME HonestQuantities ==
    \A x \in Account, t \in Assets, v \in Worths :
        \A a \in Says("evm", Of(x, t), v) : a # Bad => a = v

ASSUME HonestTronAccounts ==
    \A x \in Account, v \in Worths : \A a \in Says("tron", Of(x, Native), v) :
        a # Bad /\ TronListed(a) =>
            IF a.data = <<>> THEN v = 0 ELSE TronOwn(a.data[1], x) => TronCoins(a.data[1]) = v

ASSUME HonestTronCalls ==
    \A x \in Account, t \in Token \ {Native}, v \in Worths : \A a \in Says("tron", Of(x, t), v) :
        a # Bad /\ TronCalled(a, x, t) => a.constant_result[1] = v

ASSUME HonestSolanaBalances ==
    \A x \in Account, v \in Worths : \A a \in Says("solana", Of(x, Native), v) :
        a # Bad /\ SolanaContext(a) => a.value = v \/ ~(a.value <= MaxU64)

ASSUME HonestSolanaAccounts ==
    \A x \in Account, t \in Token \ {Native}, v \in Worths : \A a \in Says("solana", Of(x, t), v) :
        a # Bad /\ SolanaAccounts(a, x, t) => Total(a.value) = v \/ ~(Total(a.value) <= MaxU64)
-----------------------------------------------------------------------------
Unread == [a \in Assets |-> Null]

BalanceInit ==
    /\ chain \in {"evm", "tron", "solana"}
    /\ had \in [Account -> [Assets -> {<<v>> : v \in Worths}]]
    /\ gone = FALSE
    /\ at = [x \in Account |-> "idle"]
    /\ found = [x \in Account |-> Unread]
    /\ told = [x \in Account |-> Null]
    /\ kept = [x \in Account |-> Null]

Put(x, step) == at' = [at EXCEPT ![x] = step]

\* The entry of x is settled; its handler is done.
Settle(x, entry) ==
    /\ Put(x, "idle")
    /\ told' = [told EXCEPT ![x] = entry]
    /\ found' = [found EXCEPT ![x] = Unread]

\* GetPortfolio: a goroutine for each account.
Portfolio ==
    /\ \A x \in Account : at[x] = "idle"
    /\ at' = [x \in Account |-> "queued"]
    /\ told' = [x \in Account |-> Null]
    /\ gone' = FALSE
    /\ UNCHANGED <<chain, had, found, kept>>

Reading == {x \in Account : at[x] \in {"native", "tokens"}}

\* It has its slot: GetBalances looks into its cache.
Begin(x) ==
    /\ at[x] = "queued" /\ Cardinality(Reading) < Slots
    /\ IF kept[x] # Null THEN Settle(x, kept[x]) ELSE Put(x, "native") /\ UNCHANGED <<told, found>>
    /\ UNCHANGED <<chain, had, gone, kept>>

\* A node answers for asset a of x with what it holds, or has held.
Heard(x, a) ==
    IF gone THEN {Bad} ELSE UNION {Says(chain, Of(x, a), v) : v \in ToSet(had[x][a])}

\* Without the native balance the account is an error, and not kept.
ReadNative(x) ==
    /\ at[x] = "native"
    /\ \E a \in Heard(x, Native) :
         LET value == Decode(a, x, Native)
         IN  \/ value.error /\ Settle(x, [error |-> TRUE])
             \/ /\ ~value.error
                /\ found' = [found EXCEPT ![x][Native] = value]
                /\ Put(x, "tokens") /\ UNCHANGED told
    /\ UNCHANGED <<chain, had, gone, kept>>

\* Mutant: a token that cannot be read is zero.
ReadTokenSilent(x, t) ==
    /\ at[x] = "tokens" /\ found[x][t] = Null
    /\ \E a \in Heard(x, t) : found' = [found EXCEPT ![x][t] = Raw(Decode(a, x, t).raw)]
    /\ UNCHANGED <<chain, had, gone, at, told, kept>>

\* The goroutine of token t.
ReadToken(x, t) ==
    /\ at[x] = "tokens" /\ found[x][t] = Null
    /\ \E a \in Heard(x, t) : found' = [found EXCEPT ![x][t] = Decode(a, x, t)]
    /\ UNCHANGED <<chain, had, gone, at, told, kept>>

\* All tokens are back.
Done(x) ==
    /\ at[x] = "tokens" /\ \A t \in Token : found[x][t] # Null
    /\ LET entry == [error |-> FALSE, of |-> found[x]]
       IN  Settle(x, entry) /\ kept' = [kept EXCEPT ![x] = entry]
    /\ UNCHANGED <<chain, had, gone>>

\* The caller goes away, or the budget of its request is over.
Depart ==
    /\ ~gone /\ \E x \in Account : at[x] # "idle"
    /\ gone' = TRUE
    /\ UNCHANGED <<chain, had, at, found, told, kept>>

\* balancesTTL is over.
Forget(x) ==
    /\ kept[x] # Null /\ kept' = [kept EXCEPT ![x] = Null]
    /\ UNCHANGED <<chain, had, gone, at, found, told>>

\* What the accounts hold changes on the chain, as often as MaxMoves.
Moved(x, a) ==
    /\ MapThenSumSet(LAMBDA p : Len(had[p[1]][p[2]]) - 1, Account \X Assets) < MaxMoves
    /\ \E v \in Worths \ ToSet(had[x][a]) : had' = [had EXCEPT ![x][a] = Append(@, v)]
    /\ UNCHANGED <<chain, gone, at, found, told, kept>>

BalanceNext ==
    \/ Portfolio \/ Depart
    \/ \E x \in Account : Begin(x) \/ ReadNative(x) \/ Done(x) \/ Forget(x)
    \/ \E x \in Account, t \in Token : ReadToken(x, t)
    \/ \E x \in Account, a \in Assets : Moved(x, a)

BalanceSpec == BalanceInit /\ [][BalanceNext]_balanceVars
-----------------------------------------------------------------------------
(* Properties                                                               *)

\* A balance told without an error is one that this account has held of this
\* asset: no lost, garbled or misdirected answer and no other account's failure
\* is ever told, or kept, as an amount, and never as zero (upstream/tron.go:
\* 232-236, balances.go:124-126).
AmountIsTrue ==
    \A x \in Account : \A entry \in {told[x], kept[x]} \ {Null} :
        ~entry.error => \A a \in Assets : ~entry.of[a].error => entry.of[a].raw \in ToSet(had[x][a])
=============================================================================
