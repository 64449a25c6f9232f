------------------------------ MODULE AnswerProofs ------------------------------
(* What the answers of a node make true, for any answers that it may give:  *)
(* a verdict says what became of the transaction, an amount is the amount   *)
(* of the account asked about (TransactionReads, BalanceReads), and a       *)
(* transfer that is ready is covered by what may be spent, for any amounts, *)
(* any endpoints and any number of transactions and payments                *)
(* (EvmPreflight).                                                          *)
EXTENDS TransactionReads, BalanceReads, EvmPreflight, TLAPS

-----------------------------------------------------------------------------
(* TransactionReads                                                         *)

Questions == {"nothing", "receipt", "transaction", "info", "contract", "statuses"}

TransactionInv ==
    /\ kind \in {"evm", "tron", "solana"}
    /\ fate \in Fates /\ asking \in Questions /\ took \in BOOLEAN
    /\ VerdictIsTrue

\* What a verdict says of the state the node saw the chain in.
LEMMA VerdictTells ==
    ASSUME NEW question \in Questions \ {"nothing"}, NEW seen \in Fates,
           NEW a \in Replies(question, seen)
    PROVE  LET v == Verdict(question, a)
           IN  /\ v = "confirmed" => seen = "ok"
               /\ v = "failed"    => seen = "failed"
               /\ v = "pending"   => seen # "none"
               /\ v \notin {"accepted", "rejected"}
               /\ v \in {"transaction", "contract"} => v \in Questions
  <1>1. CASE question = "info"
    <2>1. Verdict(question, a) = TronInfo(a)
      BY <1>1 DEF Verdict
    <2>2. CASE a = Bad \/ ~TronMined(a)
      <3>1. TronInfo(a) \in {"unknown", "error"}
        BY <2>2 DEF TronInfo
      <3> QED  BY <2>1, <3>1
    <2>3. CASE a # Bad /\ TronMined(a)
      <3>1. /\ Member(a, "receipt") = "SUCCESS" => seen = "ok"
            /\ Member(a, "receipt") \in Reverts \cup {"FAILED"} => seen = "failed"
            /\ Member(a, "result") = "FAILED" => seen = "failed"
        BY <1>1, <2>3, HonestInfos
      <3>2. CASE DOMAIN a = {}
        BY <2>1, <3>2 DEF TronInfo
      <3>3. CASE DOMAIN a # {} /\ Member(a, "receipt") # Null
        <4>1. TronInfo(a) = TronResult(Member(a, "receipt"))
          BY <2>3, <3>3 DEF TronInfo, Member
        <4> QED  BY <2>1, <3>1, <4>1 DEF TronResult
      <3>4. CASE DOMAIN a # {} /\ Member(a, "receipt") = Null
        <4>1. TronInfo(a) \in {"contract", "failed", "error"}
          BY <2>3, <3>4 DEF TronInfo
        <4>2. TronInfo(a) = "failed" => Member(a, "result") = "FAILED"
          BY <2>3, <3>4 DEF TronInfo, Member
        <4> QED  BY <2>1, <3>1, <4>1, <4>2 DEF Questions
      <3> QED  BY <3>2, <3>3, <3>4
    <2> QED  BY <2>2, <2>3
  <1>2. CASE question = "contract"
    <2>1. Verdict(question, a) = TronContractResult(a)
      BY <1>2 DEF Verdict
    <2>2. TronExecuted(a) =>
              seen = IF \A i \in DOMAIN a.ret : a.ret[i] = "SUCCESS" THEN "ok" ELSE "failed"
      BY <1>2, HonestContracts
    <2> QED  BY <2>1, <2>2 DEF TronContractResult
  <1>3. CASE question \notin {"info", "contract"} /\ ~Given(a)
    BY <1>3 DEF Verdict
  <1>4. CASE question = "receipt" /\ Given(a)
    <2>1. Verdict(question, a) = EvmReceipt(a.result)
      BY <1>4 DEF Verdict
    <2>2. a.result # Null /\ Placed(a.result) =>
            /\ Member(a.result, "status") = "0x1" => seen = "ok"
            /\ Member(a.result, "status") = "0x0" => seen = "failed"
      BY <1>4, HonestReceipts
    <2> QED  BY <2>1, <2>2 DEF EvmReceipt, Questions
  <1>5. CASE question = "transaction" /\ Given(a)
    <2>1. Verdict(question, a) = EvmTransaction(a.result)
      BY <1>5 DEF Verdict
    <2>2. a.result # Null /\ Bound(a.result, "hash") => seen # "none"
      BY <1>5, HonestTransactions
    <2> QED  BY <2>1, <2>2 DEF EvmTransaction
  <1>6. CASE question = "statuses" /\ Given(a)
    <2> DEFINE e == a.result.value[1]
    <2>1. Verdict(question, a) = SolanaStatus(a.result)
      BY <1>6 DEF Verdict
    <2>2. CASE ~SolanaFound(a.result)
      BY <2>1, <2>2 DEF SolanaStatus
    <2>3. CASE SolanaFound(a.result)
      <3>1. /\ e.confirmationStatus = "processed" => seen # "none"
            /\ e.confirmationStatus \in {"confirmed", "finalized"} =>
                 seen = IF e.err = Null THEN "ok" ELSE "failed"
        BY <1>6, <2>3, HonestStatuses
      <3>2. e.confirmationStatus \in {Null, "processed", "confirmed", "finalized"}
        BY <2>3 DEF SolanaFound, SolanaEntry
      <3> QED  BY <2>1, <2>3, <3>1, <3>2 DEF SolanaStatus
    <2> QED  BY <2>2, <2>3
  <1> QED  BY <1>1, <1>2, <1>3, <1>4, <1>5, <1>6 DEF Questions

\* What the outcome of a submission says of the node it was put to.
LEMMA OutcomeTells ==
    ASSUME kind \in {"evm", "tron", "solana"}, NEW taken \in BOOLEAN,
           NEW a \in IF taken THEN Taken(kind) ELSE Refusals(kind)
    PROVE  /\ Outcome(a) \in {"accepted", "rejected", "unknown"}
           /\ Outcome(a) = "accepted" => taken
           /\ Outcome(a) = "rejected" => ~taken
  <1>1. CASE kind = "tron"
    <2>1. Outcome(a) = TronOutcome(a)
      BY <1>1 DEF Outcome
    <2>2. taken /\ TronFits(a) => "txid" \in DOMAIN a \/ ("result" \in DOMAIN a /\ a.result)
      BY <1>1, HonestSubmissions
    <2>3. ~taken /\ TronFits(a) => ~("result" \in DOMAIN a /\ a.result)
      BY <1>1, HonestSubmissions
    <2>4. TronAccepts(a) => "result" \in DOMAIN a /\ a.result
      BY DEF TronAccepts
    <2>5. TronRefuses(a) => "txid" \notin DOMAIN a /\ ~("result" \in DOMAIN a /\ a.result)
      BY DEF TronRefuses
    <2> QED  BY <2>1, <2>2, <2>3, <2>4, <2>5 DEF TronOutcome
  <1>2. CASE kind # "tron"
    <2>1. taken => ~Denied(a)
      BY <1>2, HonestSubmissions DEF Denied
    <2>2. ~taken /\ Enveloped(a, FALSE) => "error" \in DOMAIN a
      BY <1>2, HonestSubmissions
    <2>3. Enveloped(a, FALSE) => ("result" \in DOMAIN a <=> "error" \notin DOMAIN a)
      BY DEF Enveloped, OneOf
    <2> QED  BY <1>2, <2>1, <2>2, <2>3 DEF Outcome, Given, Denied
  <1> QED  BY <1>1, <1>2

LEMMA TransactionInvariant == TransactionSpec => []TransactionInv
  <1>1. TransactionInit => TransactionInv
    BY DEF TransactionInit, TransactionInv, VerdictIsTrue, Fates, Questions
  <1>2. TransactionInv /\ [TransactionNext]_transactionVars => TransactionInv'
    <2> SUFFICES ASSUME TransactionInv, [TransactionNext]_transactionVars PROVE TransactionInv'
      OBVIOUS
    <2> USE DEF TransactionInv
    <2>1. CASE Submit
      <3>1. PICK taken \in BOOLEAN :
              /\ took' = taken
              /\ fate' = IF taken /\ fate = "none" THEN "pool" ELSE fate
              /\ \E a \in IF taken THEN Taken(kind) ELSE Refusals(kind) : word' = Outcome(a)
        BY <2>1 DEF Submit
      <3>2. PICK a \in IF taken THEN Taken(kind) ELSE Refusals(kind) : word' = Outcome(a)
        BY <3>1
      <3>3. /\ word' \in {"accepted", "rejected", "unknown"}
            /\ word' = "accepted" => taken
            /\ word' = "rejected" => ~taken
        BY <3>2, OutcomeTells
      <3>4. kind' = kind /\ asking' = asking /\ fate' \in Fates
        BY <2>1, <3>1 DEF Submit, Fates
      <3> QED  BY <3>1, <3>3, <3>4 DEF VerdictIsTrue
    <2>2. CASE AskStatus
      <3>1. /\ word' = "nothing" /\ UNCHANGED <<kind, fate, took>>
            /\ asking' \in {"receipt", "info", "statuses"}
        BY <2>2 DEF AskStatus
      <3> QED  BY <3>1 DEF VerdictIsTrue, Questions
    <2>3. CASE Hear
      <3>1. asking \in Questions \ {"nothing"} /\ UNCHANGED <<kind, fate, took>>
        BY <2>3 DEF Hear
      <3>2. PICK seen \in Seen : \E a \in Replies(asking, seen) :
              LET v == Verdict(asking, a)
              IN  IF v \in {"transaction", "contract"} THEN asking' = v /\ UNCHANGED word
                  ELSE asking' = "nothing" /\ word' = v
        BY <2>3 DEF Hear
      <3>3. PICK a \in Replies(asking, seen) :
              LET v == Verdict(asking, a)
              IN  IF v \in {"transaction", "contract"} THEN asking' = v /\ UNCHANGED word
                  ELSE asking' = "nothing" /\ word' = v
        BY <3>2
      <3>4. /\ seen \in Fates
            /\ seen = "ok" => fate = "ok"
            /\ seen = "failed" => fate = "failed"
            /\ seen # "none" => fate # "none"
        BY DEF Seen, Fates
      <3> DEFINE v == Verdict(asking, a)
      <3>5. /\ v = "confirmed" => seen = "ok"
            /\ v = "failed"    => seen = "failed"
            /\ v = "pending"   => seen # "none"
            /\ v \notin {"accepted", "rejected"}
            /\ v \in {"transaction", "contract"} => v \in Questions
        BY <3>1, <3>4, VerdictTells
      <3>6. IF v \in {"transaction", "contract"} THEN asking' = v /\ UNCHANGED word
            ELSE asking' = "nothing" /\ word' = v
        BY <3>3
      <3> HIDE DEF v
      <3>7. CASE v \in {"transaction", "contract"}
        BY <3>1, <3>5, <3>6, <3>7 DEF VerdictIsTrue
      <3>8. CASE v \notin {"transaction", "contract"}
        <4>1. asking' = "nothing" /\ word' = v
          BY <3>6, <3>8
        <4> QED  BY <3>1, <3>4, <3>5, <4>1 DEF VerdictIsTrue, Questions
      <3> QED  BY <3>7, <3>8
    <2>4. CASE Execute
      <3>1. fate = "pool" /\ fate' \in {"ok", "failed"} /\ UNCHANGED <<kind, asking, took, word>>
        BY <2>4 DEF Execute
      <3> QED  BY <3>1 DEF VerdictIsTrue, Fates
    <2>5. CASE UNCHANGED transactionVars
      BY <2>5 DEF transactionVars, VerdictIsTrue
    <2> QED  BY <2>1, <2>2, <2>3, <2>4, <2>5 DEF TransactionNext
  <1> QED  BY <1>1, <1>2, PTL DEF TransactionSpec

\* What a caller is told of a submission, or of the state of a transaction, is
\* true of the node that was asked, or of the chain, whatever any number of other
\* answers said, as long as whole rows of this transaction do not lie
\* (handlers/broadcast.go:160-193, transaction_status.go:45-57).
THEOREM VerdictsAreTrue == TransactionSpec => []VerdictIsTrue
  <1>1. TransactionInv => VerdictIsTrue
    BY DEF TransactionInv
  <1> QED  BY TransactionInvariant, <1>1, PTL

-----------------------------------------------------------------------------
(* BalanceReads                                                             *)

\* r is an error, or a value that x has had of a.
True(r, x, a) == ~r.error => r.raw \in ToSet(had[x][a])

EntryTrue(entry, x) == ~entry.error => \A a \in Assets : True(entry.of[a], x, a)

BalanceInv ==
    /\ chain \in {"evm", "tron", "solana"}
    /\ had \in [Account -> [Assets -> Seq(Worths)]]
    /\ DOMAIN at = Account /\ DOMAIN told = Account /\ DOMAIN kept = Account
    /\ DOMAIN found = Account /\ \A x \in Account : DOMAIN found[x] = Assets
    /\ \A x \in Account :
         /\ \A a \in Assets : found[x][a] # Null => True(found[x][a], x, a)
         /\ at[x] = "tokens" => True(found[x][Native], x, Native)
         /\ told[x] # Null => EntryTrue(told[x], x)
         /\ kept[x] # Null => EntryTrue(kept[x], x)

\* Whatever the nodes of a chain answer, what is made of it is an error or the
\* value that they were to tell of.
LEMMA DecodeTells ==
    ASSUME chain \in {"evm", "tron", "solana"}, NEW x \in Account, NEW t \in Assets,
           NEW v \in Worths, NEW a \in Says(chain, Of(x, t), v)
    PROVE  ~Decode(a, x, t).error => Decode(a, x, t).raw = v
  <1> USE DEF Error, Raw
  <1>1. CASE a = Bad
    BY <1>1 DEF Decode
  <1>2. CASE a # Bad /\ chain = "evm"
    BY <1>2, HonestQuantities DEF Decode
  <1>3. CASE a # Bad /\ chain = "tron" /\ t = Native
    <2>1. Decode(a, x, t) = TronAccount(a, x)
      BY <1>3 DEF Decode
    <2>2. TronListed(a) =>
            IF a.data = <<>> THEN v = 0 ELSE TronOwn(a.data[1], x) => TronCoins(a.data[1]) = v
      BY <1>3, HonestTronAccounts
    <2> QED  BY <2>1, <2>2 DEF TronAccount
  <1>4. CASE a # Bad /\ chain = "tron" /\ t # Native
    <2>1. Decode(a, x, t) = TronToken(a, x, t)
      BY <1>4 DEF Decode
    <2>2. TronCalled(a, x, t) => a.constant_result[1] = v
      BY <1>4, HonestTronCalls DEF Assets
    <2> QED  BY <2>1, <2>2 DEF TronToken
  <1>5. CASE a # Bad /\ chain = "solana" /\ t = Native
    <2>1. Decode(a, x, t) = SolanaNative(a)
      BY <1>5 DEF Decode
    <2>2. SolanaContext(a) => a.value = v \/ ~(a.value <= MaxU64)
      BY <1>5, HonestSolanaBalances
    <2> QED  BY <2>1, <2>2 DEF SolanaNative
  <1>6. CASE a # Bad /\ chain = "solana" /\ t # Native
    <2>1. Decode(a, x, t) = SolanaToken(a, x, t)
      BY <1>6 DEF Decode
    <2>2. SolanaAccounts(a, x, t) => Total(a.value) = v \/ ~(Total(a.value) <= MaxU64)
      BY <1>6, HonestSolanaAccounts DEF Assets
    <2> QED  BY <2>1, <2>2 DEF SolanaToken
  <1> QED  BY <1>1, <1>2, <1>3, <1>4, <1>5, <1>6

\* Once its caller is gone nobody answers; before, an answer that is not an error
\* is a value that the account has had.
LEMMA HeardIsTrue ==
    ASSUME BalanceInv, NEW x \in Account, NEW t \in Assets, NEW a \in Heard(x, t)
    PROVE  True(Decode(a, x, t), x, t)
  <1>1. CASE gone
    BY <1>1 DEF Heard, Decode, Error, True
  <1>2. CASE ~gone
    <2>1. PICK v \in ToSet(had[x][t]) : a \in Says(chain, Of(x, t), v)
      BY <1>2 DEF Heard
    <2>2. had[x][t] \in Seq(Worths)
      BY DEF BalanceInv
    <2>3. v \in Worths
      BY <2>1, <2>2 DEF ToSet
    <2> QED  BY <2>1, <2>3, DecodeTells DEF True, BalanceInv
  <1> QED  BY <1>1, <1>2

LEMMA BalanceStart == BalanceInit => BalanceInv
  <1> SUFFICES ASSUME BalanceInit PROVE BalanceInv
    OBVIOUS
  <1>1. had \in [Account -> [Assets -> Seq(Worths)]]
    <2>0. \A v \in Worths : <<v>> \in Seq(Worths)
      OBVIOUS
    <2>1. {<<v>> : v \in Worths} \subseteq Seq(Worths)
      BY <2>0
    <2> QED  BY <2>1 DEF BalanceInit
  <1> QED  BY <1>1 DEF BalanceInit, BalanceInv, Unread

LEMMA BalanceStep == BalanceInv /\ [BalanceNext]_balanceVars => BalanceInv'
  <1> SUFFICES ASSUME BalanceInv, [BalanceNext]_balanceVars PROVE BalanceInv'
    OBVIOUS
  <1> DEFINE Kinds ==
        /\ chain \in {"evm", "tron", "solana"}
        /\ had \in [Account -> [Assets -> Seq(Worths)]]
        /\ DOMAIN at = Account /\ DOMAIN told = Account /\ DOMAIN kept = Account
        /\ DOMAIN found = Account /\ \A x \in Account : DOMAIN found[x] = Assets
  <1>k. Kinds
    BY DEF BalanceInv
  <1>i. ASSUME NEW x \in Account
        PROVE  /\ \A a \in Assets : found[x][a] # Null => True(found[x][a], x, a)
               /\ at[x] = "tokens" => True(found[x][Native], x, Native)
               /\ told[x] # Null => EntryTrue(told[x], x)
               /\ kept[x] # Null => EntryTrue(kept[x], x)
    BY DEF BalanceInv
  <1>s. ASSUME chain' = chain, had' = had,
               DOMAIN at' = Account, DOMAIN told' = Account, DOMAIN kept' = Account,
               DOMAIN found' = Account, \A x \in Account : DOMAIN found'[x] = Assets,
               \A x \in Account :
                 /\ \A a \in Assets : found'[x][a] # Null => True(found'[x][a], x, a)
                 /\ at'[x] = "tokens" => True(found'[x][Native], x, Native)
                 /\ told'[x] # Null => EntryTrue(told'[x], x)
                 /\ kept'[x] # Null => EntryTrue(kept'[x], x)
        PROVE  BalanceInv'
    BY <1>k, <1>s DEF BalanceInv, True, EntryTrue
  <1> HIDE DEF Kinds
  <1>u. \A x \in Account, a \in Assets : Unread[a] = Null
    BY DEF Unread
  <1>1. CASE Portfolio
    <2>1. /\ chain' = chain /\ had' = had /\ found' = found /\ kept' = kept
          /\ at' = [x \in Account |-> "queued"] /\ told' = [x \in Account |-> Null]
      BY <1>1 DEF Portfolio
    <2> QED  BY <1>k, <1>i, <1>s, <2>1 DEF Kinds
  <1>2. CASE Depart
    <2>1. UNCHANGED <<chain, had, at, found, told, kept>>
      BY <1>2 DEF Depart
    <2> QED  BY <1>k, <1>i, <1>s, <2>1 DEF Kinds
  <1>3. ASSUME NEW x \in Account, Begin(x) PROVE BalanceInv'
    <2>1. UNCHANGED <<chain, had, kept>>
      BY <1>3 DEF Begin
    <2>2. CASE kept[x] # Null
      <3>1. /\ at' = [at EXCEPT ![x] = "idle"]
            /\ told' = [told EXCEPT ![x] = kept[x]]
            /\ found' = [found EXCEPT ![x] = Unread]
        BY <1>3, <2>2 DEF Begin, Settle, Put
      <3> QED  BY <1>k, <1>i, <1>s, <2>1, <3>1 DEF Kinds, Unread
    <2>3. CASE kept[x] = Null
      <3>1. at' = [at EXCEPT ![x] = "native"] /\ UNCHANGED <<told, found>>
        BY <1>3, <2>3 DEF Begin, Put
      <3> QED  BY <1>k, <1>i, <1>s, <2>1, <3>1 DEF Kinds
    <2> QED  BY <2>2, <2>3
  <1>4. ASSUME NEW x \in Account, ReadNative(x) PROVE BalanceInv'
    <2>1. UNCHANGED <<chain, had, kept>>
      BY <1>4 DEF ReadNative
    <2>2. PICK a \in Heard(x, Native) :
            LET value == Decode(a, x, Native)
            IN  \/ value.error /\ Settle(x, [error |-> TRUE])
                \/ /\ ~value.error
                   /\ found' = [found EXCEPT ![x][Native] = value]
                   /\ Put(x, "tokens") /\ UNCHANGED told
      BY <1>4 DEF ReadNative
    <2> DEFINE value == Decode(a, x, Native)
    <2>3. True(value, x, Native)
      BY HeardIsTrue DEF Assets
    <2>4. \/ value.error /\ Settle(x, [error |-> TRUE])
          \/ /\ found' = [found EXCEPT ![x][Native] = value]
             /\ Put(x, "tokens") /\ UNCHANGED told
      BY <2>2
    <2> HIDE DEF value
    <2>5. CASE Settle(x, [error |-> TRUE])
      <3>1. /\ at' = [at EXCEPT ![x] = "idle"]
            /\ told' = [told EXCEPT ![x] = [error |-> TRUE]]
            /\ found' = [found EXCEPT ![x] = Unread]
        BY <2>5 DEF Settle, Put
      <3>2. EntryTrue([error |-> TRUE], x)
        BY DEF EntryTrue
      <3> QED  BY <1>k, <1>i, <1>s, <2>1, <3>1, <3>2 DEF Kinds, Unread
    <2>6. CASE /\ found' = [found EXCEPT ![x][Native] = value]
               /\ Put(x, "tokens") /\ UNCHANGED told
      <3>1. at' = [at EXCEPT ![x] = "tokens"] /\ told' = told
        BY <2>6 DEF Put
      <3>2. Native \in Assets
        BY DEF Assets
      <3>3. found' = [found EXCEPT ![x][Native] = value]
        BY <2>6
      <3> QED  BY <1>k, <1>i, <1>s, <2>1, <2>3, <3>1, <3>2, <3>3 DEF Kinds
    <2> QED  BY <2>4, <2>5, <2>6
  <1>5. ASSUME NEW x \in Account, Done(x) PROVE BalanceInv'
    <2> DEFINE entry == [error |-> FALSE, of |-> found[x]]
    <2>1. /\ UNCHANGED <<chain, had>>
          /\ at[x] = "tokens" /\ \A t \in Token : found[x][t] # Null
          /\ at' = [at EXCEPT ![x] = "idle"]
          /\ told' = [told EXCEPT ![x] = entry]
          /\ found' = [found EXCEPT ![x] = Unread]
          /\ kept' = [kept EXCEPT ![x] = entry]
      BY <1>5 DEF Done, Settle, Put
    <2>2. \A a \in Assets : True(found[x][a], x, a)
      BY <1>i, <2>1 DEF Assets
    <2>3. EntryTrue(entry, x)
      BY <2>2 DEF EntryTrue
    <2> HIDE DEF entry
    <2> QED  BY <1>k, <1>i, <1>s, <2>1, <2>3 DEF Kinds, Unread
  <1>6. ASSUME NEW x \in Account, Forget(x) PROVE BalanceInv'
    <2>1. /\ UNCHANGED <<chain, had, at, found, told>>
          /\ kept' = [kept EXCEPT ![x] = Null]
      BY <1>6 DEF Forget
    <2> QED  BY <1>k, <1>i, <1>s, <2>1 DEF Kinds
  <1>7. ASSUME NEW x \in Account, NEW t \in Token, ReadToken(x, t) PROVE BalanceInv'
    <2>1. UNCHANGED <<chain, had, at, told, kept>> /\ t \in Assets
      BY <1>7 DEF ReadToken, Assets
    <2>2. PICK a \in Heard(x, t) : found' = [found EXCEPT ![x][t] = Decode(a, x, t)]
      BY <1>7 DEF ReadToken
    <2>3. True(Decode(a, x, t), x, t)
      BY <2>1, HeardIsTrue
    <2> QED  BY <1>k, <1>i, <1>s, <2>1, <2>2, <2>3 DEF Kinds
  <1>8. ASSUME NEW x \in Account, NEW a \in Assets, Moved(x, a) PROVE BalanceInv'
    <2>1. UNCHANGED <<chain, gone, at, found, told, kept>>
      BY <1>8 DEF Moved
    <2>2. PICK v \in Worths : had' = [had EXCEPT ![x][a] = Append(@, v)]
      BY <1>8 DEF Moved
    <2>3. had' \in [Account -> [Assets -> Seq(Worths)]]
      BY <1>k, <2>2 DEF Kinds
    <2>4. ASSUME NEW y \in Account, NEW b \in Assets
          PROVE  ToSet(had[y][b]) \subseteq ToSet(had'[y][b])
      <3>1. had[y][b] \in Seq(Worths)
        BY <1>k DEF Kinds
      <3>2. had'[y][b] = had[y][b] \/ had'[y][b] = Append(had[y][b], v)
        BY <1>k, <2>2 DEF Kinds
      <3>3. \A i \in DOMAIN had[y][b] :
              /\ i \in DOMAIN Append(had[y][b], v)
              /\ Append(had[y][b], v)[i] = had[y][b][i]
        BY <3>1
      <3> QED  BY <3>2, <3>3 DEF ToSet
    <2>5. \A y \in Account, b \in Assets : \A r :
            True(r, y, b) => (~r.error => r.raw \in ToSet(had'[y][b]))
      BY <2>4 DEF True
    <2> QED  BY <1>k, <1>i, <2>1, <2>3, <2>5 DEF Kinds, BalanceInv, True, EntryTrue, Assets
  <1>9. CASE UNCHANGED balanceVars
    BY <1>9 DEF balanceVars, BalanceInv, True, EntryTrue
  <1> QED  BY <1>1, <1>2, <1>3, <1>4, <1>5, <1>6, <1>7, <1>8, <1>9 DEF BalanceNext

\* An amount that is told or kept without an error is one that this account has
\* held of this asset: for any accounts and tokens, however many readings overlap,
\* fail or outlive their caller, as long as whole rows do not lie
\* (handlers/balances.go:61-181).
THEOREM AmountsAreTrue == BalanceSpec => []AmountIsTrue
  <1>1. BalanceInv => AmountIsTrue
    BY DEF BalanceInv, EntryTrue, True, AmountIsTrue
  <1> QED  BY BalanceStart, BalanceStep, <1>1, PTL DEF BalanceSpec

-----------------------------------------------------------------------------
(* EvmPreflight                                                             *)

Amounts == Int \cup {NotRead}

PreflightTypes ==
    /\ views \subseteq BOOLEAN /\ marker \in BOOLEAN
    /\ {sent, mined, income, nonce, minedThen} \subseteq Nat
    /\ minedThen <= mined /\ mined <= sent /\ minedThen <= nonce /\ nonce <= sent
    /\ need \in [Coins -> Nat]
    /\ older \in [Coins -> Amounts] /\ newer \in [Coins -> Amounts]
    /\ nonceState \in [Counts -> Nat \cup {NotRead}]

\* Up to its pending read, a preparation knows no balance that it could use.
Early == {"simulate", "prove latest", "latest", "pending"}

StagesInv ==
    /\ progress \in Early \cup {"token", "direct"} => marker
    /\ progress = "token latest" => ~marker
    /\ progress \in Early => newer = Unseen
    /\ progress = "pending" => older["coin"] \in Int
    /\ progress \in {"token", "token latest"} => newer["coin"] \in Int
    /\ progress \in {"prove spend", "weigh", "ready"} => \A a \in Spends : newer[a] \in Int

\* What is known of a balance: a pending one leaves the queue covered, a latest
\* one what was executed before the preparation.
KnownInv ==
    \A a \in Coins :
        /\ older[a] # NotRead => older[a] <= Funds + income - minedThen
        /\ newer[a] # NotRead => newer[a] <= Funds + income - minedThen
        /\ newer[a] # NotRead /\ marker => newer[a] <= Funds + income - nonce

\* A latest balance is used only once all that was sent before is executed.
EmptyInv ==
    /\ nonceState["confirmed"] # NotRead => nonceState["confirmed"] <= mined
    /\ progress \in {"weigh", "ready"} /\ ~marker => nonceState["confirmed"] = nonce
    /\ progress = "ready" => \A a \in Spends : need[a] <= newer[a]

PreflightInv == PreflightTypes /\ StagesInv /\ KnownInv /\ EmptyInv

LEMMA PreflightInitInv == PreflightInit => PreflightInv
  <1> SUFFICES ASSUME PreflightInit PROVE PreflightInv
    OBVIOUS
  <1>1. PreflightTypes
    <2>1. views \subseteq BOOLEAN /\ marker \in BOOLEAN
      BY DEF PreflightInit
    <2>2. /\ need \in [Coins -> Nat]
          /\ older \in [Coins -> Amounts] /\ newer \in [Coins -> Amounts]
          /\ nonceState \in [Counts -> Nat \cup {NotRead}]
      BY DEF PreflightInit, Amounts, Unseen, Unproved
    <2>3. sent \in Nat /\ mined = 0 /\ income = 0 /\ nonce = 0 /\ minedThen = 0
      BY PreflightConstants DEF PreflightInit
    <2> QED BY <2>1, <2>2, <2>3 DEF PreflightTypes
  <1>2. /\ progress = "idle" /\ nonceState["confirmed"] = NotRead
        /\ \A a \in Coins : older[a] = NotRead /\ newer[a] = NotRead
    BY DEF PreflightInit, Unseen, Unproved, Counts
  <1> QED BY <1>1, <1>2 DEF PreflightInv, StagesInv, KnownInv, EmptyInv, Early

LEMMA PrepareInv == PreflightInv /\ Prepare => PreflightInv'
  <1> SUFFICES ASSUME PreflightInv, Prepare PROVE PreflightInv'
    OBVIOUS
  <1>1. PICK c \in Costs, t \in Costs \cup {0} : need' = [coin |-> c, token |-> t]
    BY DEF Prepare
  <1>2. need' \in [Coins -> Nat]
    BY <1>1, PreflightConstants DEF Coins
  <1>3. PreflightTypes'
    BY <1>2, PreflightConstants
    DEF Prepare, PreflightInv, PreflightTypes, chainVars, Unseen, Unproved, Coins, Counts, Amounts
  <1> QED BY <1>3, PreflightConstants
          DEF Prepare, PreflightInv, StagesInv, KnownInv, EmptyInv, chainVars, Early,
              Unseen, Unproved, Coins, Counts

LEMMA QuietInv ==
  ASSUME PreflightInv, GiveUp \/ Simulate \/ Proved \/ Weigh
  PROVE  PreflightInv'
  <1>1. UNCHANGED <<plan, chainVars, older, newer, marker, nonceState>>
    BY DEF GiveUp, Simulate, Proved, Weigh
  <1>2. PreflightTypes' /\ KnownInv'
    BY <1>1 DEF PreflightInv, PreflightTypes, KnownInv, plan, chainVars
  <1>3. CASE GiveUp \/ Simulate
    BY <1>1, <1>2, <1>3
    DEF PreflightInv, GiveUp, Simulate, StagesInv, EmptyInv, Early, plan, chainVars, Spends, Unseen
  <1>4. CASE Proved
    <2>1. nonceState["confirmed"] = nonce
      BY <1>4 DEF Proved, Counts
    <2>2. \/ progress = "prove latest" /\ progress' = "latest"
          \/ progress = "prove spend" /\ progress' = "weigh"
      BY <1>4 DEF Proved
    <2>3. StagesInv'
      BY <2>2, <1>1 DEF PreflightInv, StagesInv, Early, plan, Spends, Unseen
    <2>4. EmptyInv'
      BY <2>1, <2>2, <1>1 DEF PreflightInv, EmptyInv, plan, chainVars
    <2> QED BY <2>3, <2>4, <1>2 DEF PreflightInv
  <1>5. CASE Weigh
    <2>1. \A a \in Spends : need[a] \in Nat /\ newer[a] \in Int /\ newer[a] >= need[a]
      BY <1>5 DEF Weigh, PreflightInv, StagesInv, PreflightTypes, Spends, Coins
    <2> QED BY <2>1, <1>1, <1>2, <1>5
            DEF PreflightInv, Weigh, StagesInv, EmptyInv, Early, plan, chainVars, Spends, Unseen
  <1> QED BY <1>3, <1>4, <1>5

LEMMA CountInv ==
  ASSUME PreflightInv, NEW c \in Counts, Count(c)
  PROVE  PreflightInv'
  <1>1. /\ UNCHANGED <<plan, chainVars, progress, older, newer, marker>>
        /\ nonceState' = [nonceState EXCEPT ![c] = IF c = "confirmed" THEN mined ELSE sent]
        /\ progress \in {"prove latest", "prove spend"}
    BY DEF Count
  <1>2. PreflightTypes'
    BY <1>1 DEF PreflightInv, PreflightTypes, plan, chainVars, Counts
  <1>3. EmptyInv'
    <2>1. nonceState'["confirmed"] # NotRead => nonceState'["confirmed"] <= mined'
      <3>1. CASE c = "confirmed"
        <4>1. nonceState'["confirmed"] = mined
          BY <3>1, <1>1 DEF PreflightInv, PreflightTypes, Counts
        <4>2. mined' = mined /\ mined \in Nat
          BY <1>1 DEF PreflightInv, PreflightTypes, chainVars
        <4> QED BY <4>1, <4>2
      <3>2. CASE c # "confirmed"
        BY <3>2, <1>1 DEF PreflightInv, PreflightTypes, EmptyInv, chainVars, Counts
      <3> QED BY <3>1, <3>2
    <2> QED BY <2>1, <1>1 DEF EmptyInv
  <1> QED BY <1>1, <1>2, <1>3
          DEF PreflightInv, StagesInv, KnownInv, Early, plan, chainVars, Spends, Unseen

LEMMA NativeInv ==
  ASSUME PreflightInv, NativeLatest \/ NativePending
  PROVE  PreflightInv'
  <1>0. /\ Latest \in Int /\ Latest <= Funds + income - minedThen
        /\ Pending \in Int /\ Pending <= Funds + income - nonce
        /\ Pending <= Funds + income - minedThen
    BY PreflightConstants DEF PreflightInv, PreflightTypes, Latest, Pending
  <1>1. CASE NativeLatest
    <2>1. /\ progress = "latest" /\ progress' = "pending"
          /\ older' = [older EXCEPT !["coin"] = Latest]
          /\ UNCHANGED <<plan, chainVars, newer, marker, nonceState>>
      BY <1>1 DEF NativeLatest
    <2>2. PreflightTypes'
      BY <2>1, <1>0 DEF PreflightInv, PreflightTypes, plan, chainVars, Coins, Amounts
    <2> QED BY <2>1, <2>2, <1>0
            DEF PreflightInv, PreflightTypes, StagesInv, KnownInv, EmptyInv, Early, plan,
                chainVars, Unseen, Coins, Spends
  <1>2. CASE NativePending
    <2>1. PICK v \in views :
            /\ marker' = v
            /\ newer' = [newer EXCEPT !["coin"] = IF v THEN Pending ELSE older["coin"]]
            /\ progress' = IF Spends = Coins THEN IF v THEN "token" ELSE "token latest" ELSE Weighed(v)
      BY <1>2 DEF NativePending
    <2>2. /\ progress = "pending"
          /\ UNCHANGED <<plan, chainVars, older, nonceState>>
      BY <1>2 DEF NativePending
    <2>3. v \in BOOLEAN /\ newer = Unseen /\ older["coin"] \in Int
      BY <2>2 DEF PreflightInv, PreflightTypes, StagesInv, Early
    <2>4. PreflightTypes'
      BY <2>1, <2>2, <2>3, <1>0 DEF PreflightInv, PreflightTypes, plan, chainVars, Coins, Amounts
    <2>5. KnownInv'
      BY <2>1, <2>2, <2>3, <2>4, <1>0, PreflightConstants
      DEF PreflightInv, PreflightTypes, KnownInv, plan, chainVars, Coins, Unseen
    <2>6. Spends' = Spends /\ (Spends = Coins \/ Spends = {"coin"}) /\ newer'["coin"] \in Int
      BY <2>1, <2>2, <2>3, <1>0 DEF Spends, plan, PreflightInv, PreflightTypes, Coins
    <2>7. StagesInv' /\ EmptyInv'
      <3>1. CASE Spends = Coins
        BY <3>1, <2>1, <2>2, <2>3, <2>6
        DEF PreflightInv, StagesInv, EmptyInv, Early, chainVars, plan
      <3>2. CASE Spends # Coins
        BY <3>2, <2>1, <2>2, <2>3, <2>6
        DEF PreflightInv, StagesInv, EmptyInv, Early, chainVars, plan, Weighed
      <3> QED BY <3>1, <3>2
    <2> QED BY <2>4, <2>5, <2>7 DEF PreflightInv
  <1> QED BY <1>1, <1>2

LEMMA TokenInv ==
  ASSUME PreflightInv, TokenPending \/ TokenLatest
  PROVE  PreflightInv'
  <1>0. /\ Latest \in Int /\ Latest <= Funds + income - minedThen
        /\ Pending \in Int /\ Pending <= Funds + income - nonce
        /\ Pending <= Funds + income - minedThen
    BY PreflightConstants DEF PreflightInv, PreflightTypes, Latest, Pending
  <1>00. Spends \subseteq Coins /\ newer["coin"] \in Int
    BY DEF TokenPending, TokenLatest, PreflightInv, StagesInv, Spends, Coins
  <1>1. CASE TokenPending
    <2>1. PICK v \in views :
            /\ marker' = v
            /\ newer' = IF v THEN [newer EXCEPT !["token"] = Pending] ELSE newer
            /\ progress' = IF v THEN "weigh" ELSE "token latest"
      BY <1>1 DEF TokenPending
    <2>2. /\ progress = "token"
          /\ UNCHANGED <<plan, chainVars, older, nonceState>>
      BY <1>1 DEF TokenPending
    <2>3. v \in BOOLEAN /\ marker = TRUE /\ Spends' = Spends
      BY <2>2 DEF PreflightInv, PreflightTypes, StagesInv, Spends, plan
    <2>4. PreflightTypes'
      BY <2>1, <2>2, <2>3, <1>0 DEF PreflightInv, PreflightTypes, plan, chainVars, Coins, Amounts
    <2>5. KnownInv'
      BY <2>1, <2>2, <2>3, <1>0
      DEF PreflightInv, PreflightTypes, KnownInv, plan, chainVars, Coins
    <2>6. StagesInv' /\ EmptyInv'
      BY <2>1, <2>2, <2>3, <1>0, <1>00
      DEF PreflightInv, PreflightTypes, StagesInv, EmptyInv, Early, chainVars, plan, Coins
    <2> QED BY <2>4, <2>5, <2>6 DEF PreflightInv
  <1>2. CASE TokenLatest
    <2>1. /\ progress = "token latest" /\ progress' = "prove spend" /\ ~marker
          /\ newer' = [newer EXCEPT !["token"] = Latest]
          /\ UNCHANGED <<plan, chainVars, older, marker, nonceState>>
      BY <1>2 DEF TokenLatest, Weighed, PreflightInv, StagesInv
    <2>2. PreflightTypes'
      BY <2>1, <1>0 DEF PreflightInv, PreflightTypes, plan, chainVars, Coins, Amounts
    <2>3. Spends' = Spends
      BY <2>1 DEF Spends, plan
    <2>4. KnownInv'
      BY <2>1, <1>0 DEF PreflightInv, PreflightTypes, KnownInv, plan, chainVars, Coins
    <2>5. StagesInv' /\ EmptyInv'
      BY <2>1, <2>3, <1>0, <1>00
      DEF PreflightInv, PreflightTypes, StagesInv, EmptyInv, Early, chainVars, plan, Coins
    <2> QED BY <2>2, <2>4, <2>5 DEF PreflightInv
  <1> QED BY <1>1, <1>2

LEMMA DirectInv ==
  ASSUME PreflightInv, GoDirect \/ \E a \in Coins : DirectLatest(a) \/ DirectPending(a)
  PROVE  PreflightInv'
  <1>0. /\ Latest \in Int /\ Latest <= Funds + income - minedThen
        /\ Pending \in Int /\ Pending <= Funds + income - nonce
        /\ Pending <= Funds + income - minedThen
    BY PreflightConstants DEF PreflightInv, PreflightTypes, Latest, Pending
  <1>1. CASE GoDirect
    BY <1>1, PreflightConstants
    DEF GoDirect, PreflightInv, PreflightTypes, StagesInv, KnownInv, EmptyInv, Early, plan,
        chainVars, Unseen, Coins, Amounts
  <1>2. ASSUME NEW a \in Coins, DirectLatest(a) PROVE PreflightInv'
    <2>1. /\ progress = "direct"
          /\ older' = [older EXCEPT ![a] = Latest]
          /\ UNCHANGED <<plan, chainVars, progress, newer, marker, nonceState>>
      BY <1>2 DEF DirectLatest
    <2>2. PreflightTypes'
      BY <2>1, <1>0 DEF PreflightInv, PreflightTypes, plan, chainVars, Amounts
    <2>3. KnownInv'
      BY <2>1, <1>0 DEF PreflightInv, PreflightTypes, KnownInv, plan, chainVars
    <2> QED BY <2>1, <2>2, <2>3
            DEF PreflightInv, StagesInv, EmptyInv, Early, chainVars, plan
  <1>3. ASSUME NEW a \in Coins, DirectPending(a) PROVE PreflightInv'
    <2>1. PICK v \in views :
            /\ marker' = v
            /\ newer' = IF v THEN [newer EXCEPT ![a] = Pending] ELSE older
            /\ progress' = IF \E b \in Spends : newer'[b] = NotRead THEN progress ELSE Weighed(v)
      BY <1>3 DEF DirectPending
    <2>2. /\ progress = "direct" /\ a \in Spends
          /\ \A b \in Spends : older[b] # NotRead
          /\ UNCHANGED <<plan, chainVars, older, nonceState>>
      BY <1>3 DEF DirectPending
    <2>3. v \in BOOLEAN /\ marker = TRUE /\ Spends' = Spends /\ Spends \subseteq Coins
      BY <2>2 DEF PreflightInv, PreflightTypes, StagesInv, Spends, plan, Coins
    <2>4. PreflightTypes'
      BY <2>1, <2>2, <2>3, <1>0 DEF PreflightInv, PreflightTypes, plan, chainVars, Amounts
    <2>5. KnownInv'
      BY <2>1, <2>2, <2>3, <1>0
      DEF PreflightInv, PreflightTypes, KnownInv, plan, chainVars
    <2>6. CASE \E b \in Spends : newer'[b] = NotRead
      <3>1. v = TRUE /\ progress' = "direct"
        BY <2>6, <2>1, <2>2, <2>3
      <3> QED BY <3>1, <2>1, <2>2, <2>4, <2>5
              DEF PreflightInv, StagesInv, EmptyInv, Early, chainVars, plan
    <2>7. CASE \A b \in Spends : newer'[b] # NotRead
      <3>1. \A b \in Spends : newer'[b] \in Int
        BY <2>3, <2>4, <2>7 DEF PreflightTypes, Amounts
      <3>2. progress' = IF v THEN "weigh" ELSE "prove spend"
        BY <2>1, <2>7 DEF Weighed
      <3> QED BY <3>1, <3>2, <2>1, <2>2, <2>3, <2>4, <2>5
              DEF PreflightInv, StagesInv, EmptyInv, Early, chainVars, plan
    <2> QED BY <2>6, <2>7
  <1> QED BY <1>1, <1>2, <1>3

LEMMA ChainInv == PreflightInv /\ ChainMoves => PreflightInv'
  <1> SUFFICES ASSUME PreflightInv, ChainMoves PROVE PreflightInv'
    OBVIOUS
  <1>1. /\ UNCHANGED <<plan, progress, older, newer, marker, nonceState>>
        /\ sent <= sent' /\ mined <= mined' /\ income <= income'
        /\ {sent', mined', income'} \subseteq Nat /\ mined' <= sent'
    BY DEF ChainMoves, Enqueue, Include, Receive, PreflightInv, PreflightTypes
  <1>2. PreflightTypes'
    BY <1>1 DEF PreflightInv, PreflightTypes, plan
  <1>3. KnownInv'
    BY <1>1, PreflightConstants DEF PreflightInv, PreflightTypes, KnownInv, plan, Amounts
  <1>4. EmptyInv'
    BY <1>1 DEF PreflightInv, PreflightTypes, EmptyInv, plan, Counts, Spends
  <1> QED BY <1>1, <1>2, <1>3, <1>4 DEF PreflightInv, StagesInv, Early, plan, Spends, Unseen

LEMMA PreflightStepInv == PreflightInv /\ [PreflightNext]_preflightVars => PreflightInv'
  <1> SUFFICES ASSUME PreflightInv, [PreflightNext]_preflightVars PROVE PreflightInv'
    OBVIOUS
  <1>1. CASE UNCHANGED preflightVars
    BY <1>1
    DEF preflightVars, PreflightInv, PreflightTypes, StagesInv, KnownInv, EmptyInv, Early,
        Spends, Unseen
  <1> QED BY <1>1, PrepareInv, QuietInv, CountInv, NativeInv, TokenInv, DirectInv, ChainInv
          DEF PreflightNext

\* No transfer is made ready to sign with money that earlier transactions of the
\* account already spend (evm_preflight.go:198-244,
\* local_transfer_service.dart:260-345).
THEOREM ReadyIsCovered == PreflightSpec => []SpendIsCovered
  <1>1. PreflightInv => SpendIsCovered
    <2> SUFFICES ASSUME PreflightInv, progress = "ready", NEW a \in Spends,
                        ~(~marker /\ mined # minedThen)
                 PROVE  need[a] <= Funds + income - nonce
      BY DEF SpendIsCovered
    <2>1. need[a] \in Nat /\ newer[a] \in Int /\ need[a] <= newer[a] /\ a \in Coins
      BY DEF PreflightInv, PreflightTypes, StagesInv, EmptyInv, Spends, Coins
    <2>2. newer[a] <= Funds + income - nonce
      <3>1. CASE marker
        BY <3>1, <2>1, PreflightConstants DEF PreflightInv, KnownInv
      <3>2. CASE ~marker
        <4>1. mined = minedThen /\ nonceState["confirmed"] = nonce
          BY <3>2 DEF PreflightInv, EmptyInv
        <4>2. nonce = minedThen
          BY <4>1, PreflightConstants DEF PreflightInv, PreflightTypes, EmptyInv
        <4> QED BY <4>2, <2>1, PreflightConstants DEF PreflightInv, KnownInv
      <3> QED BY <3>1, <3>2
    <2> QED BY <2>1, <2>2, PreflightConstants DEF PreflightInv, PreflightTypes
  <1> QED BY <1>1, PreflightInitInv, PreflightStepInv, PTL DEF PreflightSpec
================================================================================
