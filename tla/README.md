# KT Wallet: TLA+ models, model checking and proofs

KT Wallet is a self-custody wallet in three programs: **KT Wallet**, a Flutter
app that is online; **Cold Signer**, a Flutter app for a device that never is;
and the **Gateway**, a stateless Go server that gives the wallet one JSON-RPC
interface to the chains. This directory holds the specifications of the parts of
them where the order of things decides whether they are right, the TLC
configurations that check small instances, and TLAPS proofs for all instances.

Contents: 1 the system and its parts; 2 the modules and how they correspond to
the code; 3 the runs, what they show and their bounds; 4 fairness; 5 what is
proved and how; 6 where code and documents disagree; 7 what is not modelled;
8 the plan; 9 how to run it.

Paths in this file are relative to the repository, with `gateway/` for
`backend/gateway/`, `wallet/` for `apps/kt_wallet/lib/src/`, `signer/` for
`apps/cold_signer/lib/src/`.

## 1. The system

```
 Cold Signer  <== animated QR frames ==>  KT Wallet  --HTTP JSON-RPC-->  Gateway (2+ processes)
  vault, PIN, sign records                SQLite rows, vault, PIN          |        |        |
                                                                        Redis   chain nodes  providers
```

### Gateway

| Part | State it keeps | Operations | What is hard about it |
|---|---|---|---|
| Broadcast guard (`gateway/internal/handlers/broadcast_guard.go`, `broadcast.go`) | in each process a table of fingerprints, an expiry heap and an evictable list; in Redis one claim per fingerprint | `begin`, `complete`, replay | two processes, Redis calls outside the lock, writes that land after they were given up, crashes, a full table |
| Provider circuit and token risk (`provider_circuit.go`, `token_risk.go`, `token_approvals.go`) | failures, window, probe slot, generation; a cache of verdicts | `allow`, `finish`, lookup | answers that come back after the circuit changed its state, callers that leave |
| Redis breaker (`cache/redis.go`) | `openUntil`, `halfOpenProbe` | `beginOperation`, `finishOperation` around each call | stale results against the probe, abandoned probes |
| JSON-RPC pool (`upstream/pool.go`) | per endpoint failures and window; the round-robin position | `Call`, `CallOnce` | look and request are not atomic; a write must not fail over |
| Read cache (`cache/cache.go`; balances, prices, history) | local map; shared records in Redis | `GetContext`, `SetContext` | two layers, late GETs and SETs, other processes |
| JSON-RPC server and limiter (`rpc/rpc.go`, `ratelimit/ratelimit.go`) | a table of token buckets with lazy refill | `ServeHTTP`, `clientIP`, `Allow` | a full table, the shared overflow bucket, headers the caller forges, who is answered and under which id |
| History (`handlers/history.go`, `upstream/history.go`, `alchemy.go`, `tron_history.go`, `solana.go`) | pages kept for 5 s | `kt_getHistory`: several feeds side by side, each with several sources | some feeds fail, rows are malformed or contradict each other, movements share a hash, the caller leaves halfway |
| Balances (`handlers/balances.go`, `upstream/tron.go`, `solana_balance.go`, `evm.go`) | answers kept for 10 s | `kt_getPortfolio`, `kt_getBalances` | one of many reads fails or answers for somebody else; zero must mean zero |
| Transaction verdicts (`handlers/transaction_status.go`, `broadcast.go`, the clients) | none | outcome of a submission, status of a transaction | lost and half answers, nodes that lag, a second question after the first |
| Preflight (`handlers/evm_preflight.go`, in the wallet `transfer/local_transfer_service.dart`, `chain_params_service.dart`) | none that outlives a preparation | nonce, simulation, balances, proof of an empty queue | reads that are no snapshot, endpoints with and without a pending view, another device that spends |
| Envelope validation, other read handlers, wiring | none that outlives a request | decode, format | data |

The guard, the read cache and every other user of Redis go through the Redis
breaker; the guard and the balances handler go through the pool of the network.
Handlers are goroutines; their contexts carry the server's 25 s budget
(`rpc.go:279`) and the disconnect of the client.

What makes these parts correct: a payload has one owner in 24 hours, and nobody
is told another payload's outcome; a breaker shelters what it guards, listens to
nobody who started before it changed its mind, and never locks itself shut; a
write goes to one endpoint; an answer from a cache is never older than its
lifetime, through however many processes it went; a caller is charged as itself and
by exact buckets; and what the wallet is told, that a history is empty, a payment
executed, a balance zero, a submission refused, a transfer covered, was proved by
somebody's answer and never by the lack of one.

### KT Wallet

| Part | State | Operations | What is hard about it |
|---|---|---|---|
| Transfer rows (`packages/wallet_data/lib/src/repositories.dart`, `wallet/screens/transfer_screens.dart`, `wallet/market/transaction_status_service.dart`, `wallet/market/history_controller.dart`) | SQLite table `transactions`, finality samples | quote, sign, reserve, store hash, send, record; speed-up and cancel; status checks | every `await` is a point where another screen, the user, the OS or the chain moves |
| Market data (`wallet/market/*`) | snapshots and generation counters | refresh, invalidate | results of an abandoned refresh |
| Wallet store and deletion (`wallet/wallets/wallet_store.dart`, `wallet/state/wallet_controller.dart`) | rows, tombstones, native vault | create, import, remove, recover at start-up | two stores, a crash between them, authentication that is refused during recovery |
| App lock and PIN (`wallet/security/*`) | enrolled record, attempt counter, deadline | verify, enrol, lock | attempts that overlap, restarts |
| Networks, preferences | key-value settings | set | little |

Correctness of the rows: competitors for a nonce are an original and its one
replacement; a row says confirmed or failed only when that is what happened; a
check changes only what is still live and counts what it settles once; a sent
transaction is settled in the end.

### Between the devices, and Cold Signer

| Part | State | Operations | What is hard about it |
|---|---|---|---|
| Air-gap QR (`packages/airgap_protocol`, `wallet/transfer/airgap_flow.dart`) | the aggregator's session and chunks; the flow's state | add frame, assemble, reset | frames lost, repeated, reordered, of another session |
| Wallets and signing records (`signer/state/signer_wallet_controller.dart`, `signer/security/secure_vault.dart`, `signer/data/signer_database.dart`) | native keys, rows, selection, tombstone and native-done mark; `sign_records`; the screens' picture of them | onboard, select, rename, delete, load; reserve, sign, finalise | three stores and no transaction over them: each call may fail, the app may die between any two; overlapping confirmations |
| Signer PIN (`signer/security/pin_lock.dart`) | PIN record, counter, deadline | verify, set | attempts that overlap, restarts |

Correctness of the wallets: a request is signed once at most; a wallet the user did
not delete keeps its key, its row and the PIN; one he deleted does not come back.

`PROJECT.json` lists every part with its source files, and each hazard with the
line where it bites and the property that covers it, or the reason none does.

## 2. The modules

| Module | Models | Extends |
|---|---|---|
| `BroadcastOnce` | abstract: what `kt_broadcast` promises its callers | |
| `BroadcastGuard` | the guard in several processes, with Redis, node, clock, crashes | |
| `ProviderCircuit` | the GoPlus circuit, the lookups and their cache | |
| `TransferLedger` | the wallet's EVM rows, the flows, the checks, the chain | |
| `GatewayProcess` | the goroutines and the clock the next three share | |
| `RedisCircuit` | the breaker of `redis.go` | `GatewayProcess` |
| `UpstreamPool` | the pool of `pool.go` | `GatewayProcess` |
| `GatewayRead` | the balances handler with its cache, composed over both | `RedisCircuit`, `UpstreamPool` |
| `TokenBuckets` | abstract: one bucket per key that lives for ever | |
| `RateLimit` | the limiter, lazy and bounded | |
| `RpcServer` | the JSON-RPC endpoint behind the limiter | `RateLimit` |
| `JsonRows` | what it takes for a JSON object to be accepted (`strict_json.go`) | |
| `HistoryRows` | the rows of five providers: which are sound, which movements they tell | `JsonRows` |
| `HistoryPage` | a page made of movements: whose, which way, named how, cut where | `HistoryRows` |
| `HistoryRead` | a request for a history, with sources, failures and kept pages | `HistoryPage` |
| `BalanceReads` | portfolios and balances, with the decoders of three chains | `JsonRows` |
| `TransactionReads` | outcomes of submissions and statuses of transactions | `JsonRows` |
| `EvmPreflight` | the preparation of an EVM transfer in wallet and Gateway | |
| `ColdWallets` | Cold Signer's wallets, their keys, rows and deletion, and its signing records | |
| `MC...` | symmetry sets, and the answers and bodies TLC tries | the module they check |
| `...Proofs` | the theorems | the module they prove |

Time is counted in ticks; durations are constants whose order, not whose size,
matters, and the assumptions name that order. Definitions that a comment calls
*Mutant* are no part of a specification: each is a plausible mistake in the
definition below it, and TLC must find the property it is listed with violated
when it takes that definition's place. They show that a property can fail.

### BroadcastGuard and BroadcastOnce

One step is one critical section of `guard.mu`, or one call of Redis or of the
node. `begin` is `Begin` (sweep, replay, evict, reserve), then one of
`SetNXCreated`, `SetNXExists`, `SetNXFailed`, `GetClaim`, `GetFailed`, `Install`;
the handler's `Contact` or `NoEndpoint`, `Answer`; and `complete` is
`CompleteLocal`, `PersistOk` or `PersistFailed`, `Mark`. A Redis call may fail
with its effect done, not done, or done later (`late`, `DeliverLate`,
`LoseLate`). `Crash(i)` empties process `i`. The map `records` and the expiry
heap hold the same keys and are one function, `entries`; the list of evictable
keys is `lru`, the place of each key. A hash or an error text is abstracted to
the request whose attempt produced it: that is enough to tell whether a replay
answers with the right one. `Mark` compares the record's owner where the code compares the
expiry node that `complete` saw before its write; they agree, since what a request
reserved stays in its place until it is settled (`Kept` in `BroadcastProofs`). Payload
decoding happens before the guard and has no state.

`BroadcastOnce` is the ledger a caller believes in: a payload gets an owner at
most once per window, only an owner submits, an outcome is settled once, and a
reply is such an outcome or says nothing. `BroadcastGuard!ImplementsOnce` is the
refinement: owners are the requests `begin` let through, the reply is what a
finished handler holds.

### ProviderCircuit

`Allow` is `providerCircuit.allow`; `FinishStale`, `FinishSuccess`,
`FinishAbandoned`, `FinishFailure` are the branches of `finish`. `Look` and
`Store` are the cache around it. `overtaken` is a history variable: the calls
that were under way when the circuit opened. `ListTokenApprovals` makes the same
calls on a circuit of its own.

### TransferLedger

`status`, `hashed`, `owner`, `replacedBy`, `samples` are the row; `network`,
`spent`, `winner`, `reverted` the chain; `flow` and `check` say at which `await`
a flow or a check stands. `Quote`, `Prepare`, `Reserve`, `SignFails`,
`StoreHash`, `Send`, `LandAccepted`, `LandRejected`, `LandLost` are `_submitLive`
and `_replace`; `Look`, `Receipt`, `Listed`, `Unlisted`, `ByNonce`, `Unheard`,
`Write`, `Abandon` are a poll. `Select` changes the wallet (several writes go to
the wallet selected when they run, and the model keeps that), `Crash` kills the
app, `Mine(x)` consumes the next nonce by one of the app's transactions or by a
foreign one. One database transaction of the code is one action.

### RedisCircuit, UpstreamPool, GatewayRead

`RedisCircuit` has `BeginOperation` and `FinishOperation` with the three kinds of
error the code tells apart: none (which includes `redis.Nil`), the end of the
caller's context, a failure of Redis. Between the two a call lasts at most
`OpBudget`.

`UpstreamPool` has the steps of one pass over the endpoints: `StartCall` takes the
rotated slice, `Skip` and `Attempt` are the look at the breaker, and `Succeed`,
`FailOver`, `GiveUp`, `Exhaust` what the attempt came to. `Call` and
`CallExtensible` are one call that may fail over, `CallOnce` one that may not. A
look and the request that follows it are one step apart from the record of its
outcome, so calls overlap as they do in the code. The counter `fails` stops at
the threshold: nothing in the code tells larger values apart. The counters and
latencies kept for metrics are left out.

`GatewayRead` composes them: `op[w]` and `call[w]` are driven by the handler of
goroutine `w`, which asks the local map (`Lookup`), Redis (`BeginGet`,
`RedisServes`, `FinishGet`, `LoseGet`), the pool (`Fetch`, `Route`, `Fetched`,
`NoBalance`) and stores what it got (`SetLocal`, `BeginSet`, `FinishSet`). An
answer is the time of the attempt that gave it. Its abstractions:

- One account and network without a token list: one key and one fetch. Another
  key shares only the two breakers.
- Redis is written by every process, and a SET that its client gave up may be
  executed later, so a GET finds any record that a `SetContext` may have written
  so far, or none (`Written`). This is more than Redis does. The processes' clocks
  are taken to agree; a skew adds to the age the property allows.
- `Broadcast` stands for the call of the pool that `kt_broadcast` makes. The guard
  around it, in `BroadcastGuard`, uses the breaker of its own Redis
  (`BROADCAST_REDIS_URL`). When that is unset it shares this breaker, with
  operations of the same shape: `RedisSpec` allows any number of them.
- What a handler computes between two calls takes no time (`Tick`).

### RateLimit, TokenBuckets, RpcServer

`Allow` is `Limiter.Allow` with its mutex held: the sweep, the choice of the bucket
that pays, the refill, the decision. The code's fractional tokens are whole
credits: a request costs `Cost`, one comes back per tick. `TokenBuckets` is what
callers of the code believe: a bucket per key for ever, filled every tick;
`RateLimit!IdealBuckets` refines it by `Level`, the credits a bucket would have
were it filled now.

A request of `RpcServer` is admitted (`Admit`: the limiter, before a byte of the body
is read), decoded and routed (`Route`), and ends (`Finish`). `Wires` are the ways a
request can come in: `origin` is who sent it, `peer` who opened the connection,
`chain` and `real` the headers. The assumption `WireConstants` is what the
documents ask of an operator: the proxies in `TRUSTED_PROXY_CIDRS` append who called
them, or name it in `X-Real-IP`. Everything left of that is the caller's invention.

### JsonRows, HistoryRows, HistoryPage, HistoryRead

An object is a function from the names of its members; `Bad` stands for a value
that does not decode (wrong type, format or range) and for a lost or undecodable
answer, `Null` for null or absence. `Fits` and `Exact` are the two strict decoders.
The rules of a row are then a set of members and how they agree; the formats of
addresses, numbers and times are the difference between `Bad` and a value.
`HistoryRead` has one action for each answer (`Read`, `Owner`, `Accounts`, `Detail`)
and one for each join (`TronDone`, `AlchemyDone`, `TimesDone`, `ExplorerDone`,
`HeliusDone`, `DetailDone`), as the handler has goroutines and a `WaitGroup`. Which
source a feed has got to is `tried`; pages kept are `cached`, an entry of which may
expire whenever nobody is being served. Requests for one wallet and network come one
by one: two that overlap share only the cache, which either may fill.
`got[f]` keeps of a feed the answer it took (`raw`), whether it is a page, and the
movements; the properties compare those with the reply. `InOrder` is sorting: the code's
stable sort of records, the order in which loops append (`Chain`) and skip (`Keep`).

### BalanceReads

One portfolio at a time with its accounts side by side, at most `Slots` of them
reading. `had[x][a]` is all that account `x` has held of asset `a`; a node answers
from any point of that (`Heard`), or garbles, or answers for somebody else (`Says`).

### TransactionReads

`fate` is what the chain did. A question (`asking`) is answered by a node that may
have seen less (`Seen`). What an honest node may answer is stated by the
assumptions `Honest...` of this module, as it is for balances in `BalanceReads`. TRON
asks a second question when a receipt has no result, EVM when there is no receipt. A
submission is classified by `Outcome`: only a node's own error is a refusal (one in which
a provider speaks of its routing or of an API key is not, `Routing`).

### EvmPreflight

`Prepare` reads the nonce, `Simulate`, `Count`, `Proved`, the balances by the Gateway
(`NativeLatest`, `NativePending`, `TokenPending`, `TokenLatest`) or directly
(`GoDirect`, `DirectLatest`, `DirectPending`), `Weigh`. Each call may reach an
endpoint with or without a pending state (`views`). Meanwhile the chain mines
(`Include`), another device sends (`Enqueue`) and somebody pays (`Receive`). It is an
abstraction in three ways: nodes agree with each other about the chain; every
transaction of the account costs one of each asset; a simulation passes or fails
freely, since no property is about it.

### ColdWallets

Three stores: `keys` is the native vault, `rows`, `chosen`, `pin`, `tomb`, `done` the
secure storage, `records` the database. `memory` is what the controller holds; `Kill`
loses it. Three kinds of work go on side by side, each a step from `await` to `await`:

- `job`, of which there is one at a time (`_changingWallet`, or a start-up before the
  screens are there): `LoadBegin`, `Open`; `Delete`, `Mark`, `Entomb`, `DeleteKey`,
  `Note`, `ClearRecords`, then `RemoveRow` when other wallets are left or `WipeRow`,
  `WipePin` when none is, `Untomb`, `Undone`, `Close`; `Select`, `Refresh`, `Choose`.
- `board`, an onboarding: `Commit`, `StoreKey`, `Describe`, `Onboarded`, and its
  compensations `Compensate`, `UndoKey`, `UndoRow`, `UndoChoice`, `UndoPin`,
  `NotOnboarded`, each of which may fail alone.
- `call`, the confirmations: `Sign`, `Reserve`, `Invoke`, `SignNatively`, `Finalize`.

`Throw`, `Swallow`, `Compensate` and `Refuse` are calls that fail. A write that throws
although it was done is a step and then a failure of the next; where that is not the
same, it has a step of its own (`EntombUnseen`). The checks of phrase, PIN, device,
clock and transaction are refusals that may come at any time (`Refuse`, `Throw`). `life`
is a history variable, what the user believes: a wallet is his once an onboarding or a
start showed it to him, only shown when the end of a deletion put it on the screens
without deriving its addresses, unwanted once its deletion was written down, and doubtful when
that was written and reported as failed. `ready` is the end of `load`: before it there
are no screens, hence no other operation.

Assumed of the storage: calls are served in order and a read does not fail by itself.
An identifier is drawn once (18 random bytes).

### MCParts

The last six parts share no variable. `MCParts` composes them with a variable `part`
that says which of them a behaviour is about, so that one run explores each of them
completely; the product of their state spaces would add states and no behaviour.

## 3. The runs

| Run | Question | Bounds |
|---|---|---|
| `BroadcastShared` | Can two processes behind one Redis both own a payload, replay an old outcome, or do anything the ledger does not? | 3 POSTs, 1 payload, 2 processes, 1 slot, window 2, request 1, clock to 4, 1 crash |
| `BroadcastCapacity` | What happens when payloads compete for the table? | 3 POSTs, 2 payloads, 1 slot, sweep budget 1, clock to 3 |
| `BroadcastLive` | Is every POST answered? | 2 POSTs, 1 crash, fair |
| `ProviderCircuit` | Is the provider sheltered, the probe slot always given back, each verdict the provider's? | 2 lookups, threshold 2, clock to 4, fair |
| `TransferRace` | Can transactions that compete for a nonce confuse the table? | 3 transactions, 1 nonce, 1 screen, 1 crash |
| `TransferLive` | Is a row settled in the end, through two screens, a change of wallet and a crash? | 1 transaction, 2 wallets, 2 screens, 1 crash, fair |
| `GatewayRead` | Do cache, breaker and pool keep their promises when one handler drives them all? | 2 goroutines, 2 endpoints, thresholds and durations 2, calls 1, clock to 5 |
| `Parts` | Does the Gateway charge the right caller the right amount, and tell of histories, balances, transactions and spendable money only what answers prove? Does Cold Signer sign once, and keep and lose exactly the wallets it should? | limiter: 4 keys, 2 slots, burst of 2 requests, 5 ticks; history: 1 wallet, up to 3 rows a feed, 2 sources, limits 2 and 3; balances: 2 accounts, coin and token, 2 changes; verdicts: 1 transaction on each of 3 chains; preflight: 3 transactions, 2 payments; Cold Signer: 3 wallets, at most 2 described, 1 request, 2 confirmations, any number of failures and kills |
| `BroadcastReplayFinding`, `TransferReviveFinding`, `TransferReplacedFinding`, `TransferHashFinding` | see 6 | |

**Why the bounds are enough.** The hazards are about two actors and one thing they
share, so each run has two or three actors and one shared thing. Three POSTs of a
payload are an owner, a competitor in another process, and one in the next window.
A clock that ends at 4 with a window of 2 sees the claim, its expiry, the next
claim and the expiry of a copy of it. One slot with two payloads makes each
reservation an eviction. A threshold of 2 tells "the first failure" from "the one
that opens". `GatewayRead`'s clock to 5 allows two failures, the window of two
ticks, the attempt or probe after it and its failure or success; a lifetime of 2
allows an entry to be fetched, to be read back from Redis and to expire. Three
transactions are an original, a replacement and a stranger at the nonce. The
counters that grow in the code are bounded by named constants (`MaxTime`,
`MaxCrashes`, `MaxCrash`, `MaxNonce`) in guards. Most properties are also proved
for all values, see 5; then the run's part is to show that the formula is not
vacuous, with its mutants.

In `Parts` two slots are the overflow bucket and one more, so the second caller finds
the table full; five ticks fill a bucket of two requests and one over; one
connection is enough, since only `Admit` touches the limiter. A limit of 2 with three
movements in the feeds makes the cut happen, and each provider's pages have a
sound row, a malformed one, twins, a failed and a contradictory one (`MCHistory`).
One slot for two accounts makes one wait. Three transactions are one queued at the
start, one queued during the preparation and one mined. Of the three wallets of Cold
Signer one gets the request, a second stands beside it, and the third meets the limit
or takes the place of a deleted one; failures and kills are not counted, so each may
come at every step.

Two questions are left to the theorems since they are proved for all values: a
guard without a shared store (`OneOwnerPerWindow` holds for `Shared = FALSE`), and
two checks that settle one row at once (`SettlementsAreCounted`, any number of
checks).

`CHECK_DEADLOCK FALSE` is in every configuration but `Parts` (where a wallet can
always ask again, and an app be killed) because the bounded clock and the
bounded number of POSTs, transactions and crashes end every behaviour. That
nobody waits for ever is said by `Answered`, `ProbeReleased` and `Settles` instead.

`TransferLive` has one transaction: liveness with two takes too long. Its
competitor is the foreign transaction that may consume the nonce; two of the app's
own are in `TransferRace`, and in the theorems.

## 4. Fairness

- `BroadcastGuard`: weak fairness of each POST's own steps. Each Redis call ends
  within 750 ms timeouts, each call of the node within the request's 25 s or the
  pool's attempt timeout, each write of an outcome within a context of one second.
  Nothing is assumed of a crash, of the clock or of late writes.
- `ProviderCircuit`: weak fairness of each lookup's steps after the cache lookup
  (the client has a timeout of its own). New lookups are not assumed to come.
- `TransferLedger`: each request has a timeout, so weak fairness of "some answer or
  none" (`Unheard \/ Listed \/ Unlisted \/ ByNonce`) and of `Write`; a poll comes
  again while the app runs, so weak fairness of `Look`; and a request repeated
  without end succeeds in the end: strong fairness of `Receipt`, `Unlisted`,
  `ByNonce` and of writing a final answer. That is an assumption about nodes and
  about the user leaving the screen open, and it is one: a node that for ever
  claims to hold a transaction that lost its nonce keeps the row pending for ever.
- `GatewayRead`, `RedisCircuit`, `UpstreamPool`, and what `Parts` runs: no
  liveness is claimed. Every call of the Gateway has a timeout of its own, and nothing
  waits for anything else; a deletion of Cold Signer goes on at the next start, which is
  the user's.

## 5. What is proved

All proofs are checked by TLAPS for every value of the constants that the named
assumptions (`ConstantsOK`, `ProcessConstants`, `RedisConstants`, `PoolConstants`,
`CacheConstants`, `LimitConstants`, `ServerConstants`, `WireConstants`,
`PreflightConstants`, `ColdConstants`, `HistoryConstants`) and the assumptions about
nodes and providers named below allow; TLC evaluates all of them on its instances.
The proof modules are `BroadcastProofs`, `ProviderCircuitProofs`, `TransferLedgerProofs`,
`GatewayReadProofs`, `RpcServerProofs`, `AnswerProofs`, `HistoryProofs` and
`ColdWalletsProofs`.

**BroadcastProofs.** `TypeCorrect`; `OneOwnerPerWindow`
(`OncePerWindow`); `RepliesAreAttributed`; `GuardIsOnce` (`ImplementsOnce`, with a
shared store); `LocalTableIsBounded` (`LocalBound`); `RepliesAreRecent` (`ReplyAge`);
`ForgettingIsSafe` (`EvictableIsSafe`). `OncePerWindow` is not inductive: that two requests do not both own
a payload follows from where the first one's claim is *now*: in Redis until its
window ends, or, without Redis, in the local table under the very node its owner
made. The invariant says so for every step a request may stand at, and that an
abandoned write still under way is of an owner, whose budget ends before its window
(`Budget < TTL`), so it can only land on its own claim.
The list of the table needs a lemma of its own: unlinking a set of keys closes the
gaps it leaves, and an injection into 1..n of n keys misses no place. `ReplyAge` and
`EvictableIsSafe` rest on `Kept` (what a request reserved stays in its place until it
is settled or its window is over). `ReplyAge` then bounds the dates of Redis, of the
tables and of the copies held between two steps by the claim they come from;
`EvictableIsSafe` adds that while a claim lives nobody overwrites the outcome Redis
stores, since two live claims of one payload are one.

**ProviderCircuitProofs.** `TypeCorrect`, `CircuitShelters`, `ProbeHasOwner`,
`OnlyProbeCloses`, `VerdictsHaveEvidence`. The invariant ties the generation of a permit to history: the
circuit listens exactly to the calls no opening overtook, and while it is open that
is one probe at most. For the verdicts a second invariant follows a report from the
provider to the cache and to every lookup that holds or serves it: it names its
token and is no older than a lifetime and one lookup.

**TransferLedgerProofs.** `TypeCorrect`, `OneLiveLineage` (`NonceCompetitors`),
`VerdictsHold`, `SettledByChecks`, `SettlementsAreCounted`. The invariant says what a
flow still owes (a row that its flow may write is live, or its nonce is consumed),
that only accepted transactions are mined, and that what a check has learned stays
true however long it is kept. The last one makes late writes harmless: for
confirmed and failed it holds of the transaction, for replaced only of the nonce,
which is why `ReplacedIsTrue` fails (6).

**GatewayReadProofs.** The breaker: `ProbeIsAlone`, `SlotIsOwned`, `CooldownIsKept`.
The invariant `OpTimes` places every operation under way in time: an ordinary one
began a whole cooldown before the window ends, so, being shorter than a cooldown,
it is over when the probe may begin. This is where `OpBudget < Cooldown` is needed,
the one assumption about timing; in the code four waits of 750 ms stand against 5 s.
(A call that first has to open a connection also exchanges its greeting, each
round under the same limit; the assumption is about the sum.) The pool:
`WindowsAreEarned`, `WindowsShelter`, `WritesAreSingle`. The composition:
`ReadImplementsRedis` and `ReadImplementsPool` say that whatever the handlers do is a
behaviour of the breaker's and the pool's own specification, so `ReadKeepsParts`
follows without looking at a handler again; `AnswersStayFresh` needs in addition
that each record, in the local map, in Redis or in a handler's hands, expires no
later than its lifetime and one attempt after the attempt that gave it.
`ReadTypeCorrect` adds that a handler has an operation of Redis, or a call of the
pool, exactly at the steps where it waits for one: none is left over.

**RpcServerProofs.** Of `RateLimit`, `LimitTypeCorrect`, `TableStaysBounded` and
`LimitImplementsBuckets`; of the server, `ChargedIsSender` and `ServerLimits`. The refinement rests on
`Level`: a swept bucket had refilled, so forgetting it and making a fresh one later
is the same bucket; a newcomer that is sent to the overflow bucket leaves its own
full. The bound is not inductive as it stands: a key other than the overflow's is
added only below `MaxBuckets - 1`, and the invariant counts those keys alone.
`ChargedIsSender` follows a chain from its right end: what is right of the sender is
trusted, by `WireConstants`, so the last foreign hop is the sender. `ServerLimits`
shows that the server takes no other steps of the limiter.

**AnswerProofs.** Three components with the same question: is what the wallet is told
borne out by somebody's answer?

- `VerdictsAreTrue` (`VerdictIsTrue`). Assumed is only what an honest node that may lag
  can be held to, a clause for each kind of answer (`HonestReceipts`,
  `HonestTransactions`, `HonestInfos`, `HonestContracts`, `HonestStatuses`,
  `HonestSubmissions`): *if* a row is whole and names the transaction, it is true of a
  state the node may have seen. Of rows that are damaged, halved or about another
  transaction nothing is assumed, so the proof has to go through every check of the
  code, and fails when one is dropped. The invariant adds that a question still open
  has told the caller nothing yet, that each question belongs to its chain, and that a
  fate is final.
- `AmountsAreTrue` (`AmountIsTrue`), from `HonestQuantities`, `HonestTronAccounts`,
  `HonestTronCalls`, `HonestSolanaBalances`, `HonestSolanaAccounts`: for any number of
  accounts, tokens and reading slots. The invariant carries each value from the node
  through `found` to `told` and `kept`, and `had` only grows, so a cached entry stays
  true of what the account has held.
- `ReadyIsCovered` (`SpendIsCovered`). What is spendable cannot fall below what the
  chosen nonce leaves: a pending balance read after the nonce was chosen counts every
  earlier transaction. A latest one does so only while the mined count and the nonce
  agree. `PreflightInv` says, for each step, which of the two is known of each balance
  read so far.

**HistoryProofs.** `EmptinessIsProven` (`EmptyPageIsProven`), `PagesAreShaped`
(`PageShape`), `StatusesAreEvidence` (`StatusIsEvidence`) and `NothingIsHidden`
(`NoMovementHidden`), for any sources, rows, limits and cached pages. Assumed of the
answers: an accepted page is an array whose sound rows have numbers where the decoders
demand them (`WellFormedRows`, `WellFormedTimes`); a page of transfers that Alchemy
sends for a direction has one of that direction (`OwnTransfers`, see 6); and what names
a movement on the page names one movement of its feed (`NamesAreUnique`): event ids,
trace ids and contract places are the chain's own, and for TRC-20 see 6.

The proofs have three layers. First the operators. `InOrder` lists a finite set by a
total order: distinct members have distinct numbers of members before them, and n
distinct numbers below n leave none out (`InOrderFits`); `Keep`, `Chain`, `Newest` and
the cut to the limit are uses of it, so each keeps its elements, in their order. From
that, `Cut(Newest(...))` is newest first, names nothing twice, and loses a record only
to a twin of its name or to a full page that is at least as new. Then the decoders: for each of the
nine feeds the movements of a sound row are borne out by that row (`Evidence`), and
carry what tells the feeds apart (`Tagged`). Last the invariant of the handler,

    HistoryInv == Bounded /\ FeedsInv /\ TimesInv /\ CacheInv /\ ReplyInv

None of the four properties is inductive alone. The page of an answer is made of what
the feeds came to several steps earlier, so `FeedsInv` keeps for each feed that its
movements rest on rows of the answer it was read from (`Tells`). Alchemy's movements wait in
`page` for their block times, and `TimesInv` says that these are exactly the movements
of both directions, no longer and no fewer (`Joint`). A cached page is answered under
the limit it was kept for and has its shape (`CacheInv`). A fresh answer is `Backed` by
the feeds and `Whole` (`ReplyInv`). TLC checked `HistoryInv` on the answers of
`MCHistory` (1 974 079 states of `Parts`) before it was proved.

**ColdWalletsProofs.** `ColdInvariant`, and from it `RequestsAreSignedOnce`
(`SignedOnce`), `KeptWalletsAreWhole` (`WalletsAreWhole`) and
`DeletedWalletsStayDeleted` (`DeletedStaysDeleted`), from `ColdConstants` alone: for any
number of wallets, requests and callbacks. `ColdInv` has a conjunct for each part of the
state. `StorageInv`: a key of a wallet the user may know of has a row, a doomed wallet
(its deletion was written down) that still has a key or a row is the one the tombstone
names, and the native-done mark names a wallet without key. `JobInv`: past `DeleteKey`
the key is gone, the tombstone stands until `Untomb` and the row is gone by then, and a
wipe of the last wallet means that no known key is left. `BoardInv`: what an
onboarding compensates is a wallet nobody has been shown. `ScreenInv`: a current
wallet is known, there is a PIN, and if it is doomed the screens are locked by
`pending`. `SignInv` and `CallInv`: a signed request keeps its record or has lost its
key, and a reservation whose key still exists is held by one call. The last two lean on the
first four: deleting a wallet forgets its records, which is safe only since
its key goes first, and `ClearRecords` after the last wallet forgets all records, which is
safe only since no known key is without a row. Each conjunct has a lemma with one step per
action; TLC checked `ColdInv` on three wallets before.

**Only model-checked**: liveness (`Answered`, `ProbeReleased`, `Settles`), which is
out of the prover's reach, and the findings. Every safety invariant and action property
of a passing run is stated by a theorem. Two things the theorems leave open: that the
code's folds over amounts compute the sum they name (`Total` and `MapThenSumSet` are
opaque to the proofs; the runs evaluate them), and the pages of Helius and of the
standard Solana node, whose movements are the provider's own (`PageShape` and
`NoMovementHidden` are about the merged pages only, 6).

## 6. Where code and documents disagree

Each is a run whose property states the document and is violated; TLC prints the
shortest behaviour. `PROJECT.json` quotes the lines.

- `BroadcastReplayFinding`. Gateway README: within 24 hours a replay returns the
  first outcome, and `pending` means concurrent or crashed. When the write of the
  outcome to Redis fails, another process answers "already being processed" for
  the rest of the window. It is safe, nothing is sent twice, and it is not what
  the text says.
- `TransferReviveFinding`. README: a late pending response cannot overwrite a
  settled row. The write after the broadcast has no condition on the status, and
  can.
- `TransferReplacedFinding`. A receipt, a lookup and the nonce are three reads. A
  transaction mined between the first two and the third is called replaced, for
  good, by itself.
- `TransferHashFinding`. README: the hash is persisted before submission. If the
  wallet is changed while the transaction is signed the hash is written to no row,
  the result is ignored, and the broadcast goes on.

Seen while modelling, without a run of its own:

- `wallet/transfer/chain_params_service.dart:66-72` says both uses of a latest
  balance fail closed when an earlier queued liability cannot be accounted for. The
  proof of the empty queue is read after the balance
  (`local_transfer_service.dart:326`), so what is mined in between is not accounted
  for. `SpendIsCovered` excepts exactly this; without the exception TLC violates it.
- `gateway/README.md` caps a history at 100 records. The standard Solana path holds
  only token records against the limit (`handlers/history.go:825-833`, none at 846)
  and looks into four times as many signatures; `PageShape` is about the merged pages.
- The README's "any malformed provider page fails closed" and "partial rows ...
  reject that provider feed" are stricter than the code, which leaves a malformed
  row out as long as a sound one remains (`upstream/history.go:481-546`).
- Alchemy's feed fails when rows were left out and no transfer remains, before the
  handler drops the transfers of other addresses (`upstream/alchemy.go:291-310`,
  `handlers/history.go:385-390`). `tronHistory` looks after its filter. A page
  with transfers of somebody else only and a second direction that failed is told as an empty
  history; `OwnTransfers` excludes such a page, which Alchemy, asked by address, does
  not send.
- Two equal TRC-20 transfers of one transaction have one name
  (`handlers/history.go:299-309`) and are shown once. TronGrid gives nothing that
  tells them apart; `NoMovementHidden` counts what a feed tells apart.
- An explorer's zero-value rows use up the number of rows asked for, so older
  movements may be missing from a page that is not full.
- The amounts of `kt_getEvmSpendableBalances` are said to come from the same
  upstream selection; each is a call of the pool of its own
  (`evm_preflight.go:201-237`). The model has it so.
- A node that answers "already known" to a submission is told as a refusal by the
  Gateway although the chain has the transaction; `VerdictIsTrue` reads a refusal as
  "this node did not take it".

- Cold Signer, an onboarding beside other wallets that fails after the row was written
  and is killed between the deletion of the new key and of its row
  (`signer_wallet_controller.dart:583-591`): the row stays selected without a key, and
  `load` throws at line 224 on every start. The other wallets are whole
  (`WalletsAreWhole`) and cannot be opened. "An explicit retry can recover the same
  wallet" (220-223) does not hold of this state, which the model reaches.
- Cold Signer, `load` takes a tombstone without row and without native-done mark for
  corruption (189-198), "native deletion always precedes metadata removal". When the last
  erasure of a deletion fails (`secure_vault.dart:450`) the user may delete again; the
  mark is erased, the tombstone written, and an app killed before the mark is written
  again (882) throws on every start although nothing is left to delete. The model
  reaches this state too (`Corrupted`), and no key is lost by it.
- Cold Signer, after `_pendingDeletion = null` (890) a failing read leaves the deleted
  wallet on the screens, where a rename writes its row again. The model's reads do not
  fail by themselves.

## 7. What is not modelled, and why

- Data: chain encoders, CBOR, envelope validation, fee and gas arithmetic, number and
  address formats. No state survives them, and vector tests cover them better than
  a state model. Strict JSON is modelled by what it accepts, not by how it scans.
- Read handlers with one or two reads and no order to get wrong: chain parameters,
  prices, TRON preflight, gas estimates, simulation. Token approvals use a circuit
  like `ProviderCircuit`'s.
- `Interval`, the spacing of calls to CoinGecko: it delays calls and refuses none.
- Overlapping requests for one history or one account: each is modelled alone
  against a cache whose entries come and go.
- Cryptography and the native wallet core, which is not in the repository.
- Start-up and configuration of the Gateway, metrics, diagnostics: no decision at
  run time depends on them.
- TRON and Solana rows (they expire by block reference or height instead of a
  nonce), merging of indexed history with local rows, replacements in the preflight.
- The PIN lock of either app, and Cold Signer's legacy path of a deletion without a
  current wallet (`signer_wallet_controller.dart:863-865`), when there is nothing to lose.
- User interface, localisation, website.
- Panics: a handler's panic between `allow` and `finish` would keep the probe
  slot; no input that causes one is known, so the model has no such step.

## 8. The plan

In this order; each item names what it composes with.

1. *Done*: `BroadcastOnce`, `BroadcastGuard`; `ProviderCircuit`; `TransferLedger`;
   `RedisCircuit`, `UpstreamPool`, `GatewayRead`; `TokenBuckets`, `RateLimit`,
   `RpcServer`; `HistoryRows`, `HistoryPage`, `HistoryRead`; `BalanceReads`;
   `TransactionReads`; `EvmPreflight`; `ColdWallets`; the proofs of section 5.
2. `EvmPreflight` extended by the replacement flow, which reads the latest balance at
   the confirmed nonce; `Interval.Wait` for several callers that give up.
3. `PinLock` (Cold Signer and wallet): the lockout with verifications that overlap at
   their awaits and an app killed between the check and the write of the counter.
4. `WalletDeletion`: tombstone, vault and row, with crashes and refused
   authentication during recovery; a wallet is never shown without its key.
5. `AirgapSession`: aggregator and flow on both devices, frames in any order; what
   is assembled is what was sent, or nothing. Composes with `ColdWallets` to one
   request from wallet to signer and back.
6. `TransferLedger` extended by the TRON and Solana rows and by the merge of indexed
   history; then its composition with `BroadcastOnce` as the Gateway it talks to,
   which turns "answer lost" into what the guard really replies.
7. `MarketRefresh`: the generation counters of `market_controller.dart` and
   `history_controller.dart`.
8. Proofs: type and main invariants of each new module of this list. Of the modules
   that exist, a limit on the page of the standard Solana node (not more than the limit
   and one native record for each signature) is worth stating and proving.

To keep the number of runs small, the small components of one program share an MC
module and a run, as those of `GatewayRead` and `Parts` do, and findings that a fix removes
give up theirs. Abstract specifications worth stating: `BroadcastOnce` (done),
`TokenBuckets` (done), a wallet that exists with its key or not at all.

## 9. Running

    tlc -workers 2 -config BroadcastShared.cfg MCBroadcast.tla
    tlc -workers 2 -config GatewayRead.cfg MCGateway.tla
    tlc -workers 2 -config Parts.cfg MCParts.tla
    tlapm GatewayReadProofs.tla
    tlapm HistoryProofs.tla

`PROJECT.json` names the module and the configuration of every run, the mutant of
every property, and, under "map", the source lines of every definition.
