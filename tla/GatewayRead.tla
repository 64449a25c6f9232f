----------------------------- MODULE GatewayRead -----------------------------
(***************************************************************************)
(* One Gateway process serving kt_getBalances for one account and network, *)
(* without a token list, and kt_broadcast on that network: the read cache  *)
(* (cache/cache.go) over the Redis breaker (RedisCircuit), and the pool of *)
(* the network (UpstreamPool) behind both.                                 *)
(*                                                                         *)
(* An answer is abstracted to the time of the node's attempt that gave it. *)
(* What Redis holds is written by every process, and a SET that its caller *)
(* gave up may still be executed, so a GET may find any record that some   *)
(* SetContext has made so far, or none.                                    *)
(***************************************************************************)
EXTENDS RedisCircuit, UpstreamPool

CONSTANT TTL    \* balancesTTL, in ticks

ASSUME CacheConstants == TTL \in Nat \ {0}

VARIABLES
    local,  \* c.m[key]: the local entry
    pc,     \* pc[w]: where the handler of w stands
    held    \* held[w]: the record w holds

cacheVars == <<local, pc, held>>
readVars  == <<redisVars, fails, skipUntil, nextPrimary, call, cacheVars>>

\* entry and sharedRecord; expires = 0 for a missing one.
Record  == [stamp : Nat, expires : Nat]
Missing == [stamp |-> 0, expires |-> 0]

\* The records that SetContext has made so far: it writes an answer at the
\* latest AttemptBudget after the attempt that gave it began.
Written ==
    {r \in [stamp : 0..now, expires : 0..(now + TTL)] :
        /\ r.stamp + TTL <= r.expires
        /\ r.expires <= r.stamp + AttemptBudget + TTL}

Steps == {"idle", "missed", "getting", "got", "fetch", "fetching", "set",
          "store", "setting", "writing"}

ReadInit ==
    /\ now = 0 /\ RedisInit /\ PoolInit
    /\ local = Missing
    /\ pc = [w \in Worker |-> "idle"]
    /\ held = [w \in Worker |-> Missing]
-----------------------------------------------------------------------------
Goto(w, step) == pc' = [pc EXCEPT ![w] = step]
Drop(w)       == held' = [held EXCEPT ![w] = Missing]

NoRedis == UNCHANGED <<openUntil, halfOpenProbe, op>>
NoPool  == UNCHANGED <<fails, skipUntil, nextPrimary, call>>

\* Mutant: an entry is served until it is swept.
HitStale == local.expires > 0

\* GetContext serves an entry up to and including its expiry.
Hit == local.expires > 0 /\ now <= local.expires

\* A request that finds no entry, or drops an expired one.  A hit answers at
\* once and changes nothing.
Lookup(w) ==
    /\ pc[w] = "idle" /\ ~Hit
    /\ local' = Missing
    /\ Goto(w, "missed")
    /\ UNCHANGED <<now, held>> /\ NoRedis /\ NoPool

\* The shared layer is asked, unless the breaker refuses.
BeginGet(w) ==
    /\ pc[w] = "missed"
    /\ \/ BeginOperation(w) /\ Goto(w, "getting")
       \/ Refused /\ Goto(w, "fetch") /\ UNCHANGED redisVars
    /\ UNCHANGED <<local, held>> /\ NoPool

\* Redis executes the GET; its answer is on the way.
RedisServes(w) ==
    /\ pc[w] = "getting"
    /\ \E r \in Written \cup {Missing} : held' = [held EXCEPT ![w] = r]
    /\ Goto(w, "got")
    /\ UNCHANGED <<now, local>> /\ NoRedis /\ NoPool

\* Mutant: what comes from Redis is good for a full TTL.
KeepRenewing(w) == local' = [stamp |-> held[w].stamp, expires |-> now + TTL]

\* setLocal, with the expiry the record carries
Keep(w) == local' = held[w]

\* The answer arrives: a record that is missing, corrupt or past its own
\* expiry is a miss, any other one is kept and served.
FinishGet(w) ==
    /\ pc[w] = "got"
    /\ FinishOperation(w, "none")
    /\ \/ /\ held[w].expires > now
          /\ Keep(w)
          /\ Goto(w, "idle")
       \/ UNCHANGED local /\ Goto(w, "fetch")
    /\ Drop(w) /\ NoPool

\* The call of the client fails: an ordinary miss.
LoseGet(w) ==
    /\ pc[w] \in {"getting", "got"}
    /\ FinishOperation(w, "context") \/ FinishOperation(w, "redis")
    /\ Goto(w, "fetch")
    /\ Drop(w)
    /\ UNCHANGED local /\ NoPool
-----------------------------------------------------------------------------
(* The call of the pool: a read after a miss, or the write of a broadcast. *)

Fetch(w) ==
    /\ pc[w] = "fetch"
    /\ StartCall(w, FALSE)
    /\ Goto(w, "fetching")
    /\ UNCHANGED <<local, held>> /\ NoRedis

Broadcast(w) ==
    /\ pc[w] = "idle"
    /\ StartCall(w, TRUE)
    /\ Goto(w, "writing")
    /\ UNCHANGED <<local, held>> /\ NoRedis

\* The call goes from one endpoint to the next.
Route(w) ==
    /\ pc[w] \in {"fetching", "writing"}
    /\ Skip(w) \/ Attempt(w) \/ FailOver(w)
    /\ UNCHANGED cacheVars /\ NoRedis

\* The node answers a read.
Fetched(w) ==
    /\ pc[w] = "fetching"
    /\ Succeed(w)
    /\ held' = [held EXCEPT ![w] = [stamp |-> call[w].since, expires |-> 0]]
    /\ Goto(w, "set")
    /\ UNCHANGED local /\ NoRedis

\* Mutant: an attempt whose caller left is not counted.
NoBalanceSilent(w) ==
    /\ pc[w] \in {"fetching", "writing"}
    /\ \/ Succeed(w) \/ Exhaust(w)
       \/ /\ call[w].step = "attempt"
          /\ EndCall(w)
          /\ UNCHANGED <<now, fails, skipUntil, nextPrimary>>
    /\ Goto(w, "idle")
    /\ UNCHANGED <<local, held>> /\ NoRedis

\* The request ends with the node's answer to a write, with an error the node
\* gave, or without an answer.
NoBalance(w) ==
    /\ pc[w] \in {"fetching", "writing"}
    /\ Succeed(w) \/ GiveUp(w) \/ Exhaust(w)
    /\ Goto(w, "idle")
    /\ UNCHANGED <<local, held>> /\ NoRedis
-----------------------------------------------------------------------------
(* SetContext                                                               *)

SetLocal(w) ==
    /\ pc[w] = "set"
    /\ local' = [stamp |-> held[w].stamp, expires |-> now + TTL]
    /\ Goto(w, "store")
    /\ Drop(w)
    /\ UNCHANGED now /\ NoRedis /\ NoPool

\* Mutant: the write ignores the breaker.
BeginSetBlind(w) ==
    /\ pc[w] = "store"
    /\ op' = [op EXCEPT ![w] = [on |-> TRUE, probe |-> FALSE, began |-> now]]
    /\ Goto(w, "setting")
    /\ UNCHANGED <<now, openUntil, halfOpenProbe, local, held>> /\ NoPool

\* The shared layer is written, unless the breaker refuses.
BeginSet(w) ==
    /\ pc[w] = "store"
    /\ \/ BeginOperation(w) /\ Goto(w, "setting")
       \/ Refused /\ Goto(w, "idle") /\ UNCHANGED redisVars
    /\ UNCHANGED <<local, held>> /\ NoPool

FinishSet(w) ==
    /\ pc[w] = "setting"
    /\ \E err \in Errors : FinishOperation(w, err)
    /\ Goto(w, "idle")
    /\ UNCHANGED <<local, held>> /\ NoPool

\* Time passes during the calls of Redis and of the nodes, and between
\* requests; what a handler computes in between takes none.
Tick ==
    /\ RedisTick /\ PoolTick
    /\ \A w \in Worker :
         /\ pc[w] \notin {"missed", "fetch", "set", "store"}
         /\ call[w].step # "pick"
    /\ UNCHANGED cacheVars

Serve(w) ==
    \/ BeginGet(w) \/ RedisServes(w) \/ FinishGet(w) \/ LoseGet(w)
    \/ Fetch(w) \/ Route(w) \/ Fetched(w) \/ NoBalance(w)
    \/ SetLocal(w) \/ BeginSet(w) \/ FinishSet(w)

ReadNext ==
    \/ Tick
    \/ \E w \in Worker : Lookup(w) \/ Broadcast(w) \/ Serve(w)

ReadSpec == ReadInit /\ [][ReadNext]_readVars
-----------------------------------------------------------------------------
(* Properties.  RedisSpec and PoolSpec are checked too: whatever handlers  *)
(* do, the breaker and the pool only take steps of their own modules, and  *)
(* what is proved there holds here.                                        *)

\* Every variable keeps its shape, and a handler has a call of Redis or of the
\* pool under way exactly where it waits for one.
ReadTypeOK ==
    /\ RedisTypeOK /\ PoolTypeOK
    /\ local \in Record
    /\ pc \in [Worker -> Steps]
    /\ held \in [Worker -> Record]
    /\ \A w \in Worker :
         /\ op[w].on <=> pc[w] \in {"getting", "got", "setting"}
         /\ call[w].step # "none" <=> pc[w] \in {"fetching", "writing"}

\* What a lookup answers was read from a node no longer ago than the TTL and
\* one attempt, whichever processes it went through and however late Redis
\* executed or answered (cache.go:149-153, README.md:152).
AnswersAreFresh == Hit => now <= local.stamp + TTL + AttemptBudget
=============================================================================
