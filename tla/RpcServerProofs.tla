--------------------------- MODULE RpcServerProofs ---------------------------
(* What the limiter guarantees for any number of clients, any burst and any *)
(* size of its table; then what the server guarantees of whom it charges,   *)
(* for any number of connections and any headers, and that the limiter      *)
(* behind it is the one of RateLimit.                                       *)
EXTENDS RpcServer, FiniteSetTheorems, TLAPS

\* One slot is kept back for the bucket that newcomers share, so its owner
\* always finds room.
Spare == Cardinality(held \ {Overflow}) <= MaxBuckets - 1

LimitInv == LimitTypeOK /\ Spare

LEMMA SlotsFinite == IsFiniteSet(Slot) /\ Overflow \in Slot
  BY LimitConstants, FS_AddElement DEF Slot

\* The keys of a table, with and without the shared one.
LEMMA Counted ==
  ASSUME NEW S \in SUBSET Slot
  PROVE  /\ IsFiniteSet(S) /\ Cardinality(S) \in Nat
         /\ IsFiniteSet(S \ {Overflow}) /\ Cardinality(S \ {Overflow}) \in Nat
         /\ Cardinality(S \ {Overflow}) <= Cardinality(S)
         /\ Cardinality(S) <= Cardinality(S \ {Overflow}) + 1
  <1>1. IsFiniteSet(S)
    BY SlotsFinite, FS_Subset
  <1>2. IsFiniteSet(S \ {Overflow})
    BY <1>1, FS_RemoveElement
  <1>3. Cardinality(S) \in Nat /\ Cardinality(S \ {Overflow}) \in Nat
    BY <1>1, <1>2, FS_CardinalityType
  <1>4. Cardinality(S \ {Overflow})
          = IF Overflow \in S THEN Cardinality(S) - 1 ELSE Cardinality(S)
    BY <1>1, FS_RemoveElement
  <1> QED BY <1>1, <1>2, <1>3, <1>4

LEMMA FilledType ==
  ASSUME LimitTypeOK, NEW k \in Slot
  PROVE  /\ Filled(k) \in 0 .. Burst
         /\ Refilled(k) => Filled(k) = Burst
  <1>1. credit[k] \in 0 .. Burst /\ last[k] \in 0 .. tick /\ tick \in Nat /\ Burst \in Nat
    BY LimitConstants DEF LimitTypeOK
  <1> QED BY <1>1 DEF Filled, Refilled

LEMMA SweptKeys ==
  ASSUME LimitTypeOK, NEW c \in Client
  PROVE  /\ Swept(c) \subseteq held /\ held \subseteq Slot
         /\ Payer(c) \in Slot
         /\ \A k \in held \ Swept(c) : Refilled(k) /\ k # Payer(c)
  <1>1. Swept(c) \subseteq held /\ held \subseteq Slot
    BY DEF Swept, LimitTypeOK
  <1>2. Payer(c) \in {c, Overflow} /\ (Payer(c) = c \/ c \notin held)
    BY DEF Payer
  <1>3. \A k \in held \ Swept(c) : Refilled(k) /\ k # Overflow /\ c \notin held
    BY DEF Swept
  <1> QED BY <1>1, <1>2, <1>3 DEF Slot

LEMMA LimitInitInv == LimitInit => LimitInv
  <1> SUFFICES ASSUME LimitInit PROVE LimitInv
    OBVIOUS
  <1>1. LimitTypeOK
    BY LimitConstants DEF LimitInit, LimitTypeOK
  <1>2. held \ {Overflow} = {}
    BY DEF LimitInit
  <1>3. Spare
    BY <1>2, FS_EmptySet, LimitConstants DEF Spare
  <1> QED BY <1>1, <1>3 DEF LimitInv

LEMMA AllowInv ==
  ASSUME LimitInv, NEW c \in Client, Allow(c), UNCHANGED tick
  PROVE  LimitInv'
  <1> DEFINE k == Payer(c)
             n == IF k \in Swept(c) THEN Filled(k) ELSE Burst
  <1>0. LimitTypeOK /\ Spare
    BY DEF LimitInv
  <1>1. /\ Swept(c) \subseteq held /\ held \subseteq Slot /\ k \in Slot
    BY <1>0, SweptKeys
  <1>2. n \in 0 .. Burst
    BY <1>0, <1>1, FilledType, LimitConstants
  <1>3. /\ verdict' = [bucket |-> k, allowed |-> n >= Cost]
        /\ held' = Swept(c) \cup {k}
        /\ credit' = [credit EXCEPT ![k] = IF n >= Cost THEN n - Cost ELSE n]
        /\ last' = [last EXCEPT ![k] = tick]
    BY DEF Allow
  <1>4. LimitTypeOK'
    <2>1. (IF n >= Cost THEN n - Cost ELSE n) \in 0 .. Burst
      BY <1>2, LimitConstants
    <2>2. credit' \in [Slot -> 0 .. Burst]
      BY <2>1, <1>0, <1>1, <1>3 DEF LimitTypeOK
    <2>3. last' \in [Slot -> 0 .. tick]
      BY <1>0, <1>1, <1>3 DEF LimitTypeOK
    <2>4. verdict' \in [bucket : Slot, allowed : BOOLEAN]
      BY <1>1, <1>3
    <2> QED BY <2>2, <2>3, <2>4, <1>0, <1>1, <1>3 DEF LimitTypeOK
  <1>5. Spare'
    <2>1. CASE held' \ {Overflow} \subseteq held \ {Overflow}
      <3>1. Cardinality(held' \ {Overflow}) <= Cardinality(held \ {Overflow})
        BY <2>1, <1>1, Counted, FS_Subset
      <3>2. Cardinality(held' \ {Overflow}) \in Nat
        BY <1>4, Counted DEF LimitTypeOK
      <3> QED BY <3>1, <3>2, <1>0, <1>1, Counted, LimitConstants DEF Spare
    <2>2. CASE ~(held' \ {Overflow} \subseteq held \ {Overflow})
      <3>1. k = c /\ c \notin held /\ ~Crowded(Swept(c))
        BY <2>2, <1>1, <1>3 DEF Payer
      <3>2. Swept(c) \in SUBSET Slot
        BY <1>1
      <3>3. IsFiniteSet(Swept(c)) /\ Cardinality(Swept(c)) \in Nat
        BY <3>2, Counted
      <3>4. Cardinality(Swept(c)) < MaxBuckets - 1
        BY <3>1, <3>3, LimitConstants DEF Crowded
      <3>5. Cardinality(Swept(c) \cup {c}) <= Cardinality(Swept(c)) + 1
        BY <3>3, FS_AddElement
      <3>6. held' = Swept(c) \cup {c} /\ held' \in SUBSET Slot
        BY <3>1, <1>3, <1>1
      <3>7. /\ Cardinality(held') \in Nat /\ Cardinality(held' \ {Overflow}) \in Nat
            /\ Cardinality(held' \ {Overflow}) <= Cardinality(held')
        BY <3>6, Counted
      <3> HIDE DEF k, n
      <3> QED BY <3>3, <3>4, <3>5, <3>6, <3>7, LimitConstants DEF Spare
    <2> QED BY <2>1, <2>2
  <1> QED BY <1>4, <1>5 DEF LimitInv

LEMMA LimitStepInv ==
  LimitInv /\ [LimitNext]_<<tick, limiter>> => LimitInv'
  <1> SUFFICES ASSUME LimitInv, [LimitNext]_<<tick, limiter>> PROVE LimitInv'
    OBVIOUS
  <1>1. CASE LimitTick
    <2>1. last \in [Slot -> 0 .. tick] /\ tick \in Nat
      BY DEF LimitInv, LimitTypeOK
    <2>2. last \in [Slot -> 0 .. tick + 1]
      BY <2>1
    <2> QED BY <1>1, <2>1, <2>2 DEF LimitInv, LimitTypeOK, Spare, LimitTick, limiter
  <1>2. CASE \E c \in Client : Allow(c) /\ UNCHANGED tick
    BY <1>2, AllowInv
  <1>3. CASE UNCHANGED <<tick, limiter>>
    BY <1>3 DEF LimitInv, LimitTypeOK, Spare, limiter
  <1> QED BY <1>1, <1>2, <1>3 DEF LimitNext

LEMMA LimitInvariant == LimitSpec => []LimitInv
  BY LimitInitInv, LimitStepInv, PTL DEF LimitSpec

\* Type correctness: no bucket ever holds more than a burst, nor less than
\* nothing (ratelimit.go:91-103).
THEOREM LimitTypeCorrect == LimitSpec => []LimitTypeOK
  BY LimitInvariant, PTL DEF LimitInv

\* The table stays within maxBuckets, whoever comes (ratelimit.go:72-90).
THEOREM TableStaysBounded == LimitSpec => []TableBound
  <1>1. LimitInv => TableBound
    <2> SUFFICES ASSUME LimitInv PROVE TableBound
      OBVIOUS
    <2>1. held \subseteq Slot /\ Spare
      BY DEF LimitInv, LimitTypeOK
    <2> QED BY <2>1, Counted, LimitConstants DEF Spare, TableBound
  <1> QED BY <1>1, LimitInvariant, PTL
-----------------------------------------------------------------------------
(* The table of buckets implements buckets that live for ever.              *)

LEMMA IdealInit == LimitInit => Ideal!BucketsInit
  <1> SUFFICES ASSUME LimitInit PROVE Ideal!BucketsInit
    OBVIOUS
  <1>1. [k \in Slot |-> Level(k)] = [k \in Slot |-> Burst]
    BY DEF LimitInit, Level
  <1> QED BY <1>1 DEF LimitInit, Ideal!BucketsInit, Ideal!Decisions

\* A tick adds a credit to each bucket, those that are not in the table too.
LEMMA IdealTick ==
  ASSUME LimitInv, LimitTick
  PROVE  Ideal!Fill
  <1>1. \A k \in Slot : Level(k)' = IF Level(k) < Burst THEN Level(k) + 1 ELSE Burst
    <2> SUFFICES ASSUME NEW k \in Slot
                 PROVE  Level(k)' = IF Level(k) < Burst THEN Level(k) + 1 ELSE Burst
      OBVIOUS
    <2>1. credit[k] \in 0 .. Burst /\ last[k] \in 0 .. tick /\ tick \in Nat /\ Burst \in Nat
      BY LimitConstants DEF LimitInv, LimitTypeOK
    <2>2. /\ tick' = tick + 1 /\ held' = held /\ credit' = credit /\ last' = last
      BY DEF LimitTick, limiter
    <2> QED BY <2>1, <2>2 DEF Level, Filled
  <1>2. tick < MaxTick /\ tick' = tick + 1 /\ UNCHANGED verdict
    BY DEF LimitTick, limiter
  <1> QED BY <1>1, <1>2 DEF Ideal!Fill

\* A request finds in its bucket what it would find had the bucket never left
\* the table, and leaves every other bucket as full as it was.
LEMMA IdealAllow ==
  ASSUME LimitInv, NEW c \in Client, Allow(c), UNCHANGED tick
  PROVE  Ideal!Decide(Payer(c))
  <1> SUFFICES ASSUME NEW k, k = Payer(c) PROVE Ideal!Decide(k)
    OBVIOUS
  <1> DEFINE n == IF k \in Swept(c) THEN Filled(k) ELSE Burst
             spent == IF n >= Cost THEN n - Cost ELSE n
  <1>0. LimitTypeOK
    BY DEF LimitInv
  <1>1. /\ Swept(c) \subseteq held /\ held \subseteq Slot /\ k \in Slot
        /\ \A j \in held \ Swept(c) : Refilled(j) /\ j # k
    BY <1>0, SweptKeys
  <1>2. n = Level(k)
    BY <1>1 DEF Level
  <1>3. n \in 0 .. Burst /\ spent \in 0 .. Burst
    BY <1>0, <1>1, FilledType, LimitConstants
  <1>4. /\ verdict' = [bucket |-> k, allowed |-> n >= Cost]
        /\ held' = Swept(c) \cup {k}
        /\ credit' = [credit EXCEPT ![k] = spent]
        /\ last' = [last EXCEPT ![k] = tick]
        /\ tick' = tick
    BY DEF Allow
  <1>5. \A j \in Slot \ {k} : Level(j)' = Level(j)
    <2> SUFFICES ASSUME NEW j \in Slot \ {k} PROVE Level(j)' = Level(j)
      OBVIOUS
    <2>1. Filled(j)' = Filled(j)
      BY <1>0, <1>4 DEF Filled, LimitTypeOK
    <2>2. CASE j \in Swept(c)
      BY <2>1, <2>2, <1>1, <1>4 DEF Level
    <2>3. CASE j \in held \ Swept(c)
      <3>1. Filled(j) = Burst
        BY <2>3, <1>0, <1>1, FilledType
      <3> QED BY <3>1, <2>3, <1>4 DEF Level
    <2>4. CASE j \notin held
      BY <2>4, <1>1, <1>4 DEF Level
    <2> QED BY <2>2, <2>3, <2>4
  <1>6. Level(k)' = spent
    <2>1. k \in held' /\ credit'[k] = spent /\ last'[k] = tick /\ tick \in Nat /\ Burst \in Nat
      BY <1>0, <1>1, <1>4, LimitConstants DEF LimitTypeOK
    <2> QED BY <2>1, <1>3, <1>4 DEF Level, Filled
  <1>7. [j \in Slot |-> Level(j)']
          = [[j \in Slot |-> Level(j)] EXCEPT ![k] = IF Level(k) >= Cost THEN Level(k) - Cost ELSE Level(k)]
    BY <1>1, <1>2, <1>5, <1>6
  <1> QED BY <1>1, <1>2, <1>4, <1>7 DEF Ideal!Decide

\* The limiter decides as if every key had a bucket of its own for ever: lazy
\* filling, sweeping and re-creation change no decision (ratelimit.go:65-104).
THEOREM LimitImplementsBuckets == LimitSpec => IdealBuckets
  <1>1. LimitInv /\ [LimitNext]_<<tick, limiter>>
          => [Ideal!Fill \/ \E b \in Slot : Ideal!Decide(b)]_<<tick, [k \in Slot |-> Level(k)], verdict>>
    <2> SUFFICES ASSUME LimitInv, [LimitNext]_<<tick, limiter>>
                 PROVE  [Ideal!Fill \/ \E b \in Slot : Ideal!Decide(b)]_<<tick, [k \in Slot |-> Level(k)], verdict>>
      OBVIOUS
    <2>1. CASE LimitTick
      BY <2>1, IdealTick
    <2>2. CASE \E c \in Client : Allow(c) /\ UNCHANGED tick
      <3>1. PICK c \in Client : Allow(c) /\ UNCHANGED tick
        BY <2>2
      <3>2. Payer(c) \in Slot
        BY SweptKeys DEF LimitInv
      <3> QED BY <3>1, <3>2, IdealAllow
    <2>3. CASE UNCHANGED <<tick, limiter>>
      BY <2>3 DEF limiter, Level, Filled
    <2> QED BY <2>1, <2>2, <2>3 DEF LimitNext
  <1> QED BY <1>1, IdealInit, LimitInvariant, PTL
          DEF LimitSpec, IdealBuckets, Ideal!BucketsSpec
------------------------------------------------------------------------------
\* Whatever stands before the part of the chain that our own proxies wrote, it
\* is not what LastForeign finds.
LEMMA LastForeignIsOrigin ==
  ASSUME NEW chain, NEW i \in DOMAIN chain, DOMAIN chain \subseteq Int,
         chain[i] \notin Trusted,
         \A j \in DOMAIN chain : j > i => chain[j] \in Trusted
  PROVE  LastForeign(chain) = chain[i]
  <1> DEFINE foreign == {n \in DOMAIN chain : chain[n] \notin Trusted}
             P(n) == n \in foreign /\ \A j \in foreign : j <= n
  <1>1. P(i) /\ foreign # {}
    OBVIOUS
  <1>2. \A n : P(n) => n = i
    BY <1>1
  <1>3. (CHOOSE n : P(n)) = i
    <2> HIDE DEF P
    <2> QED BY <1>1, <1>2
  <1>4. (CHOOSE n \in foreign : \A j \in foreign : j <= n) = i
    BY <1>3
  <1> QED BY <1>1, <1>4 DEF LastForeign

\* clientIP gives one of two addresses: where the request comes from, or the
\* proxy that brought it.
LEMMA ClientIPIsSender ==
  ASSUME NEW w \in Wires
  PROVE  clientIP(w) \in {w.origin, w.peer} /\ clientIP(w) \in Client
  <1>1. /\ {w.origin, w.peer} \subseteq Client
        /\ w.chain \in Seq(Client \cup {Garbled})
    BY WireConstants
  <1>2. CASE w.peer \notin Trusted
    BY <1>1, <1>2 DEF clientIP
  <1>3. CASE w.peer \in Trusted /\ w.chain = <<>>
    <2>1. w.real \in {w.origin, NoHeader, Garbled}
      BY <1>3, WireConstants
    <2> QED BY <2>1, <1>1, <1>3 DEF clientIP
  <1>4. CASE w.peer \in Trusted /\ w.chain # <<>>
    <2>1. PICK i \in DOMAIN w.chain :
             /\ w.chain[i] = w.origin /\ w.origin \notin Trusted
             /\ \A j \in DOMAIN w.chain : j > i => w.chain[j] \in Trusted
      BY <1>4, WireConstants
    <2>2. DOMAIN w.chain \subseteq Int
      BY <1>1
    <2>3. LastForeign(w.chain) = w.origin
      BY <2>1, <2>2, LastForeignIsOrigin
    <2> QED BY <2>3, <1>1, <1>4 DEF clientIP
  <1> QED BY <1>2, <1>3, <1>4

Charged == charged \in [Conn -> {[key |-> Overflow, by |-> {Overflow}]} \cup {Charge(w) : w \in Wires}]

\* Who is charged is who sent the request, or the proxy it came through, for
\* any chain of any length in its headers (rpc.go:369-420).
THEOREM ChargedIsSender == RpcSpec => []KeyIsSender
  <1>1. RpcInit => Charged
    BY DEF RpcInit, ServerInit, Charged
  <1>2. Charged /\ [RpcNext]_rpcVars => Charged'
    <2> SUFFICES ASSUME Charged, [RpcNext]_rpcVars PROVE Charged'
      OBVIOUS
    <2>1. CASE UNCHANGED charged
      BY <2>1 DEF Charged
    <2>2. ASSUME NEW r \in Conn, Admit(r) PROVE Charged'
      <3>1. PICK c \in {Charge(w) : w \in Wires} : charged' = [charged EXCEPT ![r] = c]
        BY <2>2 DEF Admit
      <3> QED BY <3>1 DEF Charged
    <2>3. ASSUME NEW r \in Conn, Route(r) \/ Finish(r) PROVE UNCHANGED charged
      BY <2>3 DEF Route, Finish
    <2> QED BY <2>1, <2>2, <2>3 DEF RpcNext, rpcVars, server
  <1>3. Charged => KeyIsSender
    <2> SUFFICES ASSUME Charged, NEW r \in Conn
                 PROVE  charged[r].key \in charged[r].by
      BY DEF KeyIsSender
    <2>1. CASE charged[r] = [key |-> Overflow, by |-> {Overflow}]
      BY <2>1
    <2>2. CASE \E w \in Wires : charged[r] = Charge(w)
      BY <2>2, ClientIPIsSender DEF Charge
    <2> QED BY <2>1, <2>2 DEF Charged
  <1> QED BY <1>1, <1>2, <1>3, PTL DEF RpcSpec
-----------------------------------------------------------------------------
\* Each request asks the limiter once, before it is read, and nothing else of
\* the server touches the table (rpc.go:220-240).
LEMMA ServerStepsTheLimiter == RpcSpec => LimitSpec
  <1>1. RpcInit => LimitInit
    BY DEF RpcInit
  <1>2. [RpcNext]_rpcVars => [LimitNext]_<<tick, limiter>>
    <2> SUFFICES ASSUME [RpcNext]_rpcVars PROVE [LimitNext]_<<tick, limiter>>
      OBVIOUS
    <2>1. CASE LimitTick
      BY <2>1 DEF LimitNext
    <2>2. ASSUME NEW r \in Conn, Admit(r) PROVE LimitNext
      <3>1. PICK w \in Wires : Allow(Charge(w).key) /\ UNCHANGED tick
        BY <2>2 DEF Admit
      <3>2. Charge(w).key \in Client
        BY <3>1, ClientIPIsSender DEF Charge
      <3> QED BY <3>1, <3>2 DEF LimitNext
    <2>3. ASSUME NEW r \in Conn, Route(r) \/ Finish(r) PROVE UNCHANGED <<tick, limiter>>
      BY <2>3 DEF Route, Finish
    <2>4. CASE UNCHANGED rpcVars
      BY <2>4 DEF rpcVars
    <2> QED BY <2>1, <2>2, <2>3, <2>4 DEF RpcNext
  <1> QED BY <1>1, <1>2, PTL DEF RpcSpec, LimitSpec

\* So behind the server the table is bounded, and every caller has a bucket of
\* its own for ever as far as it can tell.
THEOREM ServerLimits == RpcSpec => []TableBound /\ IdealBuckets
  BY ServerStepsTheLimiter, TableStaysBounded, LimitImplementsBuckets
=============================================================================
