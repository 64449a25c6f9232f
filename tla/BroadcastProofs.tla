---------------------------- MODULE BroadcastProofs ----------------------------
(* Proofs about BroadcastGuard, for any number of requests, payloads and    *)
(* processes, any clock bound and any window: who owns a payload, whose     *)
(* outcome a record is, that the guard in front of a shared store           *)
(* implements the one-shot ledger of BroadcastOnce, that no reply is older  *)
(* than two windows, and that only what is safe to forget may be evicted.   *)
EXTENDS BroadcastGuard, FiniteSetTheorems, TLAPS

-----------------------------------------------------------------------------
(* The list of evictable keys keeps its shape.                              *)

\* The sets of keys that are counted are finite.
LEMMA CountIsNat ==
    ASSUME NEW S \in SUBSET Key
    PROVE  Cardinality(S) \in Nat
BY ConstantsOK, FS_Subset, FS_CardinalityType

\* Taking keys out of the list leaves a list.
LEMMA UnlinkType ==
    ASSUME NEW q \in [Key -> Nat], NEW S
    PROVE  Unlink(q, S) \in [Key -> Nat]
<1>1. \A k \in Key :
        Cardinality({y \in Linked(q) \ S : q[y] <= q[k]}) \in Nat
  BY CountIsNat DEF Linked
<1> QED BY <1>1 DEF Unlink

\* Appending a key that is not in the list leaves a list.
LEMMA MarkType ==
    ASSUME NEW q \in [Key -> Nat], NEW k \in Key
    PROVE  MarkEvictable(q, k) \in [Key -> Nat]
<1>1. Cardinality(Linked(q)) \in Nat
  BY CountIsNat DEF Linked
<1> QED BY <1>1 DEF MarkEvictable, PushBack

\* A replay that moves its key to the back leaves a list.
LEMMA MoveType ==
    ASSUME NEW q \in [Key -> Nat], NEW k \in Key
    PROVE  MoveToBack(q, k) \in [Key -> Nat]
<1> DEFINE u == Unlink(q, {k})
<1>1. u \in [Key -> Nat]
  BY UnlinkType
<1>2. Cardinality(Linked(u)) \in Nat
  BY <1>1, CountIsNat DEF Linked
<1> QED BY <1>1, <1>2 DEF MoveToBack, PushBack
-----------------------------------------------------------------------------
(* Type correctness.                                                        *)

Early   == {"idle", "setnx", "get", "install", "peek"}
Owning  == {"owner", "sent", "complete", "persist", "markOk", "markErr"}
Settled == {"complete", "persist", "markOk", "markErr"}

\* Where a request stands tells whether it owns the claim, what record it
\* holds, and which of its writes Redis may still execute.
Phase(r) ==
    /\ pc[r] \in Early => r \notin claimed
    /\ pc[r] \in Owning => r \in claimed
    /\ pc[r] \in {"idle", "setnx", "owner", "sent"} => val[r] = NoRec
    /\ pc[r] = "install" => val[r] \in Valid /\ val[r] # NoRec
    /\ pc[r] \in Settled => val[r].state \in Outcomes
    /\ r \in late => /\ pc[r] \in {"markErr", "done", "crashed"}
                     /\ r \in claimed => val[r].state \in Outcomes

Phases == \A r \in Request : Phase(r)

TypeInv == TypeOK /\ Phases

\* The initial states satisfy the typing invariant.
LEMMA InitType == Init => TypeInv
<1> SUFFICES ASSUME Init PROVE TypeInv
  OBVIOUS
<1> USE ConstantsOK DEF Init
<1>1. TypeOK
  BY DEF TypeOK, NoEntry, NoClaim, Entry, Stored, Valid, Record, Steps, NoRec, Rec
<1>2. Phases
  BY DEF Phases, Phase, Early, Owning, Settled
<1> QED BY <1>1, <1>2 DEF TypeInv

\* What the sweep leaves of the table and of the list has their types.
LEMMA SweptType ==
    ASSUME TypeOK, NEW i \in Instance, NEW S
    PROVE  /\ Clear(entries[i], S) \in [Key -> Entry]
           /\ Unlink(lru[i], S) \in [Key -> Nat]
<1>1. NoEntry \in Entry
  BY DEF Entry, NoEntry, Valid
<1>2. entries[i] \in [Key -> Entry] /\ lru[i] \in [Key -> Nat]
  BY DEF TypeOK
<1> QED BY <1>1, <1>2, UnlinkType DEF Clear

\* The first critical section of begin() preserves the typing invariant.
LEMMA BeginType ==
    ASSUME TypeInv, NEW r \in Request, Begin(r)
    PROVE  TypeInv'
<1> DEFINE i == at[r]
<1> DEFINE k == key[r]
<1> USE ConstantsOK
<1>0. i \in Instance /\ k \in Key /\ TypeOK /\ Phases /\ pc[r] = "idle"
  BY DEF TypeInv, TypeOK, Begin
<1>1. PICK gone :
        \/ Replay(r, Clear(entries[i], gone), Unlink(lru[i], gone))
        \/ Reserve(r, Clear(entries[i], gone), Unlink(lru[i], gone))
        \/ Saturated(r, Clear(entries[i], gone), Unlink(lru[i], gone))
  BY DEF Begin
<1> DEFINE T == Clear(entries[i], gone)
<1> DEFINE q == Unlink(lru[i], gone)
<1>2. T \in [Key -> Entry] /\ q \in [Key -> Nat]
  BY <1>0, SweptType
<1>3. /\ start' = [start EXCEPT ![r] = now]
      /\ UNCHANGED <<now, redis, late, at, key, sent, crashes>>
  BY DEF Begin
<1>4. CASE Replay(r, T, q)
  <2>1. T[k].rec \in Valid
    BY <1>0, <1>2 DEF Entry
  <2>2. MoveToBack(q, k) \in [Key -> Nat]
    BY <1>0, <1>2, MoveType
  <2>3. TypeOK'
    BY <1>0, <1>2, <1>3, <1>4, <2>1, <2>2
    DEF Replay, Finish, TypeOK, Record, Steps
  <2>4. Phases'
    BY <1>0, <1>3, <1>4
    DEF Replay, Finish, TypeOK, Phases, Phase, Early, Owning, Settled
  <2> QED BY <2>3, <2>4 DEF TypeInv
<1>5. CASE Reserve(r, T, q)
  <2>1. PICK S \in SUBSET Used(T) :
          /\ entries' = [entries EXCEPT ![i] =
                [Clear(T, S) EXCEPT ![k] = [rec |-> Rec("pending", r),
                                            expires |-> now + TTL, by |-> r]]]
          /\ lru' = [lru EXCEPT ![i] = Unlink(q, S)]
    BY <1>5 DEF Reserve
  <2>2. Clear(T, S) \in [Key -> Entry] /\ Unlink(q, S) \in [Key -> Nat]
    BY <1>2, UnlinkType DEF Clear, Entry, NoEntry, Valid, NoRec, Rec
  <2>3. [rec |-> Rec("pending", r), expires |-> now + TTL, by |-> r] \in Entry
    BY <1>0 DEF Entry, Valid, Rec, TypeOK
  <2>4. /\ entries' \in [Instance -> [Key -> Entry]]
        /\ lru' \in [Instance -> [Key -> Nat]]
    BY <1>0, <2>1, <2>2, <2>3 DEF TypeOK
  <2>5. CASE Shared
    <3>1. pc' = [pc EXCEPT ![r] = "setnx"] /\ UNCHANGED <<val, claimed, claimedAt>>
      BY <1>5, <2>5 DEF Reserve, Goto
    <3>2. TypeOK'
      BY <1>0, <1>3, <2>4, <3>1 DEF TypeOK, Steps
    <3>3. Phases'
      BY <1>0, <1>3, <3>1 DEF TypeOK, Phases, Phase, Early, Owning, Settled
    <3> QED BY <3>2, <3>3 DEF TypeInv
  <2>6. CASE ~Shared
    <3>1. /\ pc' = [pc EXCEPT ![r] = "owner"] /\ UNCHANGED val
          /\ claimed' = claimed \cup {r}
          /\ claimedAt' = [claimedAt EXCEPT ![r] = now]
      BY <1>5, <2>6 DEF Reserve, Goto
    <3>2. TypeOK'
      BY <1>0, <1>3, <2>4, <3>1 DEF TypeOK, Steps
    <3>3. Phases'
      BY <1>0, <1>3, <3>1 DEF TypeOK, Phases, Phase, Early, Owning, Settled
    <3> QED BY <3>2, <3>3 DEF TypeInv
  <2> QED BY <2>5, <2>6
<1>6. CASE Saturated(r, T, q)
  <2>1. TypeOK'
    BY <1>0, <1>2, <1>3, <1>6
    DEF Saturated, Goto, Finish, TypeOK, Record, Steps
  <2>2. /\ UNCHANGED <<late, claimed>>
        /\ \/ pc' = [pc EXCEPT ![r] = "peek"] /\ UNCHANGED val
           \/ /\ pc' = [pc EXCEPT ![r] = "done"]
              /\ val' = [val EXCEPT ![r] = Unavailable]
    BY <1>3, <1>6 DEF Saturated, Goto, Finish
  <2>3. /\ pc'[r] \in {"peek", "done"} /\ r \notin late /\ r \notin claimed
        /\ \A c \in Request : c # r => pc'[c] = pc[c] /\ val'[c] = val[c]
    BY <1>0, <2>2 DEF TypeOK, Phases, Phase, Early
  <2>4. ASSUME NEW c \in Request PROVE Phase(c)'
    <3>1. CASE c = r
      BY <2>2, <2>3, <3>1 DEF Phase, Early, Owning, Settled
    <3>2. CASE c # r
      <4>1. Phase(c) /\ pc'[c] = pc[c] /\ val'[c] = val[c]
        BY <1>0, <2>3, <3>2 DEF Phases
      <4> QED BY <2>2, <4>1 DEF Phase
    <3> QED BY <3>1, <3>2
  <2>5. Phases'
    BY <2>4 DEF Phases
  <2> QED BY <2>1, <2>5 DEF TypeInv
<1> QED BY <1>1, <1>4, <1>5, <1>6

\* A step of a request that stays in the guard preserves the typing invariant.
LEMMA StepType ==
    ASSUME TypeInv, NEW r \in Request, Step(r)
    PROVE  TypeInv'
<1> USE ConstantsOK
<1>0. at[r] \in Instance /\ key[r] \in Key /\ TypeOK /\ Phases /\ val[r] \in Record
  BY DEF TypeInv, TypeOK
<1>a. CreateClaim(r) => redis' \in [Key -> Stored]
  BY <1>0 DEF CreateClaim, TypeOK, Stored, Valid, Rec
<1>b. val[r].state \in Outcomes => val[r] \in Valid
  BY <1>0 DEF Record, Unavailable, Rec, Outcomes
<1>c. StoreOutcome(r) /\ val[r].state \in Outcomes => redis' \in [Key -> Stored]
  BY <1>0, <1>b DEF StoreOutcome, TypeOK, Stored
<1>d. RemoveLocal(at[r], {key[r]})
      => /\ entries' \in [Instance -> [Key -> Entry]]
         /\ lru' \in [Instance -> [Key -> Nat]]
  BY <1>0, SweptType DEF RemoveLocal, TypeOK
<1>e. \A o \in Outcomes \cup {"pending"} : Rec(o, r) \in Valid
  BY DEF Valid, Rec
<1>f. MarkEvictable(lru[at[r]], key[r]) \in [Key -> Nat]
  BY <1>0, MarkType DEF TypeOK
<1>g. val[r] \in Valid => [entries EXCEPT ![at[r]][key[r]].rec = val[r]]
                           \in [Instance -> [Key -> Entry]]
  <2> SUFFICES ASSUME val[r] \in Valid
               PROVE  [entries EXCEPT ![at[r]][key[r]].rec = val[r]]
                      \in [Instance -> [Key -> Entry]]
    OBVIOUS
  <2>1. entries[at[r]] \in [Key -> Entry] /\ entries[at[r]][key[r]] \in Entry
    BY <1>0 DEF TypeOK
  <2>2. [entries[at[r]][key[r]] EXCEPT !.rec = val[r]] \in Entry
    BY <2>1 DEF Entry
  <2> QED BY <1>0, <2>1, <2>2 DEF TypeOK
<1>1. CASE SetNXCreated(r)
  <2>1. TypeOK'
    BY <1>0, <1>1, <1>a DEF SetNXCreated, TypeOK, Goto, Steps, local, request
  <2>2. Phases'
    BY <1>0, <1>1
    DEF SetNXCreated, TypeOK, Phases, Phase, Early, Owning, Settled, Goto, request
  <2> QED BY <2>1, <2>2 DEF TypeInv
<1>2. CASE SetNXExists(r)
  <2>1. TypeOK'
    BY <1>0, <1>2 DEF SetNXExists, TypeOK, Goto, Steps, local, store, request, history
  <2>2. Phases'
    BY <1>0, <1>2
    DEF SetNXExists, TypeOK, Phases, Phase, Early, Owning, Settled, Goto,
        store, request, history
  <2> QED BY <2>1, <2>2 DEF TypeInv
<1>3. CASE SetNXFailed(r)
  <2>1. redis' \in [Key -> Stored] /\ late' \in SUBSET Request
    BY <1>0, <1>3, <1>a DEF SetNXFailed, store, TypeOK
  <2>2. TypeOK'
    BY <1>0, <1>3, <1>d, <2>1
    DEF SetNXFailed, TypeOK, Finish, Steps, Record, request, history
  <2>3. late' \subseteq late \cup {r}
    BY <1>3 DEF SetNXFailed, store
  <2>4. Phases'
    BY <1>0, <1>3, <2>3
    DEF SetNXFailed, TypeOK, Phases, Phase, Early, Owning, Settled, Finish,
        request, history
  <2> QED BY <2>2, <2>4 DEF TypeInv
<1>4. CASE GetClaim(r)
  <2>1. redis[key[r]].rec \in Valid /\ redis[key[r]].rec # NoRec
    BY <1>0, <1>4 DEF GetClaim, Absent, TypeOK, Stored, NoRec, Rec
  <2>2. TypeOK'
    BY <1>0, <1>4, <2>1
    DEF GetClaim, TypeOK, Goto, Steps, Record, local, store, request, history
  <2>3. Phases'
    BY <1>0, <1>4, <2>1
    DEF GetClaim, TypeOK, Phases, Phase, Early, Owning, Settled, Goto,
        store, request, history
  <2> QED BY <2>2, <2>3 DEF TypeInv
<1>5. CASE GetFailed(r)
  <2>1. TypeOK'
    BY <1>0, <1>5, <1>d
    DEF GetFailed, TypeOK, Finish, Steps, Record, store, request, history
  <2>2. Phases'
    BY <1>0, <1>5
    DEF GetFailed, TypeOK, Phases, Phase, Early, Owning, Settled, Finish,
        store, request, history
  <2> QED BY <2>1, <2>2 DEF TypeInv
<1>6. CASE Install(r)
  <2>1. val[r] \in Valid /\ pc[r] = "install"
    BY <1>0, <1>6 DEF Install, Phases, Phase
  <2>2. PICK v \in Valid \cup {Unavailable} :
          /\ pc' = [pc EXCEPT ![r] = "done"]
          /\ val' = [val EXCEPT ![r] = v]
    BY <1>6, <2>1 DEF Install, Finish
  <2>3. /\ entries' \in [Instance -> [Key -> Entry]]
        /\ lru' \in [Instance -> [Key -> Nat]]
    <3>1. CASE UNCHANGED local
      BY <1>0, <3>1 DEF local, TypeOK
    <3>2. CASE RemoveLocal(at[r], {key[r]})
      BY <1>d, <3>2
    <3>3. CASE /\ entries' = [entries EXCEPT ![at[r]][key[r]].rec = val[r]]
               /\ lru' = [lru EXCEPT ![at[r]] = MarkEvictable(@, key[r])]
      BY <1>0, <1>f, <1>g, <2>1, <3>3 DEF TypeOK
    <3> QED BY <1>6, <3>1, <3>2, <3>3 DEF Install
  <2>4. TypeOK'
    BY <1>0, <1>6, <2>2, <2>3
    DEF Install, TypeOK, Steps, Record, store, request, history
  <2>5. Phases'
    BY <1>0, <1>6, <2>1, <2>2
    DEF Install, TypeOK, Phases, Phase, Early, Owning, Settled,
        store, request, history
  <2> QED BY <2>4, <2>5 DEF TypeInv
<1>7. CASE Peek(r)
  <2>1. redis[key[r]].rec \in Valid
    BY <1>0 DEF TypeOK, Stored
  <2>2. TypeOK'
    BY <1>0, <1>7, <2>1
    DEF Peek, TypeOK, Finish, Steps, Record, local, store, request, history
  <2>3. Phases'
    BY <1>0, <1>7
    DEF Peek, TypeOK, Phases, Phase, Early, Owning, Settled, Finish,
        store, request, history
  <2> QED BY <2>2, <2>3 DEF TypeInv
<1>8. CASE Contact(r)
  <2>1. r \in claimed
    BY <1>0, <1>8 DEF Contact, Phases, Phase, Owning
  <2>2. TypeOK'
    BY <1>0, <1>8, <2>1 DEF Contact, TypeOK, Goto, Steps, local, store, request
  <2>3. Phases'
    BY <1>0, <1>8
    DEF Contact, TypeOK, Phases, Phase, Early, Owning, Settled, Goto, store, request
  <2> QED BY <2>2, <2>3 DEF TypeInv
<1>9. CASE NoEndpoint(r) \/ Answer(r)
  <2>1. PICK o \in Outcomes : val' = [val EXCEPT ![r] = Rec(o, r)]
    BY <1>9 DEF NoEndpoint, Answer, Outcomes
  <2>2. /\ pc[r] \in {"owner", "sent"} /\ pc' = [pc EXCEPT ![r] = "complete"]
        /\ UNCHANGED <<now, local, store, request, history, crashes>>
    BY <1>9 DEF NoEndpoint, Answer, Goto
  <2>3. TypeOK'
    BY <1>0, <1>e, <2>1, <2>2
    DEF TypeOK, Steps, Record, local, store, request, history
  <2>4. Rec(o, r).state = o
    BY DEF Rec
  <2>5. Phases'
    BY <1>0, <2>1, <2>2, <2>4
    DEF TypeOK, Phases, Phase, Early, Owning, Settled, store, request, history
  <2> QED BY <2>3, <2>5 DEF TypeInv
<1>10. CASE CompleteLocal(r)
  <2>1. val[r] \in Valid
    BY <1>0, <1>10, <1>b DEF CompleteLocal, Phases, Phase, Settled
  <2>2. PICK step \in {"done", "persist"} : pc' = [pc EXCEPT ![r] = step]
    BY <1>10 DEF CompleteLocal, Goto
  <2>3. /\ entries' \in [Instance -> [Key -> Entry]]
        /\ lru' \in [Instance -> [Key -> Nat]]
    <3>1. CASE UNCHANGED local
      BY <1>0, <3>1 DEF local, TypeOK
    <3>2. CASE /\ entries' = [entries EXCEPT ![at[r]][key[r]].rec = val[r]]
               /\ lru' = IF ~Shared /\ val[r].state = "rejected"
                         THEN [lru EXCEPT ![at[r]] = MarkEvictable(@, key[r])]
                         ELSE lru
      BY <1>0, <1>f, <1>g, <2>1, <3>2 DEF TypeOK
    <3> QED BY <1>10, <3>1, <3>2 DEF CompleteLocal
  <2>4. /\ UNCHANGED <<now, store, request, val, history, crashes>>
        /\ pc[r] = "complete"
    BY <1>10 DEF CompleteLocal
  <2>5. TypeOK'
    BY <1>0, <2>2, <2>3, <2>4 DEF TypeOK, Steps, store, request, history
  <2>6. Phases'
    BY <1>0, <2>2, <2>4
    DEF TypeOK, Phases, Phase, Early, Owning, Settled, store, request, history
  <2> QED BY <2>5, <2>6 DEF TypeInv
<1>11. CASE PersistOk(r) \/ PersistFailed(r)
  <2>1. val[r].state \in Outcomes /\ pc[r] = "persist"
    BY <1>0, <1>11 DEF PersistOk, PersistFailed, Phases, Phase, Settled
  <2>2. PICK step \in {"markOk", "markErr"} : pc' = [pc EXCEPT ![r] = step]
    BY <1>11 DEF PersistOk, PersistFailed, Goto
  <2>3. redis' \in [Key -> Stored] /\ late' \in SUBSET Request
    BY <1>0, <1>11, <1>c, <2>1 DEF PersistOk, PersistFailed, store, TypeOK
  <2>4. UNCHANGED <<now, local, request, val, history, crashes>>
    BY <1>11 DEF PersistOk, PersistFailed
  <2>5. TypeOK'
    BY <1>0, <2>2, <2>3, <2>4 DEF TypeOK, Steps, local, request, history
  <2>6. \/ late' = late
        \/ late' = late \cup {r} /\ pc'[r] = "markErr"
    <3>1. CASE PersistOk(r)
      BY <3>1 DEF PersistOk
    <3>2. CASE PersistFailed(r)
      BY <1>0, <3>2 DEF PersistFailed, Goto, store, TypeOK
    <3> QED BY <1>11, <3>1, <3>2
  <2>7. Phases'
    BY <1>0, <2>1, <2>2, <2>4, <2>6
    DEF TypeOK, Phases, Phase, Early, Owning, Settled, request, history
  <2> QED BY <2>5, <2>7 DEF TypeInv
<1>12. CASE Mark(r)
  <2>1. lru' \in [Instance -> [Key -> Nat]]
    BY <1>0, <1>12, <1>f DEF Mark, TypeOK
  <2>2. TypeOK'
    BY <1>0, <1>12, <2>1 DEF Mark, TypeOK, Goto, Steps, store, request, history
  <2>3. Phases'
    BY <1>0, <1>12
    DEF Mark, TypeOK, Phases, Phase, Early, Owning, Settled, Goto,
        store, request, history
  <2> QED BY <2>2, <2>3 DEF TypeInv
<1> QED
  BY <1>1, <1>2, <1>3, <1>4, <1>5, <1>6, <1>7, <1>8, <1>9, <1>10, <1>11, <1>12
  DEF Step

\* What time, Redis and crashes do preserves the typing invariant.
LEMMA EnvironmentType ==
    ASSUME TypeInv,
           \/ \E r \in Request : DeliverLate(r) \/ LoseLate(r)
           \/ Tick
           \/ \E i \in Instance : Crash(i)
    PROVE  TypeInv'
<1> USE ConstantsOK
<1>0. TypeOK /\ Phases
  BY DEF TypeInv
<1>1. ASSUME NEW r \in Request, DeliverLate(r) PROVE TypeInv'
  <2>1. key[r] \in Key /\ r \in late /\ val[r] \in Record
    BY <1>0, <1>1 DEF DeliverLate, TypeOK
  <2>2. CreateClaim(r) => redis' \in [Key -> Stored]
    BY <1>0, <2>1 DEF CreateClaim, TypeOK, Stored, Valid, Rec
  <2>3. r \in claimed => val[r] \in Valid
    BY <1>0, <2>1 DEF Phases, Phase, Record, Unavailable, Rec, Outcomes
  <2>4. r \in claimed /\ StoreOutcome(r) => redis' \in [Key -> Stored]
    BY <1>0, <2>1, <2>3 DEF StoreOutcome, TypeOK, Stored
  <2>5. redis' \in [Key -> Stored]
    BY <1>0, <1>1, <2>2, <2>4 DEF DeliverLate, TypeOK
  <2>6. TypeOK'
    BY <1>0, <1>1, <2>5 DEF DeliverLate, TypeOK, local, request, history
  <2>7. Phases'
    BY <1>0, <1>1
    DEF DeliverLate, TypeOK, Phases, Phase, Early, Owning, Settled, request, history
  <2> QED BY <2>6, <2>7 DEF TypeInv
<1>2. ASSUME NEW r \in Request, LoseLate(r) PROVE TypeInv'
  <2>1. TypeOK'
    BY <1>0, <1>2 DEF LoseLate, TypeOK, local, request, history
  <2>2. Phases'
    BY <1>0, <1>2
    DEF LoseLate, TypeOK, Phases, Phase, Early, Owning, Settled, request, history
  <2> QED BY <2>1, <2>2 DEF TypeInv
<1>3. CASE Tick
  <2>1. NoClaim \in Stored
    BY DEF NoClaim, Stored, Valid
  <2>2. redis' \in [Key -> Stored]
    BY <1>0, <1>3, <2>1 DEF Tick, TypeOK
  <2>3. TypeOK'
    BY <1>0, <1>3, <2>2 DEF Tick, TypeOK, local, request, history
  <2>4. Phases'
    BY <1>0, <1>3
    DEF Tick, TypeOK, Phases, Phase, Early, Owning, Settled, request, history
  <2> QED BY <2>3, <2>4 DEF TypeInv
<1>4. ASSUME NEW i \in Instance, Crash(i) PROVE TypeInv'
  <2> DEFINE dead == {r \in Request : at[r] = i /\ InFlight(r)}
  <2>1. NoEntry \in Entry
    BY DEF Entry, NoEntry, Valid
  <2>2. pc' = [r \in Request |-> IF r \in dead THEN "crashed" ELSE pc[r]]
    BY <1>4 DEF Crash
  <2>3. PICK S \in SUBSET {r \in dead : pc[r] \in {"setnx", "persist"}} :
          late' = late \cup S
    BY <1>4 DEF Crash
  <2>4. TypeOK'
    BY <1>0, <1>4, <2>1, <2>2, <2>3 DEF Crash, TypeOK, Steps, request, history
  <2>5. Phases'
    BY <1>0, <1>4, <2>2, <2>3
    DEF Crash, TypeOK, Phases, Phase, Early, Owning, Settled, request, history
  <2> QED BY <2>4, <2>5 DEF TypeInv
<1> QED BY <1>1, <1>2, <1>3, <1>4

\* Every reachable state of the guard is well typed, and each record it caches,
\* stores or returns is one that validBroadcastRecord accepts.
THEOREM TypeCorrect == Spec => [](TypeOK /\ Phases)
<1>1. TypeInv /\ [Next]_vars => TypeInv'
  <2> SUFFICES ASSUME TypeInv, [Next]_vars PROVE TypeInv'
    OBVIOUS
  <2>1. CASE UNCHANGED vars
    BY <2>1 DEF vars, TypeInv, TypeOK, Phases, Phase
  <2>2. CASE Next
    BY <2>2, BeginType, StepType, EnvironmentType DEF Next
  <2> QED BY <2>1, <2>2
<1> QED BY InitType, <1>1, PTL DEF Spec, TypeInv
-----------------------------------------------------------------------------
(* One owner per payload and window.                                        *)

\* No request outlives its budget, and it owns its claim from a time at which
\* it was already being served.
Due(r) == /\ InFlight(r) => start[r] <= now /\ now <= start[r] + Budget
          /\ r \in claimed => claimedAt[r] <= now
          /\ r \in claimed /\ InFlight(r) => start[r] <= claimedAt[r]

Timely == \A r \in Request : Due(r)

\* Without a shared store no request waits for one.
LocalSteps == {"idle", "owner", "sent", "complete", "done", "crashed"}
Modal      == ~Shared => late = {} /\ \A r \in Request : pc[r] \in LocalSteps

\* A key that is in the list is in the table.
Listed == \A i \in Instance, k \in Key :
            lru[i][k] > 0 => entries[i][k].rec.state # "none"

Base == TypeInv /\ Timely /\ Modal /\ Listed

Live(c)       == c \in claimed /\ now < claimedAt[c] + TTL
Remembered(c) == /\ redis[key[c]].rec.state # "none"
                 /\ redis[key[c]].expires >= claimedAt[c] + TTL
Pinned(c)     == /\ entries[at[c]][key[c]].rec.state # "none"
                 /\ entries[at[c]][key[c]].expires >= claimedAt[c] + TTL
                 /\ entries[at[c]][key[c]].by = c
                 /\ lru[at[c]][key[c]] = 0

\* A live claim is remembered where the next begin() will look: in Redis, or
\* in a record of the only process that cannot be evicted.
SharedClaims == Shared => \A c \in Request : Live(c) => Remembered(c)
LocalClaims  ==
    ~Shared /\ crashes = 0 =>
        \A c \in Request :
            Live(c) /\ (val[c].state # "rejected" \/ InFlight(c)) => Pinned(c)

ClaimInv == Base /\ SharedClaims /\ LocalClaims /\ OncePerWindow

\* The initial states satisfy the inductive invariant.
LEMMA InitClaims == Init => ClaimInv
<1> SUFFICES ASSUME Init PROVE ClaimInv
  OBVIOUS
<1>1. TypeInv
  BY InitType
<1> USE DEF Init
<1>2. Timely /\ Modal /\ Listed
  BY ConstantsOK DEF Timely, Due, InFlight, Modal, LocalSteps, Listed
<1>3. SharedClaims /\ LocalClaims /\ OncePerWindow
  BY DEF SharedClaims, LocalClaims, OncePerWindow, Live
<1> QED BY <1>1, <1>2, <1>3 DEF ClaimInv, Base

\* Every step keeps requests within their budget.
LEMMA TimelyStep ==
    ASSUME TypeInv, Timely, Next
    PROVE  Timely'
<1> USE ConstantsOK
<1>0. TypeOK /\ Phases /\ now \in Nat
  BY DEF TypeInv, TypeOK
<1>1. ASSUME NEW r \in Request, Begin(r) PROVE Timely'
  <2>1. /\ pc[r] = "idle" /\ r \notin claimed
        /\ start' = [start EXCEPT ![r] = now] /\ now' = now
    BY <1>0, <1>1 DEF Begin, Phases, Phase, Early
  <2>2. \/ UNCHANGED <<claimed, claimedAt>>
        \/ claimed' = claimed \cup {r} /\ claimedAt' = [claimedAt EXCEPT ![r] = now]
    BY <1>1 DEF Begin, Replay, Reserve, Saturated
  <2>3. \A s \in Request : s # r => pc'[s] = pc[s]
    BY <1>0, <1>1 DEF Begin, Replay, Reserve, Saturated, Finish, Goto, TypeOK
  <2>4. ASSUME NEW s \in Request, s # r PROVE Due(s)'
    <3>1. Due(s) /\ (s \in claimed' <=> s \in claimed) /\ pc'[s] = pc[s]
      BY <2>2, <2>3, <2>4 DEF Timely
    <3>2. claimedAt'[s] = claimedAt[s] /\ start'[s] = start[s]
      BY <1>0, <2>1, <2>2, <2>4 DEF TypeOK
    <3> QED BY <2>1, <3>1, <3>2 DEF Due, InFlight
  <2>5. Due(r)'
    <3>1. start'[r] = now /\ now' = now /\ now <= now + Budget
      BY <1>0, <2>1 DEF TypeOK
    <3>2. r \in claimed' => claimedAt'[r] = now
      BY <1>0, <2>1, <2>2 DEF TypeOK
    <3> QED BY <1>0, <3>1, <3>2 DEF Due
  <2> QED BY <2>4, <2>5 DEF Timely
<1>2. ASSUME NEW r \in Request, Step(r) PROVE Timely'
  <2>1. now' = now /\ start' = start /\ InFlight(r)
    BY <1>2
    DEF Step, SetNXCreated, SetNXExists, SetNXFailed, GetClaim, GetFailed, Install,
        Peek, Contact, NoEndpoint, Answer, CompleteLocal, PersistOk, PersistFailed,
        Mark, InFlight, request
  <2>2. \A s \in Request : s # r => pc'[s] = pc[s]
    BY <1>0, <1>2
    DEF Step, SetNXCreated, SetNXExists, SetNXFailed, GetClaim, GetFailed, Install,
        Peek, Contact, NoEndpoint, Answer, CompleteLocal, PersistOk, PersistFailed,
        Mark, Goto, Finish, TypeOK
  <2>3. \/ UNCHANGED <<claimed, claimedAt>>
        \/ claimed' = claimed \cup {r} /\ claimedAt' = [claimedAt EXCEPT ![r] = now]
    BY <1>2
    DEF Step, SetNXCreated, SetNXExists, SetNXFailed, GetClaim, GetFailed, Install,
        Peek, Contact, NoEndpoint, Answer, CompleteLocal, PersistOk, PersistFailed,
        Mark, history
  <2>4. ASSUME NEW s \in Request, s # r PROVE Due(s)'
    <3>1. Due(s) /\ (s \in claimed' <=> s \in claimed) /\ pc'[s] = pc[s]
      BY <2>2, <2>3, <2>4 DEF Timely
    <3>2. claimedAt'[s] = claimedAt[s] /\ start'[s] = start[s] /\ now' = now
      BY <1>0, <2>1, <2>3, <2>4 DEF TypeOK
    <3> QED BY <3>1, <3>2 DEF Due, InFlight
  <2>5. Due(r)'
    <3>1. /\ Due(r) /\ InFlight(r) /\ start[r] \in Nat
          /\ start'[r] = start[r] /\ now' = now
      BY <1>0, <2>1 DEF Timely, TypeOK
    <3>2. \/ claimedAt'[r] = now
          \/ claimedAt'[r] = claimedAt[r] /\ (r \in claimed' <=> r \in claimed)
      BY <1>0, <2>3 DEF TypeOK
    <3> QED BY <1>0, <3>1, <3>2 DEF Due
  <2> QED BY <2>4, <2>5 DEF Timely
<1>3. ASSUME NEW r \in Request, DeliverLate(r) \/ LoseLate(r) PROVE Timely'
  BY <1>3 DEF DeliverLate, LoseLate, Timely, Due, InFlight, request, history
<1>4. CASE Tick
  BY <1>0, <1>4 DEF Tick, Timely, Due, TypeOK, InFlight, request, history
<1>5. ASSUME NEW i \in Instance, Crash(i) PROVE Timely'
  BY <1>0, <1>5 DEF Crash, Timely, Due, TypeOK, InFlight, request, history
<1> QED BY <1>1, <1>2, <1>3, <1>4, <1>5 DEF Next

\* Every step keeps a process without a shared store away from it.
LEMMA ModalStep ==
    ASSUME TypeInv, Modal, Next
    PROVE  Modal'
<1> SUFFICES ASSUME ~Shared
             PROVE  late' = {} /\ \A r \in Request : pc'[r] \in LocalSteps
  BY DEF Modal
<1> USE DEF Modal, LocalSteps
<1>0. pc \in [Request -> Steps]
  BY DEF TypeInv, TypeOK
<1>1. ASSUME NEW r \in Request, Begin(r)
      PROVE  late' = {} /\ \A x \in Request : pc'[x] \in LocalSteps
  BY <1>0, <1>1 DEF Begin, Replay, Reserve, Saturated, Finish, Goto
<1>2. ASSUME NEW r \in Request, Step(r)
      PROVE  late' = {} /\ \A x \in Request : pc'[x] \in LocalSteps
  BY <1>0, <1>2
  DEF Step, SetNXCreated, SetNXExists, SetNXFailed, GetClaim, GetFailed, Install,
      Peek, Contact, NoEndpoint, Answer, CompleteLocal, PersistOk, PersistFailed,
      Mark, Goto, store
<1>3. ASSUME NEW r \in Request, DeliverLate(r) \/ LoseLate(r)
      PROVE  late' = {} /\ \A x \in Request : pc'[x] \in LocalSteps
  BY <1>3 DEF DeliverLate, LoseLate
<1>4. ASSUME Tick
      PROVE  late' = {} /\ \A x \in Request : pc'[x] \in LocalSteps
  BY <1>4 DEF Tick
<1>5. ASSUME NEW i \in Instance, Crash(i)
      PROVE  late' = {} /\ \A x \in Request : pc'[x] \in LocalSteps
  BY <1>0, <1>5 DEF Crash
<1> QED BY <1>1, <1>2, <1>3, <1>4, <1>5 DEF Next

\* A key out of the list stays out when other keys leave it or move.
LEMMA OutStaysOut ==
    ASSUME NEW q \in [Key -> Nat], NEW S, NEW k \in Key
    PROVE  /\ Unlink(q, S)[k] # 0 => q[k] # 0 /\ k \notin S
           /\ MoveToBack(q, k) = q \/ q[k] # 0
           /\ \A y \in Key : MoveToBack(q, k)[y] # 0 => q[y] # 0
           /\ \A y \in Key : MarkEvictable(q, k)[y] # 0 => q[y] # 0 \/ y = k
<1>1. \A X : Unlink(q, X)[k] # 0 => q[k] # 0 /\ k \notin X
  BY DEF Unlink
<1>2. MoveToBack(q, k) = q \/ q[k] # 0
  BY DEF MoveToBack, Linked
<1>3. ASSUME NEW y \in Key, MoveToBack(q, k)[y] # 0
      PROVE  q[y] # 0
  <2>1. Unlink(q, {k}) \in [Key -> Nat]
    BY UnlinkType
  <2>2. y # k /\ q[k] # 0 => Unlink(q, {k})[y] # 0
    BY <1>3, <2>1 DEF MoveToBack, PushBack, Linked
  <2>3. y # k /\ q[k] # 0 => q[y] # 0
    BY <2>2 DEF Unlink
  <2> QED BY <1>2, <1>3, <2>3
<1>4. \A y \in Key : MarkEvictable(q, k)[y] # 0 => q[y] # 0 \/ y = k
  BY DEF MarkEvictable, PushBack
<1> QED BY <1>1, <1>2, <1>3, <1>4

\* The table and the list of one process.
ListedIn(T, q) == \A k \in Key : q[k] > 0 => T[k].rec.state # "none"

\* Taking keys out of the table and the list together keeps them in step.
LEMMA ClearListed ==
    ASSUME NEW T \in [Key -> Entry], NEW q \in [Key -> Nat], NEW S, ListedIn(T, q)
    PROVE  ListedIn(Clear(T, S), Unlink(q, S))
<1>1. Unlink(q, S) \in [Key -> Nat]
  BY UnlinkType
<1>2. \A k \in Key : Unlink(q, S)[k] > 0 => q[k] > 0 /\ k \notin S
  BY <1>1 DEF Unlink
<1> QED BY <1>2 DEF ListedIn, Clear

\* Every step keeps the table and the list in step.
LEMMA ListedStep ==
    ASSUME TypeInv, Listed, Next
    PROVE  Listed'
<1> USE ConstantsOK
<1>0. TypeOK /\ Phases
  BY DEF TypeInv
<1>a. \A i \in Instance :
        entries[i] \in [Key -> Entry] /\ lru[i] \in [Key -> Nat] /\ ListedIn(entries[i], lru[i])
  BY <1>0 DEF TypeOK, Listed, ListedIn
<1>b. SUFFICES \A i \in Instance : ListedIn(entries'[i], lru'[i])
  BY DEF Listed, ListedIn
<1>1. ASSUME NEW r \in Request, Begin(r)
      PROVE  \A i \in Instance : ListedIn(entries'[i], lru'[i])
  <2> DEFINE i == at[r]
  <2> DEFINE k == key[r]
  <2>0. i \in Instance /\ k \in Key
    BY <1>0 DEF TypeOK
  <2>1. PICK gone :
          \/ Replay(r, Clear(entries[i], gone), Unlink(lru[i], gone))
          \/ Reserve(r, Clear(entries[i], gone), Unlink(lru[i], gone))
          \/ Saturated(r, Clear(entries[i], gone), Unlink(lru[i], gone))
    BY <1>1 DEF Begin
  <2> DEFINE T == Clear(entries[i], gone)
  <2> DEFINE q == Unlink(lru[i], gone)
  <2>2. T \in [Key -> Entry] /\ q \in [Key -> Nat] /\ ListedIn(T, q)
    BY <1>0, <1>a, <2>0, SweptType, ClearListed
  <2> HIDE DEF T, q
  <2>3. CASE Replay(r, T, q)
    <3>1. ListedIn(T, MoveToBack(q, k))
      <4>1. \A y \in Key : MoveToBack(q, k)[y] # 0 => q[y] # 0
        BY <2>0, <2>2, OutStaysOut
      <4>2. MoveToBack(q, k) \in [Key -> Nat]
        BY <2>0, <2>2, MoveType
      <4> QED BY <2>2, <4>1, <4>2 DEF ListedIn
    <3> QED BY <1>0, <1>a, <2>0, <2>3, <3>1 DEF Replay, TypeOK
  <2>4. CASE Reserve(r, T, q)
    <3>1. PICK S :
            /\ entries' = [entries EXCEPT ![i] =
                  [Clear(T, S) EXCEPT ![k] = [rec |-> Rec("pending", r),
                                              expires |-> now + TTL, by |-> r]]]
            /\ lru' = [lru EXCEPT ![i] = Unlink(q, S)]
      BY <2>4 DEF Reserve
    <3>2. ListedIn(Clear(T, S), Unlink(q, S))
      BY <2>2, ClearListed
    <3>3. ListedIn([Clear(T, S) EXCEPT ![k] = [rec |-> Rec("pending", r),
                                              expires |-> now + TTL, by |-> r]],
                   Unlink(q, S))
      BY <2>0, <3>2 DEF ListedIn, Rec, Clear
    <3> QED BY <1>0, <1>a, <2>0, <3>1, <3>3 DEF TypeOK
  <2>5. CASE Saturated(r, T, q)
    BY <1>0, <1>a, <2>0, <2>2, <2>5 DEF Saturated, TypeOK
  <2> QED BY <2>1, <2>3, <2>4, <2>5 DEF T, q
<1>2. ASSUME NEW r \in Request, Step(r)
      PROVE  \A i \in Instance : ListedIn(entries'[i], lru'[i])
  <2> DEFINE i == at[r]
  <2> DEFINE k == key[r]
  <2> DEFINE marked == MarkEvictable(lru[i], k)
  <2>0. i \in Instance /\ k \in Key
    BY <1>0 DEF TypeOK
  <2>1. CASE UNCHANGED local
    BY <1>a, <2>1 DEF local
  <2>2. CASE RemoveLocal(i, {k})
    BY <1>0, <1>a, <2>0, <2>2, ClearListed DEF RemoveLocal, TypeOK
  <2>3. ASSUME entries[i][k].rec.state # "none"
        PROVE  ListedIn(entries[i], marked)
    <3>1. \A y \in Key : marked[y] # 0 => lru[i][y] # 0 \/ y = k
      BY <1>a, <2>0, OutStaysOut
    <3>2. marked \in [Key -> Nat]
      BY <1>a, <2>0, MarkType
    <3> QED BY <1>a, <2>0, <2>3, <3>1, <3>2 DEF ListedIn
  <2>4. CASE Install(r) \/ CompleteLocal(r)
    <3>1. val[r].state # "none"
      BY <1>0, <2>4
      DEF Install, CompleteLocal, Phases, Phase, Settled, Valid, Rec, NoRec, Outcomes
    <3>2. CASE /\ entries[i][k].rec.state # "none"
               /\ entries' = [entries EXCEPT ![i][k].rec = val[r]]
               /\ \/ lru' = [lru EXCEPT ![i] = marked]
                  \/ lru' = lru
      <4>1. \A j \in Instance, x \in Key :
              entries[j][x].rec.state # "none" => entries'[j][x].rec.state # "none"
        BY <1>0, <2>0, <3>1, <3>2 DEF TypeOK, Entry
      <4>2. \A j \in Instance : ListedIn(entries[j], lru'[j])
        BY <1>0, <1>a, <2>0, <2>3, <3>2 DEF TypeOK
      <4> QED BY <4>1, <4>2 DEF ListedIn
    <3> QED BY <2>1, <2>2, <2>4, <3>2 DEF Install, CompleteLocal
  <2>5. CASE Mark(r)
    BY <1>0, <1>a, <2>0, <2>3, <2>5 DEF Mark, TypeOK
  <2>6. CASE SetNXFailed(r) \/ GetFailed(r)
    BY <2>2, <2>6 DEF SetNXFailed, GetFailed
  <2>7. CASE \/ SetNXCreated(r) \/ SetNXExists(r) \/ GetClaim(r) \/ Peek(r)
             \/ Contact(r) \/ NoEndpoint(r) \/ Answer(r)
             \/ PersistOk(r) \/ PersistFailed(r)
    BY <2>1, <2>7
    DEF SetNXCreated, SetNXExists, GetClaim, Peek, Contact, NoEndpoint, Answer,
        PersistOk, PersistFailed, local
  <2> QED BY <1>2, <2>4, <2>5, <2>6, <2>7 DEF Step
<1>3. CASE Tick \/ \E r \in Request : DeliverLate(r) \/ LoseLate(r)
  BY <1>3, <1>a DEF Tick, DeliverLate, LoseLate, local
<1>4. ASSUME NEW i \in Instance, Crash(i)
      PROVE  \A j \in Instance : ListedIn(entries'[j], lru'[j])
  BY <1>0, <1>4, <1>a DEF Crash, ListedIn, TypeOK
<1> QED BY <1>1, <1>2, <1>3, <1>4 DEF Next

\* With a shared store, every live claim stays remembered there.
LEMMA SharedStep ==
    ASSUME Base, SharedClaims, Next, Shared
    PROVE  SharedClaims'
<1> USE ConstantsOK
<1>0. TypeOK /\ Phases /\ Timely
  BY DEF Base, TypeInv
<1>a. now \in Nat /\ \A c \in Request :
        key[c] \in Key /\ claimedAt[c] \in Nat /\ redis[key[c]].expires \in Nat
  BY <1>0 DEF TypeOK, Stored
<1>b. \A c \in Request : Live(c) => Remembered(c)
  BY DEF SharedClaims
<1>c. SUFFICES \A c \in Request : Live(c)' => Remembered(c)'
  BY DEF SharedClaims
<1>d. ASSUME NEW r \in Request, Absent(key[r]), CreateClaim(r), key' = key,
             NEW c \in Request, Live(c)
      PROVE  redis'[key[c]] = redis[key[c]]
  BY <1>0, <1>b, <1>d DEF CreateClaim, Absent, Remembered, TypeOK
<1>e. ASSUME NEW r \in Request, val[r].state \in Outcomes, StoreOutcome(r),
             NEW c \in Request, Live(c)
      PROVE  /\ redis'[key[c]].rec.state # "none"
             /\ redis'[key[c]].expires >= claimedAt[c] + TTL
  <2>1. claimedAt[c] <= now
    BY <1>0, <1>e DEF Live, Timely, Due
  <2>2. CASE key[c] = key[r]
    BY <1>0, <1>a, <1>e, <2>1, <2>2 DEF StoreOutcome, TypeOK, Outcomes
  <2>3. CASE key[c] # key[r]
    BY <1>0, <1>b, <1>e, <2>3 DEF StoreOutcome, Remembered, TypeOK
  <2> QED BY <2>2, <2>3
<1>1. ASSUME NEW r \in Request, SetNXCreated(r), NEW c \in Request, Live(c)'
      PROVE  Remembered(c)'
  <2>1. CASE c = r
    BY <1>0, <1>a, <1>1, <2>1
    DEF SetNXCreated, CreateClaim, Remembered, TypeOK, Rec, request
  <2>2. CASE c # r
    <3>1. Live(c)
      BY <1>0, <1>1, <2>2 DEF SetNXCreated, Live, TypeOK
    <3> QED BY <1>0, <1>1, <1>b, <1>d, <2>2, <3>1
        DEF SetNXCreated, Remembered, TypeOK, request
  <2> QED BY <2>1, <2>2
<1>2. ASSUME NEW r \in Request, SetNXFailed(r), NEW c \in Request, Live(c)'
      PROVE  Remembered(c)'
  <2>1. Live(c)
    BY <1>2 DEF SetNXFailed, Live, request, history
  <2>2. redis'[key[c]] = redis[key[c]]
    BY <1>2, <1>d, <2>1 DEF SetNXFailed, store, request
  <2> QED BY <1>2, <1>b, <2>1, <2>2 DEF SetNXFailed, Remembered, request, history
<1>3. ASSUME NEW r \in Request, PersistOk(r) \/ PersistFailed(r),
             NEW c \in Request, Live(c)'
      PROVE  Remembered(c)'
  <2>1. Live(c) /\ UNCHANGED <<key, claimedAt>>
    BY <1>3 DEF PersistOk, PersistFailed, Live, request, history
  <2>2. val[r].state \in Outcomes
    BY <1>0, <1>3 DEF PersistOk, PersistFailed, Phases, Phase, Settled
  <2>3. CASE StoreOutcome(r)
    BY <1>e, <2>1, <2>2, <2>3 DEF Remembered
  <2>4. CASE redis' = redis
    BY <1>b, <2>1, <2>4 DEF Remembered
  <2> QED BY <1>3, <2>3, <2>4 DEF PersistOk, PersistFailed, store
<1>4. ASSUME NEW r \in Request, DeliverLate(r), NEW c \in Request, Live(c)'
      PROVE  Remembered(c)'
  <2>1. Live(c) /\ UNCHANGED <<key, claimedAt>>
    BY <1>4 DEF DeliverLate, Live, request, history
  <2>2. CASE StoreOutcome(r) /\ r \in claimed
    <3>1. val[r].state \in Outcomes
      BY <1>0, <1>4, <2>2 DEF DeliverLate, Phases, Phase
    <3> QED BY <1>e, <2>1, <2>2, <3>1 DEF Remembered
  <2>3. CASE Absent(key[r]) /\ CreateClaim(r)
    BY <1>b, <1>d, <2>1, <2>3 DEF Remembered
  <2>4. CASE redis' = redis
    BY <1>b, <2>1, <2>4 DEF Remembered
  <2> QED BY <1>4, <2>2, <2>3, <2>4 DEF DeliverLate
<1>5. ASSUME Tick, NEW c \in Request, Live(c)'
      PROVE  Remembered(c)'
  <2>1. Live(c) /\ now + 1 < claimedAt[c] + TTL /\ UNCHANGED <<key, claimedAt>>
    BY <1>0, <1>a, <1>5 DEF Tick, Live, request, history
  <2>2. redis'[key[c]] = redis[key[c]]
    BY <1>0, <1>a, <1>b, <1>5, <2>1 DEF Tick, Remembered, TypeOK
  <2> QED BY <1>b, <2>1, <2>2 DEF Remembered
<1>6. ASSUME UNCHANGED <<now, redis, key, claimed, claimedAt>>,
             NEW c \in Request, Live(c)'
      PROVE  Remembered(c)'
  BY <1>6, <1>b DEF Live, Remembered
<1>7. ASSUME NEW r \in Request, Begin(r)
      PROVE  UNCHANGED <<now, redis, key, claimed, claimedAt>>
  BY <1>7 DEF Begin, Replay, Reserve, Saturated
<1>8. ASSUME NEW r \in Request, Step(r),
             ~SetNXCreated(r), ~SetNXFailed(r), ~PersistOk(r), ~PersistFailed(r)
      PROVE  UNCHANGED <<now, redis, key, claimed, claimedAt>>
  BY <1>8
  DEF Step, SetNXExists, GetClaim, GetFailed, Install, Peek, Contact, NoEndpoint,
      Answer, CompleteLocal, Mark, store, request, history
<1>9. ASSUME NEW r \in Request, LoseLate(r)
      PROVE  UNCHANGED <<now, redis, key, claimed, claimedAt>>
  BY <1>9 DEF LoseLate, request, history
<1>10. ASSUME NEW i \in Instance, Crash(i)
       PROVE  UNCHANGED <<now, redis, key, claimed, claimedAt>>
  BY <1>10 DEF Crash, request, history
<1> QED BY <1>1, <1>2, <1>3, <1>4, <1>5, <1>6, <1>7, <1>8, <1>9, <1>10 DEF Next

\* Without a shared store, every live claim that was not rejected stays pinned.
LEMMA LocalStep ==
    ASSUME Base, LocalClaims, Next, ~Shared
    PROVE  LocalClaims'
<1> USE ConstantsOK
<1>0. TypeOK /\ Phases /\ Timely /\ Modal /\ Listed
  BY DEF Base, TypeInv
<1>a. /\ now \in Nat
      /\ \A c \in Request : /\ key[c] \in Key /\ at[c] \in Instance
                             /\ claimedAt[c] \in Nat /\ start[c] \in Nat
                             /\ entries[at[c]][key[c]].expires \in Nat
  BY <1>0 DEF TypeOK, Entry
<1> DEFINE Held(c) == Live(c) /\ (val[c].state # "rejected" \/ InFlight(c))
<1>b. SUFFICES ASSUME crashes' = 0 PROVE \A c \in Request : Held(c)' => Pinned(c)'
  BY DEF LocalClaims
<1>c. crashes = 0 \/ \E i \in Instance : Crash(i)
  BY <1>b
  DEF Next, Begin, Step, SetNXCreated, SetNXExists, SetNXFailed, GetClaim, GetFailed,
      Install, Peek, Contact, NoEndpoint, Answer, CompleteLocal, PersistOk,
      PersistFailed, Mark, DeliverLate, LoseLate, Tick
<1>d. ~ \E i \in Instance : Crash(i)
  BY <1>0, <1>b DEF Crash, TypeOK
<1>e. \A c \in Request : Held(c) => Pinned(c)
  BY <1>c, <1>d DEF LocalClaims
<1>1. ASSUME NEW r \in Request, Begin(r), NEW c \in Request, Held(c)'
      PROVE  Pinned(c)'
  <2> DEFINE i == at[r]
  <2> DEFINE k == key[r]
  <2>0. i \in Instance /\ k \in Key /\ at[c] = i /\ pc[r] = "idle" /\ r \notin claimed
    BY <1>0, <1>a, <1>1 DEF Begin, Phases, Phase, Early
  <2>1. PICK S \in SweepSets(entries[i]) :
          LET gone == S \cup ({k} \cap Expired(entries[i])) IN
          \/ Replay(r, Clear(entries[i], gone), Unlink(lru[i], gone))
          \/ Reserve(r, Clear(entries[i], gone), Unlink(lru[i], gone))
          \/ Saturated(r, Clear(entries[i], gone), Unlink(lru[i], gone))
    BY <1>1 DEF Begin
  <2> DEFINE gone == S \cup ({k} \cap Expired(entries[i]))
  <2> DEFINE T == Clear(entries[i], gone)
  <2> DEFINE q == Unlink(lru[i], gone)
  <2>2. gone \subseteq Expired(entries[i])
    BY DEF SweepSets
  <2>3. T \in [Key -> Entry] /\ q \in [Key -> Nat] /\ ListedIn(T, q)
    <3>1. /\ entries[i] \in [Key -> Entry] /\ lru[i] \in [Key -> Nat]
          /\ ListedIn(entries[i], lru[i])
      BY <1>0, <2>0 DEF ListedIn, TypeOK, Listed
    <3> QED BY <1>0, <2>0, <3>1, SweptType, ClearListed
  <2>4. UNCHANGED <<now, at, key>>
    BY <1>1 DEF Begin
  <2>5. ASSUME c # r
        PROVE  /\ Held(c)
               /\ T[key[c]] = entries[i][key[c]]
               /\ q[key[c]] = 0
    <3>1. claimed' \subseteq claimed \cup {r} /\ claimedAt'[c] = claimedAt[c]
      BY <1>0, <1>1, <2>1, <2>5 DEF Replay, Reserve, Saturated, TypeOK
    <3>2. val'[c] = val[c] /\ pc'[c] = pc[c]
      BY <1>0, <1>1, <2>1, <2>5 DEF Replay, Reserve, Saturated, Finish, Goto, TypeOK
    <3>3. Held(c)
      BY <1>1, <2>4, <2>5, <3>1, <3>2 DEF Live, InFlight
    <3>4. key[c] \notin gone
      BY <1>a, <1>e, <2>0, <2>2, <3>3 DEF Pinned, Live, Expired
    <3>5. T[key[c]] = entries[i][key[c]]
      BY <1>a, <3>4 DEF Clear
    <3>6. lru[i][key[c]] = 0
      BY <1>e, <2>0, <3>3 DEF Pinned
    <3>7. q[key[c]] = 0
      BY <1>0, <1>a, <2>0, <3>6, OutStaysOut DEF TypeOK
    <3> QED BY <3>3, <3>5, <3>7
  <2>6. c # r => Pinned(c)
    BY <1>e, <2>5
  <2> HIDE DEF T, q
  <2>7. CASE Replay(r, T, q)
    <3>1. c # r
      BY <1>1, <2>0, <2>7 DEF Replay, Live
    <3>2. MoveToBack(q, k)[key[c]] = 0
      BY <1>a, <2>0, <2>3, <2>5, <3>1, OutStaysOut
    <3>3. entries'[i] = T /\ lru'[i] = MoveToBack(q, k) /\ UNCHANGED claimedAt
      BY <1>0, <2>0, <2>7 DEF Replay, TypeOK
    <3> QED BY <2>0, <2>4, <2>5, <2>6, <3>1, <3>2, <3>3 DEF Pinned
  <2>8. CASE Saturated(r, T, q)
    <3>1. c # r
      BY <1>1, <2>0, <2>8 DEF Saturated, Live
    <3>2. entries'[i] = T /\ lru'[i] = q /\ UNCHANGED claimedAt
      BY <1>0, <2>0, <2>8 DEF Saturated, TypeOK
    <3> QED BY <2>0, <2>4, <2>5, <2>6, <3>1, <3>2 DEF Pinned
  <2>9. CASE Reserve(r, T, q)
    <3> DEFINE mine == [rec |-> Rec("pending", r), expires |-> now + TTL, by |-> r]
    <3>1. PICK X \in SUBSET Used(T) :
            /\ Evicting(T, q, X)
            /\ entries' = [entries EXCEPT ![i] = [Clear(T, X) EXCEPT ![k] = mine]]
            /\ lru' = [lru EXCEPT ![i] = Unlink(q, X)]
      BY <2>9 DEF Reserve
    <3>2. entries'[i] = [Clear(T, X) EXCEPT ![k] = mine] /\ lru'[i] = Unlink(q, X)
      BY <1>0, <2>0, <3>1 DEF TypeOK
    <3>3. claimedAt' = [claimedAt EXCEPT ![r] = now] /\ k \notin Used(T)
      BY <2>9 DEF Reserve
    <3>4. X \subseteq Linked(q)
      BY <3>1 DEF Evicting, IsFront
    <3>5. CASE c = r
      <4>1. q[k] = 0
        BY <2>0, <2>3, <3>3 DEF ListedIn, Used
      <4>2. Unlink(q, X)[k] = 0
        BY <2>0, <2>3, <4>1, OutStaysOut
      <4>3. entries'[i][k] = mine
        BY <2>0, <3>2 DEF Clear
      <4>4. claimedAt'[r] = now
        BY <1>0, <3>3 DEF TypeOK
      <4>5. mine.rec.state # "none" /\ mine.expires = now + TTL /\ mine.by = r
        BY DEF Rec
      <4>6. at'[c] = i /\ key'[c] = k
        BY <2>0, <2>4, <3>5
      <4> HIDE DEF mine
      <4>7. entries'[at'[c]][key'[c]] = mine
        BY <4>3, <4>6
      <4>8. lru'[at'[c]][key'[c]] = 0
        BY <3>2, <4>2, <4>6
      <4>9. claimedAt'[c] = now /\ now + TTL \in Nat
        BY <1>a, <3>5, <4>4
      <4> QED BY <3>5, <4>5, <4>7, <4>8, <4>9 DEF Pinned
    <3>6. CASE c # r
      <4>1. key[c] \notin X
        BY <2>5, <3>4, <3>6 DEF Linked
      <4>2. key[c] # k
        BY <2>0, <2>5, <2>6, <3>3, <3>6 DEF Used, Pinned
      <4>3. entries'[i][key[c]] = T[key[c]]
        BY <1>a, <3>2, <4>1, <4>2 DEF Clear
      <4>4. Unlink(q, X)[key[c]] = 0
        BY <1>a, <2>3, <2>5, <3>6, OutStaysOut
      <4>5. claimedAt'[c] = claimedAt[c]
        BY <1>0, <3>3, <3>6 DEF TypeOK
      <4> HIDE DEF mine
      <4>6. /\ at'[c] = i /\ key'[c] = key[c] /\ at[c] = i
            /\ T[key[c]] = entries[i][key[c]]
        BY <2>0, <2>4, <2>5, <3>6
      <4>7. entries'[at'[c]][key'[c]] = entries[at[c]][key[c]]
        BY <4>3, <4>6
      <4>8. lru'[at'[c]][key'[c]] = 0
        BY <3>2, <4>4, <4>6
      <4>9. Pinned(c)
        BY <2>6, <3>6
      <4> QED BY <4>5, <4>7, <4>8, <4>9 DEF Pinned
    <3> QED BY <3>5, <3>6
  <2> QED BY <2>1, <2>7, <2>8, <2>9 DEF T, q
<1>2. ASSUME NEW r \in Request, Step(r), NEW c \in Request, Held(c)'
      PROVE  Pinned(c)'
  <2>1. Contact(r) \/ NoEndpoint(r) \/ Answer(r) \/ CompleteLocal(r)
    BY <1>0, <1>2
    DEF Step, Modal, LocalSteps, SetNXCreated, SetNXExists, SetNXFailed, GetClaim,
        GetFailed, Install, Peek, PersistOk, PersistFailed, Mark
  <2>2. UNCHANGED <<now, at, key, claimed, claimedAt>> /\ InFlight(r)
    BY <2>1 DEF Contact, NoEndpoint, Answer, CompleteLocal, InFlight, request, history
  <2>3. Held(c)
    <3>1. c # r => val'[c] = val[c] /\ pc'[c] = pc[c]
      BY <1>0, <2>1 DEF Contact, NoEndpoint, Answer, CompleteLocal, Goto, TypeOK
    <3> QED BY <1>2, <2>2, <3>1 DEF Live, InFlight
  <2>4. Pinned(c)
    BY <1>e, <2>3
  <2>5. CASE UNCHANGED local
    BY <2>2, <2>4, <2>5 DEF Pinned, local
  <2>6. CASE CompleteLocal(r) /\ ~UNCHANGED local
    <3> DEFINE i == at[r]
    <3> DEFINE k == key[r]
    <3>0. i \in Instance /\ k \in Key /\ at[c] = i
      BY <1>a
    <3>1. /\ entries' = [entries EXCEPT ![i][k].rec = val[r]]
          /\ lru' = IF val[r].state = "rejected"
                    THEN [lru EXCEPT ![i] = MarkEvictable(@, k)] ELSE lru
          /\ pc[r] = "complete" /\ pc' = [pc EXCEPT ![r] = "done"] /\ val' = val
      BY <2>6 DEF CompleteLocal, Goto
    <3>2. val[r].state # "none" /\ r \in claimed
      BY <1>0, <3>1 DEF Phases, Phase, Settled, Owning, Outcomes
    <3>3. Live(r) /\ Pinned(r)
      <4>1. start[r] <= claimedAt[r] /\ now <= start[r] + Budget
        BY <1>0, <2>2, <3>2 DEF Timely, Due
      <4>2. Live(r)
        BY <1>a, <3>2, <4>1 DEF Live
      <4> QED BY <1>e, <2>2, <4>2
    <3>4. CASE key[c] = k
      <4>1. c = r
        BY <2>4, <3>0, <3>3, <3>4 DEF Pinned
      <4>2. val[r].state # "rejected"
        BY <1>0, <1>2, <3>1, <4>1 DEF InFlight, TypeOK
      <4>3. /\ entries'[i][k].rec = val[r]
            /\ entries'[i][k].expires = entries[i][k].expires
            /\ entries'[i][k].by = entries[i][k].by
        BY <1>0, <3>0, <3>1 DEF TypeOK, Entry
      <4> QED BY <2>2, <2>4, <3>0, <3>1, <3>2, <4>1, <4>2, <4>3 DEF Pinned
    <3>5. CASE key[c] # k
      <4>1. entries'[i][key[c]] = entries[i][key[c]]
        BY <1>0, <1>a, <3>0, <3>1, <3>5 DEF TypeOK
      <4>2. \A y \in Key : MarkEvictable(lru[i], k)[y] # 0 => lru[i][y] # 0 \/ y = k
        BY <1>0, <3>0, OutStaysOut DEF TypeOK
      <4>3. lru'[i][key[c]] = 0
        BY <1>0, <1>a, <2>4, <3>0, <3>1, <3>5, <4>2 DEF TypeOK, Pinned
      <4> QED BY <2>2, <2>4, <3>0, <4>1, <4>3 DEF Pinned
    <3> QED BY <3>4, <3>5
  <2> QED BY <2>1, <2>5, <2>6 DEF Contact, NoEndpoint, Answer
<1>3. ASSUME NEW r \in Request, DeliverLate(r) \/ LoseLate(r),
             NEW c \in Request, Held(c)'
      PROVE  Pinned(c)'
  BY <1>0, <1>3 DEF DeliverLate, LoseLate, Modal
<1>4. ASSUME Tick, NEW c \in Request, Held(c)'
      PROVE  Pinned(c)'
  <2>1. Held(c)
    BY <1>a, <1>4 DEF Tick, Live, InFlight, history, request
  <2> QED BY <1>4, <1>e, <2>1 DEF Tick, Pinned, local, request, history
<1> QED BY <1>1, <1>2, <1>3, <1>4, <1>d DEF Next

\* A new owner finds no live claim of its payload that was not rejected.
LEMMA OnceStep ==
    ASSUME ClaimInv, Next
    PROVE  OncePerWindow'
<1> USE ConstantsOK
<1>0. TypeOK /\ Phases /\ Timely /\ OncePerWindow
  BY DEF ClaimInv, Base, TypeInv
<1>a. now \in Nat /\ \A c \in Request : claimedAt[c] \in Nat /\ key[c] \in Key
  BY <1>0 DEF TypeOK
<1>b. crashes \in Nat /\ crashes' \in Nat /\ crashes' >= crashes /\ key' = key
  <2>1. key' = key
    BY DEF Next, Begin, Step, SetNXCreated, SetNXExists, SetNXFailed, GetClaim,
           GetFailed, Install, Peek, Contact, NoEndpoint, Answer, CompleteLocal,
           PersistOk, PersistFailed, Mark, DeliverLate, LoseLate, Tick, Crash, request
  <2>2. crashes' = crashes \/ crashes' = crashes + 1
    BY DEF Next, Begin, Step, SetNXCreated, SetNXExists, SetNXFailed, GetClaim,
           GetFailed, Install, Peek, Contact, NoEndpoint, Answer, CompleteLocal,
           PersistOk, PersistFailed, Mark, DeliverLate, LoseLate, Tick, Crash
  <2>3. crashes \in Nat
    BY <1>0 DEF TypeOK
  <2> QED BY <2>1, <2>2, <2>3
<1>1. ASSUME UNCHANGED <<claimed, claimedAt>>,
             \A c \in claimed : val[c].state = "rejected" => val'[c].state = "rejected"
      PROVE  OncePerWindow'
  BY <1>0, <1>1, <1>b DEF OncePerWindow, TypeOK
<1>2. ASSUME NEW r \in Request, r \notin claimed,
             claimed' = claimed \cup {r}, claimedAt' = [claimedAt EXCEPT ![r] = now],
             val' = val,
             \A c \in claimed : Live(c) /\ key[c] = key[r] =>
                ~Shared /\ (crashes > 0 \/ val[c].state = "rejected")
      PROVE  OncePerWindow'
  <2> SUFFICES ASSUME NEW c \in claimed', NEW d \in claimed', c # d, key[c] = key[d],
                      claimedAt'[c] <= claimedAt'[d],
                      claimedAt'[d] < claimedAt'[c] + TTL
               PROVE  /\ ~Shared
                      /\ \/ crashes' > 0
                         \/ val[c].state = "rejected"
                         \/ claimedAt'[c] = claimedAt'[d] /\ val[d].state = "rejected"
    BY <1>2, <1>b DEF OncePerWindow
  <2>1. c \in Request /\ d \in Request
    BY <1>0, <1>2 DEF TypeOK
  <2>2. CASE c # r /\ d # r
    <3>1. /\ c \in claimed /\ d \in claimed
          /\ claimedAt'[c] = claimedAt[c] /\ claimedAt'[d] = claimedAt[d]
      BY <1>0, <1>2, <2>1, <2>2 DEF TypeOK
    <3> QED BY <1>0, <1>b, <3>1 DEF OncePerWindow
  <2>3. CASE d = r
    BY <1>0, <1>2, <1>a, <1>b, <2>1, <2>3 DEF Live, TypeOK
  <2>4. CASE c = r
    <3>1. claimedAt[d] = now /\ claimedAt'[d] = now /\ d \in claimed
      <4>1. d \in claimed /\ claimedAt'[c] = now /\ claimedAt'[d] = claimedAt[d]
        BY <1>0, <1>2, <2>1, <2>4 DEF TypeOK
      <4>2. claimedAt[d] <= now
        BY <1>0, <2>1, <4>1 DEF Timely, Due
      <4> QED BY <1>a, <2>1, <4>1, <4>2
    <3>2. Live(d)
      BY <1>a, <3>1, <2>1, <2>4, <1>0, <1>2 DEF Live, TypeOK
    <3> QED BY <1>0, <1>2, <1>a, <1>b, <2>1, <2>4, <3>1, <3>2 DEF TypeOK
  <2> QED BY <2>2, <2>3, <2>4
<1>3. ASSUME NEW r \in Request, Begin(r)
      PROVE  OncePerWindow'
  <2> DEFINE i == at[r]
  <2> DEFINE k == key[r]
  <2>0. i \in Instance /\ k \in Key /\ pc[r] = "idle" /\ r \notin claimed
    BY <1>0, <1>3 DEF Begin, TypeOK, Phases, Phase, Early
  <2>1. PICK S \in SweepSets(entries[i]) :
          LET gone == S \cup ({k} \cap Expired(entries[i])) IN
          \/ Replay(r, Clear(entries[i], gone), Unlink(lru[i], gone))
          \/ Reserve(r, Clear(entries[i], gone), Unlink(lru[i], gone))
          \/ Saturated(r, Clear(entries[i], gone), Unlink(lru[i], gone))
    BY <1>3 DEF Begin
  <2> DEFINE gone == S \cup ({k} \cap Expired(entries[i]))
  <2> DEFINE T == Clear(entries[i], gone)
  <2> DEFINE q == Unlink(lru[i], gone)
  <2>2. CASE Replay(r, T, q) \/ Saturated(r, T, q) \/ (Reserve(r, T, q) /\ Shared)
    <3>1. UNCHANGED <<claimed, claimedAt>>
      BY <2>2 DEF Replay, Saturated, Reserve
    <3>2. \A c \in claimed : val'[c] = val[c]
      BY <1>0, <2>0, <2>2 DEF Replay, Saturated, Reserve, Finish, TypeOK
    <3> QED BY <1>1, <3>1, <3>2
  <2>3. CASE Reserve(r, T, q) /\ ~Shared
    <3>1. /\ claimed' = claimed \cup {r} /\ claimedAt' = [claimedAt EXCEPT ![r] = now]
          /\ val' = val /\ k \notin Used(T)
      BY <2>3 DEF Reserve
    <3>2. ASSUME NEW c \in claimed, Live(c), key[c] = k, crashes = 0,
                 val[c].state # "rejected"
          PROVE  FALSE
      <4>1. Pinned(c) /\ at[c] = i /\ c \in Request
        BY <1>0, <2>0, <2>3, <3>2 DEF ClaimInv, LocalClaims, TypeOK
      <4>2. entries[i][k].rec.state # "none" /\ entries[i][k].expires > now
        <5>1. entries[i][k].expires \in Nat
          BY <1>0, <2>0 DEF TypeOK, Entry
        <5> QED BY <1>a, <3>2, <4>1, <5>1 DEF Pinned, Live
      <4>3. k \notin gone
        BY <1>0, <2>0, <4>2 DEF SweepSets, Expired, TypeOK, Entry
      <4> QED BY <2>0, <3>1, <4>2, <4>3 DEF Used, Clear
    <3>3. \A c \in claimed : Live(c) /\ key[c] = k =>
            ~Shared /\ (crashes > 0 \/ val[c].state = "rejected")
      BY <1>b, <2>3, <3>2
    <3> QED BY <1>2, <2>0, <3>1, <3>3
  <2> QED BY <2>1, <2>2, <2>3
<1>4. ASSUME NEW r \in Request, SetNXCreated(r)
      PROVE  OncePerWindow'
  <2>1. r \notin claimed
    BY <1>0, <1>4 DEF SetNXCreated, Phases, Phase, Early
  <2>2. Shared
    BY <1>4 DEF SetNXCreated, ClaimInv, Base, Modal, LocalSteps
  <2>3. \A c \in claimed : Live(c) => key[c] # key[r]
    BY <1>0, <1>4, <2>2 DEF SetNXCreated, Absent, ClaimInv, SharedClaims, Remembered, TypeOK
  <2> QED BY <1>2, <1>4, <2>1, <2>3 DEF SetNXCreated
<1>5. ASSUME NEW r \in Request, Step(r), ~SetNXCreated(r)
      PROVE  OncePerWindow'
  <2>1. UNCHANGED <<claimed, claimedAt>>
    BY <1>5
    DEF Step, SetNXExists, SetNXFailed, GetClaim, GetFailed, Install, Peek, Contact,
        NoEndpoint, Answer, CompleteLocal, PersistOk, PersistFailed, Mark, history
  <2>2. r \in claimed /\ val'[r] # val[r] => val[r] = NoRec
    BY <1>0, <1>5
    DEF Step, SetNXExists, SetNXFailed, GetClaim, GetFailed, Install, Peek, Contact,
        NoEndpoint, Answer, CompleteLocal, PersistOk, PersistFailed, Mark,
        Phases, Phase, Early
  <2>3. \A c \in Request : c # r => val'[c] = val[c]
    BY <1>0, <1>5
    DEF Step, SetNXExists, SetNXFailed, GetClaim, GetFailed, Install, Peek, Contact,
        NoEndpoint, Answer, CompleteLocal, PersistOk, PersistFailed, Mark,
        Finish, TypeOK
  <2>4. NoRec.state # "rejected"
    BY DEF NoRec, Rec
  <2> QED BY <1>0, <1>1, <2>1, <2>2, <2>3, <2>4 DEF TypeOK
<1>6. CASE \/ Tick \/ \E i \in Instance : Crash(i)
           \/ \E r \in Request : DeliverLate(r) \/ LoseLate(r)
  <2>1. UNCHANGED <<val, claimed, claimedAt>>
    BY <1>6 DEF Tick, Crash, DeliverLate, LoseLate, history
  <2> QED BY <1>1, <2>1
<1> QED BY <1>3, <1>4, <1>5, <1>6 DEF Next

\* Every step preserves the inductive invariant.
LEMMA ClaimStep == ClaimInv /\ [Next]_vars => ClaimInv'
<1> SUFFICES ASSUME ClaimInv, [Next]_vars PROVE ClaimInv'
  OBVIOUS
<1>1. CASE UNCHANGED vars
  <2>1. TypeInv'
    BY <1>1 DEF vars, ClaimInv, Base, TypeInv, TypeOK, Phases, Phase
  <2>2. (Timely /\ Modal /\ Listed)'
    BY <1>1 DEF vars, ClaimInv, Base, Timely, Due, InFlight, Modal, Listed
  <2>3. (SharedClaims /\ LocalClaims /\ OncePerWindow)'
    BY <1>1
    DEF vars, ClaimInv, SharedClaims, LocalClaims, OncePerWindow, Live, InFlight,
        Remembered, Pinned
  <2> QED BY <2>1, <2>2, <2>3 DEF ClaimInv, Base
<1>2. CASE Next
  <2>1. TypeInv'
    BY <1>2, BeginType, StepType, EnvironmentType DEF Next, ClaimInv, Base
  <2>2. (Timely /\ Modal /\ Listed)'
    BY <1>2, TimelyStep, ModalStep, ListedStep DEF ClaimInv, Base
  <2>3. SharedClaims'
    BY <1>2, SharedStep DEF ClaimInv, SharedClaims
  <2>4. LocalClaims'
    BY <1>2, LocalStep DEF ClaimInv, LocalClaims
  <2>5. OncePerWindow'
    BY <1>2, OnceStep
  <2> QED BY <2>1, <2>2, <2>3, <2>4, <2>5 DEF ClaimInv, Base
<1> QED BY <1>1, <1>2

\* OncePerWindow holds in every reachable state, for any number of processes,
\* requests and payloads: Redis, or the pinned local record, keeps a second
\* owner away whatever fails, as long as the window is longer than a request.
THEOREM OneOwnerPerWindow == Spec => []OncePerWindow
<1>1. ClaimInv => OncePerWindow
  BY DEF ClaimInv
<1> QED BY InitClaims, ClaimStep, <1>1, PTL DEF Spec
-----------------------------------------------------------------------------
(* The bound on the table, and the places in the list.                      *)

\* No two keys share a place, and no place is beyond the end of the list.
Tidy(q) ==
    /\ \A a, b \in Linked(q) : q[a] = q[b] => a = b
    /\ \A k \in Linked(q) : q[k] <= Cardinality(Linked(q))

\* In a tidy list every place is taken.
LEMMA TidyIsFull ==
    ASSUME NEW q \in [Key -> Nat], Tidy(q)
    PROVE  {q[k] : k \in Linked(q)} = 1..Cardinality(Linked(q))
<1> DEFINE L == Linked(q)
<1> DEFINE n == Cardinality(L)
<1> DEFINE f == [k \in L |-> q[k]]
<1>1. n \in Nat
  BY CountIsNat DEF Linked
<1>2. \A k \in L : q[k] \in 1..n
  BY <1>1 DEF Linked, Tidy
<1>3. f \in Injection(L, 1..n)
  <2>1. f \in [L -> 1..n]
    BY <1>2
  <2>2. \A a, b \in L : f[a] = f[b] => a = b
    BY DEF Tidy
  <2> QED BY <2>1, <2>2 DEF Injection, IsInjective
<1>4. IsFiniteSet(1..n) /\ Cardinality(1..n) = n
  BY <1>1, FS_Interval
<1> HIDE DEF f
<1>5. f \in Surjection(L, 1..n)
  BY <1>3, <1>4, FS_Injection
<1>6. \A p \in 1..n : \E k \in L : f[k] = p
  BY <1>5 DEF Surjection
<1> QED BY <1>2, <1>6 DEF f

\* Taking keys out closes the gaps and keeps the order.
LEMMA UnlinkTidy ==
    ASSUME NEW q \in [Key -> Nat], Tidy(q), NEW S
    PROVE  Tidy(Unlink(q, S)) /\ Linked(Unlink(q, S)) = Linked(q) \ S
<1> DEFINE L == Linked(q) \ S
<1> DEFINE upto(k) == {y \in L : q[y] <= q[k]}
<1> DEFINE u == Unlink(q, S)
<1>0. IsFiniteSet(L) /\ L \subseteq Key
  BY ConstantsOK, FS_Subset DEF Linked
<1>1. \A k \in L : u[k] = Cardinality(upto(k))
  BY DEF Unlink, Linked
<1>2. \A k \in Key \ L : u[k] = 0
  BY DEF Unlink, Linked
<1>3. ASSUME NEW k \in L
      PROVE  /\ IsFiniteSet(upto(k)) /\ Cardinality(upto(k)) \in Nat
             /\ Cardinality(upto(k)) > 0 /\ Cardinality(upto(k)) <= Cardinality(L)
  <2>1. upto(k) \in SUBSET L
    OBVIOUS
  <2>2. IsFiniteSet(upto(k)) /\ Cardinality(upto(k)) <= Cardinality(L)
    BY <1>0, <2>1, FS_Subset
  <2>3. Cardinality(upto(k)) \in Nat
    BY <2>2, FS_CardinalityType
  <2>4. k \in upto(k)
    BY <1>0
  <2>5. Cardinality(upto(k)) # 0
    BY <2>2, <2>4, FS_EmptySet
  <2> QED BY <2>2, <2>3, <2>5
<1>4. Linked(u) = L
  <2>1. \A k \in L : u[k] > 0
    BY <1>1, <1>3
  <2> HIDE DEF u, L
  <2> QED BY <1>0, <1>2, <2>1 DEF Linked
<1>5. ASSUME NEW a \in L, NEW b \in L, q[a] < q[b]
      PROVE  u[a] # u[b]
  <2>1. upto(a) \in SUBSET upto(b) /\ b \notin upto(a) /\ b \in upto(b)
    BY <1>0, <1>5
  <2>2. Cardinality(upto(b)) # Cardinality(upto(a))
    BY <1>3, <2>1, FS_Subset
  <2> QED BY <1>1, <2>2
<1>6. ASSUME NEW a \in L, NEW b \in L, u[a] = u[b]
      PROVE  a = b
  <2>1. q[a] = q[b]
    BY <1>0, <1>5, <1>6
  <2> QED BY <2>1 DEF Tidy
<1>7. \A k \in L : u[k] <= Cardinality(L)
  BY <1>1, <1>3
<1> QED BY <1>4, <1>6, <1>7 DEF Tidy

\* Appending a key leaves a tidy list.
LEMMA PushTidy ==
    ASSUME NEW q \in [Key -> Nat], Tidy(q), NEW k \in Key, k \notin Linked(q)
    PROVE  Tidy(PushBack(q, k)) /\ Linked(PushBack(q, k)) = Linked(q) \cup {k}
<1> DEFINE n == Cardinality(Linked(q))
<1> DEFINE p == PushBack(q, k)
<1>1. n \in Nat
  BY CountIsNat DEF Linked
<1>2. p[k] = n + 1 /\ \A y \in Key \ {k} : p[y] = q[y]
  BY DEF PushBack
<1>3. Linked(p) = Linked(q) \cup {k}
  BY <1>1, <1>2 DEF Linked
<1>4. Cardinality(Linked(p)) = n + 1
  <2>1. IsFiniteSet(Linked(q))
    BY ConstantsOK, FS_Subset DEF Linked
  <2> QED BY <1>3, <2>1, FS_AddElement
<1>5. \A y \in Linked(q) : y \in Key /\ y # k /\ q[y] \in Nat /\ q[y] <= n
  BY DEF Linked, Tidy
<1>6. \A y \in Linked(q) : p[y] = q[y] /\ p[y] <= n
  BY <1>2, <1>5
<1>7. \A a, b \in Linked(p) : p[a] = p[b] => a = b
  BY <1>1, <1>2, <1>3, <1>5, <1>6 DEF Tidy
<1>8. \A y \in Linked(p) : p[y] <= n + 1
  BY <1>1, <1>2, <1>3, <1>5, <1>6
<1> QED BY <1>3, <1>4, <1>7, <1>8 DEF Tidy

\* So does marking a key evictable, or moving it to the back.
LEMMA MoveTidy ==
    ASSUME NEW q \in [Key -> Nat], Tidy(q), NEW k \in Key
    PROVE  Tidy(MarkEvictable(q, k)) /\ Tidy(MoveToBack(q, k))
<1>1. Tidy(MarkEvictable(q, k))
  BY PushTidy DEF MarkEvictable
<1>2. Tidy(MoveToBack(q, k))
  <2> DEFINE u == Unlink(q, {k})
  <2>1. u \in [Key -> Nat] /\ Tidy(u) /\ k \notin Linked(u)
    BY UnlinkType, UnlinkTidy
  <2>2. Tidy(PushBack(u, k))
    BY <2>1, PushTidy
  <2> QED BY <2>2 DEF MoveToBack
<1> QED BY <1>1, <1>2

\* The table and the list of one process are within their bounds.
Bounded(T, q) == Cardinality(Used(T)) <= MaxRecords /\ Tidy(q)

TableInv == \A i \in Instance : Bounded(entries[i], lru[i])

\* A table that uses no other keys is within the same bound.
LEMMA FewerUsed ==
    ASSUME NEW T, NEW U, Cardinality(Used(T)) <= MaxRecords, Used(U) \subseteq Used(T)
    PROVE  Cardinality(Used(U)) <= MaxRecords
<1>1. IsFiniteSet(Used(T)) /\ Used(U) \in SUBSET Used(T)
  BY ConstantsOK, FS_Subset DEF Used
<1>2. Cardinality(Used(U)) <= Cardinality(Used(T))
  BY <1>1, FS_Subset
<1>3. Cardinality(Used(U)) \in Nat /\ Cardinality(Used(T)) \in Nat
  BY CountIsNat DEF Used
<1> QED BY <1>2, <1>3, ConstantsOK

\* Taking the same keys out of both keeps the bounds.
LEMMA ClearBounded ==
    ASSUME NEW T \in [Key -> Entry], NEW q \in [Key -> Nat], NEW S, Bounded(T, q)
    PROVE  Bounded(Clear(T, S), Unlink(q, S))
<1>1. Used(Clear(T, S)) \subseteq Used(T)
  BY DEF Used, Clear, NoEntry, NoRec, Rec
<1> QED BY <1>1, FewerUsed, UnlinkTidy DEF Bounded

\* Every step keeps the bounds.
LEMMA TableStep ==
    ASSUME TypeInv, TableInv, Next
    PROVE  TableInv'
<1> USE ConstantsOK
<1>0. TypeOK
  BY DEF TypeInv
<1>a. \A i \in Instance : /\ entries[i] \in [Key -> Entry] /\ lru[i] \in [Key -> Nat]
                          /\ Bounded(entries[i], lru[i])
  BY <1>0 DEF TypeOK, TableInv
<1>b. SUFFICES \A i \in Instance : Bounded(entries'[i], lru'[i])
  BY DEF TableInv, Bounded, Used, Tidy, Linked
<1>1. ASSUME NEW r \in Request, Begin(r)
      PROVE  \A i \in Instance : Bounded(entries'[i], lru'[i])
  <2> DEFINE i == at[r]
  <2> DEFINE k == key[r]
  <2>0. i \in Instance /\ k \in Key
    BY <1>0 DEF TypeOK
  <2>1. PICK gone :
          \/ Replay(r, Clear(entries[i], gone), Unlink(lru[i], gone))
          \/ Reserve(r, Clear(entries[i], gone), Unlink(lru[i], gone))
          \/ Saturated(r, Clear(entries[i], gone), Unlink(lru[i], gone))
    BY <1>1 DEF Begin
  <2> DEFINE T == Clear(entries[i], gone)
  <2> DEFINE q == Unlink(lru[i], gone)
  <2>2. T \in [Key -> Entry] /\ q \in [Key -> Nat] /\ Bounded(T, q)
    BY <1>0, <1>a, <2>0, SweptType, ClearBounded
  <2> HIDE DEF T, q
  <2>3. CASE Replay(r, T, q)
    <3>1. Bounded(T, MoveToBack(q, k))
      BY <2>0, <2>2, MoveTidy DEF Bounded
    <3> QED BY <1>0, <1>a, <2>0, <2>3, <3>1 DEF Replay, TypeOK
  <2>4. CASE Reserve(r, T, q)
    <3> DEFINE mine == [rec |-> Rec("pending", r), expires |-> now + TTL, by |-> r]
    <3>1. PICK S \in SUBSET Used(T) :
            /\ Cardinality(Used(Clear(T, S))) < MaxRecords
            /\ entries' = [entries EXCEPT ![i] = [Clear(T, S) EXCEPT ![k] = mine]]
            /\ lru' = [lru EXCEPT ![i] = Unlink(q, S)]
      BY <2>4 DEF Reserve
    <3>2. Tidy(Unlink(q, S))
      BY <2>2, UnlinkTidy DEF Bounded
    <3> DEFINE U == Used(Clear(T, S))
    <3> DEFINE V == [Clear(T, S) EXCEPT ![k] = mine]
    <3>3. IsFiniteSet(U) /\ Cardinality(U) \in Nat
      BY FS_Subset, CountIsNat DEF Used
    <3>4. Used(V) \subseteq U \cup {k}
      <4>1. \A y \in Key : y # k => V[y] = Clear(T, S)[y]
        BY DEF Clear
      <4> HIDE DEF V
      <4> QED BY <4>1 DEF Used
    <3>5. /\ IsFiniteSet(U \cup {k}) /\ Cardinality(U \cup {k}) \in Nat
          /\ Cardinality(U \cup {k}) <= Cardinality(U) + 1
      <4> HIDE DEF U
      <4>1. /\ IsFiniteSet(U \cup {k})
            /\ Cardinality(U \cup {k}) = IF k \in U THEN Cardinality(U)
                                         ELSE Cardinality(U) + 1
        BY <3>3, FS_AddElement
      <4> QED BY <3>3, <4>1
    <3>6. Cardinality(Used(V)) <= Cardinality(U \cup {k}) /\ Cardinality(Used(V)) \in Nat
      BY <3>4, <3>5, FS_Subset, CountIsNat DEF Used
    <3>7. Cardinality(Used(V)) <= MaxRecords
      BY <3>1, <3>3, <3>5, <3>6
    <3> HIDE DEF V
    <3>8. entries'[i] = V /\ lru'[i] = Unlink(q, S)
      BY <1>0, <2>0, <3>1 DEF TypeOK, V
    <3>9. \A j \in Instance : j # i => entries'[j] = entries[j] /\ lru'[j] = lru[j]
      BY <1>0, <3>1 DEF TypeOK
    <3> QED BY <1>a, <3>2, <3>7, <3>8, <3>9 DEF Bounded
  <2>5. CASE Saturated(r, T, q)
    BY <1>0, <1>a, <2>0, <2>2, <2>5 DEF Saturated, TypeOK
  <2> QED BY <2>1, <2>3, <2>4, <2>5 DEF T, q
<1>2. ASSUME NEW r \in Request, Step(r)
      PROVE  \A i \in Instance : Bounded(entries'[i], lru'[i])
  <2> DEFINE i == at[r]
  <2> DEFINE k == key[r]
  <2> DEFINE marked == MarkEvictable(lru[i], k)
  <2>0. i \in Instance /\ k \in Key /\ Tidy(marked)
    BY <1>0, <1>a, MoveTidy DEF TypeOK, Bounded
  <2>1. CASE UNCHANGED local
    BY <1>a, <2>1 DEF local
  <2>2. CASE RemoveLocal(i, {k})
    BY <1>0, <1>a, <2>0, <2>2, ClearBounded DEF RemoveLocal, TypeOK
  <2>3. ASSUME /\ entries[i][k].rec.state # "none"
               /\ \/ entries' = [entries EXCEPT ![i][k].rec = val[r]]
                  \/ entries' = entries
               /\ \/ lru' = [lru EXCEPT ![i] = marked]
                  \/ lru' = lru
        PROVE  \A j \in Instance : Bounded(entries'[j], lru'[j])
    <3>1. \A j \in Instance, x \in Key :
            entries'[j][x].rec.state # "none" => entries[j][x].rec.state # "none"
      <4>1. CASE entries' = entries
        BY <4>1
      <4>2. CASE entries' = [entries EXCEPT ![i][k].rec = val[r]]
        <5> SUFFICES ASSUME NEW j \in Instance, NEW x \in Key,
                            ~(j = i /\ x = k)
                     PROVE  entries'[j][x] = entries[j][x]
          BY <2>3
        <5> QED BY <1>0, <2>0, <4>2 DEF TypeOK
      <4> QED BY <2>3, <4>1, <4>2
    <3>2. \A j \in Instance : Used(entries'[j]) \subseteq Used(entries[j])
      BY <3>1 DEF Used
    <3>3. \A j \in Instance : Tidy(lru'[j])
      BY <1>0, <1>a, <2>0, <2>3 DEF TypeOK, Bounded
    <3> QED BY <1>a, <3>2, <3>3, FewerUsed DEF Bounded
  <2>4. CASE Install(r) \/ CompleteLocal(r)
    BY <2>1, <2>2, <2>3, <2>4 DEF Install, CompleteLocal
  <2>5. CASE Mark(r)
    BY <2>1, <2>3, <2>5 DEF Mark, local
  <2>6. CASE SetNXFailed(r) \/ GetFailed(r)
    BY <2>2, <2>6 DEF SetNXFailed, GetFailed
  <2>7. CASE \/ SetNXCreated(r) \/ SetNXExists(r) \/ GetClaim(r) \/ Peek(r)
             \/ Contact(r) \/ NoEndpoint(r) \/ Answer(r)
             \/ PersistOk(r) \/ PersistFailed(r)
    BY <2>1, <2>7
    DEF SetNXCreated, SetNXExists, GetClaim, Peek, Contact, NoEndpoint, Answer,
        PersistOk, PersistFailed, local
  <2> QED BY <1>2, <2>4, <2>5, <2>6, <2>7 DEF Step
<1>3. CASE Tick \/ \E r \in Request : DeliverLate(r) \/ LoseLate(r)
  BY <1>3, <1>a DEF Tick, DeliverLate, LoseLate, local
<1>4. ASSUME NEW i \in Instance, Crash(i)
      PROVE  \A j \in Instance : Bounded(entries'[j], lru'[j])
  <2> DEFINE none == [k \in Key |-> NoEntry]
  <2> DEFINE zero == [k \in Key |-> 0]
  <2>1. Used(none) = {}
    BY DEF Used, NoEntry, NoRec, Rec
  <2>2. Cardinality(Used(none)) <= MaxRecords
    BY <2>1, FS_EmptySet
  <2>3. Tidy(zero)
    BY DEF Tidy, Linked
  <2> QED BY <1>0, <1>a, <1>4, <2>2, <2>3 DEF Crash, TypeOK, Bounded
<1> QED BY <1>1, <1>2, <1>3, <1>4 DEF Next

\* LocalBound holds in every reachable state, for any capacity, sweep budget
\* and number of processes: the list never loses a slot it could give back.
THEOREM LocalTableIsBounded == Spec => []LocalBound
<1>1. Init => TableInv
  <2> SUFFICES ASSUME Init, NEW i \in Instance PROVE Bounded(entries[i], lru[i])
    BY DEF TableInv
  <2>1. Used(entries[i]) = {} /\ Linked(lru[i]) = {}
    BY DEF Init, Used, Linked, NoEntry, NoRec, Rec
  <2> QED BY <2>1, FS_EmptySet, ConstantsOK DEF Bounded, Tidy
<1>2. TypeInv /\ TableInv /\ [Next]_vars => TableInv'
  <2>1. UNCHANGED vars /\ TableInv => TableInv'
    BY DEF vars, TableInv, Bounded, Used, Tidy, Linked
  <2> QED BY <2>1, TableStep
<1>3. ClaimInv => Listed /\ TypeInv
  BY DEF ClaimInv, Base
<1>4. TypeInv /\ Listed /\ TableInv => LocalBound
  <2> SUFFICES ASSUME TypeInv, Listed, TableInv, NEW i \in Instance
               PROVE  /\ Cardinality(Used(entries[i])) <= MaxRecords
                      /\ Linked(lru[i]) \subseteq Used(entries[i])
                      /\ {lru[i][k] : k \in Linked(lru[i])} = 1..Cardinality(Linked(lru[i]))
    BY DEF LocalBound
  <2>1. lru[i] \in [Key -> Nat] /\ Bounded(entries[i], lru[i])
    BY DEF TypeInv, TypeOK, TableInv
  <2>2. Linked(lru[i]) \subseteq Used(entries[i])
    BY DEF Listed, Linked, Used
  <2> QED BY <2>1, <2>2, TidyIsFull DEF Bounded
<1> QED BY InitClaims, ClaimStep, <1>1, <1>2, <1>3, <1>4, PTL DEF Spec

-----------------------------------------------------------------------------
(* Attribution.                                                             *)

\* A settled owner never changes its outcome, nor loses its claim.
LEMMA SettledIsStable ==
    ASSUME TypeInv, Next
    PROVE  /\ key' = key /\ claimed \subseteq claimed'
           /\ \A s \in claimed : val[s].state \in Outcomes => val'[s] = val[s]
<1>0. TypeOK /\ Phases
  BY DEF TypeInv
<1>1. key' = key /\ claimed \subseteq claimed'
  <2>1. ASSUME NEW r \in Request, Begin(r)
        PROVE  key' = key /\ claimed \subseteq claimed'
    BY <2>1 DEF Begin, Replay, Reserve, Saturated
  <2>2. ASSUME NEW r \in Request, Step(r)
        PROVE  key' = key /\ claimed \subseteq claimed'
    BY <2>2
    DEF Step, SetNXCreated, SetNXExists, SetNXFailed, GetClaim, GetFailed, Install,
        Peek, Contact, NoEndpoint, Answer, CompleteLocal, PersistOk, PersistFailed,
        Mark, request, history
  <2>3. ASSUME \/ Tick \/ \E i \in Instance : Crash(i)
               \/ \E r \in Request : DeliverLate(r) \/ LoseLate(r)
        PROVE  key' = key /\ claimed \subseteq claimed'
    BY <2>3 DEF Tick, Crash, DeliverLate, LoseLate, request, history
  <2> QED BY <2>1, <2>2, <2>3 DEF Next
<1>2. NoRec.state \notin Outcomes
  BY DEF NoRec, Rec, Outcomes
<1>3. ASSUME NEW r \in Request, Begin(r)
      PROVE  \A s \in claimed : val'[s] = val[s]
  <2>1. r \notin claimed
    BY <1>0, <1>3 DEF Begin, Phases, Phase, Early
  <2>2. \A s \in Request : s # r => val'[s] = val[s]
    BY <1>0, <1>3 DEF Begin, Replay, Reserve, Saturated, Finish, TypeOK
  <2> QED BY <1>0, <2>1, <2>2 DEF TypeOK
<1>4. ASSUME NEW r \in Request, Step(r)
      PROVE  \A s \in claimed : val[s].state \in Outcomes => val'[s] = val[s]
  <2>1. r \in claimed /\ val'[r] # val[r] => val[r] = NoRec
    BY <1>0, <1>4
    DEF Step, SetNXCreated, SetNXExists, SetNXFailed, GetClaim, GetFailed, Install,
        Peek, Contact, NoEndpoint, Answer, CompleteLocal, PersistOk, PersistFailed,
        Mark, Phases, Phase, Early
  <2>2. \A s \in Request : s # r => val'[s] = val[s]
    BY <1>0, <1>4
    DEF Step, SetNXCreated, SetNXExists, SetNXFailed, GetClaim, GetFailed, Install,
        Peek, Contact, NoEndpoint, Answer, CompleteLocal, PersistOk, PersistFailed,
        Mark, Finish, TypeOK
  <2> QED BY <1>0, <1>2, <2>1, <2>2 DEF TypeOK
<1>5. ASSUME \/ Tick \/ \E i \in Instance : Crash(i)
             \/ \E r \in Request : DeliverLate(r) \/ LoseLate(r)
      PROVE  val' = val
  BY <1>5 DEF Tick, Crash, DeliverLate, LoseLate
<1> QED BY <1>1, <1>3, <1>4, <1>5 DEF Next

\* What a step may put in a local table under k.
LEMMA LocalOrigin ==
    ASSUME TypeInv, Next, NEW i \in Instance, NEW k \in Key
    PROVE  \/ entries'[i][k].rec = entries[i][k].rec
           \/ entries'[i][k].rec.state \notin Outcomes
           \/ \E r \in Request : /\ key[r] = k /\ val'[r] = val[r]
                                 /\ entries'[i][k].rec = val[r]
<1>0. TypeOK
  BY DEF TypeInv
<1>1. NoEntry.rec.state \notin Outcomes /\ \A r : Rec("pending", r).state \notin Outcomes
  BY DEF NoEntry, NoRec, Rec, Outcomes
<1>2. ASSUME NEW r \in Request, Begin(r)
      PROVE  \/ entries'[i][k].rec = entries[i][k].rec
             \/ entries'[i][k].rec.state \notin Outcomes
  <2>0. at[r] \in Instance /\ key[r] \in Key
    BY <1>0 DEF TypeOK
  <2>1. PICK gone :
          \/ Replay(r, Clear(entries[at[r]], gone), Unlink(lru[at[r]], gone))
          \/ Reserve(r, Clear(entries[at[r]], gone), Unlink(lru[at[r]], gone))
          \/ Saturated(r, Clear(entries[at[r]], gone), Unlink(lru[at[r]], gone))
    BY <1>2 DEF Begin
  <2> DEFINE T == Clear(entries[at[r]], gone)
  <2>2. \A X : Clear(T, X)[k] = T[k] \/ Clear(T, X)[k] = NoEntry
    BY DEF Clear
  <2>3. T[k] = entries[at[r]][k] \/ T[k] = NoEntry
    BY DEF Clear
  <2>4. T \in [Key -> Entry]
    BY <1>0, <2>0, SweptType
  <2> HIDE DEF T
  <2>5. CASE entries' = [entries EXCEPT ![at[r]] = T]
    BY <1>0, <1>1, <2>0, <2>3, <2>5 DEF TypeOK
  <2>6. CASE Reserve(r, T, Unlink(lru[at[r]], gone))
    <3>1. PICK X : entries' = [entries EXCEPT ![at[r]] =
                      [Clear(T, X) EXCEPT ![key[r]] = [rec |-> Rec("pending", r),
                                           expires |-> now + TTL, by |-> r]]]
      BY <2>6 DEF Reserve
    <3>2. CASE i = at[r] /\ k = key[r]
      <4>1. entries'[i][k].rec = Rec("pending", r)
        BY <1>0, <2>0, <3>1, <3>2 DEF TypeOK, Clear
      <4> QED BY <1>1, <4>1
    <3>3. CASE i = at[r] /\ k # key[r]
      <4>1. entries'[i][k] = Clear(T, X)[k]
        BY <1>0, <2>0, <3>1, <3>3 DEF TypeOK, Clear
      <4> QED BY <1>1, <2>2, <2>3, <3>3, <4>1
    <3>4. CASE i # at[r]
      BY <1>0, <2>0, <3>1, <3>4 DEF TypeOK
    <3> QED BY <3>2, <3>3, <3>4
  <2> QED BY <2>1, <2>5, <2>6 DEF Replay, Saturated, T
<1>3. ASSUME NEW r \in Request, Step(r)
      PROVE  \/ entries'[i][k].rec = entries[i][k].rec
             \/ entries'[i][k].rec.state \notin Outcomes
             \/ key[r] = k /\ val'[r] = val[r] /\ entries'[i][k].rec = val[r]
  <2>0. at[r] \in Instance /\ key[r] \in Key
    BY <1>0 DEF TypeOK
  <2>1. CASE entries' = entries
    BY <2>1
  <2>2. CASE RemoveLocal(at[r], {key[r]})
    BY <1>0, <1>1, <2>0, <2>2 DEF RemoveLocal, Clear, TypeOK
  <2>3. CASE /\ entries' = [entries EXCEPT ![at[r]][key[r]].rec = val[r]]
             /\ val'[r] = val[r]
    <3>1. CASE i = at[r] /\ k = key[r]
      BY <1>0, <2>0, <2>3, <3>1 DEF TypeOK, Entry
    <3>2. CASE ~(i = at[r] /\ k = key[r])
      BY <1>0, <2>0, <2>3, <3>2 DEF TypeOK, Entry
    <3> QED BY <3>1, <3>2
  <2>4. CASE Install(r)
    <3>1. (/\ entries' = [entries EXCEPT ![at[r]][key[r]].rec = val[r]]
           /\ Finish(r, val[r])) => val'[r] = val[r]
      BY <1>0 DEF Finish, TypeOK
    <3> QED BY <2>1, <2>2, <2>3, <2>4, <3>1 DEF Install, local
  <2>5. CASE CompleteLocal(r)
    BY <2>1, <2>3, <2>5 DEF CompleteLocal, local
  <2>6. CASE \/ SetNXCreated(r) \/ SetNXExists(r) \/ GetClaim(r) \/ Peek(r)
             \/ Contact(r) \/ NoEndpoint(r) \/ Answer(r) \/ Mark(r)
             \/ PersistOk(r) \/ PersistFailed(r)
    BY <2>1, <2>6
    DEF SetNXCreated, SetNXExists, GetClaim, Peek, Contact, NoEndpoint, Answer,
        Mark, PersistOk, PersistFailed, local
  <2>7. CASE SetNXFailed(r) \/ GetFailed(r)
    BY <2>2, <2>7 DEF SetNXFailed, GetFailed
  <2> QED BY <1>3, <2>4, <2>5, <2>6, <2>7 DEF Step
<1>4. CASE Tick \/ \E r \in Request : DeliverLate(r) \/ LoseLate(r)
  BY <1>4 DEF Tick, DeliverLate, LoseLate, local
<1>5. CASE \E j \in Instance : Crash(j)
  <2>1. PICK j \in Instance : entries' = [entries EXCEPT ![j] = [y \in Key |-> NoEntry]]
    BY <1>5 DEF Crash
  <2>2. CASE i = j
    <3>1. entries'[i][k] = NoEntry
      BY <1>0, <2>1, <2>2 DEF TypeOK
    <3> QED BY <1>1, <3>1
  <2>3. CASE i # j
    BY <1>0, <2>1, <2>3 DEF TypeOK
  <2> QED BY <2>2, <2>3
<1> QED BY <1>2, <1>3, <1>4, <1>5 DEF Next

\* What a step may store in Redis under k.
LEMMA SharedOrigin ==
    ASSUME TypeInv, Next, NEW k \in Key
    PROVE  \/ redis'[k].rec = redis[k].rec
           \/ redis'[k].rec.state \notin Outcomes
           \/ \E r \in Request : /\ key[r] = k /\ val'[r] = val[r]
                                 /\ redis'[k].rec = val[r]
<1>0. TypeOK
  BY DEF TypeInv
<1>1. NoClaim.rec.state \notin Outcomes /\ \A r : Rec("pending", r).state \notin Outcomes
  BY DEF NoClaim, NoRec, Rec, Outcomes
<1>2. ASSUME NEW r \in Request, CreateClaim(r)
      PROVE  redis'[k].rec = redis[k].rec \/ redis'[k].rec.state \notin Outcomes
  BY <1>0, <1>1, <1>2 DEF CreateClaim, TypeOK
<1>3. ASSUME NEW r \in Request, StoreOutcome(r)
      PROVE  redis'[k].rec = redis[k].rec \/ (key[r] = k /\ redis'[k].rec = val[r])
  BY <1>0, <1>3 DEF StoreOutcome, TypeOK
<1>4. ASSUME NEW r \in Request, PersistOk(r) \/ PersistFailed(r) \/ DeliverLate(r)
      PROVE  \/ redis'[k].rec = redis[k].rec
             \/ redis'[k].rec.state \notin Outcomes
             \/ key[r] = k /\ val'[r] = val[r] /\ redis'[k].rec = val[r]
  BY <1>2, <1>3, <1>4 DEF PersistOk, PersistFailed, DeliverLate, store
<1>5. ASSUME NEW r \in Request, SetNXCreated(r) \/ SetNXFailed(r)
      PROVE  redis'[k].rec = redis[k].rec \/ redis'[k].rec.state \notin Outcomes
  BY <1>2, <1>5 DEF SetNXCreated, SetNXFailed, store
<1>6. CASE Tick
  BY <1>0, <1>1, <1>6 DEF Tick
<1>7. CASE redis' = redis
  BY <1>7
<1>8. ASSUME NEW r \in Request, Begin(r) \/ LoseLate(r) PROVE redis' = redis
  BY <1>8 DEF Begin, LoseLate
<1>9. ASSUME NEW r \in Request, Step(r), redis' # redis
      PROVE  SetNXCreated(r) \/ SetNXFailed(r) \/ PersistOk(r) \/ PersistFailed(r)
  BY <1>9
  DEF Step, SetNXExists, GetClaim, GetFailed, Install, Peek, Contact, NoEndpoint,
      Answer, CompleteLocal, Mark, store
<1>10. ASSUME NEW i \in Instance, Crash(i) PROVE redis' = redis
  BY <1>10 DEF Crash
<1> QED BY <1>4, <1>5, <1>6, <1>7, <1>8, <1>9, <1>10 DEF Next

\* What a step may put in the hands of a request.
LEMMA ReplyOrigin ==
    ASSUME TypeInv, Next, NEW r \in Request
    PROVE  \/ val'[r] = val[r]
           \/ val'[r].state \notin Outcomes
           \/ r \in claimed' /\ val'[r].from = r
           \/ val'[r] = redis[key[r]].rec
           \/ val'[r] = entries[at[r]][key[r]].rec
<1>0. TypeOK /\ Phases
  BY DEF TypeInv
<1>1. NoEntry.rec.state \notin Outcomes /\ Unavailable.state \notin Outcomes
  BY DEF NoEntry, NoRec, Unavailable, Rec, Outcomes
<1>2. ASSUME NEW x \in Request, Begin(x) \/ Step(x), x # r
      PROVE  val'[r] = val[r]
  BY <1>0, <1>2
  DEF Begin, Replay, Reserve, Saturated, Step, SetNXCreated, SetNXExists, SetNXFailed,
      GetClaim, GetFailed, Install, Peek, Contact, NoEndpoint, Answer, CompleteLocal,
      PersistOk, PersistFailed, Mark, Finish, TypeOK
<1>3. CASE Begin(r)
  <2>1. PICK gone :
          \/ Replay(r, Clear(entries[at[r]], gone), Unlink(lru[at[r]], gone))
          \/ Reserve(r, Clear(entries[at[r]], gone), Unlink(lru[at[r]], gone))
          \/ Saturated(r, Clear(entries[at[r]], gone), Unlink(lru[at[r]], gone))
    BY <1>3 DEF Begin
  <2> DEFINE T == Clear(entries[at[r]], gone)
  <2>2. T[key[r]] = entries[at[r]][key[r]] \/ T[key[r]] = NoEntry
    BY <1>0 DEF Clear, TypeOK
  <2> HIDE DEF T
  <2>3. val'[r] \in {val[r], Unavailable, T[key[r]].rec}
    BY <1>0, <2>1 DEF Replay, Reserve, Saturated, Finish, TypeOK, T
  <2> QED BY <1>1, <2>2, <2>3
<1>4. CASE Step(r)
  <2>1. CASE NoEndpoint(r) \/ Answer(r)
    <3>1. r \in claimed /\ claimed' = claimed
      BY <1>0, <2>1 DEF NoEndpoint, Answer, Phases, Phase, Owning, history
    <3>2. \E o \in Outcomes : val'[r] = Rec(o, r)
      BY <1>0, <2>1 DEF NoEndpoint, Answer, TypeOK, Outcomes
    <3> QED BY <3>1, <3>2 DEF Rec
  <2>2. CASE ~(NoEndpoint(r) \/ Answer(r))
    BY <1>0, <1>1, <1>4, <2>2
    DEF Step, SetNXCreated, SetNXExists, SetNXFailed, GetClaim, GetFailed, Install,
        Peek, Contact, CompleteLocal, PersistOk, PersistFailed, Mark, Finish, TypeOK
  <2> QED BY <2>1, <2>2
<1>5. CASE \/ Tick \/ \E i \in Instance : Crash(i)
           \/ \E x \in Request : DeliverLate(x) \/ LoseLate(x)
  BY <1>5 DEF Tick, Crash, DeliverLate, LoseLate
<1> QED BY <1>2, <1>3, <1>4, <1>5 DEF Next

\* Every step keeps records attributed.
LEMMA AttributionStep ==
    ASSUME TypeInv, ReplyAttribution, Next
    PROVE  ReplyAttribution'
<1>0. TypeOK
  BY DEF TypeInv
<1>1. ASSUME NEW rec, NEW k, Attributed(rec, k)
      PROVE  Attributed(rec, k)'
  BY <1>1, SettledIsStable DEF Attributed
<1>2. ASSUME NEW rec, NEW k, rec.state \notin Outcomes
      PROVE  Attributed(rec, k)'
  BY <1>2 DEF Attributed
<1>3. ASSUME NEW i \in Instance, NEW k \in Key
      PROVE  Attributed(entries[i][k].rec, k)'
  <2>1. Attributed(entries[i][k].rec, k) /\ \A r \in Request : Attributed(val[r], key[r])
    BY DEF ReplyAttribution
  <2>2. Attributed(entries[i][k].rec, k)'
    <3>1. CASE entries'[i][k].rec = entries[i][k].rec
      BY <1>1, <2>1, <3>1
    <3>2. CASE entries'[i][k].rec.state \notin Outcomes
      BY <1>2, <3>2
    <3>3. ASSUME NEW r \in Request, key[r] = k, entries'[i][k].rec = val[r]
          PROVE  Attributed(entries[i][k].rec, k)'
      BY <1>1, <2>1, <3>3
    <3> QED BY <3>1, <3>2, <3>3, LocalOrigin
  <2> QED BY <2>2
<1>4. ASSUME NEW k \in Key
      PROVE  Attributed(redis[k].rec, k)'
  <2>0. Attributed(redis[k].rec, k) /\ \A r \in Request : Attributed(val[r], key[r])
    BY DEF ReplyAttribution
  <2>1. CASE redis'[k].rec = redis[k].rec
    BY <1>1, <2>0, <2>1
  <2>2. CASE redis'[k].rec.state \notin Outcomes
    BY <1>2, <2>2
  <2>3. ASSUME NEW r \in Request, key[r] = k, redis'[k].rec = val[r]
        PROVE  Attributed(redis[k].rec, k)'
    BY <1>1, <2>0, <2>3
  <2> QED BY <2>1, <2>2, <2>3, SharedOrigin
<1>5. ASSUME NEW r \in Request
      PROVE  Attributed(val[r], key[r])'
  <2>1. /\ Attributed(val[r], key[r])
        /\ Attributed(redis[key[r]].rec, key[r])
        /\ Attributed(entries[at[r]][key[r]].rec, key[r])
    BY <1>0 DEF ReplyAttribution, TypeOK
  <2>2. key' = key
    BY SettledIsStable
  <2> QED BY <1>1, <1>2, <2>1, <2>2, ReplyOrigin DEF Attributed
<1> QED BY <1>3, <1>4, <1>5 DEF ReplyAttribution

\* ReplyAttribution holds in every reachable state: whatever store a reply was
\* copied from, it names the attempt that was made for this very payload.
THEOREM RepliesAreAttributed == Spec => []ReplyAttribution
<1>1. Init => ReplyAttribution
  BY DEF Init, ReplyAttribution, Attributed, NoEntry, NoClaim, NoRec, Rec, Outcomes
<1>2. TypeInv /\ ReplyAttribution /\ [Next]_vars => ReplyAttribution'
  <2>1. UNCHANGED vars /\ ReplyAttribution => ReplyAttribution'
    BY DEF vars, ReplyAttribution, Attributed
  <2> QED BY <2>1, AttributionStep
<1> QED BY <1>1, <1>2, TypeCorrect, PTL DEF Spec, TypeInv
-----------------------------------------------------------------------------
(* The guard implements the ledger.                                         *)

\* An owner has not contacted a node before Contact, and has after it; the
\* outcome it holds is its own.
Attempts == \A r \in Request :
                /\ pc[r] = "owner" => r \notin sent
                /\ pc[r] = "sent" => r \in sent
                /\ r \in claimed /\ val[r].state \in Outcomes => val[r].from = r

\* The inductive invariant of the refinement.
OnceInv == ClaimInv /\ ReplyAttribution /\ Attempts

\* Every step keeps the attempts in step with the program counters.
LEMMA AttemptsStep ==
    ASSUME TypeInv, Attempts, Next
    PROVE  Attempts'
<1>0. TypeOK /\ Phases
  BY DEF TypeInv
<1>a. NoRec.state \notin Outcomes
  BY DEF NoRec, Rec, Outcomes
<1>1. ASSUME NEW r \in Request, Begin(r) PROVE Attempts'
  <2>1. sent' = sent /\ r \notin sent /\ r \notin claimed /\ val[r] = NoRec
    BY <1>0, <1>1 DEF Begin, Phases, Phase, Early, TypeOK
  <2>2. /\ pc'[r] # "sent"
        /\ claimed' = claimed \/ val'[r] = val[r]
        /\ claimed' \subseteq claimed \cup {r}
        /\ \A x \in Request : x # r => pc'[x] = pc[x] /\ val'[x] = val[x]
    BY <1>0, <1>1 DEF Begin, Replay, Reserve, Saturated, Finish, Goto, TypeOK
  <2> QED BY <1>a, <2>1, <2>2 DEF Attempts
<1>2. ASSUME NEW r \in Request, Contact(r) PROVE Attempts'
  BY <1>0, <1>2 DEF Contact, Goto, Attempts, TypeOK
<1>3. ASSUME NEW r \in Request, SetNXCreated(r) PROVE Attempts'
  <2>1. r \notin sent /\ sent' = sent /\ val[r] = NoRec
    BY <1>0, <1>3 DEF SetNXCreated, Phases, Phase, Early, TypeOK
  <2> QED BY <1>0, <1>3, <1>a, <2>1 DEF SetNXCreated, Goto, Attempts, TypeOK
<1>4. ASSUME NEW r \in Request, Step(r), ~Contact(r), ~SetNXCreated(r) PROVE Attempts'
  <2>1. sent' = sent /\ claimed' = claimed
    BY <1>4
    DEF Step, SetNXExists, SetNXFailed, GetClaim, GetFailed, Install, Peek,
        NoEndpoint, Answer, CompleteLocal, PersistOk, PersistFailed, Mark, history
  <2>2. /\ pc'[r] \notin {"owner", "sent"}
        /\ \A x \in Request : x # r => pc'[x] = pc[x] /\ val'[x] = val[x]
    BY <1>0, <1>4
    DEF Step, SetNXExists, SetNXFailed, GetClaim, GetFailed, Install, Peek,
        NoEndpoint, Answer, CompleteLocal, PersistOk, PersistFailed, Mark,
        Goto, Finish, TypeOK
  <2>3. r \in claimed => val'[r] = val[r] \/ \E o : val'[r] = Rec(o, r)
    BY <1>0, <1>4
    DEF Step, SetNXExists, SetNXFailed, GetClaim, GetFailed, Install, Peek,
        NoEndpoint, Answer, CompleteLocal, PersistOk, PersistFailed, Mark,
        Phases, Phase, Early, TypeOK
  <2>4. r \in claimed /\ val'[r].state \in Outcomes => val'[r].from = r
    <3>1. \A o : Rec(o, r).from = r
      BY DEF Rec
    <3> QED BY <2>3, <3>1 DEF Attempts
  <2> QED BY <2>1, <2>2, <2>4 DEF Attempts
<1>5. ASSUME \/ Tick \/ \E i \in Instance : Crash(i)
             \/ \E r \in Request : DeliverLate(r) \/ LoseLate(r)
      PROVE  Attempts'
  BY <1>0, <1>5 DEF Tick, Crash, DeliverLate, LoseLate, Attempts, TypeOK, history
<1> QED BY <1>1, <1>2, <1>3, <1>4, <1>5 DEF Next

\* The inductive invariant holds at first, and every step preserves it.
LEMMA InitOnce == Init => OnceInv
<1>1. Init => ReplyAttribution
  BY DEF Init, ReplyAttribution, Attributed, NoEntry, NoClaim, NoRec, Rec, Outcomes
<1>2. Init => Attempts
  BY DEF Init, Attempts
<1> QED BY InitClaims, <1>1, <1>2 DEF OnceInv

LEMMA OnceInvStep == OnceInv /\ [Next]_vars => OnceInv'
<1> SUFFICES ASSUME OnceInv, [Next]_vars PROVE OnceInv'
  OBVIOUS
<1>1. ClaimInv'
  BY ClaimStep DEF OnceInv
<1>2. CASE UNCHANGED vars
  BY <1>1, <1>2 DEF vars, OnceInv, ReplyAttribution, Attributed, Attempts
<1>3. CASE Next
  BY <1>1, <1>3, AttributionStep, AttemptsStep DEF OnceInv, ClaimInv, Base
<1> QED BY <1>2, <1>3

\* The ledger's view of a request: its outcome and its reply.
OutcomeOf(r) == IF r \in claimed /\ val[r].state \in Outcomes THEN val[r] ELSE NoRec
ReplyOf(r)   == IF pc[r] = "done" THEN val[r] ELSE NoRec

\* A step that moves no claim, no attempt, no outcome and no reply is invisible.
LEMMA Invisible ==
    ASSUME UNCHANGED <<now, key, claimed, claimedAt, sent>>,
           \A r \in Request : OutcomeOf(r)' = OutcomeOf(r) /\ ReplyOf(r)' = ReplyOf(r)
    PROVE  UNCHANGED Once!once
BY DEF Once!once, OutcomeOf, ReplyOf

\* A request that finishes with an attributed record, or without one, tells
\* its caller what the ledger allows.
LEMMA Telling ==
    ASSUME TypeInv, ReplyAttribution, NEW r \in Request, NEW v,
           v \in (Valid \ {NoRec}) \cup {Unavailable},
           Attributed(v, key[r]),
           r \in claimed => v.state \in Outcomes /\ v.from = r /\ v = val[r],
           pc[r] # "done", Finish(r, v),
           UNCHANGED <<now, key, claimed, claimedAt, sent>>
    PROVE  Once!Tell(r) \/ Once!Decline(r)
<1>0. TypeOK
  BY DEF TypeInv
<1> DEFINE out == [x \in Request |-> OutcomeOf(x)]
<1> DEFINE rep == [x \in Request |-> ReplyOf(x)]
<1>1. rep[r] = NoRec
  BY DEF ReplyOf
<1>2. [x \in Request |-> ReplyOf(x)'] = [rep EXCEPT ![r] = v]
  BY <1>0 DEF ReplyOf, Finish, TypeOK
<1>3. [x \in Request |-> OutcomeOf(x)'] = out
  BY <1>0 DEF OutcomeOf, Finish, TypeOK
<1>4. CASE v.state \in Outcomes
  <2> DEFINE s == v.from
  <2>1. s \in claimed /\ key[s] = key[r] /\ val[s] = v /\ s \in Request
    BY <1>0, <1>4 DEF Attributed, TypeOK
  <2>2. r \in claimed => s = r
    OBVIOUS
  <2>3. out[s] = v /\ v # NoRec
    BY <1>4, <2>1 DEF OutcomeOf, NoRec, Rec, Outcomes
  <2>4. Once!Tell(r)
    BY <1>1, <1>2, <1>3, <2>1, <2>2, <2>3 DEF Once!Tell, OutcomeOf, ReplyOf
  <2> QED BY <2>4
<1>5. CASE v.state \notin Outcomes
  <2>1. r \notin claimed
    BY <1>5
  <2>2. v = Unavailable \/ \E x \in Request : v = Rec("pending", x)
    BY <1>5 DEF Valid, Rec
  <2>3. v \in Once!Evasions
    BY <2>2 DEF Once!Evasions, Once!Rec, Unavailable, Rec
  <2>4. Once!Decline(r)
    BY <1>1, <1>2, <1>3, <2>1, <2>3 DEF Once!Decline, OutcomeOf, ReplyOf
  <2> QED BY <2>4
<1> QED BY <1>4, <1>5

\* Every step of a guard with a shared store is a step of the ledger or none.
LEMMA RefinementStep ==
    ASSUME Shared, OnceInv, [Next]_vars
    PROVE  [Once!Next]_Once!once
<1>0. TypeOK /\ TypeInv /\ Phases /\ Timely /\ ReplyAttribution /\ Attempts /\ ClaimInv
  BY DEF OnceInv, ClaimInv, Base, TypeInv
<1>a. NoRec.state \notin Outcomes
  BY DEF NoRec, Rec, Outcomes
<1>b. ASSUME NEW r \in Request, UNCHANGED <<now, key, claimed, claimedAt, sent>>,
             \A x \in Request : x # r => pc'[x] = pc[x] /\ val'[x] = val[x],
             pc[r] # "done", pc'[r] # "done",
             r \in claimed => val'[r] = val[r]
      PROVE  UNCHANGED Once!once
  <2>1. \A x \in Request : OutcomeOf(x)' = OutcomeOf(x) /\ ReplyOf(x)' = ReplyOf(x)
    BY <1>b DEF OutcomeOf, ReplyOf
  <2> QED BY <1>b, <2>1, Invisible
<1>c. ASSUME NEW r \in Request, Once!Tell(r) \/ Once!Decline(r) PROVE Once!Next
  BY <1>c DEF Once!Next
<1>1. CASE UNCHANGED vars
  BY <1>1, Invisible DEF vars, OutcomeOf, ReplyOf
<1>2. ASSUME NEW r \in Request, Begin(r)
      PROVE  [Once!Next]_Once!once
  <2> DEFINE i == at[r]
  <2> DEFINE k == key[r]
  <2>0. /\ pc[r] = "idle" /\ r \notin claimed /\ i \in Instance /\ k \in Key
        /\ UNCHANGED <<now, key, sent>>
    BY <1>0, <1>2 DEF Begin, Phases, Phase, Early, TypeOK
  <2>1. PICK gone :
          \/ Replay(r, Clear(entries[i], gone), Unlink(lru[i], gone))
          \/ Reserve(r, Clear(entries[i], gone), Unlink(lru[i], gone))
          \/ Saturated(r, Clear(entries[i], gone), Unlink(lru[i], gone))
    BY <1>2 DEF Begin
  <2> DEFINE T == Clear(entries[i], gone)
  <2> DEFINE q == Unlink(lru[i], gone)
  <2>2. CASE Replay(r, T, q)
    <3>1. T[k] = entries[i][k] /\ T[k].rec.state # "none"
      BY <2>0, <2>2 DEF Replay, Used, Clear, NoEntry, NoRec, Rec
    <3>2. T[k].rec \in Valid \ {NoRec}
      BY <1>0, <2>0, <3>1 DEF TypeOK, Entry, NoRec, Rec
    <3>3. Attributed(T[k].rec, k)
      BY <1>0, <2>0, <3>1 DEF ReplyAttribution
    <3>4. Finish(r, T[k].rec) /\ UNCHANGED <<claimed, claimedAt>>
      BY <2>2 DEF Replay
    <3> HIDE DEF T
    <3>5. Once!Tell(r) \/ Once!Decline(r)
      BY <1>0, <2>0, <3>2, <3>3, <3>4, Telling
    <3> QED BY <1>c, <3>5
  <2>3. CASE Reserve(r, T, q) \/ Saturated(r, T, q)
    <3>1. /\ UNCHANGED <<claimed, claimedAt, val>>
          /\ \/ pc' = [pc EXCEPT ![r] = "setnx"]
             \/ pc' = [pc EXCEPT ![r] = "peek"]
      BY <2>3 DEF Reserve, Saturated, Goto
    <3> QED BY <1>0, <1>b, <2>0, <3>1 DEF TypeOK
  <2> QED BY <2>1, <2>2, <2>3
<1>3. ASSUME NEW r \in Request, SetNXCreated(r)
      PROVE  Once!Next
  <2>1. r \notin claimed /\ val[r] = NoRec /\ pc[r] = "setnx" /\ Absent(key[r])
    BY <1>0, <1>3 DEF SetNXCreated, Phases, Phase, Early
  <2>2. \A s \in claimed : key[s] = key[r] => claimedAt[s] + TTL <= now
    <3> SUFFICES ASSUME NEW s \in claimed, key[s] = key[r], ~(claimedAt[s] + TTL <= now)
                 PROVE  FALSE
      OBVIOUS
    <3>1. s \in Request /\ claimedAt[s] \in Nat /\ now \in Nat
      BY <1>0 DEF TypeOK
    <3>2. Live(s)
      BY ConstantsOK, <3>1 DEF Live
    <3> QED BY <1>0, <2>1, <3>1, <3>2 DEF ClaimInv, SharedClaims, Remembered, Absent
  <2>3. /\ claimed' = claimed \cup {r} /\ claimedAt' = [claimedAt EXCEPT ![r] = now]
        /\ pc' = [pc EXCEPT ![r] = "owner"]
        /\ UNCHANGED <<now, key, sent, val>>
    BY <1>3 DEF SetNXCreated, Goto, request
  <2>4. \A x \in Request : OutcomeOf(x)' = OutcomeOf(x) /\ ReplyOf(x)' = ReplyOf(x)
    BY <1>0, <1>a, <2>1, <2>3 DEF OutcomeOf, ReplyOf, TypeOK
  <2>5. ReplyOf(r) = NoRec
    BY <2>1 DEF ReplyOf
  <2>6. Once!Own(r)
    BY <2>1, <2>2, <2>3, <2>4, <2>5 DEF Once!Own, OutcomeOf, ReplyOf
  <2> QED BY <2>6 DEF Once!Next
<1>4. ASSUME NEW r \in Request, SetNXExists(r) \/ GetClaim(r)
      PROVE  UNCHANGED Once!once
  <2>1. /\ pc[r] \in Early /\ UNCHANGED <<now, key, claimed, claimedAt, sent>>
        /\ pc' = [pc EXCEPT ![r] = "get"] \/ pc' = [pc EXCEPT ![r] = "install"]
        /\ val' = val \/ val' = [val EXCEPT ![r] = redis[key[r]].rec]
    BY <1>4 DEF SetNXExists, GetClaim, Goto, Early, request, history
  <2>2. r \notin claimed
    BY <1>0, <2>1 DEF Phases, Phase
  <2> QED BY <1>0, <1>b, <2>1, <2>2 DEF TypeOK, Early
<1>5. ASSUME NEW r \in Request,
             SetNXFailed(r) \/ GetFailed(r) \/ Install(r) \/ Peek(r)
      PROVE  Once!Next
  <2>1. /\ pc[r] \in Early /\ UNCHANGED <<now, key, claimed, claimedAt, sent>>
    BY <1>5 DEF SetNXFailed, GetFailed, Install, Peek, Early, request, history
  <2>2. r \notin claimed /\ pc[r] # "done" /\ key[r] \in Key
    BY <1>0, <2>1 DEF Phases, Phase, Early, TypeOK
  <2>3. PICK v : /\ Finish(r, v)
                 /\ \/ v = Unavailable
                    \/ v = val[r] /\ pc[r] = "install"
                    \/ v = redis[key[r]].rec /\ ~Absent(key[r])
    BY <1>5 DEF SetNXFailed, GetFailed, Install, Peek
  <2>4. v \in (Valid \ {NoRec}) \cup {Unavailable}
    BY <1>0, <2>2, <2>3 DEF Phases, Phase, Absent, TypeOK, Stored, NoRec, Rec
  <2>5. Attributed(v, key[r])
    <3>1. Attributed(Unavailable, key[r])
      BY DEF Attributed, Unavailable, Rec, Outcomes
    <3> QED BY <1>0, <2>2, <2>3, <3>1 DEF ReplyAttribution
  <2>6. Once!Tell(r) \/ Once!Decline(r)
    BY <1>0, <2>1, <2>2, <2>3, <2>4, <2>5, Telling
  <2> QED BY <1>c, <2>6
<1>6. ASSUME NEW r \in Request, Contact(r)
      PROVE  Once!Next
  <2>1. /\ r \in claimed /\ r \notin sent /\ val[r] = NoRec
    BY <1>0, <1>6 DEF Contact, Phases, Phase, Owning, Attempts
  <2>2. /\ sent' = sent \cup {r} /\ UNCHANGED <<now, key, claimed, claimedAt, val>>
        /\ pc[r] = "owner" /\ pc' = [pc EXCEPT ![r] = "sent"]
    BY <1>6 DEF Contact, Goto, request
  <2>3. \A x \in Request : OutcomeOf(x)' = OutcomeOf(x) /\ ReplyOf(x)' = ReplyOf(x)
    BY <1>0, <2>2 DEF OutcomeOf, ReplyOf, TypeOK
  <2>4. OutcomeOf(r) = NoRec
    BY <2>1 DEF OutcomeOf
  <2>5. Once!Submit(r)
    BY <2>1, <2>2, <2>3, <2>4 DEF Once!Submit, OutcomeOf, ReplyOf
  <2> QED BY <2>5 DEF Once!Next
<1>7. ASSUME NEW r \in Request, NoEndpoint(r) \/ Answer(r)
      PROVE  Once!Next
  <2>1. PICK o \in Outcomes : /\ val' = [val EXCEPT ![r] = Rec(o, r)]
                              /\ pc[r] = "owner" => o = "unknown"
    BY <1>7 DEF NoEndpoint, Answer, Outcomes
  <2>2. /\ pc[r] \in {"owner", "sent"} /\ pc' = [pc EXCEPT ![r] = "complete"]
        /\ UNCHANGED <<now, key, claimed, claimedAt, sent>>
    BY <1>7 DEF NoEndpoint, Answer, Goto, request, history
  <2>3. r \in claimed /\ val[r] = NoRec /\ (r \notin sent => o = "unknown")
    BY <1>0, <2>1, <2>2 DEF Phases, Phase, Owning, Attempts
  <2> DEFINE out == [x \in Request |-> OutcomeOf(x)]
  <2>4. OutcomeOf(r) = NoRec
    BY <2>3, <1>a DEF OutcomeOf
  <2>5. [x \in Request |-> OutcomeOf(x)'] = [out EXCEPT ![r] = Rec(o, r)]
    BY <1>0, <2>1, <2>2, <2>3 DEF OutcomeOf, TypeOK, Rec
  <2>6. [x \in Request |-> ReplyOf(x)'] = [x \in Request |-> ReplyOf(x)]
    BY <1>0, <2>1, <2>2 DEF ReplyOf, TypeOK
  <2>7. Rec(o, r) \in Once!Results(r) /\ Once!Rec("unknown", r) = Rec("unknown", r)
    BY DEF Once!Results, Once!Rec, Rec, Outcomes
  <2>8. Once!Settle(r)
    BY <2>2, <2>3, <2>4, <2>5, <2>6, <2>7 DEF Once!Settle, OutcomeOf, ReplyOf
  <2> QED BY <2>8 DEF Once!Next
<1>8. ASSUME NEW r \in Request,
             CompleteLocal(r) \/ PersistOk(r) \/ PersistFailed(r) \/ Mark(r)
      PROVE  [Once!Next]_Once!once
  <2>1. /\ pc[r] \in Settled /\ UNCHANGED <<now, key, claimed, claimedAt, sent, val>>
    BY <1>8 DEF CompleteLocal, PersistOk, PersistFailed, Mark, Settled, request, history
  <2>2. r \in claimed /\ pc[r] # "done" /\ val[r].state \in Outcomes /\ val[r].from = r
    BY <1>0, <2>1 DEF Phases, Phase, Owning, Settled, Attempts
  <2>3. PICK step \in Steps : pc' = [pc EXCEPT ![r] = step]
    BY <1>8 DEF CompleteLocal, PersistOk, PersistFailed, Mark, Goto, Steps
  <2>4. CASE step = "done"
    <3>1. Finish(r, val[r])
      BY <1>0, <2>1, <2>3, <2>4 DEF Finish, TypeOK
    <3>2. val[r] \in Valid \ {NoRec}
      BY <1>0, <1>a, <2>2 DEF TypeOK, Record, Unavailable, Rec, Outcomes
    <3>3. Attributed(val[r], key[r])
      BY <1>0 DEF ReplyAttribution
    <3>4. Once!Tell(r) \/ Once!Decline(r)
      BY <1>0, <2>1, <2>2, <3>1, <3>2, <3>3, Telling
    <3> QED BY <1>c, <3>4
  <2>5. CASE step # "done"
    BY <1>0, <1>b, <2>1, <2>2, <2>3, <2>5 DEF TypeOK
  <2> QED BY <2>4, <2>5
<1>9. CASE Tick
  <2>1. /\ now' = now + 1
        /\ UNCHANGED <<key, claimed, claimedAt, sent, val, pc>>
    BY <1>9 DEF Tick, request, history
  <2>2. Once!Pass
    BY <2>1 DEF Once!Pass
  <2> QED BY <2>2 DEF Once!Next
<1>10. ASSUME NEW r \in Request, DeliverLate(r) \/ LoseLate(r)
       PROVE  UNCHANGED Once!once
  BY <1>10, Invisible DEF DeliverLate, LoseLate, OutcomeOf, ReplyOf, request, history
<1>11. ASSUME NEW i \in Instance, Crash(i)
       PROVE  UNCHANGED Once!once
  <2>1. /\ UNCHANGED <<now, key, claimed, claimedAt, sent, val>>
        /\ \A x \in Request : pc'[x] = pc[x] \/ (pc[x] # "done" /\ pc'[x] = "crashed")
    BY <1>11 DEF Crash, InFlight, request, history
  <2> QED BY <2>1, Invisible DEF OutcomeOf, ReplyOf
<1> QED BY <1>1, <1>2, <1>3, <1>4, <1>5, <1>6, <1>7, <1>8, <1>9, <1>10, <1>11
        DEF Next, Step

\* With a shared store the guard implements BroadcastOnce, for any number of
\* processes: callers cannot tell it from a ledger that admits one submission
\* per payload and window and answers with its outcome or not at all.
THEOREM GuardIsOnce ==
    ASSUME Shared
    PROVE  Spec => ImplementsOnce
<1>1. Init => Once!Init
  BY DEF Init, Once!Init
<1>2. Init => OnceInv
  BY InitOnce
<1>3. OnceInv /\ [Next]_vars => OnceInv'
  BY OnceInvStep
<1>4. OnceInv /\ [Next]_vars => [Once!Next]_Once!once
  BY RefinementStep
<1> QED BY <1>1, <1>2, <1>3, <1>4, PTL DEF Spec, ImplementsOnce, Once!Spec
-----------------------------------------------------------------------------
(* What a request reserved stays in its place.                              *)

Reserving == {"setnx", "get", "install", "owner", "sent", "complete",
              "persist", "markOk", "markErr"}

\* The record r reserved is in the table, made by r, under the expiry it was
\* given, and out of the list of evictable keys.
Kept(r) ==
    LET e == entries[at[r]][key[r]] IN
    /\ e.rec.state # "none" /\ e.by = r /\ e.expires = start[r] + TTL
    /\ lru[at[r]][key[r]] = 0
    /\ pc[r] \in {"persist", "markOk", "markErr"} => e.rec = val[r]

Reservations == \A r \in Request : pc[r] \in Reserving => Kept(r)

\* Every step keeps the reservations: they outlive their requests, and nobody
\* else touches them.
LEMMA ReservationStep ==
    ASSUME Base, Reservations, Next
    PROVE  Reservations'
<1> USE ConstantsOK
<1>0. TypeOK /\ Phases /\ Timely /\ Modal /\ Listed
  BY DEF Base, TypeInv
<1>a. /\ now \in Nat
      /\ \A c \in Request : /\ key[c] \in Key /\ at[c] \in Instance /\ start[c] \in Nat
                             /\ lru[at[c]] \in [Key -> Nat]
                             /\ entries[at[c]] \in [Key -> Entry]
  BY <1>0 DEF TypeOK
<1>b. \A c \in Request : pc[c] \in Reserving =>
        InFlight(c) /\ Kept(c) /\ start[c] + TTL > now
  BY <1>0, <1>a DEF Reservations, Reserving, InFlight, Timely, Due
<1>c. ASSUME UNCHANGED <<local, at, key, start, val>>, NEW c \in Request,
             pc'[c] = pc[c], pc[c] \in Reserving
      PROVE  Kept(c)'
  BY <1>b, <1>c DEF Kept, local
<1>1. ASSUME NEW r \in Request, Begin(r), NEW c \in Request, pc'[c] \in Reserving
      PROVE  Kept(c)'
  <2> DEFINE i == at[r]
  <2> DEFINE k == key[r]
  <2>0. i \in Instance /\ k \in Key /\ pc[r] = "idle"
    BY <1>0, <1>a, <1>1 DEF Begin
  <2>1. PICK S \in SweepSets(entries[i]) :
          LET gone == S \cup ({k} \cap Expired(entries[i])) IN
          \/ Replay(r, Clear(entries[i], gone), Unlink(lru[i], gone))
          \/ Reserve(r, Clear(entries[i], gone), Unlink(lru[i], gone))
          \/ Saturated(r, Clear(entries[i], gone), Unlink(lru[i], gone))
    BY <1>1 DEF Begin
  <2> DEFINE gone == S \cup ({k} \cap Expired(entries[i]))
  <2> DEFINE T == Clear(entries[i], gone)
  <2> DEFINE q == Unlink(lru[i], gone)
  <2>2. gone \subseteq Expired(entries[i])
    BY DEF SweepSets
  <2>3. T \in [Key -> Entry] /\ q \in [Key -> Nat] /\ ListedIn(T, q)
    <3>1. ListedIn(entries[i], lru[i])
      BY <1>0, <2>0 DEF ListedIn, Listed
    <3> QED BY <1>0, <1>a, <2>0, <3>1, SweptType, ClearListed
  <2>4. UNCHANGED <<now, at, key>> /\ start' = [start EXCEPT ![r] = now]
    BY <1>1 DEF Begin
  <2>5. ASSUME c # r
        PROVE  /\ pc[c] \in Reserving /\ Kept(c)
               /\ start'[c] = start[c] /\ val'[c] = val[c] /\ pc'[c] = pc[c]
    <3>1. val'[c] = val[c] /\ pc'[c] = pc[c]
      BY <1>0, <1>1, <2>1, <2>5 DEF Replay, Reserve, Saturated, Finish, Goto, TypeOK
    <3> QED BY <1>0, <1>1, <1>b, <2>4, <2>5, <3>1 DEF TypeOK
  <2>6. ASSUME c # r, at[c] = i
        PROVE  T[key[c]] = entries[i][key[c]] /\ q[key[c]] = 0
    <3>1. entries[i][key[c]].expires = start[c] + TTL /\ lru[i][key[c]] = 0
      BY <2>5, <2>6 DEF Kept
    <3>2. key[c] \notin gone
      BY <1>a, <1>b, <2>2, <2>5, <2>6, <3>1 DEF Expired
    <3> QED BY <1>a, <3>1, <3>2, OutStaysOut DEF Clear
  <2> HIDE DEF T, q
  <2>7. ASSUME c # r, at[c] # i
        PROVE  Kept(c)'
    <3>1. entries'[at[c]] = entries[at[c]] /\ lru'[at[c]] = lru[at[c]]
      BY <1>0, <1>a, <2>0, <2>1, <2>7 DEF Replay, Reserve, Saturated, TypeOK
    <3> QED BY <2>4, <2>5, <2>7, <3>1 DEF Kept
  <2>8. ASSUME c # r, at[c] = i, entries'[i][key[c]] = T[key[c]], lru'[i][key[c]] = 0
        PROVE  Kept(c)'
    BY <2>4, <2>5, <2>6, <2>8 DEF Kept
  <2>9. CASE Replay(r, T, q)
    <3>1. c # r
      BY <1>0, <1>1, <2>9 DEF Replay, Finish, TypeOK, Reserving
    <3>2. at[c] = i => MoveToBack(q, k)[key[c]] = 0
      <4>1. \A y \in Key : MoveToBack(q, k)[y] # 0 => q[y] # 0
        BY <2>0, <2>3, OutStaysOut
      <4> QED BY <1>a, <2>6, <3>1, <4>1
    <3>3. entries'[i] = T /\ lru'[i] = MoveToBack(q, k)
      BY <1>0, <2>0, <2>9 DEF Replay, TypeOK
    <3> QED BY <2>7, <2>8, <3>1, <3>2, <3>3
  <2>10. CASE Saturated(r, T, q)
    <3>1. c # r
      BY <1>0, <1>1, <2>10 DEF Saturated, Goto, Finish, TypeOK, Reserving
    <3>2. entries'[i] = T /\ lru'[i] = q
      BY <1>0, <2>0, <2>10 DEF Saturated, TypeOK
    <3> QED BY <2>6, <2>7, <2>8, <3>1, <3>2
  <2>11. CASE Reserve(r, T, q)
    <3> DEFINE mine == [rec |-> Rec("pending", r), expires |-> now + TTL, by |-> r]
    <3>1. PICK X \in SUBSET Used(T) :
            /\ Evicting(T, q, X)
            /\ entries' = [entries EXCEPT ![i] = [Clear(T, X) EXCEPT ![k] = mine]]
            /\ lru' = [lru EXCEPT ![i] = Unlink(q, X)]
      BY <2>11 DEF Reserve
    <3>2. entries'[i] = [Clear(T, X) EXCEPT ![k] = mine] /\ lru'[i] = Unlink(q, X)
      BY <1>0, <2>0, <3>1 DEF TypeOK
    <3>3. k \notin Used(T) /\ pc'[r] \in {"setnx", "owner"}
      BY <1>0, <2>11 DEF Reserve, Goto, TypeOK
    <3>4. X \subseteq Linked(q)
      BY <3>1 DEF Evicting, IsFront
    <3>5. CASE c = r
      <4>1. q[k] = 0
        BY <2>0, <2>3, <3>3 DEF ListedIn, Used
      <4>2. Unlink(q, X)[k] = 0
        BY <2>0, <2>3, <4>1, OutStaysOut
      <4>3. entries'[i][k] = mine
        BY <2>0, <3>2 DEF Clear
      <4>4. mine.rec.state # "none" /\ mine.expires = now + TTL /\ mine.by = r
        BY DEF Rec
      <4>5. start'[r] = now
        BY <1>0, <2>4 DEF TypeOK
      <4> HIDE DEF mine
      <4> QED BY <2>4, <3>2, <3>3, <3>5, <4>2, <4>3, <4>4, <4>5 DEF Kept
    <3>6. CASE c # r /\ at[c] = i
      <4>1. key[c] \notin X
        BY <2>6, <3>4, <3>6 DEF Linked
      <4>2. key[c] # k
        BY <2>0, <2>5, <2>6, <3>3, <3>6 DEF Used, Kept
      <4>3. entries'[i][key[c]] = T[key[c]]
        BY <1>a, <3>2, <4>1, <4>2 DEF Clear
      <4>4. Unlink(q, X)[key[c]] = 0
        BY <1>a, <2>3, <2>6, <3>6, OutStaysOut
      <4> QED BY <2>8, <3>2, <3>6, <4>3, <4>4
    <3> QED BY <2>7, <3>5, <3>6
  <2> QED BY <2>1, <2>9, <2>10, <2>11 DEF T, q
<1>2. ASSUME NEW r \in Request, Step(r), NEW c \in Request, pc'[c] \in Reserving
      PROVE  Kept(c)'
  <2> DEFINE i == at[r]
  <2> DEFINE k == key[r]
  <2>0. i \in Instance /\ k \in Key /\ UNCHANGED <<now, at, key, start>>
    BY <1>a, <1>2
    DEF Step, SetNXCreated, SetNXExists, SetNXFailed, GetClaim, GetFailed, Install,
        Peek, Contact, NoEndpoint, Answer, CompleteLocal, PersistOk, PersistFailed,
        Mark, request
  <2>1. c # r => pc'[c] = pc[c] /\ val'[c] = val[c] /\ Kept(c)
    <3>1. c # r => pc'[c] = pc[c] /\ val'[c] = val[c]
      BY <1>0, <1>2
      DEF Step, SetNXCreated, SetNXExists, SetNXFailed, GetClaim, GetFailed, Install,
          Peek, Contact, NoEndpoint, Answer, CompleteLocal, PersistOk, PersistFailed,
          Mark, Goto, Finish, TypeOK
    <3> QED BY <1>2, <1>b, <3>1
  <2>2. CASE UNCHANGED local
    <3>1. CASE c # r
      BY <2>0, <2>1, <2>2, <3>1 DEF Kept, local
    <3>2. CASE c = r
      <4>1. /\ pc[r] \in Reserving
            /\ pc'[r] = "persist" => entries[i][k].rec = val'[r]
            /\ pc'[r] \in {"markOk", "markErr"} => pc[r] = "persist" /\ val'[r] = val[r]
        <5>1. CASE CompleteLocal(r)
          <6>1. pc[r] \in Reserving /\ pc'[r] \in {"done", "persist"}
            BY <1>0, <5>1 DEF CompleteLocal, Goto, TypeOK, Reserving
          <6>2. entries[i][k].rec.state # "none"
            BY <1>b, <5>1 DEF CompleteLocal, Reserving, Kept
          <6>3. entries'[i][k].rec = val[r] /\ val' = val
            BY <1>0, <1>a, <2>0, <5>1, <6>2 DEF CompleteLocal, TypeOK, Entry
          <6> QED BY <2>2, <6>1, <6>3 DEF local
        <5>2. CASE ~CompleteLocal(r)
          BY <1>0, <1>2, <3>2, <5>2
          DEF Step, SetNXCreated, SetNXExists, SetNXFailed, GetClaim, GetFailed,
              Install, Peek, Contact, NoEndpoint, Answer, PersistOk, PersistFailed,
              Mark, Goto, Finish, TypeOK, Reserving
        <5> QED BY <5>1, <5>2
      <4> QED BY <1>b, <2>0, <2>2, <3>2, <4>1 DEF Kept, local
    <3> QED BY <3>1, <3>2
  <2>3. ASSUME ~UNCHANGED local
        PROVE  /\ pc[r] \in Reserving
               /\ SetNXFailed(r) \/ GetFailed(r) \/ Install(r) \/ CompleteLocal(r) \/ Mark(r)
    BY <1>2, <2>3
    DEF Step, SetNXCreated, SetNXExists, SetNXFailed, GetClaim, GetFailed, Install,
        Peek, Contact, NoEndpoint, Answer, CompleteLocal, PersistOk, PersistFailed,
        Mark, Reserving
  <2>4. ASSUME ~UNCHANGED local, c # r
        PROVE  at[c] # i \/ key[c] # k
    BY <1>b, <2>1, <2>3, <2>4 DEF Kept
  <2>5. ASSUME c # r, RemoveLocal(i, {k}), at[c] # i \/ key[c] # k
        PROVE  Kept(c)'
    <3>1. CASE at[c] # i
      BY <1>0, <1>a, <2>0, <2>1, <2>5, <3>1 DEF RemoveLocal, Kept, TypeOK
    <3>2. CASE at[c] = i
      <4>1. entries'[i] = Clear(entries[i], {k}) /\ lru'[i] = Unlink(lru[i], {k})
        BY <1>0, <2>0, <2>5 DEF RemoveLocal, TypeOK
      <4>2. entries'[i][key[c]] = entries[i][key[c]]
        BY <1>a, <2>5, <3>2, <4>1 DEF Clear
      <4>3. lru'[i][key[c]] = 0
        BY <1>a, <2>1, <2>5, <3>2, <4>1, OutStaysOut DEF Kept
      <4> QED BY <2>0, <2>1, <2>5, <3>2, <4>2, <4>3 DEF Kept
    <3> QED BY <3>1, <3>2
  <2>6. ASSUME c # r, at[c] # i \/ key[c] # k,
               \/ entries' = [entries EXCEPT ![i][k].rec = val[r]]
               \/ entries' = entries,
               \/ lru' = [lru EXCEPT ![i] = MarkEvictable(@, k)]
               \/ lru' = lru
        PROVE  Kept(c)'
    <3>1. entries'[at[c]][key[c]] = entries[at[c]][key[c]]
      <4>1. CASE entries' = [entries EXCEPT ![i][k].rec = val[r]]
        BY <1>0, <1>a, <2>0, <2>6, <4>1 DEF TypeOK
      <4> QED BY <2>6, <4>1
    <3>2. \A y \in Key : MarkEvictable(lru[i], k)[y] # 0 => lru[i][y] # 0 \/ y = k
      BY <1>a, <2>0, OutStaysOut
    <3>3. MarkEvictable(lru[i], k) \in [Key -> Nat]
      BY <1>a, <2>0, MarkType
    <3>4. lru'[at[c]][key[c]] = 0
      BY <1>0, <1>a, <2>0, <2>1, <2>6, <3>2, <3>3 DEF TypeOK, Kept
    <3> QED BY <2>0, <2>1, <2>6, <3>1, <3>4 DEF Kept
  <2>7. CASE ~UNCHANGED local /\ c # r
    <3>1. CASE SetNXFailed(r) \/ GetFailed(r)
      BY <2>4, <2>5, <2>7, <3>1 DEF SetNXFailed, GetFailed
    <3>2. CASE Install(r)
      BY <2>4, <2>5, <2>6, <2>7, <3>2 DEF Install
    <3>3. CASE CompleteLocal(r)
      BY <2>4, <2>6, <2>7, <3>3 DEF CompleteLocal
    <3>4. CASE Mark(r)
      BY <2>4, <2>6, <2>7, <3>4 DEF Mark
    <3> QED BY <2>3, <2>7, <3>1, <3>2, <3>3, <3>4
  <2>8. CASE ~UNCHANGED local /\ c = r
    <3>1. CompleteLocal(r) /\ pc'[r] = "persist"
      BY <1>0, <1>2, <2>3, <2>8
      DEF SetNXFailed, GetFailed, Install, CompleteLocal, Mark, Goto, Finish, TypeOK,
          Reserving
    <3>2. /\ entries' = [entries EXCEPT ![i][k].rec = val[r]] /\ val' = val
          /\ lru' = lru /\ val[r].state \in Outcomes
      BY <1>0, <2>8, <3>1
      DEF CompleteLocal, Goto, TypeOK, Phases, Phase, Settled
    <3>3. /\ entries'[i][k].rec = val[r]
          /\ entries'[i][k].expires = entries[i][k].expires
          /\ entries'[i][k].by = entries[i][k].by
      BY <1>0, <1>a, <2>0, <3>2 DEF TypeOK, Entry
    <3>4. Kept(r)
      BY <1>b, <2>3, <2>8
    <3> QED BY <2>0, <2>8, <3>2, <3>3, <3>4 DEF Kept, Outcomes
  <2> QED BY <2>2, <2>7, <2>8
<1>3. ASSUME Tick \/ \E r \in Request : DeliverLate(r) \/ LoseLate(r),
             NEW c \in Request, pc'[c] \in Reserving
      PROVE  Kept(c)'
  BY <1>c, <1>3 DEF Tick, DeliverLate, LoseLate, request
<1>4. ASSUME NEW i \in Instance, Crash(i), NEW c \in Request, pc'[c] \in Reserving
      PROVE  Kept(c)'
  <2>1. pc'[c] = pc[c] /\ at[c] # i /\ pc[c] \in Reserving
    BY <1>0, <1>4 DEF Crash, Reserving, InFlight
  <2>2. entries'[at[c]] = entries[at[c]] /\ lru'[at[c]] = lru[at[c]]
    BY <1>0, <1>4, <1>a, <2>1 DEF Crash, TypeOK
  <2> QED BY <1>4, <1>b, <2>1, <2>2 DEF Kept, Crash, request
<1> QED BY <1>1, <1>2, <1>3, <1>4 DEF Next, Reservations
-----------------------------------------------------------------------------
(* The age of a reply.                                                      *)

\* A request is served before it owns, and a write it abandoned is of its
\* budget too.
Admitted ==
    \A r \in Request :
        /\ r \in claimed => start[r] <= claimedAt[r]
        /\ r \in late => start[r] <= now /\ now <= start[r] + Budget

\* When the outcome of an attempt was claimed, if it is one.
MadeAt(rec) == claimedAt[rec.from]

\* The bounds on what Redis, a table and a request may hold.
RedisBound(k) ==
    redis[k].rec.state # "none" =>
        /\ redis[k].expires > now
        /\ redis[k].rec.state \in Outcomes =>
             redis[k].expires <= MadeAt(redis[k].rec) + Budget + TTL

TableBound(i, k) ==
    entries[i][k].rec.state \in Outcomes =>
        entries[i][k].expires < MadeAt(entries[i][k].rec) + Budget + 2 * TTL

HeldBound(r) ==
    val[r].state \in Outcomes =>
        /\ start[r] + 1 < MadeAt(val[r]) + Budget + 2 * TTL
        /\ pc[r] = "install" => start[r] < MadeAt(val[r]) + Budget + TTL

Ages == /\ \A k \in Key : RedisBound(k)
        /\ \A i \in Instance, k \in Key : TableBound(i, k)
        /\ \A r \in Request : HeldBound(r)

\* The inductive invariant of ReplyAge.
AgeInv == OnceInv /\ Reservations /\ Admitted /\ Ages

\* Every step keeps requests and their late writes within the budget.
LEMMA AdmittedStep ==
    ASSUME TypeInv, Timely, Admitted, Next
    PROVE  Admitted'
<1> USE ConstantsOK
<1>0. TypeOK /\ Phases /\ now \in Nat
  BY DEF TypeInv, TypeOK
<1>1. ASSUME NEW r \in Request, Begin(r) PROVE Admitted'
  <2>1. /\ r \notin claimed /\ r \notin late /\ late' = late
        /\ start' = [start EXCEPT ![r] = now] /\ now' = now
    BY <1>0, <1>1 DEF Begin, Phases, Phase, Early
  <2>2. \/ UNCHANGED <<claimed, claimedAt>>
        \/ claimed' = claimed \cup {r} /\ claimedAt' = [claimedAt EXCEPT ![r] = now]
    BY <1>1 DEF Begin, Replay, Reserve, Saturated
  <2> QED BY <1>0, <2>1, <2>2 DEF Admitted, TypeOK
<1>2. ASSUME NEW r \in Request, Step(r) PROVE Admitted'
  <2>1. now' = now /\ start' = start /\ InFlight(r)
    BY <1>2
    DEF Step, SetNXCreated, SetNXExists, SetNXFailed, GetClaim, GetFailed, Install,
        Peek, Contact, NoEndpoint, Answer, CompleteLocal, PersistOk, PersistFailed,
        Mark, InFlight, request
  <2>2. late' \subseteq late \cup {r}
    BY <1>2
    DEF Step, SetNXCreated, SetNXExists, SetNXFailed, GetClaim, GetFailed, Install,
        Peek, Contact, NoEndpoint, Answer, CompleteLocal, PersistOk, PersistFailed,
        Mark, store
  <2>3. \/ UNCHANGED <<claimed, claimedAt>>
        \/ claimed' = claimed \cup {r} /\ claimedAt' = [claimedAt EXCEPT ![r] = now]
    BY <1>2
    DEF Step, SetNXCreated, SetNXExists, SetNXFailed, GetClaim, GetFailed, Install,
        Peek, Contact, NoEndpoint, Answer, CompleteLocal, PersistOk, PersistFailed,
        Mark, history
  <2>4. start[r] <= now /\ now <= start[r] + Budget
    BY <2>1 DEF Timely, Due
  <2> QED BY <1>0, <2>1, <2>2, <2>3, <2>4 DEF Admitted, TypeOK
<1>3. ASSUME NEW r \in Request, DeliverLate(r) \/ LoseLate(r) PROVE Admitted'
  BY <1>3 DEF DeliverLate, LoseLate, Admitted, request, history
<1>4. CASE Tick
  BY <1>0, <1>4 DEF Tick, Admitted, TypeOK, request, history
<1>5. ASSUME NEW i \in Instance, Crash(i) PROVE Admitted'
  BY <1>0, <1>5 DEF Crash, Admitted, Timely, Due, TypeOK, request, history
<1> QED BY <1>1, <1>2, <1>3, <1>4, <1>5 DEF Next

\* A record is of an owner, whose claim keeps its date.
LEMMA DatesStay ==
    ASSUME TypeInv, Next, NEW rec, NEW k, Attributed(rec, k), rec.state \in Outcomes
    PROVE  MadeAt(rec)' = MadeAt(rec) /\ MadeAt(rec) \in Nat /\ rec.from \in claimed
<1>0. TypeOK /\ Phases
  BY DEF TypeInv
<1>1. rec.from \in claimed /\ rec.from \in Request
  BY <1>0 DEF Attributed, TypeOK
<1>2. ASSUME NEW r \in Request, Begin(r) \/ Step(r)
      PROVE  claimedAt'[rec.from] = claimedAt[rec.from]
  <2>1. \/ claimedAt' = claimedAt
        \/ r \notin claimed /\ claimedAt' = [claimedAt EXCEPT ![r] = now]
    BY <1>0, <1>2
    DEF Begin, Replay, Reserve, Saturated, Step, SetNXCreated, SetNXExists, SetNXFailed,
        GetClaim, GetFailed, Install, Peek, Contact, NoEndpoint, Answer, CompleteLocal,
        PersistOk, PersistFailed, Mark, Phases, Phase, Early, history
  <2> QED BY <1>0, <1>1, <2>1 DEF TypeOK
<1>3. ASSUME \/ Tick \/ \E i \in Instance : Crash(i)
             \/ \E r \in Request : DeliverLate(r) \/ LoseLate(r)
      PROVE  claimedAt' = claimedAt
  BY <1>3 DEF Tick, Crash, DeliverLate, LoseLate, history
<1>4. claimedAt'[rec.from] = claimedAt[rec.from]
  BY <1>2, <1>3 DEF Next
<1>5. claimedAt[rec.from] \in Nat
  BY <1>0, <1>1 DEF TypeOK
<1> QED BY <1>1, <1>4, <1>5 DEF MadeAt

\* The owner of an attempt, while it is served or its write is late.
LEMMA OwnerIsRecent ==
    ASSUME OnceInv, Admitted, NEW r \in Request, r \in claimed,
           InFlight(r) \/ r \in late, val[r].state \in Outcomes
    PROVE  /\ val[r].from = r /\ claimedAt[r] \in Nat
           /\ now <= claimedAt[r] + Budget
<1>0. TypeOK /\ Timely /\ Attempts
  BY DEF OnceInv, ClaimInv, Base, TypeInv
<1>1. start[r] <= claimedAt[r] /\ now <= start[r] + Budget
  BY <1>0 DEF Admitted, Timely, Due
<1>2. claimedAt[r] \in Nat /\ start[r] \in Nat /\ now \in Nat
  BY <1>0 DEF TypeOK
<1> QED BY <1>0, <1>1, <1>2, ConstantsOK DEF Attempts

\* Every step keeps what Redis stores within a budget and a window of its claim.
LEMMA RedisAgeStep ==
    ASSUME AgeInv, Next, NEW k \in Key
    PROVE  RedisBound(k)'
<1> USE ConstantsOK
<1>0. TypeOK /\ TypeInv /\ Phases /\ ReplyAttribution /\ OnceInv /\ Admitted
  BY DEF AgeInv, OnceInv, ClaimInv, Base, TypeInv
<1>a. now \in Nat /\ redis[k] \in Stored /\ RedisBound(k) /\ Attributed(redis[k].rec, k)
  BY <1>0 DEF AgeInv, Ages, TypeOK, ReplyAttribution
<1>b. ASSUME now' = now, redis'[k] = redis[k] PROVE RedisBound(k)'
  <2>1. redis[k].rec.state \in Outcomes => MadeAt(redis[k].rec)' = MadeAt(redis[k].rec)
    BY <1>0, <1>a, <1>b, DatesStay DEF MadeAt
  <2> QED BY <1>a, <1>b, <2>1 DEF RedisBound, MadeAt
<1>c. ASSUME NEW r \in Request, CreateClaim(r), now' = now PROVE RedisBound(k)'
  <2>1. CASE k = key[r]
    <3>1. redis'[k] = [rec |-> Rec("pending", r), expires |-> now + TTL]
      BY <1>0, <1>c, <2>1 DEF CreateClaim, TypeOK
    <3> QED BY <1>a, <1>c, <3>1 DEF RedisBound, Rec, Outcomes
  <2>2. CASE k # key[r]
    BY <1>0, <1>b, <1>c, <2>2 DEF CreateClaim, TypeOK
  <2> QED BY <2>1, <2>2
<1>d. ASSUME NEW r \in Request, StoreOutcome(r), now' = now, r \in claimed,
             InFlight(r) \/ r \in late, val[r].state \in Outcomes
      PROVE  RedisBound(k)'
  <2>1. CASE k = key[r]
    <3>1. redis'[k] = [rec |-> val[r], expires |-> now + TTL]
      BY <1>0, <1>d, <2>1 DEF StoreOutcome, TypeOK
    <3>2. /\ val[r].from = r /\ claimedAt[r] \in Nat
          /\ now <= claimedAt[r] + Budget
      BY <1>0, <1>d, OwnerIsRecent
    <3>3. claimedAt'[r] = claimedAt[r]
      <4>1. Attributed(val[r], key[r])
        BY <1>0 DEF ReplyAttribution
      <4>2. claimedAt'[val[r].from] = claimedAt[val[r].from]
        BY <1>0, <1>d, <4>1, DatesStay DEF MadeAt
      <4> QED BY <3>2, <4>2
    <3> QED BY <1>a, <1>d, <3>1, <3>2, <3>3 DEF RedisBound, MadeAt
  <2>2. CASE k # key[r]
    BY <1>0, <1>b, <1>d, <2>2 DEF StoreOutcome, TypeOK
  <2> QED BY <2>1, <2>2
<1>1. ASSUME NEW r \in Request, SetNXCreated(r) \/ SetNXFailed(r)
      PROVE  RedisBound(k)'
  BY <1>1, <1>b, <1>c DEF SetNXCreated, SetNXFailed, store
<1>2. ASSUME NEW r \in Request, PersistOk(r) \/ PersistFailed(r)
      PROVE  RedisBound(k)'
  <2>1. r \in claimed /\ InFlight(r) /\ val[r].state \in Outcomes /\ now' = now
    BY <1>0, <1>2
    DEF PersistOk, PersistFailed, Phases, Phase, Owning, Settled, InFlight
  <2> QED BY <1>2, <1>b, <1>d, <2>1 DEF PersistOk, PersistFailed, store
<1>3. ASSUME NEW r \in Request, DeliverLate(r)
      PROVE  RedisBound(k)'
  <2>1. r \in late /\ now' = now /\ (r \in claimed => val[r].state \in Outcomes)
    BY <1>0, <1>3 DEF DeliverLate, Phases, Phase
  <2> QED BY <1>3, <1>b, <1>c, <1>d, <2>1 DEF DeliverLate
<1>4. CASE Tick
  <2>1. CASE redis[k].expires <= now + 1
    BY <1>4, <2>1 DEF Tick, RedisBound, NoClaim, NoRec, Rec
  <2>2. CASE ~(redis[k].expires <= now + 1)
    <3>1. redis'[k] = redis[k] /\ now' = now + 1 /\ claimedAt' = claimedAt
      BY <1>4, <2>2 DEF Tick, history
    <3> QED BY <1>a, <2>2, <3>1 DEF RedisBound, MadeAt, Stored
  <2> QED BY <2>1, <2>2
<1>5. ASSUME NEW r \in Request, Begin(r) \/ LoseLate(r) PROVE RedisBound(k)'
  BY <1>5, <1>b DEF Begin, LoseLate
<1>6. ASSUME NEW r \in Request, Step(r), ~SetNXCreated(r), ~SetNXFailed(r),
             ~PersistOk(r), ~PersistFailed(r)
      PROVE  RedisBound(k)'
  BY <1>6, <1>b
  DEF Step, SetNXExists, GetClaim, GetFailed, Install, Peek, Contact, NoEndpoint,
      Answer, CompleteLocal, Mark, store
<1>7. ASSUME NEW i \in Instance, Crash(i) PROVE RedisBound(k)'
  BY <1>7, <1>b DEF Crash
<1> QED BY <1>1, <1>2, <1>3, <1>4, <1>5, <1>6, <1>7 DEF Next

\* Every step keeps a copy from outliving the claim it copies by a window more.
LEMMA TableAgeStep ==
    ASSUME AgeInv, Next, NEW i \in Instance, NEW k \in Key
    PROVE  TableBound(i, k)'
<1> USE ConstantsOK
<1>0. TypeOK /\ TypeInv /\ Phases /\ ReplyAttribution /\ OnceInv /\ Admitted /\ Reservations
  BY DEF AgeInv, OnceInv, ClaimInv, Base, TypeInv
<1>a. /\ TableBound(i, k) /\ entries[i][k] \in Entry
      /\ Attributed(entries[i][k].rec, k)
  BY <1>0 DEF AgeInv, Ages, TypeOK, ReplyAttribution
<1>b. ASSUME entries'[i][k] = entries[i][k] PROVE TableBound(i, k)'
  <2>1. entries[i][k].rec.state \in Outcomes
          => MadeAt(entries[i][k].rec)' = MadeAt(entries[i][k].rec)
    BY <1>0, <1>a, <1>b, DatesStay DEF MadeAt
  <2> QED BY <1>a, <1>b, <2>1 DEF TableBound, MadeAt
<1>c. ASSUME entries'[i][k].rec.state \notin Outcomes PROVE TableBound(i, k)'
  BY <1>c DEF TableBound
<1>d. NoEntry.rec.state \notin Outcomes /\ \A r : Rec("pending", r).state \notin Outcomes
  BY DEF NoEntry, NoRec, Rec, Outcomes
<1>1. ASSUME NEW r \in Request, Begin(r) PROVE TableBound(i, k)'
  <2>0. at[r] \in Instance /\ key[r] \in Key
    BY <1>0 DEF TypeOK
  <2>1. PICK gone :
          \/ Replay(r, Clear(entries[at[r]], gone), Unlink(lru[at[r]], gone))
          \/ Reserve(r, Clear(entries[at[r]], gone), Unlink(lru[at[r]], gone))
          \/ Saturated(r, Clear(entries[at[r]], gone), Unlink(lru[at[r]], gone))
    BY <1>1 DEF Begin
  <2> DEFINE T == Clear(entries[at[r]], gone)
  <2>2. \A X : Clear(T, X)[k] = T[k] \/ Clear(T, X)[k] = NoEntry
    BY DEF Clear
  <2>3. T[k] = entries[at[r]][k] \/ T[k] = NoEntry
    BY DEF Clear
  <2> HIDE DEF T
  <2>4. CASE i # at[r]
    <3>1. entries'[i] = entries[i]
      BY <1>0, <2>0, <2>1, <2>4 DEF Replay, Reserve, Saturated, TypeOK, T
    <3> QED BY <1>b, <3>1
  <2>5. CASE i = at[r]
    <3>1. entries'[i] = T \/ \E X, e : /\ entries'[i] = [Clear(T, X) EXCEPT ![key[r]] = e]
                                       /\ e.rec = Rec("pending", r)
      <4>1. CASE Reserve(r, T, Unlink(lru[i], gone))
        <5>1. PICK X : entries' = [entries EXCEPT ![i] =
                          [Clear(T, X) EXCEPT ![key[r]] = [rec |-> Rec("pending", r),
                                                expires |-> now + TTL, by |-> r]]]
          BY <2>5, <4>1 DEF Reserve
        <5>2. entries'[i] = [Clear(T, X) EXCEPT ![key[r]] = [rec |-> Rec("pending", r),
                                                expires |-> now + TTL, by |-> r]]
          BY <1>0, <2>0, <2>5, <5>1 DEF TypeOK
        <5> QED BY <5>2
      <4>2. CASE Replay(r, T, Unlink(lru[i], gone)) \/ Saturated(r, T, Unlink(lru[i], gone))
        BY <1>0, <2>0, <2>5, <4>2 DEF Replay, Saturated, TypeOK
      <4> QED BY <2>1, <2>5, <4>1, <4>2 DEF T
    <3>2. \/ entries'[i][k] = entries[i][k] \/ entries'[i][k] = NoEntry
          \/ entries'[i][k].rec = Rec("pending", r)
      BY <2>0, <2>2, <2>3, <2>5, <3>1 DEF Clear
    <3> QED BY <1>b, <1>c, <1>d, <3>2
  <2> QED BY <2>4, <2>5
<1>2. ASSUME NEW r \in Request, Step(r) PROVE TableBound(i, k)'
  <2>0. at[r] \in Instance /\ key[r] \in Key
    BY <1>0 DEF TypeOK
  <2>1. CASE entries' = entries
    BY <1>b, <2>1
  <2>2. CASE RemoveLocal(at[r], {key[r]})
    <3>1. entries'[i][k] = entries[i][k] \/ entries'[i][k] = NoEntry
      BY <1>0, <2>0, <2>2 DEF RemoveLocal, Clear, TypeOK
    <3> QED BY <1>b, <1>c, <1>d, <3>1
  <2>3. ASSUME entries' = [entries EXCEPT ![at[r]][key[r]].rec = val[r]],
               pc[r] \in {"install", "complete"}
        PROVE  TableBound(i, k)'
    <3>1. CASE i = at[r] /\ k = key[r]
      <4>1. entries'[i][k].rec = val[r] /\ entries'[i][k].expires = entries[i][k].expires
        BY <1>0, <2>0, <2>3, <3>1 DEF TypeOK, Entry
      <4>2. entries[i][k].expires = start[r] + TTL
        BY <1>0, <2>3, <3>1 DEF Reservations, Reserving, Kept
      <4>3. ASSUME val[r].state \in Outcomes
            PROVE  start[r] + TTL < MadeAt(val[r]) + Budget + 2 * TTL
        <5>1. start[r] \in Nat /\ MadeAt(val[r]) \in Nat
          BY <1>0, <4>3, DatesStay DEF TypeOK, ReplyAttribution
        <5>2. CASE pc[r] = "install"
          <6>1. start[r] < MadeAt(val[r]) + Budget + TTL
            BY <4>3, <5>2 DEF AgeInv, Ages, HeldBound
          <6> QED BY <5>1, <6>1
        <5>3. CASE pc[r] = "complete"
          <6>1. r \in claimed /\ val[r].from = r
            BY <1>0, <4>3, <5>3 DEF Phases, Phase, Owning, OnceInv, Attempts
          <6>2. start[r] <= MadeAt(val[r])
            BY <1>0, <6>1 DEF Admitted, MadeAt
          <6> QED BY <5>1, <6>2
        <5> QED BY <2>3, <5>2, <5>3
      <4>4. val[r].state \in Outcomes => claimedAt'[val[r].from] = claimedAt[val[r].from]
        <5>1. Attributed(val[r], key[r])
          BY <1>0 DEF ReplyAttribution
        <5> QED BY <1>0, <5>1, DatesStay DEF MadeAt
      <4> QED BY <4>1, <4>2, <4>3, <4>4 DEF TableBound, MadeAt
    <3>2. CASE ~(i = at[r] /\ k = key[r])
      <4>1. entries'[i][k] = entries[i][k]
        BY <1>0, <2>0, <2>3, <3>2 DEF TypeOK
      <4> QED BY <1>b, <4>1
    <3> QED BY <3>1, <3>2
  <2>4. CASE Install(r)
    BY <2>1, <2>2, <2>3, <2>4 DEF Install, local
  <2>5. CASE CompleteLocal(r)
    BY <2>1, <2>3, <2>5 DEF CompleteLocal, local
  <2>6. CASE \/ SetNXCreated(r) \/ SetNXExists(r) \/ GetClaim(r) \/ Peek(r)
             \/ Contact(r) \/ NoEndpoint(r) \/ Answer(r) \/ Mark(r)
             \/ PersistOk(r) \/ PersistFailed(r)
    BY <2>1, <2>6
    DEF SetNXCreated, SetNXExists, GetClaim, Peek, Contact, NoEndpoint, Answer,
        Mark, PersistOk, PersistFailed, local
  <2>7. CASE SetNXFailed(r) \/ GetFailed(r)
    BY <2>2, <2>7 DEF SetNXFailed, GetFailed
  <2> QED BY <1>2, <2>4, <2>5, <2>6, <2>7 DEF Step
<1>3. CASE Tick \/ \E r \in Request : DeliverLate(r) \/ LoseLate(r)
  BY <1>3, <1>b DEF Tick, DeliverLate, LoseLate, local
<1>4. ASSUME NEW j \in Instance, Crash(j) PROVE TableBound(i, k)'
  <2>1. entries'[i][k] = entries[i][k] \/ entries'[i][k] = NoEntry
    BY <1>0, <1>4 DEF Crash, TypeOK
  <2> QED BY <1>b, <1>c, <1>d, <2>1
<1> QED BY <1>1, <1>2, <1>3, <1>4 DEF Next

\* Every step keeps what a request holds young enough.
LEMMA HeldAgeStep ==
    ASSUME AgeInv, Next, NEW r \in Request
    PROVE  HeldBound(r)'
<1> USE ConstantsOK
<1>0. TypeOK /\ TypeInv /\ Phases /\ Timely /\ ReplyAttribution /\ OnceInv /\ Admitted
  BY DEF AgeInv, OnceInv, ClaimInv, Base, TypeInv
<1>a. /\ key[r] \in Key /\ at[r] \in Instance /\ now \in Nat /\ start[r] \in Nat
      /\ HeldBound(r) /\ RedisBound(key[r]) /\ TableBound(at[r], key[r])
      /\ Attributed(val[r], key[r]) /\ Attributed(redis[key[r]].rec, key[r])
      /\ Attributed(entries[at[r]][key[r]].rec, key[r])
      /\ redis[key[r]].expires \in Nat /\ entries[at[r]][key[r]].expires \in Nat
  BY <1>0 DEF AgeInv, Ages, TypeOK, ReplyAttribution, Stored, Entry
<1>b. ASSUME val'[r] = val[r], pc'[r] = "install" => pc[r] = "install",
             start'[r] = start[r]
      PROVE  HeldBound(r)'
  <2>1. val[r].state \in Outcomes => claimedAt'[val[r].from] = claimedAt[val[r].from]
    BY <1>0, <1>a, DatesStay DEF MadeAt
  <2> QED BY <1>a, <1>b, <2>1 DEF HeldBound, MadeAt
<1>c. ASSUME val'[r].state \notin Outcomes PROVE HeldBound(r)'
  BY <1>c DEF HeldBound
<1>d. NoRec.state \notin Outcomes /\ Unavailable.state \notin Outcomes
  BY DEF NoRec, Unavailable, Rec, Outcomes
<1>1. ASSUME NEW x \in Request, Begin(x) \/ Step(x), x # r PROVE HeldBound(r)'
  <2>1. val'[r] = val[r] /\ pc'[r] = pc[r] /\ start'[r] = start[r]
    <3>1. CASE Begin(x)
      <4>1. /\ start' = [start EXCEPT ![x] = now]
            /\ \E step : pc' = [pc EXCEPT ![x] = step]
        BY <3>1 DEF Begin, Replay, Reserve, Saturated, Finish, Goto
      <4>2. val' = val \/ \E v : val' = [val EXCEPT ![x] = v]
        BY <3>1 DEF Begin, Replay, Reserve, Saturated, Finish
      <4> QED BY <1>0, <1>1, <4>1, <4>2 DEF TypeOK
    <3>2. CASE Step(x)
      BY <1>0, <1>1, <3>2
      DEF Step, SetNXCreated, SetNXExists, SetNXFailed, GetClaim, GetFailed, Install,
          Peek, Contact, NoEndpoint, Answer, CompleteLocal, PersistOk, PersistFailed,
          Mark, Finish, Goto, TypeOK, request
    <3> QED BY <1>1, <3>1, <3>2
  <2> QED BY <1>b, <2>1
<1>2. CASE Begin(r)
  <2> DEFINE e == entries[at[r]][key[r]]
  <2>1. PICK S \in SweepSets(entries[at[r]]) :
          LET gone == S \cup ({key[r]} \cap Expired(entries[at[r]])) IN
          \/ Replay(r, Clear(entries[at[r]], gone), Unlink(lru[at[r]], gone))
          \/ Reserve(r, Clear(entries[at[r]], gone), Unlink(lru[at[r]], gone))
          \/ Saturated(r, Clear(entries[at[r]], gone), Unlink(lru[at[r]], gone))
    BY <1>2 DEF Begin
  <2> DEFINE gone == S \cup ({key[r]} \cap Expired(entries[at[r]]))
  <2> DEFINE T == Clear(entries[at[r]], gone)
  <2>2. T[key[r]] = NoEntry \/ (T[key[r]] = e /\ key[r] \notin Expired(entries[at[r]]))
    BY <1>a DEF Clear
  <2>3. val[r] = NoRec /\ start'[r] = now
    BY <1>0, <1>2 DEF Begin, Phases, Phase, TypeOK
  <2> HIDE DEF T
  <2>4. val'[r] \in {val[r], Unavailable} \/ (val'[r] = T[key[r]].rec /\ pc'[r] = "done")
    BY <1>0, <2>1 DEF Replay, Reserve, Saturated, Finish, TypeOK, T
  <2>5. CASE val'[r] = e.rec /\ pc'[r] = "done" /\ key[r] \notin Expired(entries[at[r]])
    <3>1. ASSUME e.rec.state \in Outcomes PROVE now < e.expires
      BY <1>a, <2>5, <3>1 DEF Expired, Used, Outcomes
    <3>2. e.rec.state \in Outcomes => /\ claimedAt'[e.rec.from] = claimedAt[e.rec.from]
                                      /\ claimedAt[e.rec.from] \in Nat
      BY <1>0, <1>a, DatesStay DEF MadeAt
    <3>3. e.rec.state \in Outcomes => e.expires < MadeAt(e.rec) + Budget + 2 * TTL
      BY <1>a DEF TableBound
    <3>4. start'[r] = now /\ pc'[r] # "install"
      BY <2>3, <2>5
    <3> HIDE DEF e
    <3>5. ASSUME e.rec.state \in Outcomes
          PROVE  start'[r] + 1 < claimedAt'[e.rec.from] + Budget + 2 * TTL
      <4>1. MadeAt(e.rec) \in Nat /\ claimedAt'[e.rec.from] = MadeAt(e.rec)
        BY <3>2, <3>5 DEF MadeAt
      <4>2. e.expires \in Nat /\ now \in Nat /\ now < e.expires
        BY <1>a, <3>1, <3>5 DEF e
      <4>3. now + 1 < MadeAt(e.rec) + Budget + 2 * TTL
        BY <1>a, <3>3, <3>5, <4>1, <4>2
      <4> QED BY <3>4, <4>1, <4>3
    <3> QED BY <2>5, <3>4, <3>5 DEF HeldBound, MadeAt
  <2> QED BY <1>c, <1>d, <2>2, <2>3, <2>4, <2>5 DEF NoEntry
<1>3. CASE NoEndpoint(r) \/ Answer(r)
  <2>1. r \in claimed /\ UNCHANGED <<start, claimedAt>>
    BY <1>0, <1>3 DEF NoEndpoint, Answer, Phases, Phase, Owning, history, request
  <2>2. pc'[r] = "complete" /\ val'[r].from = r
    BY <1>0, <1>3 DEF NoEndpoint, Answer, Goto, TypeOK, Rec
  <2>3. start[r] <= claimedAt[r] /\ claimedAt[r] \in Nat
    BY <1>0, <2>1 DEF Admitted, TypeOK
  <2> QED BY <1>a, <2>1, <2>2, <2>3 DEF HeldBound, MadeAt
<1>4. CASE GetClaim(r) \/ Peek(r)
  <2> DEFINE c == redis[key[r]]
  <2>1. UNCHANGED <<start, claimedAt>> /\ start[r] <= now
    BY <1>0, <1>4 DEF GetClaim, Peek, InFlight, Timely, Due, history, request
  <2>2. CASE val'[r] = c.rec /\ c.rec.state \in Outcomes
    <3>1. now < c.expires /\ c.expires <= MadeAt(c.rec) + Budget + TTL
      BY <1>a, <2>2 DEF RedisBound, Outcomes
    <3>2. MadeAt(c.rec) \in Nat
      BY <1>0, <1>a, <2>2, DatesStay
    <3>3. start[r] < MadeAt(c.rec) + Budget + TTL
      BY <1>a, <2>1, <3>1, <3>2
    <3>4. start[r] + 1 < MadeAt(c.rec) + Budget + 2 * TTL
      BY <1>a, <3>2, <3>3
    <3> QED BY <2>1, <2>2, <3>3, <3>4 DEF HeldBound, MadeAt
  <2>3. val'[r] \in {c.rec, Unavailable}
    BY <1>0, <1>4 DEF GetClaim, Peek, Finish, TypeOK
  <2> QED BY <1>c, <1>d, <2>2, <2>3
<1>5. CASE Step(r) /\ ~(NoEndpoint(r) \/ Answer(r) \/ GetClaim(r) \/ Peek(r))
  <2>1. /\ val'[r] \in {val[r], Unavailable} /\ start'[r] = start[r]
        /\ pc'[r] # "install"
    BY <1>0, <1>5
    DEF Step, SetNXCreated, SetNXExists, SetNXFailed, GetFailed, Install, Contact,
        CompleteLocal, PersistOk, PersistFailed, Mark, Finish, Goto, TypeOK, request
  <2> QED BY <1>b, <1>c, <1>d, <2>1
<1>6. CASE Tick \/ \E x \in Request : DeliverLate(x) \/ LoseLate(x)
  BY <1>6, <1>b DEF Tick, DeliverLate, LoseLate, request
<1>7. ASSUME NEW i \in Instance, Crash(i) PROVE HeldBound(r)'
  <2>1. val'[r] = val[r] /\ start'[r] = start[r] /\ (pc'[r] = pc[r] \/ pc'[r] = "crashed")
    BY <1>7 DEF Crash, request
  <2> QED BY <1>b, <2>1
<1> QED BY <1>1, <1>2, <1>3, <1>4, <1>5, <1>6, <1>7 DEF Next, Step

\* The invariant holds at first, and every step preserves it.
LEMMA InitAge == Init => AgeInv
<1> SUFFICES ASSUME Init PROVE AgeInv
  OBVIOUS
<1>1. OnceInv
  BY InitOnce
<1>2. Reservations /\ Admitted
  BY DEF Init, Reservations, Reserving, Admitted
<1>3. Ages
  BY DEF Init, Ages, RedisBound, TableBound, HeldBound, NoEntry, NoClaim, NoRec, Rec,
         Outcomes
<1> QED BY <1>1, <1>2, <1>3 DEF AgeInv

LEMMA AgeStep == AgeInv /\ [Next]_vars => AgeInv'
<1> SUFFICES ASSUME AgeInv, [Next]_vars PROVE AgeInv'
  OBVIOUS
<1>1. OnceInv'
  BY OnceInvStep DEF AgeInv
<1>2. CASE UNCHANGED vars
  <2>1. Reservations' /\ Admitted'
    BY <1>2 DEF vars, AgeInv, Reservations, Kept, Admitted
  <2>2. Ages'
    BY <1>2 DEF vars, AgeInv, Ages, RedisBound, TableBound, HeldBound, MadeAt
  <2> QED BY <1>1, <2>1, <2>2 DEF AgeInv
<1>3. CASE Next
  <2>1. Reservations' /\ Admitted'
    BY <1>3, ReservationStep, AdmittedStep DEF AgeInv, OnceInv, ClaimInv, Base
  <2>2. Ages'
    BY <1>3, RedisAgeStep, TableAgeStep, HeldAgeStep DEF Ages
  <2> QED BY <1>1, <2>1, <2>2 DEF AgeInv
<1> QED BY <1>2, <1>3

\* ReplyAge holds in every reachable state: however many processes copied it,
\* an outcome is replayed for less than two windows and a budget.
THEOREM RepliesAreRecent == Spec => []ReplyAge
<1>1. AgeInv => ReplyAge
  BY DEF AgeInv, Ages, HeldBound, MadeAt, ReplyAge
<1> QED BY InitAge, AgeStep, <1>1, PTL DEF Spec
-----------------------------------------------------------------------------
(* What may be evicted.                                                     *)

\* While its claim lives, an outcome is what Redis stores.
Backed(rec, k) ==
    rec.state \in Outcomes /\ Live(rec.from) => redis[k].rec = rec

\* A record in the list is a rejection, or Redis backs it up.
Forgettable(rec, k) ==
    rec.state = "rejected" \/ (rec.state \in Outcomes /\ Shared /\ Backed(rec, k))

Evidence ==
    /\ \A i \in Instance, k \in Key : lru[i][k] > 0 => Forgettable(entries[i][k].rec, k)
    /\ \A r \in Request : pc[r] \in {"markOk", "install"} => Backed(val[r], key[r])

\* With a shared store, two live claims of one payload are the same.
LEMMA LiveIsUnique ==
    ASSUME OnceInv, Shared, NEW c \in Request, NEW d \in Request,
           Live(c), Live(d), key[c] = key[d]
    PROVE  c = d
<1>0. TypeOK /\ Timely /\ OncePerWindow
  BY DEF OnceInv, ClaimInv, Base, TypeInv
<1>1. /\ claimedAt[c] \in Nat /\ claimedAt[d] \in Nat /\ now \in Nat
      /\ claimedAt[c] <= now /\ claimedAt[d] <= now
  BY <1>0 DEF TypeOK, Live, Timely, Due
<1>2. \/ claimedAt[c] <= claimedAt[d] /\ claimedAt[d] < claimedAt[c] + TTL
      \/ claimedAt[d] <= claimedAt[c] /\ claimedAt[c] < claimedAt[d] + TTL
  BY <1>1, ConstantsOK DEF Live
<1> QED BY <1>0, <1>2 DEF OncePerWindow, Live

\* As long as a claim lives nobody overwrites the outcome Redis stores for it.
LEMMA BackedStays ==
    ASSUME AgeInv, Next, Shared, NEW rec, NEW k \in Key,
           Attributed(rec, k), Backed(rec, k)
    PROVE  Backed(rec, k)'
<1> USE ConstantsOK
<1>0. /\ TypeOK /\ TypeInv /\ Phases /\ Timely /\ Attempts /\ ReplyAttribution
      /\ OnceInv /\ Admitted /\ SharedClaims
  BY DEF AgeInv, OnceInv, ClaimInv, Base, TypeInv
<1> SUFFICES ASSUME rec.state \in Outcomes, Live(rec.from)'
             PROVE  redis'[k].rec = rec
  BY DEF Backed
<1> DEFINE c == rec.from
<1>1. c \in claimed /\ c \in Request /\ key[c] = k /\ val[c] = rec
  BY <1>0 DEF Attributed, TypeOK
<1>2. claimedAt'[c] = claimedAt[c] /\ claimedAt[c] \in Nat
  BY <1>0, DatesStay DEF MadeAt
<1>3. now \in Nat /\ (now' = now \/ (Tick /\ now' = now + 1))
  <2>1. ASSUME NEW r \in Request, Begin(r) \/ Step(r) \/ DeliverLate(r) \/ LoseLate(r)
        PROVE  now' = now
    BY <2>1
    DEF Begin, Step, SetNXCreated, SetNXExists, SetNXFailed, GetClaim, GetFailed,
        Install, Peek, Contact, NoEndpoint, Answer, CompleteLocal, PersistOk,
        PersistFailed, Mark, DeliverLate, LoseLate
  <2>2. Tick => now' = now + 1
    BY DEF Tick
  <2>3. \A i \in Instance : Crash(i) => now' = now
    BY DEF Crash
  <2>4. now \in Nat
    BY <1>0 DEF TypeOK
  <2> QED BY <2>1, <2>2, <2>3, <2>4 DEF Next
<1>4. Live(c) /\ now' < claimedAt[c] + TTL
  BY <1>1, <1>2, <1>3 DEF Live
<1>5. redis[k].rec = rec
  BY <1>4 DEF Backed
<1>6. redis[k].expires >= claimedAt[c] + TTL /\ redis[k].expires \in Nat
  BY <1>0, <1>1, <1>4 DEF SharedClaims, Remembered, TypeOK, Stored
<1>7. CASE redis'[k] = redis[k]
  BY <1>5, <1>7
<1>8. ASSUME NEW r \in Request, Absent(key[r]), CreateClaim(r) PROVE redis'[k] = redis[k]
  <2>1. key[r] # k
    BY <1>5, <1>8 DEF Absent, Outcomes
  <2> QED BY <1>0, <1>8, <2>1 DEF CreateClaim, TypeOK
<1>9. ASSUME NEW r \in Request, StoreOutcome(r), r \in claimed,
             InFlight(r) \/ r \in late, val[r].state \in Outcomes
      PROVE  redis'[k].rec = rec
  <2>1. CASE key[r] = k
    <3>1. now <= claimedAt[r] + Budget /\ claimedAt[r] \in Nat
      BY <1>0, <1>9, OwnerIsRecent
    <3>2. Live(r)
      BY <1>3, <1>9, <3>1 DEF Live
    <3>3. r = c
      BY <1>0, <1>1, <1>4, <2>1, <3>2, LiveIsUnique
    <3> QED BY <1>0, <1>1, <1>9, <2>1, <3>3 DEF StoreOutcome, TypeOK
  <2>2. CASE key[r] # k
    BY <1>0, <1>5, <1>9, <2>2 DEF StoreOutcome, TypeOK
  <2> QED BY <2>1, <2>2
<1>10. ASSUME NEW r \in Request, Step(r) PROVE redis'[k].rec = rec
  <2>1. CASE SetNXCreated(r) \/ SetNXFailed(r)
    BY <1>7, <1>8, <2>1 DEF SetNXCreated, SetNXFailed, store
  <2>2. CASE PersistOk(r) \/ PersistFailed(r)
    <3>1. r \in claimed /\ InFlight(r) /\ val[r].state \in Outcomes
      BY <1>0, <2>2
      DEF PersistOk, PersistFailed, Phases, Phase, Owning, Settled, InFlight
    <3> QED BY <1>7, <1>9, <2>2, <3>1 DEF PersistOk, PersistFailed, store
  <2>3. CASE \/ SetNXExists(r) \/ GetClaim(r) \/ GetFailed(r) \/ Install(r) \/ Peek(r)
             \/ Contact(r) \/ NoEndpoint(r) \/ Answer(r) \/ CompleteLocal(r) \/ Mark(r)
    BY <1>7, <2>3
    DEF SetNXExists, GetClaim, GetFailed, Install, Peek, Contact, NoEndpoint, Answer,
        CompleteLocal, Mark, store
  <2> QED BY <1>10, <2>1, <2>2, <2>3 DEF Step
<1>11. ASSUME NEW r \in Request, DeliverLate(r) PROVE redis'[k].rec = rec
  <2>1. r \in late /\ (r \in claimed => val[r].state \in Outcomes)
    BY <1>0, <1>11 DEF DeliverLate, Phases, Phase
  <2> QED BY <1>7, <1>8, <1>9, <1>11, <2>1 DEF DeliverLate
<1>12. CASE Tick
  <2>1. ~(redis[k].expires <= now + 1)
    BY <1>2, <1>3, <1>4, <1>6, <1>12 DEF Tick
  <2> QED BY <1>5, <1>12, <2>1 DEF Tick
<1>13. ASSUME NEW r \in Request, Begin(r) \/ LoseLate(r) PROVE redis' = redis
  BY <1>13 DEF Begin, LoseLate
<1>14. ASSUME NEW i \in Instance, Crash(i) PROVE redis' = redis
  BY <1>14 DEF Crash
<1> QED BY <1>7, <1>10, <1>11, <1>12, <1>13, <1>14 DEF Next

\* Every step keeps the records of requests that will put them in the list.
LEMMA HoldersStep ==
    ASSUME AgeInv, Evidence, Next, NEW r \in Request, pc'[r] \in {"markOk", "install"}
    PROVE  Backed(val[r], key[r])'
<1>0. /\ TypeOK /\ TypeInv /\ Phases /\ Modal /\ ReplyAttribution
      /\ Attributed(val[r], key[r]) /\ key[r] \in Key
  BY DEF AgeInv, OnceInv, ClaimInv, Base, TypeInv, TypeOK, ReplyAttribution
<1>a. Modal' /\ key' = key
  BY <1>0, ModalStep, SettledIsStable
<1>b. Shared
  BY <1>a DEF Modal, LocalSteps
<1>1. CASE pc'[r] = pc[r] /\ val'[r] = val[r]
  BY <1>0, <1>1, <1>a, <1>b, BackedStays DEF Evidence, Backed
<1>2. CASE PersistOk(r)
  <2>1. redis'[key[r]].rec = val[r] /\ val' = val
    BY <1>0, <1>2 DEF PersistOk, StoreOutcome, TypeOK
  <2> QED BY <1>a, <2>1 DEF Backed
<1>3. CASE GetClaim(r)
  <2>1. val'[r] = redis[key[r]].rec /\ redis' = redis
    BY <1>0, <1>3 DEF GetClaim, TypeOK, store
  <2> QED BY <1>a, <2>1 DEF Backed
<1>4. ASSUME NEW x \in Request, Begin(x) \/ Step(x), x # r
      PROVE  pc'[r] = pc[r] /\ val'[r] = val[r]
  <2>1. /\ DOMAIN pc = Request /\ DOMAIN val = Request /\ x # r
        /\ \A s : Goto(x, s) => pc'[r] = pc[r]
        /\ \A v : Finish(x, v) => pc'[r] = pc[r] /\ val'[r] = val[r]
    BY <1>0, <1>4 DEF TypeOK, Goto, Finish
  <2>2. CASE Begin(x)
    BY <2>1, <2>2 DEF Begin, Replay, Reserve, Saturated
  <2>3. CASE SetNXCreated(x) \/ SetNXExists(x) \/ SetNXFailed(x) \/ GetClaim(x)
             \/ GetFailed(x) \/ Install(x) \/ Peek(x)
    BY <2>1, <2>3
    DEF SetNXCreated, SetNXExists, SetNXFailed, GetClaim, GetFailed, Install, Peek
  <2>4. CASE Contact(x) \/ NoEndpoint(x) \/ Answer(x)
    BY <2>1, <2>4 DEF Contact, NoEndpoint, Answer
  <2>5. CASE CompleteLocal(x) \/ PersistOk(x) \/ PersistFailed(x) \/ Mark(x)
    BY <2>1, <2>5 DEF CompleteLocal, PersistOk, PersistFailed, Mark
  <2> QED BY <1>4, <2>2, <2>3, <2>4, <2>5 DEF Step
<1>5. ASSUME Begin(r) \/ Step(r) PROVE PersistOk(r) \/ GetClaim(r)
  <2>1. \A s : Goto(r, s) => pc'[r] = s
    BY <1>0 DEF Goto, TypeOK
  <2>2. \A v : Finish(r, v) => pc'[r] = "done"
    BY <1>0 DEF Finish, TypeOK
  <2> QED BY <1>5, <2>1, <2>2
      DEF Begin, Replay, Reserve, Saturated, Step, SetNXCreated, SetNXExists,
          SetNXFailed, GetFailed, Install, Peek, Contact, NoEndpoint, Answer,
          CompleteLocal, PersistFailed, Mark
<1>6. ASSUME Tick \/ \E x \in Request : DeliverLate(x) \/ LoseLate(x)
      PROVE  pc'[r] = pc[r] /\ val'[r] = val[r]
  BY <1>6 DEF Tick, DeliverLate, LoseLate
<1>7. ASSUME NEW i \in Instance, Crash(i)
      PROVE  pc'[r] = pc[r] /\ val'[r] = val[r]
  BY <1>0, <1>7 DEF Crash
<1> QED BY <1>1, <1>2, <1>3, <1>4, <1>5, <1>6, <1>7 DEF Next

\* Every step keeps the records in the list forgettable.
LEMMA ListStep ==
    ASSUME AgeInv, Evidence, Next, NEW i \in Instance, NEW k \in Key, lru'[i][k] > 0
    PROVE  Forgettable(entries[i][k].rec, k)'
<1> USE ConstantsOK
<1>0. TypeOK /\ TypeInv /\ Phases /\ Modal /\ Listed /\ ReplyAttribution /\ Reservations
  BY DEF AgeInv, OnceInv, ClaimInv, Base, TypeInv
<1>a. /\ entries[i] \in [Key -> Entry] /\ lru[i] \in [Key -> Nat]
      /\ lru' \in [Instance -> [Key -> Nat]]
      /\ Attributed(entries[i][k].rec, k)
      /\ lru[i][k] > 0 => Forgettable(entries[i][k].rec, k)
  <2>1. TypeInv'
    BY <1>0, BeginType, StepType, EnvironmentType DEF Next
  <2> QED BY <1>0, <2>1 DEF TypeInv, TypeOK, ReplyAttribution, Evidence
<1>b. ASSUME lru[i][k] > 0, entries'[i][k].rec = entries[i][k].rec
      PROVE  Forgettable(entries[i][k].rec, k)'
  <2>1. Forgettable(entries[i][k].rec, k)
    BY <1>a, <1>b
  <2> DEFINE rec == entries[i][k].rec
  <2>2. rec.state = "rejected" \/ (rec.state \in Outcomes /\ Shared /\ Backed(rec, k))
    BY <2>1 DEF Forgettable
  <2>3. CASE rec.state = "rejected"
    BY <1>b, <2>3 DEF Forgettable
  <2>4. CASE rec.state \in Outcomes /\ Shared /\ Backed(rec, k)
    <3>1. PICK R : R = entries[i][k].rec
      OBVIOUS
    <3>2. Backed(R, k)'
      BY <1>a, <2>4, <3>1, BackedStays
    <3> QED BY <1>b, <2>4, <3>1, <3>2 DEF Forgettable, Backed
  <2> QED BY <2>2, <2>3, <2>4
<1>1. ASSUME NEW r \in Request, Begin(r)
      PROVE  lru[i][k] > 0 /\ entries'[i][k].rec = entries[i][k].rec
  <2> DEFINE j == at[r]
  <2> DEFINE y == key[r]
  <2>0. j \in Instance /\ y \in Key
    BY <1>0 DEF TypeOK
  <2>1. PICK gone :
          \/ Replay(r, Clear(entries[j], gone), Unlink(lru[j], gone))
          \/ Reserve(r, Clear(entries[j], gone), Unlink(lru[j], gone))
          \/ Saturated(r, Clear(entries[j], gone), Unlink(lru[j], gone))
    BY <1>1 DEF Begin
  <2> DEFINE T == Clear(entries[j], gone)
  <2> DEFINE q == Unlink(lru[j], gone)
  <2>2. T \in [Key -> Entry] /\ q \in [Key -> Nat] /\ ListedIn(T, q)
    <3>1. /\ entries[j] \in [Key -> Entry] /\ lru[j] \in [Key -> Nat]
          /\ ListedIn(entries[j], lru[j])
      BY <1>0, <2>0 DEF ListedIn, TypeOK, Listed
    <3> QED BY <1>0, <2>0, <3>1, SweptType, ClearListed
  <2>3. q[k] # 0 => lru[j][k] # 0 /\ T[k] = entries[j][k]
    <3>1. lru[j] \in [Key -> Nat]
      BY <1>0, <2>0 DEF TypeOK
    <3>2. q[k] # 0 => lru[j][k] # 0 /\ k \notin gone
      BY <3>1, OutStaysOut
    <3> QED BY <3>2 DEF Clear
  <2> HIDE DEF T, q
  <2>4. CASE i # j
    <3>1. entries'[i] = entries[i] /\ lru'[i] = lru[i]
      BY <1>0, <2>0, <2>1, <2>4 DEF Replay, Reserve, Saturated, TypeOK, T, q
    <3> QED BY <3>1
  <2>5. CASE i = j /\ q[k] # 0 /\ entries'[i][k] = T[k]
    BY <1>a, <2>3, <2>5
  <2>6. CASE i = j /\ Replay(r, T, q)
    <3>1. entries'[i] = T /\ lru'[i] = MoveToBack(q, y)
      BY <1>0, <2>0, <2>6 DEF Replay, TypeOK
    <3>2. \A x \in Key : MoveToBack(q, y)[x] # 0 => q[x] # 0
      BY <2>0, <2>2, OutStaysOut
    <3> QED BY <1>a, <2>5, <2>6, <3>1, <3>2
  <2>7. CASE i = j /\ Saturated(r, T, q)
    <3>1. entries'[i] = T /\ lru'[i] = q
      BY <1>0, <2>0, <2>7 DEF Saturated, TypeOK
    <3> QED BY <2>5, <2>7, <3>1
  <2>8. CASE i = j /\ Reserve(r, T, q)
    <3> DEFINE mine == [rec |-> Rec("pending", r), expires |-> now + TTL, by |-> r]
    <3>1. PICK X :
            /\ entries' = [entries EXCEPT ![i] = [Clear(T, X) EXCEPT ![y] = mine]]
            /\ lru' = [lru EXCEPT ![i] = Unlink(q, X)]
      BY <2>8 DEF Reserve
    <3>2. entries'[i] = [Clear(T, X) EXCEPT ![y] = mine] /\ lru'[i] = Unlink(q, X)
      BY <1>0, <3>1 DEF TypeOK
    <3>3. q[k] # 0 /\ k \notin X
      BY <2>2, <3>2, OutStaysOut
    <3>4. k # y
      BY <2>0, <2>2, <2>8, <3>3 DEF Reserve, ListedIn, Used
    <3>5. entries'[i][k] = T[k]
      BY <3>2, <3>3, <3>4 DEF Clear
    <3> QED BY <2>5, <2>8, <3>3, <3>5
  <2> QED BY <2>1, <2>4, <2>6, <2>7, <2>8 DEF T, q
<1>2. ASSUME NEW r \in Request, Step(r), ~(i = at[r] /\ k = key[r])
      PROVE  lru[i][k] > 0 /\ entries'[i][k].rec = entries[i][k].rec
  <2> DEFINE j == at[r]
  <2> DEFINE y == key[r]
  <2>0. j \in Instance /\ y \in Key /\ lru[j] \in [Key -> Nat]
    BY <1>0 DEF TypeOK
  <2>1. CASE UNCHANGED local
    BY <2>1 DEF local
  <2>2. CASE RemoveLocal(j, {y})
    <3>1. CASE i # j
      BY <1>0, <2>0, <2>2, <3>1 DEF RemoveLocal, TypeOK
    <3>2. CASE i = j
      <4>1. entries'[i] = Clear(entries[i], {y}) /\ lru'[i] = Unlink(lru[i], {y})
        BY <1>0, <2>2, <3>2 DEF RemoveLocal, TypeOK
      <4>2. lru[i][k] # 0
        BY <1>a, <4>1, OutStaysOut
      <4> QED BY <1>2, <1>a, <3>2, <4>1, <4>2 DEF Clear
    <3> QED BY <3>1, <3>2
  <2>3. ASSUME \/ entries' = [entries EXCEPT ![j][y].rec = val[r]]
               \/ entries' = entries,
               \/ lru' = [lru EXCEPT ![j] = MarkEvictable(@, y)]
               \/ lru' = lru
        PROVE  lru[i][k] > 0 /\ entries'[i][k].rec = entries[i][k].rec
    <3>1. entries'[i][k] = entries[i][k]
      <4>1. CASE entries' = [entries EXCEPT ![j][y].rec = val[r]]
        BY <1>0, <1>2, <2>0, <4>1 DEF TypeOK
      <4> QED BY <2>3, <4>1
    <3>2. \A x \in Key : MarkEvictable(lru[j], y)[x] # 0 => lru[j][x] # 0 \/ x = y
      BY <2>0, OutStaysOut
    <3>3. CASE lru' = [lru EXCEPT ![j] = MarkEvictable(@, y)]
      <4>1. i = j => lru'[i] = MarkEvictable(lru[j], y)
        BY <1>0, <2>0, <3>3 DEF TypeOK
      <4>2. i # j => lru'[i] = lru[i]
        BY <1>0, <3>3 DEF TypeOK
      <4> QED BY <1>2, <1>a, <3>1, <3>2, <4>1, <4>2
    <3> QED BY <2>3, <3>1, <3>3
  <2> QED BY <1>2, <2>1, <2>2, <2>3
      DEF Step, SetNXCreated, SetNXExists, SetNXFailed, GetClaim, GetFailed, Install,
          Peek, Contact, NoEndpoint, Answer, CompleteLocal, PersistOk, PersistFailed,
          Mark, local
<1>3. ASSUME NEW r \in Request, Step(r), i = at[r], k = key[r]
      PROVE  Forgettable(entries[i][k].rec, k)'
  <2>1. CASE UNCHANGED local
    BY <1>b, <2>1 DEF local
  <2>2. CASE RemoveLocal(i, {k})
    <3>1. lru'[i] = Unlink(lru[i], {k})
      BY <1>0, <2>2 DEF RemoveLocal, TypeOK
    <3> QED BY <1>a, <3>1, OutStaysOut
  <2>3. ASSUME pc[r] \in Reserving
        PROVE  Kept(r) /\ lru[i][k] = 0
    BY <1>3, <1>0, <2>3 DEF Reservations, Kept
  <2>4. ASSUME entries' = [entries EXCEPT ![i][k].rec = val[r]]
        PROVE  entries'[i][k].rec = val[r]
    BY <1>0, <1>a, <2>4 DEF TypeOK, Entry
  <2>5. CASE Install(r) /\ ~UNCHANGED local /\ ~RemoveLocal(i, {k})
    <3>1. /\ entries' = [entries EXCEPT ![i][k].rec = val[r]]
          /\ val[r].state # "pending" /\ pc[r] = "install"
      BY <1>3, <2>5 DEF Install
    <3>2. val[r].state \in Outcomes /\ Shared /\ Backed(val[r], k)
      BY <1>0, <1>3, <3>1
      DEF Phases, Phase, Valid, NoRec, Rec, Outcomes, Modal, LocalSteps, Evidence
    <3>3. Attributed(val[r], k)
      BY <1>0, <1>3 DEF ReplyAttribution
    <3>4. PICK R : R = val[r]
      OBVIOUS
    <3>5. Backed(R, k)'
      BY <3>2, <3>3, <3>4, BackedStays
    <3>6. entries'[i][k].rec = R
      BY <2>4, <3>1, <3>4
    <3> QED BY <3>2, <3>4, <3>5, <3>6 DEF Forgettable, Backed
  <2>6. CASE CompleteLocal(r) /\ ~UNCHANGED local
    <3>1. /\ entries' = [entries EXCEPT ![i][k].rec = val[r]] /\ lru[i][k] = 0
          /\ lru' = IF ~Shared /\ val[r].state = "rejected"
                    THEN [lru EXCEPT ![i] = MarkEvictable(@, k)] ELSE lru
      BY <1>3, <2>3, <2>6 DEF CompleteLocal, Reserving
    <3>2. val[r].state = "rejected"
      BY <3>1
    <3> QED BY <2>4, <3>1, <3>2 DEF Forgettable
  <2>7. CASE Mark(r) /\ ~UNCHANGED local
    <3>1. /\ pc[r] \in {"markOk", "markErr"} /\ entries' = entries
          /\ pc[r] = "markOk" \/ val[r].state = "rejected"
      BY <1>3, <2>7 DEF Mark, local
    <3>2. entries[i][k].rec = val[r]
      BY <1>3, <2>3, <3>1 DEF Kept, Reserving
    <3>3. CASE val[r].state = "rejected"
      BY <3>1, <3>2, <3>3 DEF Forgettable
    <3>4. CASE pc[r] = "markOk"
      <4>1. val[r].state \in Outcomes /\ Shared /\ Backed(val[r], k)
        BY <1>0, <1>3, <3>4 DEF Phases, Phase, Settled, Modal, LocalSteps, Evidence
      <4>2. Attributed(val[r], k)
        BY <1>0, <1>3 DEF ReplyAttribution
      <4>3. PICK R : R = val[r]
        OBVIOUS
      <4>4. Backed(R, k)'
        BY <4>1, <4>2, <4>3, BackedStays
      <4>5. entries'[i][k].rec = R
        BY <3>1, <3>2, <4>3
      <4> QED BY <4>1, <4>3, <4>4, <4>5 DEF Forgettable, Backed
    <3> QED BY <3>1, <3>3, <3>4
  <2>8. CASE SetNXFailed(r) \/ GetFailed(r)
    BY <1>3, <2>2, <2>8 DEF SetNXFailed, GetFailed
  <2>9. CASE \/ SetNXCreated(r) \/ SetNXExists(r) \/ GetClaim(r) \/ Peek(r)
             \/ Contact(r) \/ NoEndpoint(r) \/ Answer(r)
             \/ PersistOk(r) \/ PersistFailed(r)
    BY <2>1, <2>9
    DEF SetNXCreated, SetNXExists, GetClaim, Peek, Contact, NoEndpoint, Answer,
        PersistOk, PersistFailed, local
  <2> QED BY <1>3, <2>1, <2>2, <2>5, <2>6, <2>7, <2>8, <2>9 DEF Step
<1>4. ASSUME Tick \/ \E r \in Request : DeliverLate(r) \/ LoseLate(r)
      PROVE  lru[i][k] > 0 /\ entries'[i][k].rec = entries[i][k].rec
  BY <1>4 DEF Tick, DeliverLate, LoseLate, local
<1>5. ASSUME NEW j \in Instance, Crash(j)
      PROVE  lru[i][k] > 0 /\ entries'[i][k].rec = entries[i][k].rec
  <2>1. i # j
    BY <1>0, <1>5 DEF Crash, TypeOK
  <2> QED BY <1>0, <1>5, <2>1 DEF Crash, TypeOK
<1> QED BY <1>1, <1>2, <1>3, <1>4, <1>5, <1>b DEF Next

\* EvictableIsSafe holds in every reachable state: what the table of a process
\* forgets early is a rejection, or is remembered by Redis for the whole window.
THEOREM ForgettingIsSafe == Spec => []EvictableIsSafe
<1>1. Init => Evidence
  BY DEF Init, Evidence
<1>2. AgeInv /\ Evidence /\ [Next]_vars => Evidence'
  <2> SUFFICES ASSUME AgeInv, Evidence, [Next]_vars PROVE Evidence'
    OBVIOUS
  <2>1. CASE UNCHANGED vars
    BY <2>1 DEF vars, Evidence, Forgettable, Backed, Live
  <2>2. CASE Next
    BY <2>2, HoldersStep, ListStep DEF Evidence
  <2> QED BY <2>1, <2>2
<1>3. AgeInv /\ Evidence => EvictableIsSafe
  <2> SUFFICES ASSUME AgeInv, Evidence, NEW i \in Instance, NEW k \in Linked(lru[i])
               PROVE  LET rec == entries[i][k].rec IN
                      \/ rec.state = "rejected"
                      \/ /\ rec.state \in Outcomes /\ Shared
                         /\ redis[k].rec = rec \/ now >= claimedAt[rec.from] + TTL
    BY DEF EvictableIsSafe
  <2>1. /\ TypeOK /\ ReplyAttribution /\ k \in Key
    BY DEF AgeInv, OnceInv, ClaimInv, Base, TypeInv, Linked
  <2> DEFINE rec == entries[i][k].rec
  <2>2. Forgettable(rec, k) /\ Attributed(rec, k)
    BY <2>1 DEF Evidence, Linked, ReplyAttribution
  <2>3. rec.state \in Outcomes => /\ rec.from \in claimed /\ rec.from \in Request
                                  /\ claimedAt[rec.from] \in Nat /\ now \in Nat
    BY <2>1, <2>2 DEF Attributed, TypeOK
  <2> QED BY <2>2, <2>3, ConstantsOK DEF Forgettable, Backed, Live
<1> QED BY InitAge, AgeStep, <1>1, <1>2, <1>3, PTL DEF Spec
================================================================================
