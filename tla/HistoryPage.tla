------------------------------ MODULE HistoryPage ------------------------------
(***************************************************************************)
(* How kt_getHistory makes a page of the movements its providers told it   *)
(* of (handlers/history.go): which of them are the wallet's, which way     *)
(* they went, what names them, and which fit on the page.                  *)
(***************************************************************************)
EXTENDS HistoryRows

CONSTANTS
    Registry,  \* the contracts of officialByNetwork for the network
    WrappedSol \* nativeSOLMint

\* historyRecord.  "scale" is where its symbol and decimals come from: from the
\* chain's own table, from the registry, or from what the provider claims.
Entry(m, id, dir, from, to, scale) ==
    [id |-> id, hash |-> m.hash, direction |-> dir, from |-> from, to |-> to,
     value |-> m.value, asset |-> m.asset, scale |-> scale, verified |-> scale # "claimed",
     time |-> m.time, status |-> m.status]

Touches(m) == Wallet \in {m.from, m.to}

Direction(m) == IF m.from = Wallet THEN "out" ELSE "in"

\* historyTokenMeta, and the chain's table for its own coin
Scale(asset) ==
    CASE asset = Coin         -> "chain"
      [] asset \in Registry   -> "registry"
      [] OTHER                -> "claimed"

Show(m, id) == Entry(m, id, Direction(m), m.from, m.to, Scale(m.asset))
-----------------------------------------------------------------------------
\* sort.SliceStable by time, newest first
Newer(s) ==
    {r \in (DOMAIN s) \X (DOMAIN s) :
        s[r[1]].time > s[r[2]].time \/ (s[r[1]].time = s[r[2]].time /\ r[1] < r[2])}

Newest(s) ==
    LET order == InOrder(DOMAIN s, Newer(s)) IN [n \in DOMAIN s |-> s[order[n]]]

\* Mutant: a hash that was shown is not shown again.
FirstsByHash(s) == {i \in DOMAIN s : \A j \in 1 .. (i - 1) : s[j].hash # s[i].hash}

\* The places of the records that are the first of their id.
Firsts(s) == {i \in DOMAIN s : \A j \in 1 .. (i - 1) : s[j].id # s[i].id}

\* Mutant: one record more than asked for.
CutLate(s, limit) ==
    [n \in 1 .. Min({limit + 1, Cardinality(Firsts(s))}) |-> Keep(s, Firsts(s))[n]]

Cut(s, limit) ==
    [n \in 1 .. Min({limit, Cardinality(Firsts(s))}) |-> Keep(s, Firsts(s))[n]]

Mine(moves) == Keep(moves, {i \in DOMAIN moves : Touches(moves[i])})
-----------------------------------------------------------------------------
(* TRON.  TronGrid's token rows have no event index: what a TRC-20 transfer *)
(* says is its name.                                                        *)

TronId(m) ==
    CASE m.tag = <<"trc20">>       -> <<m.hash, m.asset, m.from, m.to, m.value>>
      [] m.tag = <<"contract", 1>> -> <<m.hash, m.asset>>
      [] OTHER                     -> <<m.hash, m.tag, m.asset>>

\* A TRC-10 asset is never in the registry; a TRC-20 one may be.
TronShow(m) ==
    [Show(m, TronId(m)) EXCEPT
        !.scale = IF m.asset # Coin /\ m.tag # <<"trc20">> THEN "claimed" ELSE @,
        !.verified = @ /\ (m.asset = Coin \/ m.tag = <<"trc20">>)]

TronPage(trc20, native, internal, limit) ==
    LET all == Mine(trc20) \o Mine(native) \o Mine(internal)
    IN  Cut(Newest([i \in DOMAIN all |-> TronShow(all[i])]), limit)
-----------------------------------------------------------------------------
(* EVM.                                                                     *)

AlchemyPage(moves, limit) ==
    LET all == Mine(moves)
    IN  Cut(Newest([i \in DOMAIN all |-> Show(all[i], all[i].tag)]), limit)

\* evmMovementKey
MovementKey(m) == <<m.hash, m.from, m.to, m.value, m.time>>

\* A row without an index of its own is numbered by its place in the feed.
Numbered(moves) ==
    [i \in DOMAIN moves |-> IF moves[i].tag = Null THEN [moves[i] EXCEPT !.tag = i - 1] ELSE moves[i]]

\* The internal movements that are not a normal one told twice.
Traces(txs, internals) ==
    Keep(internals, {i \in DOMAIN internals :
        /\ internals[i].value # 0 /\ Touches(internals[i])
        /\ \A t \in ToSet(Mine(txs)) : MovementKey(t) # MovementKey(internals[i])})

EvmPage(txs, tokens, internals, limit) ==
    LET T(m) == Show(m, <<m.hash, m.tag>>)
        I(m) == Show(m, <<m.hash, "internal", m.tag>>)
        N(m) == Show(m, <<m.hash>>)
        events == Mine(Numbered(tokens))
        traces == Traces(txs, internals)
        normal == Keep(txs, {i \in DOMAIN txs : txs[i].value # 0 /\ Touches(txs[i])})
    IN  Cut(Newest([i \in DOMAIN events |-> T(events[i])]
                   \o [i \in DOMAIN traces |-> I(traces[i])]
                   \o [i \in DOMAIN normal |-> N(normal[i])]), limit)
-----------------------------------------------------------------------------
(* Solana.  Neither page is sorted again or cleared of twins.               *)

HeliusPage(moves, limit) ==
    LET all == Mine(moves)
        R(m) == [Show(m, <<m.hash, m.tag>>) EXCEPT
                   !.scale = IF m.asset = WrappedSol THEN "chain" ELSE @,
                   !.verified = @ \/ m.asset = WrappedSol,
                   !.asset = IF @ = WrappedSol THEN Coin ELSE @]
    IN  [i \in 1 .. Min({limit, Len(all)}) |-> R(all[i])]

\* The movement of one asset in a parsed transaction; a party that no
\* instruction names is the wallet on its own side.
SolMove(sig, asset, delta, tx) ==
    LET out == delta < 0
        p   == Parties(tx, asset)
    IN  Move(sig.signature, IF out /\ p.from = Null THEN Wallet ELSE p.from,
             IF ~out /\ p.to = Null THEN Wallet ELSE p.to,
             IF out THEN -delta ELSE delta, Member(sig, "blockTime"),
             SignatureStatus(sig), asset, asset)

SolShow(m, delta) ==
    Entry(m, <<m.hash, m.tag>>, IF delta < 0 THEN "out" ELSE "in", m.from, m.to, Scale(m.asset))

\* The records of one signature: its token movements in any order (they come
\* out of a map), or its native one if it has none of those.
SolRecords(sig, tx) ==
    IF Mints(tx) # {}
    THEN {[i \in DOMAIN order |->
             SolShow(SolMove(sig, order[i], TokenDelta(tx, order[i]), tx), TokenDelta(tx, order[i]))]
          : order \in SetToSeqs(Mints(tx))}
    ELSE IF NativeDelta(tx) = 0 THEN {<<>>}
    ELSE {<<SolShow(SolMove(sig, Coin, NativeDelta(tx), tx), NativeDelta(tx))>>}

\* Only token records are held against the limit, and only one by one: a page
\* that a native record has taken past it grows on.
SolAppend(records, new, limit) ==
    IF new # <<>> /\ new[1].asset # Coin /\ Len(records) < limit
    THEN SubSeq(records \o new, 1, Min({limit, Len(records) + Len(new)}))
    ELSE records \o new

\* Whether the walk over the signatures stops after such an append.
SolFull(records, new, limit) ==
    new # <<>> /\ new[1].asset # Coin /\ Len(SolAppend(records, new, limit)) = limit

\* One row for each signature; newest first; those of one time, and those without one, in any order.
Orders(sigs) ==
    {s \in UNION {SetToSeqs(S) : S \in {T \in SUBSET sigs :
                \A r \in sigs : Cardinality({t \in T : t.signature = r.signature}) = 1}} :
        \A i, j \in DOMAIN s : i < j =>
            \/ Member(s[j], "blockTime") = Null
            \/ Member(s[i], "blockTime") # Null /\ s[i].blockTime >= s[j].blockTime}
=============================================================================
