----------------------------- MODULE ColdWallets -----------------------------
(***************************************************************************)
(* The wallets of Cold Signer (state/signer_wallet_controller.dart): a key *)
(* in the native vault, a row in the secure storage (secure_vault.dart), a *)
(* record of every request it was asked to sign (data/signer_database.dart)*)
(* and the screens' picture of it in memory.  Creating, selecting, deleting*)
(* and signing interleave at their awaits; a write, an erasure or a native *)
(* call may fail, and the app may be killed between two of them.           *)
(* Storage serves the calls in their order, and a change of the wallet list *)
(* is one call to it (SecureVault._mutate); a read that only brings the     *)
(* screens up to date succeeds.                                             *)
(***************************************************************************)
EXTENDS FiniteSets, Naturals

CONSTANTS
    WalletId,       \* the identifiers _newWalletId may draw, each once
    NoWallet,     \* null
    MaxWallets,   \* SecureVault.maxWallets
    ReqId,      \* reqIds
    WalletOf,     \* SignRequest.walletId
    Callback          \* callbacks of the authentication screen

ASSUME ColdConstants ==
    NoWallet \notin WalletId /\ WalletOf \in [ReqId -> WalletId] /\ MaxWallets \in Nat

VARIABLES
    keys,         \* native vault: the wallets with a key
    rows, chosen, \* metadataKey: the described wallets, the selected one
    pin,          \* pinKey is there
    tomb, done,   \* deletionPendingKey, deletionNativeCompleteKey
    records,      \* sign_records: the status of each reqId
    ready,        \* load() has returned and the screens are there
    current,      \* _metadata; _hasWallet says whether there is one
    list,         \* _wallets
    pending,      \* _pendingDeletion
    changing, adding,  \* _changingWallet, _addingWallet
    onboarding,        \* _onboardingStage: "idle", "pin" or "ready" to commit
    job,          \* a load, selection or deletion under way
    board,        \* _completeOnboardingInFlight
    call,         \* calls of signRequest
    life,         \* history: what the user knows of each wallet
    signatures    \* history: signatures made for each request

storage == <<rows, chosen, pin, tomb, done>>
memory  == <<ready, current, list, pending, changing, adding, onboarding>>
coldVars == <<keys, storage, records, memory, job, board, call, life, signatures>>

NoJob  ==
    [at |-> "idle", for |-> NoWallet, why |-> "load", last |-> FALSE, clean |-> TRUE]
NoBoard == [at |-> "idle", for |-> NoWallet, had |-> NoWallet]
NoCall == [at |-> "idle", of |-> NoWallet]

Job(step)   == job' = [job EXCEPT !.at = step]
Board(step) == board' = [board EXCEPT !.at = step]
Goto(s, step) == call' = [call EXCEPT ![s].at = step]

\* A wallet the user gets to see is his, also one that a cut off or failed
\* onboarding left behind; if it is seen before its addresses could be derived,
\* it may be without a key.
Shown(v, as) ==
    life' = [w \in WalletId |->
                IF w = v /\ life[w] \in {"drawn", "stored", "dropped", "shown"}
                THEN as ELSE life[w]]

ColdInit ==
    /\ keys = {} /\ rows = {} /\ chosen = NoWallet /\ pin = FALSE
    /\ tomb = NoWallet /\ done = NoWallet
    /\ records = [q \in ReqId |-> "none"]
    /\ ready = FALSE /\ current = NoWallet /\ list = {} /\ pending = NoWallet
    /\ changing = FALSE /\ adding = FALSE /\ onboarding = "idle"
    /\ job = NoJob /\ board = NoBoard /\ call = [s \in Callback |-> NoCall]
    /\ life = [w \in WalletId |-> "new"]
    /\ signatures = [q \in ReqId |-> 0]

\* SecureVault.storeMetadata: a new row is selected, a known one rewritten.
StoreRow(w) ==
    /\ w \in rows \/ Cardinality(rows) < MaxWallets
    /\ rows' = rows \cup {w}
    /\ chosen' = IF w \in rows THEN chosen ELSE w
-----------------------------------------------------------------------------
(* load()                                                                   *)

\* A tombstone of no described wallet, though others are described and no key
\* was deleted: load throws, and goes on throwing.
Corrupted == tomb \notin rows /\ rows # {} /\ done # tomb

LoadBegin ==
    /\ ~ready /\ job.at = "idle"
    /\ pending' = tomb
    /\ \/ tomb = NoWallet /\ job' = [NoJob EXCEPT !.at = "open"]
       \/ /\ tomb # NoWallet /\ ~Corrupted
          /\ job' = [NoJob EXCEPT !.for = tomb,
                        !.at = IF tomb \in rows /\ done # tomb THEN "key" ELSE "note"]
    /\ UNCHANGED <<keys, storage, records, ready, current, list, changing, adding,
                   onboarding, board, call, life, signatures>>

\* The selected wallet opens if there is a PIN and its addresses can be derived.
Open ==
    /\ job.at = "open"
    /\ chosen # NoWallet => pin /\ chosen \in keys
    /\ ready' = TRUE /\ current' = chosen /\ list' = rows /\ job' = NoJob
    /\ Shown(chosen, "kept")
    /\ UNCHANGED <<keys, storage, records, pending, changing, adding, onboarding, board,
                   call, signatures>>
-----------------------------------------------------------------------------
(* deleteWallet, and _finishPendingDeletion, which load resumes             *)

\* The user has confirmed with phrase, PIN and device.
Delete ==
    /\ ready /\ current # NoWallet
    /\ ~changing /\ ~adding /\ board.at = "idle"
    /\ changing' = TRUE
    /\ job' = [NoJob EXCEPT !.at = "mark", !.for = current, !.why = "delete"]
    /\ UNCHANGED <<keys, storage, records, ready, current, list, pending, adding,
                   onboarding, board, call, life, signatures>>

\* markDeletionPending: what is left of an earlier deletion goes first.
Mark ==
    /\ job.at = "mark" /\ tomb = NoWallet
    /\ done' = NoWallet /\ Job("entomb")
    /\ UNCHANGED <<keys, rows, chosen, pin, tomb, records, memory, board, call, life,
                   signatures>>

Entomb ==
    /\ \/ job.at = "entomb"
       \/ job.at = "mark" /\ tomb = job.for
    /\ tomb' = job.for /\ pending' = job.for
    /\ life' = [life EXCEPT ![job.for] = "unwanted"]
    /\ Job(IF done = job.for THEN "note" ELSE "key")
    /\ UNCHANGED <<keys, rows, chosen, pin, done, records, ready, current, list,
                   changing, adding, onboarding, board, call, signatures>>

\* The tombstone is written, and its write throws all the same.
EntombUnseen ==
    /\ job.at = "entomb"
    /\ tomb' = job.for /\ life' = [life EXCEPT ![job.for] = "doubtful"]
    /\ changing' = FALSE /\ job' = NoJob
    /\ UNCHANGED <<keys, rows, chosen, pin, done, records, ready, current, list,
                   pending, adding, onboarding, board, call, signatures>>

DeleteKey ==
    /\ job.at = "key"
    /\ keys' = keys \ {job.for} /\ Job("note")
    /\ UNCHANGED <<storage, records, memory, board, call, life, signatures>>

\* markNativeDeletionComplete
Note ==
    /\ job.at = "note"
    /\ done' = job.for /\ Job("records")
    /\ UNCHANGED <<keys, rows, chosen, pin, tomb, records, memory, board, call, life,
                   signatures>>

Cleared(Q) == records' = [q \in ReqId |-> IF q \in Q THEN "none" ELSE records[q]]

\* With other wallets left, only the records of this one go.
ClearRecords ==
    /\ job.at = "records"
    /\ \/ /\ rows \ {job.for} # {}
          /\ Cleared({q \in ReqId : WalletOf[q] = job.for}) /\ Job("row")
       \/ /\ rows \ {job.for} = {}
          /\ \E ok \in BOOLEAN :
                /\ IF ok THEN Cleared(ReqId) ELSE UNCHANGED records
                /\ job' = [job EXCEPT !.at = "wipe row", !.last = TRUE, !.clean = ok]
    /\ UNCHANGED <<keys, storage, memory, board, call, life, signatures>>

\* SecureVault.removeWallet: another wallet is selected if this one was.
RemoveWallet(w) ==
    /\ rows' = rows \ {w}
    /\ chosen' \in IF chosen \in rows \ {w} THEN {chosen}
                   ELSE IF rows \ {w} = {} THEN {NoWallet} ELSE rows \ {w}

RemoveRow ==
    /\ job.at = "row" /\ RemoveWallet(job.for) /\ Job("untomb")
    /\ UNCHANGED <<keys, pin, tomb, done, records, memory, board, call, life, signatures>>

\* wipe: every key of the storage is tried, and the tombstone goes only when
\* all of them and the records are gone.
WipeRow ==
    /\ job.at = "wipe row"
    /\ \/ rows' = {} /\ chosen' = NoWallet /\ Job("wipe pin")
       \/ /\ job' = [job EXCEPT !.at = "wipe pin", !.clean = FALSE]
          /\ UNCHANGED <<rows, chosen>>
    /\ UNCHANGED <<keys, pin, tomb, done, records, memory, board, call, life, signatures>>

\* Mutant: the tombstone goes although a key of the storage stayed.
WipePinEagerly ==
    /\ job.at = "wipe pin"
    /\ pin' \in {FALSE, pin}
    /\ Job("untomb") \/ Job("close")
    /\ UNCHANGED <<keys, rows, chosen, tomb, done, records, memory, board, call, life,
                   signatures>>

WipePin ==
    /\ job.at = "wipe pin"
    /\ pin' \in {FALSE, pin}
    /\ \/ job.clean /\ ~pin' /\ Job("untomb")
       \/ Job("close")
    /\ UNCHANGED <<keys, rows, chosen, tomb, done, records, memory, board, call, life,
                   signatures>>

\* clearDeletionPending
Untomb ==
    /\ job.at = "untomb" /\ tomb' = NoWallet /\ Job("undone")
    /\ UNCHANGED <<keys, rows, chosen, pin, done, records, memory, board, call, life,
                   signatures>>

Undone ==
    /\ job.at = "undone" /\ done' = NoWallet /\ Job("close")
    /\ UNCHANGED <<keys, rows, chosen, pin, tomb, records, memory, board, call, life,
                   signatures>>

\* The end of a deletion.  After the last wallet the screens show none, whether
\* or not everything is gone; load goes on to open what is left.
Close ==
    /\ job.at = "close"
    /\ pending' = IF job.last THEN tomb ELSE NoWallet
    /\ list' = (IF job.last THEN {} ELSE rows)
    /\ current' = (IF job.last THEN NoWallet ELSE chosen)
    /\ adding' = (adding /\ ~job.last) /\ onboarding' = "idle" /\ changing' = FALSE
    /\ \/ job.why = "delete" /\ job' = NoJob /\ UNCHANGED ready
       \/ job.why = "load" /\ tomb # NoWallet /\ job' = NoJob /\ ready' = TRUE
       \/ job.why = "load" /\ tomb = NoWallet /\ Job("open") /\ UNCHANGED ready
    /\ Shown(current', "shown")
    /\ UNCHANGED <<keys, storage, records, board, call, signatures>>
-----------------------------------------------------------------------------
(* selectWallet                                                             *)

Quiet == pending = NoWallet /\ ~changing /\ board.at = "idle"

Select(w) ==
    /\ ready /\ Quiet /\ ~adding /\ w # current /\ w \in list
    /\ changing' = TRUE
    /\ job' = [NoJob EXCEPT !.at = "derive", !.for = w, !.why = "select"]
    /\ UNCHANGED <<keys, storage, records, ready, current, list, pending, adding,
                   onboarding, board, call, life, signatures>>

Refresh ==
    /\ job.at = "derive" /\ job.for \in keys
    /\ StoreRow(job.for) /\ Job("choose")
    /\ UNCHANGED <<keys, pin, tomb, done, records, memory, board, call, life, signatures>>

Choose ==
    /\ job.at = "choose" /\ job.for \in rows
    /\ chosen' = job.for /\ list' = rows /\ current' = job.for
    /\ onboarding' = "idle" /\ changing' = FALSE /\ job' = NoJob /\ Shown(job.for, "kept")
    /\ UNCHANGED <<keys, rows, pin, tomb, done, records, ready, pending, adding, board,
                   call, signatures>>

\* A call of the storage or of the native core throws, or the user refuses to
\* authenticate: what is done stays done, and load is tried again.
Throw ==
    /\ job.at \in {"open", "mark", "entomb", "key", "note", "records", "row", "derive", "choose"}
          \cup (IF job.last THEN {} ELSE {"untomb", "undone"})
    /\ job.at = "records" => rows \ {job.for} # {}
    /\ job' = NoJob /\ changing' = FALSE
    /\ UNCHANGED <<keys, storage, records, ready, current, list, pending, adding, onboarding,
                   board, call, life, signatures>>

\* After the last wallet, wipe swallows it.
Swallow ==
    /\ job.at \in {"untomb", "undone"} /\ job.last /\ Job("close")
    /\ UNCHANGED <<keys, storage, records, memory, board, call, life, signatures>>
-----------------------------------------------------------------------------
(* Onboarding: a new or an imported wallet, alone or beside others.         *)

MayOnboard == pending = NoWallet /\ Cardinality(list) < MaxWallets

BeginAdd ==
    /\ ready /\ MayOnboard /\ ~changing /\ board.at = "idle"
    /\ adding' = (current # NoWallet) /\ onboarding' = "idle"
    /\ UNCHANGED <<keys, storage, records, ready, current, list, pending, changing,
                   job, board, call, life, signatures>>

CancelAdd ==
    /\ ready /\ board.at = "idle"
    /\ adding' = FALSE /\ onboarding' = "idle"
    /\ UNCHANGED <<keys, storage, records, ready, current, list, pending, changing,
                   job, board, call, life, signatures>>

\* beginCreate and the challenge of the words, or beginImport.
Prepared ==
    /\ ready /\ MayOnboard /\ (current = NoWallet \/ adding) /\ onboarding = "idle"
    /\ onboarding' = IF current = NoWallet THEN "pin" ELSE "ready"
    /\ UNCHANGED <<keys, storage, records, ready, current, list, pending, changing,
                   adding, job, board, call, life, signatures>>

\* setPin, for the first wallet.
SetPin ==
    /\ ready /\ pending = NoWallet /\ ~adding /\ current = NoWallet /\ onboarding = "pin"
    /\ pin' = TRUE /\ onboarding' = "ready"
    /\ UNCHANGED <<keys, rows, chosen, tomb, done, records, ready, current, list,
                   pending, changing, adding, job, board, call, life, signatures>>

\* completeOnboarding
Commit(w) ==
    /\ ready /\ MayOnboard /\ (current = NoWallet \/ adding) /\ onboarding = "ready"
    /\ board.at = "idle" /\ life[w] = "new"
    /\ board' = [at |-> "store", for |-> w, had |-> current]
    /\ life' = [life EXCEPT ![w] = "drawn"]
    /\ UNCHANGED <<keys, storage, records, memory, job, call, signatures>>

StoreKey ==
    /\ board.at = "store"
    /\ keys' = keys \cup {board.for} /\ Board("row")
    /\ UNCHANGED <<storage, records, memory, job, call, life, signatures>>

\* The row is written, and at once the wallet is the current one.
Describe ==
    /\ board.at = "row"
    /\ StoreRow(board.for)
    /\ current' = board.for /\ adding' = FALSE /\ onboarding' = "idle"
    /\ life' = [life EXCEPT ![board.for] = "stored"]
    /\ Board("list")
    /\ UNCHANGED <<keys, pin, tomb, done, records, ready, list, pending, changing, job,
                   call, signatures>>

Onboarded ==
    /\ board.at = "list"
    /\ list' = rows /\ board' = NoBoard
    /\ life' = [life EXCEPT ![board.for] = "kept"]
    /\ UNCHANGED <<keys, storage, records, ready, current, pending, changing, adding,
                   onboarding, job, call, signatures>>

\* A call throws, maybe after the row was written: every compensation is
\* tried, whatever becomes of the others.
Compensate ==
    /\ \/ board.at = "store" /\ Board("undo row") /\ UNCHANGED <<rows, chosen>>
       \/ board.at = "row" /\ Board("undo key")
          /\ (StoreRow(board.for) \/ UNCHANGED <<rows, chosen>>)
    /\ UNCHANGED <<keys, pin, tomb, done, records, memory, job, call, life, signatures>>

UndoKey ==
    /\ board.at = "undo key"
    /\ keys' \in {keys, keys \ {board.for}} /\ Board("undo row")
    /\ UNCHANGED <<storage, records, memory, job, call, life, signatures>>

\* Mutant: the wallets that were there before are forgotten.
UndoRowByWipe ==
    /\ board.at = "undo row"
    /\ \/ rows' = {} /\ chosen' = NoWallet /\ Board("undo pin")
       \/ Board("undo end") /\ UNCHANGED <<rows, chosen>>
    /\ UNCHANGED <<keys, pin, tomb, done, records, memory, job, call, life, signatures>>

UndoRow ==
    /\ board.at = "undo row"
    /\ \/ board.had # NoWallet /\ RemoveWallet(board.for) /\ Board("undo choice")
       \/ board.had = NoWallet /\ rows' = {} /\ chosen' = NoWallet /\ Board("undo pin")
       \/ /\ Board(IF board.had = NoWallet THEN "undo pin" ELSE "undo end")
          /\ UNCHANGED <<rows, chosen>>
    /\ UNCHANGED <<keys, pin, tomb, done, records, memory, job, call, life, signatures>>

UndoChoice ==
    /\ board.at = "undo choice"
    /\ chosen' \in {chosen} \cup ({board.had} \cap rows) /\ Board("undo end")
    /\ UNCHANGED <<keys, rows, pin, tomb, done, records, memory, job, call, life,
                   signatures>>

\* The rest of wipe, which ends with the marks of a deletion.
UndoPin ==
    /\ board.at = "undo pin"
    /\ pin' \in {FALSE, pin}
    /\ \/ rows = {} /\ ~pin' /\ tomb' = NoWallet /\ done' \in {NoWallet, done}
       \/ UNCHANGED <<tomb, done>>
    /\ Board("undo end")
    /\ UNCHANGED <<keys, rows, chosen, records, memory, job, call, life, signatures>>

NotOnboarded ==
    /\ board.at = "undo end"
    /\ current' = board.had /\ adding' = FALSE /\ onboarding' = "idle"
    /\ life' = [life EXCEPT ![board.for] = "dropped"] /\ board' = NoBoard
    /\ UNCHANGED <<keys, storage, records, ready, list, pending, changing, job, call,
                   signatures>>
-----------------------------------------------------------------------------
(* renameWallet, setBiometricEnabled: the row is written again.             *)

Rename ==
    /\ ready /\ current # NoWallet /\ pending = NoWallet /\ ~changing /\ ~adding
    /\ StoreRow(current) /\ list' = rows'
    /\ UNCHANGED <<keys, pin, tomb, done, records, ready, current, pending, changing,
                   adding, onboarding, job, board, call, life, signatures>>
-----------------------------------------------------------------------------
(* signRequest                                                              *)

Sign(s, q) ==
    /\ ready /\ call[s].at = "idle"
    /\ pending = NoWallet /\ current = WalletOf[q]
    /\ call' = [call EXCEPT ![s] = [at |-> "probe", of |-> q]]
    /\ UNCHANGED <<keys, storage, records, memory, job, board, life, signatures>>

\* reserve: one transaction.
Reserve(s) ==
    /\ call[s].at = "probe" /\ records[call[s].of] = "none"
    /\ records' = [records EXCEPT ![call[s].of] = "scanned"]
    /\ Goto(s, "reserved")
    /\ UNCHANGED <<keys, storage, memory, job, board, life, signatures>>

\* After the second look at the device there is no await before the native call.
Invoke(s) ==
    /\ call[s].at = "reserved"
    /\ pending = NoWallet /\ current = WalletOf[call[s].of] /\ ~changing
    /\ Goto(s, "native")
    /\ UNCHANGED <<keys, storage, records, memory, job, board, life, signatures>>

SignNatively(s) ==
    /\ call[s].at = "native" /\ WalletOf[call[s].of] \in keys
    /\ signatures' = [signatures EXCEPT ![call[s].of] = @ + 1]
    /\ Goto(s, "signed")
    /\ UNCHANGED <<keys, storage, records, memory, job, board, life>>

\* finalizeReservation, unless the reservation has gone with its wallet.
Finalize(s) ==
    /\ call[s].at = "signed" /\ records[call[s].of] = "scanned"
    /\ records' = [records EXCEPT ![call[s].of] = "signed"]
    /\ call' = [call EXCEPT ![s] = NoCall]
    /\ UNCHANGED <<keys, storage, memory, job, board, life, signatures>>

\* Mutant: the reservation of a call that failed is released.
RefuseAndRelease(s) ==
    /\ call[s].at # "idle"
    /\ call' = [call EXCEPT ![s] = NoCall]
    /\ records' = [records EXCEPT ![call[s].of] =
                      IF call[s].at \in {"native", "signed"} THEN "none" ELSE @]
    /\ UNCHANGED <<keys, storage, memory, job, board, life, signatures>>

\* A check says no, or a call throws; a reservation stays.
Refuse(s) ==
    /\ call[s].at # "idle"
    /\ call' = [call EXCEPT ![s] = NoCall]
    /\ UNCHANGED <<keys, storage, records, memory, job, board, life, signatures>>
-----------------------------------------------------------------------------
\* The process dies, and with it everything that was under way.
Kill ==
    /\ ready' = FALSE /\ current' = NoWallet /\ list' = {} /\ pending' = NoWallet
    /\ changing' = FALSE /\ adding' = FALSE /\ onboarding' = "idle"
    /\ job' = NoJob /\ board' = NoBoard /\ call' = [s \in Callback |-> NoCall]
    /\ UNCHANGED <<keys, storage, records, life, signatures>>

ColdNext ==
    \/ LoadBegin \/ Open
    \/ Delete \/ Mark \/ Entomb \/ EntombUnseen \/ DeleteKey \/ Note \/ ClearRecords \/ RemoveRow
    \/ WipeRow \/ WipePin \/ Untomb \/ Undone \/ Close \/ Throw \/ Swallow
    \/ \E w \in WalletId : Select(w) \/ Commit(w)
    \/ Refresh \/ Choose \/ Rename
    \/ BeginAdd \/ CancelAdd \/ Prepared \/ SetPin \/ StoreKey \/ Describe \/ Onboarded
    \/ Compensate \/ UndoKey \/ UndoRow \/ UndoChoice \/ UndoPin \/ NotOnboarded
    \/ \E s \in Callback :
          \/ \E q \in ReqId : Sign(s, q)
          \/ Reserve(s) \/ Invoke(s) \/ SignNatively(s) \/ Finalize(s) \/ Refuse(s)
    \/ Kill

ColdSpec == ColdInit /\ [][ColdNext]_coldVars
-----------------------------------------------------------------------------
(* Properties                                                               *)

\* A request is signed once at most, whatever callbacks overlap, calls fail,
\* restarts or deletions come between: deleting a wallet forgets what it has
\* signed, but only when its key is gone (sign_record_store.dart:3-5).
SignedOnce == \A q \in ReqId : signatures[q] <= 1

\* A wallet the user created and did not delete keeps its key, its row and the
\* PIN, whatever fails, is cut off or is deleted beside it.
WalletsAreWhole == \A w \in WalletId : life[w] = "kept" => w \in keys \cap rows /\ pin

\* A wallet the user has deleted does not come back (secure_vault.dart:480-483:
\* no row is resurrected "whose native key has already gone"): none is selected
\* on the screens while the app lets him use it, and as long as there is a row
\* without a key the tombstone names it, whenever the app dies.
DeletedStaysDeleted ==
    /\ ready /\ Quiet /\ current # NoWallet => life[current] # "unwanted"
    /\ \A w \in rows \ keys : life[w] \in {"unwanted", "doubtful"} => tomb = w
=============================================================================
