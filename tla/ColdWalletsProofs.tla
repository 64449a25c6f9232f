-------------------------- MODULE ColdWalletsProofs --------------------------
(***************************************************************************)
(* Proofs about ColdWallets, for any number of wallets, requests and       *)
(* callbacks: a request is signed once at most, a wallet the user created  *)
(* stays whole, and one that was deleted does not come back.               *)
(*                                                                         *)
(* None of the three is inductive: what a step may do next depends on how  *)
(* far a deletion or an onboarding has got, what the screens show and which *)
(* calls hold a reservation.  ColdInv says that, a conjunct for each part of*)
(* the state, and each conjunct has a lemma that a step keeps it, one step  *)
(* of the proof for each action.                                            *)
(***************************************************************************)
EXTENDS ColdWallets, TLAPS

\* What life tells of a wallet: that a screen has shown it as stored, and that
\* its deletion has been written down.
Doomed(w) == life[w] \in {"doubtful", "unwanted"}
Known(w)  == life[w] \in {"stored", "shown", "kept"} \/ Doomed(w)
KeysLeft  == \E w \in keys : Known(w)

Keyless  == {"note", "records", "row", "wipe row", "wipe pin", "untomb", "undone",
             "close"}
Deleting == {"mark", "entomb", "key"} \cup Keyless
Undoing  == {"undo key", "undo row", "undo choice", "undo pin", "undo end"}

Maybe == WalletId \cup {NoWallet}
JobType   == [at : {"idle", "open", "derive", "choose"} \cup Deleting, for : Maybe,
              why : {"load", "select", "delete"}, last : BOOLEAN, clean : BOOLEAN]
BoardType == [at : {"idle", "store", "row", "list"} \cup Undoing, for : Maybe, had : Maybe]
CallType  == [at : {"idle", "probe", "reserved", "native", "signed"},
              of : ReqId \cup {NoWallet}]

StoredOK ==
    /\ keys \subseteq WalletId /\ rows \subseteq WalletId
    /\ chosen \in Maybe /\ tomb \in Maybe /\ done \in Maybe /\ pin \in BOOLEAN
    /\ records \in [ReqId -> {"none", "scanned", "signed"}]
ShownOK ==
    /\ list \subseteq WalletId /\ current \in Maybe /\ pending \in Maybe
    /\ ready \in BOOLEAN /\ changing \in BOOLEAN /\ adding \in BOOLEAN
    /\ onboarding \in {"idle", "pin", "ready"}
HistoryOK ==
    /\ signatures \in [ReqId -> Nat]
    /\ life \in [WalletId -> {"new", "drawn", "stored", "shown", "kept", "dropped",
                              "doubtful", "unwanted"}]

ColdTypeOK ==
    /\ StoredOK /\ ShownOK /\ HistoryOK
    /\ job \in JobType /\ board \in BoardType /\ call \in [Callback -> CallType]

\* The three stores agree, whenever the app dies.
StorageInv ==
    /\ (chosen = NoWallet /\ rows = {}) \/ chosen \in rows
    /\ \A w \in keys \cup rows : life[w] # "new"
    /\ \A w \in keys : Known(w) => w \in rows
    /\ \A w \in WalletId : life[w] = "kept" => w \in keys \cap rows /\ pin
    /\ \A w \in keys \cup rows : Doomed(w) => tomb = w
    /\ tomb # NoWallet => Doomed(tomb)
    /\ done # NoWallet => Known(done) /\ done \notin keys

\* What is under way with a wallet and how far it has got.
JobInv ==
    /\ job.at = "idle" => ~changing
    /\ job.at # "idle" =>
         \/ ~ready /\ job.why = "load"
         \/ /\ ready /\ job.why # "load" /\ job.at # "open"
            /\ changing /\ ~adding /\ current # NoWallet /\ board.at = "idle"
    /\ job.at \in Deleting => job.for # NoWallet /\ Known(job.for)
    /\ job.at \in Keyless => job.for \notin keys
    /\ job.at \in {"key"} \cup (Keyless \ {"undone", "close"}) => tomb = job.for
    /\ job.at \in {"open", "entomb", "undone"} => tomb = NoWallet
    /\ job.at = "close" /\ ~job.last => tomb = NoWallet
    /\ job.at = "untomb" => job.for \notin rows
    /\ job.at = "wipe pin" /\ job.clean => rows = {}
    /\ job.at \in {"wipe row", "wipe pin"} => job.last
    /\ job.last =>
         /\ ~KeysLeft
         /\ job.at \in {"wipe row", "wipe pin", "untomb", "undone", "close", "open"}
    /\ job.at \in {"derive", "choose"} => ready /\ pending = NoWallet /\ job.for # NoWallet
    /\ job.at = "choose" => job.for \in keys
    /\ job.at \in {"key"} \cup Keyless => pending # NoWallet

BoardInv ==
    /\ board.at # "idle" => ready /\ board.for # NoWallet
    /\ board.at \in {"store", "row"} \cup Undoing =>
         /\ life[board.for] = "drawn" /\ current = board.had
         /\ board.had # NoWallet => adding /\ life[board.had] # "unwanted"
    /\ board.at \in {"store", "row"} => pin
    /\ board.at = "row" => board.for \in keys
    /\ board.at = "undo pin" => board.had = NoWallet
    /\ board.at = "list" =>
         /\ life[board.for] = "stored" /\ current = board.for
         /\ board.for \in keys \cap rows /\ pin

\* What the screens show, and when they offer to go on.
ScreenInv ==
    /\ ~ready => /\ ~changing /\ board.at = "idle" /\ onboarding = "idle"
                 /\ \A s \in Callback : call[s].at = "idle"
    /\ ready /\ current = NoWallet => list = {} /\ ~KeysLeft
    /\ ready /\ current # NoWallet => Known(current)
    /\ ready /\ current # NoWallet /\ ~job.last => pin
    /\ onboarding = "ready" /\ board.at \notin Undoing => pin
    /\ ready /\ current # NoWallet /\ ~adding => onboarding = "idle"
    /\ ready /\ current # NoWallet /\ life[current] = "unwanted" => pending # NoWallet
    /\ ready /\ tomb # NoWallet /\ life[tomb] = "unwanted" => pending # NoWallet
    /\ ready /\ current # NoWallet /\ Doomed(current) =>
         pending # NoWallet \/ tomb = current

\* A request that was signed, or may be, has its record, or its wallet no key.
SignInv ==
    /\ \A q \in ReqId : signatures[q] <= 1
    /\ \A q \in ReqId : records[q] # "none" \/ signatures[q] # 0 => Known(WalletOf[q])
    /\ \A q \in ReqId :
          signatures[q] # 0 => records[q] # "none" \/ WalletOf[q] \notin keys

\* Calls of signRequest: a call that holds a reservation holds it alone, and
\* nothing has been signed yet.
Holds(s, q) == call[s].at \in {"reserved", "native"} /\ call[s].of = q

CallInv ==
    /\ \A s \in Callback :
          call[s].at # "idle" => call[s].of \in ReqId /\ Known(WalletOf[call[s].of])
    /\ \A s \in Callback : call[s].at = "signed" => signatures[call[s].of] # 0
    /\ \A s \in Callback, q \in ReqId :
          Holds(s, q) /\ WalletOf[q] \in keys => records[q] = "scanned" /\ signatures[q] = 0
    /\ \A s, t \in Callback, q \in ReqId :
          Holds(s, q) /\ Holds(t, q) /\ WalletOf[q] \in keys => s = t

ColdInv == ColdTypeOK /\ StorageInv /\ JobInv /\ BoardInv /\ ScreenInv /\ SignInv /\ CallInv

\* What Shown(v, as) does to the life of a wallet.
LifeAfter(v, as) ==
    \A w \in WalletId :
      /\ Doomed(w)' <=> Doomed(w)
      /\ (life'[w] = "unwanted") <=> (life[w] = "unwanted")
      /\ (life'[w] = "new") <=> (life[w] = "new")
      /\ life'[w] = "drawn" => life[w] = "drawn"
      /\ life'[w] = "kept" => life[w] = "kept" \/ (w = v /\ as = "kept")
      /\ Known(w) => Known(w)'
      /\ w = v /\ life[w] # "new" => Known(w)'
      /\ w # v => life'[w] = life[w]

LEMMA ShownLife ==
  ASSUME HistoryOK, NEW v, NEW as \in {"shown", "kept"}, Shown(v, as)
  PROVE  LifeAfter(v, as)
  BY DEF HistoryOK, Shown, LifeAfter, Known, Doomed

\* The life of one wallet goes on, of the wallet an onboarding is for.
OneLife(v, from, to) ==
    /\ v \in WalletId /\ life[v] = from /\ life'[v] = to
    /\ \A w \in WalletId : w # v => life'[w] = life[w]

LEMMA OneLifeChanges ==
  ASSUME ColdTypeOK, BoardInv, board.at # "idle", NEW from, life[board.for] = from,
         NEW to, life' = [life EXCEPT ![board.for] = to]
  PROVE  OneLife(board.for, from, to)
  <1>1. board.for \in WalletId
    BY ColdConstants DEF ColdTypeOK, BoardType, Maybe, BoardInv
  <1> QED BY <1>1 DEF OneLife, ColdTypeOK, HistoryOK

\* What is stored keeps its type.
LEMMA StoredTyped ==
  ASSUME ColdTypeOK, BoardInv, ColdNext
  PROVE  StoredOK'
  <1> USE ColdConstants DEF ColdTypeOK, StoredOK, ShownOK, JobType, Maybe
  <1>1. CASE LoadBegin \/ Open \/ Delete \/ Close \/ Throw \/ Swallow
              \/ BeginAdd \/ CancelAdd \/ Prepared \/ Onboarded \/ NotOnboarded
              \/ Kill
              \/ (\E w \in WalletId : Select(w) \/ Commit(w))
              \/ (\E s \in Callback : (\E q \in ReqId : Sign(s, q)) \/ Invoke(s)
                  \/ SignNatively(s) \/ Refuse(s))
    <2>1. UNCHANGED <<keys, rows, chosen, pin, tomb, done, records>>
      BY <1>1
        DEF LoadBegin, Open, Delete, Close, Throw, Swallow, Select,
            Commit, BeginAdd, CancelAdd, Prepared, Onboarded, NotOnboarded, Sign,
            Invoke, SignNatively, Refuse, Kill, storage, memory
    <2> QED BY <2>1
  <1>2. CASE Mark
    BY <1>2 DEF Mark, Job, memory
  <1>3. CASE Entomb
    BY <1>3 DEF Entomb, Job
  <1>4. CASE EntombUnseen
    BY <1>4 DEF EntombUnseen, NoJob
  <1>5. CASE DeleteKey
    BY <1>5 DEF DeleteKey, Job, memory, storage
  <1>6. CASE Note
    BY <1>6 DEF Note, Job, memory
  <1>7. CASE ClearRecords
    <2>1. UNCHANGED <<keys, rows, chosen, pin, tomb, done>>
      BY <1>7 DEF ClearRecords, storage
    <2>2. (\E Q : Cleared(Q)) \/ UNCHANGED records
      BY <1>7 DEF ClearRecords
    <2>3. records' \in [ReqId -> {"none", "scanned", "signed"}]
      BY <2>2 DEF Cleared
    <2> QED BY <2>1, <2>3
  <1>8. CASE RemoveRow
    BY <1>8 DEF RemoveRow, Job, RemoveWallet, memory
  <1>9. CASE WipeRow
    BY <1>9 DEF WipeRow, Job, memory
  <1>10. CASE WipePin
    BY <1>10 DEF WipePin, Job, memory
  <1>11. CASE Untomb
    BY <1>11 DEF Untomb, Job, memory
  <1>12. CASE Undone
    BY <1>12 DEF Undone, Job, memory
  <1>13. CASE Refresh
    BY <1>13 DEF Refresh, Job, StoreRow, memory
  <1>14. CASE Choose
    BY <1>14 DEF Choose, NoJob, Shown
  <1>15. CASE Rename
    BY <1>15 DEF Rename, StoreRow
  <1>16. CASE SetPin
    BY <1>16 DEF SetPin
  <1>17. CASE StoreKey
    BY <1>17 DEF StoreKey, Board, memory, storage, BoardInv, BoardType, Undoing
  <1>18. CASE Describe
    BY <1>18 DEF Describe, Board, StoreRow, BoardInv, BoardType, Undoing
  <1>19. CASE Compensate
    BY <1>19 DEF Compensate, Board, StoreRow, memory, BoardInv, BoardType, Undoing
  <1>20. CASE UndoKey
    BY <1>20 DEF UndoKey, Board, memory, storage
  <1>21. CASE UndoRow
    BY <1>21 DEF UndoRow, Board, RemoveWallet, memory
  <1>22. CASE UndoChoice
    BY <1>22 DEF UndoChoice, Board, memory
  <1>23. CASE UndoPin
    BY <1>23 DEF UndoPin, Board, memory
  <1>24. ASSUME NEW s \in Callback, Reserve(s)
        PROVE  StoredOK'
    BY <1>24 DEF Reserve, Goto, memory, storage
  <1>25. ASSUME NEW s \in Callback, Finalize(s)
        PROVE  StoredOK'
    BY <1>25 DEF Finalize, NoCall, memory, storage
  <1> QED BY <1>1, <1>2, <1>3, <1>4, <1>5, <1>6, <1>7, <1>8, <1>9, <1>10, <1>11,
             <1>12, <1>13, <1>14, <1>15, <1>16, <1>17, <1>18, <1>19, <1>20, <1>21,
             <1>22, <1>23, <1>24, <1>25
        DEF ColdNext

\* What the screens show keeps its type.
LEMMA ShownTyped ==
  ASSUME ColdTypeOK, BoardInv, ColdNext
  PROVE  ShownOK'
  <1> USE ColdConstants DEF ColdTypeOK, ShownOK, StoredOK, JobType, BoardType, Maybe
  <1>1. CASE Mark \/ DeleteKey \/ Note \/ ClearRecords \/ RemoveRow \/ WipeRow
              \/ Untomb \/ Undone \/ Swallow \/ Refresh \/ StoreKey
              \/ Compensate \/ UndoKey \/ UndoRow \/ UndoChoice
              \/ (\E w \in WalletId : Commit(w))
              \/ (\E s \in Callback : (\E q \in ReqId : Sign(s, q)) \/ Reserve(s)
                  \/ Invoke(s) \/ SignNatively(s) \/ Finalize(s) \/ Refuse(s))
    <2>1. UNCHANGED <<pin, ready, current, list, pending, changing, adding, onboarding>>
      BY <1>1
        DEF Mark, DeleteKey, Note, ClearRecords, RemoveRow, WipeRow,
            Untomb, Undone, Swallow, Commit, Refresh, StoreKey, Compensate, UndoKey,
            UndoRow, UndoChoice, Sign, Reserve, Invoke, SignNatively, Finalize,
            Refuse, storage, memory
    <2> QED BY <2>1
  <1>2. CASE LoadBegin
    BY <1>2 DEF LoadBegin, NoJob, Corrupted, storage
  <1>3. CASE Open
    BY <1>3 DEF Open, NoJob, Shown, storage
  <1>4. CASE Delete
    BY <1>4 DEF Delete, NoJob, storage
  <1>5. CASE Entomb
    BY <1>5 DEF Entomb, Job
  <1>6. CASE EntombUnseen
    BY <1>6 DEF EntombUnseen, NoJob
  <1>7. CASE WipePin
    BY <1>7 DEF WipePin, Job, memory
  <1>8. CASE Close
    BY <1>8 DEF Close, NoJob, Job, Shown, storage
  <1>9. CASE Throw
    BY <1>9 DEF Throw, NoJob, storage
  <1>10. ASSUME NEW w \in WalletId, Select(w)
        PROVE  ShownOK'
    BY <1>10 DEF Select, NoJob, Quiet, storage
  <1>11. CASE Choose
    BY <1>11 DEF Choose, NoJob, Shown
  <1>12. CASE Rename
    BY <1>12 DEF Rename, StoreRow
  <1>13. CASE BeginAdd
    BY <1>13 DEF BeginAdd, MayOnboard, storage
  <1>14. CASE CancelAdd
    BY <1>14 DEF CancelAdd, storage
  <1>15. CASE Prepared
    BY <1>15 DEF Prepared, MayOnboard, storage
  <1>16. CASE SetPin
    BY <1>16 DEF SetPin
  <1>17. CASE Describe
    BY <1>17 DEF Describe, Board, StoreRow
  <1>18. CASE Onboarded
    BY <1>18 DEF Onboarded, NoBoard, storage
  <1>19. CASE UndoPin
    BY <1>19 DEF UndoPin, Board, memory
  <1>20. CASE NotOnboarded
    BY <1>20 DEF NotOnboarded, NoBoard, storage
  <1>21. CASE Kill
    BY <1>21 DEF Kill, NoJob, NoBoard, NoCall, storage
  <1> QED BY <1>1, <1>2, <1>3, <1>4, <1>5, <1>6, <1>7, <1>8, <1>9, <1>10, <1>11,
             <1>12, <1>13, <1>14, <1>15, <1>16, <1>17, <1>18, <1>19, <1>20, <1>21
        DEF ColdNext

\* The history variables keep their types.
LEMMA HistoryTyped ==
  ASSUME ColdTypeOK, CallInv, ColdNext
  PROVE  HistoryOK'
  <1> USE ColdConstants DEF ColdTypeOK, HistoryOK
  <1>1. CASE LoadBegin \/ Delete \/ Mark \/ DeleteKey \/ Note \/ ClearRecords
              \/ RemoveRow \/ WipeRow \/ WipePin \/ Untomb \/ Undone \/ Throw
              \/ Swallow \/ Refresh \/ Rename \/ BeginAdd \/ CancelAdd
              \/ Prepared \/ SetPin \/ StoreKey \/ Compensate \/ UndoKey
              \/ UndoRow \/ UndoChoice \/ UndoPin \/ Kill
              \/ (\E w \in WalletId : Select(w))
              \/ (\E s \in Callback : (\E q \in ReqId : Sign(s, q)) \/ Reserve(s)
                  \/ Invoke(s) \/ Finalize(s) \/ Refuse(s))
    <2>1. UNCHANGED <<life, signatures>>
      BY <1>1
        DEF LoadBegin, Delete, Mark, DeleteKey, Note, ClearRecords,
            RemoveRow, WipeRow, WipePin, Untomb, Undone, Throw, Swallow, Select,
            Refresh, Rename, BeginAdd, CancelAdd, Prepared, SetPin, StoreKey,
            Compensate, UndoKey, UndoRow, UndoChoice, UndoPin, Sign, Reserve,
            Invoke, Finalize, Refuse, Kill, storage, memory
    <2> QED BY <2>1
  <1>2. CASE Open
    BY <1>2 DEF Open, NoJob, Shown, storage
  <1>3. CASE Entomb
    BY <1>3 DEF Entomb, Job
  <1>4. CASE EntombUnseen
    BY <1>4 DEF EntombUnseen, NoJob
  <1>5. CASE Close
    BY <1>5 DEF Close, NoJob, Job, Shown, storage
  <1>6. ASSUME NEW w \in WalletId, Commit(w)
        PROVE  HistoryOK'
    BY <1>6 DEF Commit, MayOnboard, memory, storage
  <1>7. CASE Choose
    BY <1>7 DEF Choose, NoJob, Shown
  <1>8. CASE Describe
    BY <1>8 DEF Describe, Board, StoreRow
  <1>9. CASE Onboarded
    BY <1>9 DEF Onboarded, NoBoard, storage
  <1>10. CASE NotOnboarded
    BY <1>10 DEF NotOnboarded, NoBoard, storage
  <1>11. ASSUME NEW s \in Callback, SignNatively(s)
        PROVE  HistoryOK'
    BY <1>11 DEF SignNatively, Goto, memory, storage, CallInv, CallType, Holds
  <1> QED BY <1>1, <1>2, <1>3, <1>4, <1>5, <1>6, <1>7, <1>8, <1>9, <1>10, <1>11
        DEF ColdNext

\* A load, a selection and a deletion keep their type.
LEMMA JobTyped ==
  ASSUME ColdTypeOK, ColdNext
  PROVE  (job \in JobType)'
  <1> USE ColdConstants DEF ColdTypeOK, JobType, Maybe, StoredOK, ShownOK, Deleting,
      Keyless
  <1>1. CASE Rename \/ BeginAdd \/ CancelAdd \/ Prepared \/ StoreKey
              \/ Describe \/ Onboarded \/ Compensate \/ UndoKey \/ UndoRow
              \/ UndoChoice \/ NotOnboarded
              \/ (\E w \in WalletId : Commit(w))
              \/ (\E s \in Callback : (\E q \in ReqId : Sign(s, q)) \/ Invoke(s)
                  \/ SignNatively(s) \/ Refuse(s))
    <2>1. UNCHANGED <<pin, records, job>>
      BY <1>1
        DEF Commit, Rename, BeginAdd, CancelAdd, Prepared, StoreKey,
            Describe, Onboarded, Compensate, UndoKey, UndoRow, UndoChoice,
            NotOnboarded, Sign, Invoke, SignNatively, Refuse, storage, memory
    <2> QED BY <2>1
  <1>2. CASE LoadBegin
    BY <1>2 DEF LoadBegin, NoJob, Corrupted, storage
  <1>3. CASE Open
    BY <1>3 DEF Open, NoJob, Shown, storage
  <1>4. CASE Delete
    BY <1>4 DEF Delete, NoJob, storage
  <1>5. CASE Mark
    BY <1>5 DEF Mark, Job, memory
  <1>6. CASE Entomb
    BY <1>6 DEF Entomb, Job
  <1>7. CASE EntombUnseen
    BY <1>7 DEF EntombUnseen, NoJob
  <1>8. CASE DeleteKey
    BY <1>8 DEF DeleteKey, Job, memory, storage
  <1>9. CASE Note
    BY <1>9 DEF Note, Job, memory
  <1>10. CASE ClearRecords
    BY <1>10 DEF ClearRecords, Job, Cleared, memory, storage
  <1>11. CASE RemoveRow
    BY <1>11 DEF RemoveRow, Job, RemoveWallet, memory
  <1>12. CASE WipeRow
    BY <1>12 DEF WipeRow, Job, memory
  <1>13. CASE WipePin
    BY <1>13 DEF WipePin, Job, memory
  <1>14. CASE Untomb
    BY <1>14 DEF Untomb, Job, memory
  <1>15. CASE Undone
    BY <1>15 DEF Undone, Job, memory
  <1>16. CASE Close
    <2>1. CASE job' = NoJob
      BY <2>1 DEF NoJob
    <2>2. CASE Job("open")
      BY <2>2 DEF Job
    <2> QED BY <1>16, <2>1, <2>2 DEF Close
  <1>17. CASE Throw
    BY <1>17 DEF Throw, NoJob, storage
  <1>18. CASE Swallow
    BY <1>18 DEF Swallow, Job, memory, storage
  <1>19. ASSUME NEW w \in WalletId, Select(w)
        PROVE  (job \in JobType)'
    BY <1>19 DEF Select, NoJob, Quiet, storage
  <1>20. CASE Refresh
    BY <1>20 DEF Refresh, Job, StoreRow, memory
  <1>21. CASE Choose
    BY <1>21 DEF Choose, NoJob, Shown
  <1>22. CASE SetPin
    BY <1>22 DEF SetPin
  <1>23. CASE UndoPin
    BY <1>23 DEF UndoPin, Board, memory
  <1>24. ASSUME NEW s \in Callback, Reserve(s)
        PROVE  (job \in JobType)'
    BY <1>24 DEF Reserve, Goto, memory, storage
  <1>25. ASSUME NEW s \in Callback, Finalize(s)
        PROVE  (job \in JobType)'
    BY <1>25 DEF Finalize, NoCall, memory, storage
  <1>26. CASE Kill
    BY <1>26 DEF Kill, NoJob, NoBoard, NoCall, storage
  <1> QED BY <1>1, <1>2, <1>3, <1>4, <1>5, <1>6, <1>7, <1>8, <1>9, <1>10, <1>11,
             <1>12, <1>13, <1>14, <1>15, <1>16, <1>17, <1>18, <1>19, <1>20, <1>21,
             <1>22, <1>23, <1>24, <1>25, <1>26
        DEF ColdNext

\* An onboarding keeps its type.
LEMMA BoardTyped ==
  ASSUME ColdTypeOK, ColdNext
  PROVE  (board \in BoardType)'
  <1> USE ColdConstants DEF ColdTypeOK, BoardType, Maybe, ShownOK, Undoing
  <1>1. CASE LoadBegin \/ Delete \/ Mark \/ Entomb \/ EntombUnseen
              \/ DeleteKey \/ Note \/ ClearRecords \/ RemoveRow \/ WipeRow
              \/ Untomb \/ Undone \/ Throw \/ Swallow \/ Refresh \/ BeginAdd
              \/ CancelAdd \/ Prepared
              \/ (\E w \in WalletId : Select(w))
              \/ (\E s \in Callback : (\E q \in ReqId : Sign(s, q)) \/ Reserve(s)
                  \/ Invoke(s) \/ SignNatively(s) \/ Finalize(s) \/ Refuse(s))
    <2>1. UNCHANGED <<pin, list, board>>
      BY <1>1
        DEF LoadBegin, Delete, Mark, Entomb, EntombUnseen, DeleteKey,
            Note, ClearRecords, RemoveRow, WipeRow, Untomb, Undone, Throw, Swallow,
            Select, Refresh, BeginAdd, CancelAdd, Prepared, Sign, Reserve, Invoke,
            SignNatively, Finalize, Refuse, storage, memory
    <2> QED BY <2>1
  <1>2. CASE Open
    BY <1>2 DEF Open, NoJob, Shown, storage
  <1>3. CASE WipePin
    BY <1>3 DEF WipePin, Job, memory
  <1>4. CASE Close
    BY <1>4 DEF Close, NoJob, Job, Shown, storage
  <1>5. ASSUME NEW w \in WalletId, Commit(w)
        PROVE  (board \in BoardType)'
    BY <1>5 DEF Commit, MayOnboard, memory, storage
  <1>6. CASE Choose
    BY <1>6 DEF Choose, NoJob, Shown
  <1>7. CASE Rename
    BY <1>7 DEF Rename, StoreRow
  <1>8. CASE SetPin
    BY <1>8 DEF SetPin
  <1>9. CASE StoreKey
    BY <1>9 DEF StoreKey, Board, memory, storage
  <1>10. CASE Describe
    BY <1>10 DEF Describe, Board, StoreRow
  <1>11. CASE Onboarded
    BY <1>11 DEF Onboarded, NoBoard, storage
  <1>12. CASE Compensate
    BY <1>12 DEF Compensate, Board, StoreRow, memory
  <1>13. CASE UndoKey
    BY <1>13 DEF UndoKey, Board, memory, storage
  <1>14. CASE UndoRow
    BY <1>14 DEF UndoRow, Board, RemoveWallet, memory
  <1>15. CASE UndoChoice
    BY <1>15 DEF UndoChoice, Board, memory
  <1>16. CASE UndoPin
    BY <1>16 DEF UndoPin, Board, memory
  <1>17. CASE NotOnboarded
    BY <1>17 DEF NotOnboarded, NoBoard, storage
  <1>18. CASE Kill
    BY <1>18 DEF Kill, NoJob, NoBoard, NoCall, storage
  <1> QED BY <1>1, <1>2, <1>3, <1>4, <1>5, <1>6, <1>7, <1>8, <1>9, <1>10, <1>11,
             <1>12, <1>13, <1>14, <1>15, <1>16, <1>17, <1>18
        DEF ColdNext

\* The calls of signRequest keep their type.
LEMMA CallTyped ==
  ASSUME ColdTypeOK, ColdNext
  PROVE  (call \in [Callback -> CallType])'
  <1> USE ColdConstants DEF ColdTypeOK, CallType
  <1>1. CASE LoadBegin \/ Open \/ Delete \/ Mark \/ Entomb \/ EntombUnseen
              \/ DeleteKey \/ Note \/ ClearRecords \/ RemoveRow \/ WipeRow
              \/ WipePin \/ Untomb \/ Undone \/ Close \/ Throw \/ Swallow
              \/ Refresh \/ Choose \/ Rename \/ BeginAdd \/ CancelAdd
              \/ Prepared \/ SetPin \/ StoreKey \/ Describe \/ Onboarded
              \/ Compensate \/ UndoKey \/ UndoRow \/ UndoChoice \/ UndoPin
              \/ NotOnboarded
              \/ (\E w \in WalletId : Select(w) \/ Commit(w))
    <2>1. UNCHANGED <<call>>
      BY <1>1
        DEF LoadBegin, Open, Delete, Mark, Entomb, EntombUnseen,
            DeleteKey, Note, ClearRecords, RemoveRow, WipeRow, WipePin, Untomb,
            Undone, Close, Throw, Swallow, Select, Commit, Refresh, Choose, Rename,
            BeginAdd, CancelAdd, Prepared, SetPin, StoreKey, Describe, Onboarded,
            Compensate, UndoKey, UndoRow, UndoChoice, UndoPin, NotOnboarded,
            storage, memory
    <2> QED BY <2>1
  <1>2. ASSUME NEW s \in Callback, NEW q \in ReqId, Sign(s, q)
        PROVE  (call \in [Callback -> CallType])'
    BY <1>2 DEF Sign, memory, storage
  <1>3. ASSUME NEW s \in Callback, Reserve(s)
        PROVE  (call \in [Callback -> CallType])'
    BY <1>3 DEF Reserve, Goto, memory, storage
  <1>4. ASSUME NEW s \in Callback, Invoke(s)
        PROVE  (call \in [Callback -> CallType])'
    BY <1>4 DEF Invoke, Goto, memory, storage
  <1>5. ASSUME NEW s \in Callback, SignNatively(s)
        PROVE  (call \in [Callback -> CallType])'
    BY <1>5 DEF SignNatively, Goto, memory, storage
  <1>6. ASSUME NEW s \in Callback, Finalize(s)
        PROVE  (call \in [Callback -> CallType])'
    BY <1>6 DEF Finalize, NoCall, memory, storage
  <1>7. ASSUME NEW s \in Callback, Refuse(s)
        PROVE  (call \in [Callback -> CallType])'
    BY <1>7 DEF Refuse, NoCall, memory, storage
  <1>8. CASE Kill
    BY <1>8 DEF Kill, NoJob, NoBoard, NoCall, storage
  <1> QED BY <1>1, <1>2, <1>3, <1>4, <1>5, <1>6, <1>7, <1>8
        DEF ColdNext

\* The three stores go on agreeing.
LEMMA StorageStep ==
  ASSUME ColdTypeOK, StorageInv, JobInv, BoardInv, ScreenInv, ColdNext
  PROVE  StorageInv'
  <1> USE ColdConstants DEF ColdTypeOK, StorageInv, StoredOK, HistoryOK, Maybe,
      Known, Doomed
  <1>0. /\ keys \subseteq WalletId /\ rows \subseteq WalletId
        /\ tomb \in Maybe /\ done \in Maybe
    BY DEF ColdTypeOK, StoredOK
  <1>1. CASE LoadBegin \/ Delete \/ ClearRecords \/ Throw \/ Swallow
              \/ BeginAdd \/ CancelAdd \/ Prepared \/ Kill
              \/ (\E w \in WalletId : Select(w))
              \/ (\E s \in Callback : (\E q \in ReqId : Sign(s, q)) \/ Reserve(s)
                  \/ Invoke(s) \/ SignNatively(s) \/ Finalize(s) \/ Refuse(s))
    <2>1. UNCHANGED <<keys, rows, chosen, pin, tomb, done, life>>
      BY <1>1
        DEF LoadBegin, Delete, ClearRecords, Throw, Swallow, Select,
            BeginAdd, CancelAdd, Prepared, Sign, Reserve, Invoke, SignNatively,
            Finalize, Refuse, Kill, storage, memory
    <2> QED BY <2>1
  <1>2. CASE Open
    <2>0. LifeAfter(chosen, "kept")
      BY <1>2, ShownLife DEF Open, ColdTypeOK
    <2> QED
      BY <1>2, <2>0 DEF Open, NoJob, storage, LifeAfter
  <1>3. CASE Mark
    BY <1>3 DEF Mark, Job, memory
  <1>4. CASE Entomb
    <2>1. ((chosen = NoWallet /\ rows = {}) \/ chosen \in rows)'
      BY <1>4 DEF Entomb, Job
    <2>2. (\A w \in keys \cup rows : life[w] # "new")'
      BY <1>4 DEF Entomb, Job
    <2>3. (\A w \in keys : Known(w) => w \in rows)'
      BY <1>4 DEF Entomb, Job, JobInv, JobType, Deleting, Keyless
    <2>4. (\A w \in WalletId : life[w] = "kept" => w \in keys \cap rows /\ pin)'
      BY <1>4 DEF Entomb, Job
    <2>5. (\A w \in keys \cup rows : Doomed(w) => tomb = w)'
      <3>1. job.for \in WalletId /\ tomb \in {NoWallet, job.for}
        BY <1>4, ColdConstants DEF Entomb, ColdTypeOK, JobInv, JobType, Maybe, Deleting
      <3>2. \A w \in WalletId \ {job.for} : life'[w] = life[w]
        BY <1>4, <3>1 DEF Entomb, ColdTypeOK, HistoryOK
      <3>3. keys' = keys /\ rows' = rows /\ tomb' = job.for
        BY <1>4 DEF Entomb
      <3>4. \A w \in keys \cup rows : w \in WalletId /\ (Doomed(w) => tomb = w)
        BY DEF StorageInv, ColdTypeOK, StoredOK
      <3> QED BY <3>1, <3>2, <3>3, <3>4, ColdConstants DEF Doomed
    <2>6. (tomb # NoWallet => Doomed(tomb))'
      BY <1>4 DEF Entomb, Job, JobInv, JobType, Deleting, Keyless
    <2>7. (done # NoWallet => Known(done) /\ done \notin keys)'
      BY <1>4 DEF Entomb, Job
    <2> QED BY <2>1, <2>2, <2>3, <2>4, <2>5, <2>6, <2>7
  <1>5. CASE EntombUnseen
    <2>1. ((chosen = NoWallet /\ rows = {}) \/ chosen \in rows)'
      BY <1>5 DEF EntombUnseen, NoJob
    <2>2. (\A w \in keys \cup rows : life[w] # "new")'
      BY <1>5 DEF EntombUnseen, NoJob
    <2>3. (\A w \in keys : Known(w) => w \in rows)'
      BY <1>5 DEF EntombUnseen, NoJob, JobInv, JobType, Deleting, Keyless
    <2>4. (\A w \in WalletId : life[w] = "kept" => w \in keys \cap rows /\ pin)'
      BY <1>5 DEF EntombUnseen, NoJob
    <2>5. (\A w \in keys \cup rows : Doomed(w) => tomb = w)'
      <3>1. job.for \in WalletId /\ tomb \in {NoWallet, job.for}
        BY <1>5, ColdConstants DEF EntombUnseen, ColdTypeOK, JobInv, JobType, Maybe, Deleting
      <3>2. \A w \in WalletId \ {job.for} : life'[w] = life[w]
        BY <1>5, <3>1 DEF EntombUnseen, ColdTypeOK, HistoryOK
      <3>3. keys' = keys /\ rows' = rows /\ tomb' = job.for
        BY <1>5 DEF EntombUnseen
      <3>4. \A w \in keys \cup rows : w \in WalletId /\ (Doomed(w) => tomb = w)
        BY DEF StorageInv, ColdTypeOK, StoredOK
      <3> QED BY <3>1, <3>2, <3>3, <3>4, ColdConstants DEF Doomed
    <2>6. (tomb # NoWallet => Doomed(tomb))'
      BY <1>5 DEF EntombUnseen, NoJob, JobInv, JobType, Deleting, Keyless
    <2>7. (done # NoWallet => Known(done) /\ done \notin keys)'
      BY <1>5 DEF EntombUnseen, NoJob
    <2> QED BY <2>1, <2>2, <2>3, <2>4, <2>5, <2>6, <2>7
  <1>6. CASE DeleteKey
    BY <1>6 DEF DeleteKey, Job, memory, storage, JobInv, JobType, Deleting, Keyless
  <1>7. CASE Note
    BY <1>7 DEF Note, Job, memory, JobInv, JobType, Deleting, Keyless
  <1>8. CASE RemoveRow
    <2>1. /\ UNCHANGED <<keys, pin, tomb, done, life>> /\ rows' = rows \ {job.for}
          /\ job.for \notin keys /\ tomb = job.for
      BY <1>8 DEF RemoveRow, RemoveWallet, JobInv, Keyless
    <2>2. (chosen' = NoWallet /\ rows' = {}) \/ chosen' \in rows'
      BY <1>8 DEF RemoveRow, RemoveWallet
    <2> HIDE DEF ColdTypeOK, StoredOK, HistoryOK
    <2> QED BY <2>1, <2>2
  <1>9. CASE WipeRow
    <2>1. UNCHANGED <<keys, pin, tomb, done, life>> /\ ~KeysLeft
      BY <1>9 DEF WipeRow, JobInv
    <2>2. \/ rows' = {} /\ chosen' = NoWallet
          \/ UNCHANGED <<rows, chosen>>
      BY <1>9 DEF WipeRow
    <2> HIDE DEF ColdTypeOK, StoredOK, HistoryOK
    <2> QED BY <2>1, <2>2 DEF KeysLeft
  <1>10. CASE WipePin
    <2>1. UNCHANGED <<keys, rows, chosen, tomb, done, life>> /\ ~KeysLeft
      BY <1>10 DEF WipePin, JobInv
    <2> HIDE DEF ColdTypeOK, StoredOK, HistoryOK
    <2> QED BY <2>1 DEF KeysLeft
  <1>11. CASE Untomb
    <2>1. /\ job.for \notin keys \cup rows /\ tomb = job.for /\ tomb' = NoWallet
          /\ UNCHANGED <<keys, rows, chosen, pin, done, life>>
      BY <1>11 DEF Untomb, JobInv, Keyless
    <2> QED BY <2>1
  <1>12. CASE Undone
    BY <1>12 DEF Undone, Job, memory
  <1>13. CASE Close
    <2>0. LifeAfter(current', "shown")
      BY <1>13, ShownLife DEF Close, ColdTypeOK
    <2> QED
      BY <1>13, <2>0 DEF Close, NoJob, Job, storage, LifeAfter
  <1>14. ASSUME NEW w \in WalletId, Commit(w)
        PROVE  StorageInv'
    BY <1>14 DEF Commit, MayOnboard, memory, storage
  <1>15. CASE Refresh
    BY <1>15 DEF Refresh, Job, StoreRow, memory
  <1>16. CASE Choose
    <2>0. LifeAfter(job.for, "kept")
      BY <1>16, ShownLife DEF Choose, ColdTypeOK
    <2>1. ((chosen = NoWallet /\ rows = {}) \/ chosen \in rows)'
      BY <1>16, <2>0 DEF Choose, NoJob, LifeAfter
    <2>2. (\A w \in keys \cup rows : life[w] # "new")'
      BY <1>16, <2>0 DEF Choose, NoJob, LifeAfter
    <2>3. (\A w \in keys : Known(w) => w \in rows)'
      BY <1>16, <2>0 DEF Choose, NoJob, LifeAfter
    <2>4. (\A w \in WalletId : life[w] = "kept" => w \in keys \cap rows /\ pin)'
      <3>1. pin /\ job.for \in keys \cap rows
        BY <1>16, ColdConstants DEF Choose, JobInv, ScreenInv
      <3>2. keys' = keys /\ rows' = rows /\ pin' = pin
        BY <1>16 DEF Choose
      <3>3. \A w \in WalletId : life[w] = "kept" => w \in keys \cap rows /\ pin
        BY DEF StorageInv
      <3> QED BY <2>0, <3>1, <3>2, <3>3 DEF LifeAfter
    <2>5. (\A w \in keys \cup rows : Doomed(w) => tomb = w)'
      BY <1>16, <2>0 DEF Choose, NoJob, LifeAfter
    <2>6. (tomb # NoWallet => Doomed(tomb))'
      BY <1>16, <2>0 DEF Choose, NoJob, LifeAfter
    <2>7. (done # NoWallet => Known(done) /\ done \notin keys)'
      BY <1>16, <2>0 DEF Choose, NoJob, LifeAfter
    <2> QED BY <2>1, <2>2, <2>3, <2>4, <2>5, <2>6, <2>7
  <1>17. CASE Rename
    BY <1>17 DEF Rename, StoreRow, ScreenInv, ShownOK, KeysLeft
  <1>18. CASE SetPin
    BY <1>18 DEF SetPin
  <1>19. CASE StoreKey
    BY <1>19 DEF StoreKey, Board, memory, storage, BoardInv, BoardType, Undoing
  <1>20. CASE Describe
    <2>1. /\ UNCHANGED <<keys, pin, tomb, done>> /\ rows' = rows \cup {board.for}
          /\ chosen' \in {board.for, chosen} /\ (board.for \notin rows => chosen' = board.for)
      BY <1>20 DEF Describe, StoreRow
    <2>2. OneLife(board.for, "drawn", "stored")
      BY <1>20, OneLifeChanges DEF Describe, BoardInv
    <2> HIDE DEF ColdTypeOK, HistoryOK
    <2> QED BY <1>0, <2>1, <2>2 DEF OneLife
  <1>21. CASE Onboarded
    <2>1. /\ UNCHANGED <<keys, rows, chosen, pin, tomb, done>>
          /\ board.for \in keys \cap rows /\ pin
      BY <1>21 DEF Onboarded, storage, BoardInv
    <2>2. OneLife(board.for, "stored", "kept")
      BY <1>21, OneLifeChanges DEF Onboarded, BoardInv
    <2> HIDE DEF ColdTypeOK, HistoryOK
    <2> QED BY <1>0, <2>1, <2>2 DEF OneLife
  <1>22. CASE Compensate
    BY <1>22 DEF Compensate, Board, StoreRow, memory, BoardInv, BoardType, Undoing
  <1>23. CASE UndoKey
    BY <1>23 DEF UndoKey, Board, memory, storage, BoardInv, BoardType, Undoing
  <1>24. CASE UndoRow
    <2>1. UNCHANGED <<keys, pin, tomb, done, life>> /\ life[board.for] = "drawn"
      BY <1>24 DEF UndoRow, BoardInv, Undoing
    <2>2. \/ /\ rows' = rows \ {board.for}
             /\ (chosen' = NoWallet /\ rows' = {}) \/ chosen' \in rows'
          \/ board.had = NoWallet /\ rows' = {} /\ chosen' = NoWallet
          \/ UNCHANGED <<rows, chosen>>
      BY <1>24 DEF UndoRow, RemoveWallet
    <2>3. board.had = NoWallet => ~KeysLeft
      BY <1>24 DEF UndoRow, BoardInv, Undoing, ScreenInv
    <2> HIDE DEF ColdTypeOK, StoredOK, HistoryOK
    <2> QED BY <2>1, <2>2, <2>3 DEF KeysLeft
  <1>25. CASE UndoChoice
    BY <1>25 DEF UndoChoice, Board, memory
  <1>26. CASE UndoPin
    BY <1>26
      DEF UndoPin, Board, memory, BoardInv, BoardType, Undoing,
          ScreenInv, ShownOK, KeysLeft
  <1>27. CASE NotOnboarded
    <2>1. UNCHANGED <<keys, rows, chosen, pin, tomb, done>>
      BY <1>27 DEF NotOnboarded, storage
    <2>2. OneLife(board.for, "drawn", "dropped")
      BY <1>27, OneLifeChanges DEF NotOnboarded, BoardInv, Undoing
    <2> HIDE DEF ColdTypeOK, HistoryOK
    <2> QED BY <1>0, <2>1, <2>2 DEF OneLife
  <1> QED BY <1>1, <1>2, <1>3, <1>4, <1>5, <1>6, <1>7, <1>8, <1>9, <1>10, <1>11,
             <1>12, <1>13, <1>14, <1>15, <1>16, <1>17, <1>18, <1>19, <1>20, <1>21,
             <1>22, <1>23, <1>24, <1>25, <1>26, <1>27
        DEF ColdNext

\* The fields of a job that goes one step on.
LEMMA JobGoesOn ==
  ASSUME ColdTypeOK, NEW x, Job(x)
  PROVE  /\ job'.at = x /\ job'.for = job.for /\ job'.why = job.why
         /\ job'.last = job.last /\ job'.clean = job.clean
  BY DEF ColdTypeOK, JobType, Job

\* A job that has ended, or none that starts, is as JobInv says.
LEMMA JobIsOver ==
  ASSUME job' = NoJob, changing' = FALSE
  PROVE  JobInv'
  BY DEF NoJob, JobInv, Deleting, Keyless

LEMMA JobStaysIdle ==
  ASSUME JobInv, job.at = "idle", UNCHANGED <<job, changing>>
  PROVE  JobInv'
  <1>1. job'.at = "idle" /\ ~changing' /\ ~job'.last
    BY DEF JobInv
  <1> QED BY <1>1 DEF JobInv, Deleting, Keyless

\* A step that leaves the job and what JobInv relates it to alone keeps JobInv;
\* an addition may be given up.
LEMMA JobStays ==
  ASSUME JobInv, UNCHANGED <<keys, rows, tomb, ready, current, pending>>,
         UNCHANGED <<changing, job, board, life>>, adding' => adding
  PROVE  JobInv'
  <1>1. (KeysLeft' <=> KeysLeft) /\ (Known(job.for)' <=> Known(job.for))
    BY DEF KeysLeft, Known, Doomed
  <1> QED BY <1>1 DEF JobInv, Deleting, Keyless

\* No job is under way while an onboarding is, while there is no wallet, or
\* while the screens can be used.
LEMMA IdleJob ==
  ASSUME JobInv, BoardInv,
         \/ board.at # "idle"
         \/ ready /\ (current = NoWallet \/ adding \/ ~changing)
  PROVE  job.at = "idle"
  <1>1. board.at # "idle" => ready
    BY DEF BoardInv
  <1> QED BY <1>1 DEF JobInv

\* One step of a deletion: JobInv tells of the step before what it asks of this
\* one, as long as nothing but the stores changes.
LEMMA JobKeptByStep ==
  ASSUME JobInv, job.at # "idle", job'.at \notin {"idle", "open"},
         job'.for = job.for, job'.why = job.why,
         UNCHANGED <<ready, changing, adding, current, board>>
  PROVE  /\ (job.at = "idle" => ~changing)'
         /\ (job.at # "idle" =>
               \/ ~ready /\ job.why = "load"
               \/ /\ ready /\ job.why # "load" /\ job.at # "open"
                  /\ changing /\ ~adding /\ current # NoWallet /\ board.at = "idle")'
  <1>1. \/ ~ready /\ job.why = "load"
        \/ /\ ready /\ job.why # "load" /\ job.at # "open"
           /\ changing /\ ~adding /\ current # NoWallet /\ board.at = "idle"
    BY DEF JobInv
  <1> QED BY <1>1

\* One step of a deletion, once its key may go: what has to hold of the stores
\* it leaves.
LEMMA DeletionStep ==
  ASSUME JobInv, UNCHANGED <<memory, board, life>>, keys' \subseteq keys,
         job.at \in {"key"} \cup Keyless, job'.at \in Keyless,
         job'.for = job.for, job'.why = job.why, job.for \notin keys',
         job'.at \notin {"undone", "close"} => tomb' = job.for,
         job'.at = "undone" \/ (job'.at = "close" /\ ~job'.last) => tomb' = NoWallet,
         job'.at = "untomb" => job.for \notin rows',
         job'.at = "wipe pin" /\ job'.clean => rows' = {},
         job'.at \in {"wipe row", "wipe pin"} => job'.last,
         job'.last =>
           /\ ~KeysLeft
           /\ job'.at \in {"wipe row", "wipe pin", "untomb", "undone", "close"}
  PROVE  JobInv'
  <1>1. /\ UNCHANGED <<ready, changing, adding, current, pending, board>>
        /\ job.at # "idle"
    BY DEF memory, Keyless
  <1>2. job.for # NoWallet /\ Known(job.for)' /\ pending # NoWallet
    BY DEF JobInv, Deleting, Known, Doomed
  <1>3. job'.last => ~KeysLeft'
    BY DEF KeysLeft, Known, Doomed
  <1>4. /\ job'.at \notin {"idle", "open", "mark", "entomb", "key", "derive", "choose"}
        /\ job'.at \in Keyless
    BY DEF Keyless
  <1>5. job'.for # NoWallet /\ job'.for \notin keys'
    BY <1>2
  <1>6. job'.at \in Keyless \ {"undone", "close"} => tomb' = job'.for
    OBVIOUS
  <1> HIDE DEF Known, KeysLeft, Keyless
  <1> QED BY <1>1, <1>2, <1>3, <1>4, <1>5, <1>6, JobKeptByStep DEF JobInv

\* What is under way with a wallet goes on as JobInv says.
LEMMA JobStep ==
  ASSUME ColdTypeOK, StorageInv, JobInv, BoardInv, ScreenInv, ColdNext
  PROVE  JobInv'
  <1>1. CASE Prepared
              \/ (\E s \in Callback : (\E q \in ReqId : Sign(s, q)) \/ Reserve(s)
                  \/ Invoke(s) \/ SignNatively(s) \/ Finalize(s) \/ Refuse(s))
    <2>1. /\ UNCHANGED <<keys, rows, tomb, ready, current, pending>>
          /\ UNCHANGED <<changing, adding, job, board, life>>
      BY <1>1
      DEF Prepared, Sign, Reserve, Invoke, SignNatively, Finalize, Refuse, storage, memory
    <2> QED BY <2>1, JobStays
  <1>2. CASE LoadBegin
    <2>1. /\ UNCHANGED <<keys, rows, tomb, ready, current, changing, adding, board, life>>
          /\ pending' = tomb /\ ~ready /\ job.at = "idle"
      BY <1>2 DEF LoadBegin, storage
    <2>2. /\ job'.why = "load" /\ ~job'.last
          /\ \/ job'.at = "open" /\ tomb = NoWallet
             \/ /\ job'.for = tomb /\ tomb # NoWallet
                /\ \/ job'.at = "key"
                   \/ job'.at = "note" /\ (tomb \notin rows \/ done = tomb)
      BY <1>2 DEF LoadBegin, NoJob
    <2>3. tomb # NoWallet => Known(tomb)
      BY DEF StorageInv, Known
    <2>4. tomb # NoWallet /\ (tomb \notin rows \/ done = tomb) => tomb \notin keys
      BY <2>3 DEF StorageInv
    <2>5. tomb # NoWallet => Known(tomb)'
      BY <2>1, <2>3 DEF Known, Doomed
    <2> HIDE DEF Known
    <2>6. CASE job'.at = "open" /\ tomb = NoWallet
      BY <2>1, <2>2, <2>6 DEF JobInv, Deleting, Keyless
    <2>7. CASE job'.at = "key" /\ job'.for = tomb /\ tomb # NoWallet
      BY <2>1, <2>2, <2>5, <2>7 DEF JobInv, Deleting, Keyless
    <2>8. CASE /\ job'.at = "note" /\ job'.for = tomb /\ tomb # NoWallet
               /\ tomb \notin rows \/ done = tomb
      BY <2>1, <2>2, <2>4, <2>5, <2>8 DEF JobInv, Deleting, Keyless
    <2> QED BY <2>2, <2>6, <2>7, <2>8
  <1>3. CASE Open \/ EntombUnseen \/ Choose \/ Throw \/ Kill
    <2>1. job' = NoJob /\ (Open => changing' = changing) /\ (~Open => changing' = FALSE)
      BY <1>3 DEF Open, EntombUnseen, Choose, Throw, Kill
    <2>2. Open => changing = FALSE
      BY DEF Open, JobInv, ScreenInv, ColdTypeOK, ShownOK
    <2> QED BY <2>1, <2>2, JobIsOver
  <1>4. CASE Delete
    <2>1. /\ UNCHANGED <<keys, rows, tomb, ready, current, pending, adding, board, life>>
          /\ ready /\ current # NoWallet /\ ~adding /\ board.at = "idle" /\ changing'
      BY <1>4 DEF Delete, storage
    <2>2. job'.at = "mark" /\ job'.for = current /\ job'.why = "delete" /\ ~job'.last
      BY <1>4 DEF Delete, NoJob
    <2>3. Known(current)'
      BY <2>1 DEF ScreenInv, Known, Doomed
    <2> QED BY <2>1, <2>2, <2>3 DEF JobInv, Deleting, Keyless
  <1>5. CASE Mark
    <2>1. /\ UNCHANGED <<keys, rows, tomb, life, memory, board>>
          /\ job.at = "mark" /\ tomb = NoWallet /\ ~job.last
      BY <1>5 DEF Mark, JobInv
    <2>2. job'.at = "entomb" /\ job'.for = job.for /\ job'.why = job.why /\ ~job'.last
      BY <1>5, <2>1, JobGoesOn DEF Mark
    <2>3. job.for # NoWallet /\ Known(job.for)'
      BY <2>1, <2>2 DEF JobInv, Deleting, Known, Doomed
    <2>4. UNCHANGED <<ready, changing, adding, current, board>>
      BY <2>1 DEF memory
    <2>5. tomb' = NoWallet
      BY <2>1
    <2> QED BY <2>1, <2>2, <2>3, <2>4, <2>5, JobKeptByStep DEF JobInv, Deleting, Keyless
  <1>6. CASE Entomb
    <2>1. /\ UNCHANGED <<keys, rows, ready, changing, adding, current, board>>
          /\ job.at \in {"mark", "entomb"} /\ ~job.last
          /\ tomb' = job.for /\ pending' = job.for
          /\ life' = [life EXCEPT ![job.for] = "unwanted"]
      BY <1>6 DEF Entomb, JobInv
    <2>2. /\ job'.at = IF done = job.for THEN "note" ELSE "key"
          /\ job'.for = job.for /\ job'.why = job.why /\ ~job'.last
      BY <1>6, <2>1, JobGoesOn DEF Entomb
    <2>3. job.for # NoWallet /\ job.for \in WalletId
      BY <2>1, ColdConstants DEF JobInv, Deleting, ColdTypeOK, JobType, Maybe
    <2>4. Known(job.for)'
      BY <2>1, <2>2, <2>3 DEF ColdTypeOK, HistoryOK, Known, Doomed
    <2>5. done = job.for => job.for \notin keys
      BY <2>3 DEF StorageInv
    <2>6. CASE job'.at = "key"
      BY <2>1, <2>2, <2>3, <2>4, <2>6, JobKeptByStep DEF JobInv, Deleting, Keyless
    <2>7. CASE job'.at = "note" /\ done = job.for
      BY <2>1, <2>2, <2>3, <2>4, <2>5, <2>7, JobKeptByStep DEF JobInv, Deleting, Keyless
    <2> QED BY <2>2, <2>6, <2>7
  <1>7. CASE DeleteKey
    <2>1. /\ UNCHANGED <<tomb, memory, board, life>> /\ job.at = "key" /\ ~job.last
          /\ keys' = keys \ {job.for} /\ tomb = job.for
      BY <1>7 DEF DeleteKey, JobInv, storage
    <2>2. job'.at = "note" /\ job'.for = job.for /\ job'.why = job.why /\ ~job'.last
      BY <1>7, <2>1, JobGoesOn DEF DeleteKey
    <2> QED BY <2>1, <2>2, DeletionStep DEF Keyless
  <1>8. CASE Note
    <2>1. /\ UNCHANGED <<keys, tomb, memory, board, life>> /\ job.at = "note" /\ ~job.last
          /\ tomb = job.for /\ job.for \notin keys
      BY <1>8 DEF Note, JobInv, Keyless
    <2>2. job'.at = "records" /\ job'.for = job.for /\ job'.why = job.why /\ ~job'.last
      BY <1>8, <2>1, JobGoesOn DEF Note
    <2> QED BY <2>1, <2>2, DeletionStep DEF Keyless
  <1>9. CASE ClearRecords
    <2>1. /\ UNCHANGED <<keys, rows, tomb, memory, board, life>> /\ job.at = "records"
          /\ ~job.last /\ tomb = job.for /\ job.for \notin keys
      BY <1>9 DEF ClearRecords, JobInv, Keyless, storage
    <2>2. \/ /\ job'.at = "row" /\ job'.for = job.for /\ job'.why = job.why
             /\ ~job'.last
          \/ /\ job'.at = "wipe row" /\ job'.for = job.for /\ job'.why = job.why
             /\ job'.last /\ rows \ {job.for} = {}
      <3>1. CASE Job("row")
        BY <2>1, <3>1, JobGoesOn
      <3>2. ASSUME NEW ok \in BOOLEAN,
                   job' = [job EXCEPT !.at = "wipe row", !.last = TRUE, !.clean = ok]
            PROVE  /\ job'.at = "wipe row" /\ job'.for = job.for
                   /\ job'.why = job.why /\ job'.last
        BY <3>2 DEF ColdTypeOK, JobType
      <3> QED BY <1>9, <3>1, <3>2 DEF ClearRecords
    <2>3. CASE job'.at = "row"
      BY <2>1, <2>2, <2>3, DeletionStep DEF Keyless
    <2>4. CASE job'.at = "wipe row" /\ job'.last /\ rows \ {job.for} = {}
      <3>1. ~KeysLeft
        <4>1. SUFFICES ASSUME NEW w \in keys, Known(w) PROVE FALSE
          BY DEF KeysLeft
        <4>2. w \in rows
          BY <4>1 DEF StorageInv
        <4> QED BY <2>1, <2>4, <4>2
      <3>2. /\ job'.for = job.for /\ job'.why = job.why /\ job.for \notin keys'
            /\ tomb' = job.for
        BY <2>1, <2>2
      <3> HIDE DEF KeysLeft
      <3> QED BY <2>1, <2>4, <3>1, <3>2, DeletionStep DEF Keyless
    <2> QED BY <2>2, <2>3, <2>4
  <1>10. CASE RemoveRow
    <2>1. /\ UNCHANGED <<keys, tomb, memory, board, life>> /\ job.at = "row"
          /\ ~job.last /\ tomb = job.for /\ job.for \notin keys /\ job.for \notin rows'
      BY <1>10 DEF RemoveRow, RemoveWallet, JobInv, Keyless
    <2>2. job'.at = "untomb" /\ job'.for = job.for /\ job'.why = job.why /\ ~job'.last
      BY <1>10, <2>1, JobGoesOn DEF RemoveRow
    <2> QED BY <2>1, <2>2, DeletionStep DEF Keyless
  <1>11. CASE WipeRow
    <2>1. /\ UNCHANGED <<keys, tomb, memory, board, life>> /\ job.at = "wipe row"
          /\ job.last /\ ~KeysLeft /\ tomb = job.for /\ job.for \notin keys
      BY <1>11 DEF WipeRow, JobInv, Keyless
    <2>2. /\ job'.at = "wipe pin" /\ job'.for = job.for /\ job'.why = job.why
          /\ job'.last = job.last /\ (job'.clean => rows' = {})
      <3>1. CASE rows' = {} /\ Job("wipe pin")
        BY <3>1, JobGoesOn
      <3>2. CASE job' = [job EXCEPT !.at = "wipe pin", !.clean = FALSE]
        BY <3>2 DEF ColdTypeOK, JobType
      <3> QED BY <1>11, <3>1, <3>2 DEF WipeRow
    <2> QED BY <2>1, <2>2, DeletionStep DEF Keyless
  <1>12. CASE WipePin
    <2>1. /\ UNCHANGED <<keys, rows, tomb, memory, board, life>> /\ job.at = "wipe pin"
          /\ job.last /\ ~KeysLeft /\ tomb = job.for /\ job.for \notin keys
          /\ job.clean => rows = {}
      BY <1>12 DEF WipePin, JobInv, Keyless
    <2>2. /\ (job.clean /\ job'.at = "untomb") \/ job'.at = "close"
          /\ job'.for = job.for /\ job'.why = job.why /\ job'.last = job.last
      BY <1>12, JobGoesOn DEF WipePin
    <2> QED BY <2>1, <2>2, DeletionStep DEF Keyless
  <1>13. CASE Untomb
    <2>1. /\ UNCHANGED <<keys, rows, memory, board, life>> /\ job.at = "untomb"
          /\ (job.last => ~KeysLeft) /\ job.for \notin keys /\ tomb' = NoWallet
      BY <1>13 DEF Untomb, JobInv, Keyless
    <2>2. /\ job'.at = "undone" /\ job'.for = job.for /\ job'.why = job.why
          /\ job'.last = job.last
      BY <1>13, JobGoesOn DEF Untomb
    <2> QED BY <2>1, <2>2, DeletionStep DEF Keyless
  <1>14. CASE Undone
    <2>1. /\ UNCHANGED <<keys, rows, tomb, memory, board, life>> /\ job.at = "undone"
          /\ (job.last => ~KeysLeft) /\ job.for \notin keys /\ tomb = NoWallet
      BY <1>14 DEF Undone, JobInv, Keyless
    <2>2. /\ job'.at = "close" /\ job'.for = job.for /\ job'.why = job.why
          /\ job'.last = job.last
      BY <1>14, JobGoesOn DEF Undone
    <2> QED BY <2>1, <2>2, DeletionStep DEF Keyless
  <1>15. CASE Swallow
    <2>1. /\ UNCHANGED <<keys, rows, tomb, memory, board, life>>
          /\ job.at \in {"untomb", "undone"} /\ job.last /\ ~KeysLeft
          /\ job.for \notin keys
      BY <1>15 DEF Swallow, JobInv, Keyless, storage
    <2>2. /\ job'.at = "close" /\ job'.for = job.for /\ job'.why = job.why /\ job'.last
      BY <1>15, <2>1, JobGoesOn DEF Swallow
    <2> QED BY <2>1, <2>2, DeletionStep DEF Keyless
  <1>16. CASE Close
    <2>0. LifeAfter(current', "shown")
      BY <1>16, ShownLife DEF Close, ColdTypeOK
    <2>1. CASE job' = NoJob
      BY <1>16, <2>1, JobIsOver DEF Close
    <2>2. CASE job.why = "load" /\ tomb = NoWallet /\ Job("open") /\ UNCHANGED ready
      <3>1. /\ job'.at = "open" /\ job'.why = "load" /\ job'.last = job.last
            /\ changing' = FALSE /\ tomb' = NoWallet
        BY <1>16, <2>2, JobGoesOn DEF Close, storage
      <3>2. ~ready'
        BY <1>16, <2>2 DEF Close, JobInv
      <3>3. job.last => ~KeysLeft'
        <4>1. SUFFICES ASSUME job.last PROVE \A w \in keys : ~Known(w)'
          BY <1>16 DEF Close, KeysLeft
        <4>2. \A w \in keys : w \in WalletId /\ ~Known(w)
          BY <4>1 DEF JobInv, KeysLeft, ColdTypeOK, StoredOK
        <4>3. current' = NoWallet
          BY <1>16, <4>1 DEF Close
        <4>4. \A w \in keys : w # current'
          BY <4>2, <4>3, ColdConstants
        <4>5. \A w \in keys : life'[w] = life[w]
          BY <2>0, <4>2, <4>4 DEF LifeAfter
        <4> QED BY <4>2, <4>5 DEF Known, Doomed
      <3> HIDE DEF KeysLeft
      <3> QED BY <3>1, <3>2, <3>3 DEF JobInv, Deleting, Keyless
    <2> QED BY <1>16, <2>1, <2>2 DEF Close
  <1>17. ASSUME NEW w \in WalletId, Select(w) PROVE JobInv'
    <2>1. /\ ready' /\ current' = current /\ current # NoWallet /\ ~adding'
          /\ board'.at = "idle" /\ changing' /\ pending' = NoWallet
      <3>1. ready /\ pending = NoWallet /\ board.at = "idle" /\ ~adding /\ w \in list
        BY <1>17 DEF Select, Quiet
      <3>2. current # NoWallet
        BY <3>1 DEF ScreenInv
      <3> QED BY <1>17, <3>1, <3>2 DEF Select
    <2>2. /\ job'.at = "derive" /\ job'.for = w /\ job'.why = "select" /\ ~job'.last
          /\ w # NoWallet
      BY <1>17, ColdConstants DEF Select, NoJob
    <2> QED BY <2>1, <2>2 DEF JobInv, Deleting, Keyless
  <1>18. CASE Refresh
    <2>1. /\ UNCHANGED <<keys, ready, changing, adding, current, pending, board>>
          /\ job.at = "derive" /\ job.for \in keys /\ ~job.last
          /\ ready /\ pending = NoWallet /\ job.for # NoWallet
      BY <1>18 DEF Refresh, JobInv, memory
    <2>2. /\ job'.at = "choose" /\ job'.for = job.for /\ job'.why = job.why /\ ~job'.last
      BY <1>18, <2>1, JobGoesOn DEF Refresh
    <2> QED BY <2>1, <2>2, JobKeptByStep DEF JobInv, Deleting, Keyless
  <1>19. CASE BeginAdd \/ Rename \/ SetPin
    <2>1. /\ ready /\ (current = NoWallet \/ ~changing)
          /\ UNCHANGED <<job, changing>>
      BY <1>19 DEF BeginAdd, Rename, SetPin
    <2>2. job.at = "idle"
      BY <2>1, IdleJob
    <2> QED BY <2>1, <2>2, JobStaysIdle
  <1>20. CASE CancelAdd
    <2>1. /\ UNCHANGED <<keys, rows, tomb, ready, current, pending, changing>>
          /\ UNCHANGED <<job, board, life>> /\ ~adding'
      BY <1>20 DEF CancelAdd, storage
    <2> QED BY <2>1, JobStays
  <1>21. CASE \/ \E w \in WalletId : Commit(w)
              \/ StoreKey \/ Describe \/ Onboarded \/ Compensate \/ UndoKey \/ UndoRow
              \/ UndoChoice \/ UndoPin \/ NotOnboarded
    <2>1. UNCHANGED <<job, changing>>
      BY <1>21
      DEF Commit, StoreKey, Describe, Onboarded, Compensate, UndoKey, UndoRow,
          UndoChoice, UndoPin, NotOnboarded, memory
    <2>2. \/ board.at # "idle"
          \/ ready /\ (current = NoWallet \/ adding)
      BY <1>21
      DEF Commit, StoreKey, Describe, Onboarded, Compensate, UndoKey, UndoRow,
          UndoChoice, UndoPin, NotOnboarded
    <2>3. job.at = "idle"
      BY <2>2, IdleJob
    <2> QED BY <2>1, <2>3, JobStaysIdle
  <1> QED BY <1>1, <1>2, <1>3, <1>4, <1>5, <1>6, <1>7, <1>8, <1>9, <1>10, <1>11,
             <1>12, <1>13, <1>14, <1>15, <1>16, <1>17, <1>18, <1>19, <1>20, <1>21
        DEF ColdNext

\* An onboarding goes on as BoardInv says.
LEMMA BoardStep ==
  ASSUME ColdTypeOK, StorageInv, JobInv, BoardInv, ScreenInv, ColdNext
  PROVE  BoardInv'
  <1> USE ColdConstants DEF ColdTypeOK, BoardInv, BoardType, Undoing, HistoryOK,
      Known, Doomed
  <1>1. CASE LoadBegin \/ Delete \/ Mark \/ Note \/ ClearRecords \/ Untomb
              \/ Undone \/ Throw \/ Swallow \/ Prepared
              \/ (\E w \in WalletId : Select(w))
              \/ (\E s \in Callback : (\E q \in ReqId : Sign(s, q)) \/ Reserve(s)
                  \/ Invoke(s) \/ SignNatively(s) \/ Finalize(s) \/ Refuse(s))
    <2>1. UNCHANGED <<keys, rows, pin, ready, current, list, adding, board, life>>
      BY <1>1
        DEF LoadBegin, Delete, Mark, Note, ClearRecords, Untomb,
            Undone, Throw, Swallow, Select, Prepared, Sign, Reserve, Invoke,
            SignNatively, Finalize, Refuse, storage, memory
    <2> QED BY <2>1
  <1>2. CASE Open
    <2>0. LifeAfter(chosen, "kept")
      BY <1>2, ShownLife DEF Open, ColdTypeOK
    <2> QED
      BY <1>2, <2>0
        DEF Open, NoJob, storage, LifeAfter, JobInv, JobType,
            Deleting, Keyless
  <1>3. CASE Entomb
    BY <1>3 DEF Entomb, Job, JobInv, JobType, Deleting, Keyless
  <1>4. CASE EntombUnseen
    BY <1>4 DEF EntombUnseen, NoJob, JobInv, JobType, Deleting, Keyless
  <1>5. CASE DeleteKey
    BY <1>5 DEF DeleteKey, Job, memory, storage, JobInv, JobType, Deleting, Keyless
  <1>6. CASE RemoveRow
    BY <1>6
      DEF RemoveRow, Job, RemoveWallet, memory, JobInv, JobType,
          Deleting, Keyless
  <1>7. CASE WipeRow
    BY <1>7 DEF WipeRow, Job, memory, JobInv, JobType, Deleting, Keyless
  <1>8. CASE WipePin
    BY <1>8 DEF WipePin, Job, memory, JobInv, JobType, Deleting, Keyless
  <1>9. CASE Close
    <2>0. LifeAfter(current', "shown")
      BY <1>9, ShownLife DEF Close, ColdTypeOK
    <2> QED
      BY <1>9, <2>0
        DEF Close, NoJob, Job, storage, LifeAfter, JobInv,
            JobType, Deleting, Keyless
  <1>10. ASSUME NEW w \in WalletId, Commit(w)
        PROVE  BoardInv'
    <2>1. (board.at # "idle" => ready /\ board.for # NoWallet)'
      BY <1>10 DEF Commit, MayOnboard, memory, storage
    <2>2. (board.at \in {"store", "row"} \cup Undoing =>
             /\ life[board.for] = "drawn" /\ current = board.had
             /\ board.had # NoWallet => adding /\ life[board.had] # "unwanted")'
      <3>1. board'.for = w /\ board'.had = current /\ current' = current /\ adding' = adding
        BY <1>10 DEF Commit, memory
      <3>2. life' = [life EXCEPT ![w] = "drawn"] /\ life[w] = "new"
        BY <1>10 DEF Commit
      <3>3. current # NoWallet => adding /\ life[current] # "unwanted" /\ current \in WalletId
        BY <1>10 DEF Commit, MayOnboard, ScreenInv, ColdTypeOK, ShownOK, Maybe
      <3> QED BY <3>1, <3>2, <3>3 DEF ColdTypeOK, HistoryOK
    <2>3. (board.at \in {"store", "row"} => pin)'
      BY <1>10 DEF Commit, MayOnboard, memory, storage, ScreenInv, ShownOK, KeysLeft
    <2>4. (board.at = "row" => board.for \in keys)'
      BY <1>10 DEF Commit, MayOnboard, memory, storage
    <2>5. (board.at = "undo pin" => board.had = NoWallet)'
      BY <1>10 DEF Commit, MayOnboard, memory, storage
    <2>6. (board.at = "list" =>
             /\ life[board.for] = "stored" /\ current = board.for
             /\ board.for \in keys \cap rows /\ pin)'
      BY <1>10 DEF Commit, MayOnboard, memory, storage
    <2> QED BY <2>1, <2>2, <2>3, <2>4, <2>5, <2>6
  <1>11. CASE Refresh
    BY <1>11 DEF Refresh, Job, StoreRow, memory
  <1>12. CASE Choose
    <2>0. LifeAfter(job.for, "kept")
      BY <1>12, ShownLife DEF Choose, ColdTypeOK
    <2> QED
      BY <1>12, <2>0
        DEF Choose, NoJob, LifeAfter, JobInv, JobType,
            Deleting, Keyless
  <1>13. CASE Rename
    BY <1>13 DEF Rename, StoreRow
  <1>14. CASE BeginAdd
    BY <1>14 DEF BeginAdd, MayOnboard, storage
  <1>15. CASE CancelAdd
    BY <1>15 DEF CancelAdd, storage
  <1>16. CASE SetPin
    BY <1>16 DEF SetPin
  <1>17. CASE StoreKey
    BY <1>17 DEF StoreKey, Board, memory, storage
  <1>18. CASE Describe
    BY <1>18 DEF Describe, Board, StoreRow, StorageInv, StoredOK
  <1>19. CASE Onboarded
    BY <1>19 DEF Onboarded, NoBoard, storage
  <1>20. CASE Compensate
    BY <1>20 DEF Compensate, Board, StoreRow, memory
  <1>21. CASE UndoKey
    BY <1>21 DEF UndoKey, Board, memory, storage
  <1>22. CASE UndoRow
    BY <1>22 DEF UndoRow, Board, RemoveWallet, memory
  <1>23. CASE UndoChoice
    BY <1>23 DEF UndoChoice, Board, memory
  <1>24. CASE UndoPin
    BY <1>24 DEF UndoPin, Board, memory
  <1>25. CASE NotOnboarded
    BY <1>25 DEF NotOnboarded, NoBoard, storage
  <1>26. CASE Kill
    BY <1>26 DEF Kill, NoJob, NoBoard, NoCall, storage
  <1> QED BY <1>1, <1>2, <1>3, <1>4, <1>5, <1>6, <1>7, <1>8, <1>9, <1>10, <1>11,
             <1>12, <1>13, <1>14, <1>15, <1>16, <1>17, <1>18, <1>19, <1>20, <1>21,
             <1>22, <1>23, <1>24, <1>25, <1>26
        DEF ColdNext

\* The screens go on showing what ScreenInv says.
LEMMA ScreenStep ==
  ASSUME ColdTypeOK, StorageInv, JobInv, BoardInv, ScreenInv, ColdNext
  PROVE  ScreenInv'
  <1> USE ColdConstants DEF ColdTypeOK, ScreenInv, ShownOK, KeysLeft, HistoryOK,
      Known, Doomed
  <1>1. CASE LoadBegin
    BY <1>1 DEF LoadBegin, NoJob, Corrupted, storage
  <1>2. CASE Open
    <2>0. LifeAfter(chosen, "kept")
      BY <1>2, ShownLife DEF Open, ColdTypeOK
    <2>1. (~ready => /\ ~changing /\ board.at = "idle" /\ onboarding = "idle"
                     /\ \A s \in Callback : call[s].at = "idle")'
      BY <1>2, <2>0 DEF Open, NoJob, storage, LifeAfter
    <2>2. (ready /\ current = NoWallet => list = {} /\ ~KeysLeft)'
      BY <1>2, <2>0 DEF Open, NoJob, storage, LifeAfter, StorageInv, StoredOK
    <2>3. (ready /\ current # NoWallet => Known(current))'
      BY <1>2, <2>0 DEF Open, NoJob, storage, LifeAfter, StorageInv, StoredOK
    <2>4. (ready /\ current # NoWallet /\ ~job.last => pin)'
      BY <1>2, <2>0 DEF Open, NoJob, storage, LifeAfter
    <2>5. (onboarding = "ready" /\ board.at \notin Undoing => pin)'
      BY <1>2, <2>0 DEF Open, NoJob, storage, LifeAfter
    <2>6. (ready /\ current # NoWallet /\ ~adding => onboarding = "idle")'
      BY <1>2, <2>0
        DEF Open, NoJob, storage, LifeAfter, JobInv, JobType,
            Deleting, Keyless
    <2>7. (ready /\ current # NoWallet /\ life[current] = "unwanted" => pending # NoWallet)'
      <3>1. current' = chosen /\ tomb = NoWallet
        BY <1>2 DEF Open, JobInv
      <3>2. chosen # NoWallet => chosen \in rows /\ chosen \in WalletId
        BY DEF StorageInv, ColdTypeOK, StoredOK
      <3>3. chosen # NoWallet => life[chosen] # "unwanted"
        BY <3>1, <3>2 DEF StorageInv, Doomed
      <3> HIDE DEF ColdTypeOK, ShownOK, HistoryOK
      <3> QED BY <2>0, <3>1, <3>2, <3>3 DEF LifeAfter
    <2>8. (ready /\ tomb # NoWallet /\ life[tomb] = "unwanted" => pending # NoWallet)'
      <3>1. tomb' = NoWallet
        BY <1>2 DEF Open, storage, JobInv
      <3> QED BY <3>1
    <2>9. (ready /\ current # NoWallet /\ Doomed(current) =>
             pending # NoWallet \/ tomb = current)'
      BY <1>2, <2>0 DEF Open, NoJob, storage, LifeAfter, StorageInv, StoredOK
    <2> QED BY <2>1, <2>2, <2>3, <2>4, <2>5, <2>6, <2>7, <2>8, <2>9
  <1>3. CASE Delete
    BY <1>3 DEF Delete, NoJob, storage, JobInv, JobType, Deleting, Keyless
  <1>4. CASE Mark
    BY <1>4 DEF Mark, Job, memory
  <1>5. CASE Entomb
    <2>1. (~ready => /\ ~changing /\ board.at = "idle" /\ onboarding = "idle"
                     /\ \A s \in Callback : call[s].at = "idle")'
      BY <1>5 DEF Entomb, Job
    <2>2. (ready /\ current = NoWallet => list = {} /\ ~KeysLeft)'
      BY <1>5 DEF Entomb, Job, JobInv, JobType, Deleting, Keyless
    <2>3. (ready /\ current # NoWallet => Known(current))'
      BY <1>5 DEF Entomb, Job
    <2>4. (ready /\ current # NoWallet /\ ~job.last => pin)'
      BY <1>5 DEF Entomb, Job
    <2>5. (onboarding = "ready" /\ board.at \notin Undoing => pin)'
      BY <1>5 DEF Entomb, Job
    <2>6. (ready /\ current # NoWallet /\ ~adding => onboarding = "idle")'
      BY <1>5 DEF Entomb, Job
    <2>7. (ready /\ current # NoWallet /\ life[current] = "unwanted" => pending # NoWallet)'
      BY <1>5 DEF Entomb, Job, JobInv, JobType, Deleting, Keyless
    <2>8. (ready /\ tomb # NoWallet /\ life[tomb] = "unwanted" => pending # NoWallet)'
      BY <1>5 DEF Entomb, Job
    <2>9. (ready /\ current # NoWallet /\ Doomed(current) =>
             pending # NoWallet \/ tomb = current)'
      BY <1>5 DEF Entomb, Job, JobInv, JobType, Deleting, Keyless
    <2> QED BY <2>1, <2>2, <2>3, <2>4, <2>5, <2>6, <2>7, <2>8, <2>9
  <1>6. CASE EntombUnseen
    <2>1. (~ready => /\ ~changing /\ board.at = "idle" /\ onboarding = "idle"
                     /\ \A s \in Callback : call[s].at = "idle")'
      BY <1>6 DEF EntombUnseen, NoJob
    <2>2. (ready /\ current = NoWallet => list = {} /\ ~KeysLeft)'
      BY <1>6 DEF EntombUnseen, NoJob, JobInv, JobType, Deleting, Keyless
    <2>3. (ready /\ current # NoWallet => Known(current))'
      BY <1>6 DEF EntombUnseen, NoJob
    <2>4. (ready /\ current # NoWallet /\ ~job.last => pin)'
      BY <1>6 DEF EntombUnseen, NoJob, JobInv, JobType, Deleting, Keyless
    <2>5. (onboarding = "ready" /\ board.at \notin Undoing => pin)'
      BY <1>6 DEF EntombUnseen, NoJob
    <2>6. (ready /\ current # NoWallet /\ ~adding => onboarding = "idle")'
      BY <1>6 DEF EntombUnseen, NoJob
    <2>7. (ready /\ current # NoWallet /\ life[current] = "unwanted" => pending # NoWallet)'
      BY <1>6 DEF EntombUnseen, NoJob
    <2>8. (ready /\ tomb # NoWallet /\ life[tomb] = "unwanted" => pending # NoWallet)'
      <3>1. job.for \in WalletId
        BY <1>6, ColdConstants DEF EntombUnseen, ColdTypeOK, JobInv, JobType, Maybe, Deleting
      <3>2. life'[tomb'] = "doubtful"
        BY <1>6, <3>1 DEF EntombUnseen, ColdTypeOK, HistoryOK
      <3> QED BY <3>2
    <2>9. (ready /\ current # NoWallet /\ Doomed(current) =>
             pending # NoWallet \/ tomb = current)'
      <3>1. job.for \in WalletId /\ tomb = NoWallet /\ ready' = ready /\ pending' = pending
              /\ current' = current /\ tomb' = job.for
        BY <1>6, ColdConstants DEF EntombUnseen, ColdTypeOK, JobInv, JobType, Maybe, Deleting
      <3>2. \A w \in WalletId \ {job.for} : life'[w] = life[w]
        BY <1>6, <3>1 DEF EntombUnseen, ColdTypeOK, HistoryOK
      <3>3. ready /\ current # NoWallet /\ Doomed(current) => pending # NoWallet
        BY <3>1 DEF ScreenInv
      <3>4. current \in Maybe
        BY DEF ColdTypeOK, ShownOK
      <3> QED BY <3>1, <3>2, <3>3, <3>4 DEF Doomed, Maybe
    <2> QED BY <2>1, <2>2, <2>3, <2>4, <2>5, <2>6, <2>7, <2>8, <2>9
  <1>7. CASE DeleteKey
    BY <1>7 DEF DeleteKey, Job, memory, storage
  <1>8. CASE Note
    BY <1>8 DEF Note, Job, memory
  <1>9. CASE ClearRecords
    BY <1>9
      DEF ClearRecords, Job, Cleared, memory, storage, JobInv, JobType,
          Deleting, Keyless
  <1>10. CASE RemoveRow
    BY <1>10 DEF RemoveRow, Job, RemoveWallet, memory
  <1>11. CASE WipeRow
    BY <1>11 DEF WipeRow, Job, memory, JobInv, JobType, Deleting, Keyless
  <1>12. CASE WipePin
    BY <1>12 DEF WipePin, Job, memory, JobInv, JobType, Deleting, Keyless
  <1>13. CASE Untomb
    BY <1>13 DEF Untomb, Job, memory, JobInv, JobType, Deleting, Keyless
  <1>14. CASE Undone
    BY <1>14 DEF Undone, Job, memory
  <1>15. CASE Close
    <2>0. LifeAfter(current', "shown")
      BY <1>15, ShownLife DEF Close, ColdTypeOK
    <2>1. (~ready => /\ ~changing /\ board.at = "idle" /\ onboarding = "idle"
                     /\ \A s \in Callback : call[s].at = "idle")'
      BY <1>15, <2>0 DEF Close, NoJob, Job, storage, LifeAfter
    <2>2. (ready /\ current = NoWallet => list = {} /\ ~KeysLeft)'
      <3>1. keys' = keys /\ rows' = rows /\ \A w \in keys : w \in WalletId /\ (Known(w) => w \in rows)
        BY <1>15 DEF Close, storage, ColdTypeOK, StoredOK, StorageInv
      <3>2. current' = NoWallet => list' = {} /\ ~KeysLeft
        <4>1. CASE job.last
          BY <1>15, <4>1 DEF Close, JobInv
        <4>2. CASE ~job.last
          BY <1>15, <3>1, <4>2, ColdConstants
            DEF Close, StorageInv, KeysLeft, ColdTypeOK, StoredOK
        <4> QED BY <4>1, <4>2
      <3>3. current' = NoWallet => \A w \in keys : life'[w] = life[w]
        BY <2>0, <3>1, ColdConstants DEF LifeAfter
      <3> QED BY <3>1, <3>2, <3>3 DEF KeysLeft, Known, Doomed
    <2>3. (ready /\ current # NoWallet => Known(current))'
      BY <1>15, <2>0 DEF Close, NoJob, Job, storage, LifeAfter, StorageInv, StoredOK
    <2>4. (ready /\ current # NoWallet /\ ~job.last => pin)'
      BY <1>15, <2>0
        DEF Close, NoJob, Job, storage, LifeAfter, JobInv,
            JobType, Deleting, Keyless
    <2>5. (onboarding = "ready" /\ board.at \notin Undoing => pin)'
      BY <1>15, <2>0 DEF Close, NoJob, Job, storage, LifeAfter
    <2>6. (ready /\ current # NoWallet /\ ~adding => onboarding = "idle")'
      BY <1>15, <2>0 DEF Close, NoJob, Job, storage, LifeAfter
    <2>7. (ready /\ current # NoWallet /\ life[current] = "unwanted" => pending # NoWallet)'
      <3>1. current' # NoWallet => ~job.last /\ current' = chosen /\ tomb = NoWallet
        BY <1>15 DEF Close, JobInv
      <3>2. chosen # NoWallet => chosen \in rows /\ chosen \in WalletId
        BY DEF StorageInv, ColdTypeOK, StoredOK
      <3>3. tomb = NoWallet /\ chosen # NoWallet => life[chosen] # "unwanted"
        BY <3>2 DEF StorageInv, Doomed
      <3> HIDE DEF ColdTypeOK, ShownOK, HistoryOK
      <3> QED BY <2>0, <3>1, <3>2, <3>3 DEF LifeAfter
    <2>8. (ready /\ tomb # NoWallet /\ life[tomb] = "unwanted" => pending # NoWallet)'
      <3>1. tomb' = tomb /\ pending' = IF job.last THEN tomb ELSE NoWallet
        BY <1>15 DEF Close, storage
      <3>2. ~job.last => tomb = NoWallet
        BY <1>15 DEF Close, JobInv
      <3> QED BY <3>1, <3>2
    <2>9. (ready /\ current # NoWallet /\ Doomed(current) =>
             pending # NoWallet \/ tomb = current)'
      BY <1>15, <2>0 DEF Close, NoJob, Job, storage, LifeAfter, StorageInv, StoredOK
    <2> QED BY <2>1, <2>2, <2>3, <2>4, <2>5, <2>6, <2>7, <2>8, <2>9
  <1>16. CASE Throw
    BY <1>16 DEF Throw, NoJob, storage, JobInv, JobType, Deleting, Keyless
  <1>17. CASE Swallow
    BY <1>17 DEF Swallow, Job, memory, storage
  <1>18. ASSUME NEW w \in WalletId, Select(w)
        PROVE  ScreenInv'
    BY <1>18 DEF Select, NoJob, Quiet, storage, JobInv, JobType, Deleting, Keyless
  <1>19. ASSUME NEW w \in WalletId, Commit(w)
        PROVE  ScreenInv'
    <2>1. (~ready => /\ ~changing /\ board.at = "idle" /\ onboarding = "idle"
                     /\ \A s \in Callback : call[s].at = "idle")'
      BY <1>19 DEF Commit, MayOnboard, memory, storage
    <2>2. (ready /\ current = NoWallet => list = {} /\ ~KeysLeft)'
      BY <1>19 DEF Commit, MayOnboard, memory, storage
    <2>3. (ready /\ current # NoWallet => Known(current))'
      BY <1>19 DEF Commit, MayOnboard, memory, storage
    <2>4. (ready /\ current # NoWallet /\ ~job.last => pin)'
      BY <1>19 DEF Commit, MayOnboard, memory, storage
    <2>5. (onboarding = "ready" /\ board.at \notin Undoing => pin)'
      BY <1>19 DEF Commit, MayOnboard, memory, storage, BoardInv, BoardType, Undoing
    <2>6. (ready /\ current # NoWallet /\ ~adding => onboarding = "idle")'
      BY <1>19 DEF Commit, MayOnboard, memory, storage
    <2>7. (ready /\ current # NoWallet /\ life[current] = "unwanted" => pending # NoWallet)'
      BY <1>19 DEF Commit, MayOnboard, memory, storage
    <2>8. (ready /\ tomb # NoWallet /\ life[tomb] = "unwanted" => pending # NoWallet)'
      BY <1>19 DEF Commit, MayOnboard, memory, storage
    <2>9. (ready /\ current # NoWallet /\ Doomed(current) =>
             pending # NoWallet \/ tomb = current)'
      BY <1>19 DEF Commit, MayOnboard, memory, storage
    <2> QED BY <2>1, <2>2, <2>3, <2>4, <2>5, <2>6, <2>7, <2>8, <2>9
  <1>20. CASE Refresh
    BY <1>20 DEF Refresh, Job, StoreRow, memory
  <1>21. CASE Choose
    <2>0. LifeAfter(job.for, "kept")
      BY <1>21, ShownLife DEF Choose, ColdTypeOK
    <2>1. (~ready => /\ ~changing /\ board.at = "idle" /\ onboarding = "idle"
                     /\ \A s \in Callback : call[s].at = "idle")'
      BY <1>21, <2>0 DEF Choose, NoJob, LifeAfter
    <2>2. (ready /\ current = NoWallet => list = {} /\ ~KeysLeft)'
      BY <1>21, <2>0 DEF Choose, NoJob, LifeAfter, StorageInv, StoredOK
    <2>3. (ready /\ current # NoWallet => Known(current))'
      BY <1>21, <2>0 DEF Choose, NoJob, LifeAfter, StorageInv, StoredOK
    <2>4. (ready /\ current # NoWallet /\ ~job.last => pin)'
      BY <1>21, <2>0
        DEF Choose, NoJob, LifeAfter, JobInv, JobType,
            Deleting, Keyless
    <2>5. (onboarding = "ready" /\ board.at \notin Undoing => pin)'
      BY <1>21, <2>0 DEF Choose, NoJob, LifeAfter
    <2>6. (ready /\ current # NoWallet /\ ~adding => onboarding = "idle")'
      BY <1>21, <2>0 DEF Choose, NoJob, LifeAfter
    <2>7. (ready /\ current # NoWallet /\ life[current] = "unwanted" => pending # NoWallet)'
      BY <1>21, <2>0 DEF Choose, NoJob, LifeAfter, StorageInv, StoredOK
    <2>8. (ready /\ tomb # NoWallet /\ life[tomb] = "unwanted" => pending # NoWallet)'
      <3>1. tomb \in Maybe /\ tomb' = tomb /\ pending' = pending /\ ready' = ready
        BY <1>21 DEF Choose, ColdTypeOK, StoredOK
      <3> QED BY <2>0, <3>1 DEF LifeAfter, ScreenInv, Maybe
    <2>9. (ready /\ current # NoWallet /\ Doomed(current) =>
             pending # NoWallet \/ tomb = current)'
      BY <1>21, <2>0 DEF Choose, NoJob, LifeAfter, StorageInv, StoredOK
    <2> QED BY <2>1, <2>2, <2>3, <2>4, <2>5, <2>6, <2>7, <2>8, <2>9
  <1>22. CASE Rename
    BY <1>22 DEF Rename, StoreRow
  <1>23. CASE BeginAdd
    BY <1>23 DEF BeginAdd, MayOnboard, storage
  <1>24. CASE CancelAdd
    BY <1>24 DEF CancelAdd, storage
  <1>25. CASE Prepared
    BY <1>25 DEF Prepared, MayOnboard, storage, JobInv, JobType, Deleting, Keyless
  <1>26. CASE SetPin
    BY <1>26 DEF SetPin
  <1>27. CASE StoreKey
    BY <1>27 DEF StoreKey, Board, memory, storage, BoardInv, BoardType, Undoing
  <1>28. CASE Describe
    <2>0. OneLife(board.for, "drawn", "stored") /\ current' = board.for
      BY <1>28, OneLifeChanges DEF Describe, BoardInv
    <2>1. (~ready => /\ ~changing /\ board.at = "idle" /\ onboarding = "idle"
                     /\ \A s \in Callback : call[s].at = "idle")'
      BY <1>28 DEF Describe, Board, StoreRow
    <2>2. (ready /\ current = NoWallet => list = {} /\ ~KeysLeft)'
      BY <1>28 DEF Describe, Board, StoreRow, BoardInv, BoardType, Undoing
    <2>3. (ready /\ current # NoWallet => Known(current))'
      BY <1>28
        DEF Describe, Board, StoreRow, StorageInv, StoredOK,
            BoardInv, BoardType, Undoing
    <2>4. (ready /\ current # NoWallet /\ ~job.last => pin)'
      BY <1>28 DEF Describe, Board, StoreRow, BoardInv, BoardType, Undoing
    <2>5. (onboarding = "ready" /\ board.at \notin Undoing => pin)'
      BY <1>28 DEF Describe, Board, StoreRow
    <2>6. (ready /\ current # NoWallet /\ ~adding => onboarding = "idle")'
      BY <1>28 DEF Describe, Board, StoreRow
    <2>7. (ready /\ current # NoWallet /\ life[current] = "unwanted" => pending # NoWallet)'
      BY <2>0 DEF OneLife
    <2>8. (ready /\ tomb # NoWallet /\ life[tomb] = "unwanted" => pending # NoWallet)'
      BY <1>28 DEF Describe, Board, StoreRow
    <2>9. (ready /\ current # NoWallet /\ Doomed(current) =>
             pending # NoWallet \/ tomb = current)'
      BY <2>0 DEF OneLife, Doomed
    <2> QED BY <2>1, <2>2, <2>3, <2>4, <2>5, <2>6, <2>7, <2>8, <2>9
  <1>29. CASE Onboarded
    <2>1. (~ready => /\ ~changing /\ board.at = "idle" /\ onboarding = "idle"
                     /\ \A s \in Callback : call[s].at = "idle")'
      BY <1>29 DEF Onboarded, NoBoard, storage
    <2>2. (ready /\ current = NoWallet => list = {} /\ ~KeysLeft)'
      BY <1>29 DEF Onboarded, NoBoard, storage, BoardInv, BoardType, Undoing
    <2>3. (ready /\ current # NoWallet => Known(current))'
      BY <1>29 DEF Onboarded, NoBoard, storage
    <2>4. (ready /\ current # NoWallet /\ ~job.last => pin)'
      BY <1>29 DEF Onboarded, NoBoard, storage
    <2>5. (onboarding = "ready" /\ board.at \notin Undoing => pin)'
      BY <1>29 DEF Onboarded, NoBoard, storage, BoardInv, BoardType, Undoing
    <2>6. (ready /\ current # NoWallet /\ ~adding => onboarding = "idle")'
      BY <1>29 DEF Onboarded, NoBoard, storage
    <2>7. (ready /\ current # NoWallet /\ life[current] = "unwanted" => pending # NoWallet)'
      BY <1>29 DEF Onboarded, NoBoard, storage
    <2>8. (ready /\ tomb # NoWallet /\ life[tomb] = "unwanted" => pending # NoWallet)'
      BY <1>29 DEF Onboarded, NoBoard, storage
    <2>9. (ready /\ current # NoWallet /\ Doomed(current) =>
             pending # NoWallet \/ tomb = current)'
      BY <1>29 DEF Onboarded, NoBoard, storage
    <2> QED BY <2>1, <2>2, <2>3, <2>4, <2>5, <2>6, <2>7, <2>8, <2>9
  <1>30. CASE Compensate
    BY <1>30 DEF Compensate, Board, StoreRow, memory, BoardInv, BoardType, Undoing
  <1>31. CASE UndoKey
    BY <1>31 DEF UndoKey, Board, memory, storage, BoardInv, BoardType, Undoing
  <1>32. CASE UndoRow
    BY <1>32 DEF UndoRow, Board, RemoveWallet, memory, BoardInv, BoardType, Undoing
  <1>33. CASE UndoChoice
    BY <1>33 DEF UndoChoice, Board, memory, BoardInv, BoardType, Undoing
  <1>34. CASE UndoPin
    BY <1>34 DEF UndoPin, Board, memory, BoardInv, BoardType, Undoing
  <1>35. CASE NotOnboarded
    <2>1. (~ready => /\ ~changing /\ board.at = "idle" /\ onboarding = "idle"
                     /\ \A s \in Callback : call[s].at = "idle")'
      BY <1>35 DEF NotOnboarded, NoBoard, storage
    <2>2. (ready /\ current = NoWallet => list = {} /\ ~KeysLeft)'
      BY <1>35
        DEF NotOnboarded, NoBoard, storage, StorageInv, StoredOK,
            BoardInv, BoardType, Undoing
    <2>3. (ready /\ current # NoWallet => Known(current))'
      <3>1. board.for \in WalletId /\ life[board.for] = "drawn" /\ current' = current
        BY <1>35 DEF NotOnboarded, BoardInv, Undoing, ColdTypeOK, BoardType, Maybe
      <3>2. \A w \in WalletId \ {board.for} : life'[w] = life[w]
        BY <1>35, <3>1 DEF NotOnboarded, ColdTypeOK, HistoryOK
      <3>3. ready' = ready /\ tomb' = tomb /\ pending' = pending
        BY <1>35 DEF NotOnboarded, storage
      <3>4. life'[board.for] = "dropped"
        BY <1>35, <3>1 DEF NotOnboarded, ColdTypeOK, HistoryOK
      <3>5. current \in Maybe /\ tomb \in Maybe
        BY DEF ColdTypeOK, ShownOK, StoredOK
      <3> QED BY <3>1, <3>2, <3>3, <3>4, <3>5 DEF ScreenInv, Known, Doomed, Maybe
    <2>4. (ready /\ current # NoWallet /\ ~job.last => pin)'
      BY <1>35 DEF NotOnboarded, NoBoard, storage, BoardInv, BoardType, Undoing
    <2>5. (onboarding = "ready" /\ board.at \notin Undoing => pin)'
      BY <1>35 DEF NotOnboarded, NoBoard, storage
    <2>6. (ready /\ current # NoWallet /\ ~adding => onboarding = "idle")'
      BY <1>35 DEF NotOnboarded, NoBoard, storage
    <2>7. (ready /\ current # NoWallet /\ life[current] = "unwanted" => pending # NoWallet)'
      <3>1. board.for \in WalletId /\ life[board.for] = "drawn" /\ current' = current
        BY <1>35 DEF NotOnboarded, BoardInv, Undoing, ColdTypeOK, BoardType, Maybe
      <3>2. \A w \in WalletId \ {board.for} : life'[w] = life[w]
        BY <1>35, <3>1 DEF NotOnboarded, ColdTypeOK, HistoryOK
      <3>3. ready' = ready /\ tomb' = tomb /\ pending' = pending
        BY <1>35 DEF NotOnboarded, storage
      <3>4. life'[board.for] = "dropped"
        BY <1>35, <3>1 DEF NotOnboarded, ColdTypeOK, HistoryOK
      <3>5. current \in Maybe /\ tomb \in Maybe
        BY DEF ColdTypeOK, ShownOK, StoredOK
      <3> QED BY <3>1, <3>2, <3>3, <3>4, <3>5 DEF ScreenInv, Known, Doomed, Maybe
    <2>8. (ready /\ tomb # NoWallet /\ life[tomb] = "unwanted" => pending # NoWallet)'
      <3>1. board.for \in WalletId /\ life[board.for] = "drawn" /\ current' = current
        BY <1>35 DEF NotOnboarded, BoardInv, Undoing, ColdTypeOK, BoardType, Maybe
      <3>2. \A w \in WalletId \ {board.for} : life'[w] = life[w]
        BY <1>35, <3>1 DEF NotOnboarded, ColdTypeOK, HistoryOK
      <3>3. ready' = ready /\ tomb' = tomb /\ pending' = pending
        BY <1>35 DEF NotOnboarded, storage
      <3>4. life'[board.for] = "dropped"
        BY <1>35, <3>1 DEF NotOnboarded, ColdTypeOK, HistoryOK
      <3>5. current \in Maybe /\ tomb \in Maybe
        BY DEF ColdTypeOK, ShownOK, StoredOK
      <3> QED BY <3>1, <3>2, <3>3, <3>4, <3>5 DEF ScreenInv, Known, Doomed, Maybe
    <2>9. (ready /\ current # NoWallet /\ Doomed(current) =>
             pending # NoWallet \/ tomb = current)'
      <3>1. board.for \in WalletId /\ life[board.for] = "drawn" /\ current' = current
        BY <1>35 DEF NotOnboarded, BoardInv, Undoing, ColdTypeOK, BoardType, Maybe
      <3>2. \A w \in WalletId \ {board.for} : life'[w] = life[w]
        BY <1>35, <3>1 DEF NotOnboarded, ColdTypeOK, HistoryOK
      <3>3. ready' = ready /\ tomb' = tomb /\ pending' = pending
        BY <1>35 DEF NotOnboarded, storage
      <3>4. life'[board.for] = "dropped"
        BY <1>35, <3>1 DEF NotOnboarded, ColdTypeOK, HistoryOK
      <3>5. current \in Maybe /\ tomb \in Maybe
        BY DEF ColdTypeOK, ShownOK, StoredOK
      <3> QED BY <3>1, <3>2, <3>3, <3>4, <3>5 DEF ScreenInv, Known, Doomed, Maybe
    <2> QED BY <2>1, <2>2, <2>3, <2>4, <2>5, <2>6, <2>7, <2>8, <2>9
  <1>36. ASSUME NEW s \in Callback, NEW q \in ReqId, Sign(s, q)
        PROVE  ScreenInv'
    BY <1>36 DEF Sign, memory, storage
  <1>37. ASSUME NEW s \in Callback, Reserve(s)
        PROVE  ScreenInv'
    BY <1>37 DEF Reserve, Goto, memory, storage
  <1>38. ASSUME NEW s \in Callback, Invoke(s)
        PROVE  ScreenInv'
    BY <1>38 DEF Invoke, Goto, memory, storage
  <1>39. ASSUME NEW s \in Callback, SignNatively(s)
        PROVE  ScreenInv'
    BY <1>39 DEF SignNatively, Goto, memory, storage
  <1>40. ASSUME NEW s \in Callback, Finalize(s)
        PROVE  ScreenInv'
    BY <1>40 DEF Finalize, NoCall, memory, storage
  <1>41. ASSUME NEW s \in Callback, Refuse(s)
        PROVE  ScreenInv'
    BY <1>41 DEF Refuse, NoCall, memory, storage
  <1>42. CASE Kill
    BY <1>42 DEF Kill, NoJob, NoBoard, NoCall, storage
  <1> QED BY <1>1, <1>2, <1>3, <1>4, <1>5, <1>6, <1>7, <1>8, <1>9, <1>10, <1>11,
             <1>12, <1>13, <1>14, <1>15, <1>16, <1>17, <1>18, <1>19, <1>20, <1>21,
             <1>22, <1>23, <1>24, <1>25, <1>26, <1>27, <1>28, <1>29, <1>30, <1>31,
             <1>32, <1>33, <1>34, <1>35, <1>36, <1>37, <1>38, <1>39, <1>40, <1>41,
             <1>42
        DEF ColdNext

\* A signed request keeps its record, or its wallet stays without a key.
LEMMA SignStep ==
  ASSUME ColdTypeOK, StorageInv, JobInv, BoardInv, ScreenInv, SignInv, CallInv,
         ColdNext
  PROVE  SignInv'
  <1> USE ColdConstants DEF ColdTypeOK, SignInv, HistoryOK, StoredOK, Known, Doomed
  <1>1. CASE LoadBegin \/ Delete \/ Mark \/ Note \/ RemoveRow \/ WipeRow
              \/ WipePin \/ Untomb \/ Undone \/ Throw \/ Swallow \/ Refresh
              \/ Rename \/ BeginAdd \/ CancelAdd \/ Prepared \/ SetPin
              \/ Compensate \/ UndoRow \/ UndoChoice \/ UndoPin \/ Kill
              \/ (\E w \in WalletId : Select(w))
              \/ (\E s \in Callback : (\E q \in ReqId : Sign(s, q)) \/ Invoke(s)
                  \/ Refuse(s))
    <2>1. UNCHANGED <<keys, records, life, signatures>>
      BY <1>1
        DEF LoadBegin, Delete, Mark, Note, RemoveRow, WipeRow,
            WipePin, Untomb, Undone, Throw, Swallow, Select, Refresh, Rename,
            BeginAdd, CancelAdd, Prepared, SetPin, Compensate, UndoRow, UndoChoice,
            UndoPin, Sign, Invoke, Refuse, Kill, storage, memory
    <2> QED BY <2>1
  <1>2. CASE Open
    <2>0. LifeAfter(chosen, "kept")
      BY <1>2, ShownLife DEF Open, ColdTypeOK
    <2> QED
      BY <1>2, <2>0 DEF Open, NoJob, storage, LifeAfter
  <1>3. CASE Entomb
    BY <1>3 DEF Entomb, Job
  <1>4. CASE EntombUnseen
    BY <1>4 DEF EntombUnseen, NoJob
  <1>5. CASE DeleteKey
    BY <1>5 DEF DeleteKey, Job, memory, storage
  <1>6. CASE ClearRecords
    <2>1. (\A q \in ReqId : signatures[q] <= 1)'
      BY <1>6 DEF ClearRecords, Job, Cleared, memory, storage
    <2>2. (\A q \in ReqId : records[q] # "none" \/ signatures[q] # 0 => Known(WalletOf[q]))'
      BY <1>6 DEF ClearRecords, Job, Cleared, memory, storage
    <2>3. (\A q \in ReqId :
              signatures[q] # 0 => records[q] # "none" \/ WalletOf[q] \notin keys)'
      <3>1. \A q \in ReqId : signatures[q] # 0 /\ records[q] # "none" =>
              WalletOf[q] \in WalletId /\ (WalletOf[q] \in keys => WalletOf[q] \in rows)
        BY ColdConstants DEF SignInv, StorageInv
      <3>2. job.for \notin keys /\ keys' = keys /\ signatures' = signatures
        BY <1>6 DEF ClearRecords, JobInv, Keyless
      <3>3. CASE rows \ {job.for} # {}
        <4>1. Cleared({q \in ReqId : WalletOf[q] = job.for})
          BY <1>6, <3>3 DEF ClearRecords
        <4>2. \A q \in ReqId : WalletOf[q] = job.for \/ records'[q] = records[q]
          BY <4>1 DEF Cleared
        <4> QED BY <3>2, <4>2 DEF SignInv
      <3>4. CASE rows \ {job.for} = {}
        <4>1. \A q \in ReqId : signatures[q] # 0 => WalletOf[q] \notin keys
          BY <3>1, <3>2, <3>4 DEF SignInv
        <4> QED BY <3>2, <4>1
      <3> QED BY <3>3, <3>4
    <2> QED BY <2>1, <2>2, <2>3
  <1>7. CASE Close
    <2>0. LifeAfter(current', "shown")
      BY <1>7, ShownLife DEF Close, ColdTypeOK
    <2> QED
      BY <1>7, <2>0 DEF Close, NoJob, Job, storage, LifeAfter
  <1>8. ASSUME NEW w \in WalletId, Commit(w)
        PROVE  SignInv'
    BY <1>8 DEF Commit, MayOnboard, memory, storage
  <1>9. CASE Choose
    <2>0. LifeAfter(job.for, "kept")
      BY <1>9, ShownLife DEF Choose, ColdTypeOK
    <2> QED
      BY <1>9, <2>0 DEF Choose, NoJob, LifeAfter
  <1>10. CASE StoreKey
    BY <1>10 DEF StoreKey, Board, memory, storage, BoardInv, BoardType, Undoing
  <1>11. CASE Describe
    BY <1>11 DEF Describe, Board, StoreRow
  <1>12. CASE Onboarded
    BY <1>12 DEF Onboarded, NoBoard, storage
  <1>13. CASE UndoKey
    BY <1>13 DEF UndoKey, Board, memory, storage
  <1>14. CASE NotOnboarded
    BY <1>14 DEF NotOnboarded, NoBoard, storage, BoardInv, BoardType, Undoing
  <1>15. ASSUME NEW s \in Callback, Reserve(s)
        PROVE  SignInv'
    BY <1>15 DEF Reserve, Goto, memory, storage, CallInv, CallType, Holds
  <1>16. ASSUME NEW s \in Callback, SignNatively(s)
        PROVE  SignInv'
    BY <1>16 DEF SignNatively, Goto, memory, storage, CallInv, CallType, Holds
  <1>17. ASSUME NEW s \in Callback, Finalize(s)
        PROVE  SignInv'
    BY <1>17 DEF Finalize, NoCall, memory, storage
  <1> QED BY <1>1, <1>2, <1>3, <1>4, <1>5, <1>6, <1>7, <1>8, <1>9, <1>10, <1>11,
             <1>12, <1>13, <1>14, <1>15, <1>16, <1>17
        DEF ColdNext

\* A reservation stays with the one call that holds it.
LEMMA CallInvStep ==
  ASSUME ColdTypeOK, StorageInv, JobInv, ScreenInv, BoardInv, SignInv, CallInv,
         ColdNext
  PROVE  CallInv'
  <1> USE ColdConstants DEF ColdTypeOK, CallInv, CallType, Holds, HistoryOK, Known,
      Doomed
  <1>1. CASE LoadBegin \/ Delete \/ Mark \/ Note \/ RemoveRow \/ WipeRow
              \/ WipePin \/ Untomb \/ Undone \/ Throw \/ Swallow \/ Refresh
              \/ Rename \/ BeginAdd \/ CancelAdd \/ Prepared \/ SetPin
              \/ Compensate \/ UndoRow \/ UndoChoice \/ UndoPin
              \/ (\E w \in WalletId : Select(w))
    <2>1. UNCHANGED <<keys, records, call, life, signatures>>
      BY <1>1
        DEF LoadBegin, Delete, Mark, Note, RemoveRow, WipeRow,
            WipePin, Untomb, Undone, Throw, Swallow, Select, Refresh, Rename,
            BeginAdd, CancelAdd, Prepared, SetPin, Compensate, UndoRow, UndoChoice,
            UndoPin, storage, memory
    <2> QED BY <2>1
  <1>2. CASE Open
    <2>0. LifeAfter(chosen, "kept")
      BY <1>2, ShownLife DEF Open, ColdTypeOK
    <2> QED
      BY <1>2, <2>0 DEF Open, NoJob, storage, LifeAfter
  <1>3. CASE Entomb
    BY <1>3 DEF Entomb, Job
  <1>4. CASE EntombUnseen
    BY <1>4 DEF EntombUnseen, NoJob
  <1>5. CASE DeleteKey
    BY <1>5 DEF DeleteKey, Job, memory, storage
  <1>6. CASE ClearRecords
    <2>1. (\A s \in Callback :
              call[s].at # "idle" => call[s].of \in ReqId /\ Known(WalletOf[call[s].of]))'
      BY <1>6 DEF ClearRecords, Job, Cleared, memory, storage
    <2>2. (\A s \in Callback : call[s].at = "signed" => signatures[call[s].of] # 0)'
      BY <1>6 DEF ClearRecords, Job, Cleared, memory, storage
    <2>3. (\A s \in Callback, q \in ReqId :
              Holds(s, q) /\ WalletOf[q] \in keys => records[q] = "scanned" /\ signatures[q] = 0)'
      <3>1. job.for \notin keys /\ UNCHANGED <<keys, signatures, call>>
        BY <1>6 DEF ClearRecords, JobInv, Keyless
      <3>2. \A s \in Callback, q \in ReqId : Holds(s, q) /\ WalletOf[q] \in keys => WalletOf[q] \in rows
        BY DEF CallInv, Holds, StorageInv
      <3>3. \A q \in ReqId : WalletOf[q] \in rows /\ WalletOf[q] # job.for => records'[q] = records[q]
        <4>1. CASE rows \ {job.for} = {}
          BY <4>1
        <4>2. CASE Cleared({q \in ReqId : WalletOf[q] = job.for})
          BY <4>2 DEF Cleared
        <4> QED BY <1>6, <4>1, <4>2 DEF ClearRecords
      <3> QED BY <3>1, <3>2, <3>3 DEF CallInv, Holds
    <2>4. (\A s, t \in Callback, q \in ReqId :
              Holds(s, q) /\ Holds(t, q) /\ WalletOf[q] \in keys => s = t)'
      BY <1>6 DEF ClearRecords, Job, Cleared, memory, storage
    <2> QED BY <2>1, <2>2, <2>3, <2>4
  <1>7. CASE Close
    <2>0. LifeAfter(current', "shown")
      BY <1>7, ShownLife DEF Close, ColdTypeOK
    <2> QED
      BY <1>7, <2>0 DEF Close, NoJob, Job, storage, LifeAfter
  <1>8. ASSUME NEW w \in WalletId, Commit(w)
        PROVE  CallInv'
    BY <1>8 DEF Commit, MayOnboard, memory, storage
  <1>9. CASE Choose
    <2>0. LifeAfter(job.for, "kept")
      BY <1>9, ShownLife DEF Choose, ColdTypeOK
    <2> QED
      BY <1>9, <2>0 DEF Choose, NoJob, LifeAfter
  <1>10. CASE StoreKey
    <2>1. (\A s \in Callback :
              call[s].at # "idle" => call[s].of \in ReqId /\ Known(WalletOf[call[s].of]))'
      BY <1>10 DEF StoreKey, Board, memory, storage
    <2>2. (\A s \in Callback : call[s].at = "signed" => signatures[call[s].of] # 0)'
      BY <1>10 DEF StoreKey, Board, memory, storage
    <2>3. (\A s \in Callback, q \in ReqId :
              Holds(s, q) /\ WalletOf[q] \in keys => records[q] = "scanned" /\ signatures[q] = 0)'
      <3>1. UNCHANGED <<call, records, signatures>> /\ keys' = keys \cup {board.for}
        BY <1>10 DEF StoreKey
      <3>2. ~Known(board.for)
        BY <1>10 DEF StoreKey, BoardInv, Known, Doomed
      <3>3. \A s \in Callback, q \in ReqId : Holds(s, q) => Known(WalletOf[q])
        BY DEF CallInv, Holds
      <3> QED BY <3>1, <3>2, <3>3 DEF CallInv, Holds
    <2>4. (\A s, t \in Callback, q \in ReqId :
              Holds(s, q) /\ Holds(t, q) /\ WalletOf[q] \in keys => s = t)'
      <3>1. UNCHANGED call /\ keys' = keys \cup {board.for}
        BY <1>10 DEF StoreKey
      <3>2. ~Known(board.for)
        BY <1>10 DEF StoreKey, BoardInv, Known, Doomed
      <3>3. \A s \in Callback, q \in ReqId : Holds(s, q) => Known(WalletOf[q])
        BY DEF CallInv, Holds
      <3> QED BY <3>1, <3>2, <3>3 DEF CallInv, Holds
    <2> QED BY <2>1, <2>2, <2>3, <2>4
  <1>11. CASE Describe
    BY <1>11 DEF Describe, Board, StoreRow
  <1>12. CASE Onboarded
    BY <1>12 DEF Onboarded, NoBoard, storage
  <1>13. CASE UndoKey
    BY <1>13 DEF UndoKey, Board, memory, storage
  <1>14. CASE NotOnboarded
    <2>1. UNCHANGED <<keys, records, call, signatures>>
      BY <1>14 DEF NotOnboarded
    <2>2. OneLife(board.for, "drawn", "dropped")
      BY <1>14, OneLifeChanges DEF NotOnboarded, BoardInv, Undoing
    <2>3. \A q \in ReqId : Known(WalletOf[q]) => Known(WalletOf[q])'
      BY <2>2, ColdConstants DEF OneLife, Known, Doomed
    <2>4. \A s \in Callback : call[s].at # "idle" =>
              call[s].of \in ReqId /\ Known(WalletOf[call[s].of])'
      BY <2>1, <2>3 DEF CallInv
    <2> HIDE DEF ColdTypeOK, Known
    <2> QED BY <2>1, <2>4 DEF CallInv, Holds
  <1>15. ASSUME NEW s \in Callback, NEW q \in ReqId, Sign(s, q)
        PROVE  CallInv'
    BY <1>15 DEF Sign, memory, storage, ScreenInv, ShownOK, KeysLeft
  <1>16. ASSUME NEW s \in Callback, Reserve(s)
        PROVE  CallInv'
    BY <1>16 DEF Reserve, Goto, memory, storage, StorageInv, StoredOK, SignInv
  <1>17. ASSUME NEW s \in Callback, Invoke(s)
        PROVE  CallInv'
    BY <1>17 DEF Invoke, Goto, memory, storage
  <1>18. ASSUME NEW s \in Callback, SignNatively(s)
        PROVE  CallInv'
    BY <1>18 DEF SignNatively, Goto, memory, storage
  <1>19. ASSUME NEW s \in Callback, Finalize(s)
        PROVE  CallInv'
    BY <1>19 DEF Finalize, NoCall, memory, storage
  <1>20. ASSUME NEW s \in Callback, Refuse(s)
        PROVE  CallInv'
    BY <1>20 DEF Refuse, NoCall, memory, storage
  <1>21. CASE Kill
    BY <1>21 DEF Kill, NoJob, NoBoard, NoCall, storage
  <1> QED BY <1>1, <1>2, <1>3, <1>4, <1>5, <1>6, <1>7, <1>8, <1>9, <1>10, <1>11,
             <1>12, <1>13, <1>14, <1>15, <1>16, <1>17, <1>18, <1>19, <1>20, <1>21
        DEF ColdNext

\* No wallet is known, nothing is under way, and no screen is there.
LEMMA ColdStart == ASSUME ColdInit PROVE ColdInv
  <1> USE ColdConstants DEF ColdInit
  <1>1. StoredOK /\ ShownOK /\ HistoryOK
    BY DEF StoredOK, ShownOK, HistoryOK, Maybe
  <1>2. job \in JobType
    BY DEF JobType, NoJob, Maybe, Deleting, Keyless
  <1>3. board \in BoardType
    BY DEF BoardType, NoBoard, Maybe, Undoing
  <1>4. call \in [Callback -> CallType]
    BY DEF CallType, NoCall
  <1>5. StorageInv
    BY DEF StorageInv, Known, Doomed
  <1>6. JobInv
    BY DEF JobInv, NoJob, Deleting, Keyless
  <1>7. BoardInv
    BY DEF BoardInv, NoBoard, Undoing
  <1>8. ScreenInv
    BY DEF ScreenInv, NoBoard, NoCall, NoJob
  <1>9. SignInv /\ CallInv
    BY DEF SignInv, CallInv, NoCall, Holds
  <1> QED BY <1>1, <1>2, <1>3, <1>4, <1>5, <1>6, <1>7, <1>8, <1>9 DEF ColdInv, ColdTypeOK

\* Every step, and every step of another part, keeps the invariant.
LEMMA ColdStep == ASSUME ColdInv, [ColdNext]_coldVars PROVE ColdInv'
  <1> USE DEF ColdInv
  <1>1. CASE ColdNext
    <2>1. ColdTypeOK'
      BY <1>1, StoredTyped, ShownTyped, HistoryTyped, JobTyped, BoardTyped, CallTyped
        DEF ColdTypeOK
    <2> QED BY <1>1, <2>1, StorageStep, JobStep, BoardStep, ScreenStep, SignStep, CallInvStep
  <1>2. CASE UNCHANGED coldVars
    <2>1. UNCHANGED <<keys, rows, chosen, pin, tomb, done, records>>
          /\ UNCHANGED <<ready, current, list, pending, changing, adding, onboarding>>
          /\ UNCHANGED <<job, board, call, life, signatures>>
      BY <1>2 DEF coldVars, storage, memory
    <2>2. ColdTypeOK'
      BY <2>1 DEF ColdTypeOK, StoredOK, ShownOK, HistoryOK
    <2>3. StorageInv'
      BY <2>1 DEF StorageInv, Known, Doomed
    <2>4. JobInv'
      BY <2>1, JobStays
    <2>5. BoardInv'
      BY <2>1 DEF BoardInv, Undoing
    <2>6. ScreenInv'
      <3>1. (KeysLeft' <=> KeysLeft) /\ (Known(current)' <=> Known(current))
        BY <2>1 DEF KeysLeft, Known, Doomed
      <3>2. Doomed(current)' <=> Doomed(current)
        BY <2>1 DEF Doomed
      <3> QED BY <2>1, <3>1, <3>2 DEF ScreenInv, Undoing
    <2>7. SignInv' /\ CallInv'
      BY <2>1 DEF SignInv, CallInv, Holds, Known, Doomed
    <2> QED BY <2>2, <2>3, <2>4, <2>5, <2>6, <2>7
  <1> QED BY <1>1, <1>2

\* The state keeps its types, the three stores agree whenever the app dies, and
\* every step under way finds what the one before it left.
THEOREM ColdInvariant == ColdSpec => []ColdInv
  BY ColdStart, ColdStep, PTL DEF ColdSpec

\* signRequest signs a request once at most, whatever callbacks overlap, calls
\* fail, restarts or deletions come between.
THEOREM RequestsAreSignedOnce == ColdSpec => []SignedOnce
  <1>1. ColdInv => SignedOnce
    BY DEF ColdInv, SignInv, SignedOnce
  <1> QED BY <1>1, ColdInvariant, PTL

\* A wallet the user created and did not delete keeps its key, its row and the PIN,
\* whatever onboarding, selection or deletion of another is cut off or fails.
THEOREM KeptWalletsAreWhole == ColdSpec => []WalletsAreWhole
  <1>1. ColdInv => WalletsAreWhole
    BY DEF ColdInv, StorageInv, WalletsAreWhole
  <1> QED BY <1>1, ColdInvariant, PTL

\* A deleted wallet is not on the screens while the app may be used, and as long as
\* a row of it stays without its key the tombstone names it.
THEOREM DeletedWalletsStayDeleted == ColdSpec => []DeletedStaysDeleted
  <1>1. ColdInv => DeletedStaysDeleted
    BY DEF ColdInv, StorageInv, ScreenInv, Doomed, Quiet, DeletedStaysDeleted
  <1> QED BY <1>1, ColdInvariant, PTL
=============================================================================
