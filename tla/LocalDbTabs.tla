---------------------------- MODULE LocalDbTabs ----------------------------
(***************************************************************************)
(* The durable local database of the web build, as the tabs of one browser *)
(* share it.  Each tab works on an in-memory sql.js database (raw) and     *)
(* persists whole snapshots of it to a compare-and-swap byte store.        *)
(*                                                                         *)
(*   packages/db/src/persistent-database.ts         open, flush, sync      *)
(*   packages/db/src/merge-uncommitted-progress.ts  the conflict merge     *)
(*   packages/db/src/persisted-bytes-store.ts       the store's contract   *)
(*   apps/web/app/lib/local-db-flush.ts             the flush coordinator  *)
(*   apps/web/app/lib/local-db.ts                   timers, pings, reset   *)
(*                                                                         *)
(* Granularity.  One action per store operation, together with the tab's   *)
(* code up to its next await.  IndexedDB serialises the transactions       *)
(* (module PersistedBytesIdb) and answers one tab in their order; code     *)
(* between two awaits of a tab runs without interruption.                  *)
(***************************************************************************)
EXTENDS ProgressOrdering, FiniteSets

CONSTANTS
    Tabs,          \* the pages that may open the database, each at most once
    Chapters,      \* chapters: each has a chapter_read_state row, or none
    Entries,       \* library entries: each has resume metadata, or none
    Events,        \* the progress events the readers create
    NoRow,         \* no read state, no resume metadata yet
    Absent,        \* the chapter's manga or the library entry is not there
    Corruptible,   \* may the stored bytes be unreadable at the start?
    MaxWrites,     \* bound: write statements of each tab
    MaxFaults      \* bound: rejected operations, over all tabs

ASSUME LocalDbAssumption ==
    /\ Chapters \cap Entries = {}
    /\ Events \subseteq ProgressEvent
    /\ NoRow \notin ProgressEvent
    /\ Absent \notin ProgressEvent
    /\ NoRow # Absent
    /\ Corruptible \in BOOLEAN
    /\ MaxWrites \in [Tabs -> Nat]
    /\ MaxFaults \in Nat

VARIABLES
    store,         \* the one stored snapshot; version 0 when there is none
    sess,          \* the tab's session: where opening it stands
    raw,           \* its working copy
    base,          \* baseVersion: the store version it will expect
    retired,       \* is a handle of a replaced working copy still open?
    mutationSeq,   \* write statements seen by the update hook
    flushedSeq,    \* the coordinator's flushedSeq
    target,        \* the highest sequence a pending flush request waits for
    timer,         \* is the zero-delay flush timer set?
    flight,        \* the flush in flight
    pinged,        \* is a storage event waiting for the tab?
    saveError,     \* is the "did not finish" banner up?
    faults         \* rejected operations so far

\* History variables: nothing in the code reads them.
VARIABLES
    held,          \* the version of the snapshot raw really descends from
    reloads,       \* has a flush of the tab ever reported "reloaded"?
    durable,       \* every row that was ever part of the stored snapshot
    cleared,       \* has a quarantine ever cleared the store?
    dropped        \* mutationSeq at the tab's last reset

sessionVars == <<sess, raw, base, held, retired>>
coordinatorVars == <<mutationSeq, flushedSeq, target, timer, saveError>>
historyVars == <<reloads, durable, cleared, dropped>>
vars == <<store, sessionVars, coordinatorVars, flight, pinged, faults,
          historyVars>>

-----------------------------------------------------------------------------
(* Snapshots and the order between them *)

(***************************************************************************)
(* Every row outside the progress tables is named by the tab that inserted *)
(* it and the value of mutationSeq the insert produced.                    *)
(***************************************************************************)
Row == Tabs \X Nat

Items == Chapters \cup Entries

Progress == ProgressEvent \cup {NoRow, Absent}

Bytes == [rows : SUBSET Row, progress : [Items -> Progress]]

(* A database that only ran the bundled migrations. *)
Fresh == [rows |-> {}, progress |-> [i \in Items |-> Absent]]

(* An earlier visit filled the library; nothing was read yet. *)
Seeded == [rows |-> {}, progress |-> [i \in Items |-> NoRow]]

NothingStored == [version |-> 0, readable |-> TRUE, bytes |-> Fresh]

(* The ordering policy of the item's table. *)
Wins(i, incoming, existing) ==
    IF i \in Chapters
    THEN ProgressOrderingWins(incoming, existing)
    ELSE LibraryResumeWins(incoming, existing)

(* The item's progress did not move back. *)
NotBehind(i, new, old) ==
    \/ new = Absent
    \/ old = NoRow
    \/ new = old
    \/ /\ old \in ProgressEvent
       /\ new \in ProgressEvent
       /\ Wins(i, new, old)

(* Nothing of b is missing from a, and no progress is behind. *)
Extends(a, b) ==
    /\ b.rows \subseteq a.rows
    /\ \A i \in Items : NotBehind(i, a.progress[i], b.progress[i])

-----------------------------------------------------------------------------
(* The conflict merge *)

(***************************************************************************)
(* Inserting the read state of a chapter whose manga the committed         *)
(* snapshot no longer has breaks the foreign key; the statement throws and *)
(* the whole merge comes back null.                                        *)
(***************************************************************************)
BreaksForeignKey(latest, local) ==
    \E c \in Chapters :
        local.progress[c] \in ProgressEvent /\ latest.progress[c] = Absent

(* Mutated form of LocalWins: the ordering guard is forgotten. *)
LocalWinsAlways(latest, local, i) ==
    local.progress[i] \in ProgressEvent /\ latest.progress[i] # Absent

LocalWins(latest, local, i) ==
    /\ local.progress[i] \in ProgressEvent
    /\ \/ latest.progress[i] = NoRow
       \/ /\ latest.progress[i] \in ProgressEvent
          /\ IF i \in Chapters
             THEN MergeProgressWins(local.progress[i], latest.progress[i])
             ELSE LibraryResumeWins(local.progress[i], latest.progress[i])

(* The update of an entry the snapshot has not got changes no row. *)
UpdatesNothing(latest, local, i) ==
    /\ i \in Entries
    /\ local.progress[i] \in ProgressEvent
    /\ latest.progress[i] = Absent

(* Mutated form of MergeUncommittedProgress: the copies are swapped. *)
MergeIntoLocal(latest, local) ==
    [local EXCEPT !.progress =
        [i \in Items |-> IF LocalWins(latest, local, i)
                         THEN local.progress[i]
                         ELSE latest.progress[i]]]

(* The committed snapshot with the local progress that wins. *)
MergeUncommittedProgress(latest, local) ==
    [latest EXCEPT !.progress =
        [i \in Items |-> IF LocalWins(latest, local, i)
                         THEN local.progress[i]
                         ELSE latest.progress[i]]]

(* The merge yields bytes: no statement threw and one at least ran. *)
Merges(snapshot, local) ==
    /\ snapshot.readable
    /\ ~BreaksForeignKey(snapshot.bytes, local)
    /\ \E i \in Items : \/ LocalWins(snapshot.bytes, local, i)
                        \/ UpdatesNothing(snapshot.bytes, local, i)

-----------------------------------------------------------------------------
(* The store and the session *)

(* Mutated form of Accepts: the version is not compared. *)
AcceptsAnything(expected) == TRUE

(* Compare and swap succeeds. *)
Accepts(expected) == store.version = expected

StoreWrite(bytes) ==
    /\ store' = [version |-> store.version + 1, readable |-> TRUE, bytes |-> bytes]
    /\ durable' = durable \cup bytes.rows

IsOpen(t) == sess[t] \in {"open", "ready"}

(***************************************************************************)
(* syncFromStore: adopt the stored snapshot unless there is none, its      *)
(* version is the one already loaded, or its bytes cannot be opened.  The  *)
(* replaced handle stays open until the next replacement.                  *)
(***************************************************************************)
SyncFromStore(t) ==
    IF store.version = 0 \/ store.version = base[t] \/ ~store.readable
    THEN UNCHANGED sessionVars
    ELSE /\ raw' = [raw EXCEPT ![t] = store.bytes]
         /\ base' = [base EXCEPT ![t] = store.version]
         /\ held' = [held EXCEPT ![t] = store.version]
         /\ retired' = [retired EXCEPT ![t] = TRUE]
         /\ UNCHANGED sess

NoFlight ==
    [phase |-> "idle", seq |-> 0, bytes |-> Fresh, expected |-> 0,
     held |-> 0, live |-> TRUE]

(* Mutated form of SettleFlush: one write too many counts as flushed. *)
SettleOneMore(t, seq) ==
    /\ flushedSeq' = [flushedSeq EXCEPT ![t] = seq + 1]
    /\ saveError' = [saveError EXCEPT ![t] = FALSE]
    /\ UNCHANGED <<mutationSeq, target, timer>>

(* Mutated form of SettleFlush: writes made during the flush count too. *)
SettleAllKnown(t, seq) ==
    /\ flushedSeq' = [flushedSeq EXCEPT ![t] = mutationSeq[t]]
    /\ saveError' = [saveError EXCEPT ![t] = FALSE]
    /\ UNCHANGED <<mutationSeq, target, timer>>

(* Pending requests whose target was reached resolve and clear the banner. *)
SettleFlush(t, seq) ==
    /\ flushedSeq' = [flushedSeq EXCEPT ![t] = seq]
    /\ saveError' = [saveError EXCEPT ![t] = FALSE]
    /\ UNCHANGED <<mutationSeq, target, timer>>

(* Mutated form of RejectRequests: the failure is swallowed. *)
RejectSilently(t) ==
    /\ target' = [target EXCEPT ![t] = 0]
    /\ UNCHANGED <<mutationSeq, flushedSeq, timer, saveError>>

(* Every pending request rejects and flushLocalDb reports the failure. *)
RejectRequests(t) ==
    /\ target' = [target EXCEPT ![t] = 0]
    /\ saveError' = [saveError EXCEPT ![t] = TRUE]
    /\ UNCHANGED <<mutationSeq, flushedSeq, timer>>

(* Mutated form of Waiting: the loop ends one write early. *)
WaitingAllButOne(t) == flushedSeq[t] + 1 < target[t]

(* A request loops until the sequence it saw is flushed. *)
Waiting(t) == flushedSeq[t] < target[t]

-----------------------------------------------------------------------------
Init ==
    /\ store \in {NothingStored,
                  [version |-> 1, readable |-> TRUE, bytes |-> Seeded]}
         \cup (IF Corruptible
               THEN {[version |-> 1, readable |-> FALSE, bytes |-> Fresh]}
               ELSE {})
    /\ sess = [t \in Tabs |-> "none"]
    /\ raw = [t \in Tabs |-> Fresh]
    /\ base = [t \in Tabs |-> 0]
    /\ retired = [t \in Tabs |-> FALSE]
    /\ mutationSeq = [t \in Tabs |-> 0]
    /\ flushedSeq = [t \in Tabs |-> 0]
    /\ target = [t \in Tabs |-> 0]
    /\ timer = [t \in Tabs |-> FALSE]
    /\ flight = [t \in Tabs |-> NoFlight]
    /\ pinged = [t \in Tabs |-> FALSE]
    /\ saveError = [t \in Tabs |-> FALSE]
    /\ faults = 0
    /\ held = [t \in Tabs |-> 0]
    /\ reloads = [t \in Tabs |-> FALSE]
    /\ durable = {}
    /\ cleared = FALSE
    /\ dropped = [t \in Tabs |-> 0]

-----------------------------------------------------------------------------
(* Opening, resetting and leaving *)

(* getLocalDbSession: the store read is under way. *)
OpenSession(t) ==
    /\ sess[t] = "none"
    /\ sess' = [sess EXCEPT ![t] = "opening"]
    /\ UNCHANGED <<store, raw, base, held, retired, coordinatorVars, flight,
                   pinged, faults, historyVars>>

(* The read answered with a readable snapshot, or with none. *)
OpenRead(t) ==
    /\ sess[t] = "opening"
    /\ store.readable
    /\ sess' = [sess EXCEPT ![t] = "open"]
    /\ raw' = [raw EXCEPT ![t] = store.bytes]
    /\ base' = [base EXCEPT ![t] = store.version]
    /\ held' = [held EXCEPT ![t] = store.version]
    /\ UNCHANGED <<store, retired, coordinatorVars, flight, pinged, faults,
                   historyVars>>

(* The read answered with bytes that do not open: quarantine them. *)
OpenQuarantine(t) ==
    /\ sess[t] = "opening"
    /\ ~store.readable
    /\ sess' = [sess EXCEPT ![t] = "clearing"]
    /\ UNCHANGED <<store, raw, base, held, retired, coordinatorVars, flight,
                   pinged, faults, historyVars>>

(* store.clear deletes whatever is stored by now; a fresh database opens. *)
OpenClear(t) ==
    /\ sess[t] = "clearing"
    /\ store' = NothingStored
    /\ sess' = [sess EXCEPT ![t] = "open"]
    /\ raw' = [raw EXCEPT ![t] = Fresh]
    /\ base' = [base EXCEPT ![t] = 0]
    /\ held' = [held EXCEPT ![t] = 0]
    /\ cleared' = TRUE
    /\ UNCHANGED <<retired, coordinatorVars, flight, pinged, faults, reloads,
                   durable, dropped>>

(***************************************************************************)
(* Opening rejects, and so does a flush that waits for the session.  When  *)
(* the code or the WASM could not be loaded the slot is cleared; a store   *)
(* operation rejects past that handler (openPersistentDatabase is returned *)
(* without an await), and dbPromise stays rejected until a reset.          *)
(***************************************************************************)
OpenFails(t) ==
    /\ sess[t] \in {"opening", "clearing"}
    /\ faults < MaxFaults
    /\ faults' = faults + 1
    /\ \/ sess' = [sess EXCEPT ![t] = "failed"]
       \/ sess[t] = "opening" /\ sess' = [sess EXCEPT ![t] = "none"]
    /\ IF flight[t].phase = "idle" /\ Waiting(t)
       THEN RejectRequests(t)
       ELSE UNCHANGED coordinatorVars
    /\ UNCHANGED <<store, raw, base, held, retired, flight, pinged,
                   historyVars>>

(* LocalDbProvider is ready: the tab hears other tabs from here on. *)
BecomeReady(t) ==
    /\ sess[t] = "open"
    /\ sess' = [sess EXCEPT ![t] = "ready"]
    /\ UNCHANGED <<store, raw, base, held, retired, coordinatorVars, flight,
                   pinged, faults, historyVars>>

(***************************************************************************)
(* Getting ready failed (the session did not open, or the provider         *)
(* allowlist was refused), the screens offer their retry and resetLocalDb  *)
(* runs: the session closes with its handles, what was written to them and *)
(* not flushed is gone, and the banner with it; a flush in flight goes on  *)
(* without a session.                                                      *)
(***************************************************************************)
ResetSession(t) ==
    /\ \/ sess[t] \in {"none", "failed"} /\ UNCHANGED faults
       \/ sess[t] = "open" /\ faults < MaxFaults /\ faults' = faults + 1
    /\ sess' = [sess EXCEPT ![t] = "none"]
    /\ raw' = [raw EXCEPT ![t] = Fresh]
    /\ base' = [base EXCEPT ![t] = 0]
    /\ held' = [held EXCEPT ![t] = 0]
    /\ retired' = [retired EXCEPT ![t] = FALSE]
    /\ flight' = IF flight[t].phase = "idle"
                 THEN flight
                 ELSE [flight EXCEPT ![t].live = FALSE]
    /\ saveError' = [saveError EXCEPT ![t] = FALSE]
    /\ dropped' = [dropped EXCEPT ![t] = mutationSeq[t]]
    /\ UNCHANGED <<store, mutationSeq, flushedSeq, target, timer, pinged,
                   reloads, durable, cleared>>

(* The page goes away, with everything it held in memory. *)
CloseTab(t) ==
    /\ sess[t] # "gone"
    /\ sess' = [sess EXCEPT ![t] = "gone"]
    /\ raw' = [raw EXCEPT ![t] = Fresh]
    /\ base' = [base EXCEPT ![t] = 0]
    /\ held' = [held EXCEPT ![t] = 0]
    /\ retired' = [retired EXCEPT ![t] = FALSE]
    /\ mutationSeq' = [mutationSeq EXCEPT ![t] = 0]
    /\ flushedSeq' = [flushedSeq EXCEPT ![t] = 0]
    /\ target' = [target EXCEPT ![t] = 0]
    /\ timer' = [timer EXCEPT ![t] = FALSE]
    /\ saveError' = [saveError EXCEPT ![t] = FALSE]
    /\ flight' = [flight EXCEPT ![t] = NoFlight]
    /\ pinged' = [pinged EXCEPT ![t] = FALSE]
    /\ dropped' = [dropped EXCEPT ![t] = 0]
    /\ UNCHANGED <<store, faults, reloads, durable, cleared>>

-----------------------------------------------------------------------------
(* Writing to the working copy *)

(* onMutation: the sequence advances and the flush timer is set again. *)
OnMutation(t) ==
    /\ mutationSeq[t] < MaxWrites[t]
    /\ mutationSeq' = [mutationSeq EXCEPT ![t] = @ + 1]
    /\ timer' = [timer EXCEPT ![t] = TRUE]
    /\ UNCHANGED <<flushedSeq, target, saveError>>

(* A statement outside the progress tables. *)
InsertRow(t) ==
    /\ IsOpen(t)
    /\ OnMutation(t)
    /\ raw' = [raw EXCEPT ![t].rows = @ \cup {<<t, mutationSeq[t] + 1>>}]
    /\ UNCHANGED <<store, sess, base, held, retired, flight, pinged, faults,
                   historyVars>>

(* A progress event passes the guard of the item's table and is written. *)
PersistProgress(t, i, event) ==
    /\ IsOpen(t)
    /\ OnMutation(t)
    /\ \/ raw[t].progress[i] = NoRow
       \/ /\ raw[t].progress[i] \in ProgressEvent
          /\ IF i \in Chapters
             THEN AcceptChapterReadState(raw[t].progress[i], event)
             ELSE LibraryResumeWins(event, raw[t].progress[i])
    /\ raw' = [raw EXCEPT ![t].progress[i] = event]
    /\ UNCHANGED <<store, sess, base, held, retired, flight, pinged, faults,
                   historyVars>>

(* An identity merge or a restore deletes the chapter's manga, and the     *)
(* read state with it; leaving the library deletes the entry.              *)
DeleteParent(t, i) ==
    /\ IsOpen(t)
    /\ OnMutation(t)
    /\ raw[t].progress[i] # Absent
    /\ raw' = [raw EXCEPT ![t].progress[i] = Absent]
    /\ UNCHANGED <<store, sess, base, held, retired, flight, pinged, faults,
                   historyVars>>

(* A caller that kept the previous handle writes to the replaced copy. *)
WriteRetired(t) ==
    /\ IsOpen(t)
    /\ retired[t]
    /\ OnMutation(t)
    /\ UNCHANGED <<store, sessionVars, flight, pinged, faults, historyVars>>

-----------------------------------------------------------------------------
(* Asking for a flush *)

(* flushLocalDb: wait for the sequence known now, or find it reached. *)
RequestFlush(t) ==
    IF flushedSeq[t] < mutationSeq[t]
    THEN /\ target' = [target EXCEPT ![t] = mutationSeq[t]]
         /\ UNCHANGED saveError
    ELSE /\ saveError' = [saveError EXCEPT ![t] = FALSE]
         /\ UNCHANGED target

TimerFires(t) ==
    /\ timer[t]
    /\ timer' = [timer EXCEPT ![t] = FALSE]
    /\ RequestFlush(t)
    /\ UNCHANGED <<store, sessionVars, mutationSeq, flushedSeq, flight, pinged,
                   faults, historyVars>>

(* A screen awaits flushLocalDb after its own writes. *)
AwaitFlush(t) ==
    /\ IsOpen(t)
    /\ RequestFlush(t)
    /\ UNCHANGED <<store, sessionVars, mutationSeq, flushedSeq, timer, flight,
                   pinged, faults, historyVars>>

(* The banner's retry: retryPersistence hides it and flushes. *)
RetryPersistence(t) ==
    /\ saveError[t]
    /\ saveError' = [saveError EXCEPT ![t] = FALSE]
    /\ target' = [target EXCEPT ![t] = IF flushedSeq[t] < mutationSeq[t]
                                       THEN mutationSeq[t]
                                       ELSE @]
    /\ UNCHANGED <<store, sessionVars, mutationSeq, flushedSeq, timer, flight,
                   pinged, faults, historyVars>>

-----------------------------------------------------------------------------
(* The flush *)

(* Without a session flushOnce has nothing to do and reports "saved". *)
FlushNothing(t) ==
    /\ flight[t].phase = "idle"
    /\ Waiting(t)
    /\ sess[t] = "none"
    /\ SettleFlush(t, mutationSeq[t])
    /\ UNCHANGED <<store, sessionVars, flight, pinged, faults, historyVars>>

(* The session never opened: awaiting dbPromise rejects at once. *)
FlushRejects(t) ==
    /\ flight[t].phase = "idle"
    /\ Waiting(t)
    /\ sess[t] = "failed"
    /\ RejectRequests(t)
    /\ UNCHANGED <<store, sessionVars, flight, pinged, faults, historyVars>>

(* runOnce and flush, up to the first write: export, expect baseVersion. *)
FlushStart(t) ==
    /\ flight[t].phase = "idle"
    /\ Waiting(t)
    /\ IsOpen(t)
    /\ flight' = [flight EXCEPT ![t] =
         [phase |-> "write", seq |-> mutationSeq[t], bytes |-> raw[t],
          expected |-> base[t], held |-> held[t], live |-> TRUE]]
    /\ UNCHANGED <<store, sessionVars, coordinatorVars, pinged, faults,
                   historyVars>>

(* The swap went through: "saved", and the other tabs are pinged. *)
FlushSaved(t) ==
    /\ flight[t].phase = "write"
    /\ Accepts(flight[t].expected)
    /\ StoreWrite(flight[t].bytes)
    /\ IF flight[t].live
       THEN /\ base' = [base EXCEPT ![t] = store.version + 1]
            /\ held' = [held EXCEPT ![t] = IF base[t] = flight[t].expected
                                           THEN store.version + 1
                                           ELSE @]
       ELSE UNCHANGED <<base, held>>
    /\ SettleFlush(t, flight[t].seq)
    /\ flight' = [flight EXCEPT ![t] = NoFlight]
    /\ pinged' = [u \in Tabs |-> pinged[u] \/ (u # t /\ sess[u] = "ready")]
    /\ UNCHANGED <<sess, raw, retired, faults, reloads, cleared, dropped>>

FlushConflict(t) ==
    /\ flight[t].phase = "write"
    /\ ~Accepts(flight[t].expected)
    /\ flight' = [flight EXCEPT ![t].phase = "read"]
    /\ UNCHANGED <<store, sessionVars, coordinatorVars, pinged, faults,
                   historyVars>>

(***************************************************************************)
(* Read the snapshot that won and merge the working copy's progress into   *)
(* it.  A closed working copy cannot be read, so its merge is null too.    *)
(***************************************************************************)
FlushMerge(t) ==
    /\ flight[t].phase = "read"
    /\ flight' =
         IF store.version # 0 /\ flight[t].live /\ Merges(store, raw[t])
         THEN [flight EXCEPT
                 ![t].phase = "retry",
                 ![t].bytes = MergeUncommittedProgress(store.bytes, raw[t]),
                 ![t].expected = store.version]
         ELSE [flight EXCEPT ![t].phase = "sync"]
    /\ UNCHANGED <<store, sessionVars, coordinatorVars, pinged, faults,
                   historyVars>>

(* The merged snapshot is written: the session moves to its version. *)
FlushRetry(t) ==
    /\ flight[t].phase = "retry"
    /\ Accepts(flight[t].expected)
    /\ StoreWrite(flight[t].bytes)
    /\ base' = IF flight[t].live
               THEN [base EXCEPT ![t] = store.version + 1]
               ELSE base
    /\ flight' = [flight EXCEPT ![t].phase = "sync"]
    /\ UNCHANGED <<sess, raw, held, retired, coordinatorVars, pinged, faults,
                   reloads, cleared, dropped>>

(* There is one retry: losing it gives up. *)
FlushRetryLost(t) ==
    /\ flight[t].phase = "retry"
    /\ ~Accepts(flight[t].expected)
    /\ flight' = [flight EXCEPT ![t].phase = "sync"]
    /\ UNCHANGED <<store, sessionVars, coordinatorVars, pinged, faults,
                   historyVars>>

(* Mutated form of FlushReloaded: a closed session is synced as well. *)
FlushReloadedClosed(t) ==
    /\ flight[t].phase = "sync"
    /\ SyncFromStore(t)
    /\ SettleFlush(t, mutationSeq[t])
    /\ flight' = [flight EXCEPT ![t] = NoFlight]
    /\ reloads' = [reloads EXCEPT ![t] = TRUE]
    /\ UNCHANGED <<store, pinged, faults, durable, cleared, dropped>>

(* "reloaded": sync a session that is still open, count all as flushed. *)
FlushReloaded(t) ==
    /\ flight[t].phase = "sync"
    /\ IF flight[t].live THEN SyncFromStore(t) ELSE UNCHANGED sessionVars
    /\ SettleFlush(t, mutationSeq[t])
    /\ flight' = [flight EXCEPT ![t] = NoFlight]
    /\ reloads' = [reloads EXCEPT ![t] = TRUE]
    /\ UNCHANGED <<store, pinged, faults, durable, cleared, dropped>>

(* A store operation of the flush rejects; what it would have done is not. *)
FlushFails(t) ==
    /\ flight[t].phase # "idle"
    /\ flight[t].phase = "sync" => flight[t].live
    /\ faults < MaxFaults
    /\ faults' = faults + 1
    /\ RejectRequests(t)
    /\ flight' = [flight EXCEPT ![t] = NoFlight]
    /\ UNCHANGED <<store, sessionVars, pinged, historyVars>>

-----------------------------------------------------------------------------
(* Hearing other tabs *)

OnStorageEvent(t) ==
    /\ sess[t] = "ready"
    /\ pinged[t]
    /\ pinged' = [pinged EXCEPT ![t] = FALSE]
    /\ SyncFromStore(t)
    /\ UNCHANGED <<store, coordinatorVars, flight, faults, historyVars>>

OnVisible(t) ==
    /\ sess[t] = "ready"
    /\ SyncFromStore(t)
    /\ UNCHANGED <<store, coordinatorVars, flight, pinged, faults, historyVars>>

-----------------------------------------------------------------------------
FlushStep(t) ==
    \/ FlushNothing(t) \/ FlushRejects(t) \/ FlushStart(t) \/ FlushSaved(t)
    \/ FlushConflict(t) \/ FlushMerge(t) \/ FlushRetry(t) \/ FlushRetryLost(t)
    \/ FlushReloaded(t)

OpenStep(t) == OpenRead(t) \/ OpenQuarantine(t) \/ OpenClear(t)

Next ==
    \E t \in Tabs :
        \/ OpenSession(t) \/ OpenStep(t) \/ OpenFails(t) \/ BecomeReady(t)
        \/ ResetSession(t) \/ CloseTab(t)
        \/ InsertRow(t) \/ WriteRetired(t)
        \/ \E i \in Items : DeleteParent(t, i)
        \/ \E i \in Items, event \in Events : PersistProgress(t, i, event)
        \/ TimerFires(t) \/ AwaitFlush(t) \/ RetryPersistence(t)
        \/ FlushStep(t) \/ FlushFails(t)
        \/ OnStorageEvent(t) \/ OnVisible(t)

Spec == Init /\ [][Next]_vars

(***************************************************************************)
(* The event loop keeps running a page that is not closed: timers fire,    *)
(* store operations answer and storage events arrive.  Nothing makes a     *)
(* user write, switch tabs or leave.                                       *)
(***************************************************************************)
Fairness ==
    \A t \in Tabs :
        /\ WF_vars(OpenStep(t)) /\ WF_vars(BecomeReady(t))
        /\ WF_vars(TimerFires(t)) /\ WF_vars(FlushStep(t))
        /\ WF_vars(OnStorageEvent(t))

FairSpec == Spec /\ Fairness

-----------------------------------------------------------------------------
(* Types *)

SessionState ==
    {"none", "opening", "clearing", "failed", "open", "ready", "gone"}

Flight ==
    [phase : {"idle", "write", "read", "retry", "sync"}, seq : Nat,
     bytes : Bytes, expected : Nat, held : Nat, live : BOOLEAN]

(***************************************************************************)
(* The type invariant, with the bounds the coordinator of                  *)
(* local-db-flush.ts keeps on its own counters: it never counts a write as *)
(* flushed, and never waits for one, that has not happened.                *)
(***************************************************************************)
TypeOK ==
    /\ store \in [version : Nat, readable : BOOLEAN, bytes : Bytes]
    /\ sess \in [Tabs -> SessionState]
    /\ raw \in [Tabs -> Bytes]
    /\ base \in [Tabs -> Nat]
    /\ held \in [Tabs -> Nat]
    /\ retired \in [Tabs -> BOOLEAN]
    /\ mutationSeq \in [Tabs -> Nat]
    /\ flushedSeq \in [Tabs -> Nat]
    /\ target \in [Tabs -> Nat]
    /\ timer \in [Tabs -> BOOLEAN]
    /\ flight \in [Tabs -> Flight]
    /\ pinged \in [Tabs -> BOOLEAN]
    /\ saveError \in [Tabs -> BOOLEAN]
    /\ faults \in Nat
    /\ reloads \in [Tabs -> BOOLEAN]
    /\ durable \subseteq Row
    /\ cleared \in BOOLEAN
    /\ dropped \in [Tabs -> Nat]
    /\ \A t \in Tabs :
         /\ flushedSeq[t] <= mutationSeq[t]
         /\ target[t] <= mutationSeq[t]
         /\ flight[t].seq <= mutationSeq[t]

-----------------------------------------------------------------------------
(* Safety *)

(***************************************************************************)
(* "A flush that is already in flight covers only the writes captured when *)
(* it started" (local-db-flush.ts): until a flush of the tab reports       *)
(* "reloaded", a row the coordinator counts as flushed and that the        *)
(* working copy still has was part of a committed snapshot, whatever was   *)
(* written, synced or reset while the flush awaited the store.             *)
(***************************************************************************)
FlushedWritesAreDurable ==
    \A t \in Tabs : \A row \in raw[t].rows :
        row[1] = t /\ row[2] <= flushedSeq[t] /\ ~reloads[t] => row \in durable

(***************************************************************************)
(* No write is left unsaved in silence: while a page has writes it has not *)
(* flushed, the timer is set, a request waits for all of them, or the      *)
(* "did not finish" banner of flushLocalDb is up.  One exception, named:   *)
(* a reset after a failed start drops the working copy and hides the       *)
(* banner (local-db-provider.tsx:72), so nothing is promised of the writes *)
(* it dropped until the next write.                                        *)
(***************************************************************************)
UnsavedIsVisible ==
    \A t \in Tabs :
        flushedSeq[t] < mutationSeq[t] /\ dropped[t] < mutationSeq[t] =>
            timer[t] \/ target[t] = mutationSeq[t] \/ saveError[t]

(***************************************************************************)
(* A session that was closed stays closed: no store operation that was in  *)
(* flight puts a working copy back into it (the closed checks of flush and *)
(* syncFromStore).                                                         *)
(***************************************************************************)
ClosedStaysClosed ==
    \A t \in Tabs :
        sess[t] \in {"none", "failed", "gone"} =>
            raw[t] = Fresh /\ base[t] = 0 /\ ~retired[t]

(* A step commits the merged snapshot of tab t. *)
MergedCommit(t) ==
    /\ flight[t].phase = "retry"
    /\ flight'[t].phase = "sync"
    /\ store' # store

(***************************************************************************)
(* What a merge may do to a committed snapshot: "every other table stays   *)
(* as the committed snapshot has it, so a stale tab cannot resurrect       *)
(* anything it never touched", and it "must never roll progress back"      *)
(* (merge-uncommitted-progress.ts, progress-ordering.ts).                  *)
(***************************************************************************)
MergedOnto(new, old) ==
    /\ new.rows = old.rows
    /\ \A i \in Items :
         /\ new.progress[i] = Absent <=> old.progress[i] = Absent
         /\ NotBehind(i, new.progress[i], old.progress[i])

(***************************************************************************)
(* A merged commit keeps the snapshot it replaces, rows, parents and       *)
(* progress, whatever was committed between the merge's read and its       *)
(* write.  A quarantine in between resets the version counter, and then    *)
(* nothing is promised.                                                    *)
(***************************************************************************)
MergeKeepsCommitted ==
    [][\A t \in Tabs :
         MergedCommit(t) /\ ~cleared => MergedOnto(store'.bytes, store.bytes)]_vars

(* The step replaces the stored snapshot by one that has everything in it. *)
CommitExtends == Extends(store'.bytes, store.bytes)

(***************************************************************************)
(* The compare and swap is enough for every session whose working copy is  *)
(* the snapshot its baseVersion names: as long as no quarantine reset the  *)
(* version counter, a commit drops a committed row or rolls progress back  *)
(* only when it is the plain write of a session that moved its baseVersion *)
(* by a merged commit without taking the merged snapshot over.             *)
(***************************************************************************)
OverwriteOnlyAfterMerge ==
    [][\/ CommitExtends
       \/ cleared'
       \/ \E t \in Tabs : /\ flight[t].phase = "write"
                          /\ flight[t].held # flight[t].expected]_vars

-----------------------------------------------------------------------------
(* What the safety properties rest on *)

(***************************************************************************)
(* How the versions a session remembers relate to what its working copy    *)
(* holds, for as long as no quarantine resets the counter: no session is   *)
(* ahead of the store; one whose copy descends from the stored version has *)
(* everything stored; and so have the bytes of a flush whose expected      *)
(* version still is the stored one.  Everything the compare and swap of    *)
(* persistent-database.ts protects rests on this.                          *)
(***************************************************************************)
CopyTracksStore(t) ==
    /\ held[t] <= base[t]
    /\ base[t] <= store.version
    /\ IsOpen(t) /\ held[t] = store.version => Extends(raw[t], store.bytes)

WriteTracksStore(t) ==
    flight[t].phase = "write" =>
        /\ flight[t].held <= flight[t].expected
        /\ flight[t].expected <= store.version
        /\ flight[t].held = store.version => Extends(flight[t].bytes, store.bytes)
        /\ flight[t].live =>
             /\ flight[t].expected <= base[t]
             /\ base[t] = flight[t].expected => Extends(raw[t], flight[t].bytes)

RetryTracksStore(t) ==
    flight[t].phase = "retry" =>
        /\ flight[t].expected <= store.version
        /\ flight[t].expected = store.version =>
             MergedOnto(flight[t].bytes, store.bytes)

SessionsTrackStore ==
    ~cleared => \A t \in Tabs : /\ CopyTracksStore(t)
                               /\ WriteTracksStore(t)
                               /\ RetryTracksStore(t)

-----------------------------------------------------------------------------
(* What the code's comments promise and the code does not keep *)

(***************************************************************************)
(* "Two tabs cannot silently overwrite each other's snapshot"              *)
(* (persisted-bytes-store.ts); flush "refuses to overwrite when another    *)
(* writer advanced the store first" (persistent-database.ts).              *)
(***************************************************************************)
NoCommitLost == [][CommitExtends]_vars

(***************************************************************************)
(* clear "removes the stored snapshot. Used after quarantining unreadable  *)
(* bytes" (persisted-bytes-store.ts).  Nothing readable is ever cleared is *)
(* not so: a tab may clear what another has stored since the first read.   *)
(***************************************************************************)
ClearsOnlyUnreadable ==
    [][store.version > 0 /\ store'.version = 0 => ~store.readable]_vars

(***************************************************************************)
(* After "reloaded", "nothing local is left to persist, so treat           *)
(* everything known now as flushed" (local-db-flush.ts): a row of the      *)
(* working copy that counts as flushed was committed.                      *)
(***************************************************************************)
NothingLocalIsLeft ==
    \A t \in Tabs : \A row \in raw[t].rows :
        row[1] = t /\ row[2] <= flushedSeq[t] => row \in durable

(***************************************************************************)
(* "Concurrent tabs converge" (README.md): once no one writes any more,    *)
(* every ready page comes to show the stored snapshot and stays with it.   *)
(***************************************************************************)
TabsConverge ==
    <>[](\A t \in Tabs : sess[t] = "ready" => raw[t] = store.bytes)

-----------------------------------------------------------------------------
(* Liveness *)

(***************************************************************************)
(* Every write of a page that stays open is settled: flushed, reported by  *)
(* the banner, or dropped with the copy a reset closed, however other      *)
(* tabs' commits and reloads interleave (the request loop of               *)
(* local-db-flush.ts neither spins nor gets stuck).                        *)
(***************************************************************************)
WritesSettle ==
    \A t \in Tabs : \A n \in 1..MaxWrites[t] :
        mutationSeq[t] >= n ~>
            \/ flushedSeq[t] >= n
            \/ saveError[t]
            \/ dropped[t] >= n
            \/ sess[t] = "gone"

=============================================================================
