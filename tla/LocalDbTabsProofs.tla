------------------------- MODULE LocalDbTabsProofs -------------------------
(***************************************************************************)
(* Theorems about LocalDbTabs, for any set of tabs, chapters, entries and  *)
(* events and any bounds.                                                  *)
(***************************************************************************)
EXTENDS LocalDbTabs, TLAPS

-----------------------------------------------------------------------------
(***************************************************************************)
(* ProgressOrdering orders the progress of one chapter, and the resume     *)
(* metadata of one library entry.  Every merge and every guarded write     *)
(* relies on it: an order with a cycle, or with two events that each beat  *)
(* the other, would let two tabs replace each other's progress forever.    *)
(***************************************************************************)

(* No two records each win over the other; in particular a replayed event  *)
(* does not win over itself (progressOrderingWins).                        *)
THEOREM ProgressOrderingAsymmetric ==
    \A a, b \in ProgressRecord :
        ProgressOrderingWins(a, b) => ~ProgressOrderingWins(b, a)
BY DEF ProgressRecord, ProgressOrderingWins

(* Winning is transitive (progressOrderingWins): a chain of guarded writes *)
(* never ends behind where it began.                                       *)
THEOREM ProgressOrderingTransitive ==
    \A a, b, c \in ProgressRecord :
        ProgressOrderingWins(a, b) /\ ProgressOrderingWins(b, c)
            => ProgressOrderingWins(a, c)
BY DEF ProgressRecord, ProgressOrderingWins

(* Of two different records one wins (progressOrderingWins): in whichever  *)
(* order two tabs commit them, the same one stays.                         *)
THEOREM ProgressOrderingTotal ==
    \A a, b \in ProgressRecord :
        a # b => ProgressOrderingWins(a, b) \/ ProgressOrderingWins(b, a)
<1> SUFFICES ASSUME NEW a \in ProgressRecord, NEW b \in ProgressRecord,
                    ~ProgressOrderingWins(a, b), ~ProgressOrderingWins(b, a)
             PROVE  a = b
    OBVIOUS
<1>1. /\ a.timestamp = b.timestamp
      /\ a.pageIndex = b.pageIndex
      /\ a.readPercent = b.readPercent
    BY DEF ProgressRecord, ProgressOrderingWins
<1>2. a.completed = b.completed
    BY <1>1 DEF ProgressRecord, ProgressOrderingWins
<1> QED
    BY <1>1, <1>2 DEF ProgressRecord

(* The same for resume metadata that has a timestamp (libraryResumeWins).  *)
THEOREM LibraryResumeAsymmetric ==
    \A a, b \in ProgressEvent :
        LibraryResumeWins(a, b) => ~LibraryResumeWins(b, a)
BY DEF ProgressEvent, ProgressRecord, LibraryResumeWins, NoTime

(* Winning is transitive for resume metadata too (libraryResumeWins).      *)
THEOREM LibraryResumeTransitive ==
    \A a, b, c \in ProgressEvent :
        LibraryResumeWins(a, b) /\ LibraryResumeWins(b, c)
            => LibraryResumeWins(a, c)
BY DEF ProgressEvent, ProgressRecord, LibraryResumeWins, NoTime

-----------------------------------------------------------------------------
(* The order between snapshots *)

LEMMA EventFacts ==
    /\ \A e \in ProgressEvent : e \in ProgressRecord /\ e.timestamp # NoTime
    /\ NoRow \notin ProgressEvent
    /\ Absent \notin ProgressEvent
    /\ NoRow # Absent
    /\ Events \subseteq ProgressEvent
BY LocalDbAssumption DEF LocalDbAssumption, ProgressEvent

LEMMA WinsTransitive ==
    ASSUME NEW i \in Items,
           NEW a \in ProgressEvent, NEW b \in ProgressEvent,
           NEW c \in ProgressEvent,
           Wins(i, a, b), Wins(i, b, c)
    PROVE  Wins(i, a, c)
BY EventFacts, ProgressOrderingTransitive, LibraryResumeTransitive DEF Wins

LEMMA NotBehindTransitive ==
    ASSUME NEW i \in Items,
           NEW a \in Progress, NEW b \in Progress, NEW c \in Progress,
           NotBehind(i, a, b), NotBehind(i, b, c)
    PROVE  NotBehind(i, a, c)
BY EventFacts, WinsTransitive DEF NotBehind, Progress

LEMMA ExtendsReflexive ==
    ASSUME NEW a \in Bytes
    PROVE  Extends(a, a)
BY DEF Extends, NotBehind

LEMMA ExtendsTransitive ==
    ASSUME NEW a \in Bytes, NEW b \in Bytes, NEW c \in Bytes,
           Extends(a, b), Extends(b, c)
    PROVE  Extends(a, c)
<1>1. c.rows \subseteq a.rows
    BY DEF Extends
<1>2. ASSUME NEW i \in Items
      PROVE  NotBehind(i, a.progress[i], c.progress[i])
    <2>1. /\ a.progress[i] \in Progress
          /\ b.progress[i] \in Progress
          /\ c.progress[i] \in Progress
        BY DEF Bytes
    <2>2. /\ NotBehind(i, a.progress[i], b.progress[i])
          /\ NotBehind(i, b.progress[i], c.progress[i])
        BY DEF Extends
    <2> QED
        BY <2>1, <2>2, NotBehindTransitive
<1> QED
    BY <1>1, <1>2 DEF Extends

LEMMA MergedOntoExtends ==
    ASSUME NEW a \in Bytes, NEW b \in Bytes, MergedOnto(a, b)
    PROVE  Extends(a, b)
BY DEF MergedOnto, Extends

(* A merge is a snapshot. *)
LEMMA MergeType ==
    ASSUME NEW latest \in Bytes, NEW local \in Bytes
    PROVE  MergeUncommittedProgress(latest, local) \in Bytes
<1> DEFINE progress == [i \in Items |-> IF LocalWins(latest, local, i)
                                        THEN local.progress[i]
                                        ELSE latest.progress[i]]
<1>1. progress \in [Items -> Progress]
    BY DEF Bytes
<1>2. [latest EXCEPT !.progress = progress] \in Bytes
    BY <1>1 DEF Bytes
<1> QED
    BY <1>2 DEF MergeUncommittedProgress

(* What mergeUncommittedProgress does to the committed snapshot. *)
LEMMA MergeIsMergedOnto ==
    ASSUME NEW latest \in Bytes, NEW local \in Bytes
    PROVE  MergedOnto(MergeUncommittedProgress(latest, local), latest)
<1> DEFINE merged == MergeUncommittedProgress(latest, local)
<1>1. merged.rows = latest.rows
    BY DEF MergeUncommittedProgress, Bytes
<1>2. ASSUME NEW i \in Items
      PROVE  merged.progress[i] = IF LocalWins(latest, local, i)
                                  THEN local.progress[i]
                                  ELSE latest.progress[i]
    BY DEF MergeUncommittedProgress, Bytes
<1>3. ASSUME NEW i \in Items, LocalWins(latest, local, i)
      PROVE  /\ local.progress[i] \in ProgressEvent
             /\ latest.progress[i] # Absent
             /\ NotBehind(i, local.progress[i], latest.progress[i])
    <2>1. CASE latest.progress[i] = NoRow
        BY <1>3, <2>1, EventFacts DEF LocalWins, NotBehind
    <2>2. CASE latest.progress[i] \in ProgressEvent
        BY <1>3, <2>2, EventFacts
        DEF LocalWins, NotBehind, Wins, MergeProgressWins
    <2> QED
        BY <1>3, <2>1, <2>2 DEF LocalWins
<1> HIDE DEF merged
<1>4. ASSUME NEW i \in Items
      PROVE  /\ merged.progress[i] = Absent <=> latest.progress[i] = Absent
             /\ NotBehind(i, merged.progress[i], latest.progress[i])
    <2>1. CASE LocalWins(latest, local, i)
        BY <1>2, <1>3, <2>1, EventFacts
    <2>2. CASE ~LocalWins(latest, local, i)
        BY <1>2, <2>2 DEF NotBehind
    <2> QED
        BY <2>1, <2>2
<1>5. MergedOnto(merged, latest)
    BY <1>1, <1>4 DEF MergedOnto
<1> QED
    BY <1>5 DEF merged

-----------------------------------------------------------------------------
(* Types *)

LEMMA SnapshotTypes ==
    /\ Fresh \in Bytes
    /\ Seeded \in Bytes
    /\ NothingStored \in [version : Nat, readable : BOOLEAN, bytes : Bytes]
    /\ NoFlight \in Flight
BY DEF Fresh, Seeded, NothingStored, NoFlight, Flight, Bytes, Progress

(* The step of a write statement that leaves a snapshot behind it. *)
LEMMA WriteTypes ==
    ASSUME NEW b \in Bytes
    PROVE  /\ \A row \in Row : [b EXCEPT !.rows = @ \cup {row}] \in Bytes
           /\ \A i \in Items, p \in Progress :
                 [b EXCEPT !.progress[i] = p] \in Bytes
BY DEF Bytes

(* What the helpers do to the variables they set. *)
LEMMA RequestFlushTypes ==
    ASSUME TypeOK, NEW t \in Tabs, RequestFlush(t)
    PROVE  /\ target' \in [Tabs -> Nat]
           /\ saveError' \in [Tabs -> BOOLEAN]
           /\ \A u \in Tabs : target'[u] <= mutationSeq[u]
<1>0. /\ target \in [Tabs -> Nat]
      /\ saveError \in [Tabs -> BOOLEAN]
      /\ mutationSeq \in [Tabs -> Nat]
      /\ \A u \in Tabs : target[u] <= mutationSeq[u]
    BY DEF TypeOK
<1>1. CASE flushedSeq[t] < mutationSeq[t]
    <2>1. /\ target' = [target EXCEPT ![t] = mutationSeq[t]]
          /\ saveError' = saveError
        BY <1>1 DEF RequestFlush
    <2> QED
        BY <1>0, <2>1
<1>2. CASE ~(flushedSeq[t] < mutationSeq[t])
    <2>1. /\ target' = target
          /\ saveError' = [saveError EXCEPT ![t] = FALSE]
        BY <1>2 DEF RequestFlush
    <2> QED
        BY <1>0, <2>1
<1> QED
    BY <1>1, <1>2

LEMMA SettleFlushTypes ==
    ASSUME TypeOK, NEW t \in Tabs, NEW n \in Nat, n <= mutationSeq[t],
           SettleFlush(t, n)
    PROVE  /\ flushedSeq' \in [Tabs -> Nat]
           /\ saveError' \in [Tabs -> BOOLEAN]
           /\ UNCHANGED <<mutationSeq, target, timer>>
           /\ \A u \in Tabs : flushedSeq'[u] <= mutationSeq[u]
BY DEF SettleFlush, TypeOK

LEMMA RejectRequestsTypes ==
    ASSUME TypeOK, NEW t \in Tabs, RejectRequests(t)
    PROVE  /\ target' \in [Tabs -> Nat]
           /\ saveError' \in [Tabs -> BOOLEAN]
           /\ UNCHANGED <<mutationSeq, flushedSeq, timer>>
           /\ \A u \in Tabs : target'[u] <= mutationSeq[u]
BY DEF RejectRequests, TypeOK

LEMMA OnMutationTypes ==
    ASSUME TypeOK, NEW t \in Tabs, OnMutation(t)
    PROVE  /\ mutationSeq' \in [Tabs -> Nat]
           /\ timer' \in [Tabs -> BOOLEAN]
           /\ UNCHANGED <<flushedSeq, target, saveError>>
           /\ \A u \in Tabs : /\ flushedSeq[u] <= mutationSeq'[u]
                              /\ target[u] <= mutationSeq'[u]
                              /\ flight[u].seq <= mutationSeq'[u]
<1>1. \A u \in Tabs : flight[u].seq \in Nat
    BY DEF TypeOK, Flight
<1>2. /\ mutationSeq' \in [Tabs -> Nat]
      /\ \A u \in Tabs : mutationSeq[u] <= mutationSeq'[u]
    BY DEF OnMutation, TypeOK
<1>3. /\ timer' \in [Tabs -> BOOLEAN]
      /\ UNCHANGED <<flushedSeq, target, saveError>>
    BY DEF OnMutation, TypeOK
<1>4. ASSUME NEW u \in Tabs
      PROVE  /\ flushedSeq[u] <= mutationSeq'[u]
             /\ target[u] <= mutationSeq'[u]
             /\ flight[u].seq <= mutationSeq'[u]
    BY <1>1, <1>2 DEF TypeOK
<1> QED
    BY <1>2, <1>3, <1>4

LEMMA SyncFromStoreTypes ==
    ASSUME TypeOK, NEW t \in Tabs, SyncFromStore(t)
    PROVE  /\ sess' \in [Tabs -> SessionState]
           /\ raw' \in [Tabs -> Bytes]
           /\ base' \in [Tabs -> Nat]
           /\ held' \in [Tabs -> Nat]
           /\ retired' \in [Tabs -> BOOLEAN]
BY DEF SyncFromStore, TypeOK, sessionVars

LEMMA StoreWriteTypes ==
    ASSUME TypeOK, NEW b \in Bytes, StoreWrite(b)
    PROVE  /\ store' \in [version : Nat, readable : BOOLEAN, bytes : Bytes]
           /\ durable' \subseteq Row
BY DEF StoreWrite, TypeOK, Bytes

LEMMA FlightTypes ==
    ASSUME NEW f \in Flight
    PROVE  /\ f.seq \in Nat
           /\ f.bytes \in Bytes
           /\ f.expected \in Nat
           /\ f.held \in Nat
           /\ f.live \in BOOLEAN
           /\ [f EXCEPT !.live = FALSE] \in Flight
           /\ \A p \in {"read", "sync"} : [f EXCEPT !.phase = p] \in Flight
BY DEF Flight

LEMMA FlightSeqKept ==
    ASSUME NEW f \in Flight
    PROVE  /\ [f EXCEPT !.live = FALSE].seq = f.seq
           /\ \A p \in {"read", "sync"} : [f EXCEPT !.phase = p].seq = f.seq
BY DEF Flight

(***************************************************************************)
(* Every step keeps the types and the bounds on the counters.              *)
(***************************************************************************)
LEMMA TypeStep ==
    ASSUME TypeOK, [Next]_vars
    PROVE  TypeOK'
<1> USE DEF TypeOK
<1>a. CASE UNCHANGED vars
    BY <1>a DEF vars, sessionVars, coordinatorVars, historyVars
<1>1. ASSUME NEW t \in Tabs, OpenSession(t)
      PROVE  TypeOK'
    BY <1>1
    DEF OpenSession, coordinatorVars, historyVars, SessionState
<1>2. ASSUME NEW t \in Tabs, OpenRead(t)
      PROVE  TypeOK'
    BY <1>2
    DEF OpenRead, coordinatorVars, historyVars, SessionState
<1>3. ASSUME NEW t \in Tabs, OpenQuarantine(t)
      PROVE  TypeOK'
    BY <1>3
    DEF OpenQuarantine, coordinatorVars, historyVars, SessionState
<1>4. ASSUME NEW t \in Tabs, OpenClear(t)
      PROVE  TypeOK'
    BY <1>4, SnapshotTypes
    DEF OpenClear, coordinatorVars, SessionState
<1>5. ASSUME NEW t \in Tabs, OpenFails(t)
      PROVE  TypeOK'
    <2>1. RejectRequests(t) \/ UNCHANGED coordinatorVars
        BY <1>5 DEF OpenFails
    <2> QED
        BY <1>5, <2>1, RejectRequestsTypes
        DEF OpenFails, coordinatorVars, historyVars, SessionState
<1>6. ASSUME NEW t \in Tabs, BecomeReady(t)
      PROVE  TypeOK'
    BY <1>6
    DEF BecomeReady, coordinatorVars, historyVars, SessionState
<1>7. ASSUME NEW t \in Tabs, ResetSession(t)
      PROVE  TypeOK'
    <2>1. flight' \in [Tabs -> Flight]
        BY <1>7, FlightTypes DEF ResetSession
    <2>2. \A u \in Tabs : flight'[u].seq <= mutationSeq[u]
        BY <1>7, FlightSeqKept DEF ResetSession
    <2> QED
        BY <1>7, <2>1, <2>2, SnapshotTypes
        DEF ResetSession, coordinatorVars, historyVars, SessionState
<1>8. ASSUME NEW t \in Tabs, CloseTab(t)
      PROVE  TypeOK'
    <2>1. /\ flight' \in [Tabs -> Flight]
          /\ \A u \in Tabs : u # t => flight'[u] = flight[u]
          /\ flight'[t].seq = 0
        BY <1>8, SnapshotTypes DEF CloseTab, NoFlight
    <2>2. \A u \in Tabs : /\ flushedSeq'[u] <= mutationSeq'[u]
                          /\ target'[u] <= mutationSeq'[u]
                          /\ flight'[u].seq <= mutationSeq'[u]
        BY <1>8, <2>1 DEF CloseTab
    <2>3. /\ sess' \in [Tabs -> SessionState]
          /\ raw' \in [Tabs -> Bytes]
          /\ retired' \in [Tabs -> BOOLEAN]
          /\ timer' \in [Tabs -> BOOLEAN]
          /\ saveError' \in [Tabs -> BOOLEAN]
          /\ pinged' \in [Tabs -> BOOLEAN]
        BY <1>8, SnapshotTypes DEF CloseTab, SessionState
    <2>4. /\ base' \in [Tabs -> Nat]
          /\ held' \in [Tabs -> Nat]
          /\ mutationSeq' \in [Tabs -> Nat]
          /\ flushedSeq' \in [Tabs -> Nat]
          /\ target' \in [Tabs -> Nat]
        BY <1>8 DEF CloseTab
    <2> QED
        BY <1>8, <2>1, <2>2, <2>3, <2>4 DEF CloseTab, historyVars
<1>9. ASSUME NEW t \in Tabs, InsertRow(t)
      PROVE  TypeOK'
    <2>1. raw' \in [Tabs -> Bytes]
        <3>1. <<t, mutationSeq[t] + 1>> \in Row
            BY DEF Row
        <3>2. [raw[t] EXCEPT !.rows = @ \cup {<<t, mutationSeq[t] + 1>>}] \in Bytes
            BY <3>1, WriteTypes
        <3> QED
            BY <1>9, <3>2 DEF InsertRow
    <2> QED
        BY <1>9, <2>1, OnMutationTypes DEF InsertRow, historyVars
<1>10. ASSUME NEW t \in Tabs, NEW i \in Items, NEW event \in Events, PersistProgress(t, i, event)
      PROVE  TypeOK'
    <2>1. raw' \in [Tabs -> Bytes]
        <3>1. [raw[t] EXCEPT !.progress[i] = event] \in Bytes
            BY WriteTypes, EventFacts DEF Progress
        <3> QED
            BY <1>10, <3>1 DEF PersistProgress
    <2> QED
        BY <1>10, <2>1, OnMutationTypes DEF PersistProgress, historyVars
<1>11. ASSUME NEW t \in Tabs, NEW i \in Items, DeleteParent(t, i)
      PROVE  TypeOK'
    <2>1. raw' \in [Tabs -> Bytes]
        <3>1. [raw[t] EXCEPT !.progress[i] = Absent] \in Bytes
            BY WriteTypes DEF Progress
        <3> QED
            BY <1>11, <3>1 DEF DeleteParent
    <2> QED
        BY <1>11, <2>1, OnMutationTypes DEF DeleteParent, historyVars
<1>12. ASSUME NEW t \in Tabs, WriteRetired(t)
      PROVE  TypeOK'
    BY <1>12, OnMutationTypes
    DEF WriteRetired, sessionVars, historyVars
<1>13. ASSUME NEW t \in Tabs, TimerFires(t)
      PROVE  TypeOK'
    BY <1>13, RequestFlushTypes
    DEF TimerFires, sessionVars, historyVars
<1>14. ASSUME NEW t \in Tabs, AwaitFlush(t)
      PROVE  TypeOK'
    BY <1>14, RequestFlushTypes
    DEF AwaitFlush, sessionVars, historyVars
<1>15. ASSUME NEW t \in Tabs, RetryPersistence(t)
      PROVE  TypeOK'
    BY <1>15
    DEF RetryPersistence, sessionVars, historyVars
<1>16. ASSUME NEW t \in Tabs, FlushNothing(t)
      PROVE  TypeOK'
    <2>1. SettleFlush(t, mutationSeq[t])
        BY <1>16 DEF FlushNothing
    <2> QED
        BY <1>16, <2>1, SettleFlushTypes DEF FlushNothing, sessionVars, historyVars
<1>17. ASSUME NEW t \in Tabs, FlushStart(t)
      PROVE  TypeOK'
    BY <1>17
    DEF FlushStart, Flight, sessionVars, coordinatorVars, historyVars
<1>18. ASSUME NEW t \in Tabs, FlushSaved(t)
      PROVE  TypeOK'
    <2>1. /\ StoreWrite(flight[t].bytes)
          /\ SettleFlush(t, flight[t].seq)
        BY <1>18 DEF FlushSaved
    <2>2. /\ base' \in [Tabs -> Nat]
          /\ held' \in [Tabs -> Nat]
        BY <1>18 DEF FlushSaved
    <2>3. /\ flight' \in [Tabs -> Flight]
          /\ \A u \in Tabs : flight'[u].seq <= mutationSeq[u]
        BY <1>18, SnapshotTypes DEF FlushSaved, NoFlight
    <2> QED
        BY <1>18, <2>1, <2>2, <2>3, SettleFlushTypes, StoreWriteTypes, FlightTypes
        DEF FlushSaved
<1>19. ASSUME NEW t \in Tabs, FlushConflict(t)
      PROVE  TypeOK'
    BY <1>19, FlightTypes, FlightSeqKept
    DEF FlushConflict, sessionVars, coordinatorVars, historyVars
<1>20. ASSUME NEW t \in Tabs, FlushMerge(t)
      PROVE  TypeOK'
    <2> DEFINE merged == MergeUncommittedProgress(store.bytes, raw[t])
    <2>a. merged \in Bytes /\ flight[t] \in Flight /\ store.version \in Nat
        BY MergeType
    <2>b. \/ flight'[t] = [flight[t] EXCEPT !.phase = "retry", !.bytes = merged,
                                         !.expected = store.version]
          \/ flight'[t] = [flight[t] EXCEPT !.phase = "sync"]
        BY <1>20 DEF FlushMerge
    <2> HIDE DEF merged
    <2>1. flight'[t] \in Flight /\ flight'[t].seq = flight[t].seq
        <3>1. CASE flight'[t] = [flight[t] EXCEPT !.phase = "sync"]
            BY <2>a, <3>1 DEF Flight
        <3>2. CASE flight'[t] = [flight[t] EXCEPT !.phase = "retry",
                                                  !.bytes = merged,
                                                  !.expected = store.version]
            BY <2>a, <3>2 DEF Flight
        <3> QED
            BY <2>b, <3>1, <3>2
    <2>2. \A u \in Tabs : u # t => flight'[u] = flight[u]
        BY <1>20 DEF FlushMerge
    <2>3. flight' \in [Tabs -> Flight]
        BY <1>20, <2>1, <2>2 DEF FlushMerge
    <2> QED
        BY <1>20, <2>1, <2>2, <2>3
        DEF FlushMerge, sessionVars, coordinatorVars, historyVars
<1>21. ASSUME NEW t \in Tabs, FlushRetry(t)
      PROVE  TypeOK'
    <2>1. StoreWrite(flight[t].bytes)
        BY <1>21 DEF FlushRetry
    <2>2. base' \in [Tabs -> Nat]
        BY <1>21 DEF FlushRetry
    <2>3. /\ flight' \in [Tabs -> Flight]
          /\ \A u \in Tabs : flight'[u].seq <= mutationSeq[u]
        BY <1>21, FlightTypes, FlightSeqKept DEF FlushRetry
    <2> QED
        BY <1>21, <2>1, <2>2, <2>3, StoreWriteTypes, FlightTypes
        DEF FlushRetry, coordinatorVars
<1>22. ASSUME NEW t \in Tabs, FlushRetryLost(t)
      PROVE  TypeOK'
    BY <1>22, FlightTypes, FlightSeqKept
    DEF FlushRetryLost, sessionVars, coordinatorVars, historyVars
<1>23. ASSUME NEW t \in Tabs, FlushReloaded(t)
      PROVE  TypeOK'
    <2>1. SettleFlush(t, mutationSeq[t])
        BY <1>23 DEF FlushReloaded
    <2>2. SyncFromStore(t) \/ UNCHANGED sessionVars
        BY <1>23 DEF FlushReloaded
    <2>3. /\ sess' \in [Tabs -> SessionState]
          /\ raw' \in [Tabs -> Bytes]
          /\ base' \in [Tabs -> Nat]
          /\ held' \in [Tabs -> Nat]
          /\ retired' \in [Tabs -> BOOLEAN]
        BY <2>2, SyncFromStoreTypes DEF sessionVars
    <2>4. /\ flight' \in [Tabs -> Flight]
          /\ \A u \in Tabs : flight'[u].seq <= mutationSeq[u]
        BY <1>23, SnapshotTypes DEF FlushReloaded, NoFlight
    <2> QED
        BY <1>23, <2>1, <2>3, <2>4, SettleFlushTypes DEF FlushReloaded
<1>24. ASSUME NEW t \in Tabs, FlushFails(t)
      PROVE  TypeOK'
    <2>1. /\ flight' \in [Tabs -> Flight]
          /\ \A u \in Tabs : flight'[u].seq <= mutationSeq[u]
        BY <1>24, SnapshotTypes DEF FlushFails, NoFlight
    <2> QED
        BY <1>24, <2>1, RejectRequestsTypes DEF FlushFails, sessionVars, historyVars
<1>25. ASSUME NEW t \in Tabs, OnStorageEvent(t)
      PROVE  TypeOK'
    BY <1>25, SyncFromStoreTypes
    DEF OnStorageEvent, coordinatorVars, historyVars
<1>26. ASSUME NEW t \in Tabs, OnVisible(t)
      PROVE  TypeOK'
    BY <1>26, SyncFromStoreTypes
    DEF OnVisible, coordinatorVars, historyVars
<1>27. ASSUME NEW t \in Tabs, FlushRejects(t)
      PROVE  TypeOK'
    <2>1. RejectRequests(t)
        BY <1>27 DEF FlushRejects
    <2> QED
        BY <1>27, <2>1, RejectRequestsTypes
        DEF FlushRejects, sessionVars, historyVars
<1> QED
    BY <1>a, <1>1, <1>2, <1>3, <1>4, <1>5, <1>6, <1>7, <1>8, <1>9,
       <1>10, <1>11, <1>12, <1>13, <1>14, <1>15, <1>16, <1>17, <1>18,
       <1>19, <1>20, <1>21, <1>22, <1>23, <1>24, <1>25, <1>26, <1>27
    DEF Next, OpenStep, FlushStep

LEMMA TypeInit ==
    ASSUME Init
    PROVE  TypeOK
<1>1. store \in [version : Nat, readable : BOOLEAN, bytes : Bytes]
    <2>1. \/ store = NothingStored
          \/ store = [version |-> 1, readable |-> TRUE, bytes |-> Seeded]
          \/ store = [version |-> 1, readable |-> FALSE, bytes |-> Fresh]
        BY DEF Init
    <2>2. CASE store = NothingStored
        BY <2>2, SnapshotTypes
    <2>3. CASE store = [version |-> 1, readable |-> TRUE, bytes |-> Seeded]
        BY <2>3, SnapshotTypes
    <2>4. CASE store = [version |-> 1, readable |-> FALSE, bytes |-> Fresh]
        BY <2>4, SnapshotTypes
    <2> QED
        BY <2>1, <2>2, <2>3, <2>4
<1>2. /\ flight \in [Tabs -> Flight]
      /\ \A t \in Tabs : flight[t].seq = 0
    BY SnapshotTypes DEF Init, NoFlight
<1>3. /\ raw \in [Tabs -> Bytes]
      /\ sess \in [Tabs -> SessionState]
    BY SnapshotTypes DEF Init, SessionState
<1>4. /\ base \in [Tabs -> Nat]
      /\ held \in [Tabs -> Nat]
      /\ retired \in [Tabs -> BOOLEAN]
      /\ mutationSeq \in [Tabs -> Nat]
      /\ flushedSeq \in [Tabs -> Nat]
      /\ target \in [Tabs -> Nat]
    BY DEF Init
<1>5. /\ timer \in [Tabs -> BOOLEAN]
      /\ pinged \in [Tabs -> BOOLEAN]
      /\ saveError \in [Tabs -> BOOLEAN]
      /\ reloads \in [Tabs -> BOOLEAN]
      /\ faults \in Nat
      /\ durable \subseteq Row
      /\ cleared \in BOOLEAN
      /\ dropped \in [Tabs -> Nat]
    BY DEF Init
<1>6. \A t \in Tabs : /\ flushedSeq[t] <= mutationSeq[t]
                      /\ target[t] <= mutationSeq[t]
                      /\ flight[t].seq <= mutationSeq[t]
    BY <1>2 DEF Init
<1> QED
    BY <1>1, <1>2, <1>3, <1>4, <1>5, <1>6 DEF TypeOK

(***************************************************************************)
(* The types, and the flush coordinator's counters never run ahead of the  *)
(* writes (local-db-flush.ts), for any tabs and any bounds.                *)
(***************************************************************************)
THEOREM TypeCorrect == Spec => []TypeOK
BY TypeInit, TypeStep, PTL DEF Spec

-----------------------------------------------------------------------------
(* Closed sessions *)

(* What ClosedStaysClosed needs: while a session is not open there is      *)
(* nothing in it, and a flush that may touch it implies that it is open.   *)
ClosedHoldsNothing ==
    \A t \in Tabs : ~IsOpen(t) =>
        raw[t] = Fresh /\ base[t] = 0 /\ held[t] = 0 /\ ~retired[t]

LiveFlightIsOpen ==
    \A t \in Tabs : flight[t].phase # "idle" /\ flight[t].live => IsOpen(t)

ClosedInv == TypeOK /\ ClosedHoldsNothing /\ LiveFlightIsOpen

LEMMA NoFlightIdle ==
    NoFlight.phase = "idle" /\ NoFlight.seq = 0 /\ NoFlight.bytes = Fresh
BY DEF NoFlight

LEMMA ClosedStep ==
    ASSUME ClosedInv, [Next]_vars
    PROVE  ClosedHoldsNothing' /\ LiveFlightIsOpen'
<1> USE DEF ClosedInv, TypeOK, ClosedHoldsNothing, LiveFlightIsOpen, IsOpen, Flight
<1>a. CASE UNCHANGED vars
    BY <1>a DEF vars, sessionVars, coordinatorVars, historyVars
<1>1. ASSUME NEW t \in Tabs, OpenSession(t)
      PROVE  ClosedHoldsNothing' /\ LiveFlightIsOpen'
    BY <1>1
    DEF OpenSession, sessionVars, coordinatorVars, historyVars
<1>2. ASSUME NEW t \in Tabs, OpenRead(t)
      PROVE  ClosedHoldsNothing' /\ LiveFlightIsOpen'
    BY <1>2
    DEF OpenRead, sessionVars, coordinatorVars, historyVars
<1>3. ASSUME NEW t \in Tabs, OpenQuarantine(t)
      PROVE  ClosedHoldsNothing' /\ LiveFlightIsOpen'
    BY <1>3
    DEF OpenQuarantine, sessionVars, coordinatorVars, historyVars
<1>4. ASSUME NEW t \in Tabs, OpenClear(t)
      PROVE  ClosedHoldsNothing' /\ LiveFlightIsOpen'
    BY <1>4
    DEF OpenClear, sessionVars, coordinatorVars, historyVars
<1>5. ASSUME NEW t \in Tabs, OpenFails(t)
      PROVE  ClosedHoldsNothing' /\ LiveFlightIsOpen'
    BY <1>5
    DEF OpenFails, sessionVars, coordinatorVars, historyVars
<1>6. ASSUME NEW t \in Tabs, BecomeReady(t)
      PROVE  ClosedHoldsNothing' /\ LiveFlightIsOpen'
    BY <1>6
    DEF BecomeReady, sessionVars, coordinatorVars, historyVars
<1>7. ASSUME NEW t \in Tabs, ResetSession(t)
      PROVE  ClosedHoldsNothing' /\ LiveFlightIsOpen'
    BY <1>7
    DEF ResetSession, sessionVars, coordinatorVars, historyVars
<1>8. ASSUME NEW t \in Tabs, CloseTab(t)
      PROVE  ClosedHoldsNothing' /\ LiveFlightIsOpen'
    BY <1>8, NoFlightIdle
    DEF CloseTab, sessionVars, coordinatorVars, historyVars
<1>9. ASSUME NEW t \in Tabs, InsertRow(t)
      PROVE  ClosedHoldsNothing' /\ LiveFlightIsOpen'
    BY <1>9
    DEF InsertRow, sessionVars, coordinatorVars, historyVars
<1>10. ASSUME NEW t \in Tabs, NEW i \in Items, NEW event \in Events, PersistProgress(t, i, event)
      PROVE  ClosedHoldsNothing' /\ LiveFlightIsOpen'
    BY <1>10
    DEF PersistProgress, sessionVars, coordinatorVars, historyVars
<1>11. ASSUME NEW t \in Tabs, NEW i \in Items, DeleteParent(t, i)
      PROVE  ClosedHoldsNothing' /\ LiveFlightIsOpen'
    BY <1>11
    DEF DeleteParent, sessionVars, coordinatorVars, historyVars
<1>12. ASSUME NEW t \in Tabs, WriteRetired(t)
      PROVE  ClosedHoldsNothing' /\ LiveFlightIsOpen'
    BY <1>12
    DEF WriteRetired, sessionVars, coordinatorVars, historyVars
<1>13. ASSUME NEW t \in Tabs, TimerFires(t)
      PROVE  ClosedHoldsNothing' /\ LiveFlightIsOpen'
    BY <1>13
    DEF TimerFires, sessionVars, coordinatorVars, historyVars
<1>14. ASSUME NEW t \in Tabs, AwaitFlush(t)
      PROVE  ClosedHoldsNothing' /\ LiveFlightIsOpen'
    BY <1>14
    DEF AwaitFlush, sessionVars, coordinatorVars, historyVars
<1>15. ASSUME NEW t \in Tabs, RetryPersistence(t)
      PROVE  ClosedHoldsNothing' /\ LiveFlightIsOpen'
    BY <1>15
    DEF RetryPersistence, sessionVars, coordinatorVars, historyVars
<1>16. ASSUME NEW t \in Tabs, FlushNothing(t)
      PROVE  ClosedHoldsNothing' /\ LiveFlightIsOpen'
    BY <1>16
    DEF FlushNothing, sessionVars, coordinatorVars, historyVars
<1>17. ASSUME NEW t \in Tabs, FlushStart(t)
      PROVE  ClosedHoldsNothing' /\ LiveFlightIsOpen'
    BY <1>17
    DEF FlushStart, sessionVars, coordinatorVars, historyVars
<1>18. ASSUME NEW t \in Tabs, FlushSaved(t)
      PROVE  ClosedHoldsNothing' /\ LiveFlightIsOpen'
    BY <1>18, NoFlightIdle
    DEF FlushSaved, sessionVars, coordinatorVars, historyVars
<1>19. ASSUME NEW t \in Tabs, FlushConflict(t)
      PROVE  ClosedHoldsNothing' /\ LiveFlightIsOpen'
    BY <1>19
    DEF FlushConflict, sessionVars, coordinatorVars, historyVars
<1>20. ASSUME NEW t \in Tabs, FlushMerge(t)
      PROVE  ClosedHoldsNothing' /\ LiveFlightIsOpen'
    BY <1>20
    DEF FlushMerge, sessionVars, coordinatorVars, historyVars
<1>21. ASSUME NEW t \in Tabs, FlushRetry(t)
      PROVE  ClosedHoldsNothing' /\ LiveFlightIsOpen'
    BY <1>21
    DEF FlushRetry, sessionVars, coordinatorVars, historyVars
<1>22. ASSUME NEW t \in Tabs, FlushRetryLost(t)
      PROVE  ClosedHoldsNothing' /\ LiveFlightIsOpen'
    BY <1>22
    DEF FlushRetryLost, sessionVars, coordinatorVars, historyVars
<1>23. ASSUME NEW t \in Tabs, FlushReloaded(t)
      PROVE  ClosedHoldsNothing' /\ LiveFlightIsOpen'
    BY <1>23, NoFlightIdle
    DEF FlushReloaded, sessionVars, coordinatorVars, historyVars, SyncFromStore
<1>24. ASSUME NEW t \in Tabs, FlushFails(t)
      PROVE  ClosedHoldsNothing' /\ LiveFlightIsOpen'
    BY <1>24, NoFlightIdle
    DEF FlushFails, sessionVars, coordinatorVars, historyVars
<1>25. ASSUME NEW t \in Tabs, OnStorageEvent(t)
      PROVE  ClosedHoldsNothing' /\ LiveFlightIsOpen'
    BY <1>25
    DEF OnStorageEvent, sessionVars, coordinatorVars, historyVars, SyncFromStore
<1>26. ASSUME NEW t \in Tabs, OnVisible(t)
      PROVE  ClosedHoldsNothing' /\ LiveFlightIsOpen'
    BY <1>26
    DEF OnVisible, sessionVars, coordinatorVars, historyVars, SyncFromStore
<1>27. ASSUME NEW t \in Tabs, FlushRejects(t)
      PROVE  ClosedHoldsNothing' /\ LiveFlightIsOpen'
    BY <1>27
    DEF FlushRejects, sessionVars, coordinatorVars, historyVars
<1> QED
    BY <1>a, <1>1, <1>2, <1>3, <1>4, <1>5, <1>6, <1>7, <1>8, <1>9, <1>10,
       <1>11, <1>12, <1>13, <1>14, <1>15, <1>16, <1>17, <1>18, <1>19,
       <1>20, <1>21, <1>22, <1>23, <1>24, <1>25, <1>26, <1>27
    DEF Next, OpenStep, FlushStep

LEMMA ClosedInit ==
    ASSUME Init
    PROVE  ClosedInv
<1>1. ClosedHoldsNothing
    BY DEF Init, ClosedHoldsNothing
<1>2. LiveFlightIsOpen
    BY NoFlightIdle DEF Init, LiveFlightIsOpen
<1> QED
    BY <1>1, <1>2, TypeInit DEF ClosedInv

(***************************************************************************)
(* A session that was closed stays closed (persistent-database.ts), for    *)
(* any number of tabs, whatever operations were in flight.                 *)
(***************************************************************************)
THEOREM ClosedSafe == Spec => []ClosedStaysClosed
<1>1. Init => ClosedInv
    BY ClosedInit
<1>2. ClosedInv /\ [Next]_vars => ClosedInv'
    BY TypeStep, ClosedStep DEF ClosedInv
<1>3. ClosedInv => ClosedStaysClosed
    BY DEF ClosedInv, ClosedHoldsNothing, ClosedStaysClosed, IsOpen
<1> QED
    BY <1>1, <1>2, <1>3, PTL DEF Spec

-----------------------------------------------------------------------------
(* Unsaved writes *)

(* What UnsavedIsVisible needs: a write that came after the capture of the *)
(* flush in flight, which is going to take the banner down, has the timer  *)
(* or a request of its own.                                                *)
LateWritesAreWaitedFor ==
    \A t \in Tabs : flight[t].phase # "idle" =>
        /\ flushedSeq[t] < mutationSeq[t]
        /\ timer[t] \/ target[t] = mutationSeq[t] \/ flight[t].seq = mutationSeq[t]

UnsavedInv == TypeOK /\ UnsavedIsVisible /\ LateWritesAreWaitedFor

LEMMA UnsavedStep ==
    ASSUME UnsavedInv, [Next]_vars
    PROVE  UnsavedIsVisible' /\ LateWritesAreWaitedFor'
<1> USE DEF UnsavedInv, TypeOK, UnsavedIsVisible, LateWritesAreWaitedFor, Flight
<1>a. CASE UNCHANGED vars
    BY <1>a DEF vars, sessionVars, coordinatorVars, historyVars
<1>1. ASSUME NEW t \in Tabs, OpenSession(t)
      PROVE  UnsavedIsVisible' /\ LateWritesAreWaitedFor'
    BY <1>1
    DEF OpenSession, sessionVars, coordinatorVars, historyVars
<1>2. ASSUME NEW t \in Tabs, OpenRead(t)
      PROVE  UnsavedIsVisible' /\ LateWritesAreWaitedFor'
    BY <1>2
    DEF OpenRead, sessionVars, coordinatorVars, historyVars
<1>3. ASSUME NEW t \in Tabs, OpenQuarantine(t)
      PROVE  UnsavedIsVisible' /\ LateWritesAreWaitedFor'
    BY <1>3
    DEF OpenQuarantine, sessionVars, coordinatorVars, historyVars
<1>4. ASSUME NEW t \in Tabs, OpenClear(t)
      PROVE  UnsavedIsVisible' /\ LateWritesAreWaitedFor'
    BY <1>4
    DEF OpenClear, sessionVars, coordinatorVars, historyVars
<1>5. ASSUME NEW t \in Tabs, OpenFails(t)
      PROVE  UnsavedIsVisible' /\ LateWritesAreWaitedFor'
    <2>1. UNCHANGED <<flight, dropped>>
        BY <1>5 DEF OpenFails, historyVars
    <2>2. CASE flight[t].phase = "idle" /\ RejectRequests(t)
        <3>1. UnsavedIsVisible'
            BY <2>1, <2>2 DEF RejectRequests
        <3>2. LateWritesAreWaitedFor'
            BY <2>1, <2>2 DEF RejectRequests
        <3> QED
            BY <3>1, <3>2
    <2>3. CASE UNCHANGED coordinatorVars
        BY <2>1, <2>3 DEF coordinatorVars
    <2> QED
        BY <1>5, <2>2, <2>3 DEF OpenFails
<1>6. ASSUME NEW t \in Tabs, BecomeReady(t)
      PROVE  UnsavedIsVisible' /\ LateWritesAreWaitedFor'
    BY <1>6
    DEF BecomeReady, sessionVars, coordinatorVars, historyVars
<1>7. ASSUME NEW t \in Tabs, ResetSession(t)
      PROVE  UnsavedIsVisible' /\ LateWritesAreWaitedFor'
    <2>1. /\ UNCHANGED <<mutationSeq, flushedSeq, target, timer>>
          /\ saveError' = [saveError EXCEPT ![t] = FALSE]
          /\ dropped' = [dropped EXCEPT ![t] = mutationSeq[t]]
        BY <1>7 DEF ResetSession
    <2>2. \A u \in Tabs : /\ flight'[u].phase = flight[u].phase
                          /\ flight'[u].seq = flight[u].seq
        BY <1>7 DEF ResetSession
    <2>3. UnsavedIsVisible'
        BY <2>1 DEF UnsavedIsVisible
    <2>4. LateWritesAreWaitedFor'
        BY <2>1, <2>2 DEF LateWritesAreWaitedFor
    <2> QED
        BY <2>3, <2>4
<1>8. ASSUME NEW t \in Tabs, CloseTab(t)
      PROVE  UnsavedIsVisible' /\ LateWritesAreWaitedFor'
    <2>1. /\ mutationSeq' = [mutationSeq EXCEPT ![t] = 0]
          /\ flushedSeq' = [flushedSeq EXCEPT ![t] = 0]
          /\ target' = [target EXCEPT ![t] = 0]
          /\ timer' = [timer EXCEPT ![t] = FALSE]
          /\ saveError' = [saveError EXCEPT ![t] = FALSE]
          /\ dropped' = [dropped EXCEPT ![t] = 0]
        BY <1>8 DEF CloseTab
    <2>2. \A u \in Tabs : u = t => flight'[u].phase = "idle"
        BY <1>8, NoFlightIdle DEF CloseTab
    <2>3. \A u \in Tabs : u # t => flight'[u] = flight[u]
        BY <1>8 DEF CloseTab
    <2>4. UnsavedIsVisible'
        BY <2>1 DEF UnsavedIsVisible
    <2>5. LateWritesAreWaitedFor'
        BY <2>1, <2>2, <2>3 DEF LateWritesAreWaitedFor
    <2> QED
        BY <2>4, <2>5
<1>9. ASSUME NEW t \in Tabs, InsertRow(t)
      PROVE  UnsavedIsVisible' /\ LateWritesAreWaitedFor'
    BY <1>9
    DEF InsertRow, OnMutation, historyVars
<1>10. ASSUME NEW t \in Tabs, NEW i \in Items, NEW event \in Events, PersistProgress(t, i, event)
      PROVE  UnsavedIsVisible' /\ LateWritesAreWaitedFor'
    BY <1>10
    DEF PersistProgress, OnMutation, historyVars
<1>11. ASSUME NEW t \in Tabs, NEW i \in Items, DeleteParent(t, i)
      PROVE  UnsavedIsVisible' /\ LateWritesAreWaitedFor'
    BY <1>11
    DEF DeleteParent, OnMutation, historyVars
<1>12. ASSUME NEW t \in Tabs, WriteRetired(t)
      PROVE  UnsavedIsVisible' /\ LateWritesAreWaitedFor'
    BY <1>12
    DEF WriteRetired, OnMutation, historyVars
<1>13. ASSUME NEW t \in Tabs, TimerFires(t)
      PROVE  UnsavedIsVisible' /\ LateWritesAreWaitedFor'
    BY <1>13
    DEF TimerFires, RequestFlush, historyVars
<1>14. ASSUME NEW t \in Tabs, AwaitFlush(t)
      PROVE  UnsavedIsVisible' /\ LateWritesAreWaitedFor'
    BY <1>14
    DEF AwaitFlush, RequestFlush, historyVars
<1>15. ASSUME NEW t \in Tabs, RetryPersistence(t)
      PROVE  UnsavedIsVisible' /\ LateWritesAreWaitedFor'
    BY <1>15
    DEF RetryPersistence, historyVars
<1>16. ASSUME NEW t \in Tabs, FlushNothing(t)
      PROVE  UnsavedIsVisible' /\ LateWritesAreWaitedFor'
    BY <1>16
    DEF FlushNothing, SettleFlush, historyVars
<1>17. ASSUME NEW t \in Tabs, FlushStart(t)
      PROVE  UnsavedIsVisible' /\ LateWritesAreWaitedFor'
    BY <1>17
    DEF FlushStart, Waiting, coordinatorVars, historyVars
<1>18. ASSUME NEW t \in Tabs, FlushSaved(t)
      PROVE  UnsavedIsVisible' /\ LateWritesAreWaitedFor'
    BY <1>18, NoFlightIdle
    DEF FlushSaved, SettleFlush, historyVars
<1>19. ASSUME NEW t \in Tabs, FlushConflict(t)
      PROVE  UnsavedIsVisible' /\ LateWritesAreWaitedFor'
    BY <1>19
    DEF FlushConflict, sessionVars, coordinatorVars, historyVars
<1>20. ASSUME NEW t \in Tabs, FlushMerge(t)
      PROVE  UnsavedIsVisible' /\ LateWritesAreWaitedFor'
    BY <1>20
    DEF FlushMerge, sessionVars, coordinatorVars, historyVars
<1>21. ASSUME NEW t \in Tabs, FlushRetry(t)
      PROVE  UnsavedIsVisible' /\ LateWritesAreWaitedFor'
    BY <1>21
    DEF FlushRetry, sessionVars, coordinatorVars, historyVars
<1>22. ASSUME NEW t \in Tabs, FlushRetryLost(t)
      PROVE  UnsavedIsVisible' /\ LateWritesAreWaitedFor'
    BY <1>22
    DEF FlushRetryLost, sessionVars, coordinatorVars, historyVars
<1>23. ASSUME NEW t \in Tabs, FlushReloaded(t)
      PROVE  UnsavedIsVisible' /\ LateWritesAreWaitedFor'
    BY <1>23, NoFlightIdle
    DEF FlushReloaded, SettleFlush, historyVars
<1>24. ASSUME NEW t \in Tabs, FlushFails(t)
      PROVE  UnsavedIsVisible' /\ LateWritesAreWaitedFor'
    BY <1>24, NoFlightIdle
    DEF FlushFails, RejectRequests, historyVars
<1>25. ASSUME NEW t \in Tabs, OnStorageEvent(t)
      PROVE  UnsavedIsVisible' /\ LateWritesAreWaitedFor'
    BY <1>25
    DEF OnStorageEvent, sessionVars, coordinatorVars, historyVars
<1>26. ASSUME NEW t \in Tabs, OnVisible(t)
      PROVE  UnsavedIsVisible' /\ LateWritesAreWaitedFor'
    BY <1>26
    DEF OnVisible, sessionVars, coordinatorVars, historyVars
<1>27. ASSUME NEW t \in Tabs, FlushRejects(t)
      PROVE  UnsavedIsVisible' /\ LateWritesAreWaitedFor'
    BY <1>27
    DEF FlushRejects, RejectRequests, historyVars
<1> QED
    BY <1>a, <1>1, <1>2, <1>3, <1>4, <1>5, <1>6, <1>7, <1>8, <1>9, <1>10,
       <1>11, <1>12, <1>13, <1>14, <1>15, <1>16, <1>17, <1>18, <1>19,
       <1>20, <1>21, <1>22, <1>23, <1>24, <1>25, <1>26, <1>27
    DEF Next, OpenStep, FlushStep

(***************************************************************************)
(* No write is left unsaved in silence (local-db-flush.ts, flushLocalDb in *)
(* local-db.ts), for any number of tabs, writes and rejected operations.   *)
(***************************************************************************)
THEOREM UnsavedSafe == Spec => []UnsavedIsVisible
<1>1. Init => UnsavedInv
    <2> SUFFICES ASSUME Init
                 PROVE  UnsavedInv
        OBVIOUS
    <2>1. TypeOK
        BY TypeInit
    <2>2. UnsavedIsVisible
        BY DEF Init, UnsavedIsVisible
    <2>3. LateWritesAreWaitedFor
        BY NoFlightIdle DEF Init, LateWritesAreWaitedFor
    <2> QED
        BY <2>1, <2>2, <2>3 DEF UnsavedInv
<1>2. UnsavedInv /\ [Next]_vars => UnsavedInv'
    BY TypeStep, UnsavedStep DEF UnsavedInv
<1>3. UnsavedInv => UnsavedIsVisible
    BY DEF UnsavedInv
<1> QED
    BY <1>1, <1>2, <1>3, PTL DEF Spec

-----------------------------------------------------------------------------
(* Durability *)

(* What FlushedWritesAreDurable needs: the stored rows are durable, and    *)
(* the bytes of a first write hold every row the flush is going to count.  *)
StoredRowsAreDurable == store.bytes.rows \subseteq durable

CapturedRows ==
    \A t \in Tabs : flight[t].phase = "write" =>
        \A row \in raw[t].rows :
            row[1] = t /\ row[2] <= flight[t].seq /\ ~reloads[t]
                => row \in durable \cup flight[t].bytes.rows

DurableInv ==
    /\ ClosedInv
    /\ FlushedWritesAreDurable
    /\ StoredRowsAreDurable
    /\ CapturedRows

LEMMA NoRowsInFresh == Fresh.rows = {}
BY DEF Fresh

(* A sync leaves a working copy alone or makes it the stored snapshot. *)
LEMMA SyncedCopy ==
    ASSUME TypeOK, NEW t \in Tabs, SyncFromStore(t)
    PROVE  \A u \in Tabs : raw'[u] = raw[u] \/ raw'[u] = store.bytes
BY DEF SyncFromStore, TypeOK, sessionVars

LEMMA DurableStep ==
    ASSUME DurableInv, [Next]_vars
    PROVE  FlushedWritesAreDurable' /\ StoredRowsAreDurable' /\ CapturedRows'
<1> USE DEF DurableInv, FlushedWritesAreDurable, StoredRowsAreDurable, CapturedRows, ClosedInv, TypeOK, ClosedHoldsNothing, LiveFlightIsOpen, IsOpen, Flight, Bytes, Row
<1>a. CASE UNCHANGED vars
    BY <1>a DEF vars, sessionVars, coordinatorVars, historyVars
<1>1. ASSUME NEW t \in Tabs, OpenSession(t)
      PROVE  FlushedWritesAreDurable' /\ StoredRowsAreDurable' /\ CapturedRows'
    BY <1>1
    DEF OpenSession, sessionVars, coordinatorVars, historyVars
<1>2. ASSUME NEW t \in Tabs, OpenRead(t)
      PROVE  FlushedWritesAreDurable' /\ StoredRowsAreDurable' /\ CapturedRows'
    BY <1>2
    DEF OpenRead, sessionVars, coordinatorVars, historyVars
<1>3. ASSUME NEW t \in Tabs, OpenQuarantine(t)
      PROVE  FlushedWritesAreDurable' /\ StoredRowsAreDurable' /\ CapturedRows'
    BY <1>3
    DEF OpenQuarantine, sessionVars, coordinatorVars, historyVars
<1>4. ASSUME NEW t \in Tabs, OpenClear(t)
      PROVE  FlushedWritesAreDurable' /\ StoredRowsAreDurable' /\ CapturedRows'
    BY <1>4, NoFlightIdle, NoRowsInFresh
    DEF OpenClear, sessionVars, coordinatorVars, historyVars, NothingStored
<1>5. ASSUME NEW t \in Tabs, OpenFails(t)
      PROVE  FlushedWritesAreDurable' /\ StoredRowsAreDurable' /\ CapturedRows'
    BY <1>5
    DEF OpenFails, RejectRequests, coordinatorVars, historyVars
<1>6. ASSUME NEW t \in Tabs, BecomeReady(t)
      PROVE  FlushedWritesAreDurable' /\ StoredRowsAreDurable' /\ CapturedRows'
    BY <1>6
    DEF BecomeReady, sessionVars, coordinatorVars, historyVars
<1>7. ASSUME NEW t \in Tabs, ResetSession(t)
      PROVE  FlushedWritesAreDurable' /\ StoredRowsAreDurable' /\ CapturedRows'
    BY <1>7, NoFlightIdle, NoRowsInFresh
    DEF ResetSession, sessionVars, coordinatorVars, historyVars
<1>8. ASSUME NEW t \in Tabs, CloseTab(t)
      PROVE  FlushedWritesAreDurable' /\ StoredRowsAreDurable' /\ CapturedRows'
    BY <1>8, NoFlightIdle, NoRowsInFresh
    DEF CloseTab, sessionVars, coordinatorVars, historyVars
<1>9. ASSUME NEW t \in Tabs, InsertRow(t)
      PROVE  FlushedWritesAreDurable' /\ StoredRowsAreDurable' /\ CapturedRows'
    BY <1>9
    DEF InsertRow, OnMutation, sessionVars, historyVars
<1>10. ASSUME NEW t \in Tabs, NEW i \in Items, NEW event \in Events, PersistProgress(t, i, event)
      PROVE  FlushedWritesAreDurable' /\ StoredRowsAreDurable' /\ CapturedRows'
    BY <1>10
    DEF PersistProgress, OnMutation, sessionVars, historyVars
<1>11. ASSUME NEW t \in Tabs, NEW i \in Items, DeleteParent(t, i)
      PROVE  FlushedWritesAreDurable' /\ StoredRowsAreDurable' /\ CapturedRows'
    BY <1>11
    DEF DeleteParent, OnMutation, sessionVars, historyVars
<1>12. ASSUME NEW t \in Tabs, WriteRetired(t)
      PROVE  FlushedWritesAreDurable' /\ StoredRowsAreDurable' /\ CapturedRows'
    BY <1>12
    DEF WriteRetired, OnMutation, sessionVars, historyVars
<1>13. ASSUME NEW t \in Tabs, TimerFires(t)
      PROVE  FlushedWritesAreDurable' /\ StoredRowsAreDurable' /\ CapturedRows'
    BY <1>13
    DEF TimerFires, sessionVars, historyVars
<1>14. ASSUME NEW t \in Tabs, AwaitFlush(t)
      PROVE  FlushedWritesAreDurable' /\ StoredRowsAreDurable' /\ CapturedRows'
    BY <1>14
    DEF AwaitFlush, sessionVars, historyVars
<1>15. ASSUME NEW t \in Tabs, RetryPersistence(t)
      PROVE  FlushedWritesAreDurable' /\ StoredRowsAreDurable' /\ CapturedRows'
    BY <1>15
    DEF RetryPersistence, sessionVars, coordinatorVars, historyVars
<1>16. ASSUME NEW t \in Tabs, FlushNothing(t)
      PROVE  FlushedWritesAreDurable' /\ StoredRowsAreDurable' /\ CapturedRows'
    BY <1>16, NoFlightIdle, NoRowsInFresh
    DEF FlushNothing, SettleFlush, sessionVars, historyVars
<1>17. ASSUME NEW t \in Tabs, FlushStart(t)
      PROVE  FlushedWritesAreDurable' /\ StoredRowsAreDurable' /\ CapturedRows'
    BY <1>17
    DEF FlushStart, sessionVars, coordinatorVars, historyVars
<1>18. ASSUME NEW t \in Tabs, FlushSaved(t)
      PROVE  FlushedWritesAreDurable' /\ StoredRowsAreDurable' /\ CapturedRows'
    BY <1>18, NoFlightIdle, NoRowsInFresh
    DEF FlushSaved, SettleFlush, sessionVars, historyVars, StoreWrite
<1>19. ASSUME NEW t \in Tabs, FlushConflict(t)
      PROVE  FlushedWritesAreDurable' /\ StoredRowsAreDurable' /\ CapturedRows'
    BY <1>19
    DEF FlushConflict, sessionVars, coordinatorVars, historyVars
<1>20. ASSUME NEW t \in Tabs, FlushMerge(t)
      PROVE  FlushedWritesAreDurable' /\ StoredRowsAreDurable' /\ CapturedRows'
    BY <1>20
    DEF FlushMerge, sessionVars, coordinatorVars, historyVars
<1>21. ASSUME NEW t \in Tabs, FlushRetry(t)
      PROVE  FlushedWritesAreDurable' /\ StoredRowsAreDurable' /\ CapturedRows'
    BY <1>21
    DEF FlushRetry, StoreWrite, coordinatorVars, historyVars
<1>22. ASSUME NEW t \in Tabs, FlushRetryLost(t)
      PROVE  FlushedWritesAreDurable' /\ StoredRowsAreDurable' /\ CapturedRows'
    BY <1>22
    DEF FlushRetryLost, sessionVars, coordinatorVars, historyVars
<1>23. ASSUME NEW t \in Tabs, FlushReloaded(t)
      PROVE  FlushedWritesAreDurable' /\ StoredRowsAreDurable' /\ CapturedRows'
    BY <1>23, NoFlightIdle, NoRowsInFresh
    DEF FlushReloaded, SettleFlush, sessionVars, historyVars, SyncFromStore
<1>24. ASSUME NEW t \in Tabs, FlushFails(t)
      PROVE  FlushedWritesAreDurable' /\ StoredRowsAreDurable' /\ CapturedRows'
    BY <1>24, NoFlightIdle, NoRowsInFresh
    DEF FlushFails, RejectRequests, sessionVars, historyVars
<1>25. ASSUME NEW t \in Tabs, OnStorageEvent(t)
      PROVE  FlushedWritesAreDurable' /\ StoredRowsAreDurable' /\ CapturedRows'
    <2>1. \A u \in Tabs : raw'[u] = raw[u] \/ raw'[u] = store.bytes
        BY <1>25, SyncedCopy DEF OnStorageEvent
    <2>2. UNCHANGED <<store, flight, flushedSeq, reloads, durable>>
        BY <1>25 DEF OnStorageEvent, coordinatorVars, historyVars
    <2> QED
        BY <2>1, <2>2
<1>26. ASSUME NEW t \in Tabs, OnVisible(t)
      PROVE  FlushedWritesAreDurable' /\ StoredRowsAreDurable' /\ CapturedRows'
    <2>1. \A u \in Tabs : raw'[u] = raw[u] \/ raw'[u] = store.bytes
        BY <1>26, SyncedCopy DEF OnVisible
    <2>2. UNCHANGED <<store, flight, flushedSeq, reloads, durable>>
        BY <1>26 DEF OnVisible, coordinatorVars, historyVars
    <2> QED
        BY <2>1, <2>2
<1>27. ASSUME NEW t \in Tabs, FlushRejects(t)
      PROVE  FlushedWritesAreDurable' /\ StoredRowsAreDurable' /\ CapturedRows'
    BY <1>27
    DEF FlushRejects, RejectRequests, sessionVars, historyVars
<1> QED
    BY <1>a, <1>1, <1>2, <1>3, <1>4, <1>5, <1>6, <1>7, <1>8, <1>9, <1>10,
       <1>11, <1>12, <1>13, <1>14, <1>15, <1>16, <1>17, <1>18, <1>19,
       <1>20, <1>21, <1>22, <1>23, <1>24, <1>25, <1>26, <1>27
    DEF Next, OpenStep, FlushStep

(***************************************************************************)
(* A row counted as flushed was committed, until a flush of the tab        *)
(* reports "reloaded" (local-db-flush.ts, persistent-database.ts), for any *)
(* number of tabs and writes, with syncs, resets and failures in between.  *)
(***************************************************************************)
THEOREM DurableSafe == Spec => []FlushedWritesAreDurable
<1>1. Init => DurableInv
    <2> SUFFICES ASSUME Init
                 PROVE  DurableInv
        OBVIOUS
    <2>1. FlushedWritesAreDurable
        BY NoRowsInFresh DEF Init, FlushedWritesAreDurable
    <2>2. StoredRowsAreDurable
        BY DEF Init, StoredRowsAreDurable, NothingStored, Fresh, Seeded
    <2>3. CapturedRows
        BY NoFlightIdle DEF Init, CapturedRows
    <2> QED
        BY <2>1, <2>2, <2>3, ClosedInit DEF DurableInv
<1>2. DurableInv /\ [Next]_vars => DurableInv'
    BY TypeStep, ClosedStep, DurableStep DEF DurableInv, ClosedInv
<1>3. DurableInv => FlushedWritesAreDurable
    BY DEF DurableInv
<1> QED
    BY <1>1, <1>2, <1>3, PTL DEF Spec

-----------------------------------------------------------------------------
(* Sessions and the store *)

TracksStore(t) ==
    CopyTracksStore(t) /\ WriteTracksStore(t) /\ RetryTracksStore(t)

TrackInv == ClosedInv /\ (~cleared => \A t \in Tabs : TracksStore(t))

(* A tab goes on tracking a store that nobody wrote when its working copy  *)
(* stays and its flush stays or is past its writes.                        *)
LEMMA TrackUnchanged ==
    ASSUME NEW u \in Tabs, TracksStore(u), IsOpen(u)' => IsOpen(u),
           UNCHANGED <<store, base[u], held[u], raw[u]>>,
           \/ UNCHANGED flight[u]
           \/ flight'[u].phase \notin {"write", "retry"}
    PROVE  TracksStore(u)'
BY DEF TracksStore, CopyTracksStore, WriteTracksStore, RetryTracksStore,
       IsOpen, Extends, MergedOnto, NotBehind, Wins

(* When another tab commits, a tab is left behind the stored version. *)
LEMMA TrackOvertaken ==
    ASSUME TypeOK, TypeOK', NEW u \in Tabs, TracksStore(u),
           UNCHANGED <<base[u], held[u], raw[u], flight[u]>>,
           store'.version = store.version + 1
    PROVE  TracksStore(u)'
<1>1. /\ base[u] \in Nat /\ held[u] \in Nat /\ flight[u] \in Flight
      /\ store.version \in Nat
    BY DEF TypeOK
<1>2. CopyTracksStore(u)'
    BY <1>1 DEF TracksStore, CopyTracksStore
<1>3. WriteTracksStore(u)'
    BY <1>1 DEF TracksStore, WriteTracksStore, Flight, Extends, NotBehind, Wins
<1>4. RetryTracksStore(u)'
    BY <1>1 DEF TracksStore, RetryTracksStore, Flight
<1> QED
    BY <1>2, <1>3, <1>4 DEF TracksStore

(* A write statement leaves a working copy that extends the one before. *)
LEMMA WriteExtends ==
    /\ \A b \in Bytes : \A row : Extends([b EXCEPT !.rows = @ \cup {row}], b)
    /\ \A b \in Bytes, i \in Items :
         Extends([b EXCEPT !.progress[i] = Absent], b)
    /\ \A b \in Bytes, i \in Items, e \in ProgressEvent :
         NotBehind(i, e, b.progress[i])
             => Extends([b EXCEPT !.progress[i] = e], b)
BY DEF Extends, NotBehind, Bytes

(* A working copy that only gained something goes on tracking the store. *)
LEMMA TrackWrite ==
    ASSUME TypeOK, TypeOK', NEW u \in Tabs, TracksStore(u),
           UNCHANGED <<store, base[u], held[u], sess[u], flight[u]>>,
           Extends(raw'[u], raw[u])
    PROVE  TracksStore(u)'
<1>1. /\ raw[u] \in Bytes /\ raw'[u] \in Bytes /\ store.bytes \in Bytes
      /\ flight[u].bytes \in Bytes
    BY DEF TypeOK, Flight
<1>2. /\ Extends(raw[u], store.bytes) => Extends(raw'[u], store.bytes)
      /\ Extends(raw[u], flight[u].bytes) => Extends(raw'[u], flight[u].bytes)
    BY <1>1, ExtendsTransitive
<1>3. CopyTracksStore(u)'
    BY <1>2 DEF TracksStore, CopyTracksStore, IsOpen, Extends, NotBehind, Wins
<1>4. WriteTracksStore(u)'
    BY <1>2 DEF TracksStore, WriteTracksStore, Extends, NotBehind, Wins
<1>5. RetryTracksStore(u)'
    BY DEF TracksStore, RetryTracksStore, MergedOnto, NotBehind, Wins
<1> QED
    BY <1>3, <1>4, <1>5 DEF TracksStore

(* So does one that was replaced by the stored snapshot. *)
LEMMA TrackSync ==
    ASSUME TypeOK, TypeOK', NEW t \in Tabs, NEW u \in Tabs,
           TracksStore(u), SyncFromStore(t), UNCHANGED store,
           \/ UNCHANGED flight[u]
           \/ flight'[u].phase \notin {"write", "retry"}
    PROVE  TracksStore(u)'
<1>1. CASE UNCHANGED sessionVars \/ u # t
    <2>1. UNCHANGED <<base[u], held[u], raw[u], sess[u]>>
        BY <1>1 DEF SyncFromStore, sessionVars, TypeOK
    <2> QED
        BY <2>1, TrackUnchanged DEF IsOpen
<1>2. CASE ~UNCHANGED sessionVars /\ u = t
    <2>1. /\ raw'[u] = store.bytes
          /\ base'[u] = store.version
          /\ held'[u] = store.version
          /\ store.version # base[u]
        BY <1>2 DEF SyncFromStore, TypeOK
    <2>2. CopyTracksStore(u)'
        BY <2>1, ExtendsReflexive DEF CopyTracksStore, TypeOK, Extends, NotBehind, Wins
    <2>3. WriteTracksStore(u)'
        <3>1. /\ base[u] \in Nat /\ store.version \in Nat
              /\ flight[u].expected \in Nat
            BY DEF TypeOK, Flight
        <3>2. base[u] < store.version
            BY <2>1, <3>1 DEF TracksStore, CopyTracksStore
        <3>3. CASE flight'[u].phase # "write"
            BY <3>3 DEF WriteTracksStore
        <3>4. CASE UNCHANGED flight[u] /\ flight[u].phase = "write"
            <4>1. flight[u].live => flight[u].expected < base'[u]
                BY <2>1, <3>1, <3>2, <3>4 DEF TracksStore, WriteTracksStore
            <4> QED
                BY <2>1, <3>1, <3>4, <4>1
                DEF TracksStore, WriteTracksStore, Extends, NotBehind, Wins
        <3> QED
            BY <3>3, <3>4
    <2>4. RetryTracksStore(u)'
        BY DEF TracksStore, RetryTracksStore, MergedOnto, NotBehind, Wins
    <2> QED
        BY <2>2, <2>3, <2>4 DEF TracksStore
<1> QED
    BY <1>1, <1>2

LEMMA TrackStep ==
    ASSUME ClosedInv, TypeOK', [Next]_vars,
           NEW u \in Tabs, TracksStore(u), ~cleared'
    PROVE  TracksStore(u)'
<1> USE DEF ClosedInv
<1>a. CASE UNCHANGED vars
    BY <1>a, TrackUnchanged DEF vars, sessionVars, IsOpen
<1>1. ASSUME NEW t \in Tabs, OpenSession(t)
      PROVE  TracksStore(u)'
    <2>1. UNCHANGED <<store, base[u], held[u], raw[u]>>
        BY <1>1 DEF OpenSession, sessionVars
    <2>2. UNCHANGED flight[u] \/ flight'[u].phase \notin {"write", "retry"}
        BY <1>1, NoFlightIdle DEF OpenSession, TypeOK, Flight
    <2>3. IsOpen(u)' => IsOpen(u)
        BY <1>1 DEF OpenSession, IsOpen, TypeOK, sessionVars
    <2> QED
        BY <2>1, <2>2, <2>3, TrackUnchanged
<1>2. ASSUME NEW t \in Tabs, OpenRead(t)
      PROVE  TracksStore(u)'
    <2>1. CASE u = t
        <3>1. /\ CopyTracksStore(u)'
            BY <1>2, <2>1, ExtendsReflexive
            DEF OpenRead, CopyTracksStore, TypeOK, Extends, NotBehind, Wins
        <3>2. flight[u].phase = "idle" \/ ~flight[u].live
            BY <1>2, <2>1 DEF OpenRead, LiveFlightIsOpen, IsOpen
        <3>3. WriteTracksStore(u)'
            BY <1>2, <3>2
            DEF OpenRead, TracksStore, WriteTracksStore, Extends, NotBehind, Wins
        <3>4. RetryTracksStore(u)'
            BY <1>2
            DEF OpenRead, TracksStore, RetryTracksStore, MergedOnto, NotBehind, Wins
        <3> QED
            BY <3>1, <3>3, <3>4 DEF TracksStore
    <2>2. CASE u # t
        BY <1>2, <2>2, TrackUnchanged DEF OpenRead, TypeOK, IsOpen
    <2> QED
        BY <2>1, <2>2
<1>3. ASSUME NEW t \in Tabs, OpenQuarantine(t)
      PROVE  TracksStore(u)'
    <2>1. UNCHANGED <<store, base[u], held[u], raw[u]>>
        BY <1>3 DEF OpenQuarantine, sessionVars
    <2>2. UNCHANGED flight[u] \/ flight'[u].phase \notin {"write", "retry"}
        BY <1>3, NoFlightIdle DEF OpenQuarantine, TypeOK, Flight
    <2>3. IsOpen(u)' => IsOpen(u)
        BY <1>3 DEF OpenQuarantine, IsOpen, TypeOK, sessionVars
    <2> QED
        BY <2>1, <2>2, <2>3, TrackUnchanged
<1>4. ASSUME NEW t \in Tabs, OpenClear(t)
      PROVE  TracksStore(u)'
    BY <1>4 DEF OpenClear
<1>5. ASSUME NEW t \in Tabs, OpenFails(t)
      PROVE  TracksStore(u)'
    <2>1. UNCHANGED <<store, base[u], held[u], raw[u]>>
        BY <1>5 DEF OpenFails, sessionVars
    <2>2. UNCHANGED flight[u] \/ flight'[u].phase \notin {"write", "retry"}
        BY <1>5, NoFlightIdle DEF OpenFails, TypeOK, Flight
    <2>3. IsOpen(u)' => IsOpen(u)
        BY <1>5 DEF OpenFails, IsOpen, TypeOK, sessionVars
    <2> QED
        BY <2>1, <2>2, <2>3, TrackUnchanged
<1>6. ASSUME NEW t \in Tabs, BecomeReady(t)
      PROVE  TracksStore(u)'
    <2>1. UNCHANGED <<store, base[u], held[u], raw[u]>>
        BY <1>6 DEF BecomeReady, sessionVars
    <2>2. UNCHANGED flight[u] \/ flight'[u].phase \notin {"write", "retry"}
        BY <1>6, NoFlightIdle DEF BecomeReady, TypeOK, Flight
    <2>3. IsOpen(u)' => IsOpen(u)
        BY <1>6 DEF BecomeReady, IsOpen, TypeOK, sessionVars
    <2> QED
        BY <2>1, <2>2, <2>3, TrackUnchanged
<1>7. ASSUME NEW t \in Tabs, ResetSession(t)
      PROVE  TracksStore(u)'
    <2>1. CASE u = t
        <3>1. /\ ~IsOpen(u)'
              /\ base'[u] = 0
              /\ held'[u] = 0
              /\ flight[u] \in Flight
              /\ store' = store
            BY <1>7, <2>1 DEF ResetSession, IsOpen, TypeOK
        <3>2. flight'[u] = flight[u] \/ flight'[u] = [flight[u] EXCEPT !.live = FALSE]
            BY <1>7, <2>1 DEF ResetSession, TypeOK
        <3>3. flight'[u].phase # "idle" => ~flight'[u].live
            BY <1>7, <2>1 DEF ResetSession, TypeOK, Flight
        <3>4. CopyTracksStore(u)'
            BY <3>1 DEF CopyTracksStore, TypeOK, IsOpen
        <3>5. /\ flight'[u].phase = flight[u].phase
              /\ flight'[u].held = flight[u].held
              /\ flight'[u].expected = flight[u].expected
              /\ flight'[u].bytes = flight[u].bytes
            BY <3>1, <3>2 DEF Flight
        <3>6. WriteTracksStore(u)'
            BY <3>1, <3>3, <3>5
            DEF TracksStore, WriteTracksStore, Extends, NotBehind, Wins
        <3>7. RetryTracksStore(u)'
            BY <3>1, <3>5
            DEF TracksStore, RetryTracksStore, MergedOnto, NotBehind, Wins
        <3> QED
            BY <3>4, <3>6, <3>7 DEF TracksStore
    <2>2. CASE u # t
        BY <1>7, <2>2, TrackUnchanged DEF ResetSession, TypeOK, IsOpen
    <2> QED
        BY <2>1, <2>2
<1>8. ASSUME NEW t \in Tabs, CloseTab(t)
      PROVE  TracksStore(u)'
    <2>1. CASE u = t
        BY <1>8, <2>1, NoFlightIdle
        DEF CloseTab, TracksStore, CopyTracksStore, WriteTracksStore,
            RetryTracksStore, IsOpen, TypeOK
    <2>2. CASE u # t
        BY <1>8, <2>2, TrackUnchanged DEF CloseTab, TypeOK, IsOpen
    <2> QED
        BY <2>1, <2>2
<1>9. ASSUME NEW t \in Tabs, InsertRow(t)
      PROVE  TracksStore(u)'
    <2>1. u = t => raw'[u] = [raw[u] EXCEPT !.rows = @ \cup {<<t, mutationSeq[t] + 1>>}]
        BY <1>9 DEF InsertRow, TypeOK
    <2>2. u # t => raw'[u] = raw[u]
        BY <1>9 DEF InsertRow, TypeOK
    <2>3. raw[u] \in Bytes
        BY DEF TypeOK
    <2>4. Extends(raw'[u], raw[u])
        <3>1. CASE u = t
            BY <2>1, <2>3, <3>1 DEF Extends, NotBehind, Bytes
        <3>2. CASE u # t
            BY <2>2, <2>3, <3>2, ExtendsReflexive
        <3> QED
            BY <3>1, <3>2
    <2> QED
        BY <1>9, <2>4, TrackWrite DEF InsertRow
<1>10. ASSUME NEW t \in Tabs, NEW i \in Items, NEW event \in Events, PersistProgress(t, i, event)
      PROVE  TracksStore(u)'
    <2>1. u = t => raw'[u] = [raw[u] EXCEPT !.progress[i] = event]
        BY <1>10 DEF PersistProgress, TypeOK
    <2>2. NotBehind(i, event, raw[t].progress[i])
        BY <1>10, EventFacts
        DEF PersistProgress, NotBehind, Wins, AcceptChapterReadState
    <2>3. u # t => raw'[u] = raw[u]
        BY <1>10 DEF PersistProgress, TypeOK
    <2>4. event \in ProgressEvent
        BY EventFacts
    <2>5. Extends(raw'[u], raw[u])
        <3>1. raw[u] \in Bytes
            BY DEF TypeOK
        <3>2. CASE u = t
            <4>1. NotBehind(i, event, raw[u].progress[i])
                BY <2>2, <3>2
            <4>2. Extends([raw[u] EXCEPT !.progress[i] = event], raw[u])
                BY <2>4, <3>1, <4>1, WriteExtends
            <4> QED
                BY <2>1, <3>2, <4>2
        <3>3. CASE u # t
            BY <2>3, <3>1, <3>3, ExtendsReflexive
        <3> QED
            BY <3>2, <3>3
    <2> QED
        BY <1>10, <2>5, TrackWrite DEF PersistProgress
<1>11. ASSUME NEW t \in Tabs, NEW i \in Items, DeleteParent(t, i)
      PROVE  TracksStore(u)'
    <2>1. u = t => raw'[u] = [raw[u] EXCEPT !.progress[i] = Absent]
        BY <1>11 DEF DeleteParent, TypeOK
    <2>2. u # t => raw'[u] = raw[u]
        BY <1>11 DEF DeleteParent, TypeOK
    <2>3. raw[u] \in Bytes
        BY DEF TypeOK
    <2>4. Extends(raw'[u], raw[u])
        <3>1. CASE u = t
            BY <2>1, <2>3, <3>1 DEF Extends, NotBehind, Bytes
        <3>2. CASE u # t
            BY <2>2, <2>3, <3>2, ExtendsReflexive
        <3> QED
            BY <3>1, <3>2
    <2> QED
        BY <1>11, <2>4, TrackWrite DEF DeleteParent
<1>12. ASSUME NEW t \in Tabs, WriteRetired(t)
      PROVE  TracksStore(u)'
    <2>1. UNCHANGED <<store, base[u], held[u], raw[u]>>
        BY <1>12 DEF WriteRetired, sessionVars
    <2>2. UNCHANGED flight[u] \/ flight'[u].phase \notin {"write", "retry"}
        BY <1>12, NoFlightIdle DEF WriteRetired, TypeOK, Flight
    <2>3. IsOpen(u)' => IsOpen(u)
        BY <1>12 DEF WriteRetired, IsOpen, TypeOK, sessionVars
    <2> QED
        BY <2>1, <2>2, <2>3, TrackUnchanged
<1>13. ASSUME NEW t \in Tabs, TimerFires(t)
      PROVE  TracksStore(u)'
    <2>1. UNCHANGED <<store, base[u], held[u], raw[u]>>
        BY <1>13 DEF TimerFires, sessionVars
    <2>2. UNCHANGED flight[u] \/ flight'[u].phase \notin {"write", "retry"}
        BY <1>13, NoFlightIdle DEF TimerFires, TypeOK, Flight
    <2>3. IsOpen(u)' => IsOpen(u)
        BY <1>13 DEF TimerFires, IsOpen, TypeOK, sessionVars
    <2> QED
        BY <2>1, <2>2, <2>3, TrackUnchanged
<1>14. ASSUME NEW t \in Tabs, AwaitFlush(t)
      PROVE  TracksStore(u)'
    <2>1. UNCHANGED <<store, base[u], held[u], raw[u]>>
        BY <1>14 DEF AwaitFlush, sessionVars
    <2>2. UNCHANGED flight[u] \/ flight'[u].phase \notin {"write", "retry"}
        BY <1>14, NoFlightIdle DEF AwaitFlush, TypeOK, Flight
    <2>3. IsOpen(u)' => IsOpen(u)
        BY <1>14 DEF AwaitFlush, IsOpen, TypeOK, sessionVars
    <2> QED
        BY <2>1, <2>2, <2>3, TrackUnchanged
<1>15. ASSUME NEW t \in Tabs, RetryPersistence(t)
      PROVE  TracksStore(u)'
    <2>1. UNCHANGED <<store, base[u], held[u], raw[u]>>
        BY <1>15 DEF RetryPersistence, sessionVars
    <2>2. UNCHANGED flight[u] \/ flight'[u].phase \notin {"write", "retry"}
        BY <1>15, NoFlightIdle DEF RetryPersistence, TypeOK, Flight
    <2>3. IsOpen(u)' => IsOpen(u)
        BY <1>15 DEF RetryPersistence, IsOpen, TypeOK, sessionVars
    <2> QED
        BY <2>1, <2>2, <2>3, TrackUnchanged
<1>16. ASSUME NEW t \in Tabs, FlushNothing(t)
      PROVE  TracksStore(u)'
    <2>1. UNCHANGED <<store, base[u], held[u], raw[u]>>
        BY <1>16 DEF FlushNothing, sessionVars
    <2>2. UNCHANGED flight[u] \/ flight'[u].phase \notin {"write", "retry"}
        BY <1>16, NoFlightIdle DEF FlushNothing, TypeOK, Flight
    <2>3. IsOpen(u)' => IsOpen(u)
        BY <1>16 DEF FlushNothing, IsOpen, TypeOK, sessionVars
    <2> QED
        BY <2>1, <2>2, <2>3, TrackUnchanged
<1>17. ASSUME NEW t \in Tabs, FlushStart(t)
      PROVE  TracksStore(u)'
    <2>1. CASE u = t
        <3>1. /\ flight'[u].phase = "write"
              /\ flight'[u].bytes = raw[u]
              /\ flight'[u].expected = base[u]
              /\ flight'[u].held = held[u]
              /\ UNCHANGED <<store, raw, base, held, sess>>
              /\ IsOpen(u)
            BY <1>17, <2>1 DEF FlushStart, TypeOK, sessionVars
        <3>2. CopyTracksStore(u)'
            BY <3>1 DEF TracksStore, CopyTracksStore, IsOpen, Extends, NotBehind, Wins
        <3>3. WriteTracksStore(u)'
            BY <3>1, ExtendsReflexive
            DEF TracksStore, CopyTracksStore, WriteTracksStore, TypeOK,
                Extends, NotBehind, Wins
        <3>4. RetryTracksStore(u)'
            BY <3>1 DEF RetryTracksStore
        <3> QED
            BY <3>2, <3>3, <3>4 DEF TracksStore
    <2>2. CASE u # t
        BY <1>17, <2>2, TrackUnchanged DEF FlushStart, TypeOK, IsOpen, sessionVars
    <2> QED
        BY <2>1, <2>2
<1>18. ASSUME NEW t \in Tabs, FlushSaved(t)
      PROVE  TracksStore(u)'
    <2>1. /\ store'.version = store.version + 1
          /\ store'.bytes = flight[t].bytes
          /\ flight[t].expected = store.version
        BY <1>18 DEF FlushSaved, StoreWrite, Accepts
    <2>2. CASE u = t
        <3>1. flight'[u].phase = "idle"
            BY <1>18, <2>2, NoFlightIdle DEF FlushSaved, TypeOK
        <3>2. /\ base[u] \in Nat /\ held[u] \in Nat /\ store.version \in Nat
              /\ held[u] <= base[u] /\ base[u] <= store.version
            BY DEF TypeOK, TracksStore, CopyTracksStore
        <3>3. CASE flight[t].live /\ base[t] = flight[t].expected
            <4>1. /\ base'[u] = store.version + 1
                  /\ held'[u] = store.version + 1
                  /\ raw'[u] = raw[u]
                BY <1>18, <2>2, <3>3 DEF FlushSaved, TypeOK
            <4>2. Extends(raw[u], flight[t].bytes)
                BY <1>18, <2>2, <3>3 DEF FlushSaved, TracksStore, WriteTracksStore
            <4> QED
                BY <2>1, <3>1, <3>2, <4>1, <4>2
                DEF TracksStore, CopyTracksStore, WriteTracksStore,
                    RetryTracksStore, Extends, NotBehind, Wins
        <3>4. CASE ~(flight[t].live /\ base[t] = flight[t].expected)
            <4>1. /\ held'[u] = held[u]
                  /\ base'[u] \in {base[u], store.version + 1}
                BY <1>18, <2>2, <3>4 DEF FlushSaved, TypeOK
            <4> QED
                BY <2>1, <3>1, <3>2, <4>1
                DEF TracksStore, CopyTracksStore, WriteTracksStore,
                    RetryTracksStore
        <3> QED
            BY <3>3, <3>4
    <2>3. CASE u # t
        <3>1. UNCHANGED <<base[u], held[u], raw[u], flight[u]>>
            BY <1>18, <2>3 DEF FlushSaved, TypeOK
        <3> QED
            BY <2>1, <3>1, TrackOvertaken
    <2> QED
        BY <2>2, <2>3
<1>19. ASSUME NEW t \in Tabs, FlushConflict(t)
      PROVE  TracksStore(u)'
    <2>1. UNCHANGED <<store, base[u], held[u], raw[u]>>
        BY <1>19 DEF FlushConflict, sessionVars
    <2>2. UNCHANGED flight[u] \/ flight'[u].phase \notin {"write", "retry"}
        BY <1>19, NoFlightIdle DEF FlushConflict, TypeOK, Flight
    <2>3. IsOpen(u)' => IsOpen(u)
        BY <1>19 DEF FlushConflict, IsOpen, TypeOK, sessionVars
    <2> QED
        BY <2>1, <2>2, <2>3, TrackUnchanged
<1>20. ASSUME NEW t \in Tabs, FlushMerge(t)
      PROVE  TracksStore(u)'
    <2>1. CASE u = t /\ flight'[u].phase = "retry"
        <3>1. /\ flight'[u].bytes = MergeUncommittedProgress(store.bytes, raw[t])
              /\ flight'[u].expected = store.version
              /\ UNCHANGED <<store, raw, base, held, sess>>
            BY <1>20, <2>1 DEF FlushMerge, TypeOK, Flight, sessionVars
        <3>2. MergedOnto(flight'[u].bytes, store.bytes)
            BY <3>1, MergeIsMergedOnto DEF TypeOK
        <3>3. CopyTracksStore(u)'
            BY <3>1 DEF TracksStore, CopyTracksStore, IsOpen, Extends, NotBehind, Wins
        <3>4. WriteTracksStore(u)'
            BY <2>1 DEF WriteTracksStore
        <3>5. RetryTracksStore(u)'
            BY <3>1, <3>2 DEF RetryTracksStore, TypeOK, MergedOnto, NotBehind, Wins
        <3> QED
            BY <3>3, <3>4, <3>5 DEF TracksStore
    <2>2. CASE u = t /\ flight'[u].phase # "retry"
        <3>1. flight'[u].phase \notin {"write", "retry"}
            BY <1>20, <2>2 DEF FlushMerge, TypeOK, Flight
        <3> QED
            BY <1>20, <3>1, TrackUnchanged DEF FlushMerge, IsOpen, sessionVars
    <2>3. CASE u # t
        BY <1>20, <2>3, TrackUnchanged DEF FlushMerge, TypeOK, IsOpen, sessionVars
    <2> QED
        BY <2>1, <2>2, <2>3
<1>21. ASSUME NEW t \in Tabs, FlushRetry(t)
      PROVE  TracksStore(u)'
    <2>1. /\ store'.version = store.version + 1
          /\ store'.bytes = flight[t].bytes
        BY <1>21 DEF FlushRetry, StoreWrite
    <2>2. CASE u = t
        <3>1. flight'[u].phase = "sync"
            BY <1>21, <2>2 DEF FlushRetry, TypeOK, Flight
        <3>2. /\ base[u] \in Nat /\ held[u] \in Nat /\ store.version \in Nat
              /\ held[u] <= base[u] /\ base[u] <= store.version
            BY DEF TypeOK, TracksStore, CopyTracksStore
        <3>3. /\ held'[u] = held[u]
              /\ base'[u] \in {base[u], store.version + 1}
            BY <1>21, <2>2 DEF FlushRetry, TypeOK
        <3> QED
            BY <2>1, <3>1, <3>2, <3>3
            DEF TracksStore, CopyTracksStore, WriteTracksStore, RetryTracksStore
    <2>3. CASE u # t
        <3>1. UNCHANGED <<base[u], held[u], raw[u], flight[u]>>
            BY <1>21, <2>3 DEF FlushRetry, TypeOK
        <3> QED
            BY <2>1, <3>1, TrackOvertaken
    <2> QED
        BY <2>2, <2>3
<1>22. ASSUME NEW t \in Tabs, FlushRetryLost(t)
      PROVE  TracksStore(u)'
    <2>1. UNCHANGED <<store, base[u], held[u], raw[u]>>
        BY <1>22 DEF FlushRetryLost, sessionVars
    <2>2. UNCHANGED flight[u] \/ flight'[u].phase \notin {"write", "retry"}
        BY <1>22, NoFlightIdle DEF FlushRetryLost, TypeOK, Flight
    <2>3. IsOpen(u)' => IsOpen(u)
        BY <1>22 DEF FlushRetryLost, IsOpen, TypeOK, sessionVars
    <2> QED
        BY <2>1, <2>2, <2>3, TrackUnchanged
<1>23. ASSUME NEW t \in Tabs, FlushReloaded(t)
      PROVE  TracksStore(u)'
    <2>1. UNCHANGED store
        BY <1>23 DEF FlushReloaded
    <2>2. UNCHANGED flight[u] \/ flight'[u].phase \notin {"write", "retry"}
        BY <1>23, NoFlightIdle DEF FlushReloaded, TypeOK
    <2>3. CASE SyncFromStore(t)
        BY <2>1, <2>2, <2>3, TrackSync
    <2>4. CASE UNCHANGED sessionVars
        BY <2>1, <2>2, <2>4, TrackUnchanged DEF sessionVars, IsOpen
    <2> QED
        BY <1>23, <2>3, <2>4 DEF FlushReloaded
<1>24. ASSUME NEW t \in Tabs, FlushFails(t)
      PROVE  TracksStore(u)'
    <2>1. UNCHANGED <<store, base[u], held[u], raw[u]>>
        BY <1>24 DEF FlushFails, sessionVars
    <2>2. UNCHANGED flight[u] \/ flight'[u].phase \notin {"write", "retry"}
        BY <1>24, NoFlightIdle DEF FlushFails, TypeOK, Flight
    <2>3. IsOpen(u)' => IsOpen(u)
        BY <1>24 DEF FlushFails, IsOpen, TypeOK, sessionVars
    <2> QED
        BY <2>1, <2>2, <2>3, TrackUnchanged
<1>25. ASSUME NEW t \in Tabs, OnStorageEvent(t)
      PROVE  TracksStore(u)'
    BY <1>25, TrackSync DEF OnStorageEvent
<1>26. ASSUME NEW t \in Tabs, OnVisible(t)
      PROVE  TracksStore(u)'
    BY <1>26, TrackSync DEF OnVisible
<1>27. ASSUME NEW t \in Tabs, FlushRejects(t)
      PROVE  TracksStore(u)'
    <2>1. UNCHANGED <<store, base[u], held[u], raw[u]>>
        BY <1>27 DEF FlushRejects, sessionVars
    <2>2. UNCHANGED flight[u] \/ flight'[u].phase \notin {"write", "retry"}
        BY <1>27, NoFlightIdle DEF FlushRejects, TypeOK, Flight
    <2>3. IsOpen(u)' => IsOpen(u)
        BY <1>27 DEF FlushRejects, IsOpen, TypeOK, sessionVars
    <2> QED
        BY <2>1, <2>2, <2>3, TrackUnchanged
<1> QED
        BY <1>a, <1>1, <1>2, <1>3, <1>4, <1>5, <1>6, <1>7, <1>8, <1>9,
       <1>10, <1>11, <1>12, <1>13, <1>14, <1>15, <1>16, <1>17, <1>18,
       <1>19, <1>20, <1>21, <1>22, <1>23, <1>24, <1>25, <1>26, <1>27
    DEF Next, OpenStep, FlushStep

LEMMA TrackInit ==
    ASSUME Init
    PROVE  TrackInv
<1>1. ASSUME NEW t \in Tabs
      PROVE  TracksStore(t)
    <2>1. /\ store.version \in Nat
          /\ base[t] = 0
          /\ held[t] = 0
          /\ ~IsOpen(t)
        BY DEF Init, IsOpen, NothingStored
    <2>2. flight[t].phase = "idle"
        BY NoFlightIdle DEF Init
    <2> QED
        BY <2>1, <2>2
        DEF TracksStore, CopyTracksStore, WriteTracksStore, RetryTracksStore
<1> QED
    BY <1>1, ClosedInit DEF TrackInv

(* A quarantine is never undone. *)
LEMMA ClearedStays ==
    ASSUME [Next]_vars, cleared
    PROVE  cleared'
<1>a. CASE UNCHANGED vars
    BY <1>a DEF vars, historyVars
<1>1. ASSUME NEW t \in Tabs,
             \/ OpenSession(t) \/ OpenRead(t) \/ OpenQuarantine(t)
             \/ OpenFails(t) \/ BecomeReady(t) \/ ResetSession(t) \/ CloseTab(t)
      PROVE  UNCHANGED cleared
    BY <1>1 DEF OpenSession, OpenRead, OpenQuarantine, OpenFails, BecomeReady,
                ResetSession, CloseTab, historyVars
<1>2. ASSUME NEW t \in Tabs,
             \/ InsertRow(t) \/ WriteRetired(t)
             \/ \E i \in Items : DeleteParent(t, i)
             \/ \E i \in Items, event \in Events : PersistProgress(t, i, event)
             \/ TimerFires(t) \/ AwaitFlush(t) \/ RetryPersistence(t)
             \/ OnStorageEvent(t) \/ OnVisible(t)
      PROVE  UNCHANGED cleared
    BY <1>2 DEF InsertRow, WriteRetired, DeleteParent, PersistProgress,
                TimerFires, AwaitFlush, RetryPersistence, OnStorageEvent,
                OnVisible, historyVars
<1>3. ASSUME NEW t \in Tabs, FlushStep(t) \/ FlushFails(t)
      PROVE  UNCHANGED cleared
    BY <1>3 DEF FlushStep, FlushNothing, FlushRejects, FlushStart, FlushSaved,
                FlushConflict, FlushMerge, FlushRetry, FlushRetryLost, FlushReloaded,
                FlushFails, historyVars
<1>4. ASSUME NEW t \in Tabs, OpenClear(t)
      PROVE  cleared'
    BY <1>4 DEF OpenClear
<1> QED
    BY <1>a, <1>1, <1>2, <1>3, <1>4 DEF Next, OpenStep

LEMMA TrackInvariant == Spec => []TrackInv
<1>1. Init => TrackInv
    BY TrackInit
<1>2. TrackInv /\ [Next]_vars => TrackInv'
    BY TypeStep, ClosedStep, TrackStep, ClearedStays DEF TrackInv, ClosedInv
<1> QED
    BY <1>1, <1>2, PTL DEF Spec

(***************************************************************************)
(* The versions a session remembers relate as they should to what its      *)
(* working copy holds (persistent-database.ts), for any number of tabs.    *)
(***************************************************************************)
THEOREM SessionsSafe == Spec => []SessionsTrackStore
<1>1. TrackInv => SessionsTrackStore
    BY DEF TrackInv, TracksStore, SessionsTrackStore
<1> QED
    BY <1>1, TrackInvariant, PTL

(* The steps that write the store. *)
LEMMA StoreWriters ==
    ASSUME [Next]_vars
    PROVE  \/ UNCHANGED store
           \/ \E t \in Tabs : OpenClear(t) \/ FlushSaved(t) \/ FlushRetry(t)
<1>1. CASE UNCHANGED vars
    BY <1>1 DEF vars
<1>2. ASSUME NEW t \in Tabs,
             \/ OpenSession(t) \/ OpenRead(t) \/ OpenQuarantine(t)
             \/ OpenFails(t) \/ BecomeReady(t) \/ ResetSession(t)
             \/ CloseTab(t)
      PROVE  UNCHANGED store
    BY <1>2 DEF OpenSession, OpenRead, OpenQuarantine, OpenFails, BecomeReady,
                ResetSession, CloseTab
<1>3. ASSUME NEW t \in Tabs,
             \/ InsertRow(t) \/ WriteRetired(t) \/ TimerFires(t)
             \/ AwaitFlush(t) \/ RetryPersistence(t)
             \/ \E i \in Items : DeleteParent(t, i)
             \/ \E i \in Items, event \in Events : PersistProgress(t, i, event)
      PROVE  UNCHANGED store
    BY <1>3 DEF InsertRow, WriteRetired, TimerFires, AwaitFlush,
                RetryPersistence, DeleteParent, PersistProgress
<1>4. ASSUME NEW t \in Tabs,
             \/ FlushNothing(t) \/ FlushRejects(t) \/ FlushStart(t)
             \/ FlushConflict(t)
             \/ FlushMerge(t) \/ FlushRetryLost(t) \/ FlushReloaded(t)
             \/ FlushFails(t) \/ OnStorageEvent(t) \/ OnVisible(t)
      PROVE  UNCHANGED store
    BY <1>4 DEF FlushNothing, FlushRejects, FlushStart, FlushConflict, FlushMerge,
                FlushRetryLost, FlushReloaded, FlushFails, OnStorageEvent,
                OnVisible
<1> QED
    BY <1>1, <1>2, <1>3, <1>4 DEF Next, OpenStep, FlushStep

(***************************************************************************)
(* A merged commit keeps the snapshot it replaces                          *)
(* (merge-uncommitted-progress.ts), for any number of tabs, chapters,      *)
(* entries and events, until a quarantine.                                 *)
(***************************************************************************)
THEOREM MergeSafe == Spec => MergeKeepsCommitted
<1>1. ASSUME TrackInv, [Next]_vars, NEW t \in Tabs, MergedCommit(t), ~cleared
      PROVE  MergedOnto(store'.bytes, store.bytes)
    <2> USE DEF TrackInv, ClosedInv
    <2>1. PICK u \in Tabs : OpenClear(u) \/ FlushSaved(u) \/ FlushRetry(u)
        BY <1>1, StoreWriters DEF MergedCommit
    <2>2. FlushRetry(u) /\ u = t
        BY <1>1, <2>1, NoFlightIdle
        DEF MergedCommit, OpenClear, FlushSaved, FlushRetry, TypeOK
    <2>3. /\ store'.bytes = flight[t].bytes
          /\ flight[t].expected = store.version
          /\ flight[t].phase = "retry"
        BY <2>2 DEF FlushRetry, StoreWrite, Accepts
    <2> QED
        BY <1>1, <2>3 DEF TracksStore, RetryTracksStore, MergedOnto, NotBehind, Wins
<1>2. TrackInv /\ [Next]_vars =>
        [\A t \in Tabs : MergedCommit(t) /\ ~cleared
            => MergedOnto(store'.bytes, store.bytes)]_vars
    BY <1>1
<1> QED
    BY <1>2, TrackInvariant, PTL DEF Spec, MergeKeepsCommitted

(***************************************************************************)
(* Only a session that moved its baseVersion by a merged commit without    *)
(* taking the merged snapshot over can drop a committed row or roll        *)
(* progress back (persistent-database.ts), for any number of tabs, until a *)
(* quarantine.                                                             *)
(***************************************************************************)
THEOREM OverwriteSafe == Spec => OverwriteOnlyAfterMerge
<1> DEFINE Allowed ==
        \/ CommitExtends
        \/ cleared'
        \/ \E t \in Tabs : /\ flight[t].phase = "write"
                           /\ flight[t].held # flight[t].expected
<1>1. ASSUME TrackInv, [Next]_vars, ~cleared',
             \A t \in Tabs : flight[t].phase = "write" =>
                flight[t].held = flight[t].expected
      PROVE  CommitExtends
    <2> USE DEF TrackInv, ClosedInv
    <2>1. ~cleared
        BY <1>1, ClearedStays
    <2>2. CASE UNCHANGED store
        BY <1>1, <2>2, ExtendsReflexive DEF CommitExtends, TypeOK
    <2>3. ASSUME NEW t \in Tabs, OpenClear(t)
          PROVE  FALSE
        BY <1>1, <2>3 DEF OpenClear
    <2>4. ASSUME NEW t \in Tabs, FlushSaved(t)
          PROVE  CommitExtends
        <3>1. /\ flight[t].phase = "write"
              /\ flight[t].expected = store.version
              /\ store'.bytes = flight[t].bytes
            BY <2>4 DEF FlushSaved, StoreWrite, Accepts
        <3>2. flight[t].held = store.version
            BY <1>1, <3>1
        <3> QED
            BY <1>1, <2>1, <3>1, <3>2 DEF TracksStore, WriteTracksStore, CommitExtends
    <2>5. ASSUME NEW t \in Tabs, FlushRetry(t)
          PROVE  CommitExtends
        <3>1. /\ flight[t].phase = "retry"
              /\ flight[t].expected = store.version
              /\ store'.bytes = flight[t].bytes
            BY <2>5 DEF FlushRetry, StoreWrite, Accepts
        <3>2. MergedOnto(flight[t].bytes, store.bytes)
            BY <1>1, <2>1, <3>1 DEF TracksStore, RetryTracksStore
        <3>3. flight[t].bytes \in Bytes /\ store.bytes \in Bytes
            BY <1>1 DEF TypeOK, Flight
        <3> QED
            BY <3>1, <3>2, <3>3, MergedOntoExtends DEF CommitExtends
    <2> QED
        BY <1>1, <2>2, <2>3, <2>4, <2>5, StoreWriters
<1>2. TrackInv /\ [Next]_vars => [Allowed]_vars
    BY <1>1
<1> QED
    BY <1>2, TrackInvariant, PTL DEF Spec, OverwriteOnlyAfterMerge

=============================================================================
