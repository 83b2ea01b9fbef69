----------------------------- MODULE PageCache -----------------------------
(***************************************************************************)
(* The page cache of one window: packages/cache/src.  Pages are bytes in a *)
(* blob store and rows in the database, two stores with no transaction in  *)
(* common.  Fills write a page into both, eviction and the removal of a    *)
(* download delete it from both, the orphan sweep looks for bytes without  *)
(* a row, and readers, of this window and of others, hold locks meanwhile. *)
(* In the web build the blob store is one for all tabs and the rows are    *)
(* each tab's own: the other tabs store and delete bytes too.              *)
(*                                                                         *)
(* Granularity.  One action per operation of a store or of the lock        *)
(* manager, with the code up to the next one.  In the web build two        *)
(* database operations in a row cannot be interrupted; here they can.  A   *)
(* lock manager is there, as in every browser the app runs in.             *)
(*                                                                         *)
(* Every page has one byte.  The order of last access is left open: any    *)
(* unprotected chapters that free enough may be the oldest.                *)
(***************************************************************************)
EXTENDS Naturals, FiniteSets

CONSTANTS
    Keys,          \* pages: their blob keys, which are their row ids too
    Chapters,
    ChapterOf,     \* the chapter of each page
    Fills,         \* page stores that may be under way at once
    Marks,         \* retention changes of a chapter that may be under way at once
    Readers,       \* reader views, of this window and of others
    Sweep,         \* the maintenance pass of this window
    Trims,         \* evictions of its reader, removals of downloads
    Limit,         \* bytes the cache may hold (limitBytes)
    MainStores,    \* the desktop build: its main process stores the bytes
    None,
    MaxFills, MaxTrims, MaxMounts,   \* bounds on fills, evictions and removals, readers
    MaxOthers      \* on failing calls, marks and what other tabs do, together

ASSUME PageCacheAssumption ==
    /\ ChapterOf \in [Keys -> Chapters]
    /\ IsFiniteSet(Keys)
    /\ Sweep \notin Trims
    /\ MainStores \in BOOLEAN
    /\ None \notin Keys \cup Chapters
    /\ {Limit, MaxFills, MaxTrims, MaxMounts, MaxOthers} \subseteq Nat

Passes == Trims \cup {Sweep}

VARIABLES
    blobs,         \* the keys of the blob store
    row,           \* the retention of each key's row
    fill,          \* page stores
    mark,          \* the retention each mark has still to write, by key
    reader,        \* reader views and their locks
    pass,          \* maintenance, evictions and removals
    asked, timer,  \* the scheduler: pending and its timer
    count          \* what the bounds bound

(***************************************************************************)
(* History: the readers that opened their chapter after a pass had looked; *)
(* the pages whose row a mark wrote when their bytes were gone or a delete *)
(* had their lock; the pages with a row whose bytes another tab deleted.   *)
(* The last two hold until the bytes are stored again.                     *)
(***************************************************************************)
VARIABLES late, revived, robbed

stores == <<blobs, row>>
scheduler == <<asked, timer>>
lost == <<revived, robbed>>
vars == <<stores, fill, mark, reader, pass, scheduler, count, late, lost>>

(* "normal" stands for "read" too: no pass tells the two apart. *)
Retention == {"normal", "download"}

NoFill == [pc |-> "idle", key |-> None]

NoMark == [k \in Keys |-> "none"]

NoReader == [pc |-> "out", chapter |-> None]

NoPass ==
    [pc |-> "idle", kind |-> "maintain", chapter |-> None, excess |-> 0, holds |-> FALSE,
     spared |-> {}, known |-> {}, chosen |-> {}, doomed |-> {}]

Init ==
    /\ blobs = {}
    /\ row = [k \in Keys |-> "none"]
    /\ fill = [f \in Fills |-> NoFill]
    /\ mark = [m \in Marks |-> NoMark]
    /\ reader = [r \in Readers |-> NoReader]
    /\ pass = [p \in Passes |-> NoPass]
    /\ asked = FALSE
    /\ timer = FALSE
    /\ count = [fills |-> 0, trims |-> 0, mounts |-> 0, others |-> 0]
    /\ late = [p \in Passes |-> {}]
    /\ revived = {} /\ robbed = {}

Rows == {k \in Keys : row[k] # "none"}

Counted(what, max) ==
    /\ count[what] < max
    /\ count' = [count EXCEPT ![what] = @ + 1]

-----------------------------------------------------------------------------
(* Locks.  Who holds which is read off the state of the actors. *)

(* Where a fill holds its key's lock: in the desktop build not for the put. *)
Covered == IF MainStores THEN {"row"} ELSE {"put", "row"}

(* Shared holders of a key's lock. *)
Writing(k) == \E f \in Fills : fill[f].key = k /\ fill[f].pc \in Covered

(* The exclusive holder: a pass that has decided to delete the bytes. *)
Deleting(k) == \E p \in Passes : k \in pass[p].doomed

(* isBlobWriteInFlight: counted before the lock is asked for, which in the *)
(* desktop build is after the put, when the main process has answered.     *)
InFlight(k) ==
    \E f \in Fills : fill[f].key = k /\ fill[f].pc \in Covered \cup (IF MainStores THEN {} ELSE {"lock"})

(* The presence lock: shared by readers, exclusive for a pass. *)
Present == {r \in Readers : reader[r].pc \in {"present", "open"}}

PresenceIsHeld == \E p \in Passes : pass[p].holds

(* A pass that has looked for readers, as a removal does not. *)
HasLooked(p) ==
    /\ pass[p].kind # "remove"
    /\ pass[p].pc \in {"list", "rows", "blobs", "known", "orphans"}

OpenChapters == {reader[r].chapter : r \in {r \in Readers : reader[r].pc = "open"}}

-----------------------------------------------------------------------------
(* Fills: storePageBlob, and storeRemotePageInMain in the desktop build *)

Filling(f, state) ==
    /\ fill' = [fill EXCEPT ![f] = state]
    /\ UNCHANGED <<mark, reader, pass, scheduler, late>>

(***************************************************************************)
(* The bytes of a page that was missing when it was asked for, or that the *)
(* reader asked for again.  In the desktop build the main process fetches  *)
(* and stores them, and a store of the page that is under way is joined.   *)
(***************************************************************************)
Fetched(f, k) ==
    /\ fill[f] = NoFill
    /\ MainStores => \A g \in Fills : fill[g].key # k
    /\ Counted("fills", MaxFills)
    /\ Filling(f, [pc |-> IF MainStores THEN "put" ELSE "lock", key |-> k])
    /\ UNCHANGED <<stores, lost>>

(* Mutated form of LockToWrite: the write does not wait for a delete. *)
WriteUnlocked(f) ==
    /\ fill[f].pc = "lock"
    /\ Filling(f, [fill[f] EXCEPT !.pc = IF MainStores THEN "row" ELSE "put"])
    /\ UNCHANGED <<blobs, row, count, lost>>

(* withBlobWrite: the lock is shared with other writers of the key. *)
LockToWrite(f) ==
    /\ fill[f].pc = "lock"
    /\ ~Deleting(fill[f].key)
    /\ Filling(f, [fill[f] EXCEPT !.pc = IF MainStores THEN "row" ELSE "put"])
    /\ UNCHANGED <<blobs, row, count, lost>>

Put(f) ==
    /\ fill[f].pc = "put"
    /\ blobs' = blobs \cup {fill[f].key}
    /\ Filling(f, [fill[f] EXCEPT !.pc = IF MainStores THEN "lock" ELSE "row"])
    /\ UNCHANGED <<row, count, lost>>

(* upsertCacheEntry, with the retention this fill was asked for. *)
UpsertRow(f, as) ==
    /\ fill[f].pc = "row"
    /\ row' = [row EXCEPT ![fill[f].key] = as]
    /\ revived' = revived \ {fill[f].key}
    /\ robbed' = robbed \ {fill[f].key}
    /\ Filling(f, NoFill)
    /\ UNCHANGED <<blobs, count>>

(* Mutated form of StoreFails: the fill is not forgotten. *)
StoreFailsHalf(f) ==
    /\ fill[f].pc \in {"put", "row"}
    /\ Counted("others", MaxOthers)
    /\ Filling(f, [fill[f] EXCEPT !.pc = "idle"])
    /\ UNCHANGED <<blobs, row, lost>>

(* The put or the row's write is refused. *)
StoreFails(f) ==
    /\ fill[f].pc \in {"put", "row"}
    /\ Counted("others", MaxOthers)
    /\ Filling(f, NoFill)
    /\ UNCHANGED <<blobs, row, lost>>

-----------------------------------------------------------------------------
(* Marks: markChapterPagesAsRead, markChapterPagesDownloaded *)

Marking(m, todo) ==
    /\ mark' = [mark EXCEPT ![m] = todo]
    /\ UNCHANGED <<blobs, fill, reader, pass, scheduler, late, robbed>>

(* chapterPageEntries: downloads are not marked again, nor as read. *)
ToMark(c) == {k \in Rows : ChapterOf[k] = c /\ row[k] # "download"}

(* Of the rows that are not downloads, those that are read already are not *)
(* marked as read again.                                                   *)
BeginMark(m, c, as) ==
    /\ mark[m] = NoMark
    /\ Counted("others", MaxOthers)
    /\ \E listed \in (IF as = "download" THEN {ToMark(c)} ELSE SUBSET ToMark(c)) \ {{}} :
            Marking(m, [k \in Keys |-> IF k \in listed THEN as ELSE "none"])
    /\ UNCHANGED <<row, revived>>

(***************************************************************************)
(* The listed rows are upserted one at a time, without their keys' locks:  *)
(* a row that was deleted meanwhile is inserted again.                     *)
(***************************************************************************)
MarkRow(m, k) ==
    /\ mark[m][k] # "none"
    /\ row' = [row EXCEPT ![k] = mark[m][k]]
    /\ revived' = IF k \notin blobs \/ Deleting(k) THEN revived \cup {k} ELSE revived
    /\ Marking(m, [mark[m] EXCEPT ![k] = "none"])
    /\ UNCHANGED count

(* An upsert is refused; the rows after it stay as they are. *)
MarkFails(m) ==
    /\ mark[m] # NoMark
    /\ Marking(m, NoMark)
    /\ UNCHANGED <<row, count, revived>>

-----------------------------------------------------------------------------
(* The other tabs of the web build *)

Elsewhere(k) ==
    /\ ~MainStores
    /\ ~Deleting(k)
    /\ Counted("others", MaxOthers)
    /\ UNCHANGED <<row, fill, mark, reader, pass, scheduler, late>>

(* Another tab stores the page; the row is its own. *)
StoreElsewhere(k) ==
    /\ Elsewhere(k)
    /\ blobs' = blobs \cup {k}
    /\ revived' = revived \ {k}
    /\ robbed' = robbed \ {k}

(***************************************************************************)
(* Another tab's sweep, eviction or removal deletes the bytes: inside the  *)
(* key's lock it looks at its own rows, and at no other tab's.  Whose      *)
(* chapters it spares is left open, as it may have looked long before.     *)
(***************************************************************************)
DeleteElsewhere(k) ==
    /\ Elsewhere(k)
    /\ k \in blobs
    /\ ~Writing(k)
    /\ blobs' = blobs \ {k}
    /\ robbed' = robbed \cup ({k} \cap Rows)
    /\ UNCHANGED revived

-----------------------------------------------------------------------------
(* Readers: holdReaderLocks *)

Reading(r, state) ==
    /\ reader' = [reader EXCEPT ![r] = state]
    /\ UNCHANGED <<stores, fill, mark, pass, scheduler, lost>>

Mount(r, c) ==
    /\ reader[r] = NoReader
    /\ Counted("mounts", MaxMounts)
    /\ Reading(r, [pc |-> "waiting", chapter |-> c])
    /\ UNCHANGED late

BePresent(r) ==
    /\ reader[r].pc = "waiting"
    /\ ~PresenceIsHeld
    /\ Reading(r, [reader[r] EXCEPT !.pc = "present"])
    /\ UNCHANGED <<count, late>>

(* The chapter lock is asked for when presence is granted. *)
OpenChapter(r) ==
    /\ reader[r].pc = "present"
    /\ Reading(r, [reader[r] EXCEPT !.pc = "open"])
    /\ late' = [p \in Passes |-> IF HasLooked(p) THEN late[p] \cup {r} ELSE late[p]]
    /\ UNCHANGED count

(* The view unmounts, or its tab dies. *)
Unmount(r) ==
    /\ reader[r] # NoReader
    /\ Reading(r, NoReader)
    /\ late' = [p \in Passes |-> late[p] \ {r}]
    /\ UNCHANGED count

-----------------------------------------------------------------------------
(* Passes *)

Passing(p, state) ==
    /\ pass' = [pass EXCEPT ![p] = state]
    /\ UNCHANGED <<fill, mark, reader, lost>>

(* requestCacheMaintenance: a burst of misses is one run. *)
Request ==
    /\ asked' = TRUE
    /\ timer' = (timer \/ pass[Sweep].pc = "idle")
    /\ UNCHANGED <<stores, fill, mark, reader, pass, count, late, lost>>

Drain ==
    /\ timer
    /\ timer' = FALSE
    /\ asked' = FALSE
    /\ Passing(Sweep, [NoPass EXCEPT !.pc = "summary"])
    /\ UNCHANGED <<blobs, row, count, late>>

(* The reader evicts after its prefetch; its own chapter is protected. *)
BeginTrim(p, c) ==
    /\ p \in Trims
    /\ pass[p].pc = "idle"
    /\ \E r \in Readers : reader[r].chapter = c
    /\ Counted("trims", MaxTrims)
    /\ Passing(p, [NoPass EXCEPT !.pc = "summary", !.kind = "trim", !.chapter = c])
    /\ UNCHANGED <<blobs, row, scheduler, late>>

(* removeChapterPageEntries: the chapter's rows are listed. *)
BeginRemoval(p, c) ==
    /\ p \in Trims
    /\ pass[p].pc = "idle"
    /\ \E k \in Rows : ChapterOf[k] = c
    /\ Counted("trims", MaxTrims)
    /\ Passing(p, [NoPass EXCEPT !.pc = "rows", !.kind = "remove", !.chapter = c,
                                 !.chosen = {k \in Rows : ChapterOf[k] = c}])
    /\ UNCHANGED <<blobs, row, scheduler, late>>

(* Mutated form of EndPass: a request during the run is left waiting. *)
EndUntrailed(p) ==
    /\ pass' = [pass EXCEPT ![p] = NoPass]
    /\ UNCHANGED timer

(* The run is over; a request that came meanwhile is trailed once. *)
EndPass(p) ==
    /\ pass' = [pass EXCEPT ![p] = NoPass]
    /\ timer' = (timer \/ (p = Sweep /\ asked))

(* Eviction is over: presence is released, and maintenance goes on. *)
EndEviction(p) ==
    IF pass[p].kind = "maintain"
    THEN /\ pass' = [pass EXCEPT ![p] = [NoPass EXCEPT !.pc = "again"]]
         /\ UNCHANGED timer
    ELSE EndPass(p)

Untouched == UNCHANGED <<fill, mark, reader, asked, lost>>

Summarize(p) ==
    /\ pass[p].pc = "summary"
    /\ IF Cardinality(Rows) <= Limit
       THEN EndEviction(p)
       ELSE /\ pass' = [pass EXCEPT ![p].pc = "probe", ![p].excess = Cardinality(Rows) - Limit]
            /\ UNCHANGED timer
    /\ Untouched /\ UNCHANGED <<blobs, row, count, late>>

(* Mutated form of NobodyIsPresent: a null lock counts as granted. *)
NobodyIsRefused == TRUE

(* The exclusive request, made with ifAvailable, is granted. *)
NobodyIsPresent == Present = {} /\ ~PresenceIsHeld

(* Mutated form of Probe: the presence lock is waited for. *)
ProbeWaits(p) ==
    /\ pass[p].pc \in {"probe", "again"}
    /\ NobodyIsPresent
    /\ pass' = [pass EXCEPT ![p].pc = IF @ = "probe" THEN "list" ELSE "known", ![p].holds = TRUE]
    /\ late' = [late EXCEPT ![p] = {}]
    /\ Untouched /\ UNCHANGED <<blobs, row, count, timer>>

(***************************************************************************)
(* probeReaderPresence, of an eviction ("probe") and of the sweep that     *)
(* follows it in a maintenance pass ("again"): presence is acquired and    *)
(* held, or the open chapters are listed.  Unknown, which ends either: the *)
(* probe fails, or no chapter is visible yet.                              *)
(***************************************************************************)
Probe(p) ==
    /\ pass[p].pc \in {"probe", "again"}
    /\ LET next == IF pass[p].pc = "probe" THEN "list" ELSE "known"
       IN  \/ /\ NobodyIsPresent
              /\ pass' = [pass EXCEPT ![p].pc = next, ![p].holds = TRUE]
              /\ UNCHANGED timer
           \/ /\ ~NobodyIsPresent
              /\ OpenChapters # {}
              /\ pass' = [pass EXCEPT ![p].pc = next, ![p].spared = OpenChapters]
              /\ UNCHANGED timer
           \/ IF pass[p].pc = "probe" THEN EndEviction(p) ELSE EndPass(p)
    /\ late' = [late EXCEPT ![p] = {}]
    /\ Untouched /\ UNCHANGED <<blobs, row, count>>

(* The chapters eviction may take: no page the download owns counts. *)
Evictable(p, c) ==
    {k \in Rows : ChapterOf[k] = c /\ row[k] # "download"}

Protected(p) == pass[p].spared \cup {pass[p].chapter}

Pages(p, cs) == UNION {Evictable(p, c) : c \in cs}

(* Whole chapters, until enough is freed or none is left. *)
Selection(p) ==
    LET candidates == {c \in Chapters \ Protected(p) : Evictable(p, c) # {}}
        enough(cs) == Cardinality(Pages(p, cs)) >= pass[p].excess
    IN  {Pages(p, cs) : cs \in
            {cs \in SUBSET candidates :
                /\ enough(cs) \/ cs = candidates
                /\ enough(cs) => \E last \in cs : ~enough(cs \ {last})}}

Choose(p) ==
    /\ pass[p].pc = "list"
    /\ \E chosen \in Selection(p) :
        IF chosen = {}
        THEN EndEviction(p)
        ELSE /\ pass' = [pass EXCEPT ![p].pc = "rows", ![p].chosen = chosen]
             /\ UNCHANGED timer
    /\ Untouched /\ UNCHANGED <<blobs, row, count, late>>

(* deleteCacheEntries: the listed rows in one statement. *)
DeleteRows(p) ==
    /\ pass[p].pc = "rows"
    /\ row' = [k \in Keys |-> IF k \in pass[p].chosen THEN "none" ELSE row[k]]
    /\ Passing(p, [pass[p] EXCEPT !.pc = "blobs"])
    /\ UNCHANGED <<blobs, scheduler, count, late>>

(* reclaimOrphanBlobs: the rows' keys, and then the keys of the store. *)
ListKnown(p) ==
    /\ pass[p].pc = "known"
    /\ Passing(p, [pass[p] EXCEPT !.pc = "orphans", !.known = Rows])
    /\ UNCHANGED <<blobs, row, scheduler, count, late>>

ListOrphans(p) ==
    /\ pass[p].pc = "orphans"
    /\ Passing(p, [pass[p] EXCEPT !.pc = "blobs", !.known = {},
            !.chosen = {k \in blobs \ pass[p].known : ChapterOf[k] \notin pass[p].spared}])
    /\ UNCHANGED <<blobs, row, scheduler, count, late>>

(* Mutated form of Referenced: the row is not looked at inside the lock. *)
ReferencedThen(p, k) == InFlight(k)

(* skip: a row is there again, or a write about to land one. *)
Referenced(p, k) == InFlight(k) \/ k \in Rows

(* deleteOne: the key's lock, and the second look inside it. *)
LockToDelete(p, k) ==
    /\ pass[p].pc = "blobs"
    /\ k \in pass[p].chosen
    /\ ~Writing(k) /\ ~Deleting(k)
    /\ Passing(p, [pass[p] EXCEPT !.chosen = @ \ {k},
                                  !.doomed = IF Referenced(p, k) THEN @ ELSE @ \cup {k}])
    /\ UNCHANGED <<blobs, row, scheduler, count, late>>

(* A delete that fails leaves an orphan to a later sweep. *)
DeleteBlob(p, k) ==
    /\ k \in pass[p].doomed
    /\ \/ blobs' = blobs \ {k} /\ UNCHANGED count
       \/ Counted("others", MaxOthers) /\ UNCHANGED blobs
    /\ Passing(p, [pass[p] EXCEPT !.doomed = @ \ {k}])
    /\ UNCHANGED <<row, scheduler, late>>

(* Every key is dealt with; the sweep comes last. *)
EndBlobs(p) ==
    /\ pass[p].pc = "blobs"
    /\ pass[p].chosen = {} /\ pass[p].doomed = {}
    /\ IF pass[p].excess > 0 THEN EndEviction(p) ELSE EndPass(p)
    /\ Untouched /\ UNCHANGED <<blobs, row, count, late>>

-----------------------------------------------------------------------------
FillStep(f) ==
    \/ LockToWrite(f) \/ Put(f) \/ StoreFails(f)
    \/ \E as \in Retention : UpsertRow(f, as)

MarkStep(m) == MarkFails(m) \/ \E k \in Keys : MarkRow(m, k)

OtherTabs == \E k \in Keys : StoreElsewhere(k) \/ DeleteElsewhere(k)

PassStep(p) ==
    \/ Summarize(p) \/ Probe(p) \/ Choose(p) \/ DeleteRows(p) \/ ListKnown(p)
    \/ ListOrphans(p) \/ EndBlobs(p)
    \/ \E k \in Keys : LockToDelete(p, k) \/ DeleteBlob(p, k)

User ==
    \/ \E f \in Fills, k \in Keys : Fetched(f, k)
    \/ \E c \in Chapters :
        \/ \E m \in Marks, as \in Retention : BeginMark(m, c, as)
        \/ \E r \in Readers : Mount(r, c)
        \/ \E p \in Trims : BeginTrim(p, c) \/ BeginRemoval(p, c)
    \/ \E r \in Readers : Unmount(r)
    \/ Request

Next ==
    \/ User
    \/ Drain
    \/ OtherTabs
    \/ \E f \in Fills : FillStep(f)
    \/ \E m \in Marks : MarkStep(m)
    \/ \E r \in Readers : BePresent(r) \/ OpenChapter(r)
    \/ \E p \in Passes : PassStep(p)

Spec == Init /\ [][Next]_vars

(* Timers fire and store operations return; nobody has to read or leave. *)
Fairness ==
    /\ WF_vars(Drain)
    /\ \A f \in Fills : WF_vars(FillStep(f))
    /\ \A p \in Passes : WF_vars(PassStep(p))

FairSpec == Spec /\ Fairness

-----------------------------------------------------------------------------
(* Properties *)

TypeOK ==
    /\ blobs \subseteq Keys
    /\ row \in [Keys -> {"none"} \cup Retention]
    /\ \A f \in Fills :
        /\ fill[f].pc \in {"idle", "lock", "put", "row"}
        /\ fill[f].key \in Keys \cup {None}
        /\ fill[f] # NoFill => fill[f].key \in Keys /\ fill[f].pc # "idle"
    /\ mark \in [Marks -> [Keys -> {"none"} \cup Retention]]
    /\ reader \in [Readers -> [pc : {"out", "waiting", "present", "open"},
                               chapter : Chapters \cup {None}]]
    /\ \A p \in Passes :
        /\ pass[p].pc \in {"idle", "summary", "probe", "list", "rows", "blobs",
                           "again", "known", "orphans"}
        /\ pass[p].chosen \cup pass[p].doomed \cup pass[p].known \subseteq Keys
        /\ pass[p].spared \subseteq Chapters
    /\ {asked, timer} \subseteq BOOLEAN
    /\ late \in [Passes -> SUBSET Readers]
    /\ revived \cup robbed \subseteq Keys

(***************************************************************************)
(* "a row must never outlive its blob" (cache-maintenance.ts:158), for any *)
(* overlap of fills, marks, evictions, removals and sweeps: rows go before *)
(* bytes, a write and a delete of one key exclude each other, and a delete *)
(* looks at the row again inside the lock (withBlobWrite, deleteBlobKeys). *)
(* The code leaves two ways round it, and the property excepts their pages *)
(* until they are stored again: a mark that upserts a row it listed, after *)
(* a delete has looked for that row (revived), and another tab's delete,   *)
(* which looks for its own rows only (robbed).  It fails in the desktop    *)
(* build, whose main process stores the bytes before the lock is taken.    *)
(***************************************************************************)
RowNeverOutlivesItsBlob == Rows \ (revived \cup robbed) \subseteq blobs

(***************************************************************************)
(* The pages of an open chapter are in nobody's selection: a pass that     *)
(* holds presence has no reader beside it, one that found readers spares   *)
(* their chapters.  Excepted are the readers that open a chapter after a   *)
(* pass has found others, and what the user removes (evictCacheToLimit).   *)
(***************************************************************************)
OpenChaptersAreSpared ==
    \A p \in Passes, r \in Readers :
        reader[r].pc = "open" /\ r \notin late[p] /\ pass[p].kind # "remove" =>
            \A k \in pass[p].chosen \cup pass[p].doomed : ChapterOf[k] # reader[r].chapter

(***************************************************************************)
(* No pass waits for ever: key locks are taken one at a time, never while  *)
(* waiting for another, and every holder lets go (deleteBlobKeys: "there   *)
(* is no deadlock").                                                       *)
(***************************************************************************)
PassesEnd == \A p \in Passes : pass[p].pc # "idle" ~> pass[p].pc = "idle"

(***************************************************************************)
(* A miss that asks for maintenance gets a run that begins after it, also  *)
(* when it comes while one is under way (createCacheMaintenanceScheduler). *)
(***************************************************************************)
RequestsAreServed == asked ~> ~asked

=============================================================================
