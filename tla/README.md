# mangaverse: TLA+ verification project

mangaverse is a manga reader (web and Electron). Its core logic is local: a page
of the browser keeps an SQLite database in memory and persists snapshots of it to
IndexedDB, tabs share that store, a download engine fills a page cache, library
checks go through a provider's request gate, titles are merged and migrated
between providers, and a data host serves all windows of the desktop build. This
project models the parts of that core where steps of several actors interleave,
checks them with TLC on small instances and proves the main results with TLAPS
for all instances.

To run it, in this directory: `tlc -config X.cfg M` for a run of the table
below, `tlapm M.tla` for a proof module.

## 1. Inventory

| Part | State | Operations | What is hard |
|---|---|---|---|
| Multi-tab local database: `packages/db/src/persistent-database.ts`, `apps/web/app/lib/local-db.ts`, `local-db-flush.ts`, `providers/local-db-provider.tsx` | working copy, `baseVersion`, retired handles, `mutationSeq`, `flushedSeq`, pending flush, timer, banner | open (quarantine, clear), write, flush (plain write, merge, one retry), sync, reset, storage ping, visibility | flushes of two tabs interleave at every store operation; state read before an `await` is used after it; pings are lost |
| Conflict merge and progress ordering: `merge-uncommitted-progress.ts`, `progress-ordering.ts`, `repositories/read-state.ts` | progress rows of two snapshots | two guards, inserts and updates in one try block | foreign-key failures, equal timestamps, rows deleted on one side |
| IndexedDB byte store: `apps/web/app/lib/persisted-bytes-idb.ts` | one record; transactions | read, write (compare and swap), clear | comparison and put are separate requests; open, request and commit fail; pages close midway |
| Reader progress writer: `packages/reader/src/persist-reader-progress.ts` | a promise chain per chapter; read state, resume, unread count, history | accept, upsert, refresh, resume guard, history | check and write are calls of their own; merges and marks come between; later writes fail after the first |
| Identity merge and provider migration: `packages/db/src/repositories/identity-merge.ts`, `identities.ts`, `migration/provider-migration.ts`, and the refresh that stores titles | titles, mappings, chapters, read states, library entries, undo rows | merge, unmerge, migrate, roll back, set pointers, refresh | rows point at each other without foreign keys; ids derived from the provider's are taken again; a migration is no transaction |
| Download engine: `apps/web/app/features/downloads/download-engine.ts`, `packages/db/src/repositories/downloads.ts` | rows of `downloads`, `running`, `wakeRequested`, `current`, the task's cached set and write chain | pump, run, enqueue, retry, cancel, remove, resume | every guard is a read and a later write; calls overlap the task; restart |
| Page and cover cache: `packages/cache/src/*` | blobs, cache rows, reader locks, the maintenance timer | store, mark, evict, remove, sweep orphans, schedule | blob and row are written apart; eviction against readers; bursts of requests |
| Page store of the desktop's main process: `apps/desktop/src/main/page-store.ts` | two files a page, temporaries, a queue per page | put, delete, list (which reaps) | a crash between two file operations; a listing is stale when its turn comes |
| Data host (desktop): `packages/db/src/host/serve.ts`, `change-capture.ts`, `data-host-client.ts`, `apps/web/app/lib/host-collections.ts` | request tail, captured changes, pending calls, windows' collections | call, reply, broadcast, apply, reconnect | reply and broadcast order; failed calls that committed part; a host that dies |
| Provider request gate: `packages/extensions-sdk/src/request-gate.ts`, `request-client.ts` | sliding window, 429 horizon | acquire, release, note a response, abort | sleepers that wake together; horizon moved while they sleep |
| Library update check: `features/library/update-queue.ts`, `routes/library.tsx` | items, workers, the start reserved last, the report | start, cancel, list, store, count, retry | workers share one spacing and one gate; leaving the page loses the hold on a check |
| Renderer data import, backup and restore, page object URLs and decoders, refresh queue of one title | a marker; tables; reference counts | hand-over, restore, retain and release | one actor each |
| Extensions core, the rest of the desktop main process, reader layout helpers, UI, docs | | validation, Electron glue, pure geometry, presentation | little state of its own |

How they interact. The update hook of the working copy calls `onMutation`, which
sets the flush timer; the flush goes through the byte store; a saved flush pings
the other tabs with a storage event, and they sync. The reader's progress writer,
the update check and the download engine write through the same session. The
download engine stores pages through the page cache, on the desktop through the
main process's page store. In the desktop build the data host replaces the
working copies by one database and broadcasts changes.

What makes each part correct: what counts as saved is stored, and nobody's commit
is overwritten unseen (database); merging never moves progress backwards and does
not depend on who merges (merge); an interrupted or overlapped store call acts
once and atomically, or not at all (byte store); every row stays with the title of
its mapping and no pointer is left behind (titles); the row of a download never
promises what is not stored, a cancel holds, the queue drains (downloads); a row
names a stored blob and a blob in use is kept (cache); a sidecar vouches for the
bytes beside it (page store); a window ends with what the tables hold (data
host); never more requests in a window than allowed, none before the horizon
(gate); a check deals with every title and ends (updates).

The full list of components with their status, and of the hazards with their
lines and the properties that cover them, is in `PROJECT.json`.

## 2. Plan

Done, in this order: `ProgressOrdering`, `LocalDbTabs`; `PersistedBytesStore`
(abstract), `PersistedBytesIdb` (refines it); `DownloadEngine`; `RequestGate`
and `LibraryUpdates` (which composes the update check with the gate and refines
it); `PageCache`; `PageStore`; `DataHost`; `LibraryTitles`; and the proofs. Each
component has one proof module; `LocalDbTabsProofs` also holds the theorems about
`ProgressOrdering`, `LibraryUpdatesProofs` those about `RequestGate`.

Left, by what it would add:

1. An abstract page store (put, delete and get of whole pages) that `PageStore`
   is shown to implement.
2. The engines of two windows over one downloads table, and covers, which share
   the eviction of the page cache.
3. The remaining writes of a progress event: history and unread counts.
4. The renderer's import, and the refresh queue of one title.

Composition. `LibraryUpdates` extends `RequestGate` and is shown to implement it.
`LocalDbTabs` extends `ProgressOrdering`, and assumes of the byte store what
`PersistedBytesStore` states and `PersistedBytesIdb` is shown to implement, except
that a call may hang (see 6). `DownloadEngine` takes of the page cache that a page
is stored in one step; `PageCache` has those steps. `PageCache` takes of the blob
store that its operations are atomic; `PageStore` has the desktop's file
operations.

## 3. Modules and code

**`ProgressOrdering`** gives `progressOrderingWins`, `libraryResumeWins`,
`acceptChapterReadState` and the merge's `progressWins` as operators.

**`LocalDbTabs`** has one variable per piece of tab state (`raw`, `base`,
`mutationSeq`, `flushedSeq`, `target`, `timer`, `flight`, `saveError`), one
shared `store`, and one action per store operation together with the code up to
the next `await`: `FlushStart` exports and begins the write, `FlushSaved` or
`FlushConflict` is its answer, `FlushMerge` the read and merge, `FlushRetry` or
`FlushRetryLost` the single retry, `FlushReloaded` the sync. A snapshot is a set
of inserted rows, each named by tab and sequence number, and one progress value
per chapter and library entry, or the fact that its parent row is absent. All
other columns are left out: the code never merges them. A start that fails after
the sql.js module has loaded stays as a rejected promise (`sess` "failed",
`local-db.ts:155` returns it out of its try block): every flush rejects
(`FlushRejects`) until `ResetSession`, the provider's retry, which throws the
unflushed writes away and takes the banner down in the same call. History
variables (`held`, `reloads`, `durable`, `cleared`, `dropped`) record what the code
does not remember; `dropped` is the last write that a reset has thrown away.

**`PersistedBytesStore`** is the contract: a call performs once, atomically, at
some moment between request and answer, or fails; its write is a compare and
swap. **`PersistedBytesIdb`** has the real steps: open the database, begin a
transaction, request, compare, put, commit or abort, answer; transactions that
overlap run one after the other, as IndexedDB does (external to the repository).

**`LibraryTitles`** keeps the tables that point at each other. One action is one
call of the database, which runs alone: SQLite is synchronous in a tab, and the
data host serves one call at a time. What callers read earlier is stale when
their next call runs: the chapters a refresh has listed (`UpsertChapter` takes
any title), the title an open reader writes under, the checks of a progress event
(`Check`, `Write`, `Look`, `Resume`). Merge, unmerge, migration and rollback are
one action each; the last two are no transaction in the code and may break off
between any two of their statements (`Crashes`). A mapping stands for its provider
and remote id, which are unique, so the branches of merge that look for duplicates
cannot be reached and are left out; of `mergedFromIds` only the set matters.
A single mark writes at a time that beats the stored one (`SetCompleted`), a mark
of all previous chapters writes at the time it is, row by row, under the guard of
the statement (`MarkPrevious`). The rows are those of the stored snapshot: in a
browser another tab that has lost the race merges its progress into it
(`MergeReadState`, `MergeResume`), under the title the chapter has in that tab; the
history variable `strayed` marks the read states that went to another title so,
while they stand. `Restore` puts one of the documents `Backups` in place of all
rows, if the checks of the preview (`Previewed`) find no error. Documents carry
their chapters, as those of the present version do; see 7.

**`DownloadEngine`** has the table (`row`, `queue`), the pump (`pump`, `picked`,
`wake`), the task as one record with its program position, and the user's calls
as records. One action is one database or cache operation together with the code
after its answer, so every check-then-write of the code (`markStart`, `finish`,
`persistProgress`, `startOne`, `cancel`, the error handler) is two actions. When
a task ends the pump asks for the next row before a call that waited for the
task goes on, as the order of the promise reactions has it. The page cache is
reduced to which pages are stored with the download retention; a page is stored
in one step, and a removal deletes the listed pages in one step, or some of them
when it fails (`CallFails`). Row fields other than status and completed count are
left out. Every rejection has its action: `RunThrows` (an operation of `run`),
`CatchThrows` (the handler's own), `PumpFails` (`nextTask`), `WriteIgnored` (a
progress write), `CallFails` (a call) and `WorkerRejects` (a worker of the pass).
After the last one `Promise.all` ends the pass for the task, and the other workers
go on as a stray pass (`stray`) whose pages and row writes nobody waits for; the
actions of a pass take the pass as their parameter. One stray pass at a time is
modelled: another worker of a task rejects only when there is none. History
variables: `halted`, the cancelled chapters; `abandoned`, the chapters whose
handler failed or that left a stray pass behind; `torn`, see 5.

**`RequestGate`** is `acquire` with the client that sends through it: `Look` is
what runs from a call, or from the end of a sleep, to the next sleep; time is a
clock that `Tick` advances; a 429 moves the horizon. **`LibraryUpdates`** extends
it with the check: items, workers, one reservation of the next start per check,
the report, the titles' chapter and unread counts, and the page that starts,
cancels and forgets a check. Of a title only numbers of chapters are kept.

**`PageCache`** has the blob store and the rows apart, page fills, marks,
evictions, removals, the orphan sweep, the scheduler of maintenance and the
reader locks, one action per store or lock-manager operation. A mark lists the
rows of a chapter (`BeginMark`) and upserts them one by one without the keys'
locks (`MarkRow`), which inserts a row that was deleted meanwhile. In the web
build the blob store is one for all tabs: `StoreElsewhere` and `DeleteElsewhere`
are what other tabs do to it, under the key's lock and with an eye on their own
rows only. With `MainStores` the bytes come from the desktop's main process,
outside the page's write lock. History variables: `late`, the readers that opened
a chapter after a pass had looked; `revived`, the rows a mark wrote when their
bytes were gone or being deleted; `robbed`, the rows whose bytes another tab
deleted. The last two are cleared when the bytes are stored again.

**`PageStore`** has one page of the main process's store: bytes, sidecar and
temporaries as files, the queue of its tasks, and listings that read the directory
first and reap later. One action is one file operation; the process may die
between any two, and a file may be damaged or the directory vanish, upon which a
put is repeated once (`MissRoot`, `RepeatPut`). A look at a file may fail, and
the store takes that for a missing file: at the second look of a leftover
(`LookAgainFails`), at both readings of a sidecar (`ReadSidecarFails`,
`CheckSidecarFails`), and before the two deletes of a sidecar that cannot be
served, where it skips the file (`SkipSidecar`, `SkipPage`). History variables:
`settled`, what the last task of the page has left; `misread`, that a look at a
good sidecar has failed since.

**`DataHost`** has the database, the host's serial queue with its captured changes,
the two directions of the port, the client's pending calls, and one window's list
with an optimistic edit and a reader that comes and goes. The host may die; main
then starts another one and hands over a new port.

`MC*` modules hold only model values and bounds. Operators called "Mutated form
of ..." are plausible bugs, used to see that each property can fail: with the
operator in the place of the original its run must report a violation.

## 4. Runs

| Run | Instance | Shows |
|---|---|---|
| `tabs_main` (`MCLocalDbTabs.cfg`) | 2 tabs, 2 + 1 writes, 1 chapter, 1 entry, 2 events of one millisecond, store empty, seeded or unreadable | `TypeOK` (with the coordinator's counter bounds), `FlushedWritesAreDurable`, `SessionsTrackStore`, `MergeKeepsCommitted`, `OverwriteOnlyAfterMerge` |
| `tabs_live` | 2 tabs, 1 write each, 1 entry, 2 rejected operations, failed starts or resets | `ClosedStaysClosed`; `UnsavedIsVisible`; `WritesSettle`: a write is flushed, or the banner is up, or a reset has dropped it, or the page is gone |
| `tabs_lost_commit` | as `tabs_main`, smaller | violation of `NoCommitLost` |
| `idb` | 3 overlapping calls of 2 pages, versions up to 2 | `TypeOK`, `ImplementsStore` (refinement), `CallsSettle`; deadlock checked |
| `downloads` | 2 chapters, 2 pages, 2 workers, 2 passes, 2 calls, 1 rejection (of the handler, the pump's read, a page worker or a call), 1 close | `TypeOK`, `CancelIsFinal`, `RowMatchesPages`, `QueueDrains` |
| `downloads_removal` | 1 chapter, 1 page, 2 calls | violation of `RemovalLeavesNothing` |
| `updates` | 3 titles (1 without provider), 2 workers, paces 1 and 2 in a window of 2, waits of 1 and 3, 1 chapter published or read meanwhile, 1 failed write | `TypeOK`, `GrantsWithinPace`, `ListingsAreSpaced`, `NothingIsLeftOut`, `HorizonIsKept`, `KeepsToTheGate` (refinement), `RunsEnd` |
| `page_cache` | 2 chapters of 1 page, limit of 1 page, 2 fills, 1 eviction or removal, the maintenance pass, 1 reader view, 1 mark, failing call or doing of another tab | `TypeOK`, `RowNeverOutlivesItsBlob`, `OpenChaptersAreSpared`, `PassesEnd`, `RequestsAreServed` |
| `page_store` | 2 puts, 1 delete, 2 listings at once, 1 failed operation, 1 failed look, 1 crash, 1 damaged file or vanished directory | `TypeOK`, `NoStaleSidecar`, `SettledPageStays`, `SweepsReapLeftovers`, `CallsEnd` |
| `data_host` | 2 rows, 1 write of another window, 1 edit, 1 crash, 1 fault, 1 reader that leaves | `TypeOK`, `SavedEditIsShown`, `ListCatchesUp`, `EditsEnd` |
| `titles` | 3 titles, 2 refreshable mappings and 1 other, 2 chapters, 3 edits (user calls that may die half way, marks, another tab's merges, restores of 2 backups), 1 progress event, clock up to 2 | `TypeOK`, `RowsAreOwn`, `PointersStayOwn`, `ProgressNeverGoesBack` |
| `titles_ghost` | as `titles`, no crashes | violation of `TitlesKeepASource` |

Why these bounds. A conflict needs two tabs; the second write of one tab is the
one that comes after an export, a merge or a sync; two events of one time stamp
reach the tie-break, one chapter and one entry reach both merge paths. Three
store calls of two pages give a call behind another page's call and behind one of
its own page. A download needs a second page for a partial result and a second
worker for overlapping progress writes, a second chapter for the queue behind the
current one, and two calls to overlap each other and the task. The gate needs two
callers that wake together and two paces; three titles are one more than workers.
An eviction needs a page over the limit and one to spare. Two puts tell the bytes
of one from the other's sidecar, two listings at once let one read before what
the other deletes. An edit and one write of another window meet in the list. A
merge, an unmerge and one more edit are the shortest round trip with something in
between; three edits are what TLC reaches with the other actors there (1.7
million states). A restore of a merged library and an unmerge or a late event
after it fit in, as do a merge of titles, another tab's merge of a read state and
an unmerge. In `page_cache` one bound covers failing calls, marks and other tabs'
doings, since one of each kind beside the fills, passes and readers is what the
exceptions and the proofs are about. What
needs more is covered by the proofs, which fix no number: a third tab between
read and retry was met there, a quarantine between the read of a merge and its
write, and is why `MergeKeepsCommitted` and `OverwriteOnlyAfterMerge` speak of
stores that no quarantine has cleared.

Symmetry is not used.

Deadlock. `CHECK_DEADLOCK FALSE` in all instances but `idb`: pages may all be
closed and writes, calls or edits used up, and then the system rightly stands
still.

Fairness. The event loop keeps running the code of a page that is open: timers
fire, promise reactions run, messages arrive, store and network operations answer
or fail. So the steps of a flush and its timer and events, of a store call, of the
pump, the task and a started user call, of the gate's sleepers, the network and
the workers of a check, of a cache pass, its scheduler and its lock requests, of
a file operation, and of the host, its port and its restart are weakly fair.
Nothing the user does (open, write, close, retry, show a page, call, cancel,
leave) is fair, nor any failure. The fairness of `TaskStep` as a whole is enough,
since a task has only finitely many steps. An operation that may hang in the code
(a transaction that aborts at its commit) is a state of its own, "hung", in
`PersistedBytesIdb`, and `CallsSettle` excludes exactly it. Clocks advance fairly
and wait for steps that are due, else time would run past every bound.

## 5. Findings

Violation runs, with the quoted claim in `PROJECT.json`:

* `NoCommitLost`: after a merged commit the session expects the merged version
  without holding the merged snapshot (`persistent-database.ts:143`); its next
  flush overwrites the other tab's commit with no conflict.
* `RemovalLeavesNothing`: a chapter removed while it waits in the queue can keep a
  page without a row (`download-engine.ts:454`).
* `TitlesKeepASource`: a refresh of the id a merge has absorbed inserts the title
  again, without a source (`identities.ts:531`).

Seen in the models or while writing them, without a run of their own. The first
four are stated in the modules and violated there:

* `ClearsOnlyUnreadable`: the quarantine clears whatever is stored by then
  (`persistent-database.ts:101`), also a good snapshot of another tab.
* `NothingLocalIsLeft`: after "reloaded" a row may be in the working copy only and
  count as flushed (`local-db-flush.ts:28`).
* `TabsConverge`: a merged commit pings nobody (`local-db.ts:464`).
* `DoneTitlesAreCounted`: a recount equal to the count the check listed is not
  written, though the stored one has changed meanwhile (`library-activity.ts:170`).
* `PageCache` with `MainStores` violates `RowNeverOutlivesItsBlob`: the desktop's
  main process stores the bytes before the page takes its write lock
  (`page-cache-store.ts:179-194`), so the orphan sweep may delete them in between
  and the row is inserted for nothing. The theorem on it is one about the web
  build; what holds in both is `DeletesOnlyOrphans` (see 6).
* Downloads: "downloading" may overwrite "cancelled" for the time until the abort
  (the run then ends as failed or partial instead of cancelled), and a retry that
  overtakes the end of the aborted run is ended as failed by it.
* Merge and unmerge leave `downloads.manga_id` where it was, though
  `identity-merge.ts:1082` says "Every reference is moved, so the source row can
  go."; they count unread chapters over all mappings of the title
  (`identities.ts:388`) where the followed one counts elsewhere.
* A rollback to "no active mapping" reports restored and leaves the column as it is
  (`provider-migration.ts:529`: an undefined value is no update), and it may move a
  default that the batch never changed (`provider-migration.ts:568`). A crash
  between the statements of a migration leaves no undo row. A migration onto the
  derived id's own provider gives the mapping a generated id, and a later refresh
  fails on the unique index after it has inserted the title.
* An unmerge may hand out an absorbed id that was another remote's; a reader that
  is still open under the old title moves that title's resume afterwards.

Exceptions. Where the code leaves a case open, the property names it by a history
variable and excepts that case alone:

* `RowMatchesPages` carries the limit of `RemovalLeavesNothing`: excepted (`torn`)
  is a chapter whose removal was overlapped by an activity that had already read
  its row, failed midway or was cut off by a close. The exception ends with a removal
  on its own, or a download that finishes with what is stored.
* `CancelIsFinal` excepts `abandoned` chapters: "downloading" had overwritten
  "cancelled" when the error handler failed (`download-engine.ts:341` after `:118`),
  so the cancel returns with the row "downloading"; or workers that a rejected one
  left behind go on (`page-cache-store.ts:742`). The exception ends when the chapter
  is queued or cancelled again.
* `QueueDrains` excepts a pump that a rejection has ended, of the handler or of
  `nextTask` (`download-engine.ts:363`): every waiting row then stays until a chapter
  is queued or the app starts again. And it excepts the "downloading" rows of abandoned
  chapters once the pump is idle.
* `RowNeverOutlivesItsBlob` excepts `revived` rows (`page-cache-store.ts:526`, a mark
  that upserts what a delete has removed meanwhile) and `robbed` ones
  (`orphan-blobs.ts:71`, another tab of the web build deletes bytes it has no row for).
  The page is fetched again when it is displayed.
* `SettledPageStays` excepts `misread` (`page-store.ts:318` and `:189`): any error of a
  look at a sidecar counts as a missing sidecar, so one failed look lets a listing
  delete a good page. `SweepsReapLeftovers` excepts a listing that skipped a file it
  could not look at.
* `UnsavedIsVisible` and `WritesSettle` except writes that a reset has `dropped`:
  the provider's retry takes the banner down (`local-db-provider.tsx:74`).
* `RowsAreOwn` and `ProgressNeverGoesBack` except `strayed` read states
  (`merge-uncommitted-progress.ts:28`): a conflict merge writes `manga_id` as the losing
  tab has it, also where the chapter has moved to another title meanwhile. Such a state
  makes the next exported backup fail its own preview
  (`restore-preview.ts:365`).

## 6. Proofs

Proof modules extend the component's module and TLAPS. Assumptions: those named in
the modules (`LocalDbAssumption` and the like: disjoint names, finite bounds as
natural numbers); TLC evaluates them in the runs. All theorems hold for any number
of actors, items and faults, and for both builds but for `BlobTheorem`. Where a
property excepts a case (see 5), so does its theorem.

`LocalDbTabsProofs`:
* The ordering of progress records is asymmetric, transitive and total on different
  records, that of resume records asymmetric and transitive
  (`ProgressOrderingTotal` and its neighbours). So the result of merges does not
  depend on their order, and the lemmas on merging rest on it.
* `TypeCorrect`: `TypeOK` is inductive. The coordinator's bounds are part of it.
* `ClosedSafe`: `ClosedStaysClosed` from `ClosedInv` = `TypeOK` and: a closed
  session holds no timer, no request, no live flight; a live flight belongs to an
  open session. The property speaks of one kind of step; the invariant is needed to
  know what a flight may still hold when a reset meets it.
* `UnsavedSafe`: `UnsavedIsVisible` needs `LateWritesAreWaitedFor`: a write after
  the export of the flight in progress has a timer or a request of its own, else
  settling that flight would leave it unnoticed. `dropped` only says which writes a
  reset threw away; any later write is covered again.
* `DurableSafe`: `FlushedWritesAreDurable` needs that rows in the stored snapshot
  are in `durable` and that a flight's export contains all rows up to its
  sequence number.
* `SessionsSafe`, `MergeSafe`, `OverwriteSafe`: from `TrackInv`, that until a
  quarantine the working copy and the flight of every tab extend what the version
  they remember stands for, with `Extends` (rows, parents, progress not behind)
  reflexive and transitive.

`PersistedBytesIdbProofs`: `IdbTypeSafe`, `ComparedSafe` and `IdbImplementsStore`
from `IdbInv` = types; at most one transaction that may write runs at a time; a
running one waits for none; a requested write belongs to an open write
transaction; a decided transaction has its answer; the compared version stays. The
refinement maps each commit to the abstract performance and every other step to a
request, an answer or a stutter.

`LibraryUpdatesProofs`, the gate: `PaceTheorem` and `HorizonTheorem` from
`GateInv`. Its core says what `timestamps` still means after old grants were dropped: it is a suffix
of the history of grants, in order, and everything before it has left the window;
and a horizon that still lies ahead is the one the gate holds.

`LibraryUpdatesProofs`, the checks: `ChecksKeepToTheGate`, the refinement: every
step of the checks is a step of the gate or leaves it alone. `ChecksKeepThePace` and
`ChecksKeepTheHorizon` then follow from the gate's theorems without a look at the
checks. `SpacingTheorem`: the reserved starts of a check's waiting workers are an
interval apart, because `lastCallAt` is never before any of them.
`UpdatesTypeSafe` and `NothingLeftOutTheorem` come from `QueueInv`: each title of a
check that goes on is settled, or among the jobs behind the cursor, or with a busy
worker (`SharesOK`). The end of a check looks only at its workers, so it needs that
account of the titles, that the jobs hold every title that was not skipped (`JobListProperties`, shown at
the least index of the library where it could fail), and that the workers of a
check share one signal. That no unread count is negative needs that a chapter which was read is
stored. `JobList` is a recursive function because the provers cannot expand
`SelectSeq`.

`LibraryTitlesProofs`: one invariant, `TitlesInv` = types; a title that is gone has
no row and no entry; a chapter has the title of its mapping and a read state that
of its chapter, or is `strayed`; no time lies in the future. `TitlesTypeSafe` and
`RowsTheorem` are parts of it. That a restore keeps it needs only the checks of
`Previewed` and the types of the documents (`BackupsAssumption`): the preview does
look at every row the invariant speaks of. `PointersTheorem` and `ProgressTheorem` are action properties: from a
state of the invariant no call leaves a pointer on a mapping of another title, nor
takes a read state away or moves it back, but for a restore and for read states
that have strayed. They are stated of steps and not of states because a ghost (see 5) already has a pointer that is not its own.

`DownloadEngineProofs`: `DownloadInv` = types of every field; `Control`, which
relates pump, task, position and the pages, writes and results the position
allows; `QueueOK`, that the queue lists exactly the rows, once each; `HaltedOK`,
which strengthens `CancelIsFinal`: only its own task can make a cancelled row
active again, such a task has its last write still to come, and once the cancel
has returned there is no task or one that has found or will find the row
cancelled; `StrayOK`, that a stray pass fetches and its chapter is `abandoned`,
so that it cannot disturb `HaltedOK`; and `PagesOK`, which strengthens
`RowMatchesPages` by what task, stray pass, pump and calls know of the stored
pages. `RowMatchesTheorem` holds beside stray passes without an exception for them. Each is needed for the other actors'
steps: a read row is written after they have run.

`PageStoreProofs`: `PageInv` = types; `QueueOK`, the queue holds each activity once
and only its head has a step; `Phases`, which temporaries and files a task at a
given position has and which bytes they hold; and the two properties
`NoStaleSidecar` and `SettledPageStays` themselves. A crash empties the queue at
any position, so `Phases` must leave every file state a start can meet.
`SweepTheorem` needs `SweepInv` besides: of a listing that nothing else was called
beside, `AloneKnows` says at each position what its reading and the task it has
queued still cover; whatever is left over and not yet dealt with is in what it
noted, and bytes without a sidecar are among it (`Vouched`). It is claimed of
listings that have not skipped a file (`Clean`).

`PageCacheProofs`: `CacheInv` = types; a pass that holds the readers' lock is alone
with it; `SparedOK`, what a pass has noted of the readers covers all that were there
when it looked, and nothing it has chosen is of a noted chapter; `DoomedOK`, the
keys a pass is about to delete have no writer, and no row but one that a mark has
written since. `CacheTypeSafe`, `SparedTheorem` and `OrphanTheorem` follow, for both
builds; the last is the action property `DeletesOnlyOrphans`, stated in the proof
module: at the moment bytes are deleted nobody writes them and nobody has a row for
them, except for a `revived` row, and for another tab's delete, which looks at no
row of this one. `BlobTheorem` assumes the web build
(`~MainStores`, a constant of the module, and the value of the run) because the
desktop build violates it, see 5; there the bytes are stored under the lock the row
is written in, which is `BytesBeforeRow`.

`DataHostProofs` has two invariants.
* `HostInv`: each call waits under an id of its own, and whatever request or answer
  is on its way under that id is what the call expects (`CarriersOK`): the kind of
  read that is running, the rows of the edit, and an answer as recent as the edit
  that waits for it. `DataHostTypeSafe` and `SavedEditTheorem` follow: late answers
  to calls that timed out, or were left on a port that was closed, have ids nobody
  waits under.
* `ListInv`: each row that the list does not show as it is in the database is
  covered (`CoveredOK`). Its change is captured and not yet broadcast or on its
  way (`Told`), a read that will start later brings it (`WillReload`, `WillPatch`),
  the host is being reopened, or the read under way asks for it (`UnderWay`).
  `FreshOK` says of what such a read has brought so far that it is what the database
  has, or that a later read is due: a row may change between two calls of one patch.
  `DutyOK` is the host's part: nothing is captured while it is idle, so no change is
  overwritten before it is announced. Without a port nothing is claimed; the new
  port's first call is the reopening, which reloads.

  `QuietTheorem` follows: a list that waits for nothing (`Quiet`: no message, call,
  read or timer is left, and the host is idle) shows the database, unless a read
  failed on its own. It is the safety half of `ListCatchesUp`, for any number of
  rows, writes, edits, crashes and timeouts; that a list becomes quiet is left to TLC.

`DeletesOnlyOrphans` and `QuietListIsCurrent` are stated with their proofs and are
not properties of a run.

Only model-checked: liveness (`WritesSettle`, `CallsSettle`, `QueueDrains`,
`RunsEnd`, `PassesEnd`, `RequestsAreServed`, `CallsEnd`, `ListCatchesUp`,
`EditsEnd`), which TLAPS does not reach. Every invariant and every action property
of the passing runs is proved. No module that is proved about has a RECURSIVE
operator.

## 7. Not modelled

See `PROJECT.json` for each component. In the modelled ones: crash of the browser
between IndexedDB's commit and its event is the close of a page; storage eviction
by the browser is not modelled; a store call that hangs is in
`PersistedBytesIdb` but not in `LocalDbTabs`; of the download engine the count of
freed bytes, a second window, the engine of a session whose handle was replaced,
and a second stray pass beside the first; of the page cache covers and the clear
command; of the data host windowed collections; of titles their metadata, cache
rows, categories and history; of backups the export, and documents of versions 1
to 3, which carry no chapters: a restore of one keeps the local chapters whose
title and mapping the document has, without a check that it has them together
(`restore-apply.ts:480`), so a chapter's title may then differ from its mapping's.

Some hazards are known and stand here or in 5 instead of in the list, for no
property covers them:

* a second reader that opens a chapter after a pass has listed the open ones
  (`cache-maintenance.ts:130`; `late` of `PageCache` marks it and
  `OpenChaptersAreSpared` excepts it, for the code keeps readers out only when nobody
  was present);
* the reopening of the data host that fails after a crash and that nobody repeats
  (`data-host-client.ts:156`; `missed` of `DataHost`);
* the ping a merged commit does not send (`local-db.ts:464`; `TabsConverge`), and the
  cases of `ClearsOnlyUnreadable`, `NothingLocalIsLeft`, `DoneTitlesAreCounted`, of
  the desktop's `MainStores` and of a retry that overtakes the aborted run, all in 5;
* a progress event of which a later await rejects (`persist-reader-progress.ts:50`):
  the read state then stands without resume and history, and a repeated event loses
  against the row it has written itself (`Fails` of `LibraryTitles`);
* a mark as read that lists an ordinary page just before a download adopts it
  (`page-cache-store.ts:525`): its upsert takes the retention of a download back,
  although line 512 says that reading never does. The download's last
  `markChapterPagesDownloaded` repairs what came before it;
* the restore of a document without chapters, above.

Most of the repository's lines are outside on purpose. Of the 586 implementation
files the larger part is presentation: React components, styles, routes that only
render, the design system and its lint rules. Provider adapters parse external
documents; repositories are mostly listings and searches in SQL; layout helpers
are pure functions. They have no interleaving, no recovery and no ordering a
model would tell apart, and unit tests reach them well.
