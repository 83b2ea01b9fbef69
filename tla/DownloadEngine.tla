--------------------------- MODULE DownloadEngine ---------------------------
(***************************************************************************)
(* The download engine of one window: apps/web/app/features/downloads/     *)
(* download-engine.ts over packages/db/src/repositories/downloads.ts.  One *)
(* pump takes the unfinished rows of the downloads table one after the     *)
(* other; the user queues, cancels, retries and removes chapters meanwhile.*)
(*                                                                         *)
(* Granularity.  One action per database or cache operation, together with *)
(* the code that runs from its answer up to the next operation.  The       *)
(* operations are atomic (in Electron the data host runs them one at a     *)
(* time), the code between two of them works with what it read before.     *)
(*                                                                         *)
(* Every chapter has the pages Pages.  The page cache is reduced to which  *)
(* of them are stored with the download retention (packages/cache/src/     *)
(* page-cache-store.ts); pages the reader caches are left out.             *)
(*                                                                         *)
(* A worker of a pass that rejects ends the pass for the task, not for the *)
(* other workers: they go on as a stray pass that nothing waits for.  One  *)
(* stray pass at a time is modelled.                                       *)
(***************************************************************************)
EXTENDS Naturals, FiniteSets, Sequences

CONSTANTS
    Chapters,
    Pages,         \* the page indexes of a chapter
    Callers,       \* calls of the user that may overlap
    None,          \* no chapter
    Workers,       \* pages fetched at the same time (4 in page-cache-store.ts)
    PageAttempts,  \* passes over the missing pages (PAGE_ATTEMPTS, 3)
    MaxCalls,      \* bound: calls the user makes
    MaxFaults,     \* bound: failures of the error handler, the pump's read,
                   \* a pass's worker and the user's calls
    MaxCloses      \* bound: how often the app is closed

ASSUME DownloadAssumption ==
    /\ None \notin Chapters
    /\ IsFiniteSet(Pages)
    /\ {Workers, PageAttempts} \subseteq Nat \ {0}
    /\ {MaxCalls, MaxFaults, MaxCloses} \subseteq Nat

VARIABLES
    row,           \* the downloads table
    queue,         \* its chapters, by createdAt
    stored,        \* the pages the cache holds for each chapter
    open,          \* is the app open and its engine started?
    pump,          \* where the pump stands
    picked,        \* the row nextTask answered with
    wake,          \* wakeRequested
    task,          \* the row in process
    stray,         \* a pass whose task has gone
    call,          \* the user's calls
    calls, faults, closes

(***************************************************************************)
(* History variables.  halted: chapters that were cancelled and not queued *)
(* since.  abandoned: chapters whose error handler failed or whose pass    *)
(* was left to stray workers, and not queued or cancelled since.  torn:    *)
(* chapters whose removal was overlapped by an activity that had already   *)
(* read something about them, failed midway or was cut off by a close; up  *)
(* to a removal on its own, or a download that records what is stored.     *)
(***************************************************************************)
VARIABLES halted, abandoned, torn

dbVars == <<row, queue, stored>>
pumpVars == <<pump, picked, wake>>
boundVars == <<calls, faults, closes>>
history == <<halted, abandoned, torn>>
vars == <<dbVars, open, pumpVars, task, stray, call, boundVars, history>>

-----------------------------------------------------------------------------
(* The downloads table *)

Status ==
    {"none", "queued", "downloading", "complete", "failed", "partial", "cancelled"}

Row == [status : Status, completed : Nat]

NoRow == [status |-> "none", completed |-> 0]

Active == {"queued", "downloading"}

(* The guard of every write of a task: the row is there and not cancelled. *)
GoesOn(seen) == seen.status \notin {"none", "cancelled"}

(* upsertDownload: createdAt is that of the row it replaces. *)
Upsert(c, status, completed) ==
    /\ row' = [row EXCEPT ![c] = [status |-> status, completed |-> completed]]
    /\ queue' = IF row[c] = NoRow THEN Append(queue, c) ELSE queue

(* removeDownload: the queue without c, which is in it at most once. *)
Without(q, c) ==
    IF \A i \in DOMAIN q : q[i] # c
    THEN q
    ELSE LET at == CHOOSE i \in DOMAIN q : q[i] = c
         IN  [i \in 1 .. Len(q) - 1 |-> IF i < at THEN q[i] ELSE q[i + 1]]

NothingPicked == [chapter |-> None, completed |-> 0]

(* The rows in a set of states, by their place in the queue. *)
Places(r, q, states) == {i \in DOMAIN q : r[q[i]].status \in states}

(* The oldest of them, as the pump takes it. *)
Oldest(r, q, places) ==
    IF places = {}
    THEN NothingPicked
    ELSE LET first == CHOOSE i \in places : \A j \in places : i <= j
         IN  [chapter |-> q[first], completed |-> r[q[first]].completed]

(* Mutated form of NextTask: interrupted downloads are not taken up. *)
NextQueued(r, q) == Oldest(r, q, Places(r, q, {"queued"}))

(* nextTask: the oldest unfinished row. *)
NextTask(r, q) == Oldest(r, q, Places(r, q, Active))

-----------------------------------------------------------------------------
(* Tasks and calls *)

NoTask ==
    [chapter |-> None, pc |-> "none", completed |-> 0, seen |-> NoRow,
     aborted |-> FALSE, full |-> FALSE, attempt |-> 0, passFailed |-> FALSE,
     cached |-> {}, todo |-> {}, fetching |-> {}, writes |-> 0,
     checked |-> NoRow, writing |-> FALSE, lost |-> 0, result |-> "none"]

NoCall ==
    [kind |-> "none", chapter |-> None, pc |-> "none", seen |-> NoRow, listed |-> {}]

(* A removal has deleted the pages of c and not yet its row. *)
BeingRemoved(c) ==
    \E u \in Callers : call[u].chapter = c /\ call[u].pc = "row"

(* A cancel has changed the row of c and not yet returned. *)
BeingCancelled(c) ==
    \E u \in Callers :
        call[u].kind = "cancel" /\ call[u].chapter = c /\ call[u].pc \in {"abort", "wait"}

(* current?.chapterId === chapterId *)
IsCurrent(c) == task.chapter = c

(* The calls that await currentTask go on. *)
Released ==
    [u \in Callers |->
        IF call[u].pc # "wait" THEN call[u]
        ELSE IF call[u].kind = "remove" THEN [call[u] EXCEPT !.pc = "read"]
        ELSE NoCall]

(***************************************************************************)
(* The end of process: current is null again and the pump asks for the     *)
(* next row before any call that awaited the task goes on.                 *)
(***************************************************************************)
EndTask ==
    /\ task' = NoTask
    /\ pump' = "picked"
    /\ picked' = NextTask(row', queue')
    /\ call' = Released
    /\ UNCHANGED <<wake, open, stray, boundVars, halted, abandoned>>

(* A step of the task that goes on with record t. *)
Continue(t) ==
    /\ task' = t
    /\ UNCHANGED <<pumpVars, open, stray, call, boundVars, history>>

-----------------------------------------------------------------------------
Init ==
    /\ row = [c \in Chapters |-> NoRow]
    /\ queue = <<>>
    /\ stored = [c \in Chapters |-> {}]
    /\ open = FALSE
    /\ pump = "idle"
    /\ picked = NothingPicked
    /\ wake = FALSE
    /\ task = NoTask
    /\ stray = NoTask
    /\ call = [u \in Callers |-> NoCall]
    /\ calls = 0
    /\ faults = 0
    /\ closes = 0
    /\ halted = {}
    /\ abandoned = {}
    /\ torn = {}

-----------------------------------------------------------------------------
(* The pump *)

(* The first subscriber starts the engine. *)
Start ==
    /\ ~open
    /\ open' = TRUE
    /\ pump' = "picked"
    /\ picked' = NextTask(row, queue)
    /\ UNCHANGED <<dbVars, wake, task, stray, call, boundVars, history>>

(* The page is closed: everything but the tables is gone. *)
Close ==
    /\ open
    /\ closes < MaxCloses
    /\ closes' = closes + 1
    /\ open' = FALSE
    /\ pump' = "idle"
    /\ picked' = NothingPicked
    /\ wake' = FALSE
    /\ task' = NoTask
    /\ stray' = NoTask
    /\ call' = [u \in Callers |-> NoCall]
    /\ torn' = torn \cup {c \in Chapters : BeingRemoved(c)}
    /\ halted' = {c \in halted : ~BeingCancelled(c)}
    /\ UNCHANGED <<dbVars, calls, faults, abandoned>>

(* There is a row: process it, which begins with loadChapter. *)
Process ==
    /\ pump = "picked"
    /\ picked.chapter # None
    /\ pump' = "busy"
    /\ task' = [NoTask EXCEPT !.chapter = picked.chapter, !.pc = "load",
                              !.completed = picked.completed]
    /\ picked' = NothingPicked
    /\ UNCHANGED <<dbVars, wake, open, stray, call, boundVars, history>>

(* There is none: the pump stops, or starts over when it was woken. *)
Rest ==
    /\ pump = "picked"
    /\ picked.chapter = None
    /\ IF wake
       THEN picked' = NextTask(row, queue) /\ UNCHANGED pump
       ELSE pump' = "idle" /\ UNCHANGED picked
    /\ wake' = FALSE
    /\ UNCHANGED <<dbVars, open, task, stray, call, boundVars, history>>

(* The pump's end by a rejection: it starts over only when it was woken. *)
StopPump ==
    /\ IF wake
       THEN pump' = "picked" /\ picked' = NextTask(row, queue)
       ELSE pump' = "stopped" /\ picked' = NothingPicked
    /\ wake' = FALSE

(* nextTask rejects, whatever it would have answered. *)
PumpFails ==
    /\ pump = "picked"
    /\ faults < MaxFaults
    /\ faults' = faults + 1
    /\ StopPump
    /\ UNCHANGED <<dbVars, open, task, stray, call, calls, closes, history>>

(* pump(): woken while it runs, it asks again before it stops. *)
Pump ==
    IF pump \in {"idle", "stopped"}
    THEN /\ pump' = "picked"
         /\ picked' = NextTask(row', queue')
         /\ UNCHANGED wake
    ELSE /\ wake' = TRUE
         /\ UNCHANGED <<pump, picked>>

-----------------------------------------------------------------------------
(* The task: run *)

At(pc) == task.pc = pc

(* finish, its first operation: read the row before settling it. *)
ReadToFinish(result, completed) ==
    [task EXCEPT !.pc = "finish", !.seen = row[task.chapter],
                 !.result = result, !.completed = completed]

(* loadChapter answers for a task that was aborted meanwhile. *)
LoadAborted ==
    /\ At("load")
    /\ task.aborted
    /\ UNCHANGED <<dbVars, torn>>
    /\ EndTask

(* It answers with the pages: markStart reads the row. *)
LoadPages ==
    /\ At("load")
    /\ ~task.aborted
    /\ Continue([task EXCEPT !.pc = "start", !.seen = row[task.chapter]])
    /\ UNCHANGED dbVars

(* The chapter is missing, or it has no pages or no provider. *)
LoadNothing ==
    /\ At("load")
    /\ ~task.aborted
    /\ \E completed \in {task.completed, 0} :
         Continue(ReadToFinish("failed", completed))
    /\ UNCHANGED dbVars

(* Mutated form of MarkStart: the row is not checked. *)
MarkStartUnchecked ==
    /\ At("start")
    /\ Upsert(task.chapter, "downloading", task.completed)
    /\ UNCHANGED stored
    /\ Continue([task EXCEPT !.pc = "list"])

(* markStart writes, unless it read that the download was stopped. *)
MarkStart ==
    /\ At("start")
    /\ UNCHANGED stored
    /\ IF GoesOn(task.seen)
       THEN /\ Upsert(task.chapter, "downloading", task.completed)
            /\ Continue([task EXCEPT !.pc = "list"])
       ELSE /\ UNCHANGED <<row, queue, torn>>
            /\ EndTask

(* listCachedChapterPageIndexes: which pages are there already? *)
ListCached ==
    /\ At("list")
    /\ Continue([task EXCEPT !.pc = "pass", !.cached = stored[task.chapter]])
    /\ UNCHANGED dbVars

(* prefetchChapterPages over the remaining pages, or nothing left to do.   *)
(* markChapterPagesDownloaded and the read before finish follow the last.  *)
StartPass ==
    /\ At("pass")
    /\ LET remaining == Pages \ task.cached
       IN  IF remaining = {} \/ task.aborted
           THEN Continue([task EXCEPT !.pc = "settle", !.seen = row[task.chapter]])
           ELSE Continue([task EXCEPT !.pc = "fetch", !.todo = remaining,
                                      !.passFailed = FALSE,
                                      !.attempt = @ + 1])
    /\ UNCHANGED dbVars

-----------------------------------------------------------------------------
(* A pass over the missing pages, the task's or a stray one *)

Passes == {"task", "stray"}

PassOf(w) == IF w = "task" THEN task ELSE stray

Fetching(w) == PassOf(w).pc = "fetch"

(* A step of a pass that goes on with record t; of a stray one the failures *)
(* are no longer counted.                                                   *)
GoOn(w, t) ==
    /\ IF w = "task"
       THEN task' = t /\ UNCHANGED stray
       ELSE stray' = [t EXCEPT !.passFailed = FALSE, !.full = FALSE] /\ UNCHANGED task
    /\ UNCHANGED <<pumpVars, open, call, boundVars, history>>

(* A worker takes a page, unless the signal is aborted. *)
TakePage(w, p) ==
    LET t == PassOf(w)
    IN  /\ Fetching(w)
        /\ ~t.aborted
        /\ p \in t.todo
        /\ Cardinality(t.fetching) + t.writes + t.lost < Workers
        /\ GoOn(w, [t EXCEPT !.todo = @ \ {p}, !.fetching = @ \cup {p}])
        /\ UNCHANGED dbVars

(* The page is stored; onPage queues a progress write. *)
PageStored(w, p) ==
    LET t == PassOf(w)
    IN  /\ Fetching(w)
        /\ p \in t.fetching
        /\ stored' = [stored EXCEPT ![t.chapter] = @ \cup {p}]
        /\ GoOn(w, [t EXCEPT !.fetching = @ \ {p}, !.cached = @ \cup {p},
                             !.writes = @ + 1])
        /\ UNCHANGED <<row, queue>>

(* It is not: the network failed, or the device is full and the task stops. *)
PageFailed(w, p) ==
    LET t == PassOf(w)
    IN  /\ Fetching(w)
        /\ p \in t.fetching
        /\ \E full \in BOOLEAN :
             GoOn(w, [t EXCEPT !.fetching = @ \ {p}, !.writes = @ + 1,
                               !.passFailed = TRUE, !.full = @ \/ full,
                               !.aborted = @ \/ full])
        /\ UNCHANGED dbVars

(* persistProgress, one write after the other: read the row ... *)
CheckProgress(w) ==
    LET t == PassOf(w)
    IN  /\ Fetching(w)
        /\ t.writes > 0
        /\ ~t.writing
        /\ GoOn(w, [t EXCEPT !.writing = TRUE, !.checked = row[t.chapter]])
        /\ UNCHANGED dbVars

(* The write in turn is over. *)
Written(t) ==
    [t EXCEPT !.writing = FALSE, !.writes = @ - 1, !.checked = NoRow]

(* Mutated form of WriteProgress: a page too many is recorded. *)
WriteProgressAhead(w) ==
    LET t == PassOf(w)
    IN  /\ Fetching(w)
        /\ t.writing
        /\ IF GoesOn(t.checked)
           THEN Upsert(t.chapter, "downloading",
                       Cardinality(t.cached) + Cardinality(t.fetching))
           ELSE UNCHANGED <<row, queue>>
        /\ GoOn(w, Written(t))
        /\ UNCHANGED stored

(* ... and write the progress, unless the download was stopped. *)
WriteProgress(w) ==
    LET t == PassOf(w)
    IN  /\ Fetching(w)
        /\ t.writing
        /\ IF GoesOn(t.checked)
           THEN Upsert(t.chapter, "downloading", Cardinality(t.cached))
           ELSE UNCHANGED <<row, queue>>
        /\ GoOn(w, Written(t))
        /\ UNCHANGED stored

(* Its read or its write rejects, which persistProgress ignores. *)
WriteIgnored(w) ==
    /\ Fetching(w)
    /\ PassOf(w).writing
    /\ GoOn(w, Written(PassOf(w)))
    /\ UNCHANGED dbVars

(* What the error handler works with, after a rejection in run. *)
Caught(lost) ==
    [NoTask EXCEPT !.chapter = task.chapter, !.pc = "catch", !.lost = lost,
                   !.aborted = task.aborted, !.seen = row[task.chapter]]

(* The pass of the task without the worker of page p. *)
LeftBehind(p) ==
    [task EXCEPT !.fetching = @ \ {p}, !.lost = 1, !.completed = 0, !.attempt = 0,
                 !.seen = NoRow, !.passFailed = FALSE, !.full = FALSE]

(***************************************************************************)
(* resolvePage rejects for a worker of the task's pass: Promise.all passes *)
(* that on at once and the handler reads the row, while the other workers  *)
(* and the queued progress writes go on.                                   *)
(***************************************************************************)
WorkerRejects(p) ==
    LET rest == LeftBehind(p)
    IN  /\ At("fetch")
        /\ p \in task.fetching
        /\ stray = NoTask
        /\ faults < MaxFaults
        /\ faults' = faults + 1
        /\ IF rest.fetching = {} /\ rest.writes = 0 /\ (rest.todo = {} \/ Workers = 1)
           THEN UNCHANGED <<stray, abandoned>>
           ELSE stray' = rest /\ abandoned' = abandoned \cup {task.chapter}
        /\ task' = Caught(1)
        /\ UNCHANGED <<dbVars, pumpVars, open, call, calls, closes, halted, torn>>

(* It rejects for a worker of the stray pass, and nobody hears of it. *)
StrayRejects(p) ==
    /\ Fetching("stray")
    /\ p \in stray.fetching
    /\ GoOn("stray", [stray EXCEPT !.fetching = @ \ {p}, !.lost = @ + 1])
    /\ UNCHANGED dbVars

(* The workers of the stray pass are done, or all of them have rejected. *)
StrayEnds ==
    /\ Fetching("stray")
    /\ stray.fetching = {}
    /\ stray.writes = 0
    /\ stray.todo = {} \/ stray.aborted \/ stray.lost >= Workers
    /\ GoOn("stray", NoTask)
    /\ UNCHANGED dbVars

-----------------------------------------------------------------------------
(* The task after its passes *)

(* Every worker is done: another pass for what failed, or the end. *)
EndPass ==
    /\ At("fetch")
    /\ task.fetching = {}
    /\ task.writes = 0
    /\ task.todo = {} \/ task.aborted
    /\ LET again == /\ task.passFailed
                    /\ ~task.aborted
                    /\ task.attempt < PageAttempts
       IN  IF again
           THEN Continue([task EXCEPT !.pc = "pass", !.todo = {}])
           ELSE Continue([task EXCEPT !.pc = "settle", !.todo = {},
                                      !.seen = row[task.chapter]])
    /\ UNCHANGED dbVars

(* How the chapter ended. *)
Outcome ==
    IF task.full THEN "failed"
    ELSE IF task.cached # Pages
         THEN IF task.cached # {} THEN "partial" ELSE "failed"
         ELSE "complete"

(* The row of the last look decides whether there is anything to finish. *)
Settle ==
    /\ At("settle")
    /\ UNCHANGED dbVars
    /\ IF GoesOn(task.seen)
       THEN Continue(ReadToFinish(Outcome, Cardinality(task.cached)))
       ELSE EndTask /\ UNCHANGED torn

(* The row that finish writes is true, and nothing late can undo it. *)
Recorded ==
    /\ task.completed = Cardinality(task.cached)
    /\ task.cached \subseteq stored[task.chapter]
    /\ stray.chapter # task.chapter
    /\ \A u \in Callers : call[u].pc = "write" => call[u].chapter # task.chapter

(* finish writes, unless it read that the download was stopped. *)
Finish ==
    /\ At("finish")
    /\ UNCHANGED stored
    /\ IF GoesOn(task.seen)
       THEN /\ Upsert(task.chapter, task.result, task.completed)
            /\ torn' = IF Recorded THEN torn \ {task.chapter} ELSE torn
       ELSE UNCHANGED <<row, queue, torn>>
    /\ EndTask

(* loadChapter or an operation of run rejects: the handler reads the row. *)
RunThrows ==
    /\ task.pc \in {"load", "start", "list", "pass", "settle", "finish"}
    /\ Continue(Caught(0))
    /\ UNCHANGED dbVars

(* The handler keeps what was downloaded. *)
Catch ==
    /\ At("catch")
    /\ UNCHANGED stored
    /\ IF GoesOn(task.seen)
       THEN Upsert(task.chapter,
                   IF task.seen.completed > 0 THEN "partial" ELSE "failed",
                   task.seen.completed)
       ELSE UNCHANGED <<row, queue>>
    /\ EndTask
    /\ UNCHANGED torn

(* Mutated form of CatchThrows: running is not reset. *)
CatchLeavesRunning ==
    /\ At("catch")
    /\ faults < MaxFaults
    /\ faults' = faults + 1
    /\ task' = NoTask
    /\ call' = Released
    /\ abandoned' = abandoned \cup {task.chapter}
    /\ UNCHANGED <<dbVars, pumpVars, open, stray, calls, closes, halted, torn>>

(* The handler throws too: the row stays as it is and the pump stops. *)
CatchThrows ==
    /\ At("catch")
    /\ faults < MaxFaults
    /\ faults' = faults + 1
    /\ task' = NoTask
    /\ StopPump
    /\ call' = Released
    /\ abandoned' = abandoned \cup {task.chapter}
    /\ UNCHANGED <<dbVars, open, stray, calls, closes, halted, torn>>

-----------------------------------------------------------------------------
(* The user's calls *)

Calls(u, next) ==
    /\ call' = [call EXCEPT ![u] = next]
    /\ UNCHANGED <<open, faults, closes>>

(***************************************************************************)
(* controller.abort() of the task: the signal also reaches the workers     *)
(* that one of its pass has left behind.                                   *)
(***************************************************************************)
Abort ==
    /\ task' = [task EXCEPT !.aborted = TRUE]
    /\ stray' = IF task.lost > 0 /\ stray # NoTask
                THEN [stray EXCEPT !.aborted = TRUE]
                ELSE stray

(* Cancelled or queued anew, a chapter is in the engine's hands again. *)
Reclaimed(c) == IF stray.chapter = c THEN abandoned ELSE abandoned \ {c}

(* A call for chapter c; remove aborts and awaits the task of c first. *)
Begin(u, kind, c) ==
    /\ open
    /\ call[u] = NoCall
    /\ calls < MaxCalls
    /\ calls' = calls + 1
    /\ LET waits == kind = "remove" /\ IsCurrent(c)
       IN  /\ Calls(u, [NoCall EXCEPT !.kind = kind, !.chapter = c,
                                      !.pc = IF waits THEN "wait" ELSE "read"])
           /\ IF waits THEN Abort ELSE UNCHANGED <<task, stray>>
    /\ UNCHANGED <<dbVars, pumpVars, history>>

Busy(u, kind, pc) == call[u].kind = kind /\ call[u].pc = pc

(* startOne looks at the row; readChapter follows. *)
EnqueueRead(u) ==
    /\ call[u].kind \in {"enqueue", "retry"}
    /\ call[u].pc = "read"
    /\ LET seen == row[call[u].chapter]
           skip == \/ seen.status \in Active
                   \/ seen.status = "complete" /\ call[u].kind = "enqueue"
       IN  Calls(u, IF skip THEN NoCall
                    ELSE [call[u] EXCEPT !.pc = "write", !.seen = seen])
    /\ UNCHANGED <<dbVars, pumpVars, task, stray, calls, history>>

(* The chapter has gone, or has no provider. *)
EnqueueFails(u) ==
    /\ call[u].pc = "write"
    /\ Calls(u, NoCall)
    /\ UNCHANGED <<dbVars, pumpVars, task, stray, calls, history>>

EnqueueWrite(u) ==
    /\ call[u].pc = "write"
    /\ Upsert(call[u].chapter, "queued", call[u].seen.completed)
    /\ Pump
    /\ Calls(u, NoCall)
    /\ halted' = halted \ {call[u].chapter}
    /\ abandoned' = Reclaimed(call[u].chapter)
    /\ UNCHANGED <<stored, task, stray, calls, torn>>

CancelRead(u) ==
    /\ Busy(u, "cancel", "read")
    /\ Calls(u, IF row[call[u].chapter] = NoRow THEN NoCall
                ELSE [call[u] EXCEPT !.pc = "update"])
    /\ UNCHANGED <<dbVars, pumpVars, task, stray, calls, history>>

(* updateDownloadState changes the status of a row that is still there. *)
CancelUpdate(u) ==
    /\ Busy(u, "cancel", "update")
    /\ LET c == call[u].chapter
       IN  /\ row' = IF row[c] = NoRow THEN row
                     ELSE [row EXCEPT ![c].status = "cancelled"]
           /\ halted' = halted \cup {c}
           /\ abandoned' = Reclaimed(c)
    /\ Calls(u, [call[u] EXCEPT !.pc = "abort"])
    /\ UNCHANGED <<queue, stored, pumpVars, task, stray, calls, torn>>

(* Mutated form of CancelAbort: the task is left to find out. *)
CancelReturns(u) ==
    /\ Busy(u, "cancel", "abort")
    /\ Calls(u, NoCall)
    /\ UNCHANGED <<dbVars, pumpVars, task, stray, calls, history>>

(* The task of the chapter is aborted and awaited. *)
CancelAbort(u) ==
    /\ Busy(u, "cancel", "abort")
    /\ IF IsCurrent(call[u].chapter)
       THEN Calls(u, [call[u] EXCEPT !.pc = "wait"]) /\ Abort
       ELSE Calls(u, NoCall) /\ UNCHANGED <<task, stray>>
    /\ UNCHANGED <<dbVars, pumpVars, calls, history>>

RemoveRead(u) ==
    /\ Busy(u, "remove", "read")
    /\ Calls(u, IF row[call[u].chapter] = NoRow THEN NoCall
                ELSE [call[u] EXCEPT !.pc = "list"])
    /\ UNCHANGED <<dbVars, pumpVars, task, stray, calls, history>>

RemoveList(u) ==
    /\ Busy(u, "remove", "list")
    /\ Calls(u, [call[u] EXCEPT !.pc = "pages", !.listed = stored[call[u].chapter]])
    /\ UNCHANGED <<dbVars, pumpVars, task, stray, calls, history>>

(* Another activity that has already read something about the chapter. *)
Overlapped(u, c) ==
    \/ IsCurrent(c)
    \/ stray.chapter = c
    \/ picked.chapter = c
    \/ \E v \in Callers \ {u} : call[v].chapter = c /\ call[v].pc = "write"

(* removeChapterPageEntries deletes the pages it listed. *)
RemovePages(u) ==
    /\ Busy(u, "remove", "pages")
    /\ LET c == call[u].chapter
       IN  /\ stored' = [stored EXCEPT ![c] = @ \ call[u].listed]
           /\ torn' = IF Overlapped(u, c) THEN torn \cup {c} ELSE torn
    /\ Calls(u, [call[u] EXCEPT !.pc = "row", !.listed = {}])
    /\ UNCHANGED <<row, queue, pumpVars, task, stray, calls, halted, abandoned>>

(* Mutated form of RemoveRow: the row stays. *)
KeepRow(u) ==
    /\ Busy(u, "remove", "row")
    /\ Calls(u, NoCall)
    /\ UNCHANGED <<dbVars, pumpVars, task, stray, calls, history>>

(* removeDownload deletes the row. *)
RemoveRow(u) ==
    /\ Busy(u, "remove", "row")
    /\ LET c == call[u].chapter
       IN  /\ row' = [row EXCEPT ![c] = NoRow]
           /\ queue' = Without(queue, c)
           /\ torn' = IF Overlapped(u, c) THEN torn \cup {c} ELSE torn \ {c}
    /\ Calls(u, NoCall)
    /\ UNCHANGED <<stored, pumpVars, task, stray, calls, halted, abandoned>>

(* A database operation of cancel or remove rejects, and the call with it. *)
CallFails(u) ==
    /\ call[u].pc \in {"read", "update", "list", "pages", "row"}
    /\ faults < MaxFaults
    /\ faults' = faults + 1
    /\ LET c == call[u].chapter
       IN  /\ IF call[u].pc = "pages"
              THEN \E gone \in SUBSET call[u].listed :
                     stored' = [stored EXCEPT ![c] = @ \ gone]
              ELSE UNCHANGED stored
           /\ torn' = IF call[u].pc \in {"pages", "row"} THEN torn \cup {c} ELSE torn
    /\ call' = [call EXCEPT ![u] = NoCall]
    /\ UNCHANGED <<row, queue, open, pumpVars, task, stray, calls, closes,
                    halted, abandoned>>

-----------------------------------------------------------------------------
PassStep(w) ==
    \/ CheckProgress(w) \/ WriteProgress(w) \/ WriteIgnored(w)
    \/ \E p \in Pages : TakePage(w, p) \/ PageStored(w, p) \/ PageFailed(w, p)

TaskStep ==
    \/ LoadAborted \/ LoadPages \/ LoadNothing \/ MarkStart \/ ListCached
    \/ StartPass \/ PassStep("task") \/ EndPass \/ Settle
    \/ Finish \/ RunThrows \/ Catch

StrayStep ==
    \/ PassStep("stray") \/ StrayEnds
    \/ \E p \in Pages : StrayRejects(p)

CallStep(u) ==
    \/ EnqueueRead(u) \/ EnqueueFails(u) \/ EnqueueWrite(u)
    \/ CancelRead(u) \/ CancelUpdate(u) \/ CancelAbort(u)
    \/ RemoveRead(u) \/ RemoveList(u) \/ RemovePages(u) \/ RemoveRow(u)

Next ==
    \/ Start \/ Close
    \/ Process \/ Rest \/ PumpFails
    \/ TaskStep \/ CatchThrows \/ StrayStep
    \/ \E p \in Pages : WorkerRejects(p)
    \/ \E u \in Callers :
         \/ CallStep(u) \/ CallFails(u)
         \/ \E kind \in {"enqueue", "retry", "cancel", "remove"}, c \in Chapters :
              Begin(u, kind, c)

Spec == Init /\ [][Next]_vars

(***************************************************************************)
(* The event loop runs the pump and the calls; database and network        *)
(* operations answer or fail (requests carry timeouts).                    *)
(***************************************************************************)
Fairness ==
    /\ WF_vars(Process \/ Rest)
    /\ WF_vars(TaskStep)
    /\ \A u \in Callers : WF_vars(CallStep(u))

FairSpec == Spec /\ Fairness

-----------------------------------------------------------------------------
(* Type invariant. *)
TypeOK ==
    /\ row \in [Chapters -> Row]
    /\ queue \in Seq(Chapters)
    /\ {queue[i] : i \in DOMAIN queue} = {c \in Chapters : row[c] # NoRow}
    /\ stored \in [Chapters -> SUBSET Pages]
    /\ open \in BOOLEAN
    /\ pump \in {"idle", "picked", "busy", "stopped"}
    /\ picked \in [chapter : Chapters \cup {None}, completed : Nat]
    /\ wake \in BOOLEAN
    /\ task.chapter \in Chapters \cup {None}
    /\ task.chapter = None <=> task.pc = "none"
    /\ pump = "busy" <=> task.chapter # None
    /\ task.fetching \subseteq Pages /\ task.cached \subseteq Pages
    /\ task.seen \in Row /\ task.checked \in Row
    /\ stray.chapter \in Chapters \cup {None}
    /\ stray.pc = IF stray.chapter = None THEN "none" ELSE "fetch"
    /\ stray.fetching \subseteq Pages /\ stray.cached \subseteq Pages
    /\ stray.checked \in Row
    /\ \A u \in Callers : call[u].chapter \in Chapters \cup {None}
    /\ halted \subseteq Chapters /\ abandoned \subseteq Chapters
    /\ torn \subseteq Chapters

(***************************************************************************)
(* A cancel that has returned is final: until the user queues the chapter  *)
(* again it is neither waiting nor downloading and none of its pages is    *)
(* fetched, although the task checks the row and writes it in two          *)
(* operations and may overwrite "cancelled" in between.  This is what the  *)
(* abort and the wait for the task at the end of cancel are for.           *)
(*                                                                         *)
(* Excepted are the abandoned chapters, where the comment of markStart     *)
(* that a cancel "must win" is not kept: the error handler fails after     *)
(* markStart has overwritten "cancelled", and the cancel returns with the  *)
(* row "downloading"; or a worker of the pass rejected, and the workers it *)
(* left behind still store pages and write the row.                        *)
(***************************************************************************)
CancelIsFinal ==
    \A c \in halted \ abandoned :
        ~BeingCancelled(c) =>
            /\ row[c].status \notin Active
            /\ task.chapter = c => task.fetching = {}

(***************************************************************************)
(* The row never promises more than the cache holds: at most as many pages *)
(* as are stored, and every page of a chapter that is complete.  Progress  *)
(* is written behind the pages, by overlapping workers, over restarts and  *)
(* retries.  Excepted is a removal, which deletes the pages before the     *)
(* row, up to its last step; and where another activity held what it had   *)
(* read of the chapter, the removal failed midway or was cut off, up to    *)
(* the next removal on its own or the next download that finishes with     *)
(* what is stored.                                                         *)
(***************************************************************************)
RowMatchesPages ==
    \A c \in Chapters \ torn :
        ~BeingRemoved(c) =>
            /\ row[c].completed <= Cardinality(stored[c])
            /\ row[c].status = "complete" => stored[c] = Pages

(***************************************************************************)
(* The queue drains: a chapter that is waiting or downloading ends one way *)
(* or the other while the app stays open, whatever arrives meanwhile and   *)
(* also when a former run was cut off.  Excepted: a rejection ended the    *)
(* pump (nextTask, or the error handler of process), which leaves every    *)
(* waiting row until a chapter is queued or the app starts again; and the  *)
(* rows that an abandoned chapter's handler or stray workers left behind   *)
(* "downloading" once the pump is idle.                                    *)
(***************************************************************************)
QueueDrains ==
    \A c \in Chapters :
        row[c].status \in Active ~>
            \/ row[c].status \notin Active
            \/ ~open
            \/ pump = "stopped"
            \/ pump = "idle" /\ c \in abandoned

(***************************************************************************)
(* docs/overhaul/06-local-data-and-downloads.md: "Given a removed          *)
(* download, When removal finishes, Then disk use and the UI agree."  With *)
(* no row and nothing under way for the chapter no page of it is stored.   *)
(***************************************************************************)
RemovalLeavesNothing ==
    \A c \in Chapters :
        /\ row[c] = NoRow
        /\ ~IsCurrent(c)
        /\ stray.chapter # c
        /\ \A u \in Callers : call[u].chapter # c
        => stored[c] = {}

=============================================================================
