--------------------------- MODULE LibraryUpdates ---------------------------
(***************************************************************************)
(* The library update check: runLibraryUpdateQueue of apps/web/app/        *)
(* features/library/update-queue.ts, started and cancelled by routes/      *)
(* library.tsx, over the provider's request gate (RequestGate) and the     *)
(* chapters, read states and unread counts of packages/db.  Meanwhile the  *)
(* provider publishes, the user reads, and leaving the library page and    *)
(* coming back loses the hold on a check that goes on.                     *)
(*                                                                         *)
(* Granularity.  One action per await of a worker.  All titles belong to   *)
(* the provider of the gate, and a listing is one request; of a title only *)
(* how many chapters it has is kept: those of the provider, those stored,  *)
(* those read.                                                             *)
(***************************************************************************)
EXTENDS RequestGate, FiniteSets

CONSTANTS
    MaxRuns,       \* bound: checks the user starts
    Concurrency,   \* workers of a check (DEFAULT_CONCURRENCY, 2)
    Titles,        \* the titles of the library, in its order
    Skipped,       \* titles without a mapping or an available provider
    Interval,      \* requestIntervalMs
    MaxEvents,     \* bound: chapters published or read meanwhile
    MaxFaults,     \* bound: failed writes
    SlackTime      \* bound: time that passes while only the network works

Runs == 1..MaxRuns

Worker == Runs \X (1..Concurrency)

TitleSet == {Titles[i] : i \in 1..Len(Titles)}

ASSUME UpdatesAssumption ==
    /\ Callers = Worker
    /\ Titles \in Seq(TitleSet)
    /\ Skipped \subseteq TitleSet
    /\ {MaxRuns, Concurrency} \subseteq Nat \ {0}
    /\ {Interval, MaxEvents, MaxFaults, SlackTime} \subseteq Nat

VARIABLES
    remote,        \* chapters the provider has of each title
    chapters,      \* chapters stored of each title
    read,          \* those of them the user has completed
    unread,        \* the stored unread count
    report,        \* the stored report
    run,           \* the checks
    worker,        \* their workers
    held,          \* abortRef.current: the check the page can cancel
    lastCallAt,    \* the start each check has reserved last
    events, faults

dbVars == <<remote, chapters, read, unread>>
boundVars == <<events, faults>>
runVars == <<run, report, held>>
vars == <<gateState, dbVars, runVars, worker, lastCallAt, boundVars>>

ItemStatus == {"absent", "queued", "running", "done", "failed", "skipped", "cancelled"}

Items == [TitleSet -> ItemStatus]

Report == [status : {"done", "cancelled"}, items : Items]

NoItems == [t \in TitleSet |-> "absent"]

Run ==
    [phase : {"idle", "working", "reporting", "over"},
     retry : BOOLEAN,                   \* entryIds were given
     wanted : SUBSET TitleSet,
     known : [TitleSet -> Nat],         \* unreadCount of the entries it listed
     jobs : Seq(TitleSet), cursor : Nat,
     items : Items]

NoRun ==
    [phase |-> "idle", retry |-> FALSE, wanted |-> {}, known |-> [t \in TitleSet |-> 0],
     jobs |-> <<>>, cursor |-> 0, items |-> NoItems]

AtRest == [pc |-> "next", title |-> None, wakeAt |-> 0, listed |-> 0, saved |-> 0]

Init ==
    /\ GateInit
    /\ remote = [t \in TitleSet |-> 1]
    /\ chapters = [t \in TitleSet |-> 1]
    /\ read = [t \in TitleSet |-> 0]
    /\ unread = [t \in TitleSet |-> 1]
    /\ report = [status |-> "done", items |-> [t \in TitleSet |-> "failed"]]
    /\ run = [r \in Runs |-> NoRun]
    /\ worker = [w \in Worker |-> AtRest]
    /\ held = None
    /\ lastCallAt = [r \in Runs |-> None]
    /\ events = 0
    /\ faults = 0

-----------------------------------------------------------------------------
(* The page *)

(* The jobs of a check, in the library's order. *)
JobList(todo) ==
    LET upTo[i \in 0..Len(Titles)] ==
            IF i = 0 THEN <<>>
            ELSE IF Titles[i] \in todo THEN Append(upTo[i - 1], Titles[i])
            ELSE upTo[i - 1]
    IN  upTo[Len(Titles)]

(* onCheck and onRetry: the entries are read once, when the check begins. *)
Start(r, retry, wanted) ==
    /\ held = None
    /\ run[r].phase = "idle"
    /\ \A q \in 1..(r - 1) : run[q].phase # "idle"
    /\ run' = [run EXCEPT ![r] =
        [phase |-> "working", retry |-> retry, wanted |-> wanted, known |-> unread,
         jobs |-> JobList(wanted \ Skipped), cursor |-> 0,
         items |-> [t \in TitleSet |->
            IF t \notin wanted THEN "absent" ELSE IF t \in Skipped THEN "skipped" ELSE "queued"]]]
    /\ held' = r
    /\ UNCHANGED <<gateState, dbVars, report, worker, lastCallAt, boundVars>>

(* onCancel: one signal for the whole check. *)
Cancel ==
    /\ held # None
    /\ run[held].phase \in {"working", "reporting"}
    /\ \E w \in Worker : ~aborted[w] /\ w[1] = held
    /\ GiveUp({w \in Worker : w[1] = held})
    /\ UNCHANGED <<dbVars, runVars, worker, lastCallAt, boundVars>>

(* The page is left: the check goes on, and no page can cancel it. *)
Leave ==
    /\ held # None
    /\ held' = None
    /\ UNCHANGED <<gateState, dbVars, run, report, worker, lastCallAt, boundVars>>

IsAborted(r) == \A w \in Worker : w[1] = r => aborted[w]

-----------------------------------------------------------------------------
(* A worker *)

(* setItem *)
Mark(r, t, status) == [run EXCEPT ![r].items[t] = status]

Became(w, state) == worker' = [worker EXCEPT ![w] = state]

(* Mutated form of NextSlot: a slot is reserved by nobody. *)
NextSlotUnreserved(r) == clock

(* Mutated form of NextSlot: nothing stands in for the first call's slot. *)
NextSlotUndefined(r) ==
    IF lastCallAt[r] = None THEN None ELSE Later(clock, lastCallAt[r] + Interval)

(* scheduledDelay: the slot after the last one reserved, not before now. *)
NextSlot(r) ==
    IF lastCallAt[r] = None THEN clock ELSE Later(clock, lastCallAt[r] + Interval)

(* Mutated form of Take: the cursor is advanced for both workers. *)
TakeLoose(w) ==
    LET r == w[1]
    IN  /\ run[r].phase = "working"
        /\ worker[w].pc = "next"
        /\ run[r].cursor < Len(run[r].jobs)
        /\ LET t == run[r].jobs[run[r].cursor + 1]
           IN  IF aborted[w]
               THEN /\ run' = [Mark(r, t, "cancelled") EXCEPT ![r].cursor = @ + 2]
                    /\ UNCHANGED <<worker, lastCallAt>>
               ELSE /\ run' = [Mark(r, t, "running") EXCEPT ![r].cursor = @ + 2]
                    /\ Became(w, [AtRest EXCEPT !.pc = "spacing", !.title = t, !.wakeAt = NextSlot(r)])
                    /\ lastCallAt' = [lastCallAt EXCEPT ![r] = NextSlot(r)]
        /\ UNCHANGED <<gateState, dbVars, report, held, boundVars>>

(* execute, up to its sleep: the next job, and a place in the spacing. *)
Take(w) ==
    LET r == w[1]
    IN  /\ run[r].phase = "working"
        /\ worker[w].pc = "next"
        /\ run[r].cursor < Len(run[r].jobs)
        /\ LET t == run[r].jobs[run[r].cursor + 1]
           IN  IF aborted[w]
               THEN /\ run' = [Mark(r, t, "cancelled") EXCEPT ![r].cursor = @ + 1]
                    /\ UNCHANGED <<worker, lastCallAt>>
               ELSE /\ run' = [Mark(r, t, "running") EXCEPT ![r].cursor = @ + 1]
                    /\ Became(w, [AtRest EXCEPT !.pc = "spacing", !.title = t, !.wakeAt = NextSlot(r)])
                    /\ lastCallAt' = [lastCallAt EXCEPT ![r] = NextSlot(r)]
        /\ UNCHANGED <<gateState, dbVars, report, held, boundVars>>

(* The job of w ends with status. *)
EndJob(w, status) ==
    /\ run' = Mark(w[1], worker[w].title, status)
    /\ Became(w, AtRest)

(* A job whose listing or writing failed was cancelled if the check was. *)
FailedOrCancelled(w) == IF aborted[w] THEN "cancelled" ELSE "failed"

(* Mutated form of GivenUp: the signal clears the timer and ends nothing. *)
GivenUpForgotten(w) ==
    /\ worker[w].pc = "spacing"
    /\ aborted[w]
    /\ UNCHANGED vars

(* sleep ended before its time: by the signal. *)
GivenUp(w) ==
    /\ worker[w].pc = "spacing"
    /\ aborted[w]
    /\ EndJob(w, "cancelled")
    /\ UNCHANGED <<gateState, dbVars, report, held, lastCallAt, boundVars>>

(* Mutated form of Depart: the request does not ask the gate. *)
DepartUngated(w) ==
    /\ worker[w].pc = "spacing"
    /\ clock >= worker[w].wakeAt
    /\ ~aborted[w]
    /\ client' = [client EXCEPT ![w].pc = "sent"]
    /\ Became(w, [worker[w] EXCEPT !.pc = "listing", !.wakeAt = 0])
    /\ UNCHANGED <<clock, gateVars, aborted, granted, told, dbVars, runVars, lastCallAt, boundVars>>

(* listChapters: the request of the listing. *)
Depart(w) ==
    /\ worker[w].pc = "spacing"
    /\ clock >= worker[w].wakeAt
    /\ ~aborted[w]
    /\ \E pace \in Paces : Request(w, pace)
    /\ Became(w, [worker[w] EXCEPT !.pc = "listing", !.wakeAt = 0])
    /\ UNCHANGED <<dbVars, runVars, lastCallAt, boundVars>>

(* What the gate and the network do with the request of w. *)
Network(w) ==
    /\ worker[w].pc = "listing"
    /\ Progress(w)
    /\ UNCHANGED <<dbVars, runVars, worker, lastCallAt, boundVars>>

Listed(w) ==
    /\ worker[w].pc = "listing"
    /\ client[w].pc = "ok"
    /\ Taken(w)
    /\ Became(w, [worker[w] EXCEPT !.pc = "saving", !.listed = remote[worker[w].title]])
    /\ UNCHANGED <<clock, gateVars, aborted, granted, told, dbVars, runVars, lastCallAt, boundVars>>

ListingFails(w) ==
    /\ worker[w].pc = "listing"
    /\ client[w].pc = "failed"
    /\ Taken(w)
    /\ EndJob(w, FailedOrCancelled(w))
    /\ UNCHANGED <<clock, gateVars, aborted, granted, told, dbVars, report, held, lastCallAt, boundVars>>

(* upsertChapterMetadata of the next chapter listed: new, or known already. *)
Save(w) ==
    LET t == worker[w].title
        n == worker[w].saved + 1
    IN  /\ worker[w].pc = "saving"
        /\ worker[w].saved < worker[w].listed
        /\ chapters' = [chapters EXCEPT ![t] = Later(@, n)]
        /\ Became(w, [worker[w] EXCEPT !.saved = n])
        /\ UNCHANGED <<gateState, remote, read, unread, runVars, lastCallAt, boundVars>>

(* A write fails: what was saved before it stays, and is not counted. *)
SaveFails(w) ==
    /\ worker[w].pc = "saving"
    /\ faults < MaxFaults
    /\ faults' = faults + 1
    /\ EndJob(w, FailedOrCancelled(w))
    /\ UNCHANGED <<gateState, dbVars, report, held, lastCallAt, events>>

Unread(t) == chapters[t] - read[t]

(* recomputeLibraryUnreadCounts: the count is written if it differs from the *)
(* one the entry had when the check listed it.                               *)
Recount(w) ==
    LET t == worker[w].title
    IN  /\ worker[w].pc = "saving"
        /\ worker[w].saved = worker[w].listed
        /\ unread' = IF run[w[1]].known[t] # Unread(t)
                     THEN [unread EXCEPT ![t] = Unread(t)] ELSE unread
        /\ EndJob(w, "done")
        /\ UNCHANGED <<gateState, remote, chapters, read, report, held, lastCallAt, boundVars>>

-----------------------------------------------------------------------------
(* The end of a check.  The report of an earlier check is there: Init. *)

(* All workers have ended; a retry reads the last report to merge with. *)
Merge(r) ==
    /\ run[r].phase = "working"
    /\ run[r].cursor >= Len(run[r].jobs)
    /\ \A w \in Worker : w[1] = r => worker[w].pc = "next"
    /\ LET own == [t \in TitleSet |->
                    IF run[r].items[t] \in {"queued", "running"} THEN "cancelled"
                    ELSE run[r].items[t]]
           merged == [t \in TitleSet |->
                    IF t \in run[r].wanted THEN own[t] ELSE report.items[t]]
       IN  run' = [run EXCEPT ![r].phase = "reporting",
                              ![r].items = IF run[r].retry THEN merged ELSE own]
    /\ UNCHANGED <<gateState, dbVars, report, held, worker, lastCallAt, boundVars>>

(* persistReport, whose errors are swallowed; the page lets go of the check. *)
Persist(r) ==
    /\ run[r].phase = "reporting"
    /\ run' = [run EXCEPT ![r].phase = "over"]
    /\ held' = IF held = r THEN None ELSE held
    /\ \/ /\ report' = [status |-> IF IsAborted(r) THEN "cancelled" ELSE "done",
                        items |-> run[r].items]
          /\ UNCHANGED faults
       \/ /\ faults < MaxFaults
          /\ faults' = faults + 1
          /\ UNCHANGED report
    /\ UNCHANGED <<gateState, dbVars, worker, lastCallAt, events>>

-----------------------------------------------------------------------------
(* The rest of the world *)

Publish(t) ==
    /\ events < MaxEvents
    /\ events' = events + 1
    /\ remote' = [remote EXCEPT ![t] = @ + 1]
    /\ UNCHANGED <<gateState, chapters, read, unread, runVars, worker, lastCallAt, faults>>

(* The reader completes a chapter and refreshes the count *)
(* (refreshLibraryUnreadCountForChapter).                 *)
Read(t) ==
    /\ events < MaxEvents
    /\ events' = events + 1
    /\ read[t] < chapters[t]
    /\ read' = [read EXCEPT ![t] = @ + 1]
    /\ unread' = [unread EXCEPT ![t] = chapters[t] - read'[t]]
    /\ UNCHANGED <<gateState, remote, chapters, runVars, worker, lastCallAt, faults>>

(* Time passes while a timer runs, or an answer is on its way. *)
Time ==
    /\ \/ \E w \in Asleep : client[w].wakeAt > clock
       \/ \E w \in Worker : worker[w].pc = "spacing" /\ worker[w].wakeAt > clock
       \/ OnTheWire # {} /\ clock < SlackTime
    /\ Tick
    /\ UNCHANGED <<dbVars, runVars, worker, lastCallAt, boundVars>>

User ==
    \/ \E r \in Runs :
        \/ Start(r, FALSE, TitleSet)
        \/ \E t \in TitleSet : Start(r, TRUE, {t})
    \/ Cancel \/ Leave
    \/ \E t \in TitleSet : Publish(t) \/ Read(t)

Job(w) ==
    \/ Take(w) \/ GivenUp(w) \/ Depart(w) \/ Network(w) \/ Listed(w)
    \/ ListingFails(w) \/ Save(w) \/ SaveFails(w) \/ Recount(w)

Next ==
    \/ User
    \/ Time
    \/ \E w \in Worker : Job(w)
    \/ \E r \in Runs : Merge(r) \/ Persist(r)

Spec == Init /\ [][Next]_vars

(* Timers fire, requests end (each has a timeout), database calls return. *)
Fairness ==
    /\ WF_vars(Time)
    /\ \A w \in Worker : WF_vars(Job(w))
    /\ \A r \in Runs : WF_vars(Merge(r) \/ Persist(r))

FairSpec == Spec /\ Fairness

-----------------------------------------------------------------------------
(* Properties *)

WorkerState ==
    [pc : {"next", "spacing", "listing", "saving"}, title : TitleSet \cup {None},
     wakeAt : Nat, listed : Nat, saved : Nat]

TypeOK ==
    /\ GateTypeOK
    /\ {remote, chapters, read, unread} \subseteq [TitleSet -> Nat]
    /\ report \in Report
    /\ run \in [Runs -> Run]
    /\ worker \in [Worker -> WorkerState]
    /\ held \in Runs \cup {None}
    /\ lastCallAt \in [Runs -> Nat \cup {None}]
    /\ {events, faults} \subseteq Nat

(***************************************************************************)
(* What the queue does with the gate is what the gate allows its callers:  *)
(* every property of GateSpec holds of the checks, however many of them    *)
(* run beside each other (gateFor: one gate per provider and device).      *)
(***************************************************************************)
KeepsToTheGate == GateSpec

(***************************************************************************)
(* Two listings of one check that wait for their start are at least the    *)
(* provider's interval apart, whichever workers they belong to             *)
(* (scheduledDelay: "two workers cannot both claim the same gap").         *)
(***************************************************************************)
ListingsAreSpaced ==
    \A v, w \in Worker :
        v # w /\ v[1] = w[1] /\ worker[v].pc = "spacing" /\ worker[w].pc = "spacing" =>
            \/ worker[v].wakeAt + Interval <= worker[w].wakeAt
            \/ worker[w].wakeAt + Interval <= worker[v].wakeAt

(***************************************************************************)
(* A check nobody cancelled has dealt with every title it was asked for:   *)
(* none is left queued, running or cancelled in the report (the shared     *)
(* cursor of the workers, the clean-up at the end).                        *)
(***************************************************************************)
NothingIsLeftOut ==
    \A r \in Runs :
        run[r].phase \in {"reporting", "over"} /\ ~IsAborted(r) =>
            \A t \in run[r].wanted : run[r].items[t] \in {"done", "failed", "skipped"}

(***************************************************************************)
(* A check that was started ends, whatever the provider answers, however   *)
(* the user cancels and leaves, and whichever writes fail: no sleep is     *)
(* forgotten and no wait at the gate lasts for ever.                       *)
(***************************************************************************)
RunsEnd == \A r \in Runs : run[r].phase = "working" ~> run[r].phase = "over"

(***************************************************************************)
(* "the unread count is recomputed from the new chapter set"               *)
(* (update-queue.ts:218).  When a title is done, the count stored for it   *)
(* is that of its unread chapters.  Not so: a recount equal to the count   *)
(* the check listed is not written, though the stored one has changed.     *)
(***************************************************************************)
DoneTitlesAreCounted ==
    [][\A r \in Runs, t \in TitleSet :
        run[r].items[t] = "running" /\ run'[r].items[t] = "done" =>
            unread'[t] = chapters'[t] - read'[t]]_vars

=============================================================================
