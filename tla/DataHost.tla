------------------------------ MODULE DataHost ------------------------------
(***************************************************************************)
(* The desktop's local database and one window's list of it: the data host *)
(* (host/serve.ts), which answers calls one at a time and broadcasts what  *)
(* they committed, the window's client (data-host-client.ts), and a list   *)
(* that a collection keeps current (host-collections.ts).  Other windows   *)
(* write through the same host.  The host's process may die; main starts   *)
(* another and hands the window a port to it (main/data-host.ts).          *)
(*                                                                         *)
(* Granularity.  The host: a repository call, the post of its reply, the   *)
(* broadcast.  The window: one action per message, timer or gesture, with  *)
(* the microtasks behind it, but for the start of the next read.  A row's  *)
(* value is the number of the write that set it.  The collection library   *)
(* applies what it is given at once.                                       *)
(***************************************************************************)
EXTENDS Naturals, Sequences

CONSTANTS
    Rows,
    MaxWrites, MaxEdits, MaxCrashes, MaxFaults, MaxLeaves    \* bounds

ASSUME DataHostAssumption ==
    {MaxWrites, MaxEdits, MaxCrashes, MaxFaults, MaxLeaves} \subseteq Nat

VARIABLES
    db,        \* the database file: what each row is, and if it is listed
    host,      \* the host process
    linked,    \* the window's port is to the host that runs now
    requests,  \* the port, to the host
    messages,  \* the port, to the window
    pending,   \* the id each call of the client waits under, or 0
    nextId,
    list,      \* the collection
    edit,      \* an optimistic update and the refetch that follows it
    count      \* what the bounds bound

(* History: a read of the list, or the reopening of the host, has failed   *)
(* while the host was there; the code leaves the list as it is.            *)
VARIABLE missed

port == <<linked, requests, messages>>
client == <<pending, nextId>>
window == <<client, list, edit, missed>>
vars == <<db, host, port, window, count>>

Calls == {"list", "edit", "open"}

NoChanges == [rows |-> {}, other |-> FALSE]

NoAnswer == [id |-> 0, ok |-> TRUE, data |-> <<>>]

Host == [pc |-> "idle", open |-> TRUE, captured |-> NoChanges, answer |-> NoAnswer, got |-> <<>>]

NoEdit == [pc |-> "idle", rows |-> {}, v |-> 0]

(* The window has attached, and its list is loaded for a first reader. *)
Init ==
    /\ db = [k \in Rows |-> [v |-> 0, listed |-> TRUE]]
    /\ host = Host
    /\ linked = TRUE
    /\ requests = <<>>
    /\ messages = <<>>
    /\ pending = [c \in Calls |-> 0]
    /\ nextId = 1
    /\ list = [rows |-> db, line |-> <<>>, running |-> "none", keys |-> {},
               idle |-> FALSE, stale |-> FALSE, timer |-> FALSE]
    /\ edit = NoEdit
    /\ count = [writes |-> 0, edits |-> 0, crashes |-> 0, faults |-> 0, leaves |-> 0]
    /\ missed = FALSE

Counted(what, max) ==
    /\ count[what] < max
    /\ count' = [count EXCEPT ![what] = @ + 1]

-----------------------------------------------------------------------------
(* The host *)

Request == Head(requests)

Serve(kind) ==
    /\ host.pc = "idle"
    /\ requests # <<>>
    /\ Request.kind = kind

Answered(state, ok, data) ==
    /\ host' = [state EXCEPT !.pc = "reply", !.got = <<>>,
                             !.answer = [id |-> Request.id, ok |-> ok, data |-> data]]
    /\ requests' = Tail(requests)
    /\ UNCHANGED <<linked, messages, window>>

(***************************************************************************)
(* A call of another window that writes a row.  The triggers record it as  *)
(* a change of that row, or of another table that the list depends on.     *)
(***************************************************************************)
OtherWrite(k, listed, other) ==
    /\ host.pc = "idle" /\ host.open
    /\ Counted("writes", MaxWrites)
    /\ db' = [db EXCEPT ![k] = [v |-> count.writes + 1, listed |-> listed]]
    /\ host' = [host EXCEPT !.pc = "broadcast",
            !.captured = [rows |-> IF other THEN {} ELSE {k}, other |-> other]]
    /\ UNCHANGED <<port, window>>

(* Another window opens a host that has been restarted. *)
OtherOpen ==
    /\ host.pc = "idle" /\ ~host.open
    /\ host' = [host EXCEPT !.open = TRUE]
    /\ UNCHANGED <<db, port, window, count>>

(* data-host.not_open *)
Refuse ==
    /\ \E kind \in {"load", "rows", "write"} : Serve(kind)
    /\ ~host.open
    /\ Answered(host, FALSE, <<>>)
    /\ UNCHANGED <<db, count>>

Open ==
    /\ Serve("open")
    /\ \/ Answered([host EXCEPT !.open = TRUE], TRUE, <<>>) /\ UNCHANGED count
       \/ ~host.open /\ Counted("faults", MaxFaults) /\ Answered(host, FALSE, <<>>)
    /\ UNCHANGED db

Load ==
    /\ Serve("load") /\ host.open
    /\ Answered(host, TRUE, db)
    /\ UNCHANGED <<db, count>>

(* refreshRow, a call per key: others may come between two of them. *)
ReadRow(k) ==
    /\ Serve("rows") /\ host.open
    /\ k \in Request.keys \ DOMAIN host.got
    /\ LET got == [r \in DOMAIN host.got \cup {k} |-> IF r = k THEN db[k] ELSE host.got[r]]
       IN  IF DOMAIN got = Request.keys
           THEN Answered(host, TRUE, got)
           ELSE host' = [host EXCEPT !.got = got] /\ UNCHANGED <<port, window>>
    /\ UNCHANGED <<db, count>>

(***************************************************************************)
(* The window's own write.  One that fails was rolled back, its record     *)
(* with it, or has committed all the same.                                 *)
(***************************************************************************)
Write ==
    /\ Serve("write") /\ host.open
    /\ count' = [count EXCEPT !.writes = @ + 1]
    /\ \/ \E ok \in BOOLEAN :
            /\ db' = [k \in Rows |->
                        IF k \in Request.keys THEN [db[k] EXCEPT !.v = count'.writes] ELSE db[k]]
            /\ Answered([host EXCEPT !.captured = [rows |-> Request.keys, other |-> FALSE]],
                        ok, count'.writes)
       \/ Answered(host, FALSE, <<>>) /\ UNCHANGED db

Reply ==
    /\ host.pc = "reply"
    /\ messages' = Append(messages, [kind |-> "reply", answer |-> host.answer])
    /\ host' = [host EXCEPT !.pc = "broadcast"]
    /\ UNCHANGED <<db, linked, requests, window, count>>

Broadcasts(changes) ==
    /\ host.pc = "broadcast"
    /\ messages' = IF linked /\ changes # NoChanges
                   THEN Append(messages, [kind |-> "changes", changes |-> changes])
                   ELSE messages
    /\ host' = [host EXCEPT !.pc = "idle", !.captured = NoChanges, !.answer = NoAnswer]
    /\ UNCHANGED <<db, linked, requests, window, count>>

(* Mutated form of Broadcast: a call that failed broadcasts nothing. *)
BroadcastSuccess == Broadcasts(IF host.answer.ok THEN host.captured ELSE NoChanges)

(* To every window, after the caller's reply, and for a failed call too. *)
Broadcast == Broadcasts(host.captured)

(* The process dies between two steps; what it has posted still arrives. *)
Crash ==
    /\ host.pc # "down"
    /\ Counted("crashes", MaxCrashes)
    /\ host' = [Host EXCEPT !.pc = "down", !.open = FALSE]
    /\ linked' = FALSE
    /\ requests' = <<>>
    /\ UNCHANGED <<db, messages, window>>

(* superviseDataHost: the replacement is not open until somebody opens it. *)
Restart ==
    /\ host.pc = "down"
    /\ host' = [host EXCEPT !.pc = "idle"]
    /\ UNCHANGED <<db, port, window, count>>

-----------------------------------------------------------------------------
(* The list: each operator gives the collection after the call *)

Queued(l, task) == \E i \in DOMAIN l.line : l.line[i] = task

(* One that is queued reads after the change that asks for it now. *)
Reload(l) ==
    IF Queued(l, "reload") THEN l ELSE [l EXCEPT !.line = Append(@, "reload")]

(* A list nobody reads is marked; otherwise the burst is waited out. *)
ScheduleReload(l) ==
    IF l.idle THEN [l EXCEPT !.stale = TRUE] ELSE [l EXCEPT !.timer = TRUE]

Refetch(l) == Reload([l EXCEPT !.timer = FALSE])

(* Mutated form of Patch: a reload that is queued is not taken for it. *)
PatchAnyway(l, rows) ==
    IF l.idle THEN [l EXCEPT !.stale = TRUE]
    ELSE [l EXCEPT !.keys = @ \cup rows,
                   !.line = IF Queued(l, "patch") THEN @ ELSE Append(@, "patch")]

(* Patches share the queue, and one that is queued takes more keys. *)
Patch(l, rows) ==
    IF l.idle THEN [l EXCEPT !.stale = TRUE]
    ELSE IF Queued(l, "reload") THEN l
    ELSE [l EXCEPT !.keys = @ \cup rows,
                   !.line = IF Queued(l, "patch") THEN @ ELSE Append(@, "patch")]

(* The listener: a change to rowTable alone patches the rows it names. *)
OnChange(l, changes) ==
    IF changes.other THEN ScheduleReload(l) ELSE Patch(l, changes.rows)

Loaded(l, rows) == [l EXCEPT !.rows = rows, !.running = "none"]

(* applyRows: a row that joins or leaves the list reloads it whole. *)
Patched(l, got) ==
    LET reshaped == \E k \in DOMAIN got : got[k].listed # l.rows[k].listed
        done == [l EXCEPT !.running = "none"]
    IN  IF reshaped THEN ScheduleReload(done)
        ELSE [done EXCEPT !.rows =
                [k \in Rows |-> IF k \in DOMAIN got /\ l.rows[k].listed THEN got[k] ELSE l.rows[k]]]

-----------------------------------------------------------------------------
(* The window *)

(* No microtask is due: the next read has been started. *)
Calm == list.running # "none" \/ list.line = <<>>

Send(call, request) ==
    /\ requests' = IF linked THEN Append(requests, [request EXCEPT !.id = nextId]) ELSE requests
    /\ pending' = [pending EXCEPT ![call] = nextId]
    /\ nextId' = nextId + 1
    /\ UNCHANGED <<linked, messages>>

(* tail.then: a reload covers every change that has arrived by now. *)
StartReload ==
    /\ list.running = "none" /\ list.line # <<>> /\ Head(list.line) = "reload"
    /\ list' = [list EXCEPT !.line = Tail(@), !.running = "reload", !.stale = FALSE]
    /\ Send("list", [id |-> 0, kind |-> "load", keys |-> {}])
    /\ edit' = [edit EXCEPT !.pc = IF @ = "refetching" THEN "reading" ELSE @]
    /\ UNCHANGED <<db, host, count, missed>>

StartPatch ==
    /\ list.running = "none" /\ list.line # <<>> /\ Head(list.line) = "patch"
    /\ list' = [list EXCEPT !.line = Tail(@), !.running = "patch", !.keys = {}]
    /\ Send("list", [id |-> 0, kind |-> "rows", keys |-> list.keys])
    /\ UNCHANGED <<db, host, edit, count, missed>>

TimerFires ==
    /\ Calm /\ list.timer
    /\ list' = Refetch(list)
    /\ UNCHANGED <<db, host, port, client, edit, count, missed>>

(* The last reader leaves: a reload that waits for a burst is owed. *)
Leave ==
    /\ Calm /\ ~list.idle
    /\ Counted("leaves", MaxLeaves)
    /\ list' = [list EXCEPT !.idle = TRUE, !.timer = FALSE, !.stale = @ \/ list.timer]
    /\ UNCHANGED <<db, host, port, client, edit, missed>>

Return ==
    /\ Calm /\ list.idle
    /\ LET watched == [list EXCEPT !.idle = FALSE]
       IN  list' = IF list.stale THEN Reload(watched) ELSE watched
    /\ UNCHANGED <<db, host, port, client, edit, count, missed>>

(* onUpdate: the write is sent, and the list read again when it is in. *)
Edit(k) ==
    /\ Calm /\ edit.pc = "idle"
    /\ Counted("edits", MaxEdits)
    /\ Send("edit", [id |-> 0, kind |-> "write", keys |-> {k}])
    /\ edit' = [pc |-> "saving", rows |-> {k}, v |-> 0]
    /\ UNCHANGED <<db, host, list, missed>>

(* Mutated form of EditAfterRead: it waited for what was under way. *)
EditAfterAnyRead == IF edit.pc \in {"refetching", "reading"} THEN NoEdit ELSE edit

(* A read of the list has ended; so has the edit that waited for it, which *)
(* is the first reload that starts after its write was in.                 *)
EditAfterRead == IF list.running = "reload" /\ edit.pc = "reading" THEN NoEdit ELSE edit

(* report: the rows stay as they are. *)
ReadFails ==
    /\ list' = [list EXCEPT !.running = "none"]
    /\ edit' = EditAfterRead

(* The result of a call of the client. *)
Result(call, ok, data) ==
    \/ /\ call = "list" /\ ok
       /\ list' = IF list.running = "reload" THEN Loaded(list, data) ELSE Patched(list, data)
       /\ edit' = EditAfterRead
       /\ missed' = (missed /\ list.running # "reload")
    \/ /\ call = "list" /\ ~ok
       /\ ReadFails
       /\ missed' = TRUE
    \/ /\ call = "edit" /\ ok
       /\ edit' = [edit EXCEPT !.pc = "refetching", !.v = data]
       /\ list' = Refetch(list)
       /\ UNCHANGED missed
    \/ /\ call = "edit" /\ ~ok
       /\ edit' = NoEdit
       /\ UNCHANGED <<list, missed>>
    \/ /\ call = "open" /\ ok
       /\ list' = ScheduleReload(list)
       /\ UNCHANGED <<edit, missed>>
    \/ /\ call = "open" /\ ~ok
       /\ missed' = TRUE
       /\ UNCHANGED <<list, edit>>

Received(kind) ==
    /\ Calm
    /\ messages # <<>> /\ Head(messages).kind = kind
    /\ messages' = Tail(messages)
    /\ UNCHANGED <<db, host, linked, requests, nextId, count>>

(* A reply that nobody waits for any more is dropped. *)
ReceiveReply ==
    /\ Received("reply")
    /\ LET answer == Head(messages).answer
           for == {c \in Calls : pending[c] = answer.id}
       IN  /\ pending' = [c \in Calls |-> IF c \in for THEN 0 ELSE pending[c]]
           /\ \/ for = {} /\ UNCHANGED <<list, edit, missed>>
              \/ \E c \in for : Result(c, answer.ok, answer.data)

ReceiveChanges ==
    /\ Received("changes")
    /\ list' = OnChange(list, Head(messages).changes)
    /\ UNCHANGED <<pending, edit, missed>>

TimeOut(call) ==
    /\ Calm /\ pending[call] # 0
    /\ Counted("faults", MaxFaults)
    /\ pending' = [pending EXCEPT ![call] = 0]
    /\ Result(call, FALSE, <<>>)
    /\ UNCHANGED <<db, host, port, nextId>>

NewPort ==
    /\ Calm /\ ~linked /\ host.pc # "down"
    /\ linked' = TRUE
    /\ messages' = <<>>
    /\ requests' = <<[id |-> nextId, kind |-> "open", keys |-> {}]>>
    /\ nextId' = nextId + 1
    /\ UNCHANGED <<db, host, count, missed>>

(* Mutated form of Reconnect: calls on the old port go on waiting. *)
ReconnectKeeps ==
    /\ NewPort
    /\ pending' = [pending EXCEPT !["open"] = nextId]
    /\ UNCHANGED <<list, edit>>

(***************************************************************************)
(* reconnect: calls that wait end as crashed, the old port is closed with  *)
(* what it holds, and the new host is opened before any other call.        *)
(***************************************************************************)
Reconnect ==
    /\ NewPort
    /\ pending' = [c \in Calls |-> IF c = "open" THEN nextId ELSE 0]
    /\ list' = IF pending["list"] # 0 THEN [list EXCEPT !.running = "none"] ELSE list
    /\ edit' = IF pending["edit"] # 0 THEN NoEdit
               ELSE IF pending["list"] # 0 THEN EditAfterRead ELSE edit

-----------------------------------------------------------------------------
HostStep ==
    \/ Refuse \/ Open \/ Load \/ (\E k \in Rows : ReadRow(k)) \/ Write
    \/ Reply \/ Broadcast

WindowStep ==
    \/ StartReload \/ StartPatch \/ TimerFires
    \/ ReceiveReply \/ ReceiveChanges \/ Reconnect

Others ==
    \/ \E k \in Rows, listed, other \in BOOLEAN : OtherWrite(k, listed, other)
    \/ OtherOpen
    \/ Leave \/ Return
    \/ \E k \in Rows : Edit(k)
    \/ \E c \in Calls : TimeOut(c)
    \/ Crash

Next == HostStep \/ WindowStep \/ Restart \/ Others

Spec == Init /\ [][Next]_vars

(* Processes run, messages and ports arrive, and a host that died is       *)
(* replaced: the bound on crashes stays below DATA_HOST_MAX_RESTARTS.      *)
Fairness ==
    /\ WF_vars(HostStep)
    /\ WF_vars(WindowStep)
    /\ WF_vars(Restart)

FairSpec == Spec /\ Fairness

-----------------------------------------------------------------------------
(* Properties *)

RowValues == [v : Nat, listed : BOOLEAN]

Changes == [rows : SUBSET Rows, other : BOOLEAN]

TypeOK ==
    /\ db \in [Rows -> RowValues]
    /\ host.pc \in {"idle", "reply", "broadcast", "down"}
    /\ host.captured \in Changes
    /\ {host.open, linked, missed} \subseteq BOOLEAN
    /\ \A i \in DOMAIN requests : requests[i].keys \subseteq Rows
    /\ \A i \in DOMAIN messages : messages[i].kind = "changes" => messages[i].changes \in Changes
    /\ pending \in [Calls -> 0 .. nextId - 1]
    /\ list \in [rows : [Rows -> RowValues],
                 line : {<<>>, <<"reload">>, <<"patch">>, <<"patch", "reload">>},
                 running : {"none", "reload", "patch"}, keys : SUBSET Rows,
                 idle : BOOLEAN, stale : BOOLEAN, timer : BOOLEAN]
    /\ edit.pc \in {"idle", "saving", "refetching", "reading"}

(***************************************************************************)
(* An edit that was saved ends with its rows on screen, unless the read    *)
(* that follows it fails: it waits for a whole read that began after the   *)
(* write, whatever reloads and patches were under way ("no flicker back"). *)
(***************************************************************************)
SavedEditIsShown ==
    [][edit.v # 0 /\ edit'.pc = "idle" /\ linked' = linked /\ ~missed' =>
        \A k \in edit.rows : list'.rows[k].v >= edit.v]_vars

(***************************************************************************)
(* A list somebody reads ends up as the database, after any overlap of     *)
(* writes, failed writes that committed, bursts, readers that leave and    *)
(* return, and crashes of the host between a commit and its broadcast.     *)
(* Excepted: a read or a reopening that failed on its own, which nobody    *)
(* repeats.                                                                *)
(***************************************************************************)
Current == \A k \in Rows : list.rows[k] = db[k] \/ ~(list.rows[k].listed \/ db[k].listed)

ListCatchesUp == <>[](list.idle \/ missed \/ Current)

(***************************************************************************)
(* Every save ends, also when the host dies at any point of it: the calls  *)
(* on its port end as crashed, and the refetch behind it is not lost.      *)
(***************************************************************************)
EditsEnd == edit.pc # "idle" ~> edit.pc = "idle"

=============================================================================
