--------------------------- MODULE DataHostProofs ---------------------------
(***************************************************************************)
(* Proofs about DataHost, for any rows, writes, edits, crashes and faults. *)
(* Two lines of argument.  Every call waits under an id of its own, and    *)
(* what is on its way under that id is what the call expects.  A row the   *)
(* list does not show as it is in the database is covered: by a change     *)
(* that is being announced, by a read that is due, or by one under way.    *)
(***************************************************************************)
EXTENDS DataHost, SequenceTheorems, TLAPS

(* What the port carries. *)
Legal == [id : Nat, kind : {"load", "rows", "write", "open"}, keys : SUBSET Rows]

Some == UNION {[S -> RowValues] : S \in SUBSET Rows}

Answer == [id : Nat, ok : BOOLEAN, data : Some \cup Nat]

Message ==
    [kind : {"reply"}, answer : Answer] \cup [kind : {"changes"}, changes : Changes]

HostState ==
    [pc : {"idle", "reply", "broadcast", "down"}, open : BOOLEAN, captured : Changes,
     answer : Answer, got : Some]

ListState ==
    [rows : [Rows -> RowValues],
     line : {<<>>, <<"reload">>, <<"patch">>, <<"patch", "reload">>},
     running : {"none", "reload", "patch"}, keys : SUBSET Rows,
     idle : BOOLEAN, stale : BOOLEAN, timer : BOOLEAN]

EditState == [pc : {"idle", "saving", "refetching", "reading"}, rows : SUBSET Rows, v : Nat]

Counts == [{"writes", "edits", "crashes", "faults", "leaves"} -> Nat]

Types ==
    /\ db \in [Rows -> RowValues]
    /\ host \in HostState
    /\ linked \in BOOLEAN
    /\ requests \in Seq(Legal)
    /\ messages \in Seq(Message)
    /\ pending \in [Calls -> Nat]
    /\ nextId \in Nat
    /\ list \in ListState
    /\ edit \in EditState
    /\ count \in Counts
    /\ missed \in BOOLEAN

(* The calls wait under ids of their own. *)
IdsOK ==
    /\ nextId > 0
    /\ \A c \in Calls : pending[c] < nextId
    /\ \A c, d \in Calls : pending[c] = pending[d] => c = d \/ pending[c] = 0

(* The list and the edit, between themselves. *)
WindowOK ==
    /\ pending["list"] # 0 <=> list.running # "none"
    /\ pending["edit"] # 0 => edit.pc = "saving"
    /\ edit.pc \in {"idle", "saving"} => edit.v = 0
    /\ edit.pc = "reading" => list.running = "reload"
    /\ edit.pc \in {"refetching", "reading"} => \A k \in edit.rows : db[k].v >= edit.v

(* A request is what the call that waits for it has sent. *)
RequestFits(q) ==
    /\ q.id \in 1 .. nextId - 1
    /\ q.id = pending["list"] => q.kind = IF list.running = "reload" THEN "load" ELSE "rows"
    /\ q.id = pending["edit"] => q.kind = "write" /\ q.keys = edit.rows
    /\ q.id = pending["open"] => q.kind = "open"

(* An answer is what the call that waits for it expects. *)
AnswerFits(a) ==
    /\ a.id \in 1 .. nextId - 1
    /\ a.id = pending["list"] /\ a.ok =>
        /\ a.data \in Some
        /\ list.running = "reload" => DOMAIN a.data = Rows
        /\ edit.pc = "reading" => \A k \in edit.rows : a.data[k].v >= edit.v
    /\ a.id = pending["edit"] /\ a.ok => a.data \in Nat /\ \A k \in edit.rows : db[k].v >= a.data

CarriersOK ==
    /\ \A i \in 1 .. Len(requests) : RequestFits(requests[i])
    /\ host.pc = "reply" => AnswerFits(host.answer)
    /\ \A i \in 1 .. Len(messages) :
        messages[i].kind = "reply" => AnswerFits(messages[i].answer)

(* The values of the rows are the numbers of writes that were made. *)
DbOK == \A k \in Rows : db[k].v <= count.writes

HostInv == Types /\ IdsOK /\ WindowOK /\ CarriersOK /\ DbOK

-----------------------------------------------------------------------------
(* The rows the list does not show as they are *)

(* What the host has to do for the window, and what it was told. *)
DutyOK ==
    /\ host.pc \in {"idle", "down"} => host.captured = NoChanges
    /\ ~linked => requests = <<>> /\ DOMAIN host.got = {}
    /\ linked => host.pc # "down"
    /\ DOMAIN host.got # {} => requests # <<>> /\ Request.kind = "rows"

Names(changes, k) == changes.other \/ k \in changes.rows

(* The change of k is being announced. *)
Told(k) ==
    \/ Names(host.captured, k)
    \/ \E i \in 1 .. Len(messages) :
        messages[i].kind = "changes" /\ Names(messages[i].changes, k)

WillReload == list.timer \/ list.stale \/ Queued(list, "reload")

WillPatch(k) == Queued(list, "patch") /\ k \in list.keys

(* A read of k will follow the one that is under way, if any. *)
Due(k) == Told(k) \/ WillReload \/ WillPatch(k)

(* What was read of k is what is there, or it is read once more. *)
Good(rows, k) == rows[k] = db[k] \/ Due(k)

AnswerGood(a) == a.id = pending["list"] /\ a.ok => \A k \in DOMAIN a.data : Good(a.data, k)

FreshOK ==
    /\ requests # <<>> /\ Request.id = pending["list"] =>
        \A k \in DOMAIN host.got : Good(host.got, k)
    /\ host.pc = "reply" => AnswerGood(host.answer)
    /\ \A i \in 1 .. Len(messages) :
        messages[i].kind = "reply" => AnswerGood(messages[i].answer)

Same(k) == list.rows[k] = db[k] \/ ~(list.rows[k].listed \/ db[k].listed)

(* If it answers the list's read, it brings k, or the read has failed. *)
Brings(a, k) == a.id = pending["list"] => ~a.ok \/ k \in DOMAIN a.data

Asks(q, k) == q.id = pending["list"] => list.running = "reload" \/ k \in q.keys

(* The read that is under way is one of k. *)
UnderWay(k) ==
    /\ list.running # "none"
    /\ \A i \in 1 .. Len(requests) : Asks(requests[i], k)
    /\ host.pc = "reply" => Brings(host.answer, k)
    /\ \A i \in 1 .. Len(messages) :
        messages[i].kind = "reply" => Brings(messages[i].answer, k)

(* A host that was reopened has the list read again. *)
Covered(k) == Same(k) \/ Due(k) \/ pending["open"] # 0 \/ UnderWay(k)

CoveredOK == ~missed => \A k \in Rows : Covered(k)

ListOK == FreshOK /\ CoveredOK

ListInv == DutyOK /\ (linked => ListOK)

(***************************************************************************)
(* A list that is waiting for nothing shows the database: no change is     *)
(* being announced, no call is under way and no read is owed, and no read  *)
(* has failed on its own.                                                  *)
(***************************************************************************)
Quiet ==
    /\ linked /\ host.pc = "idle" /\ requests = <<>> /\ messages = <<>>
    /\ pending = [c \in Calls |-> 0]
    /\ list.line = <<>> /\ ~list.timer /\ ~list.stale

QuietListIsCurrent == Quiet /\ ~missed => Current

-----------------------------------------------------------------------------
(* Data *)

LEMMA NothingIsSome == <<>> \in Some /\ DOMAIN <<>> = {}
  <1>1. <<>> \in [{} -> RowValues] /\ DOMAIN <<>> = {}
    OBVIOUS
  <1> QED BY <1>1 DEF Some

LEMMA SomeIs ==
    ASSUME NEW S \in SUBSET Rows, NEW f \in [S -> RowValues]
    PROVE  f \in Some /\ DOMAIN f = S
  BY DEF Some

LEMMA SomeRows ==
    ASSUME NEW f \in Some
    PROVE  DOMAIN f \in SUBSET Rows /\ f \in [DOMAIN f -> RowValues]
  BY DEF Some

LEMMA HeadAndTail ==
    ASSUME NEW S, NEW q \in Seq(S), q # <<>>
    PROVE  /\ Len(q) \in Nat /\ Len(q) > 0 /\ Head(q) \in S /\ Head(q) = q[1]
           /\ Tail(q) \in Seq(S) /\ Len(Tail(q)) = Len(q) - 1
           /\ \A i \in 1 .. Len(q) - 1 : Tail(q)[i] = q[i + 1]
           /\ 1 \in 1 .. Len(q)
           /\ \A i \in 1 .. Len(Tail(q)) : i + 1 \in 1 .. Len(q)
  OBVIOUS

LEMMA Appended ==
    ASSUME NEW S, NEW q \in Seq(S), NEW x \in S
    PROVE  /\ Append(q, x) \in Seq(S) /\ Len(q) \in Nat /\ Len(Append(q, x)) = Len(q) + 1
           /\ Append(q, x)[Len(q) + 1] = x
           /\ \A i \in 1 .. Len(q) : Append(q, x)[i] = q[i]
           /\ \A i \in 1 .. Len(Append(q, x)) : i \in 1 .. Len(q) \/ i = Len(q) + 1
  OBVIOUS

-----------------------------------------------------------------------------
(* The collection's operators *)

Lines == {<<>>, <<"reload">>, <<"patch">>, <<"patch", "reload">>}

LEMMA QueueFacts ==
    ASSUME NEW l \in ListState
    PROVE  /\ l.line \in Lines
           /\ Queued(l, "reload") <=> l.line \in {<<"reload">>, <<"patch", "reload">>}
           /\ Queued(l, "patch") <=> l.line \in {<<"patch">>, <<"patch", "reload">>}
  <1>1. l.line \in Lines
    BY DEF ListState, Lines
  <1>2. CASE l.line = <<>>
    <2>1. DOMAIN l.line = {}
      BY <1>2
    <2> QED BY <1>2, <2>1 DEF Queued, Lines
  <1>3. CASE l.line = <<"reload">>
    <2>1. DOMAIN l.line = {1} /\ l.line[1] = "reload"
      BY <1>3
    <2> QED BY <1>3, <2>1 DEF Queued, Lines
  <1>4. CASE l.line = <<"patch">>
    <2>1. DOMAIN l.line = {1} /\ l.line[1] = "patch"
      BY <1>4
    <2> QED BY <1>4, <2>1 DEF Queued, Lines
  <1>5. CASE l.line = <<"patch", "reload">>
    <2>1. DOMAIN l.line = {1, 2} /\ l.line[1] = "patch" /\ l.line[2] = "reload"
      BY <1>5
    <2> QED BY <1>5, <2>1 DEF Queued, Lines
  <1> QED BY <1>1, <1>2, <1>3, <1>4, <1>5 DEF Lines

LEMMA LongerLines ==
    /\ Append(<<>>, "reload") = <<"reload">> /\ Append(<<>>, "patch") = <<"patch">>
    /\ Append(<<"patch">>, "reload") = <<"patch", "reload">>
    /\ Tail(<<"reload">>) = <<>> /\ Head(<<"reload">>) = "reload"
    /\ Tail(<<"patch">>) = <<>> /\ Head(<<"patch">>) = "patch"
    /\ Tail(<<"patch", "reload">>) = <<"reload">> /\ Head(<<"patch", "reload">>) = "patch"
  <1>1. Append(<<>>, "reload") = <<"reload">> /\ Append(<<>>, "patch") = <<"patch">>
    OBVIOUS
  <1>2. Append(<<"patch">>, "reload") = <<"patch", "reload">>
    <2>1. PICK q : q = <<"patch">>
      OBVIOUS
    <2>2. q \in Seq({"patch", "reload"}) /\ Len(q) = 1 /\ q[1] = "patch"
      BY <2>1
    <2>3. PICK a : a = Append(q, "reload")
      OBVIOUS
    <2>4. a \in Seq({"patch", "reload"}) /\ Len(a) = 2 /\ a[1] = "patch" /\ a[2] = "reload"
      <3>1. PICK S : S = {"patch", "reload"}
        OBVIOUS
      <3>2. q \in Seq(S) /\ "reload" \in S /\ 1 \in 1 .. Len(q)
        BY <2>2, <3>1
      <3>3. /\ a \in Seq(S) /\ Len(a) = Len(q) + 1 /\ a[Len(q) + 1] = "reload"
            /\ \A i \in 1 .. Len(q) : a[i] = q[i]
        BY <2>3, <3>2, Appended
      <3> QED BY <2>2, <3>1, <3>2, <3>3
    <2>5. PICK b : b = <<"patch", "reload">>
      OBVIOUS
    <2>6. b \in Seq({"patch", "reload"}) /\ Len(b) = 2 /\ b[1] = "patch" /\ b[2] = "reload"
      BY <2>5
    <2>7. \A i \in 1 .. Len(a) : a[i] = b[i]
      BY <2>4, <2>6
    <2> QED BY <2>1, <2>3, <2>4, <2>5, <2>6, <2>7, SeqEqual
  <1>3. Head(<<"reload">>) = "reload" /\ Head(<<"patch">>) = "patch"
        /\ Head(<<"patch", "reload">>) = "patch"
    OBVIOUS
  <1>4. \A x : Tail(<<x>>) = <<>>
    <2> SUFFICES ASSUME NEW x PROVE Tail(<<x>>) = <<>>
      OBVIOUS
    <2>1. <<x>> \in Seq({x}) /\ Len(<<x>>) = 1
      OBVIOUS
    <2> QED BY <2>1, EmptySeq
  <1>5. Tail(<<"patch", "reload">>) = <<"reload">>
    <2>1. PICK q : q = <<"patch", "reload">>
      OBVIOUS
    <2>2. q \in Seq({"patch", "reload"}) /\ Len(q) = 2 /\ q[2] = "reload"
      BY <2>1
    <2>3. Tail(q) \in Seq({"patch", "reload"}) /\ Len(Tail(q)) = 1 /\ Tail(q)[1] = "reload"
      BY <2>2
    <2>4. <<"reload">> \in Seq({"patch", "reload"}) /\ Len(<<"reload">>) = 1
          /\ <<"reload">>[1] = "reload"
      OBVIOUS
    <2> QED BY <2>1, <2>3, <2>4, SeqEqual
  <1> QED BY <1>1, <1>2, <1>3, <1>4, <1>5

(* What stays of a collection that is given a task. *)
Keeps(l, m) ==
    m \in ListState /\ m.rows = l.rows /\ m.running = l.running /\ m.idle = l.idle

LEMMA ReloadIs ==
    ASSUME NEW l \in ListState
    PROVE  /\ Keeps(l, Reload(l)) /\ Queued(Reload(l), "reload")
           /\ Reload(l).keys = l.keys /\ Reload(l).stale = l.stale /\ Reload(l).timer = l.timer
           /\ Queued(l, "patch") => Queued(Reload(l), "patch")
  <1>1. CASE Queued(l, "reload")
    BY <1>1 DEF Reload, Keeps
  <1>2. CASE ~Queued(l, "reload")
    <2>1. PICK line : line = Append(l.line, "reload")
      OBVIOUS
    <2>2. PICK m : m = [l EXCEPT !.line = line]
      OBVIOUS
    <2>3. \/ l.line = <<>> /\ line = <<"reload">>
          \/ l.line = <<"patch">> /\ line = <<"patch", "reload">>
      BY <1>2, <2>1, QueueFacts, LongerLines DEF Lines
    <2>4. /\ m \in ListState /\ m.line = line /\ m.rows = l.rows /\ m.running = l.running
          /\ m.idle = l.idle /\ m.keys = l.keys /\ m.stale = l.stale /\ m.timer = l.timer
      BY <2>2, <2>3 DEF ListState
    <2>5. Reload(l) = m
      BY <1>2, <2>1, <2>2 DEF Reload
    <2> QED BY <2>3, <2>4, <2>5, QueueFacts DEF Keeps
  <1> QED BY <1>1, <1>2

LEMMA ScheduleReloadIs ==
    ASSUME NEW l \in ListState
    PROVE  /\ Keeps(l, ScheduleReload(l))
           /\ ScheduleReload(l).timer \/ ScheduleReload(l).stale
           /\ ScheduleReload(l).keys = l.keys /\ ScheduleReload(l).line = l.line
           /\ l.timer => ScheduleReload(l).timer
           /\ l.stale => ScheduleReload(l).stale
  BY DEF ScheduleReload, Keeps, ListState

LEMMA RefetchIs ==
    ASSUME NEW l \in ListState
    PROVE  /\ Keeps(l, Refetch(l)) /\ Queued(Refetch(l), "reload")
           /\ Refetch(l).keys = l.keys /\ Refetch(l).stale = l.stale
           /\ Queued(l, "patch") => Queued(Refetch(l), "patch")
  <1>1. PICK m : m = [l EXCEPT !.timer = FALSE]
    OBVIOUS
  <1>2. /\ m \in ListState /\ Keeps(l, m) /\ m.keys = l.keys /\ m.stale = l.stale
        /\ m.line = l.line
    BY <1>1 DEF ListState, Keeps
  <1>3. Queued(l, "patch") => Queued(m, "patch")
    BY <1>2, QueueFacts
  <1> QED BY <1>1, <1>2, <1>3, ReloadIs DEF Refetch, Keeps

LEMMA PatchIs ==
    ASSUME NEW l \in ListState, NEW rows \in SUBSET Rows
    PROVE  /\ Keeps(l, Patch(l, rows))
           /\ l.timer => Patch(l, rows).timer
           /\ l.stale => Patch(l, rows).stale
           /\ Queued(l, "reload") => Queued(Patch(l, rows), "reload")
           /\ Queued(l, "patch") => Queued(Patch(l, rows), "patch")
           /\ l.keys \subseteq Patch(l, rows).keys
           /\ \/ Patch(l, rows).stale \/ Queued(Patch(l, rows), "reload")
              \/ Queued(Patch(l, rows), "patch") /\ rows \subseteq Patch(l, rows).keys
  <1>1. CASE l.idle
    <2>1. PICK m : m = [l EXCEPT !.stale = TRUE]
      OBVIOUS
    <2>2. /\ m \in ListState /\ Keeps(l, m) /\ m.stale /\ m.line = l.line /\ m.keys = l.keys
          /\ m.timer = l.timer
      BY <2>1 DEF ListState, Keeps
    <2> QED BY <1>1, <2>1, <2>2, QueueFacts DEF Patch
  <1>2. CASE ~l.idle /\ Queued(l, "reload")
    BY <1>2 DEF Patch, Keeps
  <1>3. CASE ~l.idle /\ ~Queued(l, "reload")
    <2>1. PICK line : line = IF Queued(l, "patch") THEN l.line ELSE Append(l.line, "patch")
      OBVIOUS
    <2>2. line = <<"patch">>
      BY <1>3, <2>1, QueueFacts, LongerLines DEF Lines
    <2>3. PICK m : m = [l EXCEPT !.keys = @ \cup rows, !.line = line]
      OBVIOUS
    <2>4. /\ m \in ListState /\ Keeps(l, m) /\ m.keys = l.keys \cup rows /\ m.line = <<"patch">>
          /\ m.stale = l.stale /\ m.timer = l.timer
      BY <2>2, <2>3 DEF ListState, Keeps
    <2>5. Patch(l, rows) = m
      BY <1>3, <2>1, <2>3 DEF Patch
    <2> QED BY <1>3, <2>4, <2>5, QueueFacts
  <1> QED BY <1>1, <1>2, <1>3

LEMMA LoadedIs ==
    ASSUME NEW l \in ListState, NEW rows \in [Rows -> RowValues]
    PROVE  /\ Loaded(l, rows) \in ListState /\ Loaded(l, rows).running = "none"
           /\ Loaded(l, rows).rows = rows
           /\ Loaded(l, rows).line = l.line /\ Loaded(l, rows).keys = l.keys
           /\ Loaded(l, rows).stale = l.stale /\ Loaded(l, rows).timer = l.timer
  BY DEF Loaded, ListState

(* A patch shows what it has read, or has the whole list read again. *)
LEMMA PatchedIs ==
    ASSUME NEW l \in ListState, NEW got \in Some
    PROVE  /\ Patched(l, got) \in ListState /\ Patched(l, got).running = "none"
           /\ Patched(l, got).line = l.line /\ Patched(l, got).keys = l.keys
           /\ l.timer => Patched(l, got).timer
           /\ l.stale => Patched(l, got).stale
           /\ \/ Patched(l, got).timer \/ Patched(l, got).stale
              \/ \A k \in Rows :
                    IF k \in DOMAIN got
                    THEN \/ Patched(l, got).rows[k] = got[k]
                         \/ ~got[k].listed /\ ~Patched(l, got).rows[k].listed
                    ELSE Patched(l, got).rows[k] = l.rows[k]
  <1>1. PICK reshaped \in BOOLEAN :
            reshaped <=> \E k \in DOMAIN got : got[k].listed # l.rows[k].listed
    OBVIOUS
  <1>2. PICK done : done = [l EXCEPT !.running = "none"]
    OBVIOUS
  <1>3. /\ done \in ListState /\ done.running = "none" /\ done.rows = l.rows
        /\ done.line = l.line /\ done.keys = l.keys /\ done.timer = l.timer
        /\ done.stale = l.stale
    BY <1>2 DEF ListState
  <1>4. CASE reshaped
    <2>1. Patched(l, got) = ScheduleReload(done)
      BY <1>1, <1>2, <1>4 DEF Patched
    <2> QED BY <1>3, <2>1, ScheduleReloadIs DEF Keeps
  <1>5. CASE ~reshaped
    <2>1. PICK rows : rows = [k \in Rows |->
                IF k \in DOMAIN got /\ l.rows[k].listed THEN got[k] ELSE l.rows[k]]
      OBVIOUS
    <2>2. rows \in [Rows -> RowValues]
      BY <2>1, SomeRows DEF ListState
    <2>3. PICK m : m = [done EXCEPT !.rows = rows]
      OBVIOUS
    <2>4. /\ m \in ListState /\ m.running = "none" /\ m.rows = rows /\ m.line = l.line
          /\ m.keys = l.keys /\ m.timer = l.timer /\ m.stale = l.stale
      BY <1>3, <2>2, <2>3 DEF ListState
    <2>5. Patched(l, got) = m
      BY <1>1, <1>2, <1>5, <2>1, <2>3 DEF Patched
    <2>6. ASSUME NEW k \in DOMAIN got
          PROVE  rows[k] = got[k] \/ (~got[k].listed /\ ~rows[k].listed)
      <3>1. k \in Rows /\ got[k].listed = l.rows[k].listed /\ l.rows[k].listed \in BOOLEAN
        BY <1>1, <1>5, SomeRows DEF ListState, RowValues
      <3> QED BY <2>1, <3>1
    <2> QED BY <2>1, <2>4, <2>5, <2>6
  <1> QED BY <1>4, <1>5

LEMMA OnChangeIs ==
    ASSUME NEW l \in ListState, NEW c \in Changes
    PROVE  /\ Keeps(l, OnChange(l, c))
           /\ l.timer => OnChange(l, c).timer
           /\ l.stale => OnChange(l, c).stale
           /\ Queued(l, "reload") => Queued(OnChange(l, c), "reload")
           /\ Queued(l, "patch") => Queued(OnChange(l, c), "patch")
           /\ l.keys \subseteq OnChange(l, c).keys
           /\ \/ OnChange(l, c).stale \/ OnChange(l, c).timer
              \/ Queued(OnChange(l, c), "reload")
              \/ ~c.other /\ Queued(OnChange(l, c), "patch") /\ c.rows \subseteq OnChange(l, c).keys
  <1>1. CASE c.other
    <2>1. OnChange(l, c) = ScheduleReload(l)
      BY <1>1 DEF OnChange
    <2> QED BY <2>1, ScheduleReloadIs, QueueFacts DEF Keeps
  <1>2. CASE ~c.other
    <2>1. OnChange(l, c) = Patch(l, c.rows) /\ c.rows \in SUBSET Rows
      BY <1>2 DEF OnChange, Changes
    <2> QED BY <1>2, <2>1, PatchIs
  <1> QED BY <1>1, <1>2

-----------------------------------------------------------------------------
(* Ids and what is on its way under them: the host's steps *)

LEMMA HostInit == Init => HostInv
  <1> SUFFICES ASSUME Init PROVE HostInv
    OBVIOUS
  <1>1. db \in [Rows -> RowValues] /\ \A k \in Rows : db[k].v = 0
    BY DEF Init, RowValues
  <1>2. host \in HostState /\ host.pc = "idle"
    BY NothingIsSome DEF Init, Host, HostState, NoChanges, Changes, NoAnswer, Answer
  <1>3. list \in ListState /\ list.running = "none"
    BY <1>1 DEF Init, ListState
  <1>4. edit \in EditState /\ edit.pc = "idle" /\ edit.v = 0
    BY DEF Init, NoEdit, EditState
  <1>5. count \in Counts /\ count.writes = 0
    BY DEF Init, Counts
  <1>6. requests \in Seq(Legal) /\ Len(requests) = 0 /\ messages \in Seq(Message)
        /\ Len(messages) = 0
    BY DEF Init
  <1>7. Types
    BY <1>1, <1>2, <1>3, <1>4, <1>5, <1>6 DEF Init, Types
  <1>8. IdsOK /\ WindowOK
    BY <1>3, <1>4 DEF Init, IdsOK, WindowOK, Calls
  <1>9. CarriersOK
    BY <1>2, <1>6 DEF CarriersOK
  <1> QED BY <1>1, <1>5, <1>7, <1>8, <1>9 DEF HostInv, DbOK

(* Writes only raise the values an answer is compared with. *)
LEMMA AnswerStillFits ==
    ASSUME Types, NEW a, AnswerFits(a), UNCHANGED window,
           db' \in [Rows -> RowValues], \A k \in Rows : db'[k].v >= db[k].v
    PROVE  AnswerFits(a)'
  <1>1. /\ pending' = pending /\ nextId' = nextId /\ list' = list /\ edit' = edit
    BY DEF window, client
  <1>2. edit.rows \subseteq Rows
    BY DEF Types, EditState
  <1>3. ASSUME a.data \in Nat, \A k \in edit.rows : db[k].v >= a.data
        PROVE  \A k \in edit.rows : db'[k].v >= a.data
    <2> SUFFICES ASSUME NEW k \in edit.rows PROVE db'[k].v >= a.data
      OBVIOUS
    <2>1. k \in Rows /\ db[k].v \in Nat /\ db'[k].v \in Nat
      BY <1>2 DEF Types, RowValues
    <2> QED BY <1>3, <2>1
  <1> QED BY <1>1, <1>3 DEF AnswerFits

LEMMA HostKeeps ==
    ASSUME HostInv, UNCHANGED window, linked' \in BOOLEAN,
           db' \in [Rows -> RowValues], count' \in Counts,
           \A k \in Rows : db'[k].v >= db[k].v /\ db'[k].v <= count'.writes,
           host' \in HostState, requests' \in Seq(Legal), messages' \in Seq(Message),
           \A i \in 1 .. Len(requests') : \E j \in 1 .. Len(requests) : requests'[i] = requests[j],
           host'.pc = "reply" => (AnswerFits(host.answer) /\ host'.answer = host.answer)
                                    \/ AnswerFits(host.answer)',
           \A i \in 1 .. Len(messages') :
                \/ \E j \in 1 .. Len(messages) : messages'[i] = messages[j]
                \/ messages'[i].kind = "changes"
                \/ AnswerFits(messages'[i].answer)
    PROVE  HostInv'
  <1>1. /\ pending' = pending /\ nextId' = nextId /\ list' = list /\ edit' = edit
        /\ missed' = missed
    BY DEF window, client
  <1>2. Types
    BY DEF HostInv
  <1>3. Types'
    BY <1>1 DEF HostInv, Types
  <1>4. IdsOK'
    BY <1>1 DEF HostInv, IdsOK
  <1>5. WindowOK'
    <2>1. ASSUME NEW k \in edit.rows, db[k].v >= edit.v PROVE db'[k].v >= edit.v
      <3>1. k \in Rows /\ db[k].v \in Nat /\ db'[k].v \in Nat /\ edit.v \in Nat
        BY <1>2 DEF Types, EditState, RowValues
      <3> QED BY <2>1, <3>1
    <2> QED BY <1>1, <2>1 DEF HostInv, WindowOK
  <1>6. \A i \in 1 .. Len(requests') : RequestFits(requests[i])'
    <2>1. ASSUME NEW q, RequestFits(q) PROVE RequestFits(q)'
      BY <1>1, <2>1 DEF RequestFits
    <2> SUFFICES ASSUME NEW i \in 1 .. Len(requests') PROVE RequestFits(requests[i])'
      OBVIOUS
    <2>2. PICK j \in 1 .. Len(requests) : requests'[i] = requests[j]
      OBVIOUS
    <2>3. PICK q : q = requests'[i]
      OBVIOUS
    <2>4. RequestFits(q)
      BY <2>2, <2>3 DEF HostInv, CarriersOK
    <2>5. RequestFits(q)'
      BY <2>1, <2>4
    <2> QED BY <2>3, <2>5, Zenon DEF RequestFits
  <1>7. host'.pc = "reply" => AnswerFits(host.answer)'
    <2> SUFFICES ASSUME host'.pc = "reply", AnswerFits(host.answer), host'.answer = host.answer
                 PROVE  AnswerFits(host.answer)'
      OBVIOUS
    <2>1. PICK a : a = host.answer
      OBVIOUS
    <2>2. AnswerFits(a)'
      BY <1>2, <2>1, AnswerStillFits
    <2> QED BY <2>1, <2>2, Zenon DEF AnswerFits
  <1>8. \A i \in 1 .. Len(messages') :
            messages'[i].kind = "reply" => AnswerFits(messages[i].answer)'
    <2> SUFFICES ASSUME NEW i \in 1 .. Len(messages'), messages'[i].kind = "reply"
                 PROVE  AnswerFits(messages[i].answer)'
      OBVIOUS
    <2>1. PICK a : a = messages'[i].answer
      OBVIOUS
    <2>2. AnswerFits(a)
      BY <2>1 DEF HostInv, CarriersOK
    <2>3. AnswerFits(a)'
      BY <1>2, <2>2, AnswerStillFits
    <2> QED BY <2>1, <2>3, Zenon DEF AnswerFits
  <1>9. DbOK'
    BY DEF DbOK
  <1> QED BY <1>3, <1>4, <1>5, <1>6, <1>7, <1>8, <1>9 DEF HostInv, CarriersOK

(* The host answers the request it is at. *)
LEMMA AnsweredKeeps ==
    ASSUME HostInv, requests # <<>>, NEW state \in HostState, NEW ok \in BOOLEAN,
           NEW data \in Some \cup Nat, Answered(state, ok, data),
           db' \in [Rows -> RowValues], count' \in Counts,
           \A k \in Rows : db'[k].v >= db[k].v /\ db'[k].v <= count'.writes,
           ok /\ Request.id = pending["list"] =>
                /\ data \in Some
                /\ list.running = "reload" => DOMAIN data = Rows
                /\ edit.pc = "reading" => \A k \in edit.rows : data[k].v >= edit.v,
           ok /\ Request.id = pending["edit"] =>
                data \in Nat /\ \A k \in edit.rows : db'[k].v >= data
    PROVE  HostInv'
  <1>1. PICK q : q = Request
    OBVIOUS
  <1>2. /\ requests \in Seq(Legal) /\ q \in Legal /\ q = requests[1] /\ 1 \in 1 .. Len(requests)
        /\ Tail(requests) \in Seq(Legal)
        /\ \A i \in 1 .. Len(Tail(requests)) :
              i + 1 \in 1 .. Len(requests) /\ Tail(requests)[i] = requests[i + 1]
    BY <1>1, HeadAndTail DEF Request, HostInv, Types
  <1>3. RequestFits(q)
    BY <1>2 DEF HostInv, CarriersOK
  <1>4. PICK a : a = [id |-> q.id, ok |-> ok, data |-> data]
    OBVIOUS
  <1>5. PICK h : h = [state EXCEPT !.pc = "reply", !.got = <<>>, !.answer = a]
    OBVIOUS
  <1>6. a \in Answer
    BY <1>2, <1>4 DEF Answer, Legal
  <1>7. h \in HostState /\ h.answer = a
    BY <1>5, <1>6, NothingIsSome DEF HostState
  <1>8. /\ host' = h /\ requests' = Tail(requests) /\ UNCHANGED <<linked, messages, window>>
    BY <1>1, <1>4, <1>5 DEF Answered
  <1>9. pending' = pending /\ nextId' = nextId /\ list' = list /\ edit' = edit
    BY <1>8 DEF window, client
  <1>10. AnswerFits(a)'
    BY <1>1, <1>3, <1>4, <1>9 DEF AnswerFits, RequestFits
  <1>11. AnswerFits(host.answer)'
    BY <1>7, <1>8, <1>10, Zenon DEF AnswerFits
  <1>12. linked' \in BOOLEAN /\ messages' \in Seq(Message)
    BY <1>8 DEF HostInv, Types
  <1> QED BY <1>2, <1>7, <1>8, <1>11, <1>12, HostKeeps

(* No step of these writes. *)
LEMMA NothingWritten ==
    ASSUME HostInv, db' = db, count' \in Counts, count'.writes = count.writes
    PROVE  /\ db' \in [Rows -> RowValues]
           /\ \A k \in Rows : db'[k].v >= db[k].v /\ db'[k].v <= count'.writes
  BY DEF HostInv, Types, DbOK, RowValues

LEMMA CountedIs ==
    ASSUME NEW what \in {"edits", "crashes", "faults", "leaves"}, NEW max, count \in Counts,
           Counted(what, max)
    PROVE  count' \in Counts /\ count'.writes = count.writes
  BY DEF Counted, Counts

LEMMA RequestIs ==
    ASSUME HostInv, requests # <<>>
    PROVE  Request \in Legal /\ RequestFits(Request)
  <1>1. PICK q : q = Request
    OBVIOUS
  <1>2. q \in Legal /\ q = requests[1] /\ 1 \in 1 .. Len(requests)
    BY <1>1, HeadAndTail DEF Request, HostInv, Types
  <1> QED BY <1>1, <1>2 DEF HostInv, CarriersOK

LEMMA RefuseKeeps == ASSUME HostInv, Refuse PROVE HostInv'
  <1>1. requests # <<>> /\ Answered(host, FALSE, <<>>) /\ db' = db /\ count' = count
    BY DEF Refuse, Serve
  <1>2. host \in HostState /\ count' \in Counts
    BY <1>1 DEF HostInv, Types
  <1> QED BY <1>1, <1>2, NothingIsSome, NothingWritten, AnsweredKeeps

LEMMA OpenKeeps == ASSUME HostInv, Open PROVE HostInv'
  <1>1. requests # <<>> /\ Request.kind = "open" /\ db' = db
    BY DEF Open, Serve
  <1>2. RequestFits(Request)
    BY <1>1, RequestIs
  <1>3. Request.id # pending["list"] /\ Request.id # pending["edit"]
    BY <1>1, <1>2 DEF RequestFits
  <1>4. PICK ok \in BOOLEAN, h \in {host, [host EXCEPT !.open = TRUE]} : Answered(h, ok, <<>>)
    BY DEF Open
  <1>5. h \in HostState
    BY <1>4 DEF HostInv, Types, HostState
  <1>6. count' \in Counts /\ count'.writes = count.writes
    BY CountedIs DEF Open, HostInv, Types
  <1> QED BY <1>1, <1>3, <1>4, <1>5, <1>6, NothingIsSome, NothingWritten, AnsweredKeeps

LEMMA LoadKeeps == ASSUME HostInv, Load PROVE HostInv'
  <1>1. requests # <<>> /\ Request.kind = "load" /\ db' = db /\ count' = count
        /\ Answered(host, TRUE, db)
    BY DEF Load, Serve
  <1>2. RequestFits(Request)
    BY <1>1, RequestIs
  <1>3. Request.id # pending["edit"]
    BY <1>1, <1>2 DEF RequestFits
  <1>4. db \in Some /\ DOMAIN db = Rows /\ host \in HostState /\ count' \in Counts
    BY <1>1, SomeIs DEF HostInv, Types
  <1>5. edit.pc = "reading" => \A k \in edit.rows : db[k].v >= edit.v
    BY DEF HostInv, WindowOK
  <1> QED BY <1>1, <1>3, <1>4, <1>5, NothingWritten, AnsweredKeeps

(* What a read of single rows has so far, with one more. *)
LEMMA GotIs ==
    ASSUME HostInv, NEW k \in Rows, NEW got,
           got = [r \in DOMAIN host.got \cup {k} |-> IF r = k THEN db[k] ELSE host.got[r]]
    PROVE  got \in Some /\ DOMAIN got = DOMAIN host.got \cup {k} /\ got[k] = db[k]
           /\ \A r \in DOMAIN host.got \ {k} : got[r] = host.got[r]
  <1>1. host.got \in Some
    BY DEF HostInv, Types, HostState
  <1>2. DOMAIN host.got \cup {k} \in SUBSET Rows
    BY <1>1, SomeRows
  <1>3. got \in [DOMAIN host.got \cup {k} -> RowValues]
    BY <1>1, SomeRows DEF HostInv, Types
  <1> QED BY <1>2, <1>3, SomeIs

LEMMA ReadRowKeeps == ASSUME HostInv, NEW k \in Rows, ReadRow(k) PROVE HostInv'
  <1>1. PICK got :
          got = [r \in DOMAIN host.got \cup {k} |-> IF r = k THEN db[k] ELSE host.got[r]]
    OBVIOUS
  <1>2. got \in Some
    BY <1>1, GotIs
  <1>3. requests # <<>> /\ Request.kind = "rows" /\ db' = db /\ count' = count /\ host.pc = "idle"
    BY DEF ReadRow, Serve
  <1>4. host \in HostState /\ count' \in Counts
    BY <1>3 DEF HostInv, Types
  <1>5. CASE Answered(host, TRUE, got)
    <2>1. RequestFits(Request)
      BY <1>3, RequestIs
    <2>2. Request.id # pending["edit"]
      BY <1>3, <2>1 DEF RequestFits
    <2>3. Request.id = pending["list"] => list.running # "reload" /\ edit.pc # "reading"
      BY <1>3, <2>1 DEF RequestFits, HostInv, WindowOK
    <2> QED BY <1>2, <1>3, <1>4, <1>5, <2>2, <2>3, NothingWritten, AnsweredKeeps
  <1>6. CASE host' = [host EXCEPT !.got = got] /\ UNCHANGED <<port, window>>
    <2>1. host' \in HostState /\ host'.pc = "idle"
      BY <1>2, <1>3, <1>4, <1>6 DEF HostState
    <2>2. linked' \in BOOLEAN /\ requests' = requests /\ messages' = messages
      BY <1>6 DEF port, HostInv, Types
    <2>3. requests' \in Seq(Legal) /\ messages' \in Seq(Message)
      BY <2>2 DEF HostInv, Types
    <2> QED BY <1>3, <1>4, <1>6, <2>1, <2>2, <2>3, NothingWritten, HostKeeps
  <1> QED BY <1>1, <1>5, <1>6 DEF ReadRow

LEMMA OtherWriteKeeps ==
    ASSUME HostInv, NEW k \in Rows, NEW listed \in BOOLEAN, NEW other \in BOOLEAN,
           OtherWrite(k, listed, other)
    PROVE  HostInv'
  <1>1. count \in Counts /\ count.writes \in Nat
    BY DEF HostInv, Types, Counts
  <1>2. count' \in Counts /\ count'.writes = count.writes + 1
    BY <1>1 DEF OtherWrite, Counted, Counts
  <1>3. PICK row : row = [v |-> count.writes + 1, listed |-> listed]
    OBVIOUS
  <1>4. row \in RowValues /\ row.v = count.writes + 1
    BY <1>1, <1>3 DEF RowValues
  <1>5. db' = [db EXCEPT ![k] = row]
    BY <1>3 DEF OtherWrite
  <1>6. db' \in [Rows -> RowValues] /\ \A r \in Rows : db'[r] = db[r] \/ db'[r] = row
    BY <1>4, <1>5 DEF HostInv, Types
  <1>7. \A r \in Rows : db'[r].v >= db[r].v /\ db'[r].v <= count'.writes
    <2> SUFFICES ASSUME NEW r \in Rows
                 PROVE  db'[r].v >= db[r].v /\ db'[r].v <= count'.writes
      OBVIOUS
    <2>1. db[r].v \in Nat /\ db[r].v <= count.writes
      BY DEF HostInv, Types, DbOK, RowValues
    <2> QED BY <1>1, <1>2, <1>4, <1>6, <2>1
  <1>8. PICK changes : changes = [rows |-> IF other THEN {} ELSE {k}, other |-> other]
    OBVIOUS
  <1>9. changes \in Changes
    BY <1>8 DEF Changes
  <1>10. host' = [host EXCEPT !.pc = "broadcast", !.captured = changes]
    BY <1>8 DEF OtherWrite
  <1>11. host' \in HostState /\ host'.pc # "reply"
    BY <1>9, <1>10 DEF HostInv, Types, HostState
  <1>12. requests' = requests /\ messages' = messages /\ linked' = linked /\ UNCHANGED window
    BY DEF OtherWrite, port
  <1> QED BY <1>2, <1>6, <1>7, <1>11, <1>12, HostKeeps DEF HostInv, Types

LEMMA WriteKeeps == ASSUME HostInv, Write PROVE HostInv'
  <1>1. count \in Counts /\ count.writes \in Nat /\ host \in HostState
    BY DEF HostInv, Types, Counts
  <1>2. count' \in Counts /\ count'.writes = count.writes + 1
    BY <1>1 DEF Write, Counts
  <1>3. /\ requests # <<>> /\ Request.kind = "write" /\ Request.keys \subseteq Rows
        /\ RequestFits(Request)
    BY RequestIs DEF Write, Serve, Legal
  <1>4. Request.id # pending["list"]
    BY <1>3 DEF RequestFits
  <1>5. CASE Answered(host, FALSE, <<>>) /\ db' = db
    <2>1. \A r \in Rows : db'[r].v >= db[r].v /\ db'[r].v <= count'.writes
      <3> SUFFICES ASSUME NEW r \in Rows
                   PROVE  db'[r].v >= db[r].v /\ db'[r].v <= count'.writes
        OBVIOUS
      <3>1. db[r].v \in Nat /\ db[r].v <= count.writes
        BY DEF HostInv, Types, DbOK, RowValues
      <3> QED BY <1>1, <1>2, <1>5, <3>1
    <2>2. db' \in [Rows -> RowValues]
      BY <1>5 DEF HostInv, Types
    <2> QED BY <1>1, <1>2, <1>3, <1>5, <2>1, <2>2, NothingIsSome, AnsweredKeeps
  <1>6. ASSUME NEW ok \in BOOLEAN,
               db' = [k \in Rows |->
                        IF k \in Request.keys THEN [db[k] EXCEPT !.v = count'.writes] ELSE db[k]],
               Answered([host EXCEPT !.captured = [rows |-> Request.keys, other |-> FALSE]],
                        ok, count'.writes)
        PROVE  HostInv'
    <2>1. PICK n : n = count'.writes
      OBVIOUS
    <2>2. n \in Nat /\ n = count.writes + 1
      BY <1>1, <1>2, <2>1
    <2>3. \A r \in Rows : db[r] \in RowValues /\ db[r].v <= count.writes
      BY DEF HostInv, Types, DbOK
    <2>4. \A r \in Rows : /\ db'[r] \in RowValues
                          /\ db'[r].v = IF r \in Request.keys THEN n ELSE db[r].v
      BY <1>6, <2>1, <2>2, <2>3 DEF RowValues
    <2>5. db' \in [Rows -> RowValues]
      BY <1>6, <2>4
    <2>6. \A r \in Rows : db'[r].v >= db[r].v /\ db'[r].v <= count'.writes
      <3> SUFFICES ASSUME NEW r \in Rows
                   PROVE  db'[r].v >= db[r].v /\ db'[r].v <= count'.writes
        OBVIOUS
      <3>1. db[r].v \in Nat
        BY <2>3 DEF RowValues
      <3> QED BY <1>1, <2>1, <2>2, <2>3, <2>4, <3>1
    <2>7. PICK changes : changes = [rows |-> Request.keys, other |-> FALSE]
      OBVIOUS
    <2>8. PICK h : h = [host EXCEPT !.captured = changes]
      OBVIOUS
    <2>9. h \in HostState
      BY <1>1, <1>3, <2>7, <2>8 DEF HostState, Changes
    <2>10. Answered(h, ok, n)
      BY <1>6, <2>1, <2>7, <2>8
    <2>11. Request.id = pending["edit"] => \A k \in edit.rows : db'[k].v >= n
      <3>1. Request.id = pending["edit"] => Request.keys = edit.rows
        BY <1>3 DEF RequestFits
      <3> QED BY <1>3, <2>2, <2>4, <3>1
    <2> QED BY <1>2, <1>3, <1>4, <2>2, <2>5, <2>6, <2>9, <2>10, <2>11, AnsweredKeeps
  <1> QED BY <1>5, <1>6 DEF Write

LEMMA ReplyKeeps == ASSUME HostInv, Reply PROVE HostInv'
  <1>1. PICK m : m = [kind |-> "reply", answer |-> host.answer]
    OBVIOUS
  <1>2. /\ host \in HostState /\ messages \in Seq(Message) /\ m \in Message
        /\ host.pc = "reply" /\ AnswerFits(m.answer) /\ messages' = Append(messages, m)
        /\ host' = [host EXCEPT !.pc = "broadcast"]
        /\ UNCHANGED <<db, linked, requests, window, count>>
    BY <1>1 DEF Reply, HostInv, Types, HostState, Message, CarriersOK, AnswerFits
  <1>3. host' \in HostState /\ host'.pc = "broadcast"
    BY <1>2 DEF HostState
  <1>4. messages' \in Seq(Message)
    BY <1>2, Appended
  <1>5. ASSUME NEW i \in 1 .. Len(messages')
        PROVE  \/ \E j \in 1 .. Len(messages) : messages'[i] = messages[j]
               \/ AnswerFits(messages'[i].answer)
    <2>1. messages'[i] = m \/ \E j \in 1 .. Len(messages) : messages'[i] = messages[j]
      BY <1>2, Appended
    <2>2. PICK x : x = messages'[i]
      OBVIOUS
    <2>3. x = m => AnswerFits(x.answer)
      BY <1>2
    <2> QED BY <2>1, <2>2, <2>3
  <1>6. count' \in Counts /\ linked' \in BOOLEAN /\ requests' \in Seq(Legal)
    BY <1>2 DEF HostInv, Types
  <1> QED BY <1>2, <1>3, <1>4, <1>5, <1>6, NothingWritten, HostKeeps

LEMMA BroadcastKeeps == ASSUME HostInv, Broadcast PROVE HostInv'
  <1>1. PICK m : m = [kind |-> "changes", changes |-> host.captured]
    OBVIOUS
  <1>2. /\ host \in HostState /\ messages \in Seq(Message) /\ m \in Message /\ m.kind = "changes"
        /\ messages' = messages \/ messages' = Append(messages, m)
        /\ host' = [host EXCEPT !.pc = "idle", !.captured = NoChanges, !.answer = NoAnswer]
        /\ UNCHANGED <<db, linked, requests, window, count>>
    BY <1>1 DEF Broadcast, Broadcasts, HostInv, Types, HostState, Message
  <1>3. host' \in HostState /\ host'.pc = "idle"
    BY <1>2, NothingIsSome DEF HostState, NoChanges, Changes, NoAnswer, Answer
  <1>4. messages' \in Seq(Message)
    BY <1>2, Appended
  <1>5. ASSUME NEW i \in 1 .. Len(messages')
        PROVE  \/ \E j \in 1 .. Len(messages) : messages'[i] = messages[j]
               \/ messages'[i].kind = "changes"
    BY <1>2, Appended
  <1>6. count' \in Counts /\ linked' \in BOOLEAN /\ requests' \in Seq(Legal)
    BY <1>2 DEF HostInv, Types
  <1> QED BY <1>2, <1>3, <1>4, <1>5, <1>6, NothingWritten, HostKeeps

LEMMA CrashKeeps ==
    ASSUME HostInv, Crash \/ Restart \/ OtherOpen PROVE HostInv'
  <1>1. host' \in HostState /\ host'.pc \in {"down", "idle"}
    <2>1. host \in HostState
      BY DEF HostInv, Types
    <2>2. CASE Crash
      <3>1. Host \in HostState
        BY NothingIsSome DEF Host, HostState, NoChanges, Changes, NoAnswer, Answer
      <3>2. PICK h : h = Host
        OBVIOUS
      <3>3. h \in HostState /\ host' = [h EXCEPT !.pc = "down", !.open = FALSE]
        BY <2>2, <3>1, <3>2 DEF Crash
      <3> QED BY <3>3 DEF HostState
    <2>3. CASE Restart
      BY <2>1, <2>3 DEF Restart, HostState
    <2>4. CASE OtherOpen
      BY <2>1, <2>4 DEF OtherOpen, HostState
    <2> QED BY <2>2, <2>3, <2>4
  <1>2. count' \in Counts /\ count'.writes = count.writes
    BY CountedIs DEF Crash, Restart, OtherOpen, HostInv, Types
  <1>3. /\ db' = db /\ messages' = messages /\ UNCHANGED window
        /\ requests' = <<>> \/ requests' = requests
        /\ linked' = FALSE \/ linked' = linked
    BY DEF Crash, Restart, OtherOpen, port
  <1>4. linked' \in BOOLEAN /\ messages' \in Seq(Message) /\ requests' \in Seq(Legal)
    <2>1. <<>> \in Seq(Legal)
      OBVIOUS
    <2> QED BY <1>3, <2>1 DEF HostInv, Types
  <1>5. \A i \in 1 .. Len(requests') : i \in 1 .. Len(requests) /\ requests'[i] = requests[i]
    <2>1. CASE requests' = <<>>
      <3>1. Len(requests') = 0
        BY <2>1
      <3> QED BY <3>1
    <2>2. CASE requests' = requests
      BY <2>2
    <2> QED BY <1>3, <2>1, <2>2
  <1> QED BY <1>1, <1>2, <1>3, <1>4, <1>5, NothingWritten, HostKeeps

-----------------------------------------------------------------------------
(* Ids and what is on its way under them: the window's steps *)

(* The call goes on as it was, has ended, or is under a fresh id. *)
GoesOn(call) ==
    \/ pending'[call] = pending[call] \/ pending'[call] = 0
    \/ pending'[call] \in Nat /\ pending'[call] >= nextId

(* The list's call goes on with the read it is, and so does the edit's. *)
ReadsOn ==
    pending'["list"] = pending["list"] /\ pending["list"] # 0 =>
        /\ list'.running = list.running
        /\ edit'.pc = "reading" =>
            edit.pc = "reading" /\ edit'.rows = edit.rows /\ edit'.v = edit.v

WritesOn ==
    pending'["edit"] = pending["edit"] /\ pending["edit"] # 0 => edit'.rows = edit.rows

LEMMA WindowKeeps ==
    ASSUME HostInv, db' = db, host' = host, count'.writes = count.writes,
           Types', IdsOK', WindowOK', nextId' >= nextId, \A c \in Calls : GoesOn(c),
           ReadsOn, WritesOn,
           \A i \in 1 .. Len(requests') :
                \/ \E j \in 1 .. Len(requests) : requests'[i] = requests[j]
                \/ RequestFits(requests[i])',
           \A i \in 1 .. Len(messages') : \E j \in 1 .. Len(messages) : messages'[i] = messages[j]
    PROVE  HostInv'
  <1>1. /\ nextId \in Nat /\ nextId' \in Nat /\ {"list", "edit", "open"} \subseteq Calls
        /\ pending \in [Calls -> Nat] /\ edit \in EditState
    BY DEF HostInv, Types, Calls
  <1>2. ASSUME NEW a, AnswerFits(a) PROVE AnswerFits(a)'
    <2>1. a.id \in 1 .. nextId' - 1 /\ a.id < nextId /\ a.id \in Nat /\ a.id # 0
      BY <1>1, <1>2 DEF AnswerFits
    <2>2. \A c \in {"list", "edit"} : a.id = pending'[c] => pending'[c] = pending[c]
      BY <1>1, <2>1 DEF GoesOn
    <2>3. ASSUME a.id = pending'["list"], a.ok
          PROVE  /\ a.data \in Some
                 /\ list'.running = "reload" => DOMAIN a.data = Rows
                 /\ edit'.pc = "reading" => \A k \in edit'.rows : a.data[k].v >= edit'.v
      BY <1>2, <2>1, <2>2, <2>3 DEF AnswerFits, ReadsOn
    <2>4. ASSUME a.id = pending'["edit"], a.ok
          PROVE  a.data \in Nat /\ \A k \in edit'.rows : db'[k].v >= a.data
      BY <1>2, <2>1, <2>2, <2>4 DEF AnswerFits, WritesOn
    <2> QED BY <2>1, <2>3, <2>4 DEF AnswerFits
  <1>3. ASSUME NEW q, RequestFits(q) PROVE RequestFits(q)'
    <2>1. q.id \in 1 .. nextId' - 1 /\ q.id < nextId /\ q.id \in Nat /\ q.id # 0
      BY <1>1, <1>3 DEF RequestFits
    <2>2. \A c \in {"list", "edit", "open"} : q.id = pending'[c] => pending'[c] = pending[c]
      BY <1>1, <2>1 DEF GoesOn
    <2> QED BY <1>3, <2>1, <2>2 DEF RequestFits, ReadsOn, WritesOn
  <1>4. \A i \in 1 .. Len(requests') : RequestFits(requests[i])'
    <2> SUFFICES ASSUME NEW i \in 1 .. Len(requests'),
                        NEW j \in 1 .. Len(requests), requests'[i] = requests[j]
                 PROVE  RequestFits(requests[i])'
      OBVIOUS
    <2>1. PICK q : q = requests'[i]
      OBVIOUS
    <2>2. RequestFits(q)
      BY <2>1 DEF HostInv, CarriersOK
    <2>3. RequestFits(q)'
      BY <1>3, <2>2
    <2> QED BY <2>1, <2>3, Zenon DEF RequestFits
  <1>5. host'.pc = "reply" => AnswerFits(host.answer)'
    <2>1. PICK a : a = host.answer
      OBVIOUS
    <2>2. host.pc = "reply" => AnswerFits(a)'
      BY <1>2, <2>1 DEF HostInv, CarriersOK
    <2> QED BY <2>1, <2>2, Zenon DEF AnswerFits
  <1>6. ASSUME NEW i \in 1 .. Len(messages'), messages'[i].kind = "reply"
        PROVE  AnswerFits(messages[i].answer)'
    <2>1. PICK a : a = messages'[i].answer
      OBVIOUS
    <2>2. AnswerFits(a)
      BY <1>6, <2>1 DEF HostInv, CarriersOK
    <2>3. AnswerFits(a)'
      BY <1>2, <2>2
    <2> QED BY <2>1, <2>3, Zenon DEF AnswerFits
  <1>7. DbOK'
    BY DEF HostInv, DbOK
  <1> QED BY <1>4, <1>5, <1>6, <1>7 DEF HostInv, CarriersOK

(* The list may have changed, but not what it reads. *)
LEMMA ListStepKeeps ==
    ASSUME HostInv, list' \in ListState, list'.running = list.running,
           UNCHANGED <<db, host, linked, requests, client, edit>>,
           count' \in Counts, count'.writes = count.writes, missed' \in BOOLEAN,
           messages' \in Seq(Message),
           \A i \in 1 .. Len(messages') : \E j \in 1 .. Len(messages) : messages'[i] = messages[j]
    PROVE  HostInv'
  <1>1. pending' = pending /\ nextId' = nextId
    BY DEF client
  <1>2. Types' /\ nextId' >= nextId
    BY <1>1 DEF HostInv, Types
  <1>3. IdsOK' /\ WindowOK'
    BY <1>1 DEF HostInv, IdsOK, WindowOK
  <1>4. (\A c \in Calls : GoesOn(c)) /\ ReadsOn /\ WritesOn
    BY <1>1 DEF GoesOn, ReadsOn, WritesOn
  <1> QED BY <1>2, <1>3, <1>4, WindowKeeps

LEMMA SendIs ==
    ASSUME HostInv, NEW call \in Calls, NEW request \in Legal, Send(call, request)
    PROVE  /\ requests' \in Seq(Legal)
           /\ pending' \in [Calls -> Nat] /\ pending'[call] = nextId /\ nextId' = nextId + 1
           /\ \A c \in Calls : c # call => pending'[c] = pending[c]
           /\ IdsOK' /\ nextId \in Nat /\ nextId > 0 /\ nextId' \in Nat
           /\ \A c \in Calls : GoesOn(c)
           /\ messages' = messages /\ linked' = linked
           /\ \A i \in 1 .. Len(requests') :
                \/ \E j \in 1 .. Len(requests) : requests'[i] = requests[j]
                \/ requests'[i] = [request EXCEPT !.id = nextId]
  <1>1. /\ requests \in Seq(Legal) /\ pending \in [Calls -> Nat] /\ nextId \in Nat
        /\ nextId > 0
    BY DEF HostInv, Types, IdsOK
  <1>2. PICK q : q = [request EXCEPT !.id = nextId]
    OBVIOUS
  <1>3. q \in Legal
    BY <1>1, <1>2 DEF Legal
  <1>4. /\ requests' = requests \/ requests' = Append(requests, q)
        /\ pending' = [pending EXCEPT ![call] = nextId] /\ nextId' = nextId + 1
        /\ messages' = messages /\ linked' = linked
    BY <1>2 DEF Send
  <1>5. requests' \in Seq(Legal)
    BY SMTT(30), <1>1, <1>3, <1>4, Appended
  <1>6. \A i \in 1 .. Len(requests') :
            (\E j \in 1 .. Len(requests) : requests'[i] = requests[j]) \/ requests'[i] = q
    BY <1>1, <1>3, <1>4, Appended
  <1>7. /\ pending' \in [Calls -> Nat] /\ pending'[call] = nextId
        /\ \A c \in Calls : c # call => pending'[c] = pending[c]
    BY <1>1, <1>4
  <1>8. \A c \in Calls : GoesOn(c)
    BY <1>1, <1>7 DEF GoesOn
  <1>9. IdsOK'
    BY <1>1, <1>4, <1>7 DEF HostInv, IdsOK
  <1> QED BY <1>1, <1>2, <1>4, <1>5, <1>6, <1>7, <1>8, <1>9

(* What the call that is sent waits for fits it. *)
LEMMA SentFits ==
    ASSUME HostInv, NEW call \in Calls, NEW request \in Legal, Send(call, request),
           call = "list" => request.kind = IF list'.running = "reload" THEN "load" ELSE "rows",
           call = "edit" => request.kind = "write" /\ request.keys = edit'.rows,
           call # "open"
    PROVE  \A i \in 1 .. Len(requests') :
                \/ \E j \in 1 .. Len(requests) : requests'[i] = requests[j]
                \/ RequestFits(requests[i])'
  <1>1. PICK q : q = [request EXCEPT !.id = nextId]
    OBVIOUS
  <1>2. /\ nextId \in Nat /\ nextId > 0 /\ nextId' = nextId + 1 /\ pending'[call] = nextId
        /\ \A c \in Calls : c # call => pending'[c] = pending[c] /\ pending[c] < nextId
    BY SendIs DEF HostInv, IdsOK
  <1>3. q.id = nextId /\ q.kind = request.kind /\ q.keys = request.keys
    BY <1>1 DEF Legal
  <1>4. \A c \in Calls : pending'[c] = q.id => c = call
    BY <1>2, <1>3 DEF HostInv, Types
  <1>5. RequestFits(q)'
    BY <1>2, <1>3, <1>4 DEF RequestFits, Calls
  <1> SUFFICES ASSUME NEW i \in 1 .. Len(requests'), requests'[i] = q
               PROVE  RequestFits(requests[i])'
    BY <1>1, SendIs
  <1> QED BY <1>5, Zenon DEF RequestFits

LEMMA StartReloadKeeps == ASSUME HostInv, StartReload PROVE HostInv'
  <1>1. PICK r : r = [id |-> 0, kind |-> "load", keys |-> {}]
    OBVIOUS
  <1>2. r \in Legal /\ r.kind = "load"
    BY <1>1 DEF Legal
  <1>3. /\ list \in ListState /\ edit \in EditState /\ list.running = "none"
        /\ pending["list"] = 0 /\ edit.pc # "reading"
    BY DEF StartReload, HostInv, Types, WindowOK
  <1>4. PICK line : line = Tail(list.line)
    OBVIOUS
  <1>5. line \in {<<>>, <<"reload">>}
    BY <1>3, <1>4, LongerLines DEF StartReload, ListState
  <1>6. list' = [list EXCEPT !.line = line, !.running = "reload", !.stale = FALSE]
    BY <1>4 DEF StartReload
  <1>7. list' \in ListState /\ list'.running = "reload"
    BY <1>3, <1>5, <1>6 DEF ListState
  <1>8. /\ Send("list", r) /\ db' = db /\ host' = host /\ count' = count /\ missed' = missed
        /\ edit' = [edit EXCEPT !.pc = IF @ = "refetching" THEN "reading" ELSE @]
        /\ "list" \in Calls /\ "edit" \in Calls
    BY <1>1 DEF StartReload, Calls
  <1>9. /\ edit' \in EditState /\ edit'.rows = edit.rows /\ edit'.v = edit.v
        /\ edit'.pc = IF edit.pc = "refetching" THEN "reading" ELSE edit.pc
    BY <1>3, <1>8 DEF EditState
  <1>10. /\ requests' \in Seq(Legal) /\ pending' \in [Calls -> Nat] /\ nextId' \in Nat
         /\ IdsOK' /\ messages' = messages /\ linked' = linked /\ nextId' >= nextId
         /\ \A c \in Calls : GoesOn(c)
         /\ pending'["list"] # 0 /\ pending'["edit"] = pending["edit"]
         /\ pending'["list"] = nextId
    <2>1. /\ requests' \in Seq(Legal) /\ pending' \in [Calls -> Nat] /\ IdsOK'
          /\ messages' = messages /\ linked' = linked
          /\ \A c \in Calls : GoesOn(c)
      BY <1>2, <1>8, SendIs, Zenon
    <2>2. /\ pending'["list"] = nextId /\ nextId' = nextId + 1 /\ nextId \in Nat /\ nextId > 0
          /\ \A c \in Calls : c # "list" => pending'[c] = pending[c]
      BY <1>2, <1>8, SendIs, Zenon
    <2> QED BY <1>8, <2>1, <2>2
  <1>11. Types'
    BY <1>7, <1>8, <1>9, <1>10 DEF HostInv, Types
  <1>12. WindowOK'
    BY <1>3, <1>7, <1>8, <1>9, <1>10 DEF HostInv, WindowOK
  <1>13. ReadsOn /\ WritesOn
    BY <1>3, <1>9, <1>10 DEF ReadsOn, WritesOn
  <1>14. \A i \in 1 .. Len(requests') :
                \/ \E j \in 1 .. Len(requests) : requests'[i] = requests[j]
                \/ RequestFits(requests[i])'
    BY <1>2, <1>7, <1>8, SentFits
  <1>15. \A i \in 1 .. Len(messages') :
            \E j \in 1 .. Len(messages) : messages'[i] = messages[j]
    BY <1>10
  <1> QED BY <1>8, <1>10, <1>11, <1>12, <1>13, <1>14, <1>15, WindowKeeps

LEMMA StartPatchKeeps == ASSUME HostInv, StartPatch PROVE HostInv'
  <1>1. PICK r : r = [id |-> 0, kind |-> "rows", keys |-> list.keys]
    OBVIOUS
  <1>2. r \in Legal /\ r.kind = "rows"
    BY <1>1 DEF Legal, HostInv, Types, ListState
  <1>3. /\ list \in ListState /\ list.running = "none"
        /\ pending["list"] = 0 /\ edit.pc # "reading"
    BY DEF StartPatch, HostInv, Types, WindowOK
  <1>4. PICK line : line = Tail(list.line)
    OBVIOUS
  <1>5. line \in {<<>>, <<"reload">>}
    BY <1>3, <1>4, LongerLines DEF StartPatch, ListState
  <1>6. list' = [list EXCEPT !.line = line, !.running = "patch", !.keys = {}]
    BY <1>4 DEF StartPatch
  <1>7. list' \in ListState /\ list'.running = "patch"
    BY <1>3, <1>5, <1>6 DEF ListState
  <1>8. /\ Send("list", r) /\ db' = db /\ host' = host /\ count' = count /\ missed' = missed
        /\ edit' = edit /\ "list" \in Calls /\ "edit" \in Calls
    BY <1>1 DEF StartPatch, Calls
  <1>9. /\ requests' \in Seq(Legal) /\ pending' \in [Calls -> Nat] /\ nextId' \in Nat
        /\ IdsOK' /\ messages' = messages /\ linked' = linked /\ nextId' >= nextId
        /\ \A c \in Calls : GoesOn(c)
        /\ pending'["list"] # 0 /\ pending'["edit"] = pending["edit"]
    <2>1. /\ requests' \in Seq(Legal) /\ pending' \in [Calls -> Nat] /\ IdsOK'
          /\ messages' = messages /\ linked' = linked
          /\ \A c \in Calls : GoesOn(c)
      BY <1>2, <1>8, SendIs, Zenon
    <2>2. /\ pending'["list"] = nextId /\ nextId' = nextId + 1 /\ nextId \in Nat /\ nextId > 0
          /\ \A c \in Calls : c # "list" => pending'[c] = pending[c]
      BY <1>2, <1>8, SendIs, Zenon
    <2> QED BY <1>8, <2>1, <2>2
  <1>10. Types'
    BY <1>7, <1>8, <1>9 DEF HostInv, Types
  <1>11. WindowOK'
    BY <1>3, <1>7, <1>8, <1>9 DEF HostInv, WindowOK
  <1>12. ReadsOn /\ WritesOn
    BY <1>3, <1>8, <1>9 DEF ReadsOn, WritesOn
  <1>13. \A i \in 1 .. Len(requests') :
                \/ \E j \in 1 .. Len(requests) : requests'[i] = requests[j]
                \/ RequestFits(requests[i])'
    BY <1>2, <1>7, <1>8, SentFits
  <1>14. \A i \in 1 .. Len(messages') :
            \E j \in 1 .. Len(messages) : messages'[i] = messages[j]
    BY <1>9
  <1> QED BY <1>8, <1>9, <1>10, <1>11, <1>12, <1>13, <1>14, WindowKeeps

LEMMA EditKeeps == ASSUME HostInv, NEW k \in Rows, Edit(k) PROVE HostInv'
  <1>1. PICK r : r = [id |-> 0, kind |-> "write", keys |-> {k}]
    OBVIOUS
  <1>2. r \in Legal /\ r.kind = "write" /\ r.keys = {k}
    BY <1>1 DEF Legal
  <1>3. pending["edit"] = 0 /\ edit.pc = "idle"
    BY DEF Edit, HostInv, WindowOK
  <1>4. /\ Send("edit", r) /\ db' = db /\ host' = host /\ list' = list /\ missed' = missed
        /\ edit' = [pc |-> "saving", rows |-> {k}, v |-> 0]
        /\ "list" \in Calls /\ "edit" \in Calls /\ count \in Counts
    BY <1>1 DEF Edit, Calls, HostInv, Types
  <1>5. count' \in Counts /\ count'.writes = count.writes
    BY <1>4, CountedIs DEF Edit
  <1>6. edit' \in EditState /\ edit'.pc = "saving" /\ edit'.rows = {k} /\ edit'.v = 0
    BY <1>4 DEF EditState
  <1>7. /\ requests' \in Seq(Legal) /\ pending' \in [Calls -> Nat] /\ nextId' \in Nat
        /\ IdsOK' /\ messages' = messages /\ linked' = linked /\ nextId' >= nextId
        /\ \A c \in Calls : GoesOn(c)
        /\ pending'["list"] = pending["list"] /\ pending'["edit"] # 0
    <2>1. /\ requests' \in Seq(Legal) /\ pending' \in [Calls -> Nat] /\ IdsOK'
          /\ messages' = messages /\ linked' = linked
          /\ \A c \in Calls : GoesOn(c)
      BY <1>2, <1>4, SendIs, Zenon
    <2>2. /\ pending'["edit"] = nextId /\ nextId' = nextId + 1 /\ nextId \in Nat /\ nextId > 0
          /\ \A c \in Calls : c # "edit" => pending'[c] = pending[c]
      BY <1>2, <1>4, SendIs, Zenon
    <2> QED BY <1>4, <2>1, <2>2
  <1>8. Types'
    BY <1>4, <1>5, <1>6, <1>7 DEF HostInv, Types
  <1>9. WindowOK'
    BY <1>4, <1>6, <1>7 DEF HostInv, WindowOK
  <1>10. ReadsOn /\ WritesOn
    BY <1>3, <1>4, <1>6, <1>7 DEF ReadsOn, WritesOn
  <1>11. \A i \in 1 .. Len(requests') :
                \/ \E j \in 1 .. Len(requests) : requests'[i] = requests[j]
                \/ RequestFits(requests[i])'
    BY <1>2, <1>4, <1>6, SentFits
  <1>12. \A i \in 1 .. Len(messages') :
            \E j \in 1 .. Len(messages) : messages'[i] = messages[j]
    BY <1>7
  <1> QED BY <1>4, <1>5, <1>7, <1>8, <1>9, <1>10, <1>11, <1>12, WindowKeeps

LEMMA GesturesKeep == ASSUME HostInv, TimerFires \/ Leave \/ Return PROVE HostInv'
  <1>1. /\ UNCHANGED <<db, host, linked, requests, messages, client, edit, missed>>
        /\ list \in ListState
    BY DEF TimerFires, Leave, Return, port, HostInv, Types
  <1>2. count' \in Counts /\ count'.writes = count.writes
    BY CountedIs DEF TimerFires, Leave, Return, HostInv, Types
  <1>3. list' \in ListState /\ list'.running = list.running
    <2>1. CASE TimerFires
      BY <1>1, <2>1, RefetchIs DEF TimerFires, Keeps
    <2>2. CASE Leave
      BY <1>1, <2>2 DEF Leave, ListState
    <2>3. CASE Return
      <3>1. PICK watched : watched = [list EXCEPT !.idle = FALSE]
        OBVIOUS
      <3>2. watched \in ListState /\ watched.running = list.running
        BY <1>1, <3>1 DEF ListState
      <3>3. list' = watched \/ list' = Reload(watched)
        BY <2>3, <3>1 DEF Return
      <3> QED BY <3>2, <3>3, ReloadIs DEF Keeps
    <2> QED BY <2>1, <2>2, <2>3
  <1>4. /\ missed' \in BOOLEAN /\ messages' \in Seq(Message)
        /\ \A i \in 1 .. Len(messages') :
                \E j \in 1 .. Len(messages) : messages'[i] = messages[j]
    BY <1>1 DEF HostInv, Types
  <1> QED BY <1>1, <1>2, <1>3, <1>4, ListStepKeeps

(* The message that is received, and those behind it. *)
LEMMA ReceivedIs ==
    ASSUME HostInv, NEW kind, Received(kind)
    PROVE  /\ Head(messages) \in Message /\ Head(messages).kind = kind
           /\ messages' \in Seq(Message)
           /\ \A i \in 1 .. Len(messages') :
                \E j \in 1 .. Len(messages) : messages'[i] = messages[j]
           /\ \E j \in 1 .. Len(messages) : Head(messages) = messages[j]
           /\ UNCHANGED <<db, host, linked, requests, nextId, count>>
           /\ count' \in Counts /\ count'.writes = count.writes
  <1>1. messages \in Seq(Message) /\ messages # <<>> /\ count \in Counts
    BY DEF Received, HostInv, Types
  <1> QED BY <1>1, HeadAndTail DEF Received

LEMMA ReceiveChangesKeeps == ASSUME HostInv, ReceiveChanges PROVE HostInv'
  <1>1. PICK m : m = Head(messages)
    OBVIOUS
  <1>2. m \in Message /\ m.kind = "changes"
    BY <1>1, ReceivedIs DEF ReceiveChanges
  <1>3. m.changes \in Changes
    BY <1>2 DEF Message
  <1>4. list' = OnChange(list, m.changes) /\ list \in ListState
    BY <1>1 DEF ReceiveChanges, HostInv, Types
  <1>5. list' \in ListState /\ list'.running = list.running
    BY <1>3, <1>4, OnChangeIs DEF Keeps
  <1>6. /\ UNCHANGED <<db, host, linked, requests, client, edit>> /\ missed' \in BOOLEAN
    BY ReceivedIs DEF ReceiveChanges, client, HostInv, Types
  <1> QED BY <1>5, <1>6, ReceivedIs, ListStepKeeps DEF ReceiveChanges

(* A result fits the call it is of. *)
ResultFits(call, ok, data) ==
    /\ call = "list" /\ ok =>
        /\ data \in Some
        /\ list.running = "reload" => DOMAIN data = Rows
        /\ edit.pc = "reading" => \A k \in edit.rows : data[k].v >= edit.v
    /\ call = "edit" /\ ok => data \in Nat /\ \A k \in edit.rows : db[k].v >= data

LEMMA EditAfterReadIs ==
    ASSUME Types, WindowOK
    PROVE  /\ EditAfterRead \in EditState /\ EditAfterRead.pc # "reading"
           /\ EditAfterRead = edit \/ EditAfterRead = NoEdit
           /\ NoEdit \in EditState /\ NoEdit.pc = "idle" /\ NoEdit.v = 0
  BY DEF EditAfterRead, NoEdit, EditState, Types, WindowOK

(* The call that has the result does not wait any more. *)
LEMMA ResultIs ==
    ASSUME HostInv, NEW call \in Calls, pending[call] # 0, NEW ok \in BOOLEAN, NEW data,
           ResultFits(call, ok, data), Result(call, ok, data)
    PROVE  /\ list' \in ListState /\ missed' \in BOOLEAN
           /\ list'.running = IF call = "list" THEN "none" ELSE list.running
           /\ \/ edit' = edit /\ (call = "list" => edit.pc # "reading")
                                /\ (call = "edit" => edit.pc # "saving")
              \/ edit' = NoEdit /\ call \in {"list", "edit"}
              \/ /\ call = "edit" /\ ok /\ edit' \in EditState
                 /\ edit'.pc = "refetching" /\ edit'.rows = edit.rows /\ edit'.v = data
  <1>1. /\ list \in ListState /\ edit \in EditState /\ missed \in BOOLEAN /\ Types /\ WindowOK
        /\ list.running = "patch" => edit.pc # "reading"
        /\ call = "list" => list.running \in {"reload", "patch"}
    BY DEF HostInv, Types, WindowOK, ListState
  <1>2. CASE call = "list" /\ ok
    <2>1. /\ list' = IF list.running = "reload" THEN Loaded(list, data) ELSE Patched(list, data)
          /\ edit' = EditAfterRead /\ missed' = (missed /\ list.running # "reload")
      BY <1>2 DEF Result
    <2>2. data \in Some /\ (list.running = "reload" => DOMAIN data = Rows)
      BY <1>2 DEF ResultFits
    <2>3. list.running = "reload" => data \in [Rows -> RowValues]
      BY <2>2, SomeRows
    <2>4. list' \in ListState /\ list'.running = "none"
      BY <1>1, <2>1, <2>2, <2>3, LoadedIs, PatchedIs
    <2>5. edit' = NoEdit \/ (edit' = edit /\ edit.pc # "reading")
      BY <1>1, <2>1, EditAfterReadIs DEF EditAfterRead
    <2> QED BY <1>1, <1>2, <2>1, <2>4, <2>5
  <1>3. CASE call = "list" /\ ~ok
    <2>1. list' = [list EXCEPT !.running = "none"] /\ edit' = EditAfterRead /\ missed' = TRUE
      BY <1>3 DEF Result, ReadFails
    <2>2. list' \in ListState /\ list'.running = "none"
      BY <1>1, <2>1 DEF ListState
    <2>3. edit' = NoEdit \/ (edit' = edit /\ edit.pc # "reading")
      BY <1>1, <2>1, EditAfterReadIs DEF EditAfterRead
    <2> QED BY <1>3, <2>1, <2>2, <2>3
  <1>4. CASE call = "edit" /\ ok
    <2>1. /\ edit' = [edit EXCEPT !.pc = "refetching", !.v = data] /\ list' = Refetch(list)
          /\ missed' = missed /\ data \in Nat
      BY <1>4 DEF Result, ResultFits
    <2>2. edit' \in EditState /\ edit'.pc = "refetching" /\ edit'.rows = edit.rows /\ edit'.v = data
      BY <1>1, <2>1 DEF EditState
    <2> QED BY <1>1, <1>4, <2>1, <2>2, RefetchIs DEF Keeps
  <1>5. CASE call = "edit" /\ ~ok
    BY <1>1, <1>5 DEF Result
  <1>6. CASE call = "open"
    <2>1. edit' = edit /\ (list' = list \/ list' = ScheduleReload(list)) /\ missed' \in BOOLEAN
      BY <1>1, <1>6 DEF Result
    <2> QED BY <1>1, <1>6, <2>1, ScheduleReloadIs DEF Keeps
  <1> QED BY <1>2, <1>3, <1>4, <1>5, <1>6 DEF Calls

LEMMA ResultKeeps ==
    ASSUME HostInv, NEW call \in Calls, pending[call] # 0, NEW ok \in BOOLEAN, NEW data,
           ResultFits(call, ok, data), Result(call, ok, data),
           pending' = [pending EXCEPT ![call] = 0],
           UNCHANGED <<db, host, linked, requests, nextId>>,
           count' \in Counts, count'.writes = count.writes, messages' \in Seq(Message),
           \A i \in 1 .. Len(messages') : \E j \in 1 .. Len(messages) : messages'[i] = messages[j]
    PROVE  HostInv'
  <1>1. /\ list' \in ListState /\ missed' \in BOOLEAN
        /\ list'.running = IF call = "list" THEN "none" ELSE list.running
        /\ \/ edit' = edit /\ (call = "list" => edit.pc # "reading")
                             /\ (call = "edit" => edit.pc # "saving")
           \/ edit' = NoEdit /\ call \in {"list", "edit"}
           \/ /\ call = "edit" /\ ok /\ edit' \in EditState
              /\ edit'.pc = "refetching" /\ edit'.rows = edit.rows /\ edit'.v = data
    BY ResultIs
  <1>2. /\ pending \in [Calls -> Nat] /\ nextId \in Nat /\ {"list", "edit", "open"} \subseteq Calls
        /\ edit \in EditState
    BY DEF HostInv, Types, Calls
  <1>3. /\ pending' \in [Calls -> Nat] /\ pending'[call] = 0
        /\ \A c \in Calls : c # call => pending'[c] = pending[c]
    BY <1>2
  <1>4. NoEdit \in EditState /\ NoEdit.pc = "idle" /\ NoEdit.v = 0
    BY EditAfterReadIs DEF HostInv
  <1>5. Types'
    BY <1>1, <1>2, <1>3, <1>4 DEF HostInv, Types
  <1>6. IdsOK'
    BY <1>2, <1>3 DEF HostInv, IdsOK
  <1>7. WindowOK'
    <2>1. pending'["list"] # 0 <=> list'.running # "none"
      BY <1>1, <1>2, <1>3 DEF HostInv, WindowOK
    <2>2. CASE call = "edit" /\ ok /\ edit'.pc = "refetching" /\ edit'.rows = edit.rows
               /\ edit'.v = data
      <3>1. \A k \in edit'.rows : db'[k].v >= edit'.v
        BY <2>2 DEF ResultFits
      <3> QED BY <1>3, <2>1, <2>2, <3>1 DEF WindowOK
    <2>3. CASE edit' = NoEdit /\ call \in {"list", "edit"}
      <3>1. pending["edit"] # 0 => edit.pc = "saving"
        BY DEF HostInv, WindowOK
      <3>2. pending'["edit"] # 0 => edit'.pc = "saving"
        <4>1. CASE call = "edit"
          BY <1>3, <4>1
        <4>2. CASE call = "list" /\ pending["edit"] = 0
          BY <1>2, <1>3, <4>2
        <4>3. CASE call = "list" /\ pending["edit"] # 0
          <5>1. edit' = EditAfterRead
            BY <4>3 DEF Result, ReadFails
          <5>2. EditAfterRead = edit /\ edit.pc = "saving"
            BY <3>1, <4>3 DEF EditAfterRead
          <5> QED BY <5>1, <5>2
        <4> QED BY <2>3, <4>1, <4>2, <4>3
      <3> QED BY <1>4, <2>1, <2>3, <3>2 DEF WindowOK
    <2>4. CASE edit' = edit /\ (call = "list" => edit.pc # "reading")
      BY <1>1, <1>2, <1>3, <2>1, <2>4 DEF HostInv, WindowOK
    <2> QED BY <1>1, <2>2, <2>3, <2>4
  <1>8. \A c \in Calls : GoesOn(c)
    BY <1>3 DEF GoesOn
  <1>9. ReadsOn
    <2> SUFFICES ASSUME pending'["list"] = pending["list"], pending["list"] # 0
                 PROVE  /\ list'.running = list.running
                        /\ edit'.pc = "reading" =>
                             edit.pc = "reading" /\ edit'.rows = edit.rows /\ edit'.v = edit.v
      BY DEF ReadsOn
    <2>1. call # "list"
      BY <1>3
    <2> QED BY <1>1, <1>4, <2>1
  <1>10. WritesOn
    <2> SUFFICES ASSUME pending'["edit"] = pending["edit"], pending["edit"] # 0
                 PROVE  edit'.rows = edit.rows
      BY DEF WritesOn
    <2>1. call # "edit" /\ edit.pc = "saving"
      BY <1>3 DEF HostInv, WindowOK
    <2>2. call = "list" => edit' = edit
      BY <2>1 DEF Result, ReadFails, EditAfterRead
    <2> QED BY <1>1, <2>1, <2>2
  <1>11. nextId' >= nextId
    BY <1>2
  <1>12. \A i \in 1 .. Len(requests') :
            \E j \in 1 .. Len(requests) : requests'[i] = requests[j]
    OBVIOUS
  <1> QED BY <1>5, <1>6, <1>7, <1>8, <1>9, <1>10, <1>11, <1>12, WindowKeeps

(* The reply is that of a call that waits, or of none. *)
LEMMA ReplyIs ==
    ASSUME HostInv, ReceiveReply
    PROVE  \/ /\ pending' = pending /\ UNCHANGED <<list, edit, missed>>
              /\ Head(messages).answer.id # pending["list"]
           \/ \E c \in Calls, a \in Answer :
                /\ a = Head(messages).answer /\ pending[c] = a.id
                /\ pending[c] # 0 /\ pending' = [pending EXCEPT ![c] = 0]
                /\ ResultFits(c, a.ok, a.data) /\ Result(c, a.ok, a.data)
  <1>1. PICK m : m = Head(messages)
    OBVIOUS
  <1>2. m \in Message /\ m.kind = "reply" /\ \E j \in 1 .. Len(messages) : m = messages[j]
    BY <1>1, ReceivedIs DEF ReceiveReply
  <1>3. PICK a : a = m.answer
    OBVIOUS
  <1>4. a \in Answer /\ AnswerFits(a)
    BY <1>2, <1>3 DEF Message, HostInv, CarriersOK
  <1>5. PICK for : for = {c \in Calls : pending[c] = a.id}
    OBVIOUS
  <1>6. /\ pending' = [c \in Calls |-> IF c \in for THEN 0 ELSE pending[c]]
        /\ \/ for = {} /\ UNCHANGED <<list, edit, missed>>
           \/ \E c \in for : Result(c, a.ok, a.data)
    BY <1>1, <1>3, <1>5 DEF ReceiveReply
  <1>7. a.ok \in BOOLEAN /\ a.data \in Some \cup Nat /\ a.id # 0
    BY <1>4 DEF Answer, AnswerFits, HostInv, Types
  <1>8. pending \in [Calls -> Nat]
    BY DEF HostInv, Types
  <1>9. CASE for = {} /\ UNCHANGED <<list, edit, missed>>
    <2>1. "list" \notin for /\ "list" \in Calls
      BY <1>9 DEF Calls
    <2> QED BY <1>1, <1>3, <1>5, <1>6, <1>8, <1>9, <2>1
  <1>10. CASE \E c \in for : Result(c, a.ok, a.data)
    <2>1. PICK c \in for : Result(c, a.ok, a.data)
      BY <1>10
    <2>2. c \in Calls /\ pending[c] = a.id /\ pending[c] # 0
      BY <1>5, <1>7
    <2>3. \A d \in for : d = c
      BY <1>5, <2>2 DEF HostInv, IdsOK
    <2>4. pending' = [pending EXCEPT ![c] = 0]
      BY <1>6, <1>8, <2>2, <2>3
    <2>5. ResultFits(c, a.ok, a.data)
      BY <1>4, <2>2 DEF AnswerFits, ResultFits
    <2> QED BY <1>1, <1>3, <1>4, <2>1, <2>2, <2>4, <2>5
  <1> QED BY <1>6, <1>9, <1>10

LEMMA ReceiveReplyKeeps == ASSUME HostInv, ReceiveReply PROVE HostInv'
  <1>1. /\ messages' \in Seq(Message)
        /\ \A i \in 1 .. Len(messages') :
                \E j \in 1 .. Len(messages) : messages'[i] = messages[j]
        /\ UNCHANGED <<db, host, linked, requests, nextId, count>>
        /\ count' \in Counts /\ count'.writes = count.writes
    BY ReceivedIs DEF ReceiveReply
  <1>2. CASE pending' = pending /\ UNCHANGED <<list, edit, missed>>
    <2>1. list' \in ListState /\ list'.running = list.running /\ missed' \in BOOLEAN
      BY <1>2 DEF HostInv, Types
    <2>2. UNCHANGED <<db, host, linked, requests, client, edit>>
      BY <1>1, <1>2 DEF client
    <2> QED BY <1>1, <2>1, <2>2, ListStepKeeps
  <1>3. ASSUME NEW c \in Calls, NEW a \in Answer,
               pending[c] # 0, pending' = [pending EXCEPT ![c] = 0],
               ResultFits(c, a.ok, a.data), Result(c, a.ok, a.data)
        PROVE  HostInv'
    <2>1. a.ok \in BOOLEAN
      BY DEF Answer
    <2> QED BY <1>1, <1>3, <2>1, ResultKeeps
  <1> QED BY <1>2, <1>3, ReplyIs

LEMMA TimeOutKeeps == ASSUME HostInv, NEW c \in Calls, TimeOut(c) PROVE HostInv'
  <1>1. /\ pending[c] # 0 /\ pending' = [pending EXCEPT ![c] = 0] /\ Result(c, FALSE, <<>>)
        /\ UNCHANGED <<db, host, linked, requests, messages, nextId>>
    BY DEF TimeOut, port
  <1>2. count' \in Counts /\ count'.writes = count.writes
    BY CountedIs DEF TimeOut, HostInv, Types
  <1>3. ResultFits(c, FALSE, <<>>)
    BY DEF ResultFits
  <1>4. messages' \in Seq(Message)
    BY <1>1 DEF HostInv, Types
  <1> QED BY <1>1, <1>2, <1>3, <1>4, ResultKeeps

LEMMA ReconnectKeepsIds == ASSUME HostInv, Reconnect PROVE HostInv'
  <1>1. PICK q : q = [id |-> nextId, kind |-> "open", keys |-> {}]
    OBVIOUS
  <1>2. /\ linked' = TRUE /\ messages' = <<>> /\ requests' = <<q>> /\ nextId' = nextId + 1
        /\ db' = db /\ host' = host /\ count' = count /\ missed' = missed
        /\ pending' = [c \in Calls |-> IF c = "open" THEN nextId ELSE 0]
    BY <1>1 DEF Reconnect, NewPort
  <1>3. /\ nextId \in Nat /\ nextId > 0 /\ pending \in [Calls -> Nat] /\ list \in ListState
        /\ edit \in EditState
    BY DEF HostInv, Types, IdsOK
  <1>4. /\ pending' \in [Calls -> Nat] /\ pending'["open"] = nextId /\ pending'["list"] = 0
        /\ pending'["edit"] = 0 /\ \A c \in Calls : pending'[c] \in {0, nextId}
        /\ \A c, d \in Calls : pending'[c] = pending'[d] => c = d \/ pending'[c] = 0
    BY <1>2, <1>3 DEF Calls
  <1>5. list' \in ListState /\ list'.running = "none"
    <2>1. CASE pending["list"] # 0
      BY <1>3, <2>1 DEF Reconnect, ListState
    <2>2. CASE pending["list"] = 0
      BY <1>3, <2>2 DEF Reconnect, HostInv, WindowOK
    <2> QED BY <2>1, <2>2
  <1>6. edit' \in EditState /\ edit'.pc # "reading" /\ (edit' = edit \/ edit' = NoEdit)
    <2>1. edit' \in {NoEdit, EditAfterRead, edit} /\ (edit' = edit => edit' = NoEdit \/ edit' = EditAfterRead \/ list.running = "none")
      BY DEF Reconnect, HostInv, WindowOK
    <2>2. list.running = "none" => edit.pc # "reading"
      BY DEF HostInv, WindowOK
    <2> QED BY <1>3, <2>1, <2>2, EditAfterReadIs DEF HostInv
  <1>7. q \in Legal /\ q.id = nextId /\ q.kind = "open"
    BY <1>1, <1>3 DEF Legal
  <1>8. requests' \in Seq(Legal) /\ \A i \in 1 .. Len(requests') : requests'[i] = q
    BY <1>2, <1>7
  <1>9. messages' \in Seq(Message) /\ Len(messages') = 0
    BY <1>2
  <1>10. Types'
    BY <1>2, <1>3, <1>4, <1>5, <1>6, <1>8, <1>9 DEF HostInv, Types
  <1>11. IdsOK'
    BY <1>2, <1>3, <1>4 DEF IdsOK
  <1>12. WindowOK'
    <2>1. NoEdit.pc = "idle" /\ NoEdit.v = 0
      BY DEF NoEdit
    <2> QED BY <1>2, <1>4, <1>5, <1>6, <2>1 DEF HostInv, WindowOK
  <1>13. \A c \in Calls : GoesOn(c)
    BY <1>3, <1>4 DEF GoesOn
  <1>14. ReadsOn /\ WritesOn
    BY <1>4 DEF ReadsOn, WritesOn
  <1>15. RequestFits(q)'
    BY <1>2, <1>3, <1>4, <1>7 DEF RequestFits
  <1>16. \A i \in 1 .. Len(requests') : RequestFits(requests[i])'
    <2> SUFFICES ASSUME NEW i \in 1 .. Len(requests') PROVE RequestFits(requests[i])'
      OBVIOUS
    <2>1. requests'[i] = q
      BY <1>8
    <2> QED BY <1>15, <2>1, Zenon DEF RequestFits
  <1>17. nextId' >= nextId
    BY <1>2, <1>3
  <1> QED BY <1>2, <1>9, <1>10, <1>11, <1>12, <1>13, <1>14, <1>16, <1>17, WindowKeeps

-----------------------------------------------------------------------------
(* The invariant, and what follows from it *)

LEMMA HostNext == HostInv /\ [Next]_vars => HostInv'
  <1> SUFFICES ASSUME HostInv, [Next]_vars PROVE HostInv'
    OBVIOUS
  <1>1. CASE UNCHANGED vars
    <2>1. /\ UNCHANGED <<db, host, linked, requests, client, edit>> /\ messages' = messages
          /\ list' = list /\ count' = count /\ missed' = missed
      BY <1>1 DEF vars, port, window
    <2>2. /\ list' \in ListState /\ count' \in Counts /\ missed' \in BOOLEAN
          /\ messages' \in Seq(Message)
      BY <2>1 DEF HostInv, Types
    <2> QED BY <2>1, <2>2, ListStepKeeps
  <1>2. CASE HostStep
    BY <1>2, RefuseKeeps, OpenKeeps, LoadKeeps, ReadRowKeeps, WriteKeeps, ReplyKeeps,
       BroadcastKeeps DEF HostStep
  <1>3. CASE WindowStep
    BY <1>3, StartReloadKeeps, StartPatchKeeps, GesturesKeep, ReceiveReplyKeeps,
       ReceiveChangesKeeps, ReconnectKeepsIds DEF WindowStep
  <1>4. CASE Restart
    BY <1>4, CrashKeeps
  <1>5. CASE Others
    BY <1>5, OtherWriteKeeps, CrashKeeps, GesturesKeep, EditKeeps, TimeOutKeeps DEF Others
  <1> QED BY <1>1, <1>2, <1>3, <1>4, <1>5 DEF Next

LEMMA HostInvariant == Spec => []HostInv
  <1> QED BY HostInit, HostNext, PTL DEF Spec

(***************************************************************************)
(* Every variable of the host, the port and the window has its type; a     *)
(* call waits under an id that was given out.                              *)
(***************************************************************************)
THEOREM DataHostTypeSafe == Spec => []TypeOK
  <1>1. HostInv => TypeOK
    <2> SUFFICES ASSUME HostInv PROVE TypeOK
      OBVIOUS
    <2>1. /\ db \in [Rows -> RowValues] /\ list \in ListState
          /\ host.pc \in {"idle", "reply", "broadcast", "down"} /\ host.captured \in Changes
          /\ host.open \in BOOLEAN /\ linked \in BOOLEAN /\ missed \in BOOLEAN
          /\ edit.pc \in {"idle", "saving", "refetching", "reading"}
      BY DEF HostInv, Types, HostState, EditState
    <2>2. {host.open, linked, missed} \subseteq BOOLEAN
      BY <2>1
    <2>3. \A i \in DOMAIN requests : requests[i].keys \subseteq Rows
      <3>1. requests \in Seq(Legal)
        BY DEF HostInv, Types
      <3>2. \A i \in DOMAIN requests : requests[i] \in Legal
        BY <3>1
      <3> QED BY <3>2 DEF Legal
    <2>4. \A i \in DOMAIN messages :
            messages[i].kind = "changes" => messages[i].changes \in Changes
      <3>1. messages \in Seq(Message)
        BY DEF HostInv, Types
      <3>2. \A i \in DOMAIN messages : messages[i] \in Message
        BY <3>1
      <3> QED BY <3>2 DEF Message
    <2>5. pending \in [Calls -> 0 .. nextId - 1]
      <3>1. /\ pending \in [Calls -> Nat] /\ nextId \in Nat
            /\ \A c \in Calls : pending[c] < nextId
        BY DEF HostInv, Types, IdsOK
      <3>2. \A c \in Calls : pending[c] \in 0 .. nextId - 1
        BY <3>1
      <3> QED BY <3>1, <3>2
    <2> QED BY <2>1, <2>2, <2>3, <2>4, <2>5 DEF TypeOK, ListState
  <1> QED BY <1>1, HostInvariant, PTL

(* The result that ends a saved edit has what the edit wrote. *)
LEMMA ResultShows ==
    ASSUME HostInv, NEW call \in Calls, pending[call] # 0, NEW ok \in BOOLEAN, NEW data,
           ResultFits(call, ok, data), Result(call, ok, data),
           edit.v # 0, edit'.pc = "idle", ~missed'
    PROVE  \A k \in edit.rows : list'.rows[k].v >= edit.v
  <1>1. edit.pc \in {"refetching", "reading"} /\ list \in ListState /\ call # "edit"
    BY DEF HostInv, Types, EditState, WindowOK
  <1>2. edit' # edit
    BY <1>1
  <1>3. call = "list" /\ ok /\ edit' = EditAfterRead
        /\ list' = IF list.running = "reload" THEN Loaded(list, data) ELSE Patched(list, data)
    BY <1>1, <1>2 DEF Result, ReadFails
  <1>4. edit.pc = "reading" /\ list.running = "reload"
    BY <1>2, <1>3 DEF EditAfterRead
  <1>5. data \in [Rows -> RowValues] /\ \A k \in edit.rows : data[k].v >= edit.v
    BY <1>3, <1>4, SomeRows DEF ResultFits
  <1> QED BY <1>1, <1>3, <1>4, <1>5, LoadedIs

(***************************************************************************)
(* For any rows, writes, edits, crashes and faults: an edit that was saved *)
(* ends with its rows on screen, or its read has failed.                   *)
(***************************************************************************)
THEOREM SavedEditTheorem == Spec => SavedEditIsShown
  <1>1. HostInv /\ [Next]_vars =>
            (edit.v # 0 /\ edit'.pc = "idle" /\ linked' = linked /\ ~missed' =>
                \A k \in edit.rows : list'.rows[k].v >= edit.v)
    <2> SUFFICES ASSUME HostInv, [Next]_vars, edit.v # 0, edit'.pc = "idle", linked' = linked,
                        ~missed'
                 PROVE  \A k \in edit.rows : list'.rows[k].v >= edit.v
      OBVIOUS
    <2>1. edit.pc \in {"refetching", "reading"} /\ edit' # edit
      BY DEF HostInv, Types, EditState, WindowOK
    <2>2. ~UNCHANGED vars
      BY <2>1 DEF vars, window
    <2>3. ~(HostStep \/ Restart)
      BY <2>1 DEF HostStep, Refuse, Open, Load, ReadRow, Write, Reply, Broadcast, Broadcasts,
                  Answered, Restart, window
    <2>4. ~(StartPatch \/ TimerFires \/ ReceiveChanges \/ Reconnect \/ Leave \/ Return \/ Crash
            \/ OtherOpen)
      BY <2>1 DEF StartPatch, TimerFires, ReceiveChanges, Reconnect, NewPort, Leave, Return, Crash,
                  OtherOpen, window
    <2>5. ~StartReload
      <3>1. edit \in EditState
        BY DEF HostInv, Types
      <3> QED BY <2>1, <3>1 DEF StartReload, EditState
    <2>6. /\ \A k \in Rows : ~Edit(k)
          /\ \A k \in Rows, listed, other \in BOOLEAN : ~OtherWrite(k, listed, other)
      BY <2>1 DEF Edit, OtherWrite, window
    <2>7. CASE ReceiveReply
      <3>1. PICK c \in Calls, a \in Answer :
                pending[c] # 0 /\ ResultFits(c, a.ok, a.data) /\ Result(c, a.ok, a.data)
        BY <2>1, <2>7, ReplyIs
      <3>2. a.ok \in BOOLEAN
        BY DEF Answer
      <3> QED BY <3>1, <3>2, ResultShows
    <2>8. ASSUME NEW c \in Calls, TimeOut(c) PROVE \A k \in edit.rows : list'.rows[k].v >= edit.v
      <3>1. pending[c] # 0 /\ Result(c, FALSE, <<>>) /\ ResultFits(c, FALSE, <<>>)
        BY <2>8 DEF TimeOut, ResultFits
      <3> QED BY <3>1, ResultShows
    <2> QED BY <2>2, <2>3, <2>4, <2>5, <2>6, <2>7, <2>8 DEF Next, WindowStep, Others
  <1> QED BY <1>1, HostInvariant, PTL DEF Spec, SavedEditIsShown

-----------------------------------------------------------------------------
(* The rows the list does not show as they are: the host's steps *)

LEMMA CarrierIds ==
    ASSUME HostInv
    PROVE  /\ nextId \in Nat /\ pending \in [Calls -> Nat] /\ {"list", "edit", "open"} = Calls
           /\ pending["list"] < nextId /\ requests \in Seq(Legal) /\ messages \in Seq(Message)
           /\ \A i \in 1 .. Len(requests) : requests[i].id \in 1 .. nextId - 1
           /\ requests # <<>> => Head(requests).id \in 1 .. nextId - 1
           /\ host.pc = "reply" => host.answer.id \in 1 .. nextId - 1
           /\ \A i \in 1 .. Len(messages) :
                messages[i].kind = "reply" => messages[i].answer.id \in 1 .. nextId - 1
  <1>1. /\ nextId \in Nat /\ pending \in [Calls -> Nat] /\ {"list", "edit", "open"} = Calls
        /\ pending["list"] < nextId /\ requests \in Seq(Legal) /\ messages \in Seq(Message)
    BY DEF HostInv, Types, IdsOK, Calls
  <1>2. \A i \in 1 .. Len(requests) : requests[i].id \in 1 .. nextId - 1
    BY DEF HostInv, CarriersOK, RequestFits
  <1>3. requests # <<>> => Head(requests).id \in 1 .. nextId - 1
    BY <1>1, <1>2, HeadAndTail
  <1>4. /\ host.pc = "reply" => host.answer.id \in 1 .. nextId - 1
        /\ \A i \in 1 .. Len(messages) :
                messages[i].kind = "reply" => messages[i].answer.id \in 1 .. nextId - 1
    BY DEF HostInv, CarriersOK, AnswerFits
  <1> QED BY <1>1, <1>2, <1>3, <1>4

LEMMA AnswerStays ==
    ASSUME NEW a, AnswerFits(a), AnswerGood(a), pending'["list"] = pending["list"],
           \A k : Due(k) => Due(k)', \A k \in Rows : db'[k] = db[k] \/ Due(k)'
    PROVE  AnswerGood(a)'
  <1> SUFFICES ASSUME a.id = pending'["list"], a.ok, NEW k \in DOMAIN a.data
               PROVE  Good(a.data, k)'
    BY DEF AnswerGood
  <1>1. k \in Rows
    BY SomeRows DEF AnswerFits
  <1>2. Good(a.data, k)
    BY DEF AnswerGood
  <1> QED BY <1>1, <1>2 DEF Good

(* A step of the host loses no change and answers with what is there. *)
LEMMA HostListKeeps ==
    ASSUME HostInv, ListOK, UNCHANGED window,
           \A k : Told(k) => Told(k)', \A k \in Rows : db'[k] = db[k] \/ Told(k)',
           requests' # <<>> /\ Head(requests').id = pending["list"] =>
                \A k \in DOMAIN host'.got : host'.got[k] = db'[k] \/ Due(k)',
           \A i \in 1 .. Len(requests') : \E j \in 1 .. Len(requests) : requests'[i] = requests[j],
           host'.pc = "reply" =>
                /\ AnswerGood(host.answer)'
                /\ \A k \in Rows : UnderWay(k) => Brings(host'.answer, k),
           \A i \in 1 .. Len(messages') :
                \/ \E j \in 1 .. Len(messages) : messages'[i] = messages[j]
                \/ messages'[i].kind = "changes"
                \/ host.pc = "reply" /\ messages'[i].answer = host.answer
    PROVE  ListOK'
  <1>1. list' = list /\ pending' = pending /\ missed' = missed
    BY DEF window, client
  <1>2. \A k : Due(k) => Due(k)'
    BY <1>1 DEF Due, WillReload, WillPatch, Queued
  <1>3. \A k \in Rows : db'[k] = db[k] \/ Due(k)'
    BY DEF Due
  <1>4. FreshOK'
    <2>1. requests' # <<>> /\ Request'.id = pending'["list"] =>
                \A k \in DOMAIN host'.got : Good(host.got, k)'
      BY <1>1 DEF Request, Good
    <2>2. ASSUME NEW i \in 1 .. Len(messages'), messages'[i].kind = "reply"
          PROVE  AnswerGood(messages[i].answer)'
      <3>1. PICK a : a = messages'[i].answer
        OBVIOUS
      <3>2. AnswerFits(a) /\ AnswerGood(a)
        BY <2>2, <3>1 DEF HostInv, CarriersOK, ListOK, FreshOK
      <3>3. AnswerGood(a)'
        BY <1>1, <1>2, <1>3, <3>2, AnswerStays
      <3> QED BY <3>1, <3>3, Zenon DEF AnswerGood, Good
    <2> QED BY <2>1, <2>2 DEF FreshOK
  <1>5. ASSUME NEW k \in Rows, UnderWay(k) PROVE UnderWay(k)'
    <2>1. \A i \in 1 .. Len(requests') : Asks(requests[i], k)'
      BY <1>1, <1>5 DEF UnderWay, Asks
    <2>2. host'.pc = "reply" => Brings(host.answer, k)'
      BY <1>1, <1>5 DEF Brings
    <2>3. \A i \in 1 .. Len(messages') :
            messages'[i].kind = "reply" => Brings(messages[i].answer, k)'
      BY <1>1, <1>5 DEF UnderWay, Brings
    <2> QED BY <1>1, <1>5, <2>1, <2>2, <2>3 DEF UnderWay
  <1>6. ASSUME NEW k \in Rows, Covered(k) PROVE Covered(k)'
    BY <1>1, <1>2, <1>3, <1>5, <1>6 DEF Covered, Same
  <1>7. CoveredOK'
    BY <1>1, <1>6 DEF ListOK, CoveredOK
  <1> QED BY <1>4, <1>7 DEF ListOK

LEMMA AnsweredListKeeps ==
    ASSUME HostInv, ListInv, requests # <<>>, host.pc = "idle",
           NEW state \in HostState, NEW ok \in BOOLEAN, NEW data \in Some \cup Nat,
           Answered(state, ok, data),
           \A k \in Rows : db'[k] = db[k] \/ k \in state.captured.rows,
           ok /\ Request.id = pending["list"] =>
                /\ \A k \in DOMAIN data : data[k] = db'[k] \/ Due(k)
                /\ \A k \in Rows : list.running = "reload" \/ k \in Request.keys => k \in DOMAIN data
    PROVE  ListInv'
  <1>1. linked /\ host.captured = NoChanges /\ ListOK
    BY DEF ListInv, DutyOK
  <1>2. PICK q : q = Request
    OBVIOUS
  <1>3. /\ requests \in Seq(Legal) /\ q \in Legal /\ q = requests[1] /\ 1 \in 1 .. Len(requests)
        /\ \A i \in 1 .. Len(Tail(requests)) :
              i + 1 \in 1 .. Len(requests) /\ Tail(requests)[i] = requests[i + 1]
    BY <1>2, HeadAndTail DEF Request, HostInv, Types
  <1>4. PICK a : a = [id |-> q.id, ok |-> ok, data |-> data]
    OBVIOUS
  <1>5. a \in Answer /\ a.id = q.id /\ a.ok = ok /\ a.data = data
    BY <1>3, <1>4 DEF Answer, Legal
  <1>6. PICK h : h = [state EXCEPT !.pc = "reply", !.got = <<>>, !.answer = a]
    OBVIOUS
  <1>7. h.pc = "reply" /\ h.answer = a /\ h.captured = state.captured /\ DOMAIN h.got = {}
    BY <1>5, <1>6, NothingIsSome DEF HostState
  <1>8. /\ host' = h /\ requests' = Tail(requests) /\ messages' = messages /\ linked' = linked
        /\ UNCHANGED window
    BY <1>2, <1>4, <1>6 DEF Answered
  <1>9. list' = list /\ pending' = pending
    BY <1>8 DEF window, client
  <1>10. \A k : Told(k) => Told(k)'
    BY <1>1, <1>8 DEF Told, Names, NoChanges
  <1>11. \A k \in Rows : db'[k] = db[k] \/ Told(k)'
    BY <1>7, <1>8 DEF Told, Names
  <1>12. \A k : Due(k) => Due(k)'
    BY <1>9, <1>10 DEF Due, WillReload, WillPatch, Queued
  <1>13. AnswerGood(a)'
    BY <1>2, <1>5, <1>9, <1>12 DEF AnswerGood, Good
  <1>14. AnswerGood(host.answer)'
    BY <1>7, <1>8, <1>13, Zenon DEF AnswerGood, Good
  <1>15. ASSUME NEW k \in Rows, UnderWay(k) PROVE Brings(host'.answer, k)
    <2>1. Asks(q, k)
      BY <1>3, <1>15 DEF UnderWay
    <2>2. Brings(a, k)
      BY <1>2, <1>5, <2>1 DEF Asks, Brings
    <2> QED BY <1>7, <1>8, <2>2
  <1>16. DutyOK'
    BY <1>1, <1>7, <1>8 DEF DutyOK
  <1>17. \A i \in 1 .. Len(requests') : \E j \in 1 .. Len(requests) : requests'[i] = requests[j]
    BY <1>3, <1>8
  <1>18. ListOK'
    BY <1>1, <1>7, <1>8, <1>10, <1>11, <1>14, <1>15, <1>17, HostListKeeps
  <1> QED BY <1>16, <1>18 DEF ListInv

LEMMA AnsweringCovers ==
    ASSUME HostInv, ListInv, Refuse \/ Open \/ Load \/ Write PROVE ListInv'
  <1>1. requests # <<>> /\ host.pc = "idle" /\ host \in HostState
    BY DEF Refuse, Open, Load, Write, Serve, HostInv, Types
  <1>2. /\ Request \in Legal /\ RequestFits(Request)
        /\ \A k \in Rows : k \notin host.captured.rows
    BY <1>1, RequestIs DEF ListInv, DutyOK, NoChanges
  <1>3. CASE Refuse
    <2>1. Answered(host, FALSE, <<>>) /\ db' = db
      BY <1>3 DEF Refuse
    <2> QED BY <1>1, <2>1, NothingIsSome, AnsweredListKeeps
  <1>4. CASE Open
    <2>1. PICK ok \in BOOLEAN, h \in {host, [host EXCEPT !.open = TRUE]} : Answered(h, ok, <<>>)
      BY <1>4 DEF Open
    <2>2. h \in HostState
      BY <1>1, <2>1 DEF HostState
    <2>3. db' = db /\ Request.id # pending["list"]
      BY <1>2, <1>4 DEF Open, Serve, RequestFits
    <2> QED BY <1>1, <2>1, <2>2, <2>3, NothingIsSome, AnsweredListKeeps
  <1>5. CASE Load
    <2>1. Answered(host, TRUE, db) /\ db' = db
      BY <1>5 DEF Load
    <2>2. db \in Some /\ DOMAIN db = Rows
      BY SomeIs DEF HostInv, Types
    <2> QED BY <1>1, <2>1, <2>2, AnsweredListKeeps
  <1>6. CASE Write
    <2>1. Request.id # pending["list"] /\ Request.keys \subseteq Rows
      BY <1>2, <1>6 DEF Write, Serve, RequestFits, Legal
    <2>2. CASE Answered(host, FALSE, <<>>) /\ db' = db
      BY <1>1, <2>2, NothingIsSome, AnsweredListKeeps
    <2>3. ASSUME NEW ok \in BOOLEAN,
                 db' = [k \in Rows |->
                        IF k \in Request.keys THEN [db[k] EXCEPT !.v = count'.writes] ELSE db[k]],
                 Answered([host EXCEPT !.captured = [rows |-> Request.keys, other |-> FALSE]],
                        ok, count'.writes)
          PROVE  ListInv'
      <3>1. PICK n : n = count'.writes
        OBVIOUS
      <3>2. n \in Nat
        BY <1>6, <3>1 DEF Write, HostInv, Types, Counts
      <3>3. PICK changes : changes = [rows |-> Request.keys, other |-> FALSE]
        OBVIOUS
      <3>4. PICK h : h = [host EXCEPT !.captured = changes]
        OBVIOUS
      <3>5. changes \in Changes /\ changes.rows = Request.keys
        BY <2>1, <3>3 DEF Changes
      <3>6. h \in HostState /\ h.captured = changes
        BY <1>1, <3>4, <3>5 DEF HostState
      <3>7. Answered(h, ok, n)
        BY <2>3, <3>1, <3>3, <3>4
      <3>8. \A k \in Rows : db'[k] = db[k] \/ k \in h.captured.rows
        BY <2>3, <3>5, <3>6
      <3> QED BY <1>1, <2>1, <3>2, <3>6, <3>7, <3>8, AnsweredListKeeps
    <2> QED BY <1>6, <2>2, <2>3 DEF Write
  <1> QED BY <1>3, <1>4, <1>5, <1>6

LEMMA ReadRowCovers ==
    ASSUME HostInv, ListInv, NEW k \in Rows, ReadRow(k) PROVE ListInv'
  <1>1. PICK got :
          got = [r \in DOMAIN host.got \cup {k} |-> IF r = k THEN db[k] ELSE host.got[r]]
    OBVIOUS
  <1>2. /\ got \in Some /\ DOMAIN got = DOMAIN host.got \cup {k} /\ got[k] = db[k]
        /\ \A r \in DOMAIN host.got \ {k} : got[r] = host.got[r]
    BY <1>1, GotIs
  <1>3. /\ requests # <<>> /\ Request.kind = "rows" /\ db' = db /\ host.pc = "idle"
        /\ host \in HostState
    BY DEF ReadRow, Serve, HostInv, Types
  <1>4. linked /\ ListOK /\ DutyOK
    BY <1>3 DEF ListInv, DutyOK
  <1>5. Request.id = pending["list"] => \A r \in DOMAIN got : got[r] = db[r] \/ Due(r)
    BY <1>2, <1>3, <1>4 DEF ListOK, FreshOK, Good
  <1>6. CASE Answered(host, TRUE, got) /\ DOMAIN got = Request.keys
    <2>1. RequestFits(Request)
      BY <1>3, RequestIs
    <2>2. Request.id = pending["list"] => list.running # "reload"
      BY <1>3, <2>1 DEF RequestFits
    <2> QED BY <1>2, <1>3, <1>5, <1>6, <2>2, AnsweredListKeeps
  <1>7. CASE host' = [host EXCEPT !.got = got] /\ UNCHANGED <<port, window>>
    <2>1. /\ host'.pc = "idle" /\ host'.captured = host.captured /\ host'.got = got
          /\ requests' = requests /\ messages' = messages /\ linked' = linked /\ UNCHANGED window
      BY <1>3, <1>7 DEF HostState, port
    <2>2. \A r : Told(r) => Told(r)'
      BY <2>1 DEF Told
    <2>3. list' = list
      BY <2>1 DEF window
    <2>4. \A r : Due(r) => Due(r)'
      BY <2>2, <2>3 DEF Due, WillReload, WillPatch, Queued
    <2>5. DutyOK'
      BY <1>3, <1>4, <2>1 DEF DutyOK, Request
    <2>6. requests' # <<>> /\ Head(requests').id = pending["list"] =>
                \A r \in DOMAIN host'.got : host'.got[r] = db'[r] \/ Due(r)'
      BY <1>3, <1>5, <2>1, <2>4 DEF Request
    <2>7. ListOK'
      BY <1>3, <1>4, <2>1, <2>2, <2>6, HostListKeeps
    <2> QED BY <2>5, <2>7 DEF ListInv
  <1> QED BY <1>1, <1>6, <1>7 DEF ReadRow

LEMMA OtherWriteCovers ==
    ASSUME HostInv, ListInv, NEW k \in Rows, NEW listed \in BOOLEAN, NEW other \in BOOLEAN,
           OtherWrite(k, listed, other)
    PROVE  ListInv'
  <1>1. PICK changes : changes = [rows |-> IF other THEN {} ELSE {k}, other |-> other]
    OBVIOUS
  <1>2. Names(changes, k)
    BY <1>1 DEF Names
  <1>3. /\ host' = [host EXCEPT !.pc = "broadcast", !.captured = changes]
        /\ host \in HostState /\ host.pc = "idle" /\ UNCHANGED window
        /\ linked' = linked /\ requests' = requests /\ messages' = messages
    BY <1>1 DEF OtherWrite, HostInv, Types, port
  <1>4. host'.pc = "broadcast" /\ host'.captured = changes /\ host'.got = host.got
    BY <1>3 DEF HostState
  <1>5. host.captured = NoChanges /\ DutyOK
    BY <1>3 DEF ListInv, DutyOK
  <1>6. DutyOK'
    BY <1>3, <1>4, <1>5 DEF DutyOK, Request
  <1>7. ASSUME linked PROVE ListOK'
    <2>1. \A r : Told(r) => Told(r)'
      BY <1>3, <1>5 DEF Told, Names, NoChanges
    <2>2. \A r \in Rows : db'[r] = db[r] \/ Told(r)'
      <3>1. \A r \in Rows : r # k => db'[r] = db[r]
        BY DEF OtherWrite, HostInv, Types
      <3>2. Told(k)'
        BY <1>2, <1>4 DEF Told, Names
      <3> QED BY <3>1, <3>2
    <2>3. \A r : Due(r) => Due(r)'
      BY <1>3, <2>1 DEF Due, WillReload, WillPatch, Queued, window
    <2>4. requests' # <<>> /\ Head(requests').id = pending["list"] =>
                \A r \in DOMAIN host'.got : host'.got[r] = db'[r] \/ Due(r)'
      <3> SUFFICES ASSUME requests # <<>>, Request.id = pending["list"], NEW r \in DOMAIN host.got
                   PROVE  host.got[r] = db'[r] \/ Due(r)'
        BY <1>3, <1>4 DEF Request
      <3>1. r \in Rows
        BY SomeRows DEF HostInv, Types, HostState
      <3>2. Good(host.got, r)
        BY <1>7 DEF ListInv, ListOK, FreshOK
      <3>3. Told(r)' => Due(r)'
        BY DEF Due
      <3> QED BY <2>2, <2>3, <3>1, <3>2, <3>3 DEF Good
    <2>5. ListOK
      BY <1>7 DEF ListInv
    <2> QED BY <1>3, <1>4, <2>1, <2>2, <2>4, <2>5, HostListKeeps
  <1> QED BY <1>3, <1>6, <1>7 DEF ListInv

LEMMA OtherOpenCovers == ASSUME HostInv, ListInv, OtherOpen PROVE ListInv'
  <1>1. /\ host.pc = "idle" /\ host \in HostState /\ host' = [host EXCEPT !.open = TRUE] /\ db' = db
        /\ linked' = linked /\ requests' = requests /\ messages' = messages /\ UNCHANGED window
    BY DEF OtherOpen, port, HostInv, Types
  <1>2. host'.pc = "idle" /\ host'.captured = host.captured /\ host'.got = host.got
    BY <1>1 DEF HostState
  <1>3. DutyOK'
    BY <1>1, <1>2 DEF ListInv, DutyOK, Request
  <1>4. ASSUME linked PROVE ListOK'
    <2>1. \A r : Told(r) => Told(r)'
      BY <1>1, <1>2 DEF Told
    <2>2. \A r : Due(r) => Due(r)'
      BY <1>1, <2>1 DEF Due, WillReload, WillPatch, Queued, window
    <2>3. ListOK
      BY <1>4 DEF ListInv
    <2>4. requests' # <<>> /\ Head(requests').id = pending["list"] =>
                \A r \in DOMAIN host'.got : host'.got[r] = db'[r] \/ Due(r)'
      BY <1>1, <1>2, <2>2, <2>3 DEF ListOK, FreshOK, Good, Request
    <2> QED BY <1>1, <1>2, <2>1, <2>3, <2>4, HostListKeeps
  <1> QED BY <1>1, <1>3, <1>4 DEF ListInv

LEMMA ReplyCovers == ASSUME HostInv, ListInv, Reply PROVE ListInv'
  <1>1. PICK m : m = [kind |-> "reply", answer |-> host.answer]
    OBVIOUS
  <1>2. /\ host \in HostState /\ messages \in Seq(Message) /\ m \in Message
        /\ host.pc = "reply" /\ m.answer = host.answer /\ messages' = Append(messages, m)
        /\ host' = [host EXCEPT !.pc = "broadcast"] /\ db' = db
        /\ linked' = linked /\ requests' = requests /\ UNCHANGED window
    BY <1>1 DEF Reply, HostInv, Types, HostState, Message
  <1>3. host'.pc = "broadcast" /\ host'.captured = host.captured /\ host'.got = host.got
    BY <1>2 DEF HostState
  <1>4. DutyOK'
    BY <1>2, <1>3 DEF ListInv, DutyOK, Request
  <1>5. ASSUME linked PROVE ListOK'
    <2>1. \A r : Told(r) => Told(r)'
      <3>1. \A i \in 1 .. Len(messages) : i \in 1 .. Len(messages') /\ messages'[i] = messages[i]
        BY <1>2, Appended
      <3> QED BY <1>3, <3>1 DEF Told
    <2>2. \A r : Due(r) => Due(r)'
      BY <1>2, <2>1 DEF Due, WillReload, WillPatch, Queued, window
    <2>3. ListOK
      BY <1>5 DEF ListInv
    <2>4. requests' # <<>> /\ Head(requests').id = pending["list"] =>
                \A r \in DOMAIN host'.got : host'.got[r] = db'[r] \/ Due(r)'
      BY <1>2, <1>3, <2>2, <2>3 DEF ListOK, FreshOK, Good, Request
    <2>5. \A i \in 1 .. Len(messages') :
            \/ \E j \in 1 .. Len(messages) : messages'[i] = messages[j]
            \/ messages'[i].answer = host.answer
      BY <1>2, Appended
    <2> QED BY <1>2, <1>3, <2>1, <2>3, <2>4, <2>5, HostListKeeps
  <1> QED BY <1>2, <1>4, <1>5 DEF ListInv

LEMMA BroadcastCovers == ASSUME HostInv, ListInv, Broadcast PROVE ListInv'
  <1>1. PICK m : m = [kind |-> "changes", changes |-> host.captured]
    OBVIOUS
  <1>2. /\ host \in HostState /\ messages \in Seq(Message) /\ m \in Message
        /\ m.kind = "changes" /\ m.changes = host.captured
        /\ messages' = IF linked /\ host.captured # NoChanges THEN Append(messages, m) ELSE messages
        /\ host' = [host EXCEPT !.pc = "idle", !.captured = NoChanges, !.answer = NoAnswer]
        /\ db' = db /\ linked' = linked /\ requests' = requests /\ UNCHANGED window
    BY <1>1 DEF Broadcast, Broadcasts, HostInv, Types, HostState, Message
  <1>3. host'.pc = "idle" /\ host'.captured = NoChanges /\ host'.got = host.got
    BY <1>2 DEF HostState
  <1>4. DutyOK'
    BY <1>2, <1>3 DEF ListInv, DutyOK, Request
  <1>5. ASSUME linked PROVE ListOK'
    <2>1. \A i \in 1 .. Len(messages) : i \in 1 .. Len(messages') /\ messages'[i] = messages[i]
      BY <1>2, Appended
    <2>2. \A r : Told(r) => Told(r)'
      <3> SUFFICES ASSUME NEW r, Names(host.captured, r) PROVE Told(r)'
        BY <2>1 DEF Told
      <3>1. host.captured # NoChanges
        BY DEF Names, NoChanges
      <3>2. messages' = Append(messages, m)
        BY <1>2, <1>5, <3>1
      <3>3. PICK n : n = Len(messages) + 1
        OBVIOUS
      <3>4. n \in 1 .. Len(messages') /\ messages'[n] = m
        BY <1>2, <3>2, <3>3, Appended
      <3> QED BY <1>2, <3>4 DEF Told
    <2>3. \A r : Due(r) => Due(r)'
      BY <1>2, <2>2 DEF Due, WillReload, WillPatch, Queued, window
    <2>4. ListOK
      BY <1>5 DEF ListInv
    <2>5. requests' # <<>> /\ Head(requests').id = pending["list"] =>
                \A r \in DOMAIN host'.got : host'.got[r] = db'[r] \/ Due(r)'
      BY <1>2, <1>3, <2>3, <2>4 DEF ListOK, FreshOK, Good, Request
    <2>6. \A i \in 1 .. Len(messages') :
            \/ \E j \in 1 .. Len(messages) : messages'[i] = messages[j]
            \/ messages'[i].kind = "changes"
      BY <1>2, Appended
    <2> QED BY <1>2, <1>3, <2>2, <2>4, <2>5, <2>6, HostListKeeps
  <1> QED BY <1>2, <1>4, <1>5 DEF ListInv

LEMMA CrashCovers == ASSUME HostInv, ListInv, Crash \/ Restart PROVE ListInv'
  <1>1. host \in HostState
    BY DEF HostInv, Types
  <1>2. CASE Crash
    <2>1. PICK h : h = Host
      OBVIOUS
    <2>2. h.captured = NoChanges /\ DOMAIN h.got = {} /\ host' = [h EXCEPT !.pc = "down", !.open = FALSE]
      BY <1>2, <2>1, NothingIsSome DEF Host, Crash
    <2>3. host'.captured = NoChanges /\ DOMAIN host'.got = {}
      BY <2>1, <2>2 DEF Host
    <2>4. linked' = FALSE /\ requests' = <<>>
      BY <1>2 DEF Crash
    <2> QED BY <2>3, <2>4 DEF ListInv, DutyOK
  <1>3. CASE Restart
    <2>1. /\ host.pc = "down" /\ host' = [host EXCEPT !.pc = "idle"]
          /\ linked' = linked /\ requests' = requests
      BY <1>3 DEF Restart, port
    <2>2. host'.captured = host.captured /\ host'.got = host.got /\ host'.pc = "idle"
      BY <1>1, <2>1 DEF HostState
    <2> QED BY <2>1, <2>2 DEF ListInv, DutyOK, Request
  <1> QED BY <1>2, <1>3

-----------------------------------------------------------------------------
(* The rows the list does not show as they are: the window's steps *)

(* A reload that is owed brings everything. *)
LEMMA ReloadComes == ASSUME WillReload' PROVE ListOK'
  <1>1. \A k : Due(k)'
    BY DEF Due
  <1>2. FreshOK'
    BY <1>1 DEF FreshOK, AnswerGood, Good
  <1>3. CoveredOK'
    BY <1>1 DEF CoveredOK, Covered
  <1> QED BY <1>2, <1>3 DEF ListOK

(* Nothing has been answered to a read that has only just been asked for. *)
LEMMA NoAnswerYet ==
    ASSUME HostInv, host' = host, pending'["list"] = 0 \/ pending'["list"] = nextId,
           requests' # <<>> =>
                Head(requests').id # pending'["list"] \/ DOMAIN host.got = {},
           \A i \in 1 .. Len(messages') : \E j \in 1 .. Len(messages) : messages'[i] = messages[j]
    PROVE  FreshOK'
  <1>1. requests' # <<>> /\ Request'.id = pending'["list"] =>
            \A k \in DOMAIN host'.got : Good(host.got, k)'
    BY DEF Request
  <1>2. ASSUME NEW a, a.id \in 1 .. nextId - 1 PROVE AnswerGood(a)'
    <2>1. a.id # pending'["list"]
      BY <1>2, CarrierIds
    <2> QED BY <2>1 DEF AnswerGood
  <1>3. host'.pc = "reply" => AnswerGood(host.answer)'
    <2>1. PICK a : a = host.answer
      OBVIOUS
    <2>2. host.pc = "reply" => AnswerGood(a)'
      BY <1>2, <2>1, CarrierIds
    <2> QED BY <2>1, <2>2, Zenon DEF AnswerGood, Good
  <1>4. ASSUME NEW i \in 1 .. Len(messages'), messages'[i].kind = "reply"
        PROVE  AnswerGood(messages[i].answer)'
    <2>1. PICK a : a = messages'[i].answer
      OBVIOUS
    <2>2. a.id \in 1 .. nextId - 1
      BY <1>4, <2>1, CarrierIds
    <2>3. AnswerGood(a)'
      BY <1>2, <2>2
    <2> QED BY <2>1, <2>3, Zenon DEF AnswerGood, Good
  <1> QED BY <1>1, <1>3, <1>4 DEF FreshOK

(* The read that is under way, if any, goes on. *)
LEMMA FreshGoesOn ==
    ASSUME HostInv, FreshOK, db' = db, host' = host, pending'["list"] = pending["list"],
           requests # <<>> => Head(requests') = Head(requests),
           requests = <<>> => DOMAIN host.got = {},
           \A i \in 1 .. Len(messages') : \E j \in 1 .. Len(messages) : messages'[i] = messages[j],
           \A k : Due(k) => Due(k)'
    PROVE  FreshOK'
  <1>1. requests' # <<>> /\ Request'.id = pending'["list"] =>
            \A k \in DOMAIN host'.got : Good(host.got, k)'
    BY DEF Request, FreshOK, Good
  <1>2. host'.pc = "reply" => AnswerGood(host.answer)'
    <2>1. PICK a : a = host.answer
      OBVIOUS
    <2>2. host.pc = "reply" => AnswerGood(a)'
      BY <2>1, AnswerStays DEF HostInv, CarriersOK, FreshOK
    <2> QED BY <2>1, <2>2, Zenon DEF AnswerGood, Good
  <1>3. ASSUME NEW i \in 1 .. Len(messages'), messages'[i].kind = "reply"
        PROVE  AnswerGood(messages[i].answer)'
    <2>1. PICK a : a = messages'[i].answer
      OBVIOUS
    <2>2. AnswerFits(a) /\ AnswerGood(a)
      BY <1>3, <2>1 DEF HostInv, CarriersOK, FreshOK
    <2>3. AnswerGood(a)'
      BY <2>2, AnswerStays
    <2> QED BY <2>1, <2>3, Zenon DEF AnswerGood, Good
  <1> QED BY <1>1, <1>2, <1>3 DEF FreshOK

LEMMA ReadGoesOn ==
    ASSUME HostInv, ListOK, db' = db, host' = host, pending'["list"] = pending["list"],
           requests # <<>> => Head(requests') = Head(requests),
           requests = <<>> => DOMAIN host.got = {},
           \A i \in 1 .. Len(requests') :
                \/ \E j \in 1 .. Len(requests) : requests'[i] = requests[j]
                \/ requests'[i].id = nextId,
           \A i \in 1 .. Len(messages') : \E j \in 1 .. Len(messages) : messages'[i] = messages[j],
           \A k : Due(k) => Due(k)',
           list'.rows = list.rows, list'.running = list.running,
           pending'["open"] = pending["open"], missed' = missed
    PROVE  ListOK'
  <1>1. FreshOK'
    BY FreshGoesOn DEF ListOK
  <1>2. ASSUME NEW k \in Rows, UnderWay(k) PROVE UnderWay(k)'
    <2>1. ASSUME NEW i \in 1 .. Len(requests') PROVE Asks(requests[i], k)'
      <3>1. PICK q : q = requests'[i]
        OBVIOUS
      <3>2. Asks(q, k) \/ q.id = nextId
        BY <1>2, <3>1 DEF UnderWay
      <3>3. pending["list"] # nextId
        BY CarrierIds
      <3>4. Asks(q, k)'
        BY <3>2, <3>3 DEF Asks
      <3> QED BY <3>1, <3>4, Zenon DEF Asks
    <2>2. host'.pc = "reply" => Brings(host.answer, k)'
      BY <1>2 DEF UnderWay, Brings
    <2>3. \A i \in 1 .. Len(messages') :
            messages'[i].kind = "reply" => Brings(messages[i].answer, k)'
      BY <1>2 DEF UnderWay, Brings
    <2> QED BY <1>2, <2>1, <2>2, <2>3 DEF UnderWay
  <1>3. ASSUME NEW k \in Rows, Covered(k) PROVE Covered(k)'
    BY <1>2, <1>3 DEF Covered, Same
  <1>4. CoveredOK'
    BY <1>3 DEF ListOK, CoveredOK
  <1> QED BY <1>1, <1>4 DEF ListOK

(* The window's steps leave the host its duty. *)
LEMMA DutyStays ==
    ASSUME DutyOK, host' = host, linked' = linked, ~linked => requests' = requests,
           requests # <<>> => requests' # <<>> /\ Head(requests') = Head(requests)
    PROVE  DutyOK'
  BY DEF DutyOK, Request

LEMMA SentBehind ==
    ASSUME HostInv, NEW call \in Calls, NEW request \in Legal, Send(call, request)
    PROVE  /\ ~linked => requests' = requests
           /\ requests # <<>> => requests' # <<>> /\ Head(requests') = Head(requests)
           /\ \A i \in 1 .. Len(requests') :
                \/ \E j \in 1 .. Len(requests) : requests'[i] = requests[j]
                \/ requests'[i] = [request EXCEPT !.id = nextId]
  <1>1. requests \in Seq(Legal) /\ nextId \in Nat
    BY DEF HostInv, Types
  <1>2. PICK q : q = [request EXCEPT !.id = nextId]
    OBVIOUS
  <1>3. q \in Legal
    BY <1>1, <1>2 DEF Legal
  <1>4. requests' = IF linked THEN Append(requests, q) ELSE requests
    BY <1>2 DEF Send
  <1>5. requests # <<>> => Append(requests, q) # <<>> /\ Head(Append(requests, q)) = Head(requests)
    <2> SUFFICES ASSUME requests # <<>>
                 PROVE  Append(requests, q) # <<>> /\ Head(Append(requests, q)) = Head(requests)
      OBVIOUS
    <2>1. 1 \in 1 .. Len(requests) /\ Append(requests, q) \in Seq(Legal)
          /\ Append(requests, q)[1] = requests[1] /\ Head(requests) = requests[1]
      BY <1>1, <1>3, Appended, HeadAndTail
    <2>2. Append(requests, q) # <<>>
      BY <1>1, <1>3
    <2> QED BY <2>1, <2>2, HeadAndTail
  <1>6. \A i \in 1 .. Len(requests') :
            (\E j \in 1 .. Len(requests) : requests'[i] = requests[j]) \/ requests'[i] = q
    BY <1>2, SendIs
  <1> QED BY <1>1, <1>2, <1>4, <1>5, <1>6

(* The reads that are started *)

LEMMA StartReloadCovers == ASSUME HostInv, ListInv, StartReload PROVE ListInv'
  <1>1. PICK r : r = [id |-> 0, kind |-> "load", keys |-> {}]
    OBVIOUS
  <1>2. r \in Legal
    BY <1>1 DEF Legal
  <1>3. Send("list", r) /\ host' = host /\ "list" \in Calls
    BY <1>1 DEF StartReload, Calls
  <1>4. /\ pending'["list"] = nextId /\ messages' = messages /\ linked' = linked
    BY <1>2, <1>3, SendIs
  <1>5. DutyOK'
    BY <1>2, <1>3, <1>4, SentBehind, DutyStays DEF ListInv
  <1>6. FreshOK'
    <2>1. requests' # <<>> => Head(requests').id # pending'["list"] \/ DOMAIN host.got = {}
      <3>1. CASE requests = <<>>
        BY <3>1 DEF ListInv, DutyOK
      <3>2. CASE requests # <<>>
        <4>1. Head(requests') = Head(requests)
          BY <1>2, <1>3, <3>2, SentBehind
        <4>2. Head(requests).id # nextId
          BY <3>2, CarrierIds
        <4> QED BY <1>4, <4>1, <4>2
      <3> QED BY <3>1, <3>2
    <2> QED BY <1>3, <1>4, <2>1, NoAnswerYet
  <1>7. list'.running = "reload"
    BY DEF StartReload, HostInv, Types, ListState
  <1>8. ASSUME NEW k \in Rows PROVE UnderWay(k)'
    <2>1. host'.pc = "reply" => Brings(host.answer, k)'
      BY <1>3, <1>4, CarrierIds DEF Brings
    <2>2. \A i \in 1 .. Len(messages') :
            messages'[i].kind = "reply" => Brings(messages[i].answer, k)'
      BY <1>4, CarrierIds DEF Brings
    <2> QED BY <1>7, <2>1, <2>2 DEF UnderWay, Asks
  <1>9. CoveredOK'
    BY <1>8 DEF CoveredOK, Covered
  <1> QED BY <1>5, <1>6, <1>9 DEF ListInv, ListOK

LEMMA StartPatchCovers == ASSUME HostInv, ListInv, StartPatch PROVE ListInv'
  <1>1. PICK r : r = [id |-> 0, kind |-> "rows", keys |-> list.keys]
    OBVIOUS
  <1>2. r \in Legal /\ r.keys = list.keys
    BY <1>1 DEF Legal, HostInv, Types, ListState
  <1>3. Send("list", r) /\ host' = host /\ db' = db /\ missed' = missed /\ "list" \in Calls
    BY <1>1 DEF StartPatch, Calls
  <1>4. /\ pending'["list"] = nextId /\ messages' = messages /\ linked' = linked
        /\ pending'["open"] = pending["open"]
    <2>1. "open" \in Calls
      BY DEF Calls
    <2> QED BY <1>2, <1>3, <2>1, SendIs
  <1>5. DutyOK'
    BY <1>2, <1>3, <1>4, SentBehind, DutyStays DEF ListInv
  <1>6. FreshOK'
    <2>1. requests' # <<>> => Head(requests').id # pending'["list"] \/ DOMAIN host.got = {}
      <3>1. CASE requests = <<>>
        BY <3>1 DEF ListInv, DutyOK
      <3>2. CASE requests # <<>>
        <4>1. Head(requests') = Head(requests)
          BY <1>2, <1>3, <3>2, SentBehind
        <4>2. Head(requests).id # nextId
          BY <3>2, CarrierIds
        <4> QED BY <1>4, <4>1, <4>2
      <3> QED BY <3>1, <3>2
    <2> QED BY <1>3, <1>4, <2>1, NoAnswerYet
  <1>7. PICK line : line = Tail(list.line)
    OBVIOUS
  <1>8. list \in ListState /\ list.running = "none" /\ list.line \in {<<"patch">>, <<"patch", "reload">>}
    BY LongerLines DEF StartPatch, HostInv, Types, ListState
  <1>9. /\ list.line = <<"patch", "reload">> => line = <<"reload">>
        /\ list.line = <<"patch">> => line = <<>>
    BY <1>7, <1>8, LongerLines
  <1>10. list' = [list EXCEPT !.line = line, !.running = "patch", !.keys = {}]
    BY <1>7 DEF StartPatch
  <1>11. /\ list' \in ListState /\ list'.running = "patch" /\ list'.rows = list.rows
         /\ list'.line = line /\ list'.timer = list.timer /\ list'.stale = list.stale
    BY <1>8, <1>9, <1>10 DEF ListState
  <1>12. Queued(list, "reload") => Queued(list', "reload")
    BY <1>8, <1>9, <1>11, QueueFacts
  <1>13. WillReload => WillReload'
    BY <1>11, <1>12 DEF WillReload, Queued
  <1>14. \A k : Told(k) => Told(k)'
    BY <1>3, <1>4 DEF Told
  <1>15. ASSUME NEW k \in list.keys PROVE UnderWay(k)'
    <2>1. ASSUME NEW i \in 1 .. Len(requests') PROVE Asks(requests[i], k)'
      <3>1. PICK q : q = requests'[i]
        OBVIOUS
      <3>2. q.id # nextId \/ q = [r EXCEPT !.id = nextId]
        <4>1. (\E j \in 1 .. Len(requests) : q = requests[j]) \/ q = [r EXCEPT !.id = nextId]
          BY <1>2, <1>3, <3>1, SentBehind
        <4>2. \A j \in 1 .. Len(requests) : requests[j].id # nextId
          BY CarrierIds
        <4> QED BY <4>1, <4>2
      <3>3. q.id # nextId \/ k \in q.keys
        BY <1>2, <3>2 DEF Legal
      <3>4. Asks(q, k)'
        BY <1>4, <3>3 DEF Asks
      <3> QED BY <3>1, <3>4, Zenon DEF Asks
    <2>2. host'.pc = "reply" => Brings(host.answer, k)'
      BY <1>3, <1>4, CarrierIds DEF Brings
    <2>3. \A i \in 1 .. Len(messages') :
            messages'[i].kind = "reply" => Brings(messages[i].answer, k)'
      BY <1>4, CarrierIds DEF Brings
    <2> QED BY <1>11, <2>1, <2>2, <2>3 DEF UnderWay
  <1>16. ASSUME NEW k \in Rows, Covered(k) PROVE Covered(k)'
    <2>1. ~UnderWay(k)
      BY <1>8 DEF UnderWay
    <2> QED BY <1>3, <1>4, <1>11, <1>13, <1>14, <1>15, <1>16, <2>1
            DEF Covered, Same, Due, WillPatch
  <1>17. linked => CoveredOK'
    BY <1>3, <1>16 DEF ListInv, ListOK, CoveredOK
  <1> QED BY <1>4, <1>5, <1>6, <1>17 DEF ListInv, ListOK

LEMMA EditCovers == ASSUME HostInv, ListInv, NEW k \in Rows, Edit(k) PROVE ListInv'
  <1>1. PICK r : r = [id |-> 0, kind |-> "write", keys |-> {k}]
    OBVIOUS
  <1>2. r \in Legal
    BY <1>1 DEF Legal
  <1>3. /\ Send("edit", r) /\ host' = host /\ db' = db /\ list' = list /\ missed' = missed
        /\ {"list", "edit", "open"} \subseteq Calls
    BY <1>1 DEF Edit, Calls
  <1>4. /\ pending'["list"] = pending["list"] /\ pending'["open"] = pending["open"]
        /\ messages' = messages /\ linked' = linked
    BY <1>2, <1>3, SendIs
  <1>5. DutyOK'
    BY <1>2, <1>3, <1>4, SentBehind, DutyStays DEF ListInv
  <1>6. \A r2 : Due(r2) => Due(r2)'
    BY <1>3, <1>4 DEF Due, Told, WillReload, WillPatch, Queued
  <1>7. ASSUME linked PROVE ListOK'
    <2>1. ListOK /\ (requests = <<>> => DOMAIN host.got = {})
      BY <1>7 DEF ListInv, DutyOK
    <2>2. \A i \in 1 .. Len(requests') :
                \/ \E j \in 1 .. Len(requests) : requests'[i] = requests[j]
                \/ requests'[i].id = nextId
      <3>1. [r EXCEPT !.id = nextId].id = nextId
        BY <1>2 DEF Legal
      <3> QED BY <1>2, <1>3, <3>1, SentBehind
    <2>3. requests # <<>> => Head(requests') = Head(requests)
      BY <1>2, <1>3, SentBehind
    <2> QED BY <1>3, <1>4, <1>6, <2>1, <2>2, <2>3, ReadGoesOn
  <1> QED BY <1>4, <1>5, <1>7 DEF ListInv

LEMMA GesturesCover ==
    ASSUME HostInv, ListInv, TimerFires \/ Leave \/ Return PROVE ListInv'
  <1>1. /\ db' = db /\ host' = host /\ linked' = linked /\ requests' = requests
        /\ messages' = messages /\ pending' = pending /\ missed' = missed /\ list \in ListState
    BY DEF TimerFires, Leave, Return, port, client, HostInv, Types
  <1>2. DutyOK'
    BY <1>1, DutyStays DEF ListInv
  <1>3. \/ WillReload'
        \/ /\ list'.rows = list.rows /\ list'.running = list.running
           /\ WillReload => WillReload'
           /\ list'.line = list.line /\ list'.keys = list.keys
    <2>1. CASE TimerFires
      <3>1. list' = Refetch(list)
        BY <2>1 DEF TimerFires
      <3>2. Queued(list', "reload")
        BY <1>1, <3>1, RefetchIs
      <3> QED BY <3>2 DEF WillReload, Queued
    <2>2. CASE Leave
      <3>1. /\ list'.rows = list.rows /\ list'.running = list.running /\ list'.line = list.line
            /\ list'.keys = list.keys /\ list'.stale = (list.stale \/ list.timer)
        BY <1>1, <2>2 DEF Leave, ListState
      <3> QED BY <3>1 DEF WillReload, Queued
    <2>3. CASE Return
      <3>1. PICK watched : watched = [list EXCEPT !.idle = FALSE]
        OBVIOUS
      <3>2. /\ watched \in ListState /\ watched.rows = list.rows /\ watched.line = list.line
            /\ watched.running = list.running /\ watched.keys = list.keys
            /\ watched.stale = list.stale /\ watched.timer = list.timer
        BY <1>1, <3>1 DEF ListState
      <3>3. list' = IF list.stale THEN Reload(watched) ELSE watched
        BY <2>3, <3>1 DEF Return
      <3>4. CASE list.stale
        <4>1. Queued(list', "reload")
          BY <3>2, <3>3, <3>4, ReloadIs
        <4> QED BY <4>1 DEF WillReload, Queued
      <3>5. CASE ~list.stale
        BY <3>2, <3>3, <3>5 DEF WillReload, Queued
      <3> QED BY <3>4, <3>5
    <2> QED BY <2>1, <2>2, <2>3
  <1>4. ASSUME linked PROVE ListOK'
    <2>1. CASE WillReload'
      BY <2>1, ReloadComes
    <2>2. CASE ~WillReload'
      <3>1. \A k : Due(k) => Due(k)'
        BY <1>1, <1>3, <2>2 DEF Due, Told, WillPatch, Queued
      <3>2. ListOK /\ (requests = <<>> => DOMAIN host.got = {})
        BY <1>4 DEF ListInv, DutyOK
      <3> QED BY <1>1, <1>3, <2>2, <3>1, <3>2, ReadGoesOn
    <2> QED BY <2>1, <2>2
  <1> QED BY <1>1, <1>2, <1>4 DEF ListInv

(* What is told in the messages behind the one that is received. *)
LEMMA StillTold ==
    ASSUME HostInv, NEW kind, Received(kind)
    PROVE  \A k : Told(k) =>
                \/ Told(k)'
                \/ kind = "changes" /\ Names(Head(messages).changes, k)
  <1>1. /\ messages \in Seq(Message) /\ messages # <<>> /\ Head(messages).kind = kind
        /\ messages' = Tail(messages) /\ host' = host
    BY DEF Received, HostInv, Types
  <1> SUFFICES ASSUME NEW k, NEW i \in 1 .. Len(messages), messages[i].kind = "changes",
                      Names(messages[i].changes, k),
                      ~(kind = "changes" /\ Names(Head(messages).changes, k))
               PROVE  Told(k)'
    BY <1>1 DEF Told
  <1>2. i # 1
    BY <1>1, HeadAndTail
  <1>3. PICK n : n = i - 1
    OBVIOUS
  <1>4. n \in 1 .. Len(messages') /\ messages'[n] = messages[i]
    BY <1>1, <1>2, <1>3, HeadAndTail
  <1> QED BY <1>1, <1>4 DEF Told

LEMMA ReceiveChangesCovers == ASSUME HostInv, ListInv, ReceiveChanges PROVE ListInv'
  <1>1. PICK m : m = Head(messages)
    OBVIOUS
  <1>2. m \in Message /\ m.kind = "changes"
    BY <1>1, ReceivedIs DEF ReceiveChanges
  <1>3. m.changes \in Changes
    BY <1>2 DEF Message
  <1>4. list' = OnChange(list, m.changes) /\ list \in ListState /\ pending' = pending /\ missed' = missed
    BY <1>1 DEF ReceiveChanges, HostInv, Types
  <1>5. /\ db' = db /\ host' = host /\ linked' = linked /\ requests' = requests
        /\ \A i \in 1 .. Len(messages') : \E j \in 1 .. Len(messages) : messages'[i] = messages[j]
    BY ReceivedIs DEF ReceiveChanges
  <1>6. /\ Keeps(list, list')
        /\ list.timer => list'.timer
        /\ list.stale => list'.stale
        /\ Queued(list, "reload") => Queued(list', "reload")
        /\ Queued(list, "patch") => Queued(list', "patch")
        /\ list.keys \subseteq list'.keys
        /\ \/ list'.stale \/ list'.timer
           \/ Queued(list', "reload")
           \/ ~m.changes.other /\ Queued(list', "patch") /\ m.changes.rows \subseteq list'.keys
    BY <1>3, <1>4, OnChangeIs
  <1>7. \A k : Told(k) => Told(k)' \/ Names(m.changes, k)
    BY <1>1, StillTold DEF ReceiveChanges
  <1>8. WillReload' <=> list'.timer \/ list'.stale \/ Queued(list', "reload")
    BY DEF WillReload, Queued
  <1>9. \A k : WillPatch(k)' <=> Queued(list', "patch") /\ k \in list'.keys
    BY DEF WillPatch, Queued
  <1>10. WillReload => WillReload'
    BY <1>6, <1>8 DEF WillReload
  <1>11. \A k : WillPatch(k) => WillPatch(k)'
    BY <1>6, <1>9 DEF WillPatch
  <1>12. \A k : Names(m.changes, k) => WillReload' \/ WillPatch(k)'
    BY <1>6, <1>8, <1>9 DEF Names
  <1>13. \A k : Due(k) => Due(k)'
    BY <1>7, <1>10, <1>11, <1>12 DEF Due
  <1>14. DutyOK'
    BY <1>5, DutyStays DEF ListInv
  <1>15. ASSUME linked PROVE ListOK'
    <2>1. ListOK /\ (requests = <<>> => DOMAIN host.got = {})
      BY <1>15 DEF ListInv, DutyOK
    <2> QED BY <1>4, <1>5, <1>6, <1>13, <2>1, ReadGoesOn DEF Keeps
  <1> QED BY <1>5, <1>14, <1>15 DEF ListInv

(* A read of the list that succeeds shows what it read, or is read once more. *)
LEMMA ReadShows ==
    ASSUME HostInv, ListOK, pending["list"] # 0, NEW data, ResultFits("list", TRUE, data),
           Result("list", TRUE, data), pending' = [pending EXCEPT !["list"] = 0],
           UNCHANGED <<db, host, linked, requests, nextId>>,
           \A i \in 1 .. Len(messages') : \E j \in 1 .. Len(messages) : messages'[i] = messages[j],
           \A k : Told(k) => Told(k)',
           \A k \in DOMAIN data : Good(data, k),
           \A k \in Rows : UnderWay(k) => k \in DOMAIN data
    PROVE  ListOK'
  <1>1. /\ list \in ListState /\ pending'["list"] = 0 /\ pending'["open"] = pending["open"]
        /\ list.running \in {"reload", "patch"} /\ data \in Some
    BY CarrierIds DEF HostInv, Types, WindowOK, ListState, ResultFits
  <1>2. /\ list' = IF list.running = "reload" THEN Loaded(list, data) ELSE Patched(list, data)
        /\ missed' = (missed /\ list.running # "reload")
    BY DEF Result
  <1>3. FreshOK'
    BY <1>1, CarrierIds, NoAnswerYet
  <1>4. CASE list.running = "reload"
    <2>1. data \in [Rows -> RowValues] /\ DOMAIN data = Rows
      BY <1>1, <1>4, SomeRows DEF ResultFits
    <2>2. /\ list'.rows = data /\ list'.line = list.line /\ list'.keys = list.keys
          /\ list'.stale = list.stale /\ list'.timer = list.timer
      BY <1>1, <1>2, <1>4, <2>1, LoadedIs
    <2>3. \A k : Due(k) => Due(k)'
      BY <2>2 DEF Due, WillReload, WillPatch, Queued
    <2>4. \A k \in Rows : Covered(k)'
      BY <2>1, <2>2, <2>3 DEF Covered, Same, Good
    <2> QED BY <1>3, <2>4 DEF ListOK, CoveredOK
  <1>5. CASE list.running = "patch"
    <2>1. list' = Patched(list, data) /\ missed' = missed
      BY <1>2, <1>5 DEF HostInv, Types
    <2>2. /\ list'.line = list.line /\ list'.keys = list.keys
          /\ list.timer => list'.timer
          /\ list.stale => list'.stale
          /\ \/ list'.timer \/ list'.stale
             \/ \A k \in Rows :
                    IF k \in DOMAIN data
                    THEN \/ list'.rows[k] = data[k]
                         \/ ~data[k].listed /\ ~list'.rows[k].listed
                    ELSE list'.rows[k] = list.rows[k]
      BY <1>1, <2>1, PatchedIs
    <2>3. CASE list'.timer \/ list'.stale
      BY <2>3, ReloadComes DEF WillReload
    <2>4. CASE \A k \in Rows :
                    IF k \in DOMAIN data
                    THEN \/ list'.rows[k] = data[k]
                         \/ ~data[k].listed /\ ~list'.rows[k].listed
                    ELSE list'.rows[k] = list.rows[k]
      <3>1. \A k : Due(k) => Due(k)'
        BY <2>2 DEF Due, WillReload, WillPatch, Queued
      <3>2. ASSUME ~missed', NEW k \in Rows PROVE Covered(k)'
        <4>1. CASE k \in DOMAIN data
          BY <2>4, <3>1, <4>1 DEF Covered, Same, Good
        <4>2. CASE k \notin DOMAIN data
          <5>1. Covered(k) /\ ~UnderWay(k)
            BY <2>1, <3>2, <4>2 DEF ListOK, CoveredOK
          <5> QED BY <1>1, <2>4, <3>1, <4>2, <5>1 DEF Covered, Same
        <4> QED BY <4>1, <4>2
      <3> QED BY <1>3, <3>2 DEF ListOK, CoveredOK
    <2> QED BY <2>2, <2>3, <2>4
  <1> QED BY <1>1, <1>4, <1>5

LEMMA ResultCovers ==
    ASSUME HostInv, ListOK, requests = <<>> => DOMAIN host.got = {},
           NEW call \in Calls, pending[call] # 0, NEW ok \in BOOLEAN, NEW data,
           ResultFits(call, ok, data), Result(call, ok, data),
           pending' = [pending EXCEPT ![call] = 0],
           UNCHANGED <<db, host, linked, requests, nextId>>,
           \A i \in 1 .. Len(messages') : \E j \in 1 .. Len(messages) : messages'[i] = messages[j],
           \A k : Told(k) => Told(k)',
           call = "list" /\ ok =>
                /\ \A k \in DOMAIN data : Good(data, k)
                /\ \A k \in Rows : UnderWay(k) => k \in DOMAIN data
    PROVE  ListOK'
  <1>1. /\ list \in ListState /\ pending \in [Calls -> Nat] /\ {"list", "edit", "open"} = Calls
        /\ pending'[call] = 0 /\ \A c \in Calls : c # call => pending'[c] = pending[c]
    BY CarrierIds DEF HostInv, Types
  <1>2. CASE call = "list" /\ ok
    BY <1>2, ReadShows
  <1>3. CASE call = "list" /\ ~ok
    <2>1. missed' = TRUE
      BY <1>3 DEF Result
    <2>2. FreshOK'
      BY <1>1, <1>3, CarrierIds, NoAnswerYet
    <2> QED BY <2>1, <2>2 DEF ListOK, CoveredOK
  <1>4. CASE call = "edit" /\ ok
    <2>1. list' = Refetch(list)
      BY <1>4 DEF Result
    <2>2. Queued(list', "reload")
      BY <1>1, <2>1, RefetchIs
    <2> QED BY <2>2, ReloadComes DEF WillReload, Queued
  <1>5. CASE call = "edit" /\ ~ok
    <2>1. list' = list /\ missed' = missed
      BY <1>5 DEF Result
    <2>2. \A k : Due(k) => Due(k)'
      BY <2>1 DEF Due, WillReload, WillPatch, Queued
    <2> QED BY <1>1, <1>5, <2>1, <2>2, ReadGoesOn
  <1>6. CASE call = "open" /\ ok
    <2>1. list' = ScheduleReload(list)
      BY <1>6 DEF Result
    <2>2. list'.timer \/ list'.stale
      BY <1>1, <2>1, ScheduleReloadIs
    <2> QED BY <2>2, ReloadComes DEF WillReload
  <1>7. CASE call = "open" /\ ~ok
    <2>1. list' = list /\ missed' = TRUE
      BY <1>7 DEF Result
    <2>2. \A k : Due(k) => Due(k)'
      BY <2>1 DEF Due, WillReload, WillPatch, Queued
    <2>3. FreshOK'
      BY <1>1, <1>7, <2>2, FreshGoesOn DEF ListOK
    <2> QED BY <2>1, <2>3 DEF ListOK, CoveredOK
  <1> QED BY <1>1, <1>2, <1>3, <1>4, <1>5, <1>6, <1>7

LEMMA ReceiveReplyCovers == ASSUME HostInv, ListInv, ReceiveReply PROVE ListInv'
  <1>1. /\ db' = db /\ host' = host /\ linked' = linked /\ requests' = requests /\ nextId' = nextId
        /\ \A i \in 1 .. Len(messages') : \E j \in 1 .. Len(messages) : messages'[i] = messages[j]
        /\ Head(messages).kind = "reply"
    BY ReceivedIs DEF ReceiveReply
  <1>2. PICK h \in 1 .. Len(messages) : Head(messages) = messages[h]
    BY ReceivedIs DEF ReceiveReply
  <1>3. \A k : Told(k) => Told(k)'
    BY StillTold DEF ReceiveReply
  <1>4. DutyOK'
    BY <1>1, DutyStays DEF ListInv
  <1>5. ASSUME linked PROVE ListOK'
    <2>1. ListOK /\ (requests = <<>> => DOMAIN host.got = {})
      BY <1>5 DEF ListInv, DutyOK
    <2>2. CASE pending' = pending /\ UNCHANGED <<list, edit, missed>>
      <3>1. \A k : Due(k) => Due(k)'
        BY <1>3, <2>2 DEF Due, WillReload, WillPatch, Queued
      <3> QED BY <1>1, <2>1, <2>2, <3>1, ReadGoesOn
    <2>3. ASSUME NEW c \in Calls, NEW a \in Answer, a = Head(messages).answer, pending[c] = a.id,
                 pending[c] # 0, pending' = [pending EXCEPT ![c] = 0],
                 ResultFits(c, a.ok, a.data), Result(c, a.ok, a.data)
          PROVE  ListOK'
      <3>1. a.ok \in BOOLEAN
        BY DEF Answer
      <3>2. AnswerGood(a) /\ \A k \in Rows : UnderWay(k) => Brings(a, k)
        BY <1>1, <1>2, <2>1, <2>3 DEF ListOK, FreshOK, UnderWay
      <3>3. c = "list" /\ a.ok =>
                /\ \A k \in DOMAIN a.data : Good(a.data, k)
                /\ \A k \in Rows : UnderWay(k) => k \in DOMAIN a.data
        BY <2>3, <3>2 DEF AnswerGood, Brings
      <3> QED BY <1>1, <1>3, <2>1, <2>3, <3>1, <3>3, ResultCovers
    <2> QED BY <2>2, <2>3, ReplyIs
  <1> QED BY <1>1, <1>4, <1>5 DEF ListInv

LEMMA TimeOutCovers == ASSUME HostInv, ListInv, NEW c \in Calls, TimeOut(c) PROVE ListInv'
  <1>1. /\ pending[c] # 0 /\ pending' = [pending EXCEPT ![c] = 0] /\ Result(c, FALSE, <<>>)
        /\ UNCHANGED <<db, host, linked, requests, messages, nextId>>
    BY DEF TimeOut, port
  <1>2. ResultFits(c, FALSE, <<>>)
    BY DEF ResultFits
  <1>3. \A k : Told(k) => Told(k)'
    BY <1>1 DEF Told
  <1>4. DutyOK'
    BY <1>1, DutyStays DEF ListInv
  <1>5. ASSUME linked PROVE ListOK'
    <2>1. ListOK /\ (requests = <<>> => DOMAIN host.got = {})
      BY <1>5 DEF ListInv, DutyOK
    <2> QED BY <1>1, <1>2, <1>3, <2>1, ResultCovers
  <1> QED BY <1>1, <1>4, <1>5 DEF ListInv

LEMMA ReconnectCovers == ASSUME HostInv, ListInv, Reconnect PROVE ListInv'
  <1>1. PICK q : q = [id |-> nextId, kind |-> "open", keys |-> {}]
    OBVIOUS
  <1>2. /\ ~linked /\ host.pc # "down" /\ linked' = TRUE /\ messages' = <<>> /\ requests' = <<q>>
        /\ db' = db /\ host' = host
        /\ pending' = [c \in Calls |-> IF c = "open" THEN nextId ELSE 0]
    BY <1>1 DEF Reconnect, NewPort
  <1>3. nextId \in Nat /\ nextId > 0
    BY DEF HostInv, Types, IdsOK
  <1>4. pending'["list"] = 0 /\ pending'["open"] # 0
    BY <1>2, <1>3 DEF Calls
  <1>5. Head(requests') = q /\ q.id = nextId
    BY <1>1, <1>2
  <1>6. DOMAIN host.got = {}
    BY <1>2 DEF ListInv, DutyOK
  <1>7. DutyOK'
    BY <1>2, <1>6 DEF ListInv, DutyOK
  <1>8. FreshOK'
    <2>1. Len(messages') = 0
      BY <1>2
    <2>2. \A i \in 1 .. Len(messages') : \E j \in 1 .. Len(messages) : messages'[i] = messages[j]
      BY <2>1
    <2> QED BY <1>2, <1>4, <1>6, <2>2, NoAnswerYet
  <1>9. CoveredOK'
    BY <1>4 DEF CoveredOK, Covered
  <1> QED BY <1>7, <1>8, <1>9 DEF ListInv, ListOK

-----------------------------------------------------------------------------
(* The list's invariant, and what follows from it *)

LEMMA ListInit == Init => ListInv
  <1> SUFFICES ASSUME Init PROVE ListInv
    OBVIOUS
  <1>1. /\ host.pc = "idle" /\ host.captured = NoChanges /\ DOMAIN host.got = {}
        /\ requests = <<>> /\ Len(messages) = 0 /\ list.rows = db /\ linked
    BY NothingIsSome DEF Init, Host
  <1>2. FreshOK
    BY <1>1 DEF FreshOK
  <1>3. CoveredOK
    BY <1>1 DEF CoveredOK, Covered, Same
  <1> QED BY <1>1, <1>2, <1>3 DEF ListInv, ListOK, DutyOK

LEMMA ListNext == HostInv /\ ListInv /\ [Next]_vars => ListInv'
  <1> SUFFICES ASSUME HostInv, ListInv, [Next]_vars PROVE ListInv'
    OBVIOUS
  <1>1. CASE UNCHANGED vars
    <2>1. /\ db' = db /\ host' = host /\ linked' = linked /\ requests' = requests
          /\ messages' = messages /\ pending' = pending /\ list' = list /\ missed' = missed
      BY <1>1 DEF vars, port, window, client
    <2> QED BY <2>1 DEF ListInv, DutyOK, ListOK, FreshOK, CoveredOK, Covered, AnswerGood, Good, Due,
                        Told, WillReload, WillPatch, Queued, UnderWay, Asks, Brings, Same, Request
  <1>2. CASE HostStep
    BY <1>2, AnsweringCovers, ReadRowCovers, ReplyCovers, BroadcastCovers DEF HostStep
  <1>3. CASE WindowStep
    BY <1>3, StartReloadCovers, StartPatchCovers, GesturesCover, ReceiveReplyCovers,
       ReceiveChangesCovers, ReconnectCovers DEF WindowStep
  <1>4. CASE Restart
    BY <1>4, CrashCovers
  <1>5. CASE Others
    BY <1>5, OtherWriteCovers, OtherOpenCovers, CrashCovers, GesturesCover, EditCovers,
       TimeOutCovers DEF Others
  <1> QED BY <1>1, <1>2, <1>3, <1>4, <1>5 DEF Next

LEMMA ListInvariant == Spec => []ListInv
  <1> QED BY HostInvariant, ListInit, ListNext, PTL DEF Spec

(***************************************************************************)
(* A list that waits for nothing shows the database as it is, after any    *)
(* overlap of writes, failed writes that committed, bursts, readers that   *)
(* leave and return, timeouts and crashes: the safety half of              *)
(* ListCatchesUp.  No change is dropped while there is a port, and a port  *)
(* that was lost costs a reload.                                           *)
(***************************************************************************)
THEOREM QuietTheorem == Spec => []QuietListIsCurrent
  <1>1. HostInv /\ ListInv => QuietListIsCurrent
    <2> SUFFICES ASSUME HostInv, ListInv, Quiet, ~missed, NEW k \in Rows PROVE Same(k)
      BY DEF QuietListIsCurrent, Current, Same
    <2>1. Covered(k)
      BY DEF Quiet, ListInv, ListOK, CoveredOK
    <2>2. ~Told(k)
      BY DEF Quiet, ListInv, DutyOK, Told, Names, NoChanges
    <2>3. ~Queued(list, "reload") /\ ~Queued(list, "patch")
      <3>1. DOMAIN list.line = {}
        BY DEF Quiet
      <3> QED BY <3>1 DEF Queued
    <2>4. ~Due(k)
      BY <2>2, <2>3 DEF Quiet, Due, WillReload, WillPatch
    <2>5. pending["open"] = 0 /\ pending["list"] = 0
      BY DEF Quiet, Calls
    <2>6. ~UnderWay(k)
      BY <2>5 DEF HostInv, WindowOK, UnderWay
    <2> QED BY <2>1, <2>4, <2>5, <2>6 DEF Covered
  <1> QED BY <1>1, HostInvariant, ListInvariant, PTL

=============================================================================
