------------------------ MODULE DownloadEngineProofs ------------------------
(***************************************************************************)
(* Proofs about DownloadEngine, for any chapters, pages, callers, workers, *)
(* attempts and bounds.  The inductive invariant has four parts: types and *)
(* control, the queue, what is left of a download that was cancelled, and  *)
(* what row, task and calls promise about the cached pages.                *)
(***************************************************************************)
EXTENDS DownloadEngine, FiniteSetTheorems, WellFoundedInduction, TLAPS

(* What the task goes on to do at each place. *)
TaskPlaces == {"none", "load", "start", "list", "pass", "fetch", "settle", "finish", "catch"}

TaskRows ==
    [chapter : Chapters \cup {None}, pc : TaskPlaces, completed : Nat, seen : Row,
     aborted : BOOLEAN, full : BOOLEAN, attempt : Nat, passFailed : BOOLEAN,
     cached : SUBSET Pages, todo : SUBSET Pages, fetching : SUBSET Pages, writes : Int,
     checked : Row, writing : BOOLEAN, lost : Nat, result : {"none", "failed", "partial", "complete"}]

CallRows ==
    [kind : {"none", "enqueue", "retry", "cancel", "remove"}, chapter : Chapters \cup {None},
     pc : {"none", "read", "write", "update", "abort", "wait", "list", "pages", "row"},
     seen : Row, listed : SUBSET Pages]

Types ==
    /\ row \in [Chapters -> Row]
    /\ stored \in [Chapters -> SUBSET Pages]
    /\ open \in BOOLEAN
    /\ pump \in {"idle", "picked", "busy", "stopped"}
    /\ picked \in [chapter : Chapters \cup {None}, completed : Nat]
    /\ wake \in BOOLEAN
    /\ task \in TaskRows /\ stray \in TaskRows
    /\ call \in [Callers -> CallRows]
    /\ halted \subseteq Chapters /\ abandoned \subseteq Chapters
    /\ torn \subseteq Chapters

Control ==
    /\ task.chapter = None <=> task.pc = "none"
    /\ pump = "busy" <=> task.chapter # None
    /\ pump # "picked" => picked.chapter = None
    /\ ~open => pump = "idle" /\ \A u \in Callers : call[u].pc = "none"
    /\ \A u \in Callers : call[u].pc # "none" => call[u].chapter \in Chapters
    /\ task.pc # "fetch" => task.fetching = {}
    /\ task.pc = "finish" => /\ task.result # "none"
                             /\ task.result = "complete" => task.cached = Pages

(* A stray pass fetches, and its chapter has been given up. *)
StrayOK(s) ==
    \/ s.chapter = None /\ s.pc = "none"
    \/ s.chapter \in abandoned /\ s.chapter # None /\ s.pc = "fetch"

QueueOK ==
    /\ queue \in Seq(Chapters)
    /\ \A i \in DOMAIN queue : row[queue[i]] # NoRow
    /\ \A c \in Chapters : row[c] # NoRow => \E i \in DOMAIN queue : queue[i] = c
    /\ \A i, j \in DOMAIN queue : queue[i] = queue[j] => i = j

(* A cancelled download can only be made active again by its own task, and *)
(* such a task still has its last write to come.                           *)
Running(t) ==
    \/ t.pc \in {"list", "pass", "fetch"}
    \/ t.pc \in {"settle", "finish", "catch"} /\ GoesOn(t.seen)

(* Once the cancel has returned there is no task, or one that has found or *)
(* will find the row cancelled.                                            *)
Stopped(t, r) ==
    /\ t.pc \in {"load", "start", "finish", "catch"}
    /\ ~GoesOn(r)
    /\ t.pc # "load" => ~GoesOn(t.seen)

Halts(t, c) ==
    t.chapter = c => /\ row[c].status \in Active => Running(t)
                     /\ ~BeingCancelled(c) => Stopped(t, row[c])

HaltedOK ==
    \A c \in halted \ abandoned :
        /\ row[c].status \in Active => task.chapter = c
        /\ picked.chapter = c => ~GoesOn(row[c])
        /\ Halts(task, c)

(* What the pages stored for a chapter must bear out. *)
Known(c, n) == n <= Cardinality(stored[c])

TaskKnows(t, c) ==
    t.chapter = c =>
        /\ Known(c, t.completed) /\ Known(c, t.seen.completed)
        /\ t.cached \subseteq stored[c]
        /\ t.pc = "finish" /\ t.result = "complete" => stored[c] = Pages

PagesOK ==
    \A c \in Chapters \ torn :
        ~BeingRemoved(c) =>
            /\ Known(c, row[c].completed)
            /\ row[c].status = "complete" => stored[c] = Pages
            /\ picked.chapter = c => Known(c, picked.completed)
            /\ TaskKnows(task, c) /\ TaskKnows(stray, c)
            /\ \A u \in Callers : call[u].chapter = c /\ call[u].pc = "write"
                                    => Known(c, call[u].seen.completed)

DownloadInv == Types /\ Control /\ StrayOK(stray) /\ QueueOK /\ HaltedOK /\ PagesOK

(* What the record a task goes on with has to satisfy. *)
GoesOnWith(t) ==
    /\ t \in TaskRows
    /\ t.chapter = task.chapter /\ t.pc # "none"
    /\ t.pc # "fetch" => t.fetching = {}
    /\ t.pc = "finish" => t.result # "none" /\ (t.result = "complete" => t.cached = Pages)
    /\ \A c \in halted \ abandoned : Halts(t, c)
    /\ \A c \in Chapters \ torn : ~BeingRemoved(c) => TaskKnows(t, c)

-----------------------------------------------------------------------------
(* The queue *)

(* A nonempty set of natural numbers has a least element. *)
LEMMA LeastPlace ==
    ASSUME NEW n \in Nat, NEW places \in SUBSET (1 .. n), places # {}
    PROVE  \E i \in places : \A j \in places : i <= j
  <1>1. IsWellFoundedOn(OpToRel(<, Nat), Nat)
    BY NatLessThanWellFounded
  <1>2. places \subseteq Nat
    OBVIOUS
  <1>3. PICK i \in places : \A j \in places : ~(<<j, i>> \in OpToRel(<, Nat))
    BY <1>1, <1>2, WFMin
  <1>4. ASSUME NEW j \in places PROVE i <= j
    <2>1. ~(<<j, i>> \in OpToRel(<, Nat))
      BY <1>3
    <2>2. i \in Nat /\ j \in Nat
      BY <1>2, <1>3
    <2>3. ~(j < i)
      BY <2>1, <2>2 DEF OpToRel
    <2> QED BY <2>2, <2>3
  <1> QED BY <1>3, <1>4

LEMMA NextTaskIsActive ==
    ASSUME NEW r, NEW q \in Seq(Chapters)
    PROVE  \/ NextTask(r, q) = NothingPicked
           \/ \E c \in Chapters : /\ r[c].status \in Active
                                  /\ NextTask(r, q) = [chapter |-> c, completed |-> r[c].completed]
  <1>1. PICK places : places = Places(r, q, Active)
    OBVIOUS
  <1>2. CASE places = {}
    BY <1>1, <1>2 DEF NextTask, Oldest
  <1>3. CASE places # {}
    <2>1. DOMAIN q = 1 .. Len(q) /\ Len(q) \in Nat
      OBVIOUS
    <2>2. places \in SUBSET (1 .. Len(q))
      BY <1>1, <2>1 DEF Places
    <2>3. \E i \in places : \A j \in places : i <= j
      BY <1>3, <2>1, <2>2, LeastPlace
    <2>4. PICK i : i = CHOOSE k \in places : \A j \in places : k <= j
      OBVIOUS
    <2>5. i \in places
      BY <2>3, <2>4
    <2>6. NextTask(r, q) = [chapter |-> q[i], completed |-> r[q[i]].completed]
      BY <1>1, <1>3, <2>4 DEF NextTask, Oldest
    <2>7. q[i] \in Chapters /\ r[q[i]].status \in Active
      BY <1>1, <2>1, <2>5 DEF Places
    <2> QED BY <2>6, <2>7
  <1> QED BY <1>2, <1>3

(* The row NextTask answers with is active, and known if all rows are. *)
LEMMA NextTaskType ==
    ASSUME NEW r \in [Chapters -> Row], NEW q \in Seq(Chapters)
    PROVE  NextTask(r, q) \in [chapter : Chapters \cup {None}, completed : Nat]
  <1>1. CASE NextTask(r, q) = NothingPicked
    BY <1>1 DEF NothingPicked
  <1>2. CASE \E c \in Chapters : NextTask(r, q) = [chapter |-> c, completed |-> r[c].completed]
    <2>1. PICK c \in Chapters : NextTask(r, q) = [chapter |-> c, completed |-> r[c].completed]
      BY <1>2
    <2>2. r[c].completed \in Nat
      BY DEF Row
    <2> QED BY <2>1, <2>2
  <1> QED BY <1>1, <1>2, NextTaskIsActive

(* What it says of a chapter is what the row says. *)
LEMMA NextTaskFrom ==
    ASSUME NEW r, NEW q \in Seq(Chapters), NEW c \in Chapters, NextTask(r, q).chapter = c
    PROVE  r[c].status \in Active /\ NextTask(r, q).completed = r[c].completed
  <1>1. NothingPicked.chapter # c
    BY DownloadAssumption DEF NothingPicked
  <1>2. PICK d \in Chapters : /\ r[d].status \in Active
                              /\ NextTask(r, q) = [chapter |-> d, completed |-> r[d].completed]
    BY <1>1, NextTaskIsActive
  <1> QED BY <1>2

(* A row that is written joins the queue unless it is there. *)
LEMMA UpsertQueue ==
    ASSUME row \in [Chapters -> Row], QueueOK, NEW c \in Chapters,
           NEW status \in Status \ {"none"}, NEW completed \in Nat,
           Upsert(c, status, completed)
    PROVE  /\ QueueOK'
           /\ row' \in [Chapters -> Row]
           /\ row'[c].status = status /\ row'[c].completed = completed
           /\ \A d \in Chapters \ {c} : row'[d] = row[d]
  <1>1. PICK new : new = [status |-> status, completed |-> completed]
    OBVIOUS
  <1>2. new \in Row /\ new # NoRow /\ new.status = status /\ new.completed = completed
    BY <1>1 DEF Row, NoRow
  <1>3. row' = [row EXCEPT ![c] = new]
    BY <1>1 DEF Upsert
  <1>4. row'[c] = new /\ \A d \in Chapters \ {c} : row'[d] = row[d]
    BY <1>3
  <1>5. row' \in [Chapters -> Row]
    BY <1>2, <1>3
  <1>6. QueueOK'
    <2>1. CASE row[c] = NoRow
      <3>1. queue' = Append(queue, c)
        BY <2>1 DEF Upsert
      <3>2. queue \in Seq(Chapters) /\ Len(queue) \in Nat /\ DOMAIN queue = 1 .. Len(queue)
        BY DEF QueueOK
      <3>3. /\ queue' \in Seq(Chapters) /\ DOMAIN queue' = 1 .. Len(queue) + 1
            /\ \A i \in DOMAIN queue : queue'[i] = queue[i]
            /\ queue'[Len(queue) + 1] = c
        BY <3>1, <3>2
      <3>4. \A i \in DOMAIN queue : queue[i] # c
        BY <2>1 DEF QueueOK
      <3>5. \A i \in DOMAIN queue : queue[i] \in Chapters
        BY <3>2
      <3>6. \A i \in DOMAIN queue' : i \in DOMAIN queue \/ i = Len(queue) + 1
        BY <3>2, <3>3
      <3>7. \A i \in DOMAIN queue : i \in DOMAIN queue' /\ i # Len(queue) + 1
        BY <3>2, <3>3
      <3>8. \A i \in DOMAIN queue' : row'[queue'[i]] # NoRow
        BY <1>2, <1>4, <3>3, <3>4, <3>5, <3>6 DEF QueueOK
      <3>9. \A d \in Chapters : row'[d] # NoRow => \E i \in DOMAIN queue' : queue'[i] = d
        <4>1. Len(queue) + 1 \in DOMAIN queue'
          BY <3>2, <3>3
        <4> QED BY <1>4, <3>3, <3>7, <4>1 DEF QueueOK
      <3>10. \A i, j \in DOMAIN queue' : queue'[i] = queue'[j] => i = j
        BY <3>3, <3>4, <3>6 DEF QueueOK
      <3> QED BY <3>3, <3>8, <3>9, <3>10 DEF QueueOK
    <2>2. CASE row[c] # NoRow
      <3>1. queue' = queue
        BY <2>2 DEF Upsert
      <3>2. \A d \in Chapters : row'[d] = NoRow <=> row[d] = NoRow
        BY <1>2, <1>4, <2>2
      <3>3. \A i \in DOMAIN queue : queue[i] \in Chapters
        BY DEF QueueOK
      <3> QED BY <3>1, <3>2, <3>3 DEF QueueOK
    <2> QED BY <2>1, <2>2
  <1> QED BY <1>2, <1>4, <1>5, <1>6

(* Without c the queue lists what it listed, but for c. *)
LEMMA WithoutQueue ==
    ASSUME row \in [Chapters -> Row], QueueOK, NEW c \in Chapters,
           row' = [row EXCEPT ![c] = NoRow], queue' = Without(queue, c)
    PROVE  QueueOK'
  <1>1. row'[c] = NoRow /\ \A d \in Chapters \ {c} : row'[d] = row[d]
    OBVIOUS
  <1>2. queue \in Seq(Chapters) /\ Len(queue) \in Nat /\ DOMAIN queue = 1 .. Len(queue)
    BY DEF QueueOK
  <1>3. \A i \in DOMAIN queue : queue[i] \in Chapters
    BY <1>2
  <1>4. CASE \A i \in DOMAIN queue : queue[i] # c
    <2>1. queue' = queue
      BY <1>4 DEF Without
    <2> QED BY <1>1, <1>3, <1>4, <2>1 DEF QueueOK
  <1>5. CASE \E i \in DOMAIN queue : queue[i] = c
    <2>1. PICK at : at = CHOOSE i \in DOMAIN queue : queue[i] = c
      OBVIOUS
    <2>2. at \in DOMAIN queue /\ queue[at] = c
      BY <1>5, <2>1
    <2>3. queue' = [i \in 1 .. Len(queue) - 1 |-> IF i < at THEN queue[i] ELSE queue[i + 1]]
      BY <1>5, <2>1 DEF Without
    <2>4. at \in 1 .. Len(queue)
      BY <1>2, <2>2
    <2>5. /\ DOMAIN queue' = 1 .. Len(queue) - 1
          /\ \A i \in 1 .. Len(queue) - 1 : i < at => queue'[i] = queue[i]
          /\ \A i \in 1 .. Len(queue) - 1 : ~(i < at) => queue'[i] = queue[i + 1]
      BY <2>3
    <2>6. \A i \in 1 .. Len(queue) - 1 :
            \E k \in DOMAIN queue : /\ k # at /\ queue'[i] = queue[k]
                                    /\ k = IF i < at THEN i ELSE i + 1
      BY <1>2, <2>4, <2>5
    <2>7. queue' \in Seq(Chapters)
      <3>1. \A i \in 1 .. Len(queue) - 1 : queue'[i] \in Chapters
        BY <1>3, <2>6
      <3>2. Len(queue) - 1 \in Nat
        BY <1>2, <2>4
      <3>3. queue' \in [1 .. Len(queue) - 1 -> Chapters]
        BY <2>3, <3>1
      <3> QED BY <3>2, <3>3
    <2>8. \A k \in DOMAIN queue : k # at => queue[k] # c
      BY <2>2 DEF QueueOK
    <2>9. \A i \in DOMAIN queue' : row'[queue'[i]] # NoRow
      BY <1>1, <1>3, <2>5, <2>6, <2>8 DEF QueueOK
    <2>10. \A d \in Chapters : row'[d] # NoRow => \E i \in DOMAIN queue' : queue'[i] = d
      <3>1. ASSUME NEW d \in Chapters, row'[d] # NoRow
            PROVE  \E i \in DOMAIN queue' : queue'[i] = d
        <4>1. d # c /\ row[d] # NoRow
          BY <1>1, <3>1
        <4>2. PICK k \in DOMAIN queue : queue[k] = d
          BY <4>1 DEF QueueOK
        <4>3. k # at
          BY <2>2, <4>1, <4>2
        <4>4. CASE k < at
          <5>1. k \in 1 .. Len(queue) - 1
            BY <1>2, <2>4, <4>2, <4>4
          <5> QED BY <2>5, <4>2, <4>4, <5>1
        <4>5. CASE ~(k < at)
          <5>1. k - 1 \in 1 .. Len(queue) - 1 /\ ~(k - 1 < at) /\ (k - 1) + 1 = k
            BY <1>2, <2>4, <4>2, <4>3, <4>5
          <5> QED BY <2>5, <4>2, <5>1
        <4> QED BY <4>4, <4>5
      <3> QED BY <3>1
    <2>11. \A i, j \in DOMAIN queue' : queue'[i] = queue'[j] => i = j
      <3>1. ASSUME NEW i \in DOMAIN queue', NEW j \in DOMAIN queue', queue'[i] = queue'[j]
            PROVE  i = j
        <4>1. i \in 1 .. Len(queue) - 1 /\ j \in 1 .. Len(queue) - 1
          BY <2>5
        <4>2. PICK k \in DOMAIN queue : queue'[i] = queue[k] /\ k = IF i < at THEN i ELSE i + 1
          BY <2>6, <4>1
        <4>3. PICK l \in DOMAIN queue : queue'[j] = queue[l] /\ l = IF j < at THEN j ELSE j + 1
          BY <2>6, <4>1
        <4>4. k = l
          BY <3>1, <4>2, <4>3 DEF QueueOK
        <4> QED BY <2>4, <4>1, <4>2, <4>3, <4>4
      <3> QED BY <3>1
    <2> QED BY <2>7, <2>9, <2>10, <2>11 DEF QueueOK
  <1> QED BY <1>4, <1>5

-----------------------------------------------------------------------------
(* Facts used at many steps *)

LEMMA PageCount ==
    ASSUME NEW s \in SUBSET Pages, NEW t \in SUBSET s
    PROVE  /\ Cardinality(s) \in Nat /\ Cardinality(t) \in Nat
           /\ Cardinality(t) <= Cardinality(s)
  <1>1. IsFiniteSet(s)
    BY DownloadAssumption, FS_Subset
  <1>2. IsFiniteSet(t) /\ Cardinality(t) <= Cardinality(s)
    BY <1>1, FS_Subset
  <1> QED BY <1>1, <1>2, FS_CardinalityType

LEMMA NoTaskType == NoTask \in TaskRows /\ NoTask.chapter = None /\ NoTask.pc = "none"
    /\ NoTask.fetching = {}
  BY DEF NoTask, TaskRows, TaskPlaces, NoRow, Row, Status

LEMMA NoCallType == NoCall \in CallRows /\ NoCall.chapter = None /\ NoCall.pc = "none"
    /\ NoCall.kind = "none"
  BY DEF NoCall, CallRows, NoRow, Row, Status

(* Where there is a task its chapter is one, and the pump is busy. *)
LEMMA TaskThere ==
    ASSUME Types, Control, task.pc # "none"
    PROVE  /\ task.chapter \in Chapters /\ task.chapter # None
           /\ pump = "busy" /\ open /\ picked.chapter = None
           /\ row[task.chapter] \in Row
  <1>1. task.chapter # None /\ task.chapter \in Chapters \cup {None}
    BY DEF Types, Control, TaskRows
  <1> QED BY <1>1 DEF Types, Control

LEMMA CallThere ==
    ASSUME Types, Control, NEW u \in Callers, call[u].pc # "none"
    PROVE  /\ call[u].chapter \in Chapters /\ open /\ call[u] \in CallRows
           /\ row[call[u].chapter] \in Row
  BY DEF Types, Control

LEMMA DownloadInit == Init => DownloadInv
  <1> SUFFICES ASSUME Init PROVE DownloadInv
    OBVIOUS
  <1> USE DEF Init
  <1>1. NoRow \in Row /\ NoRow.completed = 0 /\ NoRow.status = "none"
    BY DEF NoRow, Row, Status
  <1>2. NothingPicked \in [chapter : Chapters \cup {None}, completed : Nat] /\ NothingPicked.chapter = None
    BY DEF NothingPicked
  <1>3. Types
    BY <1>1, <1>2, NoTaskType, NoCallType DEF Types
  <1>4. Control
    BY <1>2, NoTaskType, NoCallType DEF Control
  <1>5. QueueOK
    BY DEF QueueOK
  <1>6. HaltedOK
    BY DEF HaltedOK
  <1>8. StrayOK(stray)
    BY NoTaskType DEF StrayOK
  <1>7. PagesOK
    <2>1. Cardinality({}) = 0
      BY FS_EmptySet
    <2>2. \A c \in Chapters : c # None
      BY DownloadAssumption
    <2> QED BY <1>1, <1>2, <2>1, <2>2, NoTaskType, NoCallType DEF PagesOK, Known, TaskKnows
  <1> QED BY <1>3, <1>4, <1>5, <1>6, <1>7, <1>8 DEF DownloadInv

-----------------------------------------------------------------------------
(* Steps of the task *)

(* A task that goes on and leaves the tables alone. *)
LEMMA ContinueKeeps ==
    ASSUME DownloadInv, task.pc # "none", NEW t, GoesOnWith(t),
           Continue(t), UNCHANGED dbVars
    PROVE  DownloadInv'
  <1>1. /\ task' = t /\ pump' = pump /\ picked' = picked /\ wake' = wake /\ open' = open
        /\ call' = call /\ halted' = halted /\ torn' = torn
        /\ stray' = stray /\ abandoned' = abandoned
        /\ row' = row /\ queue' = queue /\ stored' = stored
    BY DEF Continue, pumpVars, history, dbVars
  <1>2. task.chapter # None
    BY TaskThere DEF DownloadInv
  <1>3. Types'
    BY <1>1 DEF DownloadInv, Types, GoesOnWith
  <1>4. Control'
    BY <1>1, <1>2 DEF DownloadInv, Control, GoesOnWith
  <1>5. QueueOK'
    BY <1>1 DEF DownloadInv, QueueOK
  <1>6. HaltedOK'
    BY <1>1 DEF DownloadInv, HaltedOK, GoesOnWith, Halts, BeingCancelled
  <1>7. PagesOK'
    BY <1>1 DEF DownloadInv, PagesOK, GoesOnWith, TaskKnows, Known, BeingRemoved
  <1>8. (StrayOK(stray))'
    BY <1>1 DEF DownloadInv, StrayOK
  <1> QED BY <1>3, <1>4, <1>5, <1>6, <1>7, <1>8 DEF DownloadInv

(* A write of the row of the task's chapter, by a task that goes on. *)
LEMMA ContinueUpsertKeeps ==
    ASSUME DownloadInv, task.pc # "none", NEW t, GoesOnWith(t), Running(t),
           NEW n \in Nat, Upsert(task.chapter, "downloading", n),
           \A c \in halted \ abandoned : task.chapter = c => BeingCancelled(c),
           task.chapter \notin torn /\ ~BeingRemoved(task.chapter) => Known(task.chapter, n),
           Continue(t), stored' = stored
    PROVE  DownloadInv'
  <1>1. /\ task' = t /\ pump' = pump /\ picked' = picked /\ wake' = wake /\ open' = open
        /\ call' = call /\ halted' = halted /\ torn' = torn /\ stored' = stored
        /\ stray' = stray /\ abandoned' = abandoned
    BY DEF Continue, pumpVars, history
  <1>2. task.chapter \in Chapters /\ task.chapter # None /\ picked.chapter = None
    BY TaskThere DEF DownloadInv
  <1>3. /\ QueueOK' /\ row' \in [Chapters -> Row]
        /\ row'[task.chapter].status = "downloading" /\ row'[task.chapter].completed = n
        /\ \A d \in Chapters \ {task.chapter} : row'[d] = row[d]
    <2>1. "downloading" \in Status \ {"none"}
      BY DEF Status
    <2> QED BY <1>2, <2>1, UpsertQueue DEF DownloadInv, Types
  <1>4. Types'
    BY <1>1, <1>3 DEF DownloadInv, Types, GoesOnWith
  <1>5. Control'
    BY <1>1, <1>2 DEF DownloadInv, Control, GoesOnWith
  <1>6. HaltedOK'
    <2>1. ASSUME NEW c \in halted \ abandoned
          PROVE  /\ row'[c].status \in Active => t.chapter = c
                 /\ picked.chapter = c => ~GoesOn(row'[c])
                 /\ t.chapter = c => /\ row'[c].status \in Active => Running(t)
                                     /\ BeingCancelled(c)
      <3>1. c \in Chapters /\ c # None
        BY DownloadAssumption DEF DownloadInv, Types
      <3> QED BY <1>2, <1>3, <3>1 DEF DownloadInv, HaltedOK, GoesOnWith
    <2>2. \A c \in halted \ abandoned : BeingCancelled(c) => (BeingCancelled(c))'
      BY <1>1 DEF BeingCancelled
    <2> QED BY <1>1, <2>1, <2>2 DEF HaltedOK, Halts
  <1>7. PagesOK'
    <2>1. \A c \in Chapters : (BeingRemoved(c))' <=> BeingRemoved(c)
      BY <1>1 DEF BeingRemoved
    <2>2. ASSUME NEW c \in Chapters \ torn, ~BeingRemoved(c)
          PROVE  /\ Known(c, row'[c].completed)
                 /\ row'[c].status = "complete" => stored[c] = Pages
      BY <1>3, <2>2 DEF DownloadInv, PagesOK
    <2>3. ASSUME NEW c \in Chapters \ torn, ~BeingRemoved(c)
          PROVE  /\ picked.chapter = c => Known(c, picked.completed)
                 /\ TaskKnows(t, c) /\ TaskKnows(stray, c)
                 /\ \A u \in Callers : call[u].chapter = c /\ call[u].pc = "write"
                                         => Known(c, call[u].seen.completed)
      BY <2>3 DEF DownloadInv, PagesOK, GoesOnWith
    <2> QED BY <1>1, <2>1, <2>2, <2>3 DEF PagesOK, TaskKnows, Known
  <1>8. (StrayOK(stray))'
    BY <1>1 DEF DownloadInv, StrayOK
  <1> QED BY <1>3, <1>4, <1>5, <1>6, <1>7, <1>8 DEF DownloadInv

(* The calls after the ones that waited go on. *)
LEMMA ReleasedCalls ==
    ASSUME Types, Control, call' = Released
    PROVE  /\ call' \in [Callers -> CallRows]
           /\ \A u \in Callers :
                \/ call[u].pc # "wait" /\ call'[u] = call[u]
                \/ /\ call[u].pc = "wait" /\ call'[u].pc = "read"
                   /\ call'[u].chapter = call[u].chapter /\ call'[u].chapter \in Chapters
                \/ call[u].pc = "wait" /\ call'[u] = NoCall
  <1>1. \A u \in Callers : call'[u] =
            IF call[u].pc # "wait" THEN call[u]
            ELSE IF call[u].kind = "remove" THEN [call[u] EXCEPT !.pc = "read"]
            ELSE NoCall
    BY DEF Released
  <1>2. ASSUME NEW u \in Callers
        PROVE  /\ call'[u] \in CallRows
               /\ \/ call[u].pc # "wait" /\ call'[u] = call[u]
                  \/ /\ call[u].pc = "wait" /\ call'[u].pc = "read"
                     /\ call'[u].chapter = call[u].chapter /\ call'[u].chapter \in Chapters
                  \/ call[u].pc = "wait" /\ call'[u] = NoCall
    <2>1. call[u] \in CallRows
      BY DEF Types
    <2>2. CASE call[u].pc # "wait"
      BY <1>1, <2>1, <2>2
    <2>3. CASE call[u].pc = "wait" /\ call[u].kind = "remove"
      <3>1. call'[u] = [call[u] EXCEPT !.pc = "read"]
        BY <1>1, <2>3
      <3>2. call[u].chapter \in Chapters
        BY <2>3 DEF Control
      <3>3. call'[u] \in CallRows
        BY <2>1, <3>1 DEF CallRows
      <3>4. call'[u].pc = "read" /\ call'[u].chapter = call[u].chapter
        BY <2>1, <3>1 DEF CallRows
      <3> QED BY <2>3, <3>2, <3>3, <3>4
    <2>4. CASE call[u].pc = "wait" /\ call[u].kind # "remove"
      BY <1>1, <2>4, NoCallType
    <2> QED BY <2>2, <2>3, <2>4
  <1>3. call' = [u \in Callers |-> call'[u]]
    BY DEF Released
  <1> QED BY <1>2, <1>3

(***************************************************************************)
(* The end of a task, with its last write or without: the pump has asked   *)
(* for the next row, or stops; no halted download is active.               *)
(***************************************************************************)
LEMMA TaskEnds ==
    ASSUME DownloadInv, task.pc # "none",
           task' = NoTask, call' = Released, open' = open, stored' = stored, stray' = stray,
           QueueOK', row' \in [Chapters -> Row], wake' \in BOOLEAN,
           \/ pump' = "picked" /\ picked' = NextTask(row', queue')
           \/ pump' = "stopped" /\ picked' = NothingPicked,
           halted' = halted, abandoned \subseteq abandoned', abandoned' \subseteq Chapters,
           \A c \in halted' \ abandoned' : row'[c].status \notin Active,
           torn' \subseteq torn,
           \A c \in Chapters \ torn' : ~BeingRemoved(c) =>
                /\ Known(c, row'[c].completed)
                /\ row'[c].status = "complete" => stored[c] = Pages
                /\ c \in torn => /\ stray.chapter # c
                                 /\ \A u \in Callers : call[u].pc = "write"
                                                          => call[u].chapter # c
    PROVE  DownloadInv'
  <1>1. open /\ picked.chapter = None
    BY TaskThere DEF DownloadInv
  <1>2. /\ call' \in [Callers -> CallRows]
        /\ \A u \in Callers :
             \/ call[u].pc # "wait" /\ call'[u] = call[u]
             \/ /\ call[u].pc = "wait" /\ call'[u].pc = "read"
                /\ call'[u].chapter = call[u].chapter /\ call'[u].chapter \in Chapters
             \/ call[u].pc = "wait" /\ call'[u] = NoCall
    BY ReleasedCalls DEF DownloadInv
  <1>3. picked' \in [chapter : Chapters \cup {None}, completed : Nat]
    <2>1. NothingPicked \in [chapter : Chapters \cup {None}, completed : Nat]
      BY DEF NothingPicked
    <2> QED BY <2>1, NextTaskType DEF QueueOK
  <1>4. ASSUME NEW c \in Chapters, picked'.chapter = c
        PROVE  row'[c].status \in Active /\ picked'.completed = row'[c].completed
    <2>1. c # None /\ NothingPicked.chapter = None
      BY DownloadAssumption DEF NothingPicked
    <2>2. picked' = NextTask(row', queue')
      BY <1>4, <2>1
    <2> QED BY <1>4, <2>2, NextTaskFrom DEF QueueOK
  <1>5. Types'
    BY <1>2, <1>3, NoTaskType DEF DownloadInv, Types
  <1>6. Control'
    <2>1. \A u \in Callers : call'[u].pc # "none" => call'[u].chapter \in Chapters
      BY <1>2, NoCallType DEF DownloadInv, Control
    <2>2. NothingPicked.chapter = None
      BY DEF NothingPicked
    <2> QED BY <1>1, <2>1, <2>2, NoTaskType DEF Control
  <1>7. HaltedOK'
    <2>1. \A c \in halted' : c \in Chapters /\ c # None
      BY DownloadAssumption DEF DownloadInv, Types
    <2>2. \A c \in halted' \ abandoned' : picked'.chapter # c
      BY <1>4, <2>1
    <2> QED BY <2>1, <2>2, NoTaskType DEF HaltedOK, Halts
  <1>8. PagesOK'
    <2>1. \A c \in Chapters : BeingRemoved(c) => (BeingRemoved(c))'
      BY <1>2 DEF BeingRemoved
    <2>2. \A u \in Callers : call'[u].pc = "write" => call'[u] = call[u]
      BY <1>2, NoCallType
    <2>3. \A c \in Chapters : NoTask.chapter # c
      BY NoTaskType, DownloadAssumption
    <2>4. ASSUME NEW c \in Chapters \ torn', ~BeingRemoved(c)
          PROVE  /\ picked'.chapter = c => Known(c, picked'.completed)
                 /\ TaskKnows(stray, c)
                 /\ \A u \in Callers : call'[u].chapter = c /\ call'[u].pc = "write"
                                         => Known(c, call'[u].seen.completed)
      <3>1. picked'.chapter = c => Known(c, picked'.completed)
        BY <1>4, <2>4
      <3>2. CASE c \in torn
        BY <2>2, <2>4, <3>1, <3>2 DEF TaskKnows
      <3>3. CASE c \notin torn
        BY <2>2, <2>4, <3>1, <3>3 DEF DownloadInv, PagesOK
      <3> QED BY <3>2, <3>3
    <2> QED BY <2>1, <2>3, <2>4 DEF PagesOK, TaskKnows, Known
  <1>9. (StrayOK(stray))'
    BY DEF DownloadInv, StrayOK
  <1> QED BY <1>5, <1>6, <1>7, <1>8, <1>9 DEF DownloadInv

(* A task that has nothing left to write. *)
LEMMA EndKeeps ==
    ASSUME DownloadInv, task.pc # "none", ~Running(task), EndTask, UNCHANGED dbVars,
           torn' = torn
    PROVE  DownloadInv'
  <1>1. /\ task' = NoTask /\ pump' = "picked" /\ picked' = NextTask(row', queue')
        /\ call' = Released /\ wake' = wake /\ open' = open
        /\ halted' = halted /\ abandoned' = abandoned /\ stray' = stray
        /\ row' = row /\ queue' = queue /\ stored' = stored
    BY DEF EndTask, dbVars
  <1>2. \A c \in halted \ abandoned : row[c].status \notin Active
    BY DEF DownloadInv, HaltedOK, Halts
  <1>3. QueueOK'
    BY <1>1 DEF DownloadInv, QueueOK
  <1>4. \A c \in Chapters \ torn : ~BeingRemoved(c) =>
            /\ Known(c, row[c].completed)
            /\ row[c].status = "complete" => stored[c] = Pages
    BY DEF DownloadInv, PagesOK
  <1>5. row \in [Chapters -> Row] /\ wake \in BOOLEAN /\ abandoned \subseteq Chapters
    BY DEF DownloadInv, Types
  <1> QED BY <1>1, <1>2, <1>3, <1>4, <1>5, TaskEnds

(* A task that ends with a last write. *)
LEMMA EndUpsertKeeps ==
    ASSUME DownloadInv, task.pc # "none", EndTask, stored' = stored,
           NEW status \in {"complete", "partial", "failed"}, NEW n \in Nat,
           Upsert(task.chapter, status, n),
           torn' = torn \/ torn' = torn \ {task.chapter},
           task.chapter \notin torn' /\ ~BeingRemoved(task.chapter) =>
                /\ Known(task.chapter, n)
                /\ status = "complete" => stored[task.chapter] = Pages
                /\ task.chapter \in torn =>
                     /\ stray.chapter # task.chapter
                     /\ \A u \in Callers : call[u].pc = "write"
                                               => call[u].chapter # task.chapter
    PROVE  DownloadInv'
  <1>1. /\ task' = NoTask /\ pump' = "picked" /\ picked' = NextTask(row', queue')
        /\ call' = Released /\ wake' = wake /\ open' = open
        /\ halted' = halted /\ abandoned' = abandoned /\ stray' = stray
    BY DEF EndTask
  <1>2. task.chapter \in Chapters
    BY TaskThere DEF DownloadInv
  <1>3. /\ QueueOK' /\ row' \in [Chapters -> Row]
        /\ row'[task.chapter].status = status /\ row'[task.chapter].completed = n
        /\ \A d \in Chapters \ {task.chapter} : row'[d] = row[d]
    <2>1. status \in Status \ {"none"}
      BY DEF Status
    <2> QED BY <1>2, <2>1, UpsertQueue DEF DownloadInv, Types
  <1>4. ASSUME NEW c \in halted \ abandoned PROVE row'[c].status \notin Active
    <2>1. c \in Chapters
      BY DEF DownloadInv, Types
    <2>2. CASE c = task.chapter
      BY <1>3, <2>2 DEF Active
    <2>3. CASE c # task.chapter
      BY <1>3, <2>1, <2>3 DEF DownloadInv, HaltedOK
    <2> QED BY <2>2, <2>3
  <1>5. ASSUME NEW c \in Chapters \ torn', ~BeingRemoved(c)
        PROVE  /\ Known(c, row'[c].completed)
               /\ row'[c].status = "complete" => stored[c] = Pages
               /\ c \in torn => /\ stray.chapter # c
                                /\ \A u \in Callers : call[u].pc = "write"
                                                         => call[u].chapter # c
    <2>1. CASE c = task.chapter
      BY <1>3, <1>5, <2>1
    <2>2. CASE c # task.chapter
      BY <1>3, <1>5, <2>2 DEF DownloadInv, PagesOK
    <2> QED BY <2>1, <2>2
  <1>6. wake \in BOOLEAN /\ abandoned \subseteq Chapters
    BY DEF DownloadInv, Types
  <1> QED BY <1>1, <1>3, <1>4, <1>5, <1>6, TaskEnds

(* A task that has just read its row is running if the row is active, and  *)
(* finds out if the download was cancelled.                                *)
LEMMA LookHalts ==
    ASSUME DownloadInv, NEW c \in halted \ abandoned, NEW t,
           t.chapter = task.chapter, t.seen = row[task.chapter],
           \/ t.pc \in {"finish", "catch"}
           \/ t.pc = "start" /\ task.pc = "load"
           \/ t.pc = "settle" /\ task.pc \in {"pass", "fetch"}
    PROVE  Halts(t, c)
  <1> SUFFICES ASSUME t.chapter = c PROVE Halts(t, c)
    BY DEF Halts
  <1>1. Halts(task, c) /\ task.chapter = c /\ t.seen = row[c]
    BY DEF DownloadInv, HaltedOK
  <1>2. row[c].status \in Active => GoesOn(row[c])
    BY DEF Active, GoesOn
  <1> QED BY <1>1, <1>2 DEF Halts, Running, Stopped

(* Between its first write and its last look a task runs. *)
LEMMA RunningHalts ==
    ASSUME DownloadInv, NEW c \in halted \ abandoned, NEW t, t.chapter = task.chapter,
           task.pc \in {"list", "pass", "fetch"}, t.pc \in {"list", "pass", "fetch"}
    PROVE  Halts(t, c)
  BY DEF DownloadInv, HaltedOK, Halts, Running, Stopped

(* What the task knows already, and what its row says. *)
LEMMA Knowledge ==
    ASSUME DownloadInv, task.pc # "none", NEW c \in Chapters \ torn, ~BeingRemoved(c),
           task.chapter = c
    PROVE  /\ Known(c, task.completed) /\ Known(c, task.seen.completed)
           /\ Known(c, row[c].completed) /\ Known(c, 0)
           /\ task.cached \subseteq stored[c]
           /\ stored[c] \subseteq Pages
           /\ Cardinality(task.cached) \in Nat /\ Known(c, Cardinality(task.cached))
  <1>1. /\ Known(c, task.completed) /\ Known(c, task.seen.completed)
        /\ Known(c, row[c].completed) /\ task.cached \subseteq stored[c]
    BY DEF DownloadInv, PagesOK, TaskKnows
  <1>2. stored[c] \in SUBSET Pages
    BY DEF DownloadInv, Types
  <1>3. /\ Cardinality(stored[c]) \in Nat /\ Cardinality(task.cached) \in Nat
        /\ Cardinality(task.cached) <= Cardinality(stored[c])
    BY <1>1, <1>2, PageCount
  <1> QED BY <1>1, <1>2, <1>3 DEF Known

LEMMA LoadPagesKeeps ==
    ASSUME DownloadInv, LoadPages PROVE DownloadInv'
  <1>1. PICK t : t = [task EXCEPT !.pc = "start", !.seen = row[task.chapter]]
    OBVIOUS
  <1>2. task.pc = "load" /\ Continue(t) /\ UNCHANGED dbVars
    BY <1>1 DEF LoadPages, At
  <1>3. task \in TaskRows /\ row[task.chapter] \in Row
    BY <1>2, TaskThere DEF DownloadInv, Types
  <1>4. /\ t \in TaskRows /\ t.chapter = task.chapter /\ t.pc = "start"
        /\ t.seen = row[task.chapter] /\ t.fetching = task.fetching
        /\ t.cached = task.cached /\ t.completed = task.completed
    BY <1>1, <1>3 DEF TaskRows, TaskPlaces
  <1>5. \A c \in halted \ abandoned : Halts(t, c)
    BY <1>2, <1>4, LookHalts
  <1>6. \A c \in Chapters \ torn : ~BeingRemoved(c) => TaskKnows(t, c)
    BY <1>2, <1>4, Knowledge DEF TaskKnows
  <1>7. task.fetching = {}
    BY <1>2 DEF DownloadInv, Control
  <1> QED BY <1>2, <1>4, <1>5, <1>6, <1>7, ContinueKeeps DEF GoesOnWith

LEMMA ReadToFinishKeeps ==
    ASSUME DownloadInv, task.pc \in {"load", "settle"},
           NEW result \in {"failed", "partial", "complete"}, NEW n \in Nat,
           Continue(ReadToFinish(result, n)), UNCHANGED dbVars,
           \A c \in Chapters \ torn : ~BeingRemoved(c) /\ task.chapter = c =>
                /\ Known(c, n)
                /\ result = "complete" => stored[c] = Pages,
           result = "complete" => task.cached = Pages
    PROVE  DownloadInv'
  <1>1. PICK t : t = [task EXCEPT !.pc = "finish", !.seen = row[task.chapter],
                                  !.result = result, !.completed = n]
    OBVIOUS
  <1>2. task.pc # "none" /\ Continue(t)
    BY <1>1 DEF ReadToFinish
  <1>3. task \in TaskRows /\ row[task.chapter] \in Row
    BY <1>2, TaskThere DEF DownloadInv, Types
  <1>4. /\ t \in TaskRows /\ t.chapter = task.chapter /\ t.pc = "finish"
        /\ t.seen = row[task.chapter] /\ t.fetching = task.fetching
        /\ t.cached = task.cached /\ t.completed = n /\ t.result = result
    BY <1>1, <1>3 DEF TaskRows, TaskPlaces
  <1>5. \A c \in halted \ abandoned : Halts(t, c)
    BY <1>4, LookHalts
  <1>6. \A c \in Chapters \ torn : ~BeingRemoved(c) => TaskKnows(t, c)
    BY <1>2, <1>4, Knowledge DEF TaskKnows
  <1>7. task.fetching = {}
    BY DEF DownloadInv, Control
  <1> QED BY <1>2, <1>4, <1>5, <1>6, <1>7, ContinueKeeps DEF GoesOnWith

LEMMA LoadNothingKeeps ==
    ASSUME DownloadInv, LoadNothing PROVE DownloadInv'
  <1>1. task.pc = "load" /\ UNCHANGED dbVars
    BY DEF LoadNothing, At
  <1>2. PICK n \in {task.completed, 0} : Continue(ReadToFinish("failed", n))
    BY DEF LoadNothing
  <1>3. n \in Nat
    BY <1>2 DEF DownloadInv, Types, TaskRows
  <1>4. \A c \in Chapters \ torn : ~BeingRemoved(c) /\ task.chapter = c => Known(c, n)
    BY <1>1, <1>2, Knowledge
  <1> QED BY <1>1, <1>2, <1>3, <1>4, ReadToFinishKeeps

LEMMA SettleKeeps ==
    ASSUME DownloadInv, Settle PROVE DownloadInv'
  <1>1. task.pc = "settle" /\ UNCHANGED dbVars
    BY DEF Settle, At
  <1>2. CASE GoesOn(task.seen)
    <2>1. PICK result, n : result = Outcome /\ n = Cardinality(task.cached)
      OBVIOUS
    <2>2. Continue(ReadToFinish(result, n))
      BY <1>2, <2>1 DEF Settle
    <2>3. result \in {"failed", "partial", "complete"} /\ (result = "complete" => task.cached = Pages)
      BY <2>1 DEF Outcome
    <2>4. n \in Nat
      <3>1. task.cached \in SUBSET Pages
        BY DEF DownloadInv, Types, TaskRows
      <3> QED BY <2>1, <3>1, PageCount
    <2>5. \A c \in Chapters \ torn : ~BeingRemoved(c) /\ task.chapter = c =>
            /\ Known(c, n)
            /\ result = "complete" => stored[c] = Pages
      BY <1>1, <2>1, <2>3, Knowledge
    <2> QED BY <1>1, <2>2, <2>3, <2>4, <2>5, ReadToFinishKeeps
  <1>3. CASE ~GoesOn(task.seen)
    <2>1. EndTask /\ torn' = torn
      BY <1>3 DEF Settle
    <2>2. ~Running(task)
      BY <1>1, <1>3 DEF Running
    <2> QED BY <1>1, <2>1, <2>2, EndKeeps
  <1> QED BY <1>2, <1>3

LEMMA LoadAbortedKeeps ==
    ASSUME DownloadInv, LoadAborted PROVE DownloadInv'
  <1>1. task.pc = "load" /\ UNCHANGED dbVars /\ EndTask /\ torn' = torn
    BY DEF LoadAborted, At, dbVars
  <1>2. ~Running(task)
    BY <1>1 DEF Running
  <1> QED BY <1>1, <1>2, EndKeeps

LEMMA MarkStartKeeps ==
    ASSUME DownloadInv, MarkStart PROVE DownloadInv'
  <1>1. task.pc = "start" /\ stored' = stored
    BY DEF MarkStart, At
  <1>2. CASE GoesOn(task.seen)
    <2>1. PICK t : t = [task EXCEPT !.pc = "list"]
      OBVIOUS
    <2>2. Continue(t) /\ Upsert(task.chapter, "downloading", task.completed)
      BY <1>2, <2>1 DEF MarkStart
    <2>3. task \in TaskRows
      BY DEF DownloadInv, Types
    <2>4. /\ t \in TaskRows /\ t.chapter = task.chapter /\ t.pc = "list"
          /\ t.seen = task.seen /\ t.fetching = task.fetching
          /\ t.cached = task.cached /\ t.completed = task.completed
      BY <2>1, <2>3 DEF TaskRows, TaskPlaces
    <2>5. \A c \in halted \ abandoned : task.chapter = c => BeingCancelled(c)
      BY <1>1, <1>2 DEF DownloadInv, HaltedOK, Halts, Stopped
    <2>6. Running(t) /\ \A c \in halted \ abandoned : Halts(t, c)
      BY <2>4, <2>5 DEF Halts, Running
    <2>7. \A c \in Chapters \ torn : ~BeingRemoved(c) => TaskKnows(t, c)
      BY <1>1, <2>4, Knowledge DEF TaskKnows
    <2>8. task.fetching = {}
      BY <1>1 DEF DownloadInv, Control
    <2>9. task.completed \in Nat
      BY <2>3 DEF TaskRows
    <2>10. task.chapter \notin torn /\ ~BeingRemoved(task.chapter)
              => Known(task.chapter, task.completed)
      BY <1>1, Knowledge, TaskThere DEF DownloadInv
    <2>11. GoesOnWith(t)
      BY <2>4, <2>6, <2>7, <2>8 DEF GoesOnWith
    <2> QED BY <1>1, <2>2, <2>5, <2>6, <2>9, <2>10, <2>11, ContinueUpsertKeeps
  <1>3. CASE ~GoesOn(task.seen)
    <2>1. EndTask /\ UNCHANGED dbVars /\ torn' = torn
      BY <1>1, <1>3 DEF MarkStart, dbVars
    <2>2. ~Running(task)
      BY <1>1 DEF Running
    <2> QED BY <1>1, <2>1, <2>2, EndKeeps
  <1> QED BY <1>2, <1>3

LEMMA ListCachedKeeps ==
    ASSUME DownloadInv, ListCached PROVE DownloadInv'
  <1>1. PICK t : t = [task EXCEPT !.pc = "pass", !.cached = stored[task.chapter]]
    OBVIOUS
  <1>2. task.pc = "list" /\ Continue(t) /\ UNCHANGED dbVars
    BY <1>1 DEF ListCached, At
  <1>3. task \in TaskRows /\ stored[task.chapter] \in SUBSET Pages
    BY <1>2, TaskThere DEF DownloadInv, Types
  <1>4. /\ t \in TaskRows /\ t.chapter = task.chapter /\ t.pc = "pass"
        /\ t.seen = task.seen /\ t.fetching = task.fetching
        /\ t.cached = stored[task.chapter] /\ t.completed = task.completed
    BY <1>1, <1>3 DEF TaskRows, TaskPlaces
  <1>5. \A c \in halted \ abandoned : Halts(t, c)
    BY <1>2, <1>4, RunningHalts
  <1>6. \A c \in Chapters \ torn : ~BeingRemoved(c) => TaskKnows(t, c)
    BY <1>2, <1>4, Knowledge DEF TaskKnows
  <1>7. task.fetching = {}
    BY <1>2 DEF DownloadInv, Control
  <1> QED BY <1>2, <1>4, <1>5, <1>6, <1>7, ContinueKeeps DEF GoesOnWith

(* The last look before the end of run. *)
LEMMA ReadToSettleKeeps ==
    ASSUME DownloadInv, task.pc \in {"pass", "fetch"}, task.fetching = {},
           NEW todo \in SUBSET Pages,
           Continue([task EXCEPT !.pc = "settle", !.todo = todo, !.seen = row[task.chapter]]),
           UNCHANGED dbVars
    PROVE  DownloadInv'
  <1>1. PICK t : t = [task EXCEPT !.pc = "settle", !.todo = todo, !.seen = row[task.chapter]]
    OBVIOUS
  <1>2. task.pc # "none" /\ Continue(t)
    BY <1>1
  <1>3. task \in TaskRows /\ row[task.chapter] \in Row
    BY <1>2, TaskThere DEF DownloadInv, Types
  <1>4. /\ t \in TaskRows /\ t.chapter = task.chapter /\ t.pc = "settle"
        /\ t.seen = row[task.chapter] /\ t.fetching = task.fetching
        /\ t.cached = task.cached /\ t.completed = task.completed
    BY <1>1, <1>3 DEF TaskRows, TaskPlaces
  <1>5. \A c \in halted \ abandoned : Halts(t, c)
    BY <1>4, LookHalts
  <1>6. \A c \in Chapters \ torn : ~BeingRemoved(c) => TaskKnows(t, c)
    BY <1>2, <1>4, Knowledge DEF TaskKnows
  <1> QED BY <1>2, <1>4, <1>5, <1>6, ContinueKeeps DEF GoesOnWith

(* A step within the passes that learns nothing of the stored pages. *)
LEMMA PassGoesOn ==
    ASSUME DownloadInv, task.pc \in {"pass", "fetch"}, NEW t \in TaskRows,
           t.pc \in {"pass", "fetch"}, t.chapter = task.chapter, t.seen = task.seen,
           t.cached = task.cached, t.completed = task.completed,
           t.pc = "pass" => t.fetching = {}
    PROVE  GoesOnWith(t) /\ Running(t)
  <1>1. task.pc # "none"
    OBVIOUS
  <1>2. \A c \in halted \ abandoned : Halts(t, c)
    BY RunningHalts
  <1>3. \A c \in Chapters \ torn : ~BeingRemoved(c) => TaskKnows(t, c)
    BY <1>1, Knowledge DEF TaskKnows
  <1> QED BY <1>2, <1>3 DEF GoesOnWith, Running

LEMMA StartPassKeeps ==
    ASSUME DownloadInv, StartPass PROVE DownloadInv'
  <1>1. task.pc = "pass" /\ UNCHANGED dbVars
    BY DEF StartPass, At
  <1>2. task \in TaskRows /\ task.fetching = {}
    BY <1>1 DEF DownloadInv, Types, Control
  <1>3. CASE Pages \ task.cached = {} \/ task.aborted
    <2>1. Continue([task EXCEPT !.pc = "settle", !.seen = row[task.chapter]])
      BY <1>3 DEF StartPass
    <2>2. /\ task.todo \in SUBSET Pages
          /\ [task EXCEPT !.pc = "settle", !.seen = row[task.chapter]]
              = [task EXCEPT !.pc = "settle", !.todo = task.todo, !.seen = row[task.chapter]]
      BY <1>2 DEF TaskRows
    <2> QED BY <1>1, <1>2, <2>1, <2>2, ReadToSettleKeeps
  <1>4. CASE ~(Pages \ task.cached = {} \/ task.aborted)
    <2>1. PICK t, todo, attempt :
            /\ t = [task EXCEPT !.pc = "fetch", !.todo = todo,
                                !.passFailed = FALSE, !.attempt = attempt]
            /\ todo = Pages \ task.cached /\ attempt = task.attempt + 1
      OBVIOUS
    <2>2. Continue(t)
      BY <1>4, <2>1 DEF StartPass
    <2>3. todo \in SUBSET Pages /\ attempt \in Nat
      BY <1>2, <2>1 DEF TaskRows
    <2>4. /\ t \in TaskRows /\ t.chapter = task.chapter /\ t.pc = "fetch" /\ t.seen = task.seen
          /\ t.cached = task.cached /\ t.completed = task.completed
      BY <1>2, <2>1, <2>3 DEF TaskRows, TaskPlaces
    <2>5. GoesOnWith(t)
      BY <1>1, <2>4, PassGoesOn
    <2> QED BY <1>1, <2>2, <2>5, ContinueKeeps
  <1> QED BY <1>3, <1>4

LEMMA TakePageKeeps ==
    ASSUME DownloadInv, NEW p \in Pages, TakePage("task", p) PROVE DownloadInv'
  <1>1. PICK t : t = [task EXCEPT !.todo = @ \ {p}, !.fetching = @ \cup {p}]
    OBVIOUS
  <1>2. task.pc = "fetch" /\ Continue(t) /\ UNCHANGED dbVars
    BY <1>1 DEF TakePage, PassOf, Fetching, GoOn, Continue
  <1>3. task \in TaskRows
    BY DEF DownloadInv, Types
  <1>4. /\ t \in TaskRows /\ t.chapter = task.chapter /\ t.pc = "fetch" /\ t.seen = task.seen
        /\ t.cached = task.cached /\ t.completed = task.completed
    BY <1>1, <1>2, <1>3 DEF TaskRows
  <1>5. GoesOnWith(t)
    BY <1>2, <1>4, PassGoesOn
  <1> QED BY <1>2, <1>5, ContinueKeeps

LEMMA PageFailedKeeps ==
    ASSUME DownloadInv, NEW p \in Pages, PageFailed("task", p) PROVE DownloadInv'
  <1>1. PICK full \in BOOLEAN :
            Continue([task EXCEPT !.fetching = @ \ {p}, !.writes = @ + 1,
                                  !.passFailed = TRUE, !.full = @ \/ full,
                                  !.aborted = @ \/ full])
    BY DEF PageFailed, PassOf, Fetching, GoOn, Continue
  <1>2. task.pc = "fetch" /\ UNCHANGED dbVars
    BY DEF PageFailed, PassOf, Fetching
  <1>3. task \in TaskRows
    BY DEF DownloadInv, Types
  <1>4. PICK isFull, isAborted, fetching, writes :
            /\ isFull = (task.full \/ full) /\ isAborted = (task.aborted \/ full)
            /\ fetching = task.fetching \ {p} /\ writes = task.writes + 1
    OBVIOUS
  <1>5. /\ isFull \in BOOLEAN /\ isAborted \in BOOLEAN
        /\ fetching \in SUBSET Pages /\ writes \in Int
    BY <1>3, <1>4 DEF TaskRows
  <1>6. PICK t : t = [task EXCEPT !.fetching = fetching, !.writes = writes,
                                  !.passFailed = TRUE, !.full = isFull,
                                  !.aborted = isAborted]
    OBVIOUS
  <1>7. Continue(t)
    BY <1>1, <1>4, <1>6
  <1>8. /\ t \in TaskRows /\ t.chapter = task.chapter /\ t.pc = "fetch" /\ t.seen = task.seen
        /\ t.cached = task.cached /\ t.completed = task.completed
    BY <1>2, <1>3, <1>5, <1>6 DEF TaskRows
  <1>9. GoesOnWith(t)
    BY <1>2, <1>8, PassGoesOn
  <1> QED BY <1>2, <1>7, <1>9, ContinueKeeps

LEMMA CheckProgressKeeps ==
    ASSUME DownloadInv, CheckProgress("task") PROVE DownloadInv'
  <1>1. PICK t : t = [task EXCEPT !.writing = TRUE, !.checked = row[task.chapter]]
    OBVIOUS
  <1>2. task.pc = "fetch" /\ Continue(t) /\ UNCHANGED dbVars
    BY <1>1 DEF CheckProgress, PassOf, Fetching, GoOn, Continue
  <1>3. task \in TaskRows /\ row[task.chapter] \in Row
    BY <1>2, TaskThere DEF DownloadInv, Types
  <1>4. /\ t \in TaskRows /\ t.chapter = task.chapter /\ t.pc = "fetch" /\ t.seen = task.seen
        /\ t.cached = task.cached /\ t.completed = task.completed
    BY <1>1, <1>2, <1>3 DEF TaskRows
  <1>5. GoesOnWith(t)
    BY <1>2, <1>4, PassGoesOn
  <1> QED BY <1>2, <1>5, ContinueKeeps

LEMMA WriteProgressKeeps ==
    ASSUME DownloadInv, WriteProgress("task") \/ WriteIgnored("task") PROVE DownloadInv'
  <1>1. PICK t, writes, seen :
            /\ t = [task EXCEPT !.writing = FALSE, !.writes = writes, !.checked = seen]
            /\ writes = task.writes - 1 /\ seen = NoRow
    OBVIOUS
  <1>2. task.pc = "fetch" /\ Continue(t) /\ stored' = stored
    BY <1>1 DEF WriteProgress, WriteIgnored, Written, dbVars, PassOf, Fetching, GoOn, Continue
  <1>3. task \in TaskRows
    BY DEF DownloadInv, Types
  <1>4. /\ t \in TaskRows /\ t.chapter = task.chapter /\ t.pc = "fetch" /\ t.seen = task.seen
        /\ t.cached = task.cached /\ t.completed = task.completed
    <2>1. writes \in Int /\ seen \in Row
      BY <1>1, <1>3 DEF TaskRows, NoRow, Row, Status
    <2> QED BY <1>1, <1>2, <1>3, <2>1 DEF TaskRows
  <1>5. GoesOnWith(t) /\ Running(t)
    BY <1>2, <1>4, PassGoesOn
  <1>6. CASE WriteProgress("task") /\ GoesOn(task.checked)
    <2>1. PICK n : n = Cardinality(task.cached)
      OBVIOUS
    <2>2. Upsert(task.chapter, "downloading", n)
      BY <1>6, <2>1 DEF WriteProgress, PassOf
    <2>3. \A c \in halted \ abandoned : task.chapter = c => BeingCancelled(c)
      BY <1>2 DEF DownloadInv, HaltedOK, Halts, Stopped
    <2>4. n \in Nat
      <3>1. task.cached \in SUBSET Pages
        BY <1>3 DEF TaskRows
      <3> QED BY <2>1, <3>1, PageCount
    <2>5. task.chapter \notin torn /\ ~BeingRemoved(task.chapter) => Known(task.chapter, n)
      BY <1>2, <2>1, Knowledge, TaskThere DEF DownloadInv
    <2> QED BY <1>2, <1>5, <2>2, <2>3, <2>4, <2>5, ContinueUpsertKeeps
  <1>7. CASE WriteIgnored("task") \/ ~GoesOn(task.checked)
    <2>1. UNCHANGED dbVars
      BY <1>2, <1>7 DEF WriteProgress, WriteIgnored, PassOf, dbVars
    <2> QED BY <1>2, <1>5, <2>1, ContinueKeeps
  <1> QED BY <1>6, <1>7

LEMMA EndPassKeeps ==
    ASSUME DownloadInv, EndPass PROVE DownloadInv'
  <1>1. task.pc = "fetch" /\ task.fetching = {} /\ UNCHANGED dbVars
    BY DEF EndPass, At
  <1>2. task \in TaskRows /\ {} \in SUBSET Pages
    BY DEF DownloadInv, Types
  <1>3. PICK t : t = [task EXCEPT !.pc = "pass", !.todo = {}]
    OBVIOUS
  <1>4. /\ t \in TaskRows /\ t.chapter = task.chapter /\ t.pc = "pass" /\ t.seen = task.seen
        /\ t.cached = task.cached /\ t.completed = task.completed /\ t.fetching = task.fetching
    BY <1>2, <1>3 DEF TaskRows, TaskPlaces
  <1>5. CASE Continue(t)
    <2>1. GoesOnWith(t)
      BY <1>1, <1>4, PassGoesOn
    <2> QED BY <1>1, <1>5, <2>1, ContinueKeeps
  <1>6. CASE Continue([task EXCEPT !.pc = "settle", !.todo = {}, !.seen = row[task.chapter]])
    BY <1>1, <1>2, <1>6, ReadToSettleKeeps
  <1>7. \/ Continue(t)
        \/ Continue([task EXCEPT !.pc = "settle", !.todo = {}, !.seen = row[task.chapter]])
    BY <1>3 DEF EndPass
  <1> QED BY <1>5, <1>6, <1>7

(* What the error handler works with. *)
LEMMA CaughtFacts ==
    ASSUME DownloadInv, task.pc # "none", NEW lost \in Nat
    PROVE  /\ GoesOnWith(Caught(lost))
           /\ Caught(lost) \in TaskRows /\ Caught(lost).chapter = task.chapter
           /\ Caught(lost).pc = "catch" /\ Caught(lost).fetching = {}
  <1>1. PICK t, seen, aborted :
            /\ t = [NoTask EXCEPT !.chapter = task.chapter, !.pc = "catch", !.lost = lost,
                                  !.aborted = aborted, !.seen = seen]
            /\ seen = row[task.chapter] /\ aborted = task.aborted
    OBVIOUS
  <1>2. t = Caught(lost)
    BY <1>1 DEF Caught
  <1>3. task \in TaskRows /\ seen \in Row /\ task.chapter \in Chapters
    BY <1>1, TaskThere DEF DownloadInv, Types
  <1>4. aborted \in BOOLEAN
    BY <1>1, <1>3 DEF TaskRows
  <1>5. /\ t \in TaskRows /\ t.chapter = task.chapter /\ t.pc = "catch" /\ t.seen = seen
        /\ t.fetching = {} /\ t.cached = {} /\ t.completed = 0
    <2>1. NoTask \in TaskRows /\ "catch" \in TaskPlaces
      BY NoTaskType DEF TaskPlaces
    <2>2. t \in TaskRows
      BY <1>1, <1>3, <1>4, <2>1 DEF TaskRows
    <2>3. /\ t.chapter = task.chapter /\ t.pc = "catch" /\ t.seen = seen
          /\ t.fetching = NoTask.fetching /\ t.cached = NoTask.cached
          /\ t.completed = NoTask.completed
      BY <1>1, <2>1 DEF TaskRows
    <2> QED BY <2>2, <2>3 DEF NoTask
  <1>6. \A c \in halted \ abandoned : Halts(t, c)
    BY <1>1, <1>5, LookHalts
  <1>7. \A c \in Chapters \ torn : ~BeingRemoved(c) => TaskKnows(t, c)
    BY <1>1, <1>5, Knowledge DEF TaskKnows
  <1> QED BY <1>2, <1>5, <1>6, <1>7 DEF GoesOnWith

LEMMA RunThrowsKeeps ==
    ASSUME DownloadInv, RunThrows PROVE DownloadInv'
  <1>1. task.pc # "none" /\ Continue(Caught(0)) /\ UNCHANGED dbVars
    BY DEF RunThrows
  <1> QED BY <1>1, CaughtFacts, ContinueKeeps

LEMMA FinishKeeps ==
    ASSUME DownloadInv, Finish PROVE DownloadInv'
  <1>1. task.pc = "finish" /\ stored' = stored /\ EndTask
    BY DEF Finish, At
  <1>2. CASE GoesOn(task.seen)
    <2>1. /\ Upsert(task.chapter, task.result, task.completed)
          /\ torn' = IF Recorded THEN torn \ {task.chapter} ELSE torn
      BY <1>2 DEF Finish
    <2>2. task.result \in {"complete", "partial", "failed"} /\ task.completed \in Nat
      BY <1>1 DEF DownloadInv, Types, Control, TaskRows
    <2>3. task.chapter \in Chapters
      BY <1>1, TaskThere DEF DownloadInv
    <2>4. CASE Recorded
      <3>1. /\ task.completed = Cardinality(task.cached)
            /\ task.cached \subseteq stored[task.chapter]
            /\ stray.chapter # task.chapter
            /\ \A u \in Callers : call[u].pc = "write" => call[u].chapter # task.chapter
        BY <2>4 DEF Recorded
      <3>2. stored[task.chapter] \in SUBSET Pages
        BY <2>3 DEF DownloadInv, Types
      <3>3. Known(task.chapter, task.completed)
        BY <3>1, <3>2, PageCount DEF Known
      <3>4. task.result = "complete" => stored[task.chapter] = Pages
        BY <1>1, <3>1, <3>2 DEF DownloadInv, Control
      <3> QED BY <1>1, <2>1, <2>2, <2>4, <3>1, <3>3, <3>4, EndUpsertKeeps
    <2>5. CASE ~Recorded
      <3>1. torn' = torn
        BY <2>1, <2>5
      <3>2. task.chapter \notin torn /\ ~BeingRemoved(task.chapter) =>
              /\ Known(task.chapter, task.completed)
              /\ task.result = "complete" => stored[task.chapter] = Pages
        BY <1>1, <2>3 DEF DownloadInv, PagesOK, TaskKnows
      <3> QED BY <1>1, <2>1, <2>2, <3>1, <3>2, EndUpsertKeeps
    <2> QED BY <2>4, <2>5
  <1>3. CASE ~GoesOn(task.seen)
    <2>1. UNCHANGED dbVars /\ torn' = torn
      BY <1>1, <1>3 DEF Finish, dbVars
    <2>2. ~Running(task)
      BY <1>1, <1>3 DEF Running
    <2> QED BY <1>1, <2>1, <2>2, EndKeeps
  <1> QED BY <1>2, <1>3

LEMMA CatchKeeps ==
    ASSUME DownloadInv, Catch PROVE DownloadInv'
  <1>1. task.pc = "catch" /\ stored' = stored /\ EndTask /\ torn' = torn
    BY DEF Catch, At
  <1>2. CASE GoesOn(task.seen)
    <2>1. PICK status : status = IF task.seen.completed > 0 THEN "partial" ELSE "failed"
      OBVIOUS
    <2>2. Upsert(task.chapter, status, task.seen.completed)
      BY <1>2, <2>1 DEF Catch
    <2>3. status \in {"complete", "partial", "failed"} /\ status # "complete"
      BY <2>1
    <2>4. task.seen.completed \in Nat
      BY DEF DownloadInv, Types, TaskRows, Row
    <2>5. task.chapter \notin torn /\ ~BeingRemoved(task.chapter) =>
            Known(task.chapter, task.seen.completed)
      BY <1>1, Knowledge, TaskThere DEF DownloadInv
    <2> QED BY <1>1, <2>2, <2>3, <2>4, <2>5, EndUpsertKeeps
  <1>3. CASE ~GoesOn(task.seen)
    <2>1. UNCHANGED dbVars
      BY <1>1, <1>3 DEF Catch, dbVars
    <2>2. ~Running(task)
      BY <1>1, <1>3 DEF Running
    <2> QED BY <1>1, <2>1, <2>2, EndKeeps
  <1> QED BY <1>2, <1>3

LEMMA CatchThrowsKeeps ==
    ASSUME DownloadInv, CatchThrows PROVE DownloadInv'
  <1>1. /\ task.pc = "catch" /\ task' = NoTask /\ call' = Released
        /\ halted' = halted /\ abandoned' = abandoned \cup {task.chapter}
        /\ wake' = FALSE /\ stray' = stray
        /\ row' = row /\ queue' = queue /\ stored' = stored /\ open' = open /\ torn' = torn
    BY DEF CatchThrows, StopPump, At, dbVars
  <1>2. \/ pump' = "picked" /\ picked' = NextTask(row', queue')
        \/ pump' = "stopped" /\ picked' = NothingPicked
    BY <1>1 DEF CatchThrows, StopPump
  <1>3. /\ abandoned' \subseteq Chapters
        /\ \A c \in halted' \ abandoned' : row'[c].status \notin Active
    <2>1. task.chapter \in Chapters /\ abandoned \subseteq Chapters
      BY <1>1, TaskThere DEF DownloadInv, Types
    <2> QED BY <1>1, <2>1 DEF DownloadInv, HaltedOK
  <1>4. QueueOK' /\ row' \in [Chapters -> Row]
    BY <1>1 DEF DownloadInv, QueueOK, Types
  <1>5. \A c \in Chapters \ torn : ~BeingRemoved(c) =>
            /\ Known(c, row'[c].completed)
            /\ row'[c].status = "complete" => stored[c] = Pages
    BY <1>1 DEF DownloadInv, PagesOK
  <1> QED BY <1>1, <1>2, <1>3, <1>4, <1>5, TaskEnds

(* A pass that goes on as it was, but for the pages it has stored. *)
SamePass(t, s) ==
    /\ s \in TaskRows
    /\ s.chapter = t.chapter /\ s.pc = t.pc /\ s.seen = t.seen
    /\ s.completed = t.completed /\ s.result = t.result
    /\ t.pc # "fetch" => s.fetching = t.fetching /\ s.cached = t.cached

(* The page that a worker stores is the only change to the cache. *)
LEMMA GrowthKeeps ==
    ASSUME DownloadInv, NEW d \in Chapters, NEW p \in Pages,
           stored' = [stored EXCEPT ![d] = @ \cup {p}],
           UNCHANGED <<row, queue, pumpVars, open, call, history>>,
           SamePass(task, task'), SamePass(stray, stray'),
           \/ task'.cached = task.cached
           \/ task.chapter = d /\ task'.cached = task.cached \cup {p},
           \/ stray'.cached = stray.cached
           \/ stray.chapter = d /\ stray'.cached = stray.cached \cup {p}
    PROVE  DownloadInv'
  <1>1. /\ pump' = pump /\ picked' = picked /\ wake' = wake /\ open' = open
        /\ row' = row /\ queue' = queue /\ call' = call
        /\ halted' = halted /\ abandoned' = abandoned /\ torn' = torn
    BY DEF pumpVars, history
  <1>2. /\ stored' \in [Chapters -> SUBSET Pages]
        /\ \A c \in Chapters : stored[c] \subseteq stored'[c]
        /\ p \in stored'[d]
    BY DEF DownloadInv, Types
  <1>3. ASSUME NEW c \in Chapters, NEW n \in Nat, Known(c, n) PROVE (Known(c, n))'
    <2>1. stored'[c] \in SUBSET Pages /\ stored[c] \in SUBSET stored'[c]
      BY <1>2
    <2>2. Cardinality(stored'[c]) \in Nat /\ Cardinality(stored[c]) \in Nat
          /\ Cardinality(stored[c]) <= Cardinality(stored'[c])
      BY <2>1, PageCount
    <2> QED BY <1>3, <2>2 DEF Known
  <1>4. ASSUME NEW c \in Chapters, NEW t \in TaskRows, NEW s \in TaskRows, TaskKnows(t, c),
               SamePass(t, s),
               s.cached = t.cached \/ (t.chapter = d /\ s.cached = t.cached \cup {p})
        PROVE  s.chapter = c =>
                 /\ s.completed <= Cardinality(stored'[c])
                 /\ s.seen.completed <= Cardinality(stored'[c])
                 /\ s.cached \subseteq stored'[c]
                 /\ s.pc = "finish" /\ s.result = "complete" => stored'[c] = Pages
    <2> SUFFICES ASSUME s.chapter = c
                 PROVE  /\ s.completed <= Cardinality(stored'[c])
                        /\ s.seen.completed <= Cardinality(stored'[c])
                        /\ s.cached \subseteq stored'[c]
                        /\ s.pc = "finish" /\ s.result = "complete" => stored'[c] = Pages
      OBVIOUS
    <2>1. /\ Known(c, s.completed) /\ Known(c, s.seen.completed) /\ t.cached \subseteq stored[c]
          /\ s.pc = "finish" /\ s.result = "complete" => stored[c] = Pages
      BY <1>4 DEF SamePass, TaskKnows
    <2>2. s.completed \in Nat /\ s.seen.completed \in Nat
      BY DEF TaskRows, Row
    <2>3. s.cached \subseteq stored'[c]
      BY <1>2, <1>4, <2>1 DEF SamePass
    <2>4. /\ s.completed <= Cardinality(stored'[c])
          /\ s.seen.completed <= Cardinality(stored'[c])
      BY <1>3, <2>1, <2>2 DEF Known
    <2>5. stored[c] = Pages => stored'[c] = Pages
      BY <1>2
    <2> QED BY <2>1, <2>3, <2>4, <2>5
  <1>5. Types'
    BY <1>1, <1>2 DEF DownloadInv, Types, SamePass
  <1>6. Control'
    BY <1>1 DEF DownloadInv, Control, SamePass
  <1>7. QueueOK'
    BY <1>1 DEF DownloadInv, QueueOK
  <1>8. HaltedOK'
    BY <1>1 DEF DownloadInv, HaltedOK, Halts, Running, Stopped, SamePass, BeingCancelled
  <1>9. (StrayOK(stray))'
    BY <1>1 DEF DownloadInv, StrayOK, SamePass
  <1>10. PagesOK'
    <2>1. \A c \in Chapters : (BeingRemoved(c))' <=> BeingRemoved(c)
      BY <1>1 DEF BeingRemoved
    <2>2. \A c \in Chapters : stored[c] = Pages => stored'[c] = Pages
      BY <1>2
    <2>3. ASSUME NEW c \in Chapters \ torn, ~BeingRemoved(c)
          PROVE  /\ (Known(c, row[c].completed))'
                 /\ row[c].status = "complete" => stored'[c] = Pages
                 /\ picked.chapter = c => (Known(c, picked.completed))'
      <3>1. row[c].completed \in Nat /\ picked.completed \in Nat
        BY DEF DownloadInv, Types, Row
      <3>2. /\ Known(c, row[c].completed)
            /\ row[c].status = "complete" => stored[c] = Pages
            /\ picked.chapter = c => Known(c, picked.completed)
        BY <2>3 DEF DownloadInv, PagesOK
      <3> QED BY <1>1, <1>3, <2>2, <3>1, <3>2
    <2>4. ASSUME NEW c \in Chapters \ torn, ~BeingRemoved(c), NEW u \in Callers,
                 call[u].chapter = c, call[u].pc = "write"
          PROVE  (Known(c, call[u].seen.completed))'
      <3>1. call[u].seen.completed \in Nat
        BY DEF DownloadInv, Types, CallRows, Row
      <3>2. Known(c, call[u].seen.completed)
        BY <2>4 DEF DownloadInv, PagesOK
      <3> QED BY <1>1, <1>3, <3>1, <3>2
    <2>5. ASSUME NEW c \in Chapters \ torn, ~BeingRemoved(c)
          PROVE  (TaskKnows(task, c))' /\ (TaskKnows(stray, c))'
      <3>1. TaskKnows(task, c) /\ TaskKnows(stray, c)
        BY <2>5 DEF DownloadInv, PagesOK
      <3>2. /\ task \in TaskRows /\ stray \in TaskRows
            /\ task' \in TaskRows /\ stray' \in TaskRows
        BY DEF DownloadInv, Types, SamePass
      <3>3. (TaskKnows(task, c))'
        <4>1. PICK t, s : t = task /\ s = task'
          OBVIOUS
        <4>2. /\ t \in TaskRows /\ s \in TaskRows /\ TaskKnows(t, c) /\ SamePass(t, s)
              /\ s.cached = t.cached \/ (t.chapter = d /\ s.cached = t.cached \cup {p})
          BY <3>1, <3>2, <4>1
        <4>3. s.chapter = c =>
                /\ s.completed <= Cardinality(stored'[c])
                /\ s.seen.completed <= Cardinality(stored'[c])
                /\ s.cached \subseteq stored'[c]
                /\ s.pc = "finish" /\ s.result = "complete" => stored'[c] = Pages
          BY <1>4, <4>2
        <4> QED BY <4>1, <4>3 DEF TaskKnows, Known
      <3>4. (TaskKnows(stray, c))'
        <4>1. PICK t, s : t = stray /\ s = stray'
          OBVIOUS
        <4>2. /\ t \in TaskRows /\ s \in TaskRows /\ TaskKnows(t, c) /\ SamePass(t, s)
              /\ s.cached = t.cached \/ (t.chapter = d /\ s.cached = t.cached \cup {p})
          BY <3>1, <3>2, <4>1
        <4>3. s.chapter = c =>
                /\ s.completed <= Cardinality(stored'[c])
                /\ s.seen.completed <= Cardinality(stored'[c])
                /\ s.cached \subseteq stored'[c]
                /\ s.pc = "finish" /\ s.result = "complete" => stored'[c] = Pages
          BY <1>4, <4>2
        <4> QED BY <4>1, <4>3 DEF TaskKnows, Known
      <3> QED BY <3>3, <3>4
    <2> QED BY <1>1, <2>1, <2>3, <2>4, <2>5 DEF PagesOK, Known
  <1> QED BY <1>5, <1>6, <1>7, <1>8, <1>9, <1>10 DEF DownloadInv

LEMMA SamePassAsIs ==
    ASSUME NEW t \in TaskRows PROVE SamePass(t, t)
  BY DEF SamePass

(* A page that is settled changes these fields of its pass and no other. *)
SettledAs(t, fetching, cached, writes) ==
    [t EXCEPT !.fetching = fetching, !.cached = cached, !.writes = writes]

LEMMA SettledPage ==
    ASSUME NEW t \in TaskRows, NEW fetching \in SUBSET Pages, NEW cached \in SUBSET Pages,
           NEW writes \in Int
    PROVE  LET s == SettledAs(t, fetching, cached, writes)
           IN  /\ s \in TaskRows
               /\ s.chapter = t.chapter /\ s.pc = t.pc /\ s.seen = t.seen
               /\ s.completed = t.completed /\ s.result = t.result
               /\ s.cached = cached
  <1> DEFINE s == SettledAs(t, fetching, cached, writes)
  <1>1. s \in TaskRows
    BY DEF TaskRows, SettledAs
  <1>2. s.chapter = t.chapter /\ s.pc = t.pc /\ s.seen = t.seen
    BY DEF TaskRows, SettledAs
  <1>3. s.completed = t.completed /\ s.result = t.result
    BY DEF TaskRows, SettledAs
  <1>4. s.cached = cached
    BY DEF TaskRows, SettledAs
  <1> HIDE DEF s
  <1> QED BY <1>1, <1>2, <1>3, <1>4 DEF s

LEMMA PageStoredKeeps ==
    ASSUME DownloadInv, NEW w \in Passes, NEW p \in Pages, PageStored(w, p)
    PROVE  DownloadInv'
  <1>1. PICK t, s, fetching, cached, writes :
            /\ t = PassOf(w)
            /\ s = SettledAs(t, fetching, cached, writes)
            /\ fetching = t.fetching \ {p} /\ cached = t.cached \cup {p}
            /\ writes = t.writes + 1
    OBVIOUS
  <1>2. /\ t.pc = "fetch" /\ GoOn(w, s) /\ row' = row /\ queue' = queue
        /\ stored' = [stored EXCEPT ![t.chapter] = @ \cup {p}]
    BY <1>1 DEF PageStored, Fetching, SettledAs
  <1>3. t \in TaskRows /\ task \in TaskRows /\ stray \in TaskRows
    BY <1>1 DEF PassOf, DownloadInv, Types
  <1>4. t.chapter \in Chapters
    <2>1. CASE w = "task"
      BY <1>1, <1>2, <2>1, TaskThere DEF PassOf, DownloadInv
    <2>2. CASE w # "task"
      BY <1>1, <1>2, <2>2 DEF PassOf, DownloadInv, StrayOK, Types
    <2> QED BY <2>1, <2>2
  <1>5. fetching \in SUBSET Pages /\ cached \in SUBSET Pages /\ writes \in Int
    BY <1>1, <1>3 DEF TaskRows
  <1>6. SamePass(t, s) /\ s.cached = t.cached \cup {p}
    <2>1. /\ s \in TaskRows
          /\ s.chapter = t.chapter /\ s.pc = t.pc /\ s.seen = t.seen
          /\ s.completed = t.completed /\ s.result = t.result
          /\ s.cached = cached
      BY <1>1, <1>3, <1>5, SettledPage
    <2> QED BY <1>1, <1>2, <2>1 DEF SamePass
  <1>7. UNCHANGED <<row, queue, pumpVars, open, call, history>>
    BY <1>2 DEF GoOn
  <1>8. CASE w = "task"
    <2>1. task' = s /\ stray' = stray /\ t = task
      BY <1>1, <1>2, <1>8 DEF GoOn, PassOf
    <2> QED BY <1>2, <1>3, <1>4, <1>6, <1>7, <2>1, SamePassAsIs, GrowthKeeps
  <1>9. CASE w # "task"
    <2>1. PICK z : z = [s EXCEPT !.passFailed = FALSE, !.full = FALSE]
      OBVIOUS
    <2>2. stray' = z /\ task' = task /\ t = stray
      BY <1>1, <1>2, <1>9, <2>1 DEF GoOn, PassOf
    <2>3. s \in TaskRows
      BY <1>6 DEF SamePass
    <2>4. z \in TaskRows /\ z.cached = s.cached /\ z.chapter = s.chapter /\ z.pc = s.pc
          /\ z.seen = s.seen /\ z.completed = s.completed /\ z.result = s.result
      BY <2>1, <2>3 DEF TaskRows
    <2>5. SamePass(stray, z) /\ z.cached = stray.cached \cup {p}
      BY <1>2, <1>6, <2>2, <2>4 DEF SamePass
    <2> QED BY <1>2, <1>3, <1>4, <1>7, <2>2, <2>5, SamePassAsIs, GrowthKeeps
  <1> QED BY <1>8, <1>9

-----------------------------------------------------------------------------
(* A stray pass *)

(* The record it goes on with. *)
StraysOn(s) ==
    \/ s = NoTask
    \/ /\ s \in TaskRows
       /\ s.chapter = stray.chapter /\ s.pc = "fetch" /\ s.seen = stray.seen
       /\ s.completed = stray.completed /\ s.cached = stray.cached

LEMMA StraysOnFacts ==
    ASSUME DownloadInv, stray.pc = "fetch", NEW t, StraysOn(t), GoOn("stray", t)
    PROVE  /\ stray' \in TaskRows /\ (StrayOK(stray))' /\ task' = task
           /\ UNCHANGED <<pumpVars, open, call, history>>
           /\ \A c \in Chapters : TaskKnows(stray, c) => TaskKnows(stray', c)
  <1>1. PICK s : s = [t EXCEPT !.passFailed = FALSE, !.full = FALSE]
    OBVIOUS
  <1>2. stray' = s /\ task' = task /\ UNCHANGED <<pumpVars, open, call, history>>
    BY <1>1 DEF GoOn
  <1>3. CASE t = NoTask
    <2>1. s \in TaskRows /\ s.chapter = None /\ s.pc = "none"
      BY <1>1, <1>3, NoTaskType DEF TaskRows
    <2>2. \A c \in Chapters : TaskKnows(s, c)
      BY <2>1, DownloadAssumption DEF TaskKnows
    <2> QED BY <1>2, <2>1, <2>2 DEF StrayOK
  <1>4. CASE t # NoTask
    <2>1. /\ t \in TaskRows
          /\ t.chapter = stray.chapter /\ t.pc = "fetch" /\ t.seen = stray.seen
          /\ t.completed = stray.completed /\ t.cached = stray.cached
      BY <1>4 DEF StraysOn
    <2>2. /\ s \in TaskRows
          /\ s.chapter = stray.chapter /\ s.pc = "fetch" /\ s.seen = stray.seen
          /\ s.completed = stray.completed /\ s.cached = stray.cached
      BY <1>1, <2>1 DEF TaskRows
    <2>3. \A c \in Chapters : TaskKnows(stray, c) => TaskKnows(s, c)
      BY <2>2 DEF TaskKnows
    <2>4. stray.chapter \in abandoned /\ stray.chapter # None
      BY DEF DownloadInv, StrayOK
    <2>5. abandoned' = abandoned
      BY <1>2 DEF history
    <2> QED BY <1>2, <2>2, <2>3, <2>4, <2>5 DEF StrayOK
  <1> QED BY <1>3, <1>4

(* A step of the stray pass that leaves the tables alone. *)
LEMMA StrayKeeps ==
    ASSUME DownloadInv, stray.pc = "fetch", NEW t, StraysOn(t), GoOn("stray", t),
           UNCHANGED dbVars
    PROVE  DownloadInv'
  <1>1. /\ stray' \in TaskRows /\ (StrayOK(stray))' /\ task' = task
        /\ pump' = pump /\ picked' = picked /\ wake' = wake /\ open' = open /\ call' = call
        /\ halted' = halted /\ abandoned' = abandoned /\ torn' = torn
        /\ row' = row /\ queue' = queue /\ stored' = stored
    BY StraysOnFacts DEF pumpVars, history, dbVars
  <1>2. \A c \in Chapters : TaskKnows(stray, c) => TaskKnows(stray', c)
    BY StraysOnFacts
  <1>3. Types'
    BY <1>1 DEF DownloadInv, Types
  <1>4. Control'
    BY <1>1 DEF DownloadInv, Control
  <1>5. QueueOK'
    BY <1>1 DEF DownloadInv, QueueOK
  <1>6. HaltedOK'
    BY <1>1 DEF DownloadInv, HaltedOK, Halts, BeingCancelled
  <1>7. PagesOK'
    BY <1>1, <1>2 DEF DownloadInv, PagesOK, TaskKnows, Known, BeingRemoved
  <1> QED BY <1>1, <1>3, <1>4, <1>5, <1>6, <1>7 DEF DownloadInv

(* Its progress write, to a row that has been given up. *)
LEMMA StrayUpsertKeeps ==
    ASSUME DownloadInv, stray.pc = "fetch", NEW t, StraysOn(t), GoOn("stray", t),
           Upsert(stray.chapter, "downloading", Cardinality(stray.cached)), stored' = stored
    PROVE  DownloadInv'
  <1>1. PICK c, n : c = stray.chapter /\ n = Cardinality(stray.cached)
    OBVIOUS
  <1>2. /\ stray' \in TaskRows /\ (StrayOK(stray))' /\ task' = task
        /\ pump' = pump /\ picked' = picked /\ wake' = wake /\ open' = open /\ call' = call
        /\ halted' = halted /\ abandoned' = abandoned /\ torn' = torn /\ stored' = stored
    BY StraysOnFacts DEF pumpVars, history
  <1>3. \A d \in Chapters : TaskKnows(stray, d) => TaskKnows(stray', d)
    BY StraysOnFacts
  <1>4. c \in Chapters /\ c \in abandoned /\ stray.cached \in SUBSET Pages
    BY <1>1 DEF DownloadInv, StrayOK, Types, TaskRows
  <1>5. n \in Nat
    BY <1>1, <1>4, PageCount
  <1>6. /\ QueueOK' /\ row' \in [Chapters -> Row]
        /\ row'[c].status = "downloading" /\ row'[c].completed = n
        /\ \A d \in Chapters \ {c} : row'[d] = row[d]
    <2>1. "downloading" \in Status \ {"none"}
      BY DEF Status
    <2> QED BY <1>1, <1>4, <1>5, <2>1, UpsertQueue DEF DownloadInv, Types
  <1>7. Types'
    BY <1>2, <1>6 DEF DownloadInv, Types
  <1>8. Control'
    BY <1>2 DEF DownloadInv, Control
  <1>9. HaltedOK'
    <2>1. \A d \in halted \ abandoned : d \in Chapters \ {c}
      BY <1>4 DEF DownloadInv, Types
    <2> QED BY <1>2, <1>6, <2>1 DEF DownloadInv, HaltedOK, Halts, BeingCancelled
  <1>10. PagesOK'
    <2>1. \A d \in Chapters : (BeingRemoved(d))' <=> BeingRemoved(d)
      BY <1>2 DEF BeingRemoved
    <2>2. ASSUME NEW d \in Chapters \ torn, ~BeingRemoved(d)
          PROVE  /\ Known(d, row'[d].completed)
                 /\ row'[d].status = "complete" => stored[d] = Pages
      <3>1. CASE d = c
        <4>1. stray.cached \subseteq stored[c] /\ stored[c] \in SUBSET Pages
          BY <1>1, <1>4, <2>2, <3>1 DEF DownloadInv, PagesOK, TaskKnows, Types
        <4>2. n <= Cardinality(stored[c])
          BY <1>1, <4>1, PageCount
        <4> QED BY <1>6, <3>1, <4>2 DEF Known
      <3>2. CASE d # c
        BY <1>6, <2>2, <3>2 DEF DownloadInv, PagesOK
      <3> QED BY <3>1, <3>2
    <2>3. ASSUME NEW d \in Chapters \ torn, ~BeingRemoved(d)
          PROVE  /\ picked.chapter = d => Known(d, picked.completed)
                 /\ TaskKnows(task, d) /\ TaskKnows(stray', d)
                 /\ \A u \in Callers : call[u].chapter = d /\ call[u].pc = "write"
                                         => Known(d, call[u].seen.completed)
      BY <1>3, <2>3 DEF DownloadInv, PagesOK
    <2> QED BY <1>2, <2>1, <2>2, <2>3 DEF PagesOK, TaskKnows, Known
  <1> QED BY <1>2, <1>6, <1>7, <1>8, <1>9, <1>10 DEF DownloadInv

LEMMA StrayTakesKeeps ==
    ASSUME DownloadInv, NEW p \in Pages, TakePage("stray", p) PROVE DownloadInv'
  <1>1. PICK t : t = [stray EXCEPT !.todo = @ \ {p}, !.fetching = @ \cup {p}]
    OBVIOUS
  <1>2. stray.pc = "fetch" /\ GoOn("stray", t) /\ UNCHANGED dbVars
    BY <1>1 DEF TakePage, PassOf, Fetching
  <1>3. stray \in TaskRows
    BY DEF DownloadInv, Types
  <1>4. StraysOn(t)
    BY <1>1, <1>2, <1>3 DEF TaskRows, StraysOn
  <1> QED BY <1>2, <1>4, StrayKeeps

LEMMA StrayFailsKeeps ==
    ASSUME DownloadInv, NEW p \in Pages, PageFailed("stray", p) PROVE DownloadInv'
  <1>1. PICK full \in BOOLEAN :
            GoOn("stray", [stray EXCEPT !.fetching = @ \ {p}, !.writes = @ + 1,
                                        !.passFailed = TRUE, !.full = @ \/ full,
                                        !.aborted = @ \/ full])
    BY DEF PageFailed, PassOf
  <1>2. stray.pc = "fetch" /\ UNCHANGED dbVars
    BY DEF PageFailed, PassOf, Fetching
  <1>3. stray \in TaskRows
    BY DEF DownloadInv, Types
  <1>4. PICK isFull, isAborted, fetching, writes :
            /\ isFull = (stray.full \/ full) /\ isAborted = (stray.aborted \/ full)
            /\ fetching = stray.fetching \ {p} /\ writes = stray.writes + 1
    OBVIOUS
  <1>5. /\ isFull \in BOOLEAN /\ isAborted \in BOOLEAN
        /\ fetching \in SUBSET Pages /\ writes \in Int
    BY <1>3, <1>4 DEF TaskRows
  <1>6. PICK t : t = [stray EXCEPT !.fetching = fetching, !.writes = writes,
                                   !.passFailed = TRUE, !.full = isFull,
                                   !.aborted = isAborted]
    OBVIOUS
  <1>7. GoOn("stray", t)
    BY <1>1, <1>4, <1>6
  <1>8. StraysOn(t)
    BY <1>2, <1>3, <1>5, <1>6 DEF TaskRows, StraysOn
  <1> QED BY <1>2, <1>7, <1>8, StrayKeeps

LEMMA StrayChecksKeeps ==
    ASSUME DownloadInv, CheckProgress("stray") PROVE DownloadInv'
  <1>1. PICK t, seen : t = [stray EXCEPT !.writing = TRUE, !.checked = seen]
                       /\ seen = row[stray.chapter]
    OBVIOUS
  <1>2. stray.pc = "fetch" /\ GoOn("stray", t) /\ UNCHANGED dbVars
    BY <1>1 DEF CheckProgress, PassOf, Fetching
  <1>3. stray \in TaskRows /\ seen \in Row
    BY <1>1, <1>2 DEF DownloadInv, Types, StrayOK
  <1>4. StraysOn(t)
    BY <1>1, <1>2, <1>3 DEF TaskRows, StraysOn
  <1> QED BY <1>2, <1>4, StrayKeeps

LEMMA StrayWritesKeeps ==
    ASSUME DownloadInv, WriteProgress("stray") \/ WriteIgnored("stray") PROVE DownloadInv'
  <1>1. PICK t, writes, seen :
            /\ t = [stray EXCEPT !.writing = FALSE, !.writes = writes, !.checked = seen]
            /\ writes = stray.writes - 1 /\ seen = NoRow
    OBVIOUS
  <1>2. stray.pc = "fetch" /\ GoOn("stray", t) /\ stored' = stored
    BY <1>1 DEF WriteProgress, WriteIgnored, Written, PassOf, Fetching, dbVars
  <1>3. stray \in TaskRows
    BY DEF DownloadInv, Types
  <1>4. StraysOn(t)
    <2>1. writes \in Int /\ seen \in Row
      BY <1>1, <1>3 DEF TaskRows, NoRow, Row, Status
    <2> QED BY <1>1, <1>2, <1>3, <2>1 DEF TaskRows, StraysOn
  <1>5. CASE WriteProgress("stray") /\ GoesOn(stray.checked)
    <2>1. Upsert(stray.chapter, "downloading", Cardinality(stray.cached))
      BY <1>5 DEF WriteProgress, PassOf
    <2> QED BY <1>2, <1>4, <2>1, StrayUpsertKeeps
  <1>6. CASE WriteIgnored("stray") \/ ~GoesOn(stray.checked)
    <2>1. UNCHANGED dbVars
      BY <1>2, <1>6 DEF WriteProgress, WriteIgnored, PassOf, dbVars
    <2> QED BY <1>2, <1>4, <2>1, StrayKeeps
  <1> QED BY <1>5, <1>6

LEMMA StrayRejectsKeeps ==
    ASSUME DownloadInv, NEW p \in Pages, StrayRejects(p) PROVE DownloadInv'
  <1>1. PICK t, fetching, lost :
            /\ t = [stray EXCEPT !.fetching = fetching, !.lost = lost]
            /\ fetching = stray.fetching \ {p} /\ lost = stray.lost + 1
    OBVIOUS
  <1>2. stray.pc = "fetch" /\ GoOn("stray", t) /\ UNCHANGED dbVars
    BY <1>1 DEF StrayRejects, PassOf, Fetching
  <1>3. stray \in TaskRows
    BY DEF DownloadInv, Types
  <1>4. fetching \in SUBSET Pages /\ lost \in Nat
    BY <1>1, <1>3 DEF TaskRows
  <1>5. StraysOn(t)
    BY <1>1, <1>2, <1>3, <1>4 DEF TaskRows, StraysOn
  <1> QED BY <1>2, <1>5, StrayKeeps

LEMMA StrayEndsKeeps ==
    ASSUME DownloadInv, StrayEnds PROVE DownloadInv'
  <1>1. stray.pc = "fetch" /\ GoOn("stray", NoTask) /\ UNCHANGED dbVars
    BY DEF StrayEnds, PassOf, Fetching
  <1>2. StraysOn(NoTask)
    BY DEF StraysOn
  <1> QED BY <1>1, <1>2, StrayKeeps

(* A worker rejects: the task goes on to its handler, the others stray. *)
LEMMA WorkerRejectsKeeps ==
    ASSUME DownloadInv, NEW p \in Pages, WorkerRejects(p) PROVE DownloadInv'
  <1>1. /\ task.pc = "fetch" /\ task' = Caught(1) /\ stray = NoTask
        /\ \/ stray' = stray /\ abandoned' = abandoned
           \/ stray' = LeftBehind(p) /\ abandoned' = abandoned \cup {task.chapter}
        /\ row' = row /\ queue' = queue /\ stored' = stored
        /\ pump' = pump /\ picked' = picked /\ wake' = wake /\ open' = open /\ call' = call
        /\ halted' = halted /\ torn' = torn
    BY DEF WorkerRejects, At, dbVars, pumpVars
  <1>2. /\ task.chapter \in Chapters /\ task.chapter # None /\ task \in TaskRows
        /\ abandoned \subseteq Chapters /\ stray \in TaskRows
    BY <1>1, TaskThere DEF DownloadInv, Types
  <1>3. /\ GoesOnWith(Caught(1)) /\ task' \in TaskRows /\ task'.chapter = task.chapter
        /\ task'.pc = "catch" /\ task'.fetching = {}
    BY <1>1, CaughtFacts
  <1>4. PICK s, fetching :
            /\ s = [task EXCEPT !.fetching = fetching, !.lost = 1, !.completed = 0, !.attempt = 0,
                                !.seen = NoRow, !.passFailed = FALSE, !.full = FALSE]
            /\ fetching = task.fetching \ {p}
    OBVIOUS
  <1>5. s = LeftBehind(p)
    BY <1>4 DEF LeftBehind
  <1>6. fetching \in SUBSET Pages /\ NoRow \in Row /\ NoRow.completed = 0
    BY <1>2, <1>4 DEF TaskRows, NoRow, Row, Status
  <1>7. /\ s \in TaskRows /\ s.chapter = task.chapter /\ s.pc = "fetch" /\ s.seen = NoRow
        /\ s.completed = 0 /\ s.cached = task.cached
    <2>0. task \in TaskRows /\ fetching \in SUBSET Pages /\ NoRow \in Row
      BY <1>2, <1>6
    <2>1. s \in TaskRows
      <3>1. [task EXCEPT !.fetching = fetching, !.lost = 1, !.completed = 0, !.attempt = 0,
                         !.seen = NoRow, !.passFailed = FALSE, !.full = FALSE] \in TaskRows
        BY <2>0 DEF TaskRows
      <3> QED BY <1>4, <3>1
    <2>2. s.chapter = task.chapter /\ s.pc = task.pc
      BY <1>2, <1>4 DEF TaskRows
    <2>3. s.cached = task.cached
      BY <1>2, <1>4 DEF TaskRows
    <2>4. s.seen = NoRow
      BY <1>2, <1>4 DEF TaskRows
    <2>5. s.completed = 0
      BY <1>2, <1>4 DEF TaskRows
    <2> QED BY <1>1, <2>1, <2>2, <2>3, <2>4, <2>5
  <1>8. Types'
    BY <1>1, <1>2, <1>3, <1>5, <1>7 DEF DownloadInv, Types
  <1>9. Control'
    BY <1>1, <1>2, <1>3 DEF DownloadInv, Control
  <1>10. (StrayOK(stray))'
    BY <1>1, <1>2, <1>5, <1>7 DEF DownloadInv, StrayOK
  <1>11. QueueOK'
    BY <1>1 DEF DownloadInv, QueueOK
  <1>12. HaltedOK'
    <2>1. \A c \in halted' \ abandoned' : c \in halted \ abandoned
      BY <1>1
    <2> QED BY <1>1, <1>3, <2>1 DEF DownloadInv, HaltedOK, GoesOnWith, Halts, BeingCancelled
  <1>13. PagesOK'
    <2>1. ASSUME NEW c \in Chapters \ torn, ~BeingRemoved(c)
          PROVE  TaskKnows(Caught(1), c) /\ TaskKnows(s, c) /\ TaskKnows(stray, c)
      <3>1. TaskKnows(s, c)
        BY <1>1, <1>6, <1>7, <2>1, Knowledge DEF TaskKnows
      <3> QED BY <1>3, <2>1, <3>1 DEF GoesOnWith, DownloadInv, PagesOK
    <2>2. ASSUME NEW c \in Chapters \ torn, ~BeingRemoved(c)
          PROVE  TaskKnows(task', c) /\ TaskKnows(stray', c)
      BY <1>1, <1>5, <2>1, <2>2
    <2> QED BY <1>1, <2>2 DEF DownloadInv, PagesOK, TaskKnows, Known, BeingRemoved
  <1> QED BY <1>8, <1>9, <1>10, <1>11, <1>12, <1>13 DEF DownloadInv

-----------------------------------------------------------------------------
(* The pump, and the app as a whole *)

LEMMA StartKeeps ==
    ASSUME DownloadInv, Start PROVE DownloadInv'
  <1>1. /\ ~open /\ open' = TRUE /\ pump' = "picked" /\ picked' = NextTask(row, queue)
        /\ row' = row /\ queue' = queue /\ stored' = stored /\ wake' = wake
        /\ task' = task /\ call' = call /\ halted' = halted /\ torn' = torn
        /\ stray' = stray /\ abandoned' = abandoned
    BY DEF Start, dbVars, history
  <1>2. task.chapter = None /\ task.pc = "none" /\ \A u \in Callers : call[u].pc = "none"
    BY <1>1 DEF DownloadInv, Control
  <1>3. picked' \in [chapter : Chapters \cup {None}, completed : Nat]
    BY <1>1, NextTaskType DEF DownloadInv, Types, QueueOK
  <1>4. ASSUME NEW c \in Chapters, picked'.chapter = c
        PROVE  row[c].status \in Active /\ picked'.completed = row[c].completed
    BY <1>1, <1>4, NextTaskFrom DEF DownloadInv, QueueOK
  <1>5. Types'
    BY <1>1, <1>3 DEF DownloadInv, Types
  <1>6. Control'
    BY <1>1, <1>2 DEF DownloadInv, Control
  <1>7. QueueOK'
    BY <1>1 DEF DownloadInv, QueueOK
  <1>8. HaltedOK'
    <2>1. \A c \in halted : c \in Chapters /\ c # None
      BY DownloadAssumption DEF DownloadInv, Types
    <2>2. \A c \in halted \ abandoned : row[c].status \notin Active
      BY <1>2, <2>1 DEF DownloadInv, HaltedOK
    <2> QED BY <1>1, <1>2, <1>4, <2>1, <2>2 DEF HaltedOK, Halts
  <1>9. PagesOK'
    BY <1>1, <1>4 DEF DownloadInv, PagesOK, TaskKnows, Known, BeingRemoved
  <1>10. (StrayOK(stray))'
    BY <1>1 DEF DownloadInv, StrayOK
  <1> QED BY <1>5, <1>6, <1>7, <1>8, <1>9, <1>10 DEF DownloadInv

LEMMA CloseKeeps ==
    ASSUME DownloadInv, Close PROVE DownloadInv'
  <1>1. /\ open' = FALSE /\ pump' = "idle" /\ picked' = NothingPicked /\ wake' = FALSE
        /\ task' = NoTask /\ stray' = NoTask /\ call' = [u \in Callers |-> NoCall]
        /\ abandoned' = abandoned
        /\ torn' = torn \cup {c \in Chapters : BeingRemoved(c)}
        /\ halted' = {c \in halted : ~BeingCancelled(c)}
        /\ row' = row /\ queue' = queue /\ stored' = stored
    BY DEF Close, dbVars
  <1>2. \A u \in Callers : call'[u] = NoCall
    BY <1>1
  <1>3. NothingPicked \in [chapter : Chapters \cup {None}, completed : Nat] /\ NothingPicked.chapter = None
    BY DEF NothingPicked
  <1>4. Types'
    BY <1>1, <1>3, NoTaskType, NoCallType DEF DownloadInv, Types
  <1>5. Control'
    BY <1>1, <1>2, <1>3, NoTaskType, NoCallType DEF Control
  <1>6. QueueOK'
    BY <1>1 DEF DownloadInv, QueueOK
  <1>7. HaltedOK'
    <2>1. \A c \in halted : c # None
      BY DownloadAssumption DEF DownloadInv, Types
    <2>2. ASSUME NEW c \in halted \ abandoned, ~BeingCancelled(c) PROVE row[c].status \notin Active
      <3>1. row[c].status \in Active => GoesOn(row[c])
        BY DEF Active, GoesOn
      <3> QED BY <2>2, <3>1 DEF DownloadInv, HaltedOK, Halts, Stopped
    <2> QED BY <1>1, <1>3, <2>1, <2>2, NoTaskType DEF HaltedOK, Halts
  <1>8. PagesOK'
    <2>1. \A c \in Chapters \ torn' : c \notin torn /\ ~BeingRemoved(c) /\ c # None
      BY <1>1, DownloadAssumption
    <2> QED BY <1>1, <1>2, <1>3, <2>1, NoTaskType, NoCallType
        DEF DownloadInv, PagesOK, TaskKnows, Known
  <1>9. (StrayOK(stray))'
    BY <1>1, NoTaskType DEF StrayOK
  <1> QED BY <1>4, <1>5, <1>6, <1>7, <1>8, <1>9 DEF DownloadInv

LEMMA ProcessKeeps ==
    ASSUME DownloadInv, Process PROVE DownloadInv'
  <1>1. PICK t : t = [NoTask EXCEPT !.chapter = picked.chapter, !.pc = "load",
                                    !.completed = picked.completed]
    OBVIOUS
  <1>2. /\ pump = "picked" /\ picked.chapter # None /\ pump' = "busy" /\ task' = t
        /\ picked' = NothingPicked /\ row' = row /\ queue' = queue /\ stored' = stored
        /\ wake' = wake /\ open' = open /\ call' = call /\ halted' = halted /\ torn' = torn
        /\ stray' = stray /\ abandoned' = abandoned
    BY <1>1 DEF Process, dbVars, history
  <1>3. picked.chapter \in Chapters /\ picked.completed \in Nat /\ task.chapter = None
    BY <1>2 DEF DownloadInv, Types, Control
  <1>4. t \in TaskRows
    BY <1>1, <1>3, NoTaskType DEF TaskRows, TaskPlaces
  <1>5. /\ t.chapter = picked.chapter /\ t.pc = "load" /\ t.completed = picked.completed
        /\ t.seen.completed = 0 /\ t.cached = {} /\ t.fetching = {}
    BY <1>1 DEF NoTask, NoRow
  <1>6. NothingPicked \in [chapter : Chapters \cup {None}, completed : Nat] /\ NothingPicked.chapter = None
    BY DEF NothingPicked
  <1>7. Types'
    BY <1>2, <1>4, <1>6 DEF DownloadInv, Types
  <1>8. Control'
    BY <1>2, <1>5, <1>6 DEF DownloadInv, Control
  <1>9. QueueOK'
    BY <1>2 DEF DownloadInv, QueueOK
  <1>10. HaltedOK'
    <2>1. \A c \in halted : c # None
      BY DownloadAssumption DEF DownloadInv, Types
    <2>2. \A c \in halted \ abandoned : row[c].status \notin Active
      BY <1>3, <2>1 DEF DownloadInv, HaltedOK
    <2>3. \A c \in halted \ abandoned : t.chapter = c => ~GoesOn(row[c])
      BY <1>5 DEF DownloadInv, HaltedOK
    <2> QED BY <1>2, <1>5, <1>6, <2>1, <2>2, <2>3 DEF HaltedOK, Halts, Stopped
  <1>11. PagesOK'
    <2>1. \A c \in Chapters : c # None /\ Cardinality(stored[c]) \in Nat
      <3>1. \A c \in Chapters : stored[c] \in SUBSET Pages
        BY DEF DownloadInv, Types
      <3> QED BY <3>1, PageCount, DownloadAssumption
    <2>2. \A c \in Chapters : (BeingRemoved(c))' <=> BeingRemoved(c)
      BY <1>2 DEF BeingRemoved
    <2>3. ASSUME NEW c \in Chapters \ torn, ~BeingRemoved(c) PROVE TaskKnows(t, c)
      <3>1. Known(c, 0)
        BY <2>1 DEF Known
      <3> QED BY <1>5, <2>3, <3>1 DEF DownloadInv, PagesOK, TaskKnows
    <2> QED BY <1>2, <1>6, <2>1, <2>2, <2>3 DEF DownloadInv, PagesOK, TaskKnows, Known
  <1>12. (StrayOK(stray))'
    BY <1>2 DEF DownloadInv, StrayOK
  <1> QED BY <1>7, <1>8, <1>9, <1>10, <1>11, <1>12 DEF DownloadInv

(* The pump has asked and stops, or asks again. *)
LEMMA RestKeeps ==
    ASSUME DownloadInv, Rest \/ PumpFails PROVE DownloadInv'
  <1>1. /\ pump = "picked" /\ wake' = FALSE
        /\ row' = row /\ queue' = queue /\ stored' = stored /\ stray' = stray
        /\ open' = open /\ task' = task /\ call' = call /\ halted' = halted /\ torn' = torn
        /\ abandoned' = abandoned
    BY DEF Rest, PumpFails, StopPump, dbVars, history
  <1>2. \/ pump' = "picked" /\ picked' = NextTask(row, queue)
        \/ /\ pump' \in {"idle", "stopped"} /\ picked'.chapter = None
           /\ picked' \in [chapter : Chapters \cup {None}, completed : Nat]
    BY DEF Rest, PumpFails, StopPump, NothingPicked, DownloadInv, Types
  <1>3. task.chapter = None /\ open
    BY <1>1 DEF DownloadInv, Control
  <1>4. picked' \in [chapter : Chapters \cup {None}, completed : Nat]
    BY <1>2, NextTaskType DEF DownloadInv, Types, QueueOK
  <1>5. ASSUME NEW c \in Chapters, picked'.chapter = c
        PROVE  row[c].status \in Active /\ picked'.completed = row[c].completed
    <2>1. c # None
      BY DownloadAssumption
    <2>2. picked' = NextTask(row, queue)
      BY <1>2, <1>5, <2>1
    <2> QED BY <1>5, <2>2, NextTaskFrom DEF DownloadInv, QueueOK
  <1>6. Types'
    BY <1>1, <1>2, <1>4 DEF DownloadInv, Types
  <1>7. Control'
    BY <1>1, <1>2, <1>3 DEF DownloadInv, Control
  <1>8. QueueOK'
    BY <1>1 DEF DownloadInv, QueueOK
  <1>9. HaltedOK'
    <2>1. \A c \in halted : c \in Chapters /\ c # None
      BY DownloadAssumption DEF DownloadInv, Types
    <2>2. \A c \in halted \ abandoned : row[c].status \notin Active
      BY <1>3, <2>1 DEF DownloadInv, HaltedOK
    <2> QED BY <1>1, <1>3, <1>5, <2>1, <2>2 DEF HaltedOK, Halts
  <1>10. PagesOK'
    BY <1>1, <1>5 DEF DownloadInv, PagesOK, TaskKnows, Known, BeingRemoved
  <1>11. (StrayOK(stray))'
    BY <1>1 DEF DownloadInv, StrayOK
  <1> QED BY <1>6, <1>7, <1>8, <1>9, <1>10, <1>11 DEF DownloadInv

-----------------------------------------------------------------------------
(* Calls of the user *)

(* The task and what is left of its pass, as a call may leave them. *)
AbortedOrNot ==
    \/ task' = task /\ stray' = stray
    \/ task.pc # "none" /\ Abort

LEMMA AbortKeeps ==
    ASSUME Types, StrayOK(stray), AbortedOrNot, abandoned' = abandoned
    PROVE  /\ task' \in TaskRows /\ stray' \in TaskRows
           /\ task'.chapter = task.chapter /\ task'.pc = task.pc /\ task'.seen = task.seen
           /\ task'.fetching = task.fetching /\ task'.result = task.result
           /\ task'.cached = task.cached /\ task'.completed = task.completed
           /\ (StrayOK(stray))'
           /\ stray'.chapter = stray.chapter /\ stray'.pc = stray.pc /\ stray'.seen = stray.seen
           /\ stray'.result = stray.result
           /\ stray'.cached = stray.cached /\ stray'.completed = stray.completed
  <1>1. task \in TaskRows /\ stray \in TaskRows
    BY DEF Types
  <1>2. task' = task \/ task' = [task EXCEPT !.aborted = TRUE]
    BY DEF AbortedOrNot, Abort
  <1>3. stray' = stray \/ stray' = [stray EXCEPT !.aborted = TRUE]
    BY DEF AbortedOrNot, Abort
  <1>4. /\ task' \in TaskRows
        /\ task'.chapter = task.chapter /\ task'.pc = task.pc /\ task'.seen = task.seen
        /\ task'.fetching = task.fetching /\ task'.result = task.result
        /\ task'.cached = task.cached /\ task'.completed = task.completed
    BY <1>1, <1>2 DEF TaskRows
  <1>5. /\ stray' \in TaskRows
        /\ stray'.chapter = stray.chapter /\ stray'.pc = stray.pc /\ stray'.seen = stray.seen
        /\ stray'.result = stray.result
        /\ stray'.cached = stray.cached /\ stray'.completed = stray.completed
    BY <1>1, <1>3 DEF TaskRows
  <1>6. (StrayOK(stray))'
    BY <1>5 DEF StrayOK
  <1> QED BY <1>4, <1>5, <1>6

(* A step of a call that leaves the tables and the pump alone. *)
LEMMA CallKeeps ==
    ASSUME DownloadInv, NEW u \in Callers, NEW next \in CallRows, open,
           next.pc # "none" => next.chapter \in Chapters,
           Calls(u, next), UNCHANGED <<dbVars, pumpVars, history>>, AbortedOrNot,
           call[u].pc # "row",
           call[u].kind = "cancel" /\ call[u].pc \in {"abort", "wait"} =>
                \/ task.chapter # call[u].chapter
                \/ /\ next.kind = "cancel" /\ next.chapter = call[u].chapter
                   /\ next.pc \in {"abort", "wait"},
           \A c \in Chapters \ torn : ~BeingRemoved(c) /\ next.chapter = c /\ next.pc = "write"
                => Known(c, next.seen.completed)
    PROVE  DownloadInv'
  <1>1. /\ call' = [call EXCEPT ![u] = next] /\ open' = open
        /\ pump' = pump /\ picked' = picked /\ wake' = wake
        /\ row' = row /\ queue' = queue /\ stored' = stored
        /\ halted' = halted /\ abandoned' = abandoned /\ torn' = torn
    BY DEF Calls, dbVars, pumpVars, history
  <1>2. /\ call' \in [Callers -> CallRows] /\ call'[u] = next
        /\ \A v \in Callers \ {u} : call'[v] = call[v]
    BY <1>1 DEF DownloadInv, Types
  <1>3. /\ task' \in TaskRows /\ stray' \in TaskRows
        /\ task'.chapter = task.chapter /\ task'.pc = task.pc /\ task'.seen = task.seen
        /\ task'.fetching = task.fetching /\ task'.result = task.result
        /\ task'.cached = task.cached /\ task'.completed = task.completed
        /\ (StrayOK(stray))'
        /\ stray'.chapter = stray.chapter /\ stray'.pc = stray.pc /\ stray'.seen = stray.seen
        /\ stray'.result = stray.result
        /\ stray'.cached = stray.cached /\ stray'.completed = stray.completed
    BY <1>1, AbortKeeps DEF DownloadInv
  <1>4. Types'
    BY <1>1, <1>2, <1>3 DEF DownloadInv, Types
  <1>5. Control'
    BY <1>1, <1>2, <1>3 DEF DownloadInv, Control
  <1>6. QueueOK'
    BY <1>1 DEF DownloadInv, QueueOK
  <1>7. HaltedOK'
    <2>1. ASSUME NEW c \in halted, task.chapter = c, BeingCancelled(c) PROVE (BeingCancelled(c))'
      <3>1. PICK v \in Callers : call[v].kind = "cancel" /\ call[v].chapter = c
                                  /\ call[v].pc \in {"abort", "wait"}
        BY <2>1 DEF BeingCancelled
      <3>2. call'[v].kind = "cancel" /\ call'[v].chapter = c /\ call'[v].pc \in {"abort", "wait"}
        BY <1>2, <2>1, <3>1
      <3> QED BY <3>2 DEF BeingCancelled
    <2> QED BY <1>1, <1>3, <2>1 DEF DownloadInv, HaltedOK, Halts, Running, Stopped
  <1>8. PagesOK'
    <2>1. \A c \in Chapters : BeingRemoved(c) => (BeingRemoved(c))'
      BY <1>2 DEF BeingRemoved
    <2>2. ASSUME NEW c \in Chapters \ torn, ~BeingRemoved(c), NEW v \in Callers,
                 call'[v].chapter = c, call'[v].pc = "write"
          PROVE  Known(c, call'[v].seen.completed)
      BY <1>2, <2>2 DEF DownloadInv, PagesOK
    <2>3. ASSUME NEW c \in Chapters \ torn, ~BeingRemoved(c)
          PROVE  TaskKnows(task', c) /\ TaskKnows(stray', c)
      BY <1>3, <2>3 DEF DownloadInv, PagesOK, TaskKnows
    <2> QED BY <1>1, <2>1, <2>2, <2>3 DEF DownloadInv, PagesOK, TaskKnows, Known
  <1> QED BY <1>3, <1>4, <1>5, <1>6, <1>7, <1>8 DEF DownloadInv

LEMMA BeginKeeps ==
    ASSUME DownloadInv, NEW u \in Callers, NEW c \in Chapters,
           NEW kind \in {"enqueue", "retry", "cancel", "remove"}, Begin(u, kind, c)
    PROVE  DownloadInv'
  <1>1. PICK waits, pc : /\ waits = (kind = "remove" /\ IsCurrent(c))
                         /\ pc = IF waits THEN "wait" ELSE "read"
    OBVIOUS
  <1>2. PICK next : next = [NoCall EXCEPT !.kind = kind, !.chapter = c, !.pc = pc]
    OBVIOUS
  <1>3. /\ open /\ call[u] = NoCall /\ UNCHANGED <<dbVars, pumpVars, history>>
        /\ Calls(u, next)
        /\ IF waits THEN Abort ELSE UNCHANGED <<task, stray>>
    BY <1>1, <1>2 DEF Begin
  <1>4. next \in CallRows /\ next.chapter = c /\ next.pc = pc /\ pc \in {"wait", "read"}
    BY <1>1, <1>2 DEF NoCall, NoRow, CallRows, Row, Status
  <1>5. AbortedOrNot
    <2>1. waits => task.pc # "none"
      <3>1. c # None
        BY DownloadAssumption
      <3> QED BY <1>1, <3>1 DEF IsCurrent, DownloadInv, Control
    <2> QED BY <1>3, <2>1 DEF AbortedOrNot
  <1>6. call[u].pc # "row" /\ call[u].kind # "cancel" /\ next.pc # "write"
    BY <1>3, <1>4, NoCallType
  <1> QED BY <1>3, <1>4, <1>5, <1>6, CallKeeps

(* A call that goes on or ends after it has read. *)
LEMMA EnqueueReadKeeps ==
    ASSUME DownloadInv, NEW u \in Callers, EnqueueRead(u) PROVE DownloadInv'
  <1>1. PICK seen : seen = row[call[u].chapter]
    OBVIOUS
  <1>2. PICK to : to = [call[u] EXCEPT !.pc = "write", !.seen = seen]
    OBVIOUS
  <1>3. /\ call[u].pc = "read" /\ UNCHANGED <<dbVars, pumpVars, task, stray, history>>
    BY DEF EnqueueRead
  <1>4. /\ call[u].chapter \in Chapters /\ open /\ call[u] \in CallRows /\ seen \in Row
    BY <1>1, <1>3, CallThere DEF DownloadInv
  <1>5. /\ to \in CallRows /\ to.chapter = call[u].chapter /\ to.seen = seen
    BY <1>2, <1>4 DEF CallRows
  <1>6. Calls(u, NoCall) \/ Calls(u, to)
    BY <1>1, <1>2 DEF EnqueueRead
  <1>7. PICK next : Calls(u, next) /\ (next = NoCall \/ next = to)
    BY <1>6
  <1>8. next \in CallRows /\ (next.pc # "none" => next.chapter \in Chapters)
    BY <1>4, <1>5, <1>7, NoCallType
  <1>9. AbortedOrNot
    BY <1>3 DEF AbortedOrNot
  <1>10. \A c \in Chapters \ torn : ~BeingRemoved(c) /\ next.chapter = c /\ next.pc = "write"
            => Known(c, next.seen.completed)
    <2>1. next.pc = "write" => next = to
      BY <1>7, NoCallType
    <2> QED BY <1>1, <1>5, <2>1 DEF DownloadInv, PagesOK
  <1> QED BY <1>3, <1>4, <1>7, <1>8, <1>9, <1>10, CallKeeps

LEMMA EnqueueFailsKeeps ==
    ASSUME DownloadInv, NEW u \in Callers, EnqueueFails(u) PROVE DownloadInv'
  <1>1. /\ call[u].pc = "write" /\ Calls(u, NoCall)
        /\ UNCHANGED <<dbVars, pumpVars, task, stray, history>>
    BY DEF EnqueueFails
  <1>2. open
    BY <1>1, CallThere DEF DownloadInv
  <1>3. AbortedOrNot
    BY <1>1 DEF AbortedOrNot
  <1> QED BY <1>1, <1>2, <1>3, NoCallType, CallKeeps

(* Reading the row, or the listing, before a call goes on. *)
LEMMA ReadStepKeeps ==
    ASSUME DownloadInv, NEW u \in Callers, call[u].pc \in {"read", "list"},
           NEW next \in CallRows, next = NoCall \/ next.chapter = call[u].chapter,
           next.pc # "write", Calls(u, next), UNCHANGED <<dbVars, pumpVars, task, stray, history>>
    PROVE  DownloadInv'
  <1>1. open /\ call[u].chapter \in Chapters
    BY CallThere DEF DownloadInv
  <1>2. AbortedOrNot
    BY DEF AbortedOrNot
  <1>3. next.pc # "none" => next.chapter \in Chapters
    BY <1>1, NoCallType
  <1> QED BY <1>1, <1>2, <1>3, CallKeeps

LEMMA CancelReadKeeps ==
    ASSUME DownloadInv, NEW u \in Callers, CancelRead(u) PROVE DownloadInv'
  <1>1. PICK to : to = [call[u] EXCEPT !.pc = "update"]
    OBVIOUS
  <1>2. call[u].pc = "read" /\ UNCHANGED <<dbVars, pumpVars, task, stray, history>>
    BY DEF CancelRead, Busy
  <1>3. call[u] \in CallRows
    BY DEF DownloadInv, Types
  <1>4. to \in CallRows /\ to.chapter = call[u].chapter /\ to.pc = "update"
    BY <1>1, <1>3 DEF CallRows
  <1>5. PICK next : Calls(u, next) /\ (next = NoCall \/ next = to)
    BY <1>1 DEF CancelRead
  <1> QED BY <1>2, <1>4, <1>5, NoCallType, ReadStepKeeps

LEMMA RemoveReadKeeps ==
    ASSUME DownloadInv, NEW u \in Callers, RemoveRead(u) PROVE DownloadInv'
  <1>1. PICK to : to = [call[u] EXCEPT !.pc = "list"]
    OBVIOUS
  <1>2. call[u].pc = "read" /\ UNCHANGED <<dbVars, pumpVars, task, stray, history>>
    BY DEF RemoveRead, Busy
  <1>3. call[u] \in CallRows
    BY DEF DownloadInv, Types
  <1>4. to \in CallRows /\ to.chapter = call[u].chapter /\ to.pc = "list"
    BY <1>1, <1>3 DEF CallRows
  <1>5. PICK next : Calls(u, next) /\ (next = NoCall \/ next = to)
    BY <1>1 DEF RemoveRead
  <1> QED BY <1>2, <1>4, <1>5, NoCallType, ReadStepKeeps

LEMMA RemoveListKeeps ==
    ASSUME DownloadInv, NEW u \in Callers, RemoveList(u) PROVE DownloadInv'
  <1>1. PICK to, listed : /\ to = [call[u] EXCEPT !.pc = "pages", !.listed = listed]
                          /\ listed = stored[call[u].chapter]
    OBVIOUS
  <1>2. /\ call[u].pc = "list" /\ Calls(u, to)
        /\ UNCHANGED <<dbVars, pumpVars, task, stray, history>>
    BY <1>1 DEF RemoveList, Busy
  <1>3. call[u] \in CallRows /\ call[u].chapter \in Chapters
    BY <1>2, CallThere DEF DownloadInv
  <1>4. listed \in SUBSET Pages
    BY <1>1, <1>3 DEF DownloadInv, Types
  <1>5. to \in CallRows /\ to.chapter = call[u].chapter /\ to.pc = "pages"
    BY <1>1, <1>3, <1>4 DEF CallRows
  <1> QED BY <1>2, <1>5, ReadStepKeeps

LEMMA CancelAbortKeeps ==
    ASSUME DownloadInv, NEW u \in Callers, CancelAbort(u) PROVE DownloadInv'
  <1>1. PICK to : to = [call[u] EXCEPT !.pc = "wait"]
    OBVIOUS
  <1>2. /\ call[u].kind = "cancel" /\ call[u].pc = "abort"
        /\ UNCHANGED <<dbVars, pumpVars, history>>
    BY DEF CancelAbort, Busy
  <1>3. call[u] \in CallRows /\ call[u].chapter \in Chapters /\ open
    BY <1>2, CallThere DEF DownloadInv
  <1>4. to \in CallRows /\ to.chapter = call[u].chapter /\ to.pc = "wait" /\ to.kind = call[u].kind
    BY <1>1, <1>3 DEF CallRows
  <1>5. CASE task.chapter = call[u].chapter
    <2>1. Calls(u, to) /\ Abort
      BY <1>1, <1>5 DEF CancelAbort, IsCurrent
    <2>2. AbortedOrNot
      <3>1. call[u].chapter # None
        BY <1>3, DownloadAssumption
      <3> QED BY <1>5, <2>1, <3>1 DEF AbortedOrNot, DownloadInv, Control
    <2> QED BY <1>2, <1>3, <1>4, <2>1, <2>2, CallKeeps
  <1>6. CASE task.chapter # call[u].chapter
    <2>1. Calls(u, NoCall) /\ AbortedOrNot
      BY <1>6 DEF CancelAbort, IsCurrent, AbortedOrNot
    <2> QED BY <1>2, <1>3, <1>6, <2>1, NoCallType, CallKeeps
  <1> QED BY <1>5, <1>6

LEMMA EnqueueWriteKeeps ==
    ASSUME DownloadInv, NEW u \in Callers, EnqueueWrite(u) PROVE DownloadInv'
  <1>1. PICK c, n : c = call[u].chapter /\ n = call[u].seen.completed
    OBVIOUS
  <1>2. /\ call[u].pc = "write" /\ Upsert(c, "queued", n) /\ Pump
        /\ call' = [call EXCEPT ![u] = NoCall] /\ open' = open
        /\ halted' = halted \ {c} /\ stored' = stored /\ task' = task /\ torn' = torn
        /\ abandoned' = Reclaimed(c) /\ stray' = stray
    BY <1>1 DEF EnqueueWrite, Calls
  <1>3. c \in Chapters /\ open /\ call[u] \in CallRows
    BY <1>1, <1>2, CallThere DEF DownloadInv
  <1>4. n \in Nat
    BY <1>1, <1>3 DEF CallRows, Row
  <1>5. /\ QueueOK' /\ row' \in [Chapters -> Row]
        /\ row'[c].status = "queued" /\ row'[c].completed = n
        /\ \A d \in Chapters \ {c} : row'[d] = row[d]
    <2>1. "queued" \in Status \ {"none"}
      BY DEF Status
    <2> QED BY <1>2, <1>3, <1>4, <2>1, UpsertQueue DEF DownloadInv, Types
  <1>6. /\ call' \in [Callers -> CallRows] /\ call'[u] = NoCall
        /\ \A v \in Callers \ {u} : call'[v] = call[v]
    BY <1>2, NoCallType DEF DownloadInv, Types
  <1>7. \/ /\ pump \in {"idle", "stopped"} /\ pump' = "picked" /\ wake' = wake
           /\ picked' = NextTask(row', queue')
        \/ /\ pump \notin {"idle", "stopped"} /\ pump' = pump /\ picked' = picked
           /\ wake' = TRUE
    BY <1>2 DEF Pump
  <1>8. picked' \in [chapter : Chapters \cup {None}, completed : Nat]
    BY <1>5, <1>7, NextTaskType DEF DownloadInv, Types, QueueOK
  <1>9. ASSUME NEW d \in Chapters, picked'.chapter = d, pump \in {"idle", "stopped"}
        PROVE  row'[d].status \in Active /\ picked'.completed = row'[d].completed
    BY <1>5, <1>7, <1>9, NextTaskFrom DEF QueueOK
  <1>10. Types'
    <2>1. abandoned' \subseteq Chapters
      BY <1>2 DEF Reclaimed, DownloadInv, Types
    <2> QED BY <1>2, <1>5, <1>6, <1>7, <1>8, <2>1 DEF DownloadInv, Types
  <1>11. Control'
    <2>1. pump \in {"idle", "stopped"} => task.chapter = None
      BY DEF DownloadInv, Control
    <2>2. \A v \in Callers : call'[v].pc # "none" => call'[v].chapter \in Chapters
      BY <1>6, NoCallType DEF DownloadInv, Control
    <2> QED BY <1>2, <1>3, <1>7, <2>1, <2>2 DEF DownloadInv, Control
  <1>12. HaltedOK'
    <2>1. ASSUME NEW d \in (halted \ {c}) \ abandoned
          PROVE  /\ row'[d].status \in Active => task.chapter = d
                 /\ picked'.chapter = d => ~GoesOn(row'[d])
                 /\ task.chapter = d => /\ row'[d].status \in Active => Running(task)
                                        /\ BeingCancelled(d) \/ Stopped(task, row'[d])
      <3>1. d \in Chapters /\ d # None /\ row'[d] = row[d]
        BY <1>5, DownloadAssumption DEF DownloadInv, Types
      <3>2. /\ row[d].status \in Active => task.chapter = d
            /\ picked.chapter = d => ~GoesOn(row[d])
            /\ Halts(task, d)
        BY DEF DownloadInv, HaltedOK
      <3>3. pump \in {"idle", "stopped"} => task.chapter # d /\ picked'.chapter # d
        <4>1. pump \in {"idle", "stopped"} => task.chapter = None
          BY DEF DownloadInv, Control
        <4> QED BY <1>9, <3>1, <3>2, <4>1
      <3>4. picked'.chapter = d => ~GoesOn(row'[d])
        BY <1>7, <3>1, <3>2, <3>3
      <3> QED BY <3>1, <3>2, <3>4 DEF Halts
    <2>2. ASSUME NEW d \in halted, BeingCancelled(d) PROVE (BeingCancelled(d))'
      <3>1. PICK v \in Callers : call[v].kind = "cancel" /\ call[v].chapter = d
                                  /\ call[v].pc \in {"abort", "wait"}
        BY <2>2 DEF BeingCancelled
      <3>2. call'[v] = call[v]
        BY <1>2, <1>6, <3>1
      <3> QED BY <3>1, <3>2 DEF BeingCancelled
    <2>3. \A d \in halted' \ abandoned' : d \in (halted \ {c}) \ abandoned
      BY <1>2 DEF Reclaimed
    <2> QED BY <1>2, <2>1, <2>2, <2>3 DEF HaltedOK, Halts
  <1>13. PagesOK'
    <2>1. \A d \in Chapters : BeingRemoved(d) => (BeingRemoved(d))'
      <3>1. \A v \in Callers : call[v].pc = "row" => call'[v] = call[v]
        BY <1>2, <1>6
      <3> QED BY <3>1 DEF BeingRemoved
    <2>2. ASSUME NEW d \in Chapters \ torn, ~BeingRemoved(d)
          PROVE  Known(d, row'[d].completed) /\ (row'[d].status = "complete" => stored[d] = Pages)
      <3>1. CASE d = c
        BY <1>1, <1>2, <1>5, <2>2, <3>1 DEF DownloadInv, PagesOK
      <3>2. CASE d # c
        BY <1>5, <2>2, <3>2 DEF DownloadInv, PagesOK
      <3> QED BY <3>1, <3>2
    <2>3. ASSUME NEW d \in Chapters \ torn, ~BeingRemoved(d), picked'.chapter = d
          PROVE  Known(d, picked'.completed)
      <3>1. CASE pump \in {"idle", "stopped"}
        BY <1>9, <2>2, <2>3, <3>1
      <3>2. CASE pump \notin {"idle", "stopped"}
        BY <1>7, <2>3, <3>2 DEF DownloadInv, PagesOK
      <3> QED BY <3>1, <3>2
    <2>4. ASSUME NEW d \in Chapters \ torn, ~BeingRemoved(d), NEW v \in Callers,
                 call'[v].chapter = d, call'[v].pc = "write"
          PROVE  Known(d, call'[v].seen.completed)
      BY <1>6, <2>4, NoCallType DEF DownloadInv, PagesOK
    <2>5. ASSUME NEW d \in Chapters \ torn, ~BeingRemoved(d)
          PROVE  TaskKnows(task, d) /\ TaskKnows(stray, d)
      BY <2>5 DEF DownloadInv, PagesOK
    <2> QED BY <1>2, <2>1, <2>2, <2>3, <2>4, <2>5 DEF PagesOK, TaskKnows, Known
  <1>14. (StrayOK(stray))'
    BY <1>2 DEF DownloadInv, StrayOK, Reclaimed
  <1> QED BY <1>5, <1>10, <1>11, <1>12, <1>13, <1>14 DEF DownloadInv

LEMMA CancelUpdateKeeps ==
    ASSUME DownloadInv, NEW u \in Callers, CancelUpdate(u) PROVE DownloadInv'
  <1>1. PICK c, to : c = call[u].chapter /\ to = [call[u] EXCEPT !.pc = "abort"]
    OBVIOUS
  <1>2. /\ call[u].kind = "cancel" /\ call[u].pc = "update"
        /\ row' = IF row[c] = NoRow THEN row ELSE [row EXCEPT ![c].status = "cancelled"]
        /\ call' = [call EXCEPT ![u] = to] /\ open' = open
        /\ halted' = halted \cup {c} /\ queue' = queue /\ stored' = stored
        /\ pump' = pump /\ picked' = picked /\ wake' = wake /\ task' = task /\ torn' = torn
        /\ abandoned' = Reclaimed(c) /\ stray' = stray
    BY <1>1 DEF CancelUpdate, Busy, Calls, pumpVars
  <1>3. c \in Chapters /\ open /\ call[u] \in CallRows /\ row[c] \in Row
    BY <1>1, <1>2, CallThere DEF DownloadInv
  <1>4. /\ to \in CallRows /\ to.chapter = c /\ to.pc = "abort" /\ to.kind = "cancel"
    BY <1>1, <1>2, <1>3 DEF CallRows
  <1>5. /\ call' \in [Callers -> CallRows] /\ call'[u] = to
        /\ \A v \in Callers \ {u} : call'[v] = call[v]
    BY <1>2, <1>4 DEF DownloadInv, Types
  <1>6. /\ row' \in [Chapters -> Row]
        /\ \A d \in Chapters \ {c} : row'[d] = row[d]
        /\ row'[c] = NoRow <=> row[c] = NoRow
        /\ row'[c].status \in {"none", "cancelled"} \/ row'[c] = NoRow
        /\ row'[c].completed = row[c].completed
    <2>1. row \in [Chapters -> Row]
      BY DEF DownloadInv, Types
    <2>2. CASE row[c] = NoRow
      BY <1>2, <2>1, <2>2
    <2>3. CASE row[c] # NoRow
      <3>1. PICK new : new = [row[c] EXCEPT !.status = "cancelled"]
        OBVIOUS
      <3>2. new \in Row /\ new # NoRow /\ new.status = "cancelled" /\ new.completed = row[c].completed
        BY <1>3, <3>1 DEF Row, NoRow, Status
      <3>3. row' = [row EXCEPT ![c] = new]
        BY <1>2, <2>3, <3>1
      <3> QED BY <1>3, <2>1, <2>3, <3>2, <3>3
    <2> QED BY <2>2, <2>3
  <1>7. row'[c].status \notin Active /\ row'[c].status # "complete" /\ ~GoesOn(row'[c])
    BY <1>6 DEF NoRow, Active, GoesOn
  <1>8. Types'
    <2>1. abandoned' \subseteq Chapters
      BY <1>2 DEF Reclaimed, DownloadInv, Types
    <2> QED BY <1>2, <1>3, <1>5, <1>6, <2>1 DEF DownloadInv, Types
  <1>9. Control'
    BY <1>2, <1>3, <1>4, <1>5 DEF DownloadInv, Control
  <1>10. QueueOK'
    <2>1. \A d \in Chapters : row'[d] = NoRow <=> row[d] = NoRow
      BY <1>6
    <2>2. \A i \in DOMAIN queue : queue[i] \in Chapters
      BY DEF DownloadInv, QueueOK
    <2> QED BY <1>2, <2>1, <2>2 DEF DownloadInv, QueueOK
  <1>11. HaltedOK'
    <2>1. (BeingCancelled(c))'
      BY <1>4, <1>5 DEF BeingCancelled
    <2>2. ASSUME NEW d \in (halted \ {c}) \ abandoned
          PROVE  /\ row'[d].status \in Active => task.chapter = d
                 /\ picked.chapter = d => ~GoesOn(row'[d])
                 /\ task.chapter = d => /\ row'[d].status \in Active => Running(task)
                                        /\ BeingCancelled(d) \/ Stopped(task, row'[d])
      <3>1. d \in Chapters /\ row'[d] = row[d]
        BY <1>6 DEF DownloadInv, Types
      <3> QED BY <3>1 DEF DownloadInv, HaltedOK, Halts
    <2>3. ASSUME NEW d \in halted, BeingCancelled(d) PROVE (BeingCancelled(d))'
      <3>1. PICK v \in Callers : call[v].kind = "cancel" /\ call[v].chapter = d
                                  /\ call[v].pc \in {"abort", "wait"}
        BY <2>3 DEF BeingCancelled
      <3>2. call'[v] = call[v]
        BY <1>2, <1>5, <3>1
      <3> QED BY <3>1, <3>2 DEF BeingCancelled
    <2>4. \A d \in halted' \ abandoned' : d = c \/ d \in (halted \ {c}) \ abandoned
      BY <1>2 DEF Reclaimed
    <2> QED BY <1>2, <1>7, <2>1, <2>2, <2>3, <2>4 DEF HaltedOK, Halts
  <1>12. PagesOK'
    <2>1. \A d \in Chapters : BeingRemoved(d) => (BeingRemoved(d))'
      <3>1. \A v \in Callers : call[v].pc = "row" => call'[v] = call[v]
        BY <1>2, <1>5
      <3> QED BY <3>1 DEF BeingRemoved
    <2>2. ASSUME NEW d \in Chapters \ torn, ~BeingRemoved(d)
          PROVE  Known(d, row'[d].completed) /\ (row'[d].status = "complete" => stored[d] = Pages)
      <3>1. CASE d = c
        BY <1>6, <1>7, <2>2, <3>1 DEF DownloadInv, PagesOK
      <3>2. CASE d # c
        BY <1>6, <2>2, <3>2 DEF DownloadInv, PagesOK
      <3> QED BY <3>1, <3>2
    <2>3. ASSUME NEW d \in Chapters \ torn, ~BeingRemoved(d), NEW v \in Callers,
                 call'[v].chapter = d, call'[v].pc = "write"
          PROVE  Known(d, call'[v].seen.completed)
      BY <1>4, <1>5, <2>3 DEF DownloadInv, PagesOK
    <2>4. ASSUME NEW d \in Chapters \ torn, ~BeingRemoved(d)
          PROVE  /\ TaskKnows(task, d) /\ TaskKnows(stray, d)
                 /\ picked.chapter = d => Known(d, picked.completed)
      BY <2>4 DEF DownloadInv, PagesOK
    <2> QED BY <1>2, <2>1, <2>2, <2>3, <2>4 DEF PagesOK, TaskKnows, Known
  <1>13. (StrayOK(stray))'
    BY <1>2 DEF DownloadInv, StrayOK, Reclaimed
  <1> QED BY <1>8, <1>9, <1>10, <1>11, <1>12, <1>13 DEF DownloadInv

LEMMA RemovePagesKeeps ==
    ASSUME DownloadInv, NEW u \in Callers, RemovePages(u) PROVE DownloadInv'
  <1>1. PICK c, to : c = call[u].chapter /\ to = [call[u] EXCEPT !.pc = "row", !.listed = {}]
    OBVIOUS
  <1>2. /\ call[u].pc = "pages" /\ stored' = [stored EXCEPT ![c] = @ \ call[u].listed]
        /\ call' = [call EXCEPT ![u] = to] /\ open' = open /\ halted' = halted
        /\ torn' = IF Overlapped(u, c) THEN torn \cup {c} ELSE torn
        /\ row' = row /\ queue' = queue
        /\ pump' = pump /\ picked' = picked /\ wake' = wake /\ task' = task
        /\ abandoned' = abandoned /\ stray' = stray
    BY <1>1 DEF RemovePages, Busy, Calls, pumpVars
  <1>3. c \in Chapters /\ open /\ call[u] \in CallRows
    BY <1>1, <1>2, CallThere DEF DownloadInv
  <1>4. to \in CallRows /\ to.chapter = c /\ to.pc = "row"
    BY <1>1, <1>3 DEF CallRows
  <1>5. /\ call' \in [Callers -> CallRows] /\ call'[u] = to
        /\ \A v \in Callers \ {u} : call'[v] = call[v]
    BY <1>2, <1>4 DEF DownloadInv, Types
  <1>6. /\ stored' \in [Chapters -> SUBSET Pages]
        /\ \A d \in Chapters \ {c} : stored'[d] = stored[d]
    BY <1>2, <1>3 DEF DownloadInv, Types
  <1>7. Types'
    BY <1>2, <1>3, <1>5, <1>6 DEF DownloadInv, Types
  <1>8. Control'
    BY <1>2, <1>3, <1>4, <1>5 DEF DownloadInv, Control
  <1>9. QueueOK'
    BY <1>2 DEF DownloadInv, QueueOK
  <1>10. HaltedOK'
    <2>1. ASSUME NEW d \in halted, BeingCancelled(d) PROVE (BeingCancelled(d))'
      <3>1. PICK v \in Callers : call[v].kind = "cancel" /\ call[v].chapter = d
                                  /\ call[v].pc \in {"abort", "wait"}
        BY <2>1 DEF BeingCancelled
      <3>2. call'[v] = call[v]
        BY <1>2, <1>5, <3>1
      <3> QED BY <3>1, <3>2 DEF BeingCancelled
    <2> QED BY <1>2, <2>1 DEF DownloadInv, HaltedOK, Halts
  <1>11. PagesOK'
    <2>1. (BeingRemoved(c))'
      BY <1>4, <1>5 DEF BeingRemoved
    <2>2. \A d \in Chapters : BeingRemoved(d) => (BeingRemoved(d))'
      <3>1. \A v \in Callers : call[v].pc = "row" => call'[v] = call[v]
        BY <1>2, <1>5
      <3> QED BY <3>1 DEF BeingRemoved
    <2>3. ASSUME NEW d \in Chapters \ torn', ~(BeingRemoved(d))'
          PROVE  d \in Chapters \ torn /\ ~BeingRemoved(d) /\ d # c /\ stored'[d] = stored[d]
      BY <1>2, <1>6, <2>1, <2>2, <2>3
    <2>4. \A v \in Callers : call'[v].pc = "write" => call'[v] = call[v]
      BY <1>4, <1>5
    <2>5. ASSUME NEW d \in Chapters \ torn, ~BeingRemoved(d), stored'[d] = stored[d]
          PROVE  /\ (Known(d, row[d].completed))'
                 /\ row[d].status = "complete" => stored'[d] = Pages
                 /\ picked.chapter = d => (Known(d, picked.completed))'
                 /\ (TaskKnows(task, d))' /\ (TaskKnows(stray, d))'
                 /\ \A v \in Callers : call[v].chapter = d /\ call[v].pc = "write"
                                         => Cardinality(stored'[d]) >= call[v].seen.completed
      BY <1>2, <2>5 DEF DownloadInv, PagesOK, TaskKnows, Known
    <2> QED BY <1>2, <2>3, <2>4, <2>5 DEF PagesOK, TaskKnows, Known
  <1>12. (StrayOK(stray))'
    BY <1>2 DEF DownloadInv, StrayOK
  <1> QED BY <1>7, <1>8, <1>9, <1>10, <1>11, <1>12 DEF DownloadInv

LEMMA RemoveRowKeeps ==
    ASSUME DownloadInv, NEW u \in Callers, RemoveRow(u) PROVE DownloadInv'
  <1>1. PICK c : c = call[u].chapter
    OBVIOUS
  <1>2. /\ call[u].kind = "remove" /\ call[u].pc = "row"
        /\ row' = [row EXCEPT ![c] = NoRow] /\ queue' = Without(queue, c)
        /\ call' = [call EXCEPT ![u] = NoCall] /\ open' = open
        /\ torn' = IF Overlapped(u, c) THEN torn \cup {c} ELSE torn \ {c}
        /\ halted' = halted /\ abandoned' = abandoned /\ stored' = stored
        /\ pump' = pump /\ picked' = picked /\ wake' = wake /\ task' = task /\ stray' = stray
    BY <1>1 DEF RemoveRow, Busy, Calls, pumpVars
  <1>3. c \in Chapters /\ open /\ call[u] \in CallRows
    BY <1>1, <1>2, CallThere DEF DownloadInv
  <1>4. /\ call' \in [Callers -> CallRows] /\ call'[u] = NoCall
        /\ \A v \in Callers \ {u} : call'[v] = call[v]
    BY <1>2, NoCallType DEF DownloadInv, Types
  <1>5. NoRow \in Row /\ NoRow.completed = 0 /\ NoRow.status = "none"
    BY DEF NoRow, Row, Status
  <1>6. /\ row' \in [Chapters -> Row] /\ row'[c] = NoRow
        /\ \A d \in Chapters \ {c} : row'[d] = row[d]
    BY <1>2, <1>3, <1>5 DEF DownloadInv, Types
  <1>7. QueueOK'
    BY <1>2, <1>3, WithoutQueue DEF DownloadInv, Types
  <1>8. Types'
    BY <1>2, <1>3, <1>4, <1>6 DEF DownloadInv, Types
  <1>9. Control'
    BY <1>2, <1>3, <1>4, NoCallType DEF DownloadInv, Control
  <1>10. HaltedOK'
    <2>1. ASSUME NEW d \in halted, BeingCancelled(d) PROVE (BeingCancelled(d))'
      <3>1. PICK v \in Callers : call[v].kind = "cancel" /\ call[v].chapter = d
                                  /\ call[v].pc \in {"abort", "wait"}
        BY <2>1 DEF BeingCancelled
      <3>2. call'[v] = call[v]
        BY <1>2, <1>4, <3>1
      <3> QED BY <3>1, <3>2 DEF BeingCancelled
    <2>2. row'[c].status \notin Active /\ ~GoesOn(row'[c])
      BY <1>5, <1>6 DEF Active, GoesOn
    <2>3. ASSUME NEW d \in halted \ abandoned
          PROVE  /\ row'[d].status \in Active => task.chapter = d
                 /\ picked.chapter = d => ~GoesOn(row'[d])
                 /\ task.chapter = d => /\ row'[d].status \in Active => Running(task)
                                        /\ BeingCancelled(d) \/ Stopped(task, row'[d])
      <3>1. d \in Chapters
        BY DEF DownloadInv, Types
      <3>2. CASE d = c
        BY <2>2, <3>2 DEF DownloadInv, HaltedOK, Halts, Stopped
      <3>3. CASE d # c
        BY <1>6, <3>1, <3>3 DEF DownloadInv, HaltedOK, Halts
      <3> QED BY <3>2, <3>3
    <2> QED BY <1>2, <2>1, <2>3 DEF HaltedOK, Halts
  <1>11. PagesOK'
    <2>1. ASSUME NEW d \in Chapters \ torn', ~(BeingRemoved(d))', d # c
          PROVE  d \in Chapters \ torn /\ ~BeingRemoved(d)
      <3>1. \A v \in Callers : call[v].pc = "row" /\ call[v].chapter = d => call'[v] = call[v]
        BY <1>1, <1>2, <1>4, <2>1
      <3>2. BeingRemoved(d) => (BeingRemoved(d))'
        BY <3>1 DEF BeingRemoved
      <3> QED BY <1>2, <2>1, <3>2
    <2>2. \A v \in Callers : call'[v].pc = "write" => v # u /\ call'[v] = call[v]
      BY <1>4, NoCallType
    <2>3. Cardinality(stored[c]) \in Nat
      <3>1. stored[c] \in SUBSET Pages
        BY <1>3 DEF DownloadInv, Types
      <3> QED BY <3>1, PageCount
    <2>4. ASSUME c \notin torn'
          PROVE  /\ Known(c, row'[c].completed) /\ row'[c].status # "complete"
                 /\ picked.chapter # c /\ task.chapter # c /\ stray.chapter # c
                 /\ \A v \in Callers : ~(call'[v].chapter = c /\ call'[v].pc = "write")
      <3>1. ~Overlapped(u, c)
        BY <1>2, <2>4
      <3>2. /\ picked.chapter # c /\ task.chapter # c /\ stray.chapter # c
            /\ \A v \in Callers \ {u} : ~(call[v].chapter = c /\ call[v].pc = "write")
        BY <3>1 DEF Overlapped, IsCurrent
      <3>3. \A v \in Callers : ~(call'[v].chapter = c /\ call'[v].pc = "write")
        BY <2>2, <3>2
      <3> QED BY <1>5, <1>6, <2>3, <3>2, <3>3 DEF Known
    <2>5. ASSUME NEW d \in Chapters \ torn', ~(BeingRemoved(d))', d # c
          PROVE  /\ Known(d, row'[d].completed)
                 /\ row'[d].status = "complete" => stored[d] = Pages
                 /\ picked.chapter = d => Known(d, picked.completed)
                 /\ TaskKnows(task, d) /\ TaskKnows(stray, d)
                 /\ \A v \in Callers : call'[v].chapter = d /\ call'[v].pc = "write"
                                         => Known(d, call'[v].seen.completed)
      BY <1>6, <2>1, <2>2, <2>5 DEF DownloadInv, PagesOK
    <2>6. ASSUME NEW d \in Chapters \ torn', ~(BeingRemoved(d))'
          PROVE  /\ Known(d, row'[d].completed)
                 /\ row'[d].status = "complete" => stored[d] = Pages
                 /\ picked.chapter = d => Known(d, picked.completed)
                 /\ TaskKnows(task, d) /\ TaskKnows(stray, d)
                 /\ \A v \in Callers : call'[v].chapter = d /\ call'[v].pc = "write"
                                         => Known(d, call'[v].seen.completed)
      <3>1. CASE d = c
        BY <2>4, <2>6, <3>1 DEF TaskKnows
      <3>2. CASE d # c
        BY <2>5, <2>6, <3>2
      <3> QED BY <3>1, <3>2
    <2> QED BY <1>2, <2>6 DEF PagesOK, TaskKnows, Known
  <1>12. (StrayOK(stray))'
    BY <1>2 DEF DownloadInv, StrayOK
  <1> QED BY <1>7, <1>8, <1>9, <1>10, <1>11, <1>12 DEF DownloadInv

(* A call that fails and leaves a removal unfinished, or nothing changed. *)
LEMMA CallFailsKeeps ==
    ASSUME DownloadInv, NEW u \in Callers, CallFails(u) PROVE DownloadInv'
  <1>1. PICK c : c = call[u].chapter
    OBVIOUS
  <1>2. /\ call[u].pc \in {"read", "update", "list", "pages", "row"}
        /\ call' = [call EXCEPT ![u] = NoCall]
        /\ torn' = IF call[u].pc \in {"pages", "row"} THEN torn \cup {c} ELSE torn
        /\ row' = row /\ queue' = queue /\ open' = open
        /\ pump' = pump /\ picked' = picked /\ wake' = wake /\ task' = task /\ stray' = stray
        /\ halted' = halted /\ abandoned' = abandoned
    BY <1>1 DEF CallFails, pumpVars
  <1>3. c \in Chapters /\ open /\ call[u] \in CallRows
    BY <1>1, <1>2, CallThere DEF DownloadInv
  <1>4. /\ call' \in [Callers -> CallRows] /\ call'[u] = NoCall
        /\ \A v \in Callers \ {u} : call'[v] = call[v]
    BY <1>2, NoCallType DEF DownloadInv, Types
  <1>5. /\ stored' \in [Chapters -> SUBSET Pages]
        /\ \A d \in Chapters : stored'[d] = stored[d] \/ (d = c /\ call[u].pc = "pages")
    <2>1. stored \in [Chapters -> SUBSET Pages]
      BY DEF DownloadInv, Types
    <2>2. CASE call[u].pc = "pages"
      <3>1. PICK gone : stored' = [stored EXCEPT ![c] = @ \ gone]
        BY <1>1, <2>2 DEF CallFails
      <3> QED BY <1>3, <2>1, <2>2, <3>1
    <2>3. CASE call[u].pc # "pages"
      <3>1. stored' = stored
        BY <2>3 DEF CallFails
      <3> QED BY <2>1, <3>1
    <2> QED BY <2>2, <2>3
  <1>6. Types'
    BY <1>2, <1>3, <1>4, <1>5 DEF DownloadInv, Types
  <1>7. Control'
    BY <1>2, <1>3, <1>4, NoCallType DEF DownloadInv, Control
  <1>8. QueueOK'
    BY <1>2 DEF DownloadInv, QueueOK
  <1>9. HaltedOK'
    <2>1. ASSUME NEW d \in halted, BeingCancelled(d) PROVE (BeingCancelled(d))'
      <3>1. PICK v \in Callers : call[v].kind = "cancel" /\ call[v].chapter = d
                                  /\ call[v].pc \in {"abort", "wait"}
        BY <2>1 DEF BeingCancelled
      <3>2. call'[v] = call[v]
        BY <1>2, <1>4, <3>1
      <3> QED BY <3>1, <3>2 DEF BeingCancelled
    <2> QED BY <1>2, <2>1 DEF DownloadInv, HaltedOK, Halts
  <1>10. PagesOK'
    <2>1. ASSUME NEW d \in Chapters \ torn', ~(BeingRemoved(d))'
          PROVE  d \in Chapters \ torn /\ ~BeingRemoved(d) /\ stored'[d] = stored[d]
      <3>1. d \in Chapters \ torn /\ (call[u].pc \in {"pages", "row"} => d # c)
        BY <1>2, <2>1
      <3>2. stored'[d] = stored[d]
        BY <1>5, <3>1
      <3>3. \A v \in Callers : call[v].pc = "row" /\ call[v].chapter = d => call'[v] = call[v]
        BY <1>1, <1>4, <3>1
      <3>4. BeingRemoved(d) => (BeingRemoved(d))'
        BY <3>3 DEF BeingRemoved
      <3> QED BY <2>1, <3>1, <3>2, <3>4
    <2>2. \A v \in Callers : call'[v].pc = "write" => call'[v] = call[v]
      BY <1>4, NoCallType
    <2>3. ASSUME NEW d \in Chapters \ torn, ~BeingRemoved(d), stored'[d] = stored[d]
          PROVE  /\ (Known(d, row[d].completed))'
                 /\ row[d].status = "complete" => stored'[d] = Pages
                 /\ picked.chapter = d => (Known(d, picked.completed))'
                 /\ (TaskKnows(task, d))' /\ (TaskKnows(stray, d))'
                 /\ \A v \in Callers : call[v].chapter = d /\ call[v].pc = "write"
                                         => Cardinality(stored'[d]) >= call[v].seen.completed
      BY <1>2, <2>3 DEF DownloadInv, PagesOK, TaskKnows, Known
    <2> QED BY <1>2, <2>1, <2>2, <2>3 DEF PagesOK, TaskKnows, Known
  <1>11. (StrayOK(stray))'
    BY <1>2 DEF DownloadInv, StrayOK
  <1> QED BY <1>6, <1>7, <1>8, <1>9, <1>10, <1>11 DEF DownloadInv

-----------------------------------------------------------------------------
(* The theorems *)

LEMMA TaskStepKeeps ==
    ASSUME DownloadInv, TaskStep PROVE DownloadInv'
  <1>1. CASE PassStep("task")
    <2>1. "task" \in Passes
      BY DEF Passes
    <2> QED BY <1>1, <2>1, CheckProgressKeeps, WriteProgressKeeps, TakePageKeeps,
               PageStoredKeeps, PageFailedKeeps DEF PassStep
  <1>2. CASE ~PassStep("task")
    BY <1>2, LoadAbortedKeeps, LoadPagesKeeps, LoadNothingKeeps, MarkStartKeeps,
       ListCachedKeeps, StartPassKeeps, EndPassKeeps, SettleKeeps, FinishKeeps,
       RunThrowsKeeps, CatchKeeps
       DEF TaskStep
  <1> QED BY <1>1, <1>2

LEMMA StrayStepKeeps ==
    ASSUME DownloadInv, StrayStep PROVE DownloadInv'
  <1>1. "stray" \in Passes
    BY DEF Passes
  <1> QED BY <1>1, StrayChecksKeeps, StrayWritesKeeps, StrayTakesKeeps, PageStoredKeeps,
             StrayFailsKeeps, StrayRejectsKeeps, StrayEndsKeeps DEF StrayStep, PassStep

LEMMA CallStepKeeps ==
    ASSUME DownloadInv, NEW u \in Callers, CallStep(u) PROVE DownloadInv'
  BY EnqueueReadKeeps, EnqueueFailsKeeps, EnqueueWriteKeeps, CancelReadKeeps,
     CancelUpdateKeeps, CancelAbortKeeps, RemoveReadKeeps, RemoveListKeeps,
     RemovePagesKeeps, RemoveRowKeeps
     DEF CallStep

LEMMA StutterKeeps ==
    ASSUME DownloadInv, UNCHANGED vars PROVE DownloadInv'
  <1>1. /\ row' = row /\ queue' = queue /\ stored' = stored /\ open' = open
        /\ pump' = pump /\ picked' = picked /\ wake' = wake /\ task' = task /\ call' = call
        /\ halted' = halted /\ torn' = torn /\ abandoned' = abandoned /\ stray' = stray
    BY DEF vars, dbVars, pumpVars, history
  <1>2. Types'
    BY <1>1 DEF DownloadInv, Types
  <1>3. Control'
    BY <1>1 DEF DownloadInv, Control
  <1>4. QueueOK'
    BY <1>1 DEF DownloadInv, QueueOK
  <1>5. HaltedOK'
    BY <1>1 DEF DownloadInv, HaltedOK, Halts, BeingCancelled
  <1>6. PagesOK'
    BY <1>1 DEF DownloadInv, PagesOK, TaskKnows, Known, BeingRemoved
  <1>7. (StrayOK(stray))'
    BY <1>1 DEF DownloadInv, StrayOK
  <1> QED BY <1>2, <1>3, <1>4, <1>5, <1>6, <1>7 DEF DownloadInv

LEMMA DownloadStep ==
    ASSUME DownloadInv, [Next]_vars PROVE DownloadInv'
  <1>1. CASE Start \/ Close \/ Process \/ Rest \/ PumpFails
    BY <1>1, StartKeeps, CloseKeeps, ProcessKeeps, RestKeeps
  <1>2. CASE TaskStep \/ CatchThrows \/ StrayStep \/ \E p \in Pages : WorkerRejects(p)
    BY <1>2, TaskStepKeeps, CatchThrowsKeeps, StrayStepKeeps, WorkerRejectsKeeps
  <1>3. CASE \E u \in Callers :
                \/ CallStep(u) \/ CallFails(u)
                \/ \E kind \in {"enqueue", "retry", "cancel", "remove"}, c \in Chapters :
                     Begin(u, kind, c)
    BY <1>3, CallStepKeeps, CallFailsKeeps, BeginKeeps
  <1>4. CASE UNCHANGED vars
    BY <1>4, StutterKeeps
  <1> QED BY <1>1, <1>2, <1>3, <1>4 DEF Next

LEMMA DownloadInvariant == Spec => []DownloadInv
  <1>1. DownloadInv /\ [Next]_vars => DownloadInv'
    BY DownloadStep
  <1> QED BY <1>1, DownloadInit, PTL DEF Spec

(***************************************************************************)
(* The rows of the downloads table, the pump, the task and the calls have  *)
(* their types in every reachable state, and the queue lists every row     *)
(* exactly once (downloads.ts, download-engine.ts).                        *)
(***************************************************************************)
THEOREM DownloadTypeSafe == Spec => []TypeOK
  <1>1. DownloadInv => TypeOK
    <2> SUFFICES ASSUME DownloadInv PROVE TypeOK
      OBVIOUS
    <2>1. {queue[i] : i \in DOMAIN queue} = {c \in Chapters : row[c] # NoRow}
      BY DEF DownloadInv, QueueOK
    <2>2. /\ task.chapter \in Chapters \cup {None}
          /\ task.fetching \subseteq Pages /\ task.cached \subseteq Pages
          /\ task.seen \in Row /\ task.checked \in Row
      BY DEF DownloadInv, Types, TaskRows
    <2>5. /\ stray.chapter \in Chapters \cup {None} /\ stray.checked \in Row
          /\ stray.pc = IF stray.chapter = None THEN "none" ELSE "fetch"
          /\ stray.fetching \subseteq Pages /\ stray.cached \subseteq Pages
      BY DEF DownloadInv, Types, TaskRows, StrayOK
    <2>3. \A u \in Callers : call[u].chapter \in Chapters \cup {None}
      BY DEF DownloadInv, Types, CallRows
    <2>4. /\ task.chapter = None <=> task.pc = "none"
          /\ pump = "busy" <=> task.chapter # None
      BY DEF DownloadInv, Control
    <2> QED BY <2>1, <2>2, <2>3, <2>4, <2>5 DEF DownloadInv, Types, QueueOK, TypeOK
  <1> QED BY <1>1, DownloadInvariant, PTL

(***************************************************************************)
(* A cancel that has returned is final until the chapter is queued again:  *)
(* for any number of chapters, overlapping calls, closes and failures the  *)
(* row is not active and none of its pages is fetched (cancel), unless the *)
(* error handler of process failed for the chapter or a rejecting worker   *)
(* left others of its pass at work, and it was not cancelled or queued     *)
(* after that.                                                             *)
(***************************************************************************)
THEOREM CancelTheorem == Spec => []CancelIsFinal
  <1>1. DownloadInv => CancelIsFinal
    <2> SUFFICES ASSUME DownloadInv, NEW c \in halted \ abandoned,
                        ~BeingCancelled(c)
                 PROVE  /\ row[c].status \notin Active
                        /\ task.chapter = c => task.fetching = {}
      BY DEF CancelIsFinal
    <2>1. /\ row[c].status \in Active => task.chapter = c
          /\ task.chapter = c => Stopped(task, row[c])
      BY DEF DownloadInv, HaltedOK, Halts
    <2>2. row[c].status \in Active => GoesOn(row[c])
      BY DEF Active, GoesOn
    <2> QED BY <2>1, <2>2 DEF Stopped, DownloadInv, Control
  <1> QED BY <1>1, DownloadInvariant, PTL

(***************************************************************************)
(* The row of a chapter never promises more pages than are stored, and     *)
(* "complete" only when all are (persistProgress, finish, remove).         *)
(* Excepted is a chapter between the two deletions of its removal, and one *)
(* whose removal failed midway, was cut off or met an activity that had    *)
(* read the chapter before, up to a removal on its own or a download that  *)
(* finishes with what is stored.                                           *)
(***************************************************************************)
THEOREM RowMatchesTheorem == Spec => []RowMatchesPages
  <1>1. DownloadInv => RowMatchesPages
    BY DEF DownloadInv, PagesOK, Known, RowMatchesPages
  <1> QED BY <1>1, DownloadInvariant, PTL

=============================================================================
