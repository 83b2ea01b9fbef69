---------------------------- MODULE PageStoreProofs ----------------------------
(***************************************************************************)
(* Proofs about PageStore, for any number of puts, listings, failures and  *)
(* crashes.  What the first task of the queue has done so far fixes what   *)
(* the files may be: its sidecar is gone before its bytes are touched, and *)
(* a listing deletes only what its task has found without a sidecar, or    *)
(* with one that cannot be served, or has failed to look at.               *)
(***************************************************************************)
EXTENDS PageStore, TLAPS

Tasks == [kind : Kinds, of : Puts \cup {NoFile} \cup Lists]

Listings ==
    [pc : {"idle", "reap", "sidecar", "check", "failed", "done"},
     left : SUBSET (Temps \cup {Page}), seen : BOOLEAN, alone : BOOLEAN,
     skipped : BOOLEAN]

(* A put has bytes of its own, a task of a listing has its listing. *)
OwnTask(t) ==
    /\ t \in Tasks
    /\ t.kind = "put" => t.of \in Puts
    /\ t.kind \in {"reap", "check"} => t.of \in Lists

QueueOK ==
    /\ \A i \in DOMAIN queue : OwnTask(queue[i])
    /\ queue = <<>> => step = "start"

(* The first task is past its first step. *)
Past(kind) == queue # <<>> /\ First.kind = kind /\ step # "start"

Phases ==
    /\ Past("put") \/ Past("delete") =>
         /\ sidecar = NoFile
         /\ settled = Unknown
    /\ Past("put") /\ step \in {"sidecar", "rename sidecar"} => bytes \in {First.of, NoFile}
    /\ Past("reap") => sidecar = NoFile \/ misread
    /\ Past("check") => ~Valid(sidecar) \/ misread
    /\ Past("delete") \/ Past("reap") => step = "bytes"
    /\ Past("check") => step \in {"sidecar", "bytes"}

PageInv == TypeOK /\ QueueOK /\ Phases /\ NoStaleSidecar /\ SettledPageStays

-----------------------------------------------------------------------------
(* The queue *)

(* A task is added behind the others. *)
LEMMA AppendKeeps ==
    ASSUME TypeOK, QueueOK, NEW t, OwnTask(t), queue' = Append(queue, t), step' = step
    PROVE  /\ queue' \in Seq(Tasks)
           /\ QueueOK'
           /\ queue' # <<>>
           /\ IF queue = <<>> THEN step' = "start" ELSE First' = First
  <1>1. queue \in Seq(Tasks) /\ t \in Tasks
    BY DEF TypeOK, Tasks, OwnTask
  <1>2. /\ queue' \in Seq(Tasks) /\ queue' # <<>>
        /\ DOMAIN queue = 1 .. Len(queue) /\ DOMAIN queue' = 1 .. Len(queue) + 1
        /\ Len(queue) \in Nat
        /\ \A i \in 1 .. Len(queue) : queue'[i] = queue[i]
        /\ queue'[Len(queue) + 1] = t
    BY <1>1
  <1>3. \A i \in DOMAIN queue' : OwnTask(queue'[i])
    <2>1. \A i \in DOMAIN queue' : i \in 1 .. Len(queue) \/ i = Len(queue) + 1
      BY <1>2
    <2> QED BY <1>2, <2>1 DEF QueueOK
  <1>4. (\A i \in DOMAIN queue : OwnTask(queue[i]))'
    BY <1>3 DEF OwnTask, Tasks
  <1>5. queue # <<>> => Head(queue') = Head(queue)
    BY <1>1
  <1> QED BY <1>2, <1>4, <1>5 DEF QueueOK, First

(* The first task leaves. *)
LEMMA LeaveKeeps ==
    ASSUME TypeOK, QueueOK, queue # <<>>, Leave
    PROVE  queue' \in Seq(Tasks) /\ QueueOK' /\ step' = "start"
  <1>1. queue \in Seq(Tasks) /\ queue' = Tail(queue) /\ step' = "start"
    BY DEF TypeOK, Tasks, Leave
  <1>2. /\ queue' \in Seq(Tasks) /\ Len(queue) \in Nat
        /\ DOMAIN queue = 1 .. Len(queue) /\ DOMAIN queue' = 1 .. Len(queue) - 1
        /\ \A i \in 1 .. Len(queue) - 1 : queue'[i] = queue[i + 1]
    BY <1>1
  <1>3. \A i \in DOMAIN queue' : OwnTask(queue'[i])
    <2>1. \A i \in DOMAIN queue' : i + 1 \in DOMAIN queue /\ queue'[i] = queue[i + 1]
      BY <1>2
    <2> QED BY <2>1 DEF QueueOK
  <1>4. (\A i \in DOMAIN queue : OwnTask(queue[i]))'
    BY <1>3 DEF OwnTask, Tasks
  <1> QED BY <1>1, <1>2, <1>4 DEF QueueOK

LEMMA FirstIsOwn ==
    ASSUME TypeOK, QueueOK, queue # <<>>
    PROVE  OwnTask(First) /\ First.kind \in Kinds
  <1>1. queue \in Seq(Tasks)
    BY DEF TypeOK, Tasks
  <1>2. First = queue[1] /\ 1 \in DOMAIN queue
    BY <1>1 DEF First
  <1> QED BY <1>2 DEF QueueOK, OwnTask, Tasks

LEMMA Names ==
    /\ NoFile \notin Puts /\ Torn \notin Puts /\ Unknown \notin Puts
    /\ NoFile # Torn /\ NoFile # Unknown
    /\ ~Valid(NoFile) /\ ~Valid(Torn)
  BY PageStoreAssumption DEF Valid

LEMMA PageInit == Init => PageInv
  <1> SUFFICES ASSUME Init PROVE PageInv
    OBVIOUS
  <1> USE DEF Init
  <1>1. NoList \in Listings
    BY DEF NoList, Listings
  <1>2. TypeOK
    <2>1. list \in [Lists -> Listings]
      BY <1>1
    <2>2. puts \in [Puts -> {"new", "called", "again", "repeated"}]
      OBVIOUS
    <2>3. queue \in Seq(Tasks)
      OBVIOUS
    <2>4. /\ root \in BOOLEAN /\ bytes \in Puts \cup {NoFile}
          /\ sidecar \in Puts \cup {NoFile, Torn} /\ temps \subseteq Temps
          /\ step \in Steps /\ settled \in Puts \cup {NoFile, Unknown}
          /\ misread \in BOOLEAN
      BY DEF Steps
    <2> QED BY <2>1, <2>2, <2>3, <2>4 DEF TypeOK, Listings, Tasks
  <1>3. QueueOK /\ Phases
    BY DEF QueueOK, Phases, Past
  <1>4. NoStaleSidecar /\ SettledPageStays
    BY DEF NoStaleSidecar, SettledPageStays
  <1> QED BY <1>2, <1>3, <1>4 DEF PageInv

-----------------------------------------------------------------------------
(* Ways to step *)

(* The files are left alone, and so is the first task, if there is one. *)
LEMMA FilesStay ==
    ASSUME PageInv, bytes' = bytes, sidecar' = sidecar, settled' = settled,
           misread' = misread, step' = step,
           IF queue = <<>> THEN step' = "start" ELSE queue' # <<>> /\ First' = First
    PROVE  Phases' /\ NoStaleSidecar' /\ SettledPageStays'
  <1>1. NoStaleSidecar' /\ SettledPageStays'
    BY DEF PageInv, NoStaleSidecar, SettledPageStays, Valid
  <1>2. \A kind \in Kinds : (Past(kind))' => Past(kind) /\ First' = First
    BY DEF Past
  <1>3. Phases'
    BY <1>2 DEF PageInv, Phases, Kinds, Valid, Past
  <1> QED BY <1>1, <1>3

(* A task that goes to another step. *)
LEMMA GotoKeeps ==
    ASSUME QueueOK, NEW next \in Steps, Goto(next), queue # <<>>
    PROVE  QueueOK' /\ First' = First /\ queue' = queue /\ step' = next
  BY DEF Goto, QueueOK, OwnTask, Tasks, First

(* At its first step, or with none, the first task promises nothing. *)
LEMMA StartPromises == ASSUME step' = "start" PROVE Phases'
  BY DEF Phases, Past

LEMMA ListingType ==
    ASSUME TypeOK, NEW l \in Lists, NEW state \in Listings, Listing(l, state)
    PROVE  list' \in [Lists -> Listings]
  BY DEF TypeOK, Listings, Listing

LEMMA AloneType == ASSUME TypeOK PROVE NobodyIsAlone \in [Lists -> Listings]
  <1>1. ASSUME NEW l \in Lists PROVE [list[l] EXCEPT !.alone = FALSE] \in Listings
    <2>1. list[l] \in Listings
      BY DEF TypeOK, Listings
    <2> QED BY <2>1 DEF Listings
  <1> QED BY <1>1 DEF NobodyIsAlone

-----------------------------------------------------------------------------
(* Calls and listings *)

LEMMA CallPutKeeps == ASSUME PageInv, NEW p \in Puts, CallPut(p) PROVE PageInv'
  <1>1. PICK t : t = Task("put", p)
    OBVIOUS
  <1>2. OwnTask(t)
    BY <1>1 DEF OwnTask, Tasks, Task, Kinds
  <1>3. /\ queue' = Append(queue, t) /\ step' = step
        /\ puts' = [puts EXCEPT ![p] = "called"]
        /\ list' = NobodyIsAlone /\ root' = root /\ misread' = misread
        /\ bytes' = bytes /\ sidecar' = sidecar /\ temps' = temps /\ settled' = settled
    BY <1>1 DEF CallPut, files, history
  <1>4. /\ queue' \in Seq(Tasks) /\ QueueOK' /\ queue' # <<>>
        /\ IF queue = <<>> THEN step' = "start" ELSE First' = First
    BY <1>2, <1>3, AppendKeeps DEF PageInv
  <1>5. Phases' /\ NoStaleSidecar' /\ SettledPageStays'
    BY <1>3, <1>4, FilesStay
  <1>6. TypeOK'
    BY <1>3, <1>4, AloneType DEF PageInv, TypeOK, Tasks, Listings
  <1> QED BY <1>4, <1>5, <1>6 DEF PageInv

LEMMA CallDeleteKeeps == ASSUME PageInv, CallDelete PROVE PageInv'
  <1>1. PICK t : t = Task("delete", NoFile)
    OBVIOUS
  <1>2. OwnTask(t)
    BY <1>1 DEF OwnTask, Tasks, Task, Kinds
  <1>3. /\ queue' = Append(queue, t) /\ step' = step /\ puts' = puts
        /\ list' = NobodyIsAlone /\ root' = root /\ misread' = misread
        /\ bytes' = bytes /\ sidecar' = sidecar /\ temps' = temps /\ settled' = settled
    BY <1>1 DEF CallDelete, files, history
  <1>4. /\ queue' \in Seq(Tasks) /\ QueueOK' /\ queue' # <<>>
        /\ IF queue = <<>> THEN step' = "start" ELSE First' = First
    BY <1>2, <1>3, AppendKeeps DEF PageInv
  <1>5. Phases' /\ NoStaleSidecar' /\ SettledPageStays'
    BY <1>3, <1>4, FilesStay
  <1>6. TypeOK'
    BY <1>3, <1>4, AloneType DEF PageInv, TypeOK, Tasks, Listings
  <1> QED BY <1>4, <1>5, <1>6 DEF PageInv

(* A listing that queues a task or none. *)
LEMMA QueueOrNot ==
    ASSUME PageInv, NEW t, OwnTask(t), queue' = queue \/ queue' = Append(queue, t),
           step' = step, bytes' = bytes, sidecar' = sidecar, temps' = temps,
           settled' = settled, misread' = misread, root' \in BOOLEAN, puts' = puts,
           list' \in [Lists -> Listings]
    PROVE  PageInv'
  <1>1. /\ queue' \in Seq(Tasks) /\ QueueOK'
        /\ IF queue = <<>> THEN step' = "start" ELSE queue' # <<>> /\ First' = First
    <2>1. CASE queue' = queue
      BY <2>1 DEF PageInv, TypeOK, QueueOK, OwnTask, Tasks, First
    <2>2. CASE queue' = Append(queue, t)
      BY <2>2, AppendKeeps DEF PageInv
    <2> QED BY <2>1, <2>2
  <1>2. Phases' /\ NoStaleSidecar' /\ SettledPageStays'
    BY <1>1, FilesStay
  <1>3. TypeOK'
    BY <1>1 DEF PageInv, TypeOK, Tasks, Listings
  <1> QED BY <1>1, <1>2, <1>3 DEF PageInv

LEMMA ReadDirectoryKeeps == ASSUME PageInv, NEW l \in Lists, ReadDirectory(l) PROVE PageInv'
  <1>1. PICK left, seen, alone, pc :
          /\ left = IF Writing THEN {} ELSE Leftovers
          /\ seen = (~Writing /\ sidecar # NoFile)
          /\ alone = (/\ queue = <<>>
                      /\ \A p \in Puts : puts[p] # "again"
                      /\ \A other \in Lists \ {l} : list[other].pc \in {"idle", "done"})
          /\ pc = IF left = {} THEN "sidecar" ELSE "reap"
    OBVIOUS
  <1>2. PICK state, t : /\ state = [pc |-> pc, left |-> left, seen |-> seen, alone |-> alone,
                                      skipped |-> FALSE]
                        /\ t = Task("reap", l)
    OBVIOUS
  <1>3. /\ list' = [NobodyIsAlone EXCEPT ![l] = state]
        /\ queue' = queue \/ queue' = Append(queue, t)
        /\ step' = step /\ bytes' = bytes /\ sidecar' = sidecar /\ temps' = temps
        /\ settled' = settled /\ misread' = misread /\ root' = TRUE /\ puts' = puts
    BY <1>1, <1>2 DEF ReadDirectory, history
  <1>4. left \in SUBSET (Temps \cup {Page})
    BY <1>1 DEF PageInv, TypeOK, Leftovers
  <1>5. seen \in BOOLEAN /\ alone \in BOOLEAN
    BY <1>1, Zenon
  <1>6. state \in Listings
    BY <1>1, <1>2, <1>4, <1>5 DEF Listings
  <1>7. list' \in [Lists -> Listings]
    BY <1>3, <1>6, AloneType DEF PageInv
  <1>8. OwnTask(t)
    BY <1>2 DEF OwnTask, Tasks, Task, Kinds
  <1> QED BY <1>3, <1>7, <1>8, QueueOrNot

LEMMA ReadSidecarKeeps ==
    ASSUME PageInv, NEW l \in Lists, ReadSidecar(l) \/ ReadSidecarFails(l)
    PROVE  PageInv'
  <1>1. PICK t : t = Task("check", l)
    OBVIOUS
  <1>2. PICK pc \in {"check", "done"} :
          /\ Listing(l, [list[l] EXCEPT !.pc = pc])
          /\ queue' = queue \/ queue' = Append(queue, t)
    BY <1>1 DEF ReadSidecar, ReadSidecarFails, QueueCheck, lock
  <1>3. /\ step' = step /\ bytes' = bytes /\ sidecar' = sidecar /\ temps' = temps
        /\ settled' = settled /\ misread' = misread /\ root' = root /\ puts' = puts
    BY DEF ReadSidecar, ReadSidecarFails, QueueCheck, files, lock, history
  <1>4. [list[l] EXCEPT !.pc = pc] \in Listings
    <2>1. list[l] \in Listings
      BY DEF PageInv, TypeOK, Listings
    <2> QED BY <2>1 DEF Listings
  <1>5. list' \in [Lists -> Listings] /\ root' \in BOOLEAN
    BY <1>2, <1>3, <1>4, ListingType DEF PageInv, TypeOK
  <1>6. OwnTask(t)
    BY <1>1 DEF OwnTask, Tasks, Task, Kinds
  <1> QED BY <1>2, <1>3, <1>5, <1>6, QueueOrNot

-----------------------------------------------------------------------------
(* Steps of the first task *)

FilesTyped ==
    /\ root \in BOOLEAN
    /\ bytes \in Puts \cup {NoFile}
    /\ sidecar \in Puts \cup {NoFile, Torn}
    /\ temps \subseteq Temps
    /\ puts \in [Puts -> {"new", "called", "again", "repeated"}]
    /\ settled \in Puts \cup {NoFile, Unknown}
    /\ misread \in BOOLEAN

LEMMA GotoEnds ==
    ASSUME PageInv, queue # <<>>, NEW next \in Steps, Goto(next), FilesTyped',
           list' \in [Lists -> Listings],
           Phases', NoStaleSidecar', SettledPageStays'
    PROVE  PageInv'
  <1>1. QueueOK' /\ queue' = queue /\ step' = next
    BY GotoKeeps DEF PageInv
  <1>2. TypeOK'
    BY <1>1 DEF PageInv, TypeOK, FilesTyped, Listings
  <1> QED BY <1>1, <1>2 DEF PageInv

LEMMA LeaveEnds ==
    ASSUME PageInv, queue # <<>>, Leave, FilesTyped',
           list' \in [Lists -> Listings],
           NoStaleSidecar', SettledPageStays'
    PROVE  PageInv'
  <1>1. queue' \in Seq(Tasks) /\ QueueOK' /\ step' = "start"
    BY LeaveKeeps DEF PageInv
  <1>2. TypeOK'
    BY <1>1 DEF PageInv, TypeOK, FilesTyped, Listings, Tasks, Steps
  <1> QED BY <1>1, <1>2, StartPromises DEF PageInv

LEMMA RemoveSidecarKeeps == ASSUME PageInv, RemoveSidecar PROVE PageInv'
  <1>1. /\ queue # <<>> /\ First.kind = "put" /\ Goto("bytes") /\ "bytes" \in Steps
        /\ sidecar' = NoFile /\ settled' = Unknown /\ bytes' = bytes /\ temps' = temps
        /\ list' = list /\ puts' = puts /\ root' = root /\ misread' = misread
    BY DEF RemoveSidecar, Runs, Rest, Steps
  <1>2. First' = First /\ step' = "bytes"
    BY <1>1, GotoKeeps DEF PageInv
  <1>3. Phases'
    BY <1>1, <1>2 DEF Phases, Past
  <1>4. NoStaleSidecar' /\ SettledPageStays'
    BY <1>1, Names DEF NoStaleSidecar, SettledPageStays
  <1>5. FilesTyped' /\ list' \in [Lists -> Listings]
    BY <1>1 DEF PageInv, TypeOK, FilesTyped, Listings
  <1> QED BY <1>1, <1>3, <1>4, <1>5, GotoEnds

LEMMA WriteTempKeeps ==
    ASSUME PageInv, NEW what \in {"bytes", "sidecar"}, WriteTemp(what) PROVE PageInv'
  <1>1. PICK next : next = IF what = "bytes" THEN "rename bytes" ELSE "rename sidecar"
    OBVIOUS
  <1>2. /\ queue # <<>> /\ First.kind = "put" /\ step = what
        /\ Goto(next) /\ next \in Steps
        /\ temps' = temps \cup {<<First.of, what>>}
        /\ sidecar' = sidecar /\ settled' = settled /\ bytes' = bytes
        /\ list' = list /\ puts' = puts /\ root' = root /\ misread' = misread
    BY <1>1 DEF WriteTemp, Runs, Rest, Steps, history
  <1>3. First' = First /\ step' = next
    BY <1>2, GotoKeeps DEF PageInv
  <1>4. step # "start" /\ step' # "start"
    BY <1>1, <1>2, <1>3
  <1>5. Phases'
    BY <1>1, <1>2, <1>3, <1>4 DEF PageInv, Phases, Past
  <1>6. NoStaleSidecar' /\ SettledPageStays'
    BY <1>2 DEF PageInv, NoStaleSidecar, SettledPageStays, Valid
  <1>7. <<First.of, what>> \in Temps
    BY <1>2, FirstIsOwn DEF PageInv, OwnTask, Temps
  <1>8. FilesTyped' /\ list' \in [Lists -> Listings]
    BY <1>2, <1>7 DEF PageInv, TypeOK, FilesTyped, Listings
  <1> QED BY <1>2, <1>5, <1>6, <1>8, GotoEnds

LEMMA RenameBytesKeeps == ASSUME PageInv, RenameBytes PROVE PageInv'
  <1>1. /\ queue # <<>> /\ First.kind = "put" /\ step = "rename bytes"
        /\ Goto("sidecar") /\ "sidecar" \in Steps
        /\ bytes' = First.of /\ temps' = temps \ {<<First.of, "bytes">>}
        /\ sidecar' = sidecar /\ settled' = settled /\ list' = list /\ puts' = puts
        /\ root' = root /\ misread' = misread
    BY DEF RenameBytes, Runs, Rest, Steps, history
  <1>2. First' = First /\ step' = "sidecar"
    BY <1>1, GotoKeeps DEF PageInv
  <1>3. sidecar = NoFile /\ settled = Unknown
    BY <1>1 DEF PageInv, Phases, Past
  <1>4. Phases'
    BY <1>1, <1>2, <1>3 DEF Phases, Past
  <1>5. NoStaleSidecar' /\ SettledPageStays'
    BY <1>1, <1>3, Names DEF NoStaleSidecar, SettledPageStays
  <1>6. First.of \in Puts
    BY <1>1, FirstIsOwn DEF PageInv, OwnTask
  <1>7. FilesTyped' /\ list' \in [Lists -> Listings]
    BY <1>1, <1>6 DEF PageInv, TypeOK, FilesTyped, Listings
  <1> QED BY <1>1, <1>4, <1>5, <1>7, GotoEnds

LEMMA RenameSidecarKeeps == ASSUME PageInv, RenameSidecar PROVE PageInv'
  <1>1. /\ queue # <<>> /\ First.kind = "put" /\ step = "rename sidecar" /\ Leave
        /\ sidecar' = First.of /\ temps' = temps \ {<<First.of, "sidecar">>}
        /\ settled' = IF bytes = First.of THEN First.of ELSE Unknown
        /\ bytes' = bytes /\ list' = list /\ puts' = puts
        /\ root' = root /\ misread' = FALSE
    BY DEF RenameSidecar, Runs, Rest
  <1>2. bytes \in {First.of, NoFile}
    BY <1>1 DEF PageInv, Phases, Past
  <1>3. NoStaleSidecar' /\ SettledPageStays'
    BY <1>1, <1>2 DEF NoStaleSidecar, SettledPageStays
  <1>4. First.of \in Puts
    BY <1>1, FirstIsOwn DEF PageInv, OwnTask
  <1>5. FilesTyped' /\ list' \in [Lists -> Listings]
    BY <1>1, <1>4 DEF PageInv, TypeOK, FilesTyped, Listings
  <1> QED BY <1>1, <1>3, <1>5, LeaveEnds

LEMMA MissRootKeeps == ASSUME PageInv, MissRoot PROVE PageInv'
  <1>1. /\ queue # <<>> /\ First.kind = "put" /\ Leave
        /\ puts' = [puts EXCEPT ![First.of] = IF @ = "called" THEN "again" ELSE @]
        /\ sidecar' = sidecar /\ settled' = settled /\ bytes' = bytes /\ temps' = temps
        /\ list' = list /\ root' = root /\ misread' = misread
    BY DEF MissRoot, files, history
  <1>2. NoStaleSidecar' /\ SettledPageStays'
    BY <1>1 DEF PageInv, NoStaleSidecar, SettledPageStays, Valid
  <1>3. puts' \in [Puts -> {"new", "called", "again", "repeated"}]
    BY <1>1 DEF PageInv, TypeOK
  <1>4. FilesTyped' /\ list' \in [Lists -> Listings]
    BY <1>1, <1>3 DEF PageInv, TypeOK, FilesTyped, Listings
  <1> QED BY <1>1, <1>2, <1>4, LeaveEnds

LEMMA RepeatPutKeeps == ASSUME PageInv, NEW p \in Puts, RepeatPut(p) PROVE PageInv'
  <1>1. PICK t : t = Task("put", p)
    OBVIOUS
  <1>2. OwnTask(t)
    BY <1>1 DEF OwnTask, Tasks, Task, Kinds
  <1>3. /\ queue' = Append(queue, t) /\ step' = step
        /\ puts' = [puts EXCEPT ![p] = "repeated"]
        /\ list' = NobodyIsAlone /\ root' = TRUE /\ misread' = misread
        /\ bytes' = bytes /\ sidecar' = sidecar /\ temps' = temps /\ settled' = settled
    BY <1>1 DEF RepeatPut, history
  <1>4. /\ queue' \in Seq(Tasks) /\ QueueOK' /\ queue' # <<>>
        /\ IF queue = <<>> THEN step' = "start" ELSE First' = First
    BY <1>2, <1>3, AppendKeeps DEF PageInv
  <1>5. Phases' /\ NoStaleSidecar' /\ SettledPageStays'
    BY <1>3, <1>4, FilesStay
  <1>6. TypeOK'
    BY <1>3, <1>4, AloneType DEF PageInv, TypeOK, Tasks, Listings
  <1> QED BY <1>4, <1>5, <1>6 DEF PageInv

LEMMA DeleteSidecarKeeps == ASSUME PageInv, DeleteSidecar PROVE PageInv'
  <1>1. /\ queue # <<>> /\ First.kind = "delete" /\ Goto("bytes") /\ "bytes" \in Steps
        /\ sidecar' = NoFile /\ settled' = Unknown /\ bytes' = bytes /\ temps' = temps
        /\ list' = list /\ puts' = puts /\ root' = root /\ misread' = misread
    BY DEF DeleteSidecar, Runs, Rest, Steps
  <1>2. First' = First /\ step' = "bytes"
    BY <1>1, GotoKeeps DEF PageInv
  <1>3. Phases'
    BY <1>1, <1>2 DEF Phases, Past
  <1>4. NoStaleSidecar' /\ SettledPageStays'
    BY <1>1, Names DEF NoStaleSidecar, SettledPageStays
  <1>5. FilesTyped' /\ list' \in [Lists -> Listings]
    BY <1>1 DEF PageInv, TypeOK, FilesTyped, Listings
  <1> QED BY <1>1, <1>3, <1>4, <1>5, GotoEnds

LEMMA DeleteBytesKeeps == ASSUME PageInv, DeleteBytes PROVE PageInv'
  <1>1. /\ queue # <<>> /\ First.kind = "delete" /\ step = "bytes" /\ Leave
        /\ bytes' = NoFile /\ settled' = NoFile /\ sidecar' = sidecar /\ temps' = temps
        /\ list' = list /\ puts' = puts /\ root' = root /\ misread' = FALSE
    BY DEF DeleteBytes, Runs, Rest
  <1>2. sidecar = NoFile
    BY <1>1 DEF PageInv, Phases, Past
  <1>3. NoStaleSidecar' /\ SettledPageStays'
    BY <1>1, <1>2 DEF NoStaleSidecar, SettledPageStays
  <1>4. FilesTyped' /\ list' \in [Lists -> Listings]
    BY <1>1 DEF PageInv, TypeOK, FilesTyped, Listings
  <1> QED BY <1>1, <1>3, <1>4, LeaveEnds

-----------------------------------------------------------------------------
(* Tasks of listings *)

(* The listing the first task belongs to, and what may become of it. *)
LEMMA OwnListing ==
    ASSUME PageInv, queue # <<>>, First.kind \in {"reap", "check"}
    PROVE  /\ First.of \in Lists /\ list[First.of] \in Listings
           /\ NoList \in Listings
           /\ \A pc \in {"idle", "reap", "sidecar", "check", "failed", "done"} :
                /\ [list[First.of] EXCEPT !.pc = pc] \in Listings
                /\ [list[First.of] EXCEPT !.pc = pc, !.skipped = TRUE] \in Listings
           /\ [list[First.of] EXCEPT !.skipped = TRUE] \in Listings
           /\ \A t : [list[First.of] EXCEPT !.left = @ \ {t}] \in Listings
           /\ \A left \in SUBSET list[First.of].left :
                [NoList EXCEPT !.pc = "failed", !.left = left] \in Listings
  <1>1. First.of \in Lists
    BY FirstIsOwn DEF PageInv, OwnTask
  <1>2. list[First.of] \in Listings
    BY <1>1 DEF PageInv, TypeOK, Listings
  <1>3. PICK old : old = list[First.of]
    OBVIOUS
  <1>4. NoList \in Listings
    BY DEF NoList, Listings
  <1>5. \A pc \in {"idle", "reap", "sidecar", "check", "failed", "done"} :
            /\ [old EXCEPT !.pc = pc] \in Listings
            /\ [old EXCEPT !.pc = pc, !.skipped = TRUE] \in Listings
    BY <1>2, <1>3 DEF Listings
  <1>8. [old EXCEPT !.skipped = TRUE] \in Listings
    BY <1>2, <1>3 DEF Listings
  <1>6. ASSUME NEW t PROVE [old EXCEPT !.left = @ \ {t}] \in Listings
    <2>1. PICK left : left = old.left \ {t}
      OBVIOUS
    <2>2. left \in SUBSET (Temps \cup {Page})
      BY <1>2, <1>3, <2>1 DEF Listings
    <2>3. [old EXCEPT !.left = left] \in Listings
      BY <1>2, <1>3, <2>2 DEF Listings
    <2> QED BY <2>1, <2>3
  <1>7. ASSUME NEW left \in SUBSET old.left
        PROVE  [NoList EXCEPT !.pc = "failed", !.left = left] \in Listings
    <2>1. left \in SUBSET (Temps \cup {Page})
      BY <1>2, <1>3 DEF Listings
    <2> QED BY <2>1 DEF NoList, Listings
  <1> QED BY <1>1, <1>2, <1>3, <1>4, <1>5, <1>6, <1>7, <1>8

LEMMA ReapTempKeeps == ASSUME PageInv, NEW t \in Temps, ReapTemp(t) PROVE PageInv'
  <1>1. /\ queue # <<>> /\ First.kind = "reap" /\ temps' = temps \ {t}
        /\ Listing(First.of, [list[First.of] EXCEPT !.left = @ \ {t}])
        /\ bytes' = bytes /\ sidecar' = sidecar /\ queue' = queue /\ step' = step
        /\ puts' = puts /\ settled' = settled /\ root' = root /\ misread' = misread
    BY DEF ReapTemp, Runs, lock, history
  <1>2. list' \in [Lists -> Listings]
    BY <1>1, OwnListing, ListingType DEF PageInv
  <1>3. Phases' /\ NoStaleSidecar' /\ SettledPageStays'
    <2>1. First' = First /\ queue' # <<>>
      BY <1>1 DEF First
    <2> QED BY <1>1, <2>1, FilesStay
  <1>4. TypeOK'
    BY <1>1, <1>2 DEF PageInv, TypeOK, Listings
  <1>5. QueueOK'
    BY <1>1 DEF PageInv, QueueOK, OwnTask, Tasks
  <1> QED BY <1>3, <1>4, <1>5 DEF PageInv

LEMMA LookAgainKeeps == ASSUME PageInv, LookAgain \/ LookAgainFails PROVE PageInv'
  <1>1. PICK next \in {"bytes", "start"} :
          /\ Goto(next)
          /\ next = "bytes" => sidecar = NoFile \/ misread'
    BY DEF LookAgain, LookAgainFails
  <1>2. /\ queue # <<>> /\ First.kind = "reap" /\ next \in Steps
        /\ Listing(First.of, [list[First.of] EXCEPT !.left = @ \ {Page}])
        /\ bytes' = bytes /\ sidecar' = sidecar /\ temps' = temps /\ root' = root
        /\ puts' = puts /\ settled' = settled
        /\ misread' \in BOOLEAN /\ (misread => misread')
    BY <1>1 DEF LookAgain, LookAgainFails, ReapLooks, Runs, files, Steps, PageInv, TypeOK
  <1>3. First' = First /\ step' = next
    BY <1>1, <1>2, GotoKeeps DEF PageInv
  <1>4. list' \in [Lists -> Listings]
    BY <1>2, OwnListing, ListingType DEF PageInv
  <1>5. Phases'
    BY <1>1, <1>2, <1>3 DEF Phases, Past
  <1>6. NoStaleSidecar' /\ SettledPageStays'
    BY <1>2 DEF PageInv, NoStaleSidecar, SettledPageStays, Valid
  <1>7. FilesTyped'
    BY <1>2 DEF PageInv, TypeOK, FilesTyped
  <1> QED BY <1>1, <1>2, <1>4, <1>5, <1>6, <1>7, GotoEnds

LEMMA ReapBytesKeeps == ASSUME PageInv, ReapBytes PROVE PageInv'
  <1>1. /\ queue # <<>> /\ First.kind = "reap" /\ step = "bytes" /\ Goto("start")
        /\ "start" \in Steps /\ bytes' = NoFile /\ sidecar' = sidecar /\ temps' = temps
        /\ list' = list /\ puts' = puts /\ settled' = settled
        /\ root' = root /\ misread' = misread
    BY DEF ReapBytes, Runs, Rest, Steps, history
  <1>2. sidecar = NoFile \/ misread
    BY <1>1 DEF PageInv, Phases, Past
  <1>3. Phases'
    BY <1>1, StartPromises DEF Goto
  <1>4. NoStaleSidecar' /\ SettledPageStays'
    BY <1>1, <1>2, Names DEF PageInv, NoStaleSidecar, SettledPageStays
  <1>5. FilesTyped' /\ list' \in [Lists -> Listings]
    BY <1>1 DEF PageInv, TypeOK, FilesTyped, Listings
  <1> QED BY <1>1, <1>3, <1>4, <1>5, GotoEnds

LEMMA EndReapKeeps == ASSUME PageInv, EndReap PROVE PageInv'
  <1>1. PICK state : /\ Listing(First.of, state)
                     /\ state \in {NoList, [list[First.of] EXCEPT !.pc = "sidecar"]}
    BY DEF EndReap
  <1>2. /\ queue # <<>> /\ First.kind = "reap" /\ Leave
        /\ bytes' = bytes /\ sidecar' = sidecar /\ temps' = temps
        /\ puts' = puts /\ settled' = settled /\ root' = root /\ misread' = misread
    BY DEF EndReap, Runs, files, history
  <1>3. list' \in [Lists -> Listings]
    <2>1. state \in Listings
      BY <1>1, <1>2, OwnListing
    <2> QED BY <1>1, <1>2, <2>1, OwnListing, ListingType DEF PageInv
  <1>4. NoStaleSidecar' /\ SettledPageStays' /\ FilesTyped'
    BY <1>2 DEF PageInv, NoStaleSidecar, SettledPageStays, Valid, TypeOK, FilesTyped
  <1> QED BY <1>2, <1>3, <1>4, LeaveEnds

LEMMA CheckSidecarKeeps ==
    ASSUME PageInv, CheckSidecar \/ CheckSidecarFails PROVE PageInv'
  <1>1. /\ queue # <<>> /\ First.kind = "check" /\ step = "start"
        /\ bytes' = bytes /\ sidecar' = sidecar /\ temps' = temps /\ settled' = settled
        /\ root' = root /\ puts' = puts
        /\ misread' \in BOOLEAN /\ (misread => misread')
    BY DEF CheckSidecar, CheckSidecarFails, EndCheck, Rest, Runs, files, history,
           PageInv, TypeOK
  <1>2. NoStaleSidecar' /\ SettledPageStays'
    BY <1>1 DEF PageInv, NoStaleSidecar, SettledPageStays, Valid
  <1>3. FilesTyped'
    BY <1>1 DEF PageInv, TypeOK, FilesTyped
  <1>4. CASE CheckSidecar /\ Valid(sidecar)
    <2>1. Leave /\ Listing(First.of, Listed(First.of))
      BY <1>4 DEF CheckSidecar, EndCheck
    <2>2. list' \in [Lists -> Listings]
      BY <1>1, <2>1, OwnListing, ListingType DEF PageInv, Listed
    <2> QED BY <1>1, <1>2, <1>3, <2>1, <2>2, LeaveEnds
  <1>5. ASSUME Goto("sidecar"), list' = list, ~Valid(sidecar) \/ misread' PROVE PageInv'
    <2>1. First' = First /\ step' = "sidecar" /\ "sidecar" \in Steps
      BY <1>1, <1>5, GotoKeeps DEF PageInv, Steps
    <2>2. Phases'
      BY <1>1, <1>5, <2>1 DEF Phases, Past, Valid
    <2>3. list' \in [Lists -> Listings]
      BY <1>5 DEF PageInv, TypeOK, Listings
    <2> QED BY <1>1, <1>2, <1>3, <1>5, <2>1, <2>2, <2>3, GotoEnds
  <1>6. CASE CheckSidecar /\ ~Valid(sidecar)
    BY <1>5, <1>6 DEF CheckSidecar, Rest
  <1>7. CASE CheckSidecarFails
    BY <1>5, <1>7 DEF CheckSidecarFails
  <1> QED BY <1>4, <1>6, <1>7

LEMMA ReapSidecarKeeps == ASSUME PageInv, ReapSidecar \/ SkipSidecar PROVE PageInv'
  <1>1. /\ queue # <<>> /\ First.kind = "check" /\ step = "sidecar"
        /\ Goto("bytes") /\ "bytes" \in Steps /\ sidecar' \in {sidecar, NoFile}
        /\ bytes' = bytes /\ temps' = temps /\ puts' = puts /\ root' = root
        /\ settled' = settled /\ misread' = misread
    BY DEF ReapSidecar, SkipSidecar, Runs, Rest, Steps, files, history
  <1>2. First' = First /\ step' = "bytes"
    BY <1>1, GotoKeeps DEF PageInv
  <1>3. ~Valid(sidecar) \/ misread
    BY <1>1 DEF PageInv, Phases, Past
  <1>4. Phases'
    BY <1>1, <1>2, <1>3, Names DEF Phases, Past, Valid
  <1>5. settled # Unknown /\ ~misread => settled = NoFile
    BY <1>3 DEF PageInv, TypeOK, SettledPageStays, Valid
  <1>6. NoStaleSidecar' /\ SettledPageStays'
    BY <1>1, <1>5, Names DEF PageInv, NoStaleSidecar, SettledPageStays, Valid
  <1>7. list' \in [Lists -> Listings]
    <2>1. CASE ReapSidecar
      BY <2>1 DEF ReapSidecar, Rest, PageInv, TypeOK, Listings
    <2>2. CASE SkipSidecar
      BY <1>1, <2>2, OwnListing, ListingType DEF SkipSidecar, Skipped, PageInv
    <2> QED BY <2>1, <2>2
  <1>8. FilesTyped'
    BY <1>1 DEF PageInv, TypeOK, FilesTyped
  <1> QED BY <1>1, <1>4, <1>6, <1>7, <1>8, GotoEnds

LEMMA ReapPageKeeps == ASSUME PageInv, ReapPage \/ SkipPage PROVE PageInv'
  <1>1. /\ queue # <<>> /\ First.kind = "check" /\ step = "bytes"
        /\ bytes' \in {bytes, NoFile} /\ Leave /\ puts' = puts
        /\ sidecar' = sidecar /\ temps' = temps /\ settled' = settled
        /\ root' = root /\ misread' = misread
    BY DEF ReapPage, SkipPage, Runs, EndCheck, files, history
  <1>2. ~Valid(sidecar) \/ misread
    BY <1>1 DEF PageInv, Phases, Past
  <1>3. settled # Unknown /\ ~misread => settled = NoFile
    BY <1>2 DEF PageInv, TypeOK, SettledPageStays, Valid
  <1>4. NoStaleSidecar' /\ SettledPageStays'
    BY <1>1, <1>3, Names DEF PageInv, NoStaleSidecar, SettledPageStays, Valid
  <1>5. PICK state : /\ Listing(First.of, state)
                     /\ state \in {Listed(First.of), [Listed(First.of) EXCEPT !.skipped = TRUE]}
    BY DEF ReapPage, SkipPage, EndCheck
  <1>6. [list[First.of] EXCEPT !.pc = "done", !.skipped = TRUE] \in Listings
    BY <1>1, OwnListing
  <1>7. state \in Listings
    BY <1>1, <1>5, <1>6, OwnListing DEF Listed
  <1>8. list' \in [Lists -> Listings]
    BY <1>1, <1>5, <1>7, OwnListing, ListingType DEF PageInv
  <1>9. FilesTyped'
    BY <1>1 DEF PageInv, TypeOK, FilesTyped
  <1> QED BY <1>1, <1>4, <1>8, <1>9, LeaveEnds

-----------------------------------------------------------------------------
(* Failures *)

LEMMA FailsKeeps == ASSUME PageInv, Fails PROVE PageInv'
  <1>1. /\ queue # <<>> /\ Leave /\ settled' = Unknown
        /\ bytes' = bytes /\ sidecar' = sidecar /\ temps' = temps
        /\ list' = list /\ puts' = puts /\ root' = root /\ misread' = misread
    BY DEF Fails, files
  <1>2. NoStaleSidecar' /\ SettledPageStays'
    BY <1>1 DEF PageInv, NoStaleSidecar, SettledPageStays, Valid
  <1>3. FilesTyped' /\ list' \in [Lists -> Listings]
    BY <1>1 DEF PageInv, TypeOK, FilesTyped, Listings
  <1> QED BY <1>1, <1>2, <1>3, LeaveEnds

LEMMA ReapFailsKeeps == ASSUME PageInv, ReapFails PROVE PageInv'
  <1>1. /\ queue # <<>> /\ First.kind \in {"reap", "check"}
        /\ bytes' = bytes /\ sidecar' = sidecar /\ temps' = temps
        /\ puts' = puts /\ settled' = settled /\ root' = root /\ misread' = misread
    BY DEF ReapFails, files, history
  <1>2. NoStaleSidecar' /\ SettledPageStays' /\ FilesTyped'
    BY <1>1 DEF PageInv, NoStaleSidecar, SettledPageStays, Valid, TypeOK, FilesTyped
  <1>3. CASE First.kind = "check"
    <2>1. Leave /\ Listing(First.of, NoList)
      BY <1>3 DEF ReapFails
    <2>2. list' \in [Lists -> Listings]
      BY <1>1, <2>1, OwnListing, ListingType DEF PageInv
    <2> QED BY <1>1, <1>2, <2>1, <2>2, LeaveEnds
  <1>4. CASE First.kind # "check"
    <2>1. Goto("start") /\ "start" \in Steps
      BY <1>4 DEF ReapFails, Steps
    <2>2. PICK left \in SUBSET list[First.of].left :
            Listing(First.of, [NoList EXCEPT !.pc = "failed", !.left = left])
      BY <1>4 DEF ReapFails
    <2>3. list' \in [Lists -> Listings]
      BY <1>1, <2>2, OwnListing, ListingType DEF PageInv
    <2>4. Phases'
      BY <2>1, StartPromises DEF Goto
    <2> QED BY <1>1, <1>2, <2>1, <2>3, <2>4, GotoEnds
  <1> QED BY <1>3, <1>4

LEMMA CrashKeeps == ASSUME PageInv, Crash PROVE PageInv'
  <1>1. /\ queue' = <<>> /\ step' = "start" /\ list' = [l \in Lists |-> NoList]
        /\ bytes' = bytes /\ sidecar' = sidecar /\ temps' = temps
        /\ puts' = [p \in Puts |-> IF puts[p] = "again" THEN "repeated" ELSE puts[p]]
        /\ settled' = settled /\ root' = root /\ misread' = misread
    BY DEF Crash, files, history
  <1>2. NoList \in Listings
    BY DEF NoList, Listings
  <1>3. TypeOK'
    <2>1. queue' \in Seq(Tasks)
      BY <1>1
    <2>2. list' \in [Lists -> Listings]
      BY <1>1, <1>2
    <2>3. step' \in Steps
      BY <1>1 DEF Steps
    <2>4. puts' \in [Puts -> {"new", "called", "again", "repeated"}]
      BY <1>1 DEF PageInv, TypeOK
    <2> QED BY <1>1, <2>1, <2>2, <2>3, <2>4 DEF PageInv, TypeOK, Listings, Tasks
  <1>4. QueueOK'
    BY <1>1 DEF QueueOK
  <1>5. NoStaleSidecar' /\ SettledPageStays'
    BY <1>1 DEF PageInv, NoStaleSidecar, SettledPageStays, Valid
  <1> QED BY <1>1, <1>3, <1>4, <1>5, StartPromises DEF PageInv

LEMMA DamageKeeps == ASSUME PageInv, Damage PROVE PageInv'
  <1>1. /\ settled' = Unknown /\ list' = NobodyIsAlone
        /\ temps' \in {temps, {}} /\ queue' = queue /\ step' = step /\ puts' = puts
        /\ root' \in {root, FALSE} /\ misread' = misread
        /\ \/ sidecar # NoFile /\ sidecar' = Torn /\ bytes' = bytes
           \/ bytes' = NoFile /\ sidecar' \in {sidecar, NoFile}
    BY DEF Damage, lock
  <1>2. TypeOK'
    BY <1>1, AloneType DEF PageInv, TypeOK, Listings
  <1>3. QueueOK'
    BY <1>1 DEF PageInv, QueueOK, OwnTask, Tasks
  <1>4. NoStaleSidecar' /\ SettledPageStays'
    BY <1>1, Names DEF PageInv, NoStaleSidecar, SettledPageStays, Valid
  <1>5. Phases'
    <2>1. First' = First
      BY <1>1 DEF First
    <2>2. CASE sidecar # NoFile /\ sidecar' = Torn /\ bytes' = bytes
      BY <1>1, <2>1, <2>2, Names DEF PageInv, Phases, Past, Valid
    <2>3. CASE bytes' = NoFile /\ sidecar' \in {sidecar, NoFile}
      BY <1>1, <2>1, <2>3, Names DEF PageInv, Phases, Past, Valid
    <2> QED BY <1>1, <2>2, <2>3
  <1> QED BY <1>2, <1>3, <1>4, <1>5 DEF PageInv

LEMMA MakeRootKeeps == ASSUME PageInv, MakeRoot PROVE PageInv'
  <1>1. /\ bytes' = bytes /\ sidecar' = sidecar /\ temps' = temps
        /\ queue' = queue /\ step' = step /\ list' = list /\ puts' = puts
        /\ settled' = settled /\ misread' = misread /\ root' = TRUE
    BY DEF MakeRoot, lock, history
  <1>2. TypeOK' /\ QueueOK'
    BY <1>1 DEF PageInv, TypeOK, QueueOK, OwnTask, Tasks
  <1>3. Phases' /\ NoStaleSidecar' /\ SettledPageStays'
    BY <1>1 DEF PageInv, Phases, Past, First, Valid, NoStaleSidecar, SettledPageStays
  <1> QED BY <1>2, <1>3 DEF PageInv

-----------------------------------------------------------------------------
(* The listing that is alone, and has passed over no file.  What it has    *)
(* found left over is all there is that can never be served, less what its *)
(* task has already dealt with; no other task is behind or before its own. *)

Vouched == bytes # NoFile => sidecar # NoFile

(* What a listing that is alone knows at each of its positions. *)
AloneKnows(l) ==
    /\ \A other \in Lists \ {l} : list[other].pc \in {"idle", "done"}
    /\ \/ /\ list[l].pc = "reap"
          /\ queue = <<Task("reap", l)>>
          /\ temps \subseteq list[l].left
          /\ Vouched \/ Page \in list[l].left \/ step = "bytes"
          /\ list[l].seen = (sidecar # NoFile)
       \/ /\ list[l].pc = "sidecar"
          /\ queue = <<>>
          /\ temps = {} /\ Vouched
          /\ list[l].seen = (sidecar # NoFile)
       \/ /\ list[l].pc = "check"
          /\ queue = <<Task("check", l)>>
          /\ temps = {}
          /\ Vouched \/ step = "bytes"
          /\ step = "bytes" => sidecar = NoFile
       \/ /\ list[l].pc = "done"
          /\ queue = <<>>
          /\ temps = {} /\ Vouched
          /\ sidecar # Torn

Clean(l) == list[l].alone /\ ~list[l].skipped

SweepInv == \A l \in Lists : Clean(l) => AloneKnows(l)

LEMMA SweepInit == Init => SweepInv
  BY DEF Init, SweepInv, Clean, NoList

LEMMA NobodyAloneKeeps == ASSUME TypeOK, list' = NobodyIsAlone PROVE SweepInv'
  <1>1. ASSUME NEW l \in Lists PROVE ~list'[l].alone
    <2>1. list[l] \in Listings
      BY DEF TypeOK, Listings
    <2> QED BY <2>1 DEF NobodyIsAlone, Listings
  <1> QED BY <1>1 DEF SweepInv, Clean

(* The first task can only be that of the listing that is alone. *)
LEMMA AloneOwnsFirst ==
    ASSUME SweepInv, NEW l \in Lists, Clean(l), queue # <<>>
    PROVE  /\ First.of = l /\ Tail(queue) = <<>>
           /\ First.kind \in {"reap", "check"}
           /\ First.kind = "reap" => list[l].pc = "reap"
           /\ First.kind = "check" => list[l].pc = "check"
           /\ \A other \in Lists \ {l} : list[other].pc \in {"idle", "done"}
  <1>1. AloneKnows(l)
    BY DEF SweepInv
  <1>2. PICK kind \in {"reap", "check"} : queue = <<Task(kind, l)>> /\ list[l].pc = kind
    BY <1>1 DEF AloneKnows
  <1>3. First = Task(kind, l) /\ Tail(queue) = <<>>
    BY <1>2 DEF First
  <1>4. First.kind = kind /\ First.of = l
    BY <1>3 DEF Task
  <1>5. \A other \in Lists \ {l} : list[other].pc \in {"idle", "done"}
    BY <1>1 DEF AloneKnows
  <1> QED BY <1>2, <1>3, <1>4, <1>5

(* While a put or a delete has its turn, no listing is alone. *)
LEMMA BusyIsNotAlone ==
    ASSUME SweepInv, queue # <<>>, First.kind \in {"put", "delete"}, list' = list
    PROVE  SweepInv'
  <1>1. \A l \in Lists : ~Clean(l)
    BY AloneOwnsFirst
  <1> QED BY <1>1 DEF SweepInv, Clean

(* A task of a listing changes that listing alone. *)
LEMMA OwnTaskKeeps ==
    ASSUME PageInv, SweepInv, queue # <<>>, First.kind \in {"reap", "check"},
           NEW l \in Lists, First.of = l, NEW state, Listing(l, state),
           state.alone /\ ~state.skipped => AloneKnows(l)'
    PROVE  SweepInv'
  <1>2. list'[l] = state /\ \A other \in Lists \ {l} : list'[other] = list[other]
    BY DEF Listing, PageInv, TypeOK
  <1>3. \A other \in Lists \ {l} : ~Clean(other)
    BY AloneOwnsFirst
  <1> QED BY <1>2, <1>3 DEF SweepInv, Clean

(* The first task of a listing that is alone makes room for no other. *)
LEMMA LeavesNoTask ==
    ASSUME SweepInv, NEW l \in Lists, Clean(l), queue # <<>>, Leave
    PROVE  queue' = <<>>
  BY AloneOwnsFirst DEF Leave

LEMMA ReadDirectorySweeps ==
    ASSUME PageInv, SweepInv, NEW l \in Lists, ReadDirectory(l)
    PROVE  SweepInv'
  <1>1. PICK left : left = IF Writing THEN {} ELSE Leftovers
    OBVIOUS
  <1>2. PICK seen, alone :
          /\ seen = (~Writing /\ sidecar # NoFile)
          /\ alone = (/\ queue = <<>>
                      /\ \A p \in Puts : puts[p] # "again"
                      /\ \A other \in Lists \ {l} : list[other].pc \in {"idle", "done"})
    OBVIOUS
  <1>3. PICK state : state = [pc |-> IF left = {} THEN "sidecar" ELSE "reap",
                              left |-> left, seen |-> seen, alone |-> alone,
                              skipped |-> FALSE]
    OBVIOUS
  <1>4. /\ state.left = left /\ state.seen = seen /\ state.alone = alone
        /\ state.pc = IF left = {} THEN "sidecar" ELSE "reap"
        /\ list' = [NobodyIsAlone EXCEPT ![l] = state]
    BY <1>1, <1>2, <1>3 DEF ReadDirectory
  <1>5. /\ queue' = IF left = {} THEN queue ELSE Append(queue, Task("reap", l))
        /\ bytes' = bytes /\ sidecar' = sidecar /\ temps' = temps /\ step' = step
    BY <1>1 DEF ReadDirectory
  <1>6. list'[l] = state
    BY <1>4 DEF NobodyIsAlone
  <1>7. ASSUME NEW other \in Lists \ {l}
        PROVE  list'[other].pc = list[other].pc /\ ~list'[other].alone
    <2>1. list[other] \in Listings
      BY DEF PageInv, TypeOK, Listings
    <2> QED BY <1>4, <2>1 DEF NobodyIsAlone, Listings
  <1>8. ASSUME state.alone PROVE AloneKnows(l)'
    <2>1. queue = <<>> /\ \A other \in Lists \ {l} : list[other].pc \in {"idle", "done"}
      BY <1>4, <1>2, <1>8
    <2>2. left = Leftovers /\ state.seen = (sidecar # NoFile)
      BY <1>1, <1>4, <1>2, <2>1, Zenon DEF Writing
    <2>3. CASE left = {}
      <3>1. temps = {} /\ Vouched
        BY <2>2, <2>3 DEF Leftovers, Vouched
      <3> QED BY <1>4, <1>5, <1>6, <1>7, <2>1, <2>2, <2>3, <3>1 DEF AloneKnows, Vouched
    <2>4. CASE left # {}
      <3>1. temps \subseteq left /\ (Vouched \/ Page \in left)
        BY <2>2 DEF Leftovers, Vouched
      <3>2. queue' = <<Task("reap", l)>>
        BY <1>5, <2>1, <2>4
      <3> QED BY <1>4, <1>5, <1>6, <1>7, <2>1, <2>2, <2>4, <3>1, <3>2
              DEF AloneKnows, Vouched, Task
    <2> QED BY <2>3, <2>4
  <1> QED BY <1>6, <1>7, <1>8 DEF SweepInv, Clean

LEMMA ReadSidecarSweeps ==
    ASSUME PageInv, SweepInv, NEW l \in Lists, ReadSidecar(l) \/ ReadSidecarFails(l)
    PROVE  SweepInv'
  <1>1. PICK pc \in {"check", "done"} :
          /\ pc = "done" => (list[l].seen => Valid(sidecar))
          /\ list' = [list EXCEPT ![l] = [list[l] EXCEPT !.pc = pc]]
          /\ queue' = IF pc = "check" THEN Append(queue, Task("check", l)) ELSE queue
    BY DEF ReadSidecar, ReadSidecarFails, QueueCheck, Listing, lock
  <1>2. /\ list[l].pc = "sidecar"
        /\ bytes' = bytes /\ sidecar' = sidecar /\ temps' = temps /\ step' = step
    BY DEF ReadSidecar, ReadSidecarFails, QueueCheck, files, lock
  <1>3. list[l] \in Listings /\ sidecar \in Puts \cup {NoFile, Torn}
    BY DEF PageInv, TypeOK, Listings
  <1>4. /\ list'[l].pc = pc /\ list'[l].alone = list[l].alone
        /\ list'[l].seen = list[l].seen /\ list'[l].skipped = list[l].skipped
    BY <1>1, <1>3 DEF PageInv, TypeOK, Listings
  <1>5. \A other \in Lists \ {l} : list'[other] = list[other]
    BY <1>1 DEF PageInv, TypeOK
  <1>6. \A other \in Lists \ {l} : ~Clean(other)
    BY <1>2 DEF SweepInv, AloneKnows
  <1>7. ASSUME Clean(l) PROVE AloneKnows(l)'
    <2>1. AloneKnows(l)
      BY <1>7 DEF SweepInv
    <2>2. queue = <<>> /\ temps = {} /\ Vouched /\ list[l].seen = (sidecar # NoFile)
      BY <1>2, <2>1 DEF AloneKnows
    <2>3. \A other \in Lists \ {l} : list'[other].pc \in {"idle", "done"}
      BY <1>5, <2>1 DEF AloneKnows
    <2>4. CASE pc = "check"
      <3>1. queue' = <<Task("check", l)>> /\ step' # "bytes"
        BY <1>1, <1>2, <2>2, <2>4 DEF PageInv, QueueOK
      <3> QED BY <1>2, <1>4, <2>2, <2>3, <2>4, <3>1 DEF AloneKnows, Vouched, Task
    <2>5. CASE pc = "done"
      <3>1. sidecar # Torn
        BY <1>1, <2>2, <2>5, Names
      <3> QED BY <1>1, <1>2, <1>4, <2>2, <2>3, <2>5, <3>1 DEF AloneKnows, Vouched
    <2> QED BY <1>1, <2>4, <2>5
  <1> QED BY <1>4, <1>5, <1>6, <1>7 DEF SweepInv, Clean

(* The listing of the first task, if it is alone, and what it knows. *)
LEMMA AloneAtWork ==
    ASSUME PageInv, SweepInv, queue # <<>>, First.kind \in {"reap", "check"},
           NEW l \in Lists, First.of = l, Clean(l)
    PROVE  /\ \A other \in Lists \ {l} : list[other].pc \in {"idle", "done"}
           /\ list[l].pc = First.kind /\ queue = <<Task(First.kind, l)>>
           /\ First.kind = "reap" =>
                /\ temps \subseteq list[l].left
                /\ Vouched \/ Page \in list[l].left \/ step = "bytes"
                /\ list[l].seen = (sidecar # NoFile)
           /\ First.kind = "check" =>
                /\ temps = {} /\ (Vouched \/ step = "bytes")
                /\ step = "bytes" => sidecar = NoFile
  <1>1. AloneKnows(l)
    BY DEF SweepInv
  <1>2. \/ First.kind = "reap" /\ list[l].pc = "reap"
        \/ First.kind = "check" /\ list[l].pc = "check"
    BY AloneOwnsFirst
  <1> QED BY <1>1, <1>2 DEF AloneKnows

LEMMA ReapSweeps == ASSUME PageInv, SweepInv, ReapStep PROVE SweepInv'
  <1>1. /\ queue # <<>> /\ First.kind = "reap"
        /\ sidecar' = sidecar
    BY DEF ReapStep, ReapTemp, LookAgain, LookAgainFails, ReapLooks, ReapBytes, EndReap,
           Runs, files
  <1>2. PICK l \in Lists : l = First.of
    BY <1>1, OwnListing
  <1>3. list[l] \in Listings
    BY DEF PageInv, TypeOK, Listings
  <1>4. ASSUME NEW t \in Temps, ReapTemp(t) PROVE SweepInv'
    <2>1. PICK state : /\ state = [list[l] EXCEPT !.left = @ \ {t}]
                       /\ Listing(l, state)
      BY <1>2, <1>4 DEF ReapTemp
    <2>2. /\ state.alone = list[l].alone /\ state.pc = list[l].pc
          /\ state.skipped = list[l].skipped
          /\ state.seen = list[l].seen /\ state.left = list[l].left \ {t}
      BY <1>3, <2>1 DEF Listings
    <2>3. /\ queue' = queue /\ step' = step /\ bytes' = bytes /\ temps' = temps \ {t}
          /\ list'[l] = state /\ \A other \in Lists \ {l} : list'[other] = list[other]
      BY <1>4, <2>1 DEF ReapTemp, lock, Listing, PageInv, TypeOK
    <2>4. t # Page
      BY <1>4, Names DEF Temps, Page
    <2>5. ASSUME state.alone, ~state.skipped PROVE AloneKnows(l)'
      <3>1. /\ \A other \in Lists \ {l} : list'[other].pc \in {"idle", "done"}
            /\ state.pc = "reap" /\ queue' = <<Task("reap", l)>>
            /\ temps' \subseteq state.left
            /\ Vouched \/ Page \in state.left \/ step' = "bytes"
            /\ state.seen = (sidecar # NoFile)
        <4>1. /\ Clean(l) /\ First.of = l /\ First.kind \in {"reap", "check"}
              /\ Task("reap", l) = Task(First.kind, l)
          BY <1>1, <1>2, <2>2, <2>5 DEF Clean
        <4>2. /\ \A other \in Lists \ {l} : list[other].pc \in {"idle", "done"}
              /\ list[l].pc = First.kind /\ queue = <<Task(First.kind, l)>>
              /\ temps \subseteq list[l].left
              /\ Vouched \/ Page \in list[l].left \/ step = "bytes"
              /\ list[l].seen = (sidecar # NoFile)
          BY <1>1, <4>1, AloneAtWork
        <4> QED BY <1>1, <2>2, <2>3, <2>4, <4>1, <4>2
      <3> QED BY <1>1, <2>3, <3>1 DEF AloneKnows, Vouched, Task
    <2> QED BY <1>1, <1>2, <2>1, <2>5, OwnTaskKeeps
  <1>5. CASE LookAgain \/ LookAgainFails
    <2>1. PICK state : /\ state = [list[l] EXCEPT !.left = @ \ {Page}]
                       /\ Listing(l, state)
      BY <1>2, <1>5 DEF LookAgain, LookAgainFails, ReapLooks
    <2>2. /\ state.alone = list[l].alone /\ state.pc = list[l].pc
          /\ state.skipped = list[l].skipped
          /\ state.seen = list[l].seen /\ state.left = list[l].left \ {Page}
      BY <1>3, <2>1 DEF Listings
    <2>3. /\ queue' = queue /\ bytes' = bytes /\ temps' = temps
          /\ sidecar = NoFile => step' = "bytes"
          /\ list'[l] = state /\ \A other \in Lists \ {l} : list'[other] = list[other]
      BY <1>5, <2>1
         DEF LookAgain, LookAgainFails, ReapLooks, Goto, files, Listing, PageInv, TypeOK
    <2>4. Page \notin Temps /\ temps \subseteq Temps
      BY Names DEF Temps, Page, PageInv, TypeOK
    <2>5. ASSUME state.alone, ~state.skipped PROVE AloneKnows(l)'
      <3>1. /\ \A other \in Lists \ {l} : list'[other].pc \in {"idle", "done"}
            /\ state.pc = "reap" /\ queue' = <<Task("reap", l)>>
            /\ temps' \subseteq state.left
            /\ state.seen = (sidecar # NoFile)
        BY <1>1, <1>2, <2>2, <2>3, <2>4, <2>5, AloneAtWork DEF Clean
      <3>2. sidecar = NoFile => step' = "bytes"
        BY <2>3
      <3> QED BY <1>1, <2>3, <3>1, <3>2 DEF AloneKnows, Vouched, Task
    <2> QED BY <1>1, <1>2, <2>1, <2>5, OwnTaskKeeps
  <1>6. CASE ReapBytes
    <2>1. /\ queue' = queue /\ bytes' = NoFile /\ temps' = temps /\ list' = list
          /\ Listing(l, list[l])
      BY <1>6 DEF ReapBytes, Goto, Rest, Listing, PageInv, TypeOK
    <2>2. ASSUME Clean(l) PROVE AloneKnows(l)'
      BY <1>1, <1>2, <2>1, <2>2, AloneAtWork DEF AloneKnows, Vouched, Task
    <2> QED BY <1>1, <1>2, <2>1, <2>2, OwnTaskKeeps DEF Clean
  <1>7. CASE EndReap
    <2>1. PICK state : /\ state = IF list[l].pc = "failed" THEN NoList
                                  ELSE [list[l] EXCEPT !.pc = "sidecar"]
                       /\ Listing(l, state)
      BY <1>2, <1>7 DEF EndReap
    <2>2. /\ bytes' = bytes /\ temps' = temps /\ step = "start" /\ list[l].left = {}
          /\ Leave
          /\ list'[l] = state /\ \A other \in Lists \ {l} : list'[other] = list[other]
      BY <1>2, <1>7, <2>1 DEF EndReap, Runs, files, Listing, PageInv, TypeOK
    <2>3. ASSUME state.alone, ~state.skipped PROVE AloneKnows(l)'
      <3>1. /\ state = [list[l] EXCEPT !.pc = "sidecar"]
            /\ state.alone = list[l].alone /\ state.pc = "sidecar"
            /\ state.seen = list[l].seen /\ Clean(l)
        BY <1>3, <2>1, <2>3 DEF Listings, NoList, Clean
      <3>2. /\ \A other \in Lists \ {l} : list'[other].pc \in {"idle", "done"}
            /\ temps = {} /\ Vouched /\ state.seen = (sidecar # NoFile)
        BY <1>1, <1>2, <2>2, <2>3, <3>1, AloneAtWork
      <3>3. queue' = <<>>
        BY <1>1, <2>2, <2>3, <3>1, LeavesNoTask
      <3> QED BY <1>1, <2>2, <3>1, <3>2, <3>3 DEF AloneKnows, Vouched
    <2> QED BY <1>1, <1>2, <2>1, <2>3, OwnTaskKeeps
  <1> QED BY <1>4, <1>5, <1>6, <1>7 DEF ReapStep

LEMMA CheckSweeps == ASSUME PageInv, SweepInv, CheckStep PROVE SweepInv'
  <1>1. queue # <<>> /\ First.kind = "check" /\ temps' = temps
    BY DEF CheckStep, CheckSidecar, CheckSidecarFails, ReapSidecar, SkipSidecar,
           ReapPage, SkipPage, Runs, files
  <1>2. PICK l \in Lists : l = First.of
    BY <1>1, OwnListing
  <1>3. list[l] \in Listings /\ sidecar \in Puts \cup {NoFile, Torn}
    BY DEF PageInv, TypeOK, Listings
  <1>4. PICK done : done = [list[l] EXCEPT !.pc = "done"]
    OBVIOUS
  <1>5. /\ done.pc = "done" /\ done.alone = list[l].alone
        /\ done.skipped = list[l].skipped
    BY <1>3, <1>4 DEF Listings
  (* The check ends: the page is good, or nothing of it is left. *)
  <1>6. ASSUME Leave, Listing(l, done), Clean(l) => sidecar' # Torn /\ Vouched'
        PROVE  SweepInv'
    <2>1. list'[l] = done /\ \A other \in Lists \ {l} : list'[other] = list[other]
      BY <1>6 DEF Listing, PageInv, TypeOK
    <2>2. ASSUME done.alone, ~done.skipped PROVE AloneKnows(l)'
      <3>1. Clean(l)
        BY <1>5, <2>2 DEF Clean
      <3>2. temps = {} /\ \A other \in Lists \ {l} : list'[other].pc \in {"idle", "done"}
        BY <1>1, <1>2, <2>1, <3>1, AloneAtWork
      <3>3. queue' = <<>>
        BY <1>1, <1>6, <3>1, LeavesNoTask
      <3> QED BY <1>1, <1>5, <1>6, <2>1, <3>1, <3>2, <3>3 DEF AloneKnows
    <2> QED BY <1>1, <1>2, <1>6, <2>2, OwnTaskKeeps
  (* The check goes on. *)
  <1>7. ASSUME queue' = queue, list' = list,
               Clean(l) => Vouched' \/ step' = "bytes",
               step' = "bytes" => sidecar' = NoFile
        PROVE  SweepInv'
    <2>1. Listing(l, list[l])
      BY <1>7 DEF Listing, PageInv, TypeOK
    <2>2. ASSUME Clean(l) PROVE AloneKnows(l)'
      BY <1>1, <1>2, <1>7, <2>2, AloneAtWork DEF AloneKnows, Task
    <2> QED BY <1>1, <1>2, <2>1, <2>2, OwnTaskKeeps DEF Clean
  (* A file is passed over: nothing is promised any more. *)
  <1>8. ASSUME NEW state, Listing(l, state), state.skipped PROVE SweepInv'
    BY <1>1, <1>2, <1>8, OwnTaskKeeps
  <1>9. CASE CheckSidecar /\ Valid(sidecar)
    <2>1. Leave /\ Listing(l, done) /\ sidecar' = sidecar /\ bytes' = bytes
      BY <1>2, <1>4, <1>9 DEF CheckSidecar, EndCheck, Listed, files
    <2>2. sidecar' # Torn /\ Vouched'
      BY <1>9, <2>1, Names DEF Vouched
    <2> QED BY <1>6, <2>1, <2>2
  <1>10. ASSUME step = "start", Goto("sidecar"), list' = list, sidecar' = sidecar,
                bytes' = bytes
         PROVE  SweepInv'
    <2>1. Clean(l) => Vouched'
      BY <1>1, <1>2, <1>10, AloneAtWork DEF Vouched
    <2> QED BY <1>7, <1>10, <2>1 DEF Goto
  <1>11. CASE CheckSidecar /\ ~Valid(sidecar)
    BY <1>10, <1>11 DEF CheckSidecar, Rest, Runs, files
  <1>12. CASE CheckSidecarFails
    BY <1>10, <1>12 DEF CheckSidecarFails, Runs, files
  <1>13. CASE ReapSidecar
    BY <1>7, <1>13 DEF ReapSidecar, Goto, Rest
  <1>14. CASE SkipSidecar
    <2>1. Listing(l, Skipped(l)) /\ Skipped(l).skipped
      BY <1>2, <1>3, <1>14 DEF SkipSidecar, Skipped, Listings
    <2> QED BY <1>8, <2>1
  <1>15. CASE ReapPage
    <2>1. step = "bytes" /\ bytes' = NoFile /\ sidecar' = sidecar
      BY <1>15 DEF ReapPage, Runs
    <2>2. Leave /\ Listing(l, done)
      BY <1>2, <1>4, <1>15 DEF ReapPage, EndCheck, Listed
    <2>3. Clean(l) => sidecar = NoFile
      BY <1>1, <1>2, <2>1, AloneAtWork
    <2>4. Clean(l) => sidecar' # Torn /\ Vouched'
      BY <2>1, <2>3, Names DEF Vouched
    <2> QED BY <1>6, <2>2, <2>4
  <1>16. CASE SkipPage
    <2>1. PICK state : state = [Listed(l) EXCEPT !.skipped = TRUE]
      OBVIOUS
    <2>2. Listing(l, state) /\ state.skipped
      BY <1>2, <1>3, <1>16, <2>1 DEF SkipPage, EndCheck, Listed, Listings
    <2> QED BY <1>8, <2>2
  <1> QED BY <1>9, <1>11, <1>12, <1>13, <1>14, <1>15, <1>16 DEF CheckStep

LEMMA FailureSweeps ==
    ASSUME PageInv, SweepInv, Fails \/ ReapFails \/ Crash \/ Damage
    PROVE  SweepInv'
  <1>1. CASE Fails
    BY <1>1, BusyIsNotAlone DEF Fails
  <1>2. CASE ReapFails
    <2>1. queue # <<>> /\ First.kind \in {"reap", "check"}
      BY <1>2 DEF ReapFails
    <2>2. PICK l \in Lists : l = First.of
      BY <2>1, OwnListing
    <2>3. PICK state : Listing(l, state) /\ ~state.alone
      <3>1. \/ Listing(l, NoList)
            \/ \E left : Listing(l, [NoList EXCEPT !.pc = "failed", !.left = left])
        BY <1>2, <2>2 DEF ReapFails
      <3>2. ~NoList.alone
        BY DEF NoList
      <3>3. \A left : ~[NoList EXCEPT !.pc = "failed", !.left = left].alone
        BY DEF NoList
      <3> QED BY <3>1, <3>2, <3>3
    <2> QED BY <2>1, <2>2, <2>3, OwnTaskKeeps
  <1>3. CASE Crash
    BY <1>3 DEF Crash, SweepInv, Clean, NoList
  <1>4. CASE Damage
    BY <1>4, NobodyAloneKeeps DEF Damage, PageInv
  <1> QED BY <1>1, <1>2, <1>3, <1>4

LEMMA SweepStep == ASSUME PageInv, SweepInv, [Next]_vars PROVE SweepInv'
  <1>1. CASE (\E p \in Puts : CallPut(p) \/ RepeatPut(p)) \/ CallDelete
    BY <1>1, NobodyAloneKeeps DEF CallPut, RepeatPut, CallDelete, PageInv
  <1>2. CASE PutStep \/ DeleteStep
    BY <1>2, BusyIsNotAlone
       DEF PutStep, RemoveSidecar, WriteTemp, RenameBytes, RenameSidecar, MissRoot,
           DeleteStep, DeleteSidecar, DeleteBytes, Runs, Rest
  <1>3. CASE ReapStep \/ CheckStep
    BY <1>3, ReapSweeps, CheckSweeps
  <1>4. CASE \E l \in Lists : ReadDirectory(l) \/ ReadSidecar(l) \/ ReadSidecarFails(l)
    BY <1>4, ReadDirectorySweeps, ReadSidecarSweeps
  <1>5. CASE Fails \/ ReapFails \/ Crash \/ Damage
    BY <1>5, FailureSweeps
  <1>6. CASE MakeRoot \/ UNCHANGED vars
    <2>1. /\ bytes' = bytes /\ sidecar' = sidecar /\ temps' = temps
          /\ queue' = queue /\ step' = step /\ list' = list
      BY <1>6 DEF MakeRoot, vars, files, lock
    <2> QED BY <2>1 DEF SweepInv, Clean, AloneKnows, Vouched, Task
  <1> QED BY <1>1, <1>2, <1>3, <1>4, <1>5, <1>6 DEF Next, TaskStep

-----------------------------------------------------------------------------
(* The theorems *)

LEMMA TaskStepKeeps == ASSUME PageInv, TaskStep PROVE PageInv'
  <1>1. CASE PutStep
    BY <1>1, RemoveSidecarKeeps, WriteTempKeeps, RenameBytesKeeps, RenameSidecarKeeps,
       MissRootKeeps DEF PutStep
  <1>2. CASE DeleteStep
    BY <1>2, DeleteSidecarKeeps, DeleteBytesKeeps DEF DeleteStep
  <1>3. CASE ReapStep
    BY <1>3, ReapTempKeeps, LookAgainKeeps, ReapBytesKeeps, EndReapKeeps DEF ReapStep
  <1>4. CASE CheckStep
    BY <1>4, CheckSidecarKeeps, ReapSidecarKeeps, ReapPageKeeps DEF CheckStep
  <1> QED BY <1>1, <1>2, <1>3, <1>4 DEF TaskStep

LEMMA PageStep == ASSUME PageInv, [Next]_vars PROVE PageInv'
  <1>1. CASE (\E p \in Puts : CallPut(p) \/ RepeatPut(p)) \/ CallDelete
    BY <1>1, CallPutKeeps, RepeatPutKeeps, CallDeleteKeeps
  <1>2. CASE TaskStep
    BY <1>2, TaskStepKeeps
  <1>3. CASE \E l \in Lists : ReadDirectory(l) \/ ReadSidecar(l) \/ ReadSidecarFails(l)
    BY <1>3, ReadDirectoryKeeps, ReadSidecarKeeps
  <1>4. CASE Fails \/ ReapFails \/ Crash \/ Damage \/ MakeRoot
    BY <1>4, FailsKeeps, ReapFailsKeeps, CrashKeeps, DamageKeeps, MakeRootKeeps
  <1>5. CASE UNCHANGED vars
    <2>1. /\ bytes' = bytes /\ sidecar' = sidecar /\ temps' = temps
          /\ queue' = queue /\ step' = step /\ list' = list /\ puts' = puts
          /\ settled' = settled /\ misread' = misread /\ root' = root
      BY <1>5 DEF vars, files, lock, history
    <2>2. TypeOK' /\ QueueOK'
      BY <2>1 DEF PageInv, TypeOK, QueueOK, OwnTask, Tasks
    <2>3. Phases' /\ NoStaleSidecar' /\ SettledPageStays'
      BY <2>1 DEF PageInv, Phases, Past, First, Valid, NoStaleSidecar, SettledPageStays
    <2> QED BY <2>2, <2>3 DEF PageInv
  <1> QED BY <1>1, <1>2, <1>3, <1>4, <1>5 DEF Next

LEMMA PageInvariant == Spec => []PageInv
  <1>1. PageInv /\ [Next]_vars => PageInv'
    BY PageStep
  <1> QED BY <1>1, PageInit, PTL DEF Spec

(***************************************************************************)
(* Files, queue and listings have their types in every reachable state     *)
(* (page-store.ts).                                                        *)
(***************************************************************************)
THEOREM PageTypeSafe == Spec => []TypeOK
  <1>1. PageInv => TypeOK
    BY DEF PageInv
  <1> QED BY <1>1, PageInvariant, PTL

(***************************************************************************)
(* No sidecar ever vouches for the bytes of another put, for any number of *)
(* puts, deletes, listings, failures, crashes and damaged files (put).     *)
(***************************************************************************)
THEOREM SidecarTheorem == Spec => []NoStaleSidecar
  <1>1. PageInv => NoStaleSidecar
    BY DEF PageInv
  <1> QED BY <1>1, PageInvariant, PTL

(***************************************************************************)
(* A page that a put or a delete has settled stays as it is until the next *)
(* one begins, unless a listing has failed to look at its sidecar while it *)
(* held the lock: listings with a stale view never reap it (listKeys,      *)
(* page-store.ts:310-350), and withRoot's second try never tears it.       *)
(***************************************************************************)
THEOREM SettledTheorem == Spec => []SettledPageStays
  <1>1. PageInv => SettledPageStays
    BY DEF PageInv
  <1> QED BY <1>1, PageInvariant, PTL

(***************************************************************************)
(* A listing during which nothing else was called, and which passed over   *)
(* no file it failed to look at, leaves behind no temporary, no torn       *)
(* sidecar and no bytes without a sidecar, whatever the puts, crashes and  *)
(* damage before it have left and whichever reads of it failed (listKeys). *)
(***************************************************************************)
THEOREM SweepTheorem == Spec => []SweepsReapLeftovers
  <1>1. PageInv /\ SweepInv /\ [Next]_vars => SweepInv'
    BY SweepStep
  <1>2. PageInv /\ SweepInv => SweepsReapLeftovers
    <2> SUFFICES ASSUME PageInv, SweepInv, NEW l \in Lists,
                        list[l].pc = "done", Clean(l)
                 PROVE  temps = {} /\ sidecar # Torn /\ (bytes # NoFile => Valid(sidecar))
      BY DEF SweepsReapLeftovers, Clean
    <2>1. temps = {} /\ Vouched /\ sidecar # Torn
      BY DEF SweepInv, AloneKnows
    <2>2. sidecar \in Puts \cup {NoFile, Torn}
      BY DEF PageInv, TypeOK
    <2> QED BY <2>1, <2>2 DEF Vouched, Valid
  <1> QED BY <1>1, <1>2, SweepInit, PageInvariant, PTL DEF Spec

=============================================================================
