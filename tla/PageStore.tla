----------------------------- MODULE PageStore -----------------------------
(***************************************************************************)
(* The page store of the desktop's main process: page-store.ts.  A page is *)
(* two files, its bytes and a sidecar that vouches for them; files on the  *)
(* way are temporaries, renamed when they are complete.  Writes, deletes   *)
(* and the deletes of a listing, which reaps what interrupted writes left  *)
(* behind, take turns in a queue per page.  The listing itself does not:   *)
(* what it read of the directory is stale when its turn comes.  The        *)
(* process may die between any two file operations, and a look at a file   *)
(* may fail: the store takes that for a file that is not there.            *)
(*                                                                         *)
(* One page: pages share no file and no queue.  An action is a file        *)
(* operation, with the code up to the next one.  Every put brings other    *)
(* bytes than any before it; a file is named by the put that wrote it.     *)
(***************************************************************************)
EXTENDS Sequences, Naturals

CONSTANTS
    Puts,        \* calls of put, each with bytes of its own
    Lists,       \* listings that may be under way at once
    NoFile, Torn, Unknown,
    MaxDeletes, MaxLists, MaxFailures, MaxLooks, MaxCrashes,
    MaxDamage    \* bounds

ASSUME PageStoreAssumption ==
    /\ {NoFile, Torn, Unknown} \cap Puts = {}
    /\ NoFile # Torn /\ NoFile # Unknown
    /\ {MaxDeletes, MaxLists, MaxFailures, MaxLooks, MaxCrashes, MaxDamage}
         \subseteq Nat

VARIABLES
    root,            \* does the directory exist?
    bytes, sidecar,  \* the files of the page
    temps,           \* temporaries: <<put, "bytes">>, <<put, "sidecar">>
    queue, step,     \* locks: the tasks of the page, and where the first one is
    list,            \* listings
    puts,            \* how often each put was tried: withRoot
    count            \* what the bounds bound

(* History: what the last task that wrote the page has left, if it ended   *)
(* well and nothing but the store has touched the files since; and whether *)
(* the store has since taken a failed look at the sidecar for its absence. *)
VARIABLES settled, misread

files == <<root, bytes, sidecar, temps>>
lock == <<queue, step>>
history == <<settled, misread>>
vars == <<files, lock, list, puts, count, history>>

NoList ==
    [pc |-> "idle", left |-> {}, seen |-> FALSE, alone |-> FALSE, skipped |-> FALSE]

Temps == Puts \X {"bytes", "sidecar"}

(* What a listing may find left over: temporaries, and the page's bytes. *)
Page == <<NoFile, "bytes">>

Init ==
    /\ root = TRUE
    /\ bytes = NoFile
    /\ sidecar = NoFile
    /\ temps = {}
    /\ queue = <<>>
    /\ step = "start"
    /\ list = [l \in Lists |-> NoList]
    /\ puts = [p \in Puts |-> "new"]
    /\ count = [deletes |-> 0, lists |-> 0, failures |-> 0, looks |-> 0,
                crashes |-> 0, damage |-> 0]
    /\ settled = NoFile
    /\ misread = FALSE

(* parseSidecar: a sidecar that can be served or listed. *)
Valid(s) == s \in Puts

Counted(what, max) ==
    /\ count[what] < max
    /\ count' = [count EXCEPT ![what] = @ + 1]

(* A listing is alone while nothing else has been called. *)
NobodyIsAlone == [l \in Lists |-> [list[l] EXCEPT !.alone = FALSE]]

-----------------------------------------------------------------------------
(* The queue of the page: withLock.  A task is a put, a delete, or a       *)
(* listing's: to reap what is left over, or to check the sidecar.          *)

Task(kind, of) == [kind |-> kind, of |-> of]

First == Head(queue)

(* The first task is of this kind and has come to this step. *)
Runs(kind, at) ==
    /\ queue # <<>>
    /\ First.kind = kind
    /\ step = at

(* Ids between their first write and their sidecar's rename. *)
Writing == queue # <<>> /\ First.kind = "put" /\ step # "start"

Goto(next) ==
    /\ step' = next
    /\ UNCHANGED queue

(* The tail never rejects: a task that fails makes room as well. *)
Leave ==
    /\ queue' = Tail(queue)
    /\ step' = "start"

CallPut(p) ==
    /\ puts[p] = "new"
    /\ puts' = [puts EXCEPT ![p] = "called"]
    /\ queue' = Append(queue, Task("put", p))
    /\ list' = NobodyIsAlone
    /\ UNCHANGED <<files, step, count, history>>

CallDelete ==
    /\ Counted("deletes", MaxDeletes)
    /\ queue' = Append(queue, Task("delete", NoFile))
    /\ list' = NobodyIsAlone
    /\ UNCHANGED <<files, step, puts, history>>

-----------------------------------------------------------------------------
(* put *)

Rest == UNCHANGED <<list, puts, count>>

(* Mutated form of RemoveSidecar: the old sidecar stays until it is replaced. *)
KeepSidecar ==
    /\ Runs("put", "start")
    /\ settled' = Unknown
    /\ Goto("bytes")
    /\ Rest /\ UNCHANGED <<files, misread>>

(* The earlier sidecar goes first. *)
RemoveSidecar ==
    /\ Runs("put", "start")
    /\ sidecar' = NoFile
    /\ settled' = Unknown
    /\ Goto("bytes")
    /\ Rest /\ UNCHANGED <<root, bytes, temps, misread>>

(* Mutated form of WriteTemp: temporaries have no name of their own. *)
WriteSharedTemp(what) ==
    /\ Runs("put", what)
    /\ root
    /\ temps' = temps \cup {<<NoFile, what>>}
    /\ Goto(IF what = "bytes" THEN "rename bytes" ELSE "rename sidecar")
    /\ Rest /\ UNCHANGED <<root, bytes, sidecar, history>>

(* writeAtomic: the temporary is written and synced, and then renamed. *)
WriteTemp(what) ==
    /\ Runs("put", what)
    /\ root
    /\ temps' = temps \cup {<<First.of, what>>}
    /\ Goto(IF what = "bytes" THEN "rename bytes" ELSE "rename sidecar")
    /\ Rest /\ UNCHANGED <<root, bytes, sidecar, history>>

RenameBytes ==
    /\ Runs("put", "rename bytes")
    /\ <<First.of, "bytes">> \in temps
    /\ bytes' = First.of
    /\ temps' = temps \ {<<First.of, "bytes">>}
    /\ Goto("sidecar")
    /\ Rest /\ UNCHANGED <<root, sidecar, history>>

RenameSidecar ==
    /\ Runs("put", "rename sidecar")
    /\ <<First.of, "sidecar">> \in temps
    /\ sidecar' = First.of
    /\ temps' = temps \ {<<First.of, "sidecar">>}
    /\ settled' = IF bytes = First.of THEN First.of ELSE Unknown
    /\ misread' = FALSE
    /\ Leave
    /\ Rest /\ UNCHANGED <<root, bytes>>

(* The directory has vanished under the put, and its files with it. *)
RootIsGone ==
    \/ step \in {"bytes", "sidecar"} /\ ~root
    \/ step = "rename bytes" /\ <<First.of, "bytes">> \notin temps
    \/ step = "rename sidecar" /\ <<First.of, "sidecar">> \notin temps

(* ENOENT: the put leaves the queue; withRoot repeats it, once. *)
MissRoot ==
    /\ queue # <<>> /\ First.kind = "put"
    /\ RootIsGone
    /\ puts' = [puts EXCEPT ![First.of] = IF @ = "called" THEN "again" ELSE @]
    /\ Leave
    /\ UNCHANGED <<files, list, count, history>>

(* The root is made again and the put takes its turn behind the others. *)
RepeatPut(p) ==
    /\ puts[p] = "again"
    /\ puts' = [puts EXCEPT ![p] = "repeated"]
    /\ root' = TRUE
    /\ queue' = Append(queue, Task("put", p))
    /\ list' = NobodyIsAlone
    /\ UNCHANGED <<bytes, sidecar, temps, step, count, history>>

-----------------------------------------------------------------------------
(* delete: the sidecar first, so that the page is not served any more *)

DeleteSidecar ==
    /\ Runs("delete", "start")
    /\ sidecar' = NoFile
    /\ settled' = Unknown
    /\ Goto("bytes")
    /\ Rest /\ UNCHANGED <<root, bytes, temps, misread>>

DeleteBytes ==
    /\ Runs("delete", "bytes")
    /\ bytes' = NoFile
    /\ settled' = NoFile
    /\ misread' = FALSE
    /\ Leave
    /\ Rest /\ UNCHANGED <<root, sidecar, temps>>

-----------------------------------------------------------------------------
(* listKeys *)

Listing(l, state) == list' = [list EXCEPT ![l] = state]

(* Mutated form of Leftovers: bytes that no sidecar vouches for are kept. *)
LeftoverTemps == temps

(* Temporaries, and bytes whose sidecar never landed or was deleted first. *)
Leftovers == temps \cup (IF bytes # NoFile /\ sidecar = NoFile THEN {Page} ELSE {})

(***************************************************************************)
(* The directory is read, and made when it is not there; a page that is    *)
(* being written is passed over.                                           *)
(***************************************************************************)
ReadDirectory(l) ==
    /\ list[l].pc \in {"idle", "done"}
    /\ Counted("lists", MaxLists)
    /\ root' = TRUE
    /\ LET left == IF Writing THEN {} ELSE Leftovers
       IN  /\ list' = [NobodyIsAlone EXCEPT ![l] =
                [pc |-> IF left = {} THEN "sidecar" ELSE "reap",
                 left |-> left,
                 seen |-> ~Writing /\ sidecar # NoFile,
                 alone |-> /\ queue = <<>>
                           /\ \A p \in Puts : puts[p] # "again"
                           /\ \A other \in Lists \ {l} : list[other].pc \in {"idle", "done"},
                 skipped |-> FALSE]]
           /\ queue' = IF left = {} THEN queue ELSE Append(queue, Task("reap", l))
    /\ UNCHANGED <<bytes, sidecar, temps, step, puts, history>>

ReapTemp(t) ==
    /\ Runs("reap", "start")
    /\ t \in list[First.of].left
    /\ t \in Temps
    /\ temps' = temps \ {t}
    /\ Listing(First.of, [list[First.of] EXCEPT !.left = @ \ {t}])
    /\ UNCHANGED <<root, bytes, sidecar, lock, puts, count, history>>

(* The page's bytes were left over when the directory was read. *)
ReapLooks ==
    /\ Runs("reap", "start")
    /\ Page \in list[First.of].left
    /\ Listing(First.of, [list[First.of] EXCEPT !.left = @ \ {Page}])
    /\ UNCHANGED <<files, puts, settled>>

(* Mutated form of LookAgain: the listing is trusted. *)
LookOnce ==
    /\ ReapLooks
    /\ Goto("bytes")
    /\ UNCHANGED <<count, misread>>

(* A put may have finished since the directory was read. *)
LookAgain ==
    /\ ReapLooks
    /\ Goto(IF sidecar = NoFile THEN "bytes" ELSE "start")
    /\ UNCHANGED <<count, misread>>

(* lstat fails, whatever for: "no sidecar", and the bytes go. *)
LookAgainFails ==
    /\ ReapLooks
    /\ Counted("looks", MaxLooks)
    /\ Goto("bytes")
    /\ misread' = (misread \/ sidecar # NoFile)

ReapBytes ==
    /\ Runs("reap", "bytes")
    /\ bytes' = NoFile
    /\ Goto("start")
    /\ Rest /\ UNCHANGED <<root, sidecar, temps, history>>

(* Mutated form of EndReap: a listing that has failed is not told. *)
EndReapUntold ==
    /\ Runs("reap", "start")
    /\ list[First.of].left = {}
    /\ Listing(First.of, [list[First.of] EXCEPT !.pc = IF @ = "failed" THEN @ ELSE "sidecar"])
    /\ Leave
    /\ UNCHANGED <<files, puts, count, history>>

(* Every leftover is dealt with.  A listing that has failed is over. *)
EndReap ==
    /\ Runs("reap", "start")
    /\ list[First.of].left = {}
    /\ Listing(First.of, IF list[First.of].pc = "failed" THEN NoList
                         ELSE [list[First.of] EXCEPT !.pc = "sidecar"])
    /\ Leave
    /\ UNCHANGED <<files, puts, count, history>>

(* One that can never be served is left over too: it is to be checked. *)
QueueCheck(l) ==
    /\ list[l].pc = "sidecar"
    /\ list[l].seen
    /\ Listing(l, [list[l] EXCEPT !.pc = "check"])
    /\ queue' = Append(queue, Task("check", l))
    /\ UNCHANGED <<files, step, puts, history>>

(* readSidecar, outside the queue. *)
ReadSidecar(l) ==
    \/ ~Valid(sidecar) /\ QueueCheck(l) /\ UNCHANGED count
    \/ /\ list[l].pc = "sidecar"
       /\ list[l].seen => Valid(sidecar)
       /\ Listing(l, [list[l] EXCEPT !.pc = "done"])
       /\ UNCHANGED <<files, lock, puts, count, history>>

(* lstat or readFile fails: read as a sidecar that is not there. *)
ReadSidecarFails(l) ==
    /\ QueueCheck(l)
    /\ Counted("looks", MaxLooks)

EndCheck(state) ==
    /\ Leave
    /\ Listing(First.of, state)
    /\ UNCHANGED puts

Listed(l) == [list[l] EXCEPT !.pc = "done"]

Skipped(l) == [list[l] EXCEPT !.skipped = TRUE]

(* It is read again: a put may have rewritten it. *)
CheckSidecar ==
    /\ Runs("check", "start")
    /\ IF Valid(sidecar)
       THEN EndCheck(Listed(First.of)) /\ UNCHANGED count
       ELSE Goto("sidecar") /\ Rest
    /\ UNCHANGED <<files, history>>

(* It cannot be read: no better than one that is torn. *)
CheckSidecarFails ==
    /\ Runs("check", "start")
    /\ Counted("looks", MaxLooks)
    /\ Goto("sidecar")
    /\ misread' = (misread \/ Valid(sidecar))
    /\ UNCHANGED <<files, list, puts, settled>>

ReapSidecar ==
    /\ Runs("check", "sidecar")
    /\ sidecar' = NoFile
    /\ Goto("bytes")
    /\ Rest /\ UNCHANGED <<root, bytes, temps, history>>

(* A file that lstat fails on is passed over without a word. *)
SkipSidecar ==
    /\ Runs("check", "sidecar")
    /\ Counted("looks", MaxLooks)
    /\ Goto("bytes")
    /\ Listing(First.of, Skipped(First.of))
    /\ UNCHANGED <<files, puts, history>>

ReapPage ==
    /\ Runs("check", "bytes")
    /\ bytes' = NoFile
    /\ EndCheck(Listed(First.of))
    /\ UNCHANGED <<root, sidecar, temps, count, history>>

SkipPage ==
    /\ Runs("check", "bytes")
    /\ Counted("looks", MaxLooks)
    /\ EndCheck([Listed(First.of) EXCEPT !.skipped = TRUE])
    /\ UNCHANGED <<files, history>>

-----------------------------------------------------------------------------
(* Failures *)

(* An operation of a put or a delete is refused: what is written stays. *)
Fails ==
    /\ queue # <<>> /\ First.kind \in {"put", "delete"}
    /\ Counted("failures", MaxFailures)
    /\ settled' = Unknown
    /\ Leave
    /\ UNCHANGED <<files, list, puts, misread>>

(* A delete of a listing is refused: the listing fails, its turn goes on. *)
ReapFails ==
    /\ queue # <<>> /\ First.kind \in {"reap", "check"}
    /\ Counted("failures", MaxFailures)
    /\ IF First.kind = "check"
       THEN Leave /\ Listing(First.of, NoList)
       ELSE /\ Goto("start")
            /\ \E left \in SUBSET list[First.of].left :
                Listing(First.of, [NoList EXCEPT !.pc = "failed", !.left = left])
    /\ UNCHANGED <<files, puts, history>>

(* The process dies; the files stay as they are. *)
Crash ==
    /\ Counted("crashes", MaxCrashes)
    /\ queue' = <<>>
    /\ step' = "start"
    /\ list' = [l \in Lists |-> NoList]
    /\ puts' = [p \in Puts |-> IF puts[p] = "again" THEN "repeated" ELSE puts[p]]
    /\ UNCHANGED <<files, history>>

(* What the store does not do: a file is torn or lost, or all of them are. *)
Damage ==
    /\ Counted("damage", MaxDamage)
    /\ \/ sidecar # NoFile /\ sidecar' = Torn /\ UNCHANGED <<root, bytes, temps>>
       \/ bytes # NoFile /\ bytes' = NoFile /\ UNCHANGED <<root, sidecar, temps>>
       \/ /\ root
          /\ root' = FALSE
          /\ bytes' = NoFile
          /\ sidecar' = NoFile
          /\ temps' = {}
    /\ settled' = Unknown
    /\ list' = NobodyIsAlone
    /\ UNCHANGED <<lock, puts, misread>>

(* A call for another page, or the next start, has made the root again. *)
MakeRoot ==
    /\ ~root
    /\ root' = TRUE
    /\ UNCHANGED <<bytes, sidecar, temps, lock, list, puts, count, history>>

-----------------------------------------------------------------------------
PutStep == RemoveSidecar \/ (\E what \in {"bytes", "sidecar"} : WriteTemp(what))
    \/ RenameBytes \/ RenameSidecar \/ MissRoot

DeleteStep == DeleteSidecar \/ DeleteBytes

ReapStep == (\E t \in Temps : ReapTemp(t)) \/ LookAgain \/ LookAgainFails
    \/ ReapBytes \/ EndReap

CheckStep == CheckSidecar \/ CheckSidecarFails \/ ReapSidecar \/ SkipSidecar
    \/ ReapPage \/ SkipPage

TaskStep == PutStep \/ DeleteStep \/ ReapStep \/ CheckStep

Next ==
    \/ \E p \in Puts : CallPut(p) \/ RepeatPut(p)
    \/ CallDelete
    \/ TaskStep
    \/ \E l \in Lists : ReadDirectory(l) \/ ReadSidecar(l) \/ ReadSidecarFails(l)
    \/ Fails \/ ReapFails \/ Crash \/ Damage \/ MakeRoot

Spec == Init /\ [][Next]_vars

(* File operations return, and withRoot repeats what it has to. *)
Fairness ==
    /\ WF_vars(TaskStep)
    /\ \A p \in Puts : WF_vars(RepeatPut(p))
    /\ \A l \in Lists : WF_vars(ReadSidecar(l))

FairSpec == Spec /\ Fairness

-----------------------------------------------------------------------------
(* Properties *)

Kinds == {"put", "delete", "reap", "check"}

Steps == {"start", "bytes", "rename bytes", "sidecar", "rename sidecar"}

TypeOK ==
    /\ root \in BOOLEAN
    /\ bytes \in Puts \cup {NoFile}
    /\ sidecar \in Puts \cup {NoFile, Torn}
    /\ temps \subseteq Temps
    /\ queue \in Seq([kind : Kinds, of : Puts \cup {NoFile} \cup Lists])
    /\ step \in Steps
    /\ list \in [Lists -> [pc : {"idle", "reap", "sidecar", "check", "failed", "done"},
                           left : SUBSET (Temps \cup {Page}),
                           seen : BOOLEAN, alone : BOOLEAN, skipped : BOOLEAN]]
    /\ puts \in [Puts -> {"new", "called", "again", "repeated"}]
    /\ settled \in Puts \cup {NoFile, Unknown}
    /\ misread \in BOOLEAN

(***************************************************************************)
(* A sidecar never vouches for the bytes of another put, whatever fails,   *)
(* crashes or is reaped in between ("never new bytes beside a stale        *)
(* sidecar", put).                                                         *)
(***************************************************************************)
NoStaleSidecar == Valid(sidecar) /\ bytes # NoFile => bytes = sidecar

(***************************************************************************)
(* A page stays as the last put or delete has left it until the next one   *)
(* begins: no listing that read the directory earlier reaps it, and no     *)
(* crash loses it (listKeys, which decides "on the disk as it is, under    *)
(* the id's lock").  One exception, named: the listing's look at the       *)
(* sidecar failed while it held the lock.  Any error of lstat or readFile  *)
(* reads as "no sidecar" (page-store.ts:187-193, :318), and then it reaps  *)
(* the settled page.                                                       *)
(***************************************************************************)
SettledPageStays ==
    settled # Unknown /\ ~misread => bytes = settled /\ sidecar = settled

(***************************************************************************)
(* A listing during which nothing else was called leaves nothing behind    *)
(* that can never be served, after any sequence of failed writes, crashes, *)
(* failed looks and torn sidecars; unless it passed over a file of a page  *)
(* it was to reap because lstat failed on it (:342-344), which it does not *)
(* report.                                                                 *)
(***************************************************************************)
SweepsReapLeftovers ==
    \A l \in Lists : list[l].pc = "done" /\ list[l].alone /\ ~list[l].skipped =>
        /\ temps = {}
        /\ sidecar # Torn
        /\ bytes # NoFile => Valid(sidecar)

CallsPending ==
    \/ queue # <<>>
    \/ \E p \in Puts : puts[p] = "again"
    \/ \E l \in Lists : list[l].pc \notin {"idle", "done"}

(***************************************************************************)
(* Every call is answered: a failed task does not block the ones behind    *)
(* it, and a listing, which waits in the queue up to twice, ends (withLock:*)
(* "one failed task cannot block or poison the next").                     *)
(***************************************************************************)
CallsEnd ==
    CallsPending ~> ~CallsPending

=============================================================================
