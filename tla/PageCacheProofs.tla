--------------------------- MODULE PageCacheProofs ---------------------------
(***************************************************************************)
(* Proofs about PageCache, for any pages, chapters, fills, readers, passes *)
(* and bounds.  Two lines of argument: a key whose bytes are about to be   *)
(* deleted has no row and no writer while the delete holds its lock; and   *)
(* what a pass has learnt of the readers stays true of those that were     *)
(* there when it looked.                                                   *)
(***************************************************************************)
EXTENDS PageCache, FiniteSetTheorems, TLAPS

FillRecord == [pc : {"idle", "lock", "put", "row"}, key : Keys \cup {None}]

(* A fill that is under way has a page. *)
FillState == {s \in FillRecord : s = NoFill \/ (s.key \in Keys /\ s.pc # "idle")}

(* A reader that is there has a chapter. *)
ReaderState ==
    {s \in [pc : {"out", "waiting", "present", "open"}, chapter : Chapters \cup {None}] :
        s.pc # "out" => s.chapter \in Chapters}

PassRecord ==
    [pc : {"idle", "summary", "probe", "list", "rows", "blobs", "again", "known", "orphans"},
     kind : {"maintain", "trim", "remove"}, chapter : Chapters \cup {None}, excess : Nat,
     holds : BOOLEAN, spared : SUBSET Chapters, known : SUBSET Keys,
     chosen : SUBSET Keys, doomed : SUBSET Keys]

(* Keys are chosen for the last two positions, and doomed in the last. *)
PassState ==
    {s \in PassRecord :
        /\ s.pc \notin {"rows", "blobs"} => s.chosen = {}
        /\ s.pc # "blobs" => s.doomed = {}}

Types ==
    /\ blobs \subseteq Keys
    /\ row \in [Keys -> {"none"} \cup Retention]
    /\ fill \in [Fills -> FillState]
    /\ mark \in [Marks -> [Keys -> {"none"} \cup Retention]]
    /\ reader \in [Readers -> ReaderState]
    /\ pass \in [Passes -> PassState]
    /\ asked \in BOOLEAN /\ timer \in BOOLEAN
    /\ late \in [Passes -> SUBSET Readers]
    /\ revived \subseteq Keys /\ robbed \subseteq Keys

(* The exclusive lock: nobody reads beside a pass that holds presence. *)
PresenceOK == \A p \in Passes : pass[p].holds => Present = {}

(* The positions of a pass that has looked for readers. *)
Looked == {"list", "rows", "blobs", "known", "orphans"}

(* A pass that found readers has noted the chapters of those that are there *)
(* since, and takes no page of a chapter it has noted.                      *)
Spares(s, since) ==
    s.pc \in Looked /\ s.kind # "remove" =>
        /\ \/ s.holds
           \/ \A r \in Readers :
                reader[r].pc = "open" /\ r \notin since => reader[r].chapter \in s.spared
        /\ \A k \in s.chosen \cup s.doomed : ChapterOf[k] \notin s.spared

SparedOK == \A p \in Passes : Spares(pass[p], late[p])

(* The key's lock: bytes about to be deleted have no writer, and no row *)
(* but one that a mark has written since.                               *)
DoomedOK ==
    \A p \in Passes : \A k \in pass[p].doomed : k \notin Rows \ revived /\ ~Writing(k)

CacheInv == Types /\ PresenceOK /\ SparedOK /\ DoomedOK

(* In the web build the bytes are put under the lock the row is written in. *)
BytesBeforeRow == \A f \in Fills : fill[f].pc = "row" => fill[f].key \in blobs

BlobInv == BytesBeforeRow /\ RowNeverOutlivesItsBlob

-----------------------------------------------------------------------------
(* States *)

LEMMA StatesAreLegal ==
    /\ NoFill \in FillState /\ NoReader \in ReaderState /\ NoPass \in PassState
    /\ [NoPass EXCEPT !.pc = "summary"] \in PassState
    /\ [NoPass EXCEPT !.pc = "again"] \in PassState
  BY DEF NoFill, NoReader, NoPass, FillState, FillRecord, Retention, ReaderState,
         PassState, PassRecord

LEMMA CacheInit == Init => CacheInv
  <1> SUFFICES ASSUME Init PROVE CacheInv
    OBVIOUS
  <1>1. Types
    BY StatesAreLegal DEF Init, Types, NoMark
  <1>2. PresenceOK /\ SparedOK /\ DoomedOK
    BY DEF Init, PresenceOK, SparedOK, Spares, Looked, DoomedOK, NoPass
  <1> QED BY <1>1, <1>2 DEF CacheInv

-----------------------------------------------------------------------------
(* Fills, marks and other tabs: no pass and no reader changes *)

(* A fill may become a writer of its key only if nobody deletes it, and a  *)
(* row is written by a writer, or by a mark.                               *)
LEMMA FillKeeps ==
    ASSUME CacheInv, fill' \in [Fills -> FillState], blobs' \subseteq Keys,
           row' \in [Keys -> {"none"} \cup Retention],
           mark' \in [Marks -> [Keys -> {"none"} \cup Retention]],
           revived' \subseteq Keys, robbed' \subseteq Keys,
           UNCHANGED <<reader, pass, scheduler, late>>,
           \A k \in Keys : Deleting(k) => ~(Writing(k))' /\ k \notin (Rows \ revived)'
    PROVE  CacheInv'
  <1>1. /\ reader' = reader /\ pass' = pass /\ asked' = asked /\ timer' = timer
        /\ late' = late
    BY DEF scheduler
  <1>2. Types'
    BY <1>1 DEF CacheInv, Types
  <1>3. PresenceOK' /\ SparedOK'
    BY <1>1 DEF CacheInv, PresenceOK, Present, SparedOK, Spares
  <1>4. DoomedOK'
    <2> SUFFICES ASSUME NEW p \in Passes, NEW k \in pass[p].doomed
                 PROVE  k \notin (Rows \ revived)' /\ ~(Writing(k))'
      BY <1>1 DEF DoomedOK
    <2>1. Deleting(k) /\ k \in Keys
      BY DEF Deleting, CacheInv, Types, PassState, PassRecord
    <2> QED BY <2>1
  <1> QED BY <1>2, <1>3, <1>4 DEF CacheInv

(* Nobody writes a key that is being deleted; only a mark has written its row. *)
LEMMA DeletedIsFree ==
    ASSUME CacheInv, NEW k, Deleting(k)
    PROVE  ~Writing(k) /\ k \notin Rows \ revived
  BY DEF CacheInv, DoomedOK, Deleting

(* The fill that moves is the only one that can become a writer. *)
LEMMA OneFillMoves ==
    ASSUME CacheInv, NEW f \in Fills, NEW s \in FillState, fill' = [fill EXCEPT ![f] = s],
           s.pc \in Covered => ~Deleting(s.key)
    PROVE  /\ fill' \in [Fills -> FillState]
           /\ \A k \in Keys : Deleting(k) => ~(Writing(k))'
  <1>1. fill' \in [Fills -> FillState] /\ fill'[f] = s
        /\ \A g \in Fills \ {f} : fill'[g] = fill[g]
    BY DEF CacheInv, Types
  <1>2. ASSUME NEW k \in Keys, Deleting(k), NEW g \in Fills,
               fill'[g].key = k, fill'[g].pc \in Covered
        PROVE  FALSE
    BY <1>1, <1>2, DeletedIsFree DEF Writing
  <1> QED BY <1>1, <1>2 DEF Writing, Covered

(* A fill that moves and writes no row. *)
LEMMA FillMoves ==
    ASSUME CacheInv, NEW f \in Fills, NEW s \in FillState, fill' = [fill EXCEPT ![f] = s],
           s.pc \in Covered => ~Deleting(s.key),
           row' = row, blobs' \subseteq Keys,
           UNCHANGED <<mark, reader, pass, scheduler, late, lost>>
    PROVE  CacheInv'
  <1>1. \A k \in Keys : Deleting(k) => k \notin (Rows \ revived)'
    BY DeletedIsFree DEF Rows, lost
  <1> QED BY <1>1, OneFillMoves, FillKeeps DEF CacheInv, Types, lost

LEMMA FillStepKeeps ==
    ASSUME PageCacheAssumption, CacheInv, NEW f \in Fills,
           FillStep(f) \/ \E k \in Keys : Fetched(f, k)
    PROVE  CacheInv'
  <1>1. fill[f] \in FillState /\ blobs \subseteq Keys
    BY DEF CacheInv, Types
  <1>2. CASE \E k \in Keys : Fetched(f, k)
    <2>1. PICK k \in Keys : Fetched(f, k)
      BY <1>2
    <2>2. PICK s : s = [pc |-> IF MainStores THEN "put" ELSE "lock", key |-> k]
      OBVIOUS
    <2>3. s \in FillState /\ s.pc \notin Covered
      BY <2>2 DEF FillState, FillRecord, Covered
    <2>4. fill' = [fill EXCEPT ![f] = s] /\ row' = row /\ blobs' = blobs
          /\ UNCHANGED <<mark, reader, pass, scheduler, late, lost>>
      BY <2>1, <2>2 DEF Fetched, Filling, stores
    <2> QED BY <1>1, <2>3, <2>4, FillMoves
  <1>3. CASE LockToWrite(f)
    <2>1. PICK s : s = [fill[f] EXCEPT !.pc = IF MainStores THEN "row" ELSE "put"]
      OBVIOUS
    <2>2. fill[f].pc = "lock" /\ ~Deleting(fill[f].key)
          /\ fill' = [fill EXCEPT ![f] = s] /\ row' = row /\ blobs' = blobs
          /\ UNCHANGED <<mark, reader, pass, scheduler, late, lost>>
      BY <1>3, <2>1 DEF LockToWrite, Filling
    <2>3. s \in FillState /\ s.key = fill[f].key
      BY <1>1, <2>1, <2>2 DEF FillState, FillRecord, NoFill
    <2> QED BY <1>1, <2>2, <2>3, FillMoves
  <1>4. CASE Put(f)
    <2>1. PICK s : s = [fill[f] EXCEPT !.pc = IF MainStores THEN "lock" ELSE "row"]
      OBVIOUS
    <2>2. fill[f].pc = "put" /\ blobs' = blobs \cup {fill[f].key}
          /\ fill' = [fill EXCEPT ![f] = s] /\ row' = row
          /\ UNCHANGED <<mark, reader, pass, scheduler, late, lost>>
      BY <1>4, <2>1 DEF Put, Filling
    <2>3. s \in FillState /\ s.key = fill[f].key /\ fill[f].key \in Keys
          /\ s.pc = IF MainStores THEN "lock" ELSE "row"
      BY <1>1, <2>1, <2>2 DEF FillState, FillRecord, NoFill
    <2>4. s.pc \in Covered => ~Deleting(s.key)
      <3>1. s.pc \in Covered => fill[f].pc \in Covered
        BY <2>2, <2>3 DEF Covered
      <3> QED BY <2>3, <3>1, DeletedIsFree DEF Writing
    <2> QED BY <1>1, <2>2, <2>3, <2>4, FillMoves
  <1>5. ASSUME NEW as \in Retention, UpsertRow(f, as) PROVE CacheInv'
    <2>1. fill[f].pc = "row" /\ row' = [row EXCEPT ![fill[f].key] = as]
          /\ fill' = [fill EXCEPT ![f] = NoFill] /\ blobs' = blobs
          /\ revived' = revived \ {fill[f].key} /\ robbed' = robbed \ {fill[f].key}
          /\ mark' = mark /\ UNCHANGED <<reader, pass, scheduler, late>>
      BY <1>5 DEF UpsertRow, Filling
    <2>2. fill[f].key \in Keys
      BY <1>1, <2>1 DEF FillState, FillRecord, NoFill
    <2>3. ~Deleting(fill[f].key)
      BY <2>1, DeletedIsFree DEF Writing, Covered
    <2>4. row' \in [Keys -> {"none"} \cup Retention]
          /\ \A k \in Keys \ {fill[f].key} : row'[k] = row[k]
      BY <2>1, <2>2 DEF CacheInv, Types
    <2>5. \A key \in Keys : Deleting(key) => key \notin (Rows \ revived)'
      BY <2>1, <2>3, <2>4, DeletedIsFree DEF Rows
    <2>6. NoFill.pc \notin Covered
      BY DEF NoFill, Covered
    <2> QED BY <2>1, <2>4, <2>5, <2>6, StatesAreLegal, OneFillMoves, FillKeeps
            DEF CacheInv, Types
  <1>6. CASE StoreFails(f)
    <2>1. fill' = [fill EXCEPT ![f] = NoFill] /\ blobs' = blobs /\ row' = row
          /\ UNCHANGED <<mark, reader, pass, scheduler, late, lost>>
      BY <1>6 DEF StoreFails, Filling
    <2>2. NoFill.pc \notin Covered
      BY DEF NoFill, Covered
    <2> QED BY <1>1, <2>1, <2>2, StatesAreLegal, FillMoves
  <1> QED BY <1>2, <1>3, <1>4, <1>5, <1>6 DEF FillStep

(* A mark that writes the row of a key that is being deleted is noted. *)
LEMMA MarkKeeps ==
    ASSUME CacheInv, NEW m \in Marks,
           MarkStep(m) \/ \E c \in Chapters, as \in Retention : BeginMark(m, c, as)
    PROVE  CacheInv'
  <1>1. /\ blobs' = blobs /\ fill' = fill /\ robbed' = robbed
        /\ UNCHANGED <<reader, pass, scheduler, late>>
    BY DEF MarkStep, MarkFails, MarkRow, BeginMark, Marking
  <1>2. \A k \in Keys : Deleting(k) => ~(Writing(k))'
    BY <1>1, DeletedIsFree DEF Writing, Covered
  <1>3. ASSUME NEW todo \in [Keys -> {"none"} \cup Retention], Marking(m, todo)
        PROVE  mark' \in [Marks -> [Keys -> {"none"} \cup Retention]]
    BY <1>3 DEF Marking, CacheInv, Types
  <1>4. CASE MarkFails(m) \/ \E c \in Chapters, as \in Retention : BeginMark(m, c, as)
    <2>1. PICK todo \in [Keys -> {"none"} \cup Retention] : Marking(m, todo)
      <3>1. CASE MarkFails(m)
        BY <3>1 DEF MarkFails, NoMark
      <3>2. CASE \E c \in Chapters, as \in Retention : BeginMark(m, c, as)
        <4>1. PICK c \in Chapters, as \in Retention : BeginMark(m, c, as)
          BY <3>2
        <4>2. PICK listed : Marking(m, [k \in Keys |-> IF k \in listed THEN as ELSE "none"])
          BY <4>1 DEF BeginMark
        <4> QED BY <4>2
      <3> QED BY <1>4, <3>1, <3>2
    <2>2. row' = row /\ revived' = revived
      BY <1>4 DEF MarkFails, BeginMark
    <2>3. \A k \in Keys : Deleting(k) => k \notin (Rows \ revived)'
      BY <2>2, DeletedIsFree DEF Rows
    <2> QED BY <1>1, <1>2, <1>3, <2>1, <2>2, <2>3, FillKeeps DEF CacheInv, Types
  <1>5. ASSUME NEW k \in Keys, MarkRow(m, k) PROVE CacheInv'
    <2>1. /\ mark[m] \in [Keys -> {"none"} \cup Retention]
          /\ mark[m][k] \in Retention
      BY <1>5 DEF MarkRow, CacheInv, Types
    <2>2. mark' \in [Marks -> [Keys -> {"none"} \cup Retention]]
      <3>1. PICK todo : todo = [mark[m] EXCEPT ![k] = "none"]
        OBVIOUS
      <3>2. todo \in [Keys -> {"none"} \cup Retention] /\ Marking(m, todo)
        BY <1>5, <2>1, <3>1 DEF MarkRow
      <3> QED BY <1>3, <3>2
    <2>3. /\ row' \in [Keys -> {"none"} \cup Retention]
          /\ \A key \in Keys \ {k} : row'[key] = row[key]
      BY <1>5, <2>1 DEF MarkRow, CacheInv, Types
    <2>4. /\ revived' \in {revived, revived \cup {k}}
          /\ Deleting(k) => k \in revived'
      BY <1>5 DEF MarkRow
    <2>5. \A key \in Keys : Deleting(key) => key \notin (Rows \ revived)'
      BY <2>3, <2>4, DeletedIsFree DEF Rows
    <2>6. revived' \subseteq Keys
      BY <2>4 DEF CacheInv, Types
    <2> QED BY <1>1, <1>2, <2>2, <2>3, <2>5, <2>6, FillKeeps DEF CacheInv, Types
  <1> QED BY <1>4, <1>5 DEF MarkStep

(* Another tab respects the key's lock and touches no row. *)
LEMMA OtherTabsKeep == ASSUME CacheInv, OtherTabs PROVE CacheInv'
  <1>1. PICK k \in Keys : StoreElsewhere(k) \/ DeleteElsewhere(k)
    BY DEF OtherTabs
  <1>2. /\ row' = row /\ fill' = fill /\ mark' = mark /\ ~Deleting(k)
        /\ UNCHANGED <<reader, pass, scheduler, late>>
    BY <1>1 DEF StoreElsewhere, DeleteElsewhere, Elsewhere
  <1>3. /\ blobs' \in {blobs \cup {k}, blobs \ {k}}
        /\ revived' \in {revived, revived \ {k}}
        /\ robbed' \in {robbed \ {k}, robbed \cup ({k} \cap Rows)}
    BY <1>1 DEF StoreElsewhere, DeleteElsewhere
  <1>4. blobs' \subseteq Keys /\ revived' \subseteq Keys /\ robbed' \subseteq Keys
    BY <1>3 DEF CacheInv, Types
  <1>5. \A key \in Keys : Deleting(key) => ~(Writing(key))' /\ key \notin (Rows \ revived)'
    BY <1>2, <1>3, DeletedIsFree DEF Writing, Covered, Rows
  <1> QED BY <1>2, <1>4, <1>5, FillKeeps DEF CacheInv, Types

-----------------------------------------------------------------------------
(* Readers *)

LEMMA ReaderKeeps ==
    ASSUME CacheInv, NEW r \in Readers, NEW s \in ReaderState,
           reader' = [reader EXCEPT ![r] = s], UNCHANGED <<stores, fill, mark, pass, scheduler, lost>>,
           late' \in [Passes -> SUBSET Readers],
           s.pc \in {"present", "open"} =>
                reader[r].pc \in {"present", "open"} \/ ~PresenceIsHeld,
           \A p \in Passes : late[p] \ {r} \subseteq late'[p],
           s.pc = "open" => \A p \in Passes : HasLooked(p) => r \in late'[p]
    PROVE  CacheInv'
  <1>1. /\ blobs' = blobs /\ row' = row /\ fill' = fill /\ pass' = pass
        /\ asked' = asked /\ timer' = timer /\ mark' = mark
        /\ revived' = revived /\ robbed' = robbed
    BY DEF stores, scheduler, lost
  <1>2. /\ reader' \in [Readers -> ReaderState] /\ reader'[r] = s
        /\ \A q \in Readers \ {r} : reader'[q] = reader[q]
    BY DEF CacheInv, Types
  <1>3. Types'
    BY <1>1, <1>2 DEF CacheInv, Types
  <1>4. PresenceOK'
    BY <1>1, <1>2 DEF CacheInv, PresenceOK, PresenceIsHeld, Present
  <1>5. ASSUME NEW p \in Passes PROVE Spares(pass[p], late[p])'
    <2>1. Spares(pass[p], late[p])
      BY DEF CacheInv, SparedOK
    <2>2. \A q \in Readers :
            HasLooked(p) /\ reader'[q].pc = "open" /\ q \notin late'[p] =>
            reader[q].pc = "open" /\ q \notin late[p] /\ reader'[q] = reader[q]
      BY <1>2
    <2>3. pass[p].pc \in Looked /\ pass[p].kind # "remove" => HasLooked(p)
      BY DEF Looked, HasLooked
    <2> QED BY <1>1, <1>2, <2>1, <2>2, <2>3 DEF Spares
  <1>6. DoomedOK'
    BY <1>1 DEF CacheInv, DoomedOK, Rows, Writing
  <1> QED BY <1>3, <1>4, <1>5, <1>6 DEF CacheInv, SparedOK

LEMMA ReaderStepKeeps ==
    ASSUME CacheInv, NEW r \in Readers,
           (\E c \in Chapters : Mount(r, c)) \/ BePresent(r) \/ OpenChapter(r) \/ Unmount(r)
    PROVE  CacheInv'
  <1>1. reader[r] \in ReaderState /\ late \in [Passes -> SUBSET Readers]
    BY DEF CacheInv, Types
  <1>2. CASE \E c \in Chapters : Mount(r, c)
    <2>1. PICK s : /\ s \in ReaderState /\ s.pc = "waiting"
                   /\ Reading(r, s) /\ late' = late
      <3>1. \A c \in Chapters : [pc |-> "waiting", chapter |-> c] \in ReaderState
        BY DEF ReaderState
      <3> QED BY <1>2, <3>1 DEF Mount
    <2> QED BY <1>1, <2>1, ReaderKeeps DEF Reading
  <1>3. CASE BePresent(r)
    <2>1. PICK s : s = [reader[r] EXCEPT !.pc = "present"]
      OBVIOUS
    <2>2. reader[r].pc = "waiting" /\ ~PresenceIsHeld /\ Reading(r, s) /\ late' = late
      BY <1>3, <2>1 DEF BePresent
    <2>3. s \in ReaderState /\ s.pc = "present"
      BY <1>1, <2>1, <2>2 DEF ReaderState
    <2> QED BY <1>1, <2>2, <2>3, ReaderKeeps DEF Reading
  <1>4. CASE OpenChapter(r)
    <2>1. PICK s : s = [reader[r] EXCEPT !.pc = "open"]
      OBVIOUS
    <2>2. /\ reader[r].pc = "present" /\ Reading(r, s)
          /\ late' = [p \in Passes |-> IF HasLooked(p) THEN late[p] \cup {r} ELSE late[p]]
      BY <1>4, <2>1 DEF OpenChapter
    <2>3. s \in ReaderState
      BY <1>1, <2>1, <2>2 DEF ReaderState
    <2> QED BY <1>1, <2>2, <2>3, ReaderKeeps DEF Reading
  <1>5. CASE Unmount(r)
    <2>1. Reading(r, NoReader) /\ late' = [p \in Passes |-> late[p] \ {r}]
      BY <1>5 DEF Unmount
    <2>2. NoReader.pc \notin {"present", "open"}
      BY DEF NoReader
    <2> QED BY <1>1, <2>1, <2>2, StatesAreLegal, ReaderKeeps DEF Reading
  <1> QED BY <1>2, <1>3, <1>4, <1>5

-----------------------------------------------------------------------------
(* Passes *)

LEMMA PassKeeps ==
    ASSUME CacheInv, NEW p \in Passes, NEW s \in PassState, pass' = [pass EXCEPT ![p] = s],
           fill' = fill /\ mark' = mark /\ lost' = lost, reader' = reader,
           blobs' \subseteq Keys, row' \in [Keys -> {"none"} \cup Retention],
           asked' \in BOOLEAN, timer' \in BOOLEAN, Rows' \subseteq Rows,
           late' = late \/ late' = [late EXCEPT ![p] = {}],
           s.holds => pass[p].holds \/ Present = {},
           Spares(s, late'[p]),
           \A k \in s.doomed : k \in pass[p].doomed \/ (k \notin Rows \ revived /\ ~Writing(k))
    PROVE  CacheInv'
  <1>1. /\ pass' \in [Passes -> PassState] /\ pass'[p] = s
        /\ \A q \in Passes \ {p} : pass'[q] = pass[q] /\ late'[q] = late[q]
    BY DEF CacheInv, Types
  <1>2. Types'
    BY <1>1 DEF CacheInv, Types, lost
  <1>3. PresenceOK'
    BY <1>1 DEF CacheInv, PresenceOK, Present
  <1>4. ASSUME NEW q \in Passes PROVE Spares(pass[q], late[q])'
    BY <1>1 DEF CacheInv, SparedOK, Spares
  <1>5. DoomedOK'
    BY <1>1 DEF CacheInv, DoomedOK, Writing, lost
  <1> QED BY <1>2, <1>3, <1>4, <1>5 DEF CacheInv, SparedOK

(* A pass that ends, or goes on to its sweep, holds and spares nothing. *)
LEMMA EndKeeps ==
    ASSUME CacheInv, NEW p \in Passes, EndEviction(p) \/ EndPass(p),
           UNCHANGED <<fill, mark, reader, asked, blobs, row, lost>>,
           late' = late \/ late' = [late EXCEPT ![p] = {}]
    PROVE  CacheInv'
  <1>1. PICK s : /\ pass' = [pass EXCEPT ![p] = s]
                 /\ s \in {NoPass, [NoPass EXCEPT !.pc = "again"]}
    BY DEF EndEviction, EndPass
  <1>2. s \in PassState /\ s.pc \notin Looked /\ s.doomed = {} /\ ~s.holds
    <2>1. CASE s = NoPass
      BY <2>1, StatesAreLegal DEF NoPass, Looked
    <2>2. CASE s = [NoPass EXCEPT !.pc = "again"]
      <3>1. s.pc = "again" /\ s.doomed = {} /\ ~s.holds
        BY <2>2 DEF NoPass
      <3> QED BY <2>2, <3>1, StatesAreLegal DEF Looked
    <2> QED BY <1>1, <2>1, <2>2
  <1>3. timer' \in BOOLEAN
    <2>1. timer' = timer \/ timer' = (timer \/ (p = Sweep /\ asked))
      BY Zenon DEF EndEviction, EndPass
    <2>2. timer \in BOOLEAN
      BY DEF CacheInv, Types
    <2> QED BY <2>1, <2>2, Zenon
  <1>4. Rows' = Rows
    BY DEF Rows
  <1> QED BY <1>1, <1>2, <1>3, <1>4, PassKeeps DEF CacheInv, Types, Spares

(* A pass that moves within what it has already learnt. *)
LEMMA ProbeKeeps == ASSUME CacheInv, NEW p \in Passes, Probe(p) PROVE CacheInv'
  <1>1. /\ fill' = fill /\ mark' = mark /\ lost' = lost /\ reader' = reader /\ asked' = asked /\ blobs' = blobs
        /\ row' = row /\ late' = [late EXCEPT ![p] = {}] /\ Rows' = Rows
        /\ late'[p] = {}
    BY DEF Probe, Untouched, Rows, CacheInv, Types
  <1>2. PICK next \in {"list", "known"} :
          next = IF pass[p].pc = "probe" THEN "list" ELSE "known"
    OBVIOUS
  <1>3. pass[p] \in PassState /\ pass[p].chosen = {} /\ pass[p].doomed = {}
    BY DEF Probe, CacheInv, Types, PassState
  <1>4. CASE /\ NobodyIsPresent /\ timer' = timer
             /\ pass' = [pass EXCEPT ![p].pc = next, ![p].holds = TRUE]
    <2>1. PICK s : s = [pass[p] EXCEPT !.pc = next, !.holds = TRUE]
      OBVIOUS
    <2>2. pass' = [pass EXCEPT ![p] = s]
      BY <1>4, <2>1 DEF CacheInv, Types
    <2>3. s \in PassState /\ s.holds /\ s.chosen = {} /\ s.doomed = {}
      BY <1>3, <2>1 DEF PassState, PassRecord
    <2>4. Spares(s, late'[p])
      BY <2>3 DEF Spares
    <2> QED BY <1>1, <1>4, <2>2, <2>3, <2>4, PassKeeps DEF CacheInv, Types, NobodyIsPresent
  <1>5. CASE /\ timer' = timer
             /\ pass' = [pass EXCEPT ![p].pc = next, ![p].spared = OpenChapters]
    <2>1. PICK s : s = [pass[p] EXCEPT !.pc = next, !.spared = OpenChapters]
      OBVIOUS
    <2>2. pass' = [pass EXCEPT ![p] = s]
      BY <1>5, <2>1 DEF CacheInv, Types
    <2>3. OpenChapters \subseteq Chapters
      BY DEF OpenChapters, CacheInv, Types, ReaderState
    <2>4. /\ s \in PassState /\ s.holds = pass[p].holds /\ s.chosen = {} /\ s.doomed = {}
          /\ s.spared = OpenChapters
      BY <1>3, <2>1, <2>3 DEF PassState, PassRecord
    <2>5. Spares(s, late'[p])
      BY <2>4 DEF Spares, OpenChapters
    <2> QED BY <1>1, <1>5, <2>2, <2>4, <2>5, PassKeeps DEF CacheInv, Types
  <1>6. CASE EndEviction(p) \/ EndPass(p)
    BY <1>1, <1>6, EndKeeps
  <1> QED BY <1>2, <1>4, <1>5, <1>6 DEF Probe

LEMMA SummarizeKeeps ==
    ASSUME PageCacheAssumption, CacheInv, NEW p \in Passes, Summarize(p) PROVE CacheInv'
  <1>1. /\ fill' = fill /\ mark' = mark /\ lost' = lost /\ reader' = reader /\ asked' = asked /\ blobs' = blobs
        /\ row' = row /\ late' = late /\ Rows' = Rows
    BY DEF Summarize, Untouched, Rows
  <1>2. CASE Cardinality(Rows) <= Limit
    BY <1>1, <1>2, EndKeeps DEF Summarize
  <1>3. CASE ~(Cardinality(Rows) <= Limit)
    <2>1. IsFiniteSet(Rows) /\ Limit \in Nat
      BY FS_Subset DEF Rows, PageCacheAssumption
    <2>2. Cardinality(Rows) \in Nat
      BY <2>1, FS_CardinalityType
    <2>3. PICK s : s = [pass[p] EXCEPT !.pc = "probe", !.excess = Cardinality(Rows) - Limit]
      OBVIOUS
    <2>4. /\ pass[p] \in PassState /\ pass[p].pc = "summary" /\ timer' = timer
          /\ pass' = [pass EXCEPT ![p] = s]
      BY <1>3, <2>3 DEF Summarize, CacheInv, Types
    <2>5. Cardinality(Rows) - Limit \in Nat
      BY <1>3, <2>1, <2>2
    <2>6. s \in PassState /\ s.holds = pass[p].holds /\ s.doomed = {} /\ s.pc \notin Looked
      BY <2>3, <2>4, <2>5 DEF PassState, PassRecord, Looked
    <2> QED BY <1>1, <2>4, <2>6, PassKeeps DEF CacheInv, Types, Spares
  <1> QED BY <1>2, <1>3

(* Eviction selects no page of a chapter it has to spare. *)
LEMMA SelectionSpares ==
    ASSUME PageCacheAssumption, NEW p \in Passes, NEW chosen \in Selection(p)
    PROVE  chosen \subseteq Keys /\ \A k \in chosen : ChapterOf[k] \notin pass[p].spared
  <1>1. PICK cs : chosen = Pages(p, cs) /\ cs \subseteq Chapters \ Protected(p)
    BY DEF Selection
  <1> QED BY <1>1 DEF Pages, Evictable, Rows, Protected

LEMMA ChooseKeeps ==
    ASSUME PageCacheAssumption, CacheInv, NEW p \in Passes, Choose(p) PROVE CacheInv'
  <1>1. /\ fill' = fill /\ mark' = mark /\ lost' = lost /\ reader' = reader /\ asked' = asked /\ blobs' = blobs
        /\ row' = row /\ late' = late /\ Rows' = Rows
    BY DEF Choose, Untouched, Rows
  <1>2. PICK chosen \in Selection(p) :
          \/ EndEviction(p)
          \/ /\ pass' = [pass EXCEPT ![p].pc = "rows", ![p].chosen = chosen]
             /\ timer' = timer
    BY DEF Choose
  <1>3. CASE EndEviction(p)
    BY <1>1, <1>3, EndKeeps
  <1>4. CASE /\ pass' = [pass EXCEPT ![p].pc = "rows", ![p].chosen = chosen]
             /\ timer' = timer
    <2>1. PICK s : s = [pass[p] EXCEPT !.pc = "rows", !.chosen = chosen]
      OBVIOUS
    <2>2. /\ pass[p] \in PassState /\ pass[p].pc = "list" /\ pass[p].doomed = {}
          /\ pass' = [pass EXCEPT ![p] = s]
      BY <1>4, <2>1 DEF Choose, CacheInv, Types, PassState
    <2>3. chosen \subseteq Keys /\ \A k \in chosen : ChapterOf[k] \notin pass[p].spared
      BY SelectionSpares
    <2>4. /\ s \in PassState /\ s.holds = pass[p].holds /\ s.doomed = {}
          /\ s.chosen = chosen /\ s.spared = pass[p].spared /\ s.kind = pass[p].kind
      BY <2>1, <2>2, <2>3 DEF PassState, PassRecord
    <2>5. Spares(pass[p], late[p])
      BY DEF CacheInv, SparedOK
    <2>6. Spares(s, late'[p])
      BY <1>1, <2>2, <2>3, <2>4, <2>5 DEF Spares, Looked
    <2> QED BY <1>1, <1>4, <2>2, <2>4, <2>6, PassKeeps DEF CacheInv, Types
  <1> QED BY <1>2, <1>3, <1>4

(* A pass that goes on knows of the readers what it knew. *)
LEMMA GoesOnKeeps ==
    ASSUME CacheInv, NEW p \in Passes, NEW s \in PassState, pass' = [pass EXCEPT ![p] = s],
           fill' = fill /\ mark' = mark /\ lost' = lost, reader' = reader, asked' = asked, timer' = timer, late' = late,
           blobs' \subseteq Keys, row' \in [Keys -> {"none"} \cup Retention],
           Rows' \subseteq Rows, pass[p].pc \in Looked,
           s.kind = pass[p].kind, s.holds = pass[p].holds, s.spared = pass[p].spared,
           \A k \in s.chosen \cup s.doomed :
                k \in pass[p].chosen \cup pass[p].doomed \/ ChapterOf[k] \notin s.spared,
           \A k \in s.doomed : k \in pass[p].doomed \/ (k \notin Rows \ revived /\ ~Writing(k))
    PROVE  CacheInv'
  <1>1. Spares(pass[p], late[p])
    BY DEF CacheInv, SparedOK
  <1>2. Spares(s, late'[p])
    BY <1>1 DEF Spares
  <1> QED BY <1>2, PassKeeps DEF CacheInv, Types

LEMMA DeleteRowsKeeps == ASSUME CacheInv, NEW p \in Passes, DeleteRows(p) PROVE CacheInv'
  <1>1. PICK s : s = [pass[p] EXCEPT !.pc = "blobs"]
    OBVIOUS
  <1>2. /\ pass[p] \in PassState /\ pass[p].pc = "rows"
        /\ row' = [k \in Keys |-> IF k \in pass[p].chosen THEN "none" ELSE row[k]]
        /\ pass' = [pass EXCEPT ![p] = s] /\ fill' = fill /\ mark' = mark /\ lost' = lost /\ reader' = reader
        /\ blobs' = blobs /\ asked' = asked /\ timer' = timer /\ late' = late
    BY <1>1 DEF DeleteRows, Passing, scheduler, CacheInv, Types
  <1>3. row' \in [Keys -> {"none"} \cup Retention] /\ Rows' \subseteq Rows
    BY <1>2 DEF CacheInv, Types, Rows
  <1>4. /\ s \in PassState /\ s.kind = pass[p].kind /\ s.holds = pass[p].holds
        /\ s.spared = pass[p].spared /\ s.chosen = pass[p].chosen
        /\ s.doomed = pass[p].doomed
    BY <1>1, <1>2 DEF PassState, PassRecord
  <1>5. pass[p].pc \in Looked /\ blobs' \subseteq Keys
    BY <1>2 DEF Looked, CacheInv, Types
  <1> QED BY <1>2, <1>3, <1>4, <1>5, GoesOnKeeps

LEMMA ListKeeps ==
    ASSUME CacheInv, NEW p \in Passes, ListKnown(p) \/ ListOrphans(p) PROVE CacheInv'
  <1>1. PICK s :
          /\ pass' = [pass EXCEPT ![p] = s]
          /\ \/ pass[p].pc = "known" /\ s = [pass[p] EXCEPT !.pc = "orphans", !.known = Rows]
             \/ /\ pass[p].pc = "orphans"
                /\ s = [pass[p] EXCEPT !.pc = "blobs", !.known = {},
                        !.chosen = {k \in blobs \ pass[p].known :
                                        ChapterOf[k] \notin pass[p].spared}]
    BY DEF ListKnown, ListOrphans, Passing
  <1>2. /\ fill' = fill /\ mark' = mark /\ lost' = lost /\ reader' = reader /\ blobs' = blobs /\ row' = row
        /\ asked' = asked /\ timer' = timer /\ late' = late /\ Rows' = Rows
    BY DEF ListKnown, ListOrphans, Passing, scheduler, Rows
  <1>3. /\ pass[p] \in PassState /\ pass[p].pc \in Looked
        /\ Rows \subseteq Keys /\ blobs \subseteq Keys
        /\ pass[p].chosen = {} /\ pass[p].doomed = {}
    BY <1>1 DEF CacheInv, Types, Looked, Rows, PassState
  <1>4. /\ s \in PassState /\ s.kind = pass[p].kind /\ s.holds = pass[p].holds
        /\ s.spared = pass[p].spared /\ s.doomed = {}
        /\ \A k \in s.chosen : ChapterOf[k] \notin s.spared
    <2>1. CASE s = [pass[p] EXCEPT !.pc = "orphans", !.known = Rows]
      BY <1>3, <2>1 DEF PassState, PassRecord
    <2>2. CASE s = [pass[p] EXCEPT !.pc = "blobs", !.known = {},
                        !.chosen = {k \in blobs \ pass[p].known :
                                        ChapterOf[k] \notin pass[p].spared}]
      BY <1>3, <2>2 DEF PassState, PassRecord
    <2> QED BY <1>1, <2>1, <2>2
  <1> QED BY <1>1, <1>2, <1>3, <1>4, GoesOnKeeps DEF CacheInv, Types

(* The second look, inside the lock. *)
LEMMA LockToDeleteKeeps ==
    ASSUME CacheInv, NEW p \in Passes, NEW k \in Keys, LockToDelete(p, k) PROVE CacheInv'
  <1>1. PICK doomed : doomed = IF Referenced(p, k) THEN pass[p].doomed
                               ELSE pass[p].doomed \cup {k}
    OBVIOUS
  <1>2. PICK s : s = [pass[p] EXCEPT !.chosen = @ \ {k}, !.doomed = doomed]
    OBVIOUS
  <1>3. /\ pass[p] \in PassState /\ pass[p].pc = "blobs" /\ k \in pass[p].chosen
        /\ ~Writing(k) /\ pass' = [pass EXCEPT ![p] = s]
        /\ fill' = fill /\ mark' = mark /\ lost' = lost /\ reader' = reader /\ blobs' = blobs /\ row' = row
        /\ asked' = asked /\ timer' = timer /\ late' = late /\ Rows' = Rows
    BY <1>1, <1>2 DEF LockToDelete, Passing, scheduler, CacheInv, Types, Rows
  <1>4. /\ s \in PassState /\ s.kind = pass[p].kind /\ s.holds = pass[p].holds
        /\ s.spared = pass[p].spared /\ s.doomed = doomed
        /\ s.chosen = pass[p].chosen \ {k}
    BY <1>1, <1>2, <1>3 DEF PassState, PassRecord
  <1>5. \A d \in doomed : d \in pass[p].doomed \/ (d = k /\ k \notin Rows)
    BY <1>1 DEF Referenced
  <1>6. /\ blobs' \subseteq Keys /\ row' \in [Keys -> {"none"} \cup Retention]
        /\ pass[p].pc \in Looked
    BY <1>3 DEF CacheInv, Types, Looked
  <1>7. \A d \in s.chosen \cup s.doomed :
            d \in pass[p].chosen \cup pass[p].doomed \/ ChapterOf[d] \notin s.spared
    BY <1>3, <1>4, <1>5
  <1>8. \A d \in s.doomed : d \in pass[p].doomed \/ (d \notin Rows /\ ~Writing(d))
    BY <1>3, <1>4, <1>5
  <1> QED BY <1>3, <1>4, <1>6, <1>7, <1>8, GoesOnKeeps

LEMMA DeleteBlobKeeps ==
    ASSUME CacheInv, NEW p \in Passes, NEW k \in Keys, DeleteBlob(p, k) PROVE CacheInv'
  <1>1. PICK s : s = [pass[p] EXCEPT !.doomed = @ \ {k}]
    OBVIOUS
  <1>2. /\ pass[p] \in PassState /\ k \in pass[p].doomed
        /\ pass' = [pass EXCEPT ![p] = s] /\ fill' = fill /\ mark' = mark /\ lost' = lost /\ reader' = reader
        /\ blobs' \subseteq blobs /\ row' = row /\ asked' = asked /\ timer' = timer
        /\ late' = late /\ Rows' = Rows
    BY <1>1 DEF DeleteBlob, Passing, scheduler, CacheInv, Types, Rows
  <1>3. /\ s \in PassState /\ s.kind = pass[p].kind /\ s.holds = pass[p].holds
        /\ s.spared = pass[p].spared /\ s.doomed = pass[p].doomed \ {k}
        /\ s.chosen = pass[p].chosen
    BY <1>1, <1>2 DEF PassState, PassRecord
  <1>4. pass[p].pc \in Looked
    BY <1>2 DEF PassState, Looked
  <1> QED BY <1>2, <1>3, <1>4, GoesOnKeeps DEF CacheInv, Types

LEMMA PassStepKeeps ==
    ASSUME PageCacheAssumption, CacheInv, NEW p \in Passes, PassStep(p) PROVE CacheInv'
  <1>1. CASE EndBlobs(p)
    BY <1>1, EndKeeps DEF EndBlobs, Untouched
  <1> QED BY <1>1, SummarizeKeeps, ProbeKeeps, ChooseKeeps, DeleteRowsKeeps, ListKeeps,
             LockToDeleteKeeps, DeleteBlobKeeps DEF PassStep

(* A pass that begins has not looked yet, or is a removal. *)
LEMMA BeginKeeps ==
    ASSUME CacheInv, NEW p \in Passes, NEW s \in PassState, pass' = [pass EXCEPT ![p] = s],
           fill' = fill /\ mark' = mark /\ lost' = lost, reader' = reader, late' = late, blobs' = blobs, row' = row,
           asked' \in BOOLEAN, timer' \in BOOLEAN,
           s.pc \notin Looked \/ s.kind = "remove", ~s.holds, s.doomed = {}
    PROVE  CacheInv'
  <1>1. Rows' = Rows
    BY DEF Rows
  <1> QED BY <1>1, PassKeeps DEF CacheInv, Types, Spares

LEMMA UserPassKeeps ==
    ASSUME CacheInv,
           \/ Drain \/ Request
           \/ \E p \in Trims, c \in Chapters : BeginTrim(p, c) \/ BeginRemoval(p, c)
    PROVE  CacheInv'
  <1>1. CASE Drain
    <2>1. /\ pass' = [pass EXCEPT ![Sweep] = [NoPass EXCEPT !.pc = "summary"]]
          /\ asked' = FALSE /\ timer' = FALSE /\ Sweep \in Passes
          /\ fill' = fill /\ mark' = mark /\ lost' = lost /\ reader' = reader /\ late' = late /\ blobs' = blobs /\ row' = row
      BY <1>1 DEF Drain, Passing, Passes
    <2>2. PICK s : s = [NoPass EXCEPT !.pc = "summary"]
      OBVIOUS
    <2>3. s.pc \notin Looked /\ ~s.holds /\ s.doomed = {}
      BY <2>2 DEF NoPass, Looked
    <2> QED BY <2>1, <2>2, <2>3, StatesAreLegal, BeginKeeps
  <1>2. CASE Request
    <2>1. /\ fill' = fill /\ mark' = mark /\ lost' = lost /\ reader' = reader /\ late' = late /\ blobs' = blobs /\ row' = row
          /\ pass' = pass /\ asked' = TRUE /\ timer' = (timer \/ pass[Sweep].pc = "idle")
      BY <1>2 DEF Request, stores
    <2>2. timer' \in BOOLEAN
      BY <2>1, Zenon DEF CacheInv, Types
    <2> QED BY <2>1, <2>2 DEF CacheInv, Types, PresenceOK, Present, SparedOK, Spares,
                              DoomedOK, Rows, Writing, lost
  <1>3. ASSUME NEW p \in Trims, NEW c \in Chapters, BeginTrim(p, c) PROVE CacheInv'
    <2>1. PICK s : s = [NoPass EXCEPT !.pc = "summary", !.kind = "trim", !.chapter = c]
      OBVIOUS
    <2>2. /\ pass' = [pass EXCEPT ![p] = s] /\ asked' = asked /\ timer' = timer
          /\ fill' = fill /\ mark' = mark /\ lost' = lost /\ reader' = reader /\ late' = late /\ blobs' = blobs /\ row' = row
      BY <1>3, <2>1 DEF BeginTrim, Passing, scheduler
    <2>3. s \in PassState /\ s.pc \notin Looked /\ ~s.holds /\ s.doomed = {}
      BY <2>1, StatesAreLegal DEF NoPass, PassState, PassRecord, Looked
    <2> QED BY <2>2, <2>3, BeginKeeps DEF Passes, CacheInv, Types
  <1>4. ASSUME NEW p \in Trims, NEW c \in Chapters, BeginRemoval(p, c) PROVE CacheInv'
    <2>1. PICK chosen : chosen = {k \in Rows : ChapterOf[k] = c}
      OBVIOUS
    <2>2. PICK s : s = [NoPass EXCEPT !.pc = "rows", !.kind = "remove", !.chapter = c,
                                      !.chosen = chosen]
      OBVIOUS
    <2>3. /\ pass' = [pass EXCEPT ![p] = s] /\ asked' = asked /\ timer' = timer
          /\ fill' = fill /\ mark' = mark /\ lost' = lost /\ reader' = reader /\ late' = late /\ blobs' = blobs /\ row' = row
      BY <1>4, <2>1, <2>2 DEF BeginRemoval, Passing, scheduler
    <2>4. chosen \subseteq Keys
      BY <2>1 DEF Rows
    <2>5. s \in PassState /\ s.kind = "remove" /\ ~s.holds /\ s.doomed = {}
      BY <2>2, <2>4 DEF NoPass, PassState, PassRecord
    <2> QED BY <2>3, <2>5, BeginKeeps DEF Passes, CacheInv, Types
  <1> QED BY <1>1, <1>2, <1>3, <1>4

LEMMA CacheStep == ASSUME PageCacheAssumption, CacheInv, [Next]_vars PROVE CacheInv'
  <1>1. CASE UNCHANGED vars
    BY <1>1 DEF vars, stores, scheduler, lost, CacheInv, Types, PresenceOK, Present, SparedOK,
                Spares, DoomedOK, Rows, Writing
  <1>2. CASE User
    BY <1>2, FillStepKeeps, MarkKeeps, ReaderStepKeeps, UserPassKeeps DEF User
  <1>3. CASE Drain
    BY <1>3, UserPassKeeps
  <1>4. CASE \E f \in Fills : FillStep(f)
    BY <1>4, FillStepKeeps
  <1>5. CASE \E r \in Readers : BePresent(r) \/ OpenChapter(r)
    BY <1>5, ReaderStepKeeps
  <1>6. CASE \E p \in Passes : PassStep(p)
    BY <1>6, PassStepKeeps
  <1>7. CASE \E m \in Marks : MarkStep(m)
    BY <1>7, MarkKeeps
  <1>8. CASE OtherTabs
    BY <1>8, OtherTabsKeep
  <1> QED BY <1>1, <1>2, <1>3, <1>4, <1>5, <1>6, <1>7, <1>8 DEF Next

LEMMA CacheInvariant == Spec => []CacheInv
  <1>1. CacheInv /\ [Next]_vars => CacheInv'
    BY CacheStep, PageCacheAssumption
  <1> QED BY <1>1, CacheInit, PTL DEF Spec

(***************************************************************************)
(* Type correctness of the page cache: every page that is being stored has *)
(* a key, and every pass is at a position its code has                     *)
(* (storePageBlob, runCacheMaintenance, evictCacheToLimit).                *)
(***************************************************************************)
THEOREM CacheTypeSafe == Spec => []TypeOK
  <1>1. ASSUME Types PROVE TypeOK
    <2>1. {asked, timer} \subseteq BOOLEAN
      BY <1>1, Zenon DEF Types
    <2>2. \A f \in Fills : fill[f] \in FillState
      BY <1>1 DEF Types
    <2>3. \A p \in Passes : pass[p] \in PassState
      BY <1>1 DEF Types
    <2>4. reader \in [Readers -> [pc : {"out", "waiting", "present", "open"},
                                  chapter : Chapters \cup {None}]]
      BY <1>1 DEF Types, ReaderState
    <2> QED BY <1>1, <2>1, <2>2, <2>3, <2>4
            DEF Types, TypeOK, FillState, FillRecord, PassState, PassRecord
  <1>2. CacheInv => TypeOK
    BY <1>1 DEF CacheInv
  <1> QED BY <1>2, CacheInvariant, PTL

(***************************************************************************)
(* However readers come and go beside eviction and sweep, no page of a     *)
(* chapter that was open when a pass looked is selected or deleted by it   *)
(* (probeReaderPresence, evictCacheToLimit, reclaimOrphanBlobs).           *)
(***************************************************************************)
THEOREM SparedTheorem == Spec => []OpenChaptersAreSpared
  <1>1. CacheInv => OpenChaptersAreSpared
    <2> SUFFICES ASSUME CacheInv, NEW p \in Passes, NEW r \in Readers,
                        reader[r].pc = "open", r \notin late[p], pass[p].kind # "remove",
                        NEW k \in pass[p].chosen \cup pass[p].doomed
                 PROVE  ChapterOf[k] # reader[r].chapter
      BY DEF OpenChaptersAreSpared
    <2>1. pass[p].pc \in Looked
      BY DEF CacheInv, Types, PassState, Looked
    <2>2. ~pass[p].holds
      BY DEF CacheInv, PresenceOK, Present
    <2> QED BY <2>1, <2>2 DEF CacheInv, SparedOK, Spares
  <1> QED BY <1>1, CacheInvariant, PTL

-----------------------------------------------------------------------------
(* Rows and bytes *)

(* No step of either build deletes the bytes a fill is writing under the   *)
(* key's lock, or the bytes of a page that has a row, unless a mark wrote  *)
(* the row after the delete had looked for it, or another tab deletes.     *)
DeletesOnlyOrphans ==
    [][\A k \in blobs \ blobs' : ~Writing(k) /\ (k \in Rows => k \in revived \cup robbed')]_vars

(* The step that deletes bytes is a pass's, of a key it holds the lock of, *)
(* or another tab's.                                                       *)
LEMMA WhoDeletes ==
    ASSUME [Next]_vars, NEW k \in blobs \ blobs'
    PROVE  \/ \E p \in Passes : k \in pass[p].doomed /\ DeleteBlob(p, k)
           \/ DeleteElsewhere(k)
  <1>1. blobs' # blobs
    OBVIOUS
  <1>2. ASSUME NEW f \in Fills, FillStep(f) PROVE FALSE
    BY <1>1, <1>2 DEF FillStep, LockToWrite, Put, UpsertRow, StoreFails
  <1>3. ~User /\ ~Drain /\ ~UNCHANGED vars
    BY <1>1 DEF User, Fetched, BeginMark, Marking, Mount, BeginTrim, BeginRemoval, Unmount,
                Request, Reading, Drain, vars, stores
  <1>4. ASSUME NEW r \in Readers, BePresent(r) \/ OpenChapter(r) PROVE FALSE
    BY <1>1, <1>4 DEF BePresent, OpenChapter, Reading, stores
  <1>5. ASSUME NEW m \in Marks, MarkStep(m) PROVE FALSE
    BY <1>1, <1>5 DEF MarkStep, MarkFails, MarkRow, Marking
  <1>6. CASE OtherTabs
    BY <1>6 DEF OtherTabs, StoreElsewhere, DeleteElsewhere
  <1>7. CASE \E p \in Passes : PassStep(p)
    <2>1. PICK p \in Passes : PassStep(p)
      BY <1>7
    <2>2. \E d \in Keys : DeleteBlob(p, d)
      BY <1>1, <2>1 DEF PassStep, Summarize, Probe, Choose, DeleteRows, ListKnown,
                        ListOrphans, EndBlobs, LockToDelete
    <2> QED BY <2>2 DEF DeleteBlob
  <1> QED BY <1>2, <1>3, <1>4, <1>5, <1>6, <1>7 DEF Next

(* What a delete takes has no writer, and only an excepted row. *)
LEMMA DeletedHasNoRow ==
    ASSUME CacheInv, [Next]_vars, NEW k \in blobs \ blobs'
    PROVE  /\ ~Writing(k) /\ fill' = fill /\ row' = row /\ revived' = revived
           /\ robbed \subseteq robbed'
           /\ k \in Rows => k \in revived \cup robbed'
  <1>1. CASE \E p \in Passes : k \in pass[p].doomed /\ DeleteBlob(p, k)
    BY <1>1 DEF CacheInv, DoomedOK, DeleteBlob, Passing, lost
  <1>2. CASE DeleteElsewhere(k)
    BY <1>2 DEF DeleteElsewhere, Elsewhere
  <1> QED BY <1>1, <1>2, WhoDeletes

(***************************************************************************)
(* In both builds a delete takes only the bytes of a key that has neither  *)
(* a row nor a writer, also at the moment it is carried out: what the pass *)
(* saw inside the lock is still so (deleteBlobKeys, withBlobWrite).  The   *)
(* row of a late mark (markChapterPagesAsRead, markChapterPagesDownloaded) *)
(* and the deletes of other tabs are the two exceptions, and both exist.   *)
(***************************************************************************)
THEOREM OrphanTheorem == Spec => DeletesOnlyOrphans
  <1>1. ASSUME CacheInv, [Next]_vars
        PROVE  [\A k \in blobs \ blobs' :
                    ~Writing(k) /\ (k \in Rows => k \in revived \cup robbed')]_vars
    BY <1>1, DeletedHasNoRow
  <1> QED BY <1>1, CacheInvariant, PTL DEF Spec, DeletesOnlyOrphans

(* The web build: a fill reaches its row with its bytes put. *)
LEMMA FillPutsBytesFirst ==
    ASSUME ~MainStores, CacheInv, BytesBeforeRow, NEW g \in Fills,
           FillStep(g) \/ \E k \in Keys : Fetched(g, k)
    PROVE  BytesBeforeRow'
  <1>1. fill \in [Fills -> FillState] /\ fill[g] \in FillState
    BY DEF CacheInv, Types
  <1>2. CASE Put(g)
    <2>1. PICK s : s = [fill[g] EXCEPT !.pc = "row"]
      OBVIOUS
    <2>2. fill' = [fill EXCEPT ![g] = s] /\ blobs' = blobs \cup {fill[g].key}
      BY <1>2, <2>1 DEF Put, Filling
    <2>3. s.key = fill[g].key
      BY <1>1, <2>1 DEF FillState, FillRecord
    <2> QED BY <1>1, <2>2, <2>3 DEF BytesBeforeRow
  <1>3. CASE ~Put(g)
    <2>1. PICK s : fill' = [fill EXCEPT ![g] = s] /\ s.pc # "row"
      <3>1. CASE LockToWrite(g)
        <4>1. PICK s : s = [fill[g] EXCEPT !.pc = "put"]
          OBVIOUS
        <4>2. fill' = [fill EXCEPT ![g] = s] /\ s.pc = "put"
          BY <1>1, <3>1, <4>1 DEF LockToWrite, Filling, FillState, FillRecord
        <4> QED BY <4>2
      <3>2. CASE StoreFails(g) \/ \E as \in Retention : UpsertRow(g, as)
        <4>1. NoFill.pc # "row"
          BY DEF NoFill
        <4> QED BY <3>2, <4>1 DEF UpsertRow, StoreFails, Filling
      <3>3. CASE \E k \in Keys : Fetched(g, k)
        <4>1. PICK k \in Keys : Fetched(g, k)
          BY <3>3
        <4>2. PICK s : s = [pc |-> "lock", key |-> k]
          OBVIOUS
        <4>3. s.pc # "row" /\ fill' = [fill EXCEPT ![g] = s]
          BY <4>1, <4>2 DEF Fetched, Filling
        <4> QED BY <4>3
      <3> QED BY <1>3, <3>1, <3>2, <3>3 DEF FillStep
    <2>2. blobs' = blobs
      BY <1>3 DEF FillStep, LockToWrite, UpsertRow, StoreFails, Fetched, stores
    <2> QED BY <1>1, <2>1, <2>2 DEF BytesBeforeRow
  <1> QED BY <1>2, <1>3

(* Everything else leaves the fills alone. *)
LEMMA OthersLeaveFills ==
    ASSUME [Next]_vars,
           ~\E g \in Fills : FillStep(g) \/ \E k \in Keys : Fetched(g, k)
    PROVE  fill' = fill
  <1>1. CASE User
    BY <1>1 DEF User, BeginMark, Marking, Mount, BeginTrim, BeginRemoval, Unmount, Request,
                Reading, Passing
  <1>2. CASE Drain \/ OtherTabs \/ UNCHANGED vars
    BY <1>2 DEF Drain, Passing, OtherTabs, StoreElsewhere, DeleteElsewhere, Elsewhere, vars
  <1>3. CASE \E m \in Marks : MarkStep(m)
    BY <1>3 DEF MarkStep, MarkFails, MarkRow, Marking
  <1>4. CASE \E r \in Readers : BePresent(r) \/ OpenChapter(r)
    BY <1>4 DEF BePresent, OpenChapter, Reading
  <1>5. CASE \E p \in Passes : PassStep(p)
    BY <1>5 DEF PassStep, Summarize, Probe, Choose, DeleteRows, ListKnown, ListOrphans,
                EndBlobs, LockToDelete, DeleteBlob, Untouched, Passing
  <1> QED BY <1>1, <1>2, <1>3, <1>4, <1>5 DEF Next

(* Who gives a page a row, or takes it off the excepted ones. *)
LEMMA WhoAddsRows ==
    ASSUME CacheInv, [Next]_vars,
           ~\E f \in Fills, as \in Retention : UpsertRow(f, as),
           ~\E m \in Marks, k \in Keys : MarkRow(m, k),
           ~\E k \in Keys : StoreElsewhere(k)
    PROVE  Rows' \subseteq Rows /\ revived' = revived /\ robbed \subseteq robbed'
  <1>1. CASE User
    BY <1>1 DEF User, Fetched, BeginMark, Marking, Mount, BeginTrim, BeginRemoval, Unmount,
                Request, Reading, Passing, lost, stores, Rows
  <1>2. CASE Drain \/ OtherTabs \/ UNCHANGED vars
    BY <1>2 DEF Drain, Passing, OtherTabs, DeleteElsewhere, Elsewhere, vars, stores, lost, Rows
  <1>3. CASE \E f \in Fills : FillStep(f)
    BY <1>3 DEF FillStep, LockToWrite, Put, StoreFails, lost, Rows
  <1>4. CASE \E m \in Marks : MarkStep(m)
    BY <1>4 DEF MarkStep, MarkFails, Marking, Rows
  <1>5. CASE \E r \in Readers : BePresent(r) \/ OpenChapter(r)
    BY <1>5 DEF BePresent, OpenChapter, Reading, stores, lost, Rows
  <1>6. CASE \E p \in Passes : DeleteRows(p)
    BY <1>6 DEF DeleteRows, Passing, lost, Rows
  <1>7. CASE \E p \in Passes : PassStep(p) /\ ~DeleteRows(p)
    BY <1>7 DEF PassStep, Summarize, Probe, Choose, ListKnown, ListOrphans, EndBlobs,
                LockToDelete, DeleteBlob, Untouched, Passing, lost, Rows
  <1> QED BY <1>1, <1>2, <1>3, <1>4, <1>5, <1>6, <1>7 DEF Next

LEMMA BlobStep ==
    ASSUME PageCacheAssumption, ~MainStores, CacheInv, BlobInv, [Next]_vars
    PROVE  BlobInv'
  <1>1. BytesBeforeRow'
    <2>1. CASE \E g \in Fills : FillStep(g) \/ \E k \in Keys : Fetched(g, k)
      BY <2>1, FillPutsBytesFirst DEF BlobInv
    <2>2. CASE fill' = fill
      <3>1. ASSUME NEW f \in Fills, fill[f].pc = "row" PROVE fill[f].key \in blobs'
        <4>1. Writing(fill[f].key) /\ fill[f].key \in blobs
          BY <3>1 DEF Writing, Covered, BlobInv, BytesBeforeRow
        <4> QED BY <4>1, DeletedHasNoRow
      <3> QED BY <2>2, <3>1 DEF BytesBeforeRow
    <2> QED BY <2>1, <2>2, OthersLeaveFills
  <1>2. ASSUME NEW k, k \in Rows', k \notin revived', k \notin robbed' PROVE k \in blobs'
    <2>1. CASE \E f \in Fills, as \in Retention : UpsertRow(f, as)
      <3>1. PICK f \in Fills, as \in Retention : UpsertRow(f, as)
        BY <2>1
      <3>2. /\ row' = [row EXCEPT ![fill[f].key] = as] /\ blobs' = blobs
            /\ revived' = revived \ {fill[f].key} /\ robbed' = robbed \ {fill[f].key}
            /\ fill[f].key \in blobs
        BY <3>1 DEF UpsertRow, BlobInv, BytesBeforeRow
      <3>3. k # fill[f].key => k \in Rows \ (revived \cup robbed)
        BY <1>2, <3>2 DEF Rows, CacheInv, Types
      <3> QED BY <3>2, <3>3 DEF BlobInv, RowNeverOutlivesItsBlob
    <2>2. CASE \E m \in Marks, d \in Keys : MarkRow(m, d)
      <3>1. PICK m \in Marks, d \in Keys : MarkRow(m, d)
        BY <2>2
      <3>2. /\ row' = [row EXCEPT ![d] = mark[m][d]] /\ blobs' = blobs /\ robbed' = robbed
            /\ revived' = IF d \notin blobs \/ Deleting(d) THEN revived \cup {d} ELSE revived
        BY <3>1 DEF MarkRow, Marking
      <3>3. k # d => k \in Rows \ (revived \cup robbed)
        BY <1>2, <3>2 DEF Rows, CacheInv, Types
      <3> QED BY <1>2, <3>2, <3>3 DEF BlobInv, RowNeverOutlivesItsBlob
    <2>3. CASE \E d \in Keys : StoreElsewhere(d)
      BY <1>2, <2>3 DEF StoreElsewhere, Elsewhere, Rows, BlobInv, RowNeverOutlivesItsBlob
    <2>4. CASE Rows' \subseteq Rows /\ revived' = revived /\ robbed \subseteq robbed'
      BY <1>2, <2>4, DeletedHasNoRow DEF BlobInv, RowNeverOutlivesItsBlob
    <2> QED BY <2>1, <2>2, <2>3, <2>4, WhoAddsRows
  <1>3. RowNeverOutlivesItsBlob'
    BY <1>2 DEF RowNeverOutlivesItsBlob
  <1> QED BY <1>1, <1>3 DEF BlobInv

(***************************************************************************)
(* "a row must never outlive its blob" in the web build, for any overlap   *)
(* of fills, marks, evictions, removals and sweeps, and of other tabs: the *)
(* bytes are put under the lock the row is written in (withBlobWrite), and *)
(* a delete of the key is refused that lock.  A row without bytes is one a *)
(* mark wrote too late, or one whose bytes another tab has deleted, and it *)
(* stays so at most until its page is stored again.                        *)
(***************************************************************************)
THEOREM BlobTheorem == ASSUME ~MainStores PROVE Spec => []RowNeverOutlivesItsBlob
  <1>1. Init => BlobInv
    BY DEF Init, BlobInv, BytesBeforeRow, NoFill, RowNeverOutlivesItsBlob, Rows
  <1>2. CacheInv /\ BlobInv /\ [Next]_vars => BlobInv'
    BY BlobStep, PageCacheAssumption
  <1>3. BlobInv => RowNeverOutlivesItsBlob
    BY DEF BlobInv
  <1> QED BY <1>1, <1>2, <1>3, CacheInvariant, PTL DEF Spec

=============================================================================
