--------------------------- MODULE LibraryTitles ---------------------------
(***************************************************************************)
(* The titles of the library and everything that points at them: provider  *)
(* mappings, chapters, read states, library entries and the undo rows of   *)
(* migrations.  Merge, unmerge, migration and rollback re-point these rows *)
(* (identity-merge.ts, provider-migration.ts) while provider refreshes     *)
(* store titles under ids derived from the provider's own, and readers     *)
(* write progress under the title id they opened.                          *)
(*                                                                         *)
(* An action is one call of the database, which runs alone: in a tab       *)
(* because SQLite is synchronous there, on the desktop because the data    *)
(* host serves one call at a time.  What callers read earlier is stale by  *)
(* the time their next call runs: the reader's title, its checks, and the  *)
(* chapter list of a provider.  The rows are those of the snapshot that is *)
(* stored: in a browser another tab whose own snapshot has lost the race   *)
(* merges its progress into it (merge-uncommitted-progress.ts).            *)
(*                                                                         *)
(* A mapping stands for its provider and remote id, which are unique       *)
(* (schema.ts:90), a chapter for its mapping and index; so the duplicates  *)
(* that merge also looks for cannot exist and are left out.  Timestamps    *)
(* are ticks of a clock; where equal ones are told apart by the page, the  *)
(* outcome is open here (ProgressOrdering has the comparison).             *)
(***************************************************************************)
EXTENDS Naturals, FiniteSets

CONSTANTS
    Titles, Mappings, Chapters, None,
    Provider,      \* the provider of a mapping
    Bound,         \* mappings whose titles the app derives an id for
    AppOf,         \* that id
    MappingOf,     \* the mapping a chapter belongs to
    Backups,       \* the documents a user may restore
    Crashes,       \* whether the process may die between the statements of a call
    MaxClock, MaxEvents, MaxEdits   \* bounds

ASSUME LibraryTitlesAssumption ==
    /\ None \notin Titles \cup Mappings \cup Chapters
    /\ Bound \subseteq Mappings
    /\ AppOf \in [Bound -> Titles]
    /\ \A m, n \in Bound : AppOf[m] = AppOf[n] => m = n
    /\ MappingOf \in [Chapters -> Mappings]
    /\ Crashes \in BOOLEAN
    /\ {MaxClock, MaxEvents, MaxEdits} \subseteq Nat

VARIABLES
    titles,    \* manga_identities: default, preferred source, absorbed ids
    mappings,  \* manga_provider_mappings: the title of each
    chapters,  \* chapters: the title of each
    read,      \* chapter_read_state: time of the event, title
    entries,   \* library_entries: active mapping, last chapter read, updatedAt
    undo,      \* migration_history
    reader,    \* the title the open reader of a chapter writes under
    pending,   \* progress events that persistOnce is at work on
    clock,
    edits,     \* what MaxEdits bounds
    strayed    \* history: chapters whose read state another tab has merged in
               \* under a title that is not theirs

rows == <<titles, mappings, chapters, read, entries, undo>>
vars == <<rows, reader, pending, clock, edits, strayed>>

NoTitle == [default |-> None, preferred |-> None, absorbed |-> {}]
NoRead == [at |-> 0, title |-> None]
NoEntry == [active |-> None, last |-> None, at |-> 0]

Live(t) == titles[t].default # None
InLibrary(t) == entries[t].at # 0
AppIds == {AppOf[m] : m \in Bound}

Init ==
    /\ titles = [t \in Titles |-> NoTitle]
    /\ mappings = [m \in Mappings |-> None]
    /\ chapters = [c \in Chapters |-> None]
    /\ read = [c \in Chapters |-> NoRead]
    /\ entries = [t \in Titles |-> NoEntry]
    /\ undo = {}
    /\ reader = [c \in Chapters |-> None]
    /\ pending = {}
    /\ clock = 1
    /\ edits = 0
    /\ strayed = {}

(* What is left of the chapters cs astray: their read state still names    *)
(* another title than the chapter's.                                       *)
Astray(c) == read[c] # NoRead /\ read[c].title # chapters[c]
StillAstray(cs) == strayed' = {c \in cs : Astray(c)'}

Tick ==
    /\ clock < MaxClock
    /\ clock' = clock + 1
    /\ UNCHANGED <<rows, reader, pending, edits>>

Edited ==
    /\ edits < MaxEdits
    /\ edits' = edits + 1
    /\ UNCHANGED <<reader, pending, clock>>

-----------------------------------------------------------------------------
(* Refreshes of provider data. *)

(* upsertMangaIdentity, for a provider title opened or refreshed under its *)
(* app id: the title is inserted if it is not there, the mapping if it is  *)
(* nowhere.  A mapping that exists keeps its title.  (A crash in between   *)
(* counts as an edit.)                                                     *)
UpsertIdentity(m, whole) ==
    LET id == AppOf[m] IN
    /\ titles' = IF Live(id) THEN titles ELSE [titles EXCEPT ![id] = [NoTitle EXCEPT !.default = m]]
    /\ mappings' = IF whole /\ mappings[m] = None THEN [mappings EXCEPT ![m] = id] ELSE mappings
    /\ <<titles, mappings>>' # <<titles, mappings>>
    /\ IF whole THEN UNCHANGED <<reader, pending, clock, edits>> ELSE Edited
    /\ UNCHANGED <<chapters, read, entries, undo>>

(* Mutated form of UpsertChapter: the mapping's title is not compared. *)
MutUpsertChapter(t, c) ==
    /\ Live(t) /\ mappings[MappingOf[c]] # None
    /\ chapters[c] = None
    /\ chapters' = [chapters EXCEPT ![c] = t]
    /\ UNCHANGED <<titles, mappings, read, entries, undo, reader, pending, clock, edits>>

(* upsertChapterMetadata, of a chapter listed for title t; t may have been *)
(* read long before.                                                       *)
UpsertChapter(t, c) ==
    /\ mappings[MappingOf[c]] = t
    /\ chapters[c] = None
    /\ chapters' = [chapters EXCEPT ![c] = t]
    /\ UNCHANGED <<titles, mappings, read, entries, undo, reader, pending, clock, edits>>

-----------------------------------------------------------------------------
(* The library and its pointers. *)

(* addLibraryEntry *)
AddEntry(t) ==
    /\ Edited
    /\ Live(t) /\ ~InLibrary(t)
    /\ entries' = [entries EXCEPT ![t] = [NoEntry EXCEPT !.at = clock]]
    /\ UNCHANGED <<titles, mappings, chapters, read, undo>>

(* removeLibraryEntry *)
RemoveEntry(t) ==
    /\ Edited
    /\ InLibrary(t)
    /\ entries' = [entries EXCEPT ![t] = NoEntry]
    /\ UNCHANGED <<titles, mappings, chapters, read, undo>>

(* setLibraryEntryFavorite and the other edits that only move updatedAt. *)
Touch(t) ==
    /\ Edited
    /\ InLibrary(t) /\ entries[t].at < clock
    /\ entries' = [entries EXCEPT ![t].at = clock]
    /\ UNCHANGED <<titles, mappings, chapters, read, undo>>

(* setDefaultProviderMapping *)
SetDefault(t, m) ==
    /\ Edited
    /\ Live(t) /\ mappings[m] = t
    /\ titles[t].default # m
    /\ titles' = [titles EXCEPT ![t].default = m]
    /\ UNCHANGED <<mappings, chapters, read, entries, undo>>

(* setPreferredChapterSource *)
SetPreferred(t, m) ==
    /\ Edited
    /\ Live(t) /\ (m # None => mappings[m] = t)
    /\ titles[t].preferred # m
    /\ titles' = [titles EXCEPT ![t].preferred = m]
    /\ UNCHANGED <<mappings, chapters, read, entries, undo>>

(* setLibraryEntryActiveProviderMapping *)
SetActive(t, m) ==
    /\ Edited
    /\ InLibrary(t) /\ mappings[m] = t
    /\ entries[t].active # m
    /\ entries' = [entries EXCEPT ![t].active = m, ![t].at = clock]
    /\ UNCHANGED <<titles, mappings, chapters, read, undo>>

-----------------------------------------------------------------------------
(* Migration of a title to another provider, and its undo. *)

(* applySingleMigration: attach the target, move the default, move the     *)
(* active mapping, record the undo row.  These are statements of their     *)
(* own: a crash leaves the first "done" of them.                           *)
Migrate(t, from, to, done) ==
    /\ Edited
    /\ Live(t)
    /\ Provider[from] # Provider[to]
    /\ mappings[from] = t
    /\ mappings[to] \in {None, t}
    /\ mappings' = [mappings EXCEPT ![to] = t]
    /\ titles' = IF done > 1 /\ titles[t].default = from
                 THEN [titles EXCEPT ![t].default = to]
                 ELSE titles
    /\ entries' = IF done > 2 /\ InLibrary(t) /\ entries[t].active = from
                  THEN [entries EXCEPT ![t].active = to, ![t].at = clock]
                  ELSE entries
    /\ undo' = IF done > 3
               THEN undo \cup {[title |-> t, from |-> from, to |-> to,
                                default |-> titles[t].default, active |-> entries[t].active]}
               ELSE undo
    /\ UNCHANGED <<chapters, read>>

(* rollbackSingleMigration.  It refuses when a pointer names neither the   *)
(* previous mapping nor the batch's target.  Restoring "no active mapping" *)
(* sets a column to undefined, which the update leaves as it is.           *)
Rollback(u, whole) ==
    LET t == u.title
        previous == IF u.default # None THEN u.default ELSE u.from
        moveDefault == titles[t].default # previous
        moveActive == InLibrary(t) /\ entries[t].active # u.active
    IN
    /\ Edited
    /\ Live(t) /\ mappings[u.to] = t
    /\ u.default = None => mappings[u.from] = t
    /\ moveDefault => titles[t].default = u.to /\ mappings[previous] = t
    /\ moveActive => entries[t].active = u.to
    /\ moveDefault \/ moveActive
    /\ titles' = IF moveDefault THEN [titles EXCEPT ![t].default = previous] ELSE titles
    /\ entries' = IF ~whole \/ ~moveActive \/ (u.active # None /\ mappings[u.active] # t) THEN entries
                  ELSE [entries EXCEPT ![t].active = IF u.active = None THEN @ ELSE u.active,
                                       ![t].at = clock]
    /\ UNCHANGED <<mappings, chapters, read, undo>>

-----------------------------------------------------------------------------
(* Merge and unmerge, each one transaction. *)

ReadAt(c) == IF c = None THEN 0 ELSE read[c].at

(* The one library entry of a merged title: progress follows the later     *)
(* read event, the active mapping is the target's if it has one.           *)
MergedEntry(target, source) ==
    LET latest == IF target.last = None THEN source.last
                  ELSE IF source.last # None /\ ReadAt(source.last) > ReadAt(target.last) THEN source.last
                  ELSE target.last
    IN IF source.at = 0 THEN target
       ELSE IF target.at = 0 THEN source
       ELSE [active |-> IF target.active # None THEN target.active ELSE source.active,
             last |-> latest,
             at |-> IF source.at > target.at THEN source.at ELSE target.at]

(* mergeMangaIdentities: every row of s becomes one of t, then s goes, and *)
(* with it what still names it.                                            *)
Merge(t, s) ==
    LET moved(x) == IF x = s THEN t ELSE x
        preferred == IF titles[t].preferred # None THEN titles[t].preferred ELSE titles[s].preferred
    IN
    /\ Edited
    /\ t # s /\ Live(t) /\ Live(s)
    /\ \E m \in Mappings : mappings[m] = s
    /\ mappings' = [m \in Mappings |-> moved(mappings[m])]
    /\ chapters' = [c \in Chapters |-> moved(chapters[c])]
    /\ read' = [c \in Chapters |->
                  IF chapters[c] = s /\ read[c] # NoRead THEN [read[c] EXCEPT !.title = t]
                  ELSE IF read[c].title = s THEN NoRead
                  ELSE read[c]]
    /\ entries' = [entries EXCEPT ![t] = MergedEntry(entries[t], entries[s]), ![s] = NoEntry]
    /\ undo' = {[u EXCEPT !.title = moved(@)] : u \in undo}
    /\ titles' = [titles EXCEPT
                    ![t].preferred = preferred,
                    ![t].absorbed = @ \cup titles[s].absorbed \cup {s},
                    ![s] = NoTitle]

(* The latest read chapter left at a title (none if nothing was read). *)
LatestRead(t, left) ==
    LET been == {c \in Chapters : left[c] = t /\ read[c] # NoRead}
    IN IF been = {} THEN {None} ELSE {c \in been : \A d \in been : read[c].at >= read[d].at}

(* A generated id is one that nothing has ever used. *)
Fresh(r) ==
    /\ r \notin AppIds /\ ~Live(r)
    /\ \A t \in Titles : r \notin titles[t].absorbed
    /\ \A c \in Chapters : reader[c] # r
    /\ \A e \in pending : e.title # r

Cleared(x, m) == IF x = m THEN None ELSE x

(* Mutated form of Released: only the active mapping of the row is cleared. *)
MutReleased(u, t, m) ==
    IF u.title = t THEN [u EXCEPT !.active = Cleared(@, m)] ELSE u

(* An undo row of t once mapping m has left. *)
Released(u, t, m) ==
    IF u.title = t THEN [u EXCEPT !.default = Cleared(@, m), !.active = Cleared(@, m)] ELSE u

(* unmergeProviderMapping: mapping m leaves t for a title of its own,      *)
(* under an absorbed id that is free, or a generated one.                  *)
Unmerge(t, m, r, next, last) ==
    LET free == {id \in titles[t].absorbed : ~Live(id)}
        goes(c) == MappingOf[c] = m /\ chapters[c] = t
        left == [c \in Chapters |-> IF goes(c) THEN r ELSE chapters[c]]
        moveActive == entries[t].active = m
        moveLast == entries[t].last # None /\ goes(entries[t].last)
    IN
    /\ Edited
    /\ Live(t) /\ mappings[m] = t
    /\ \E n \in Mappings \ {m} : mappings[n] = t
    /\ IF titles[t].default = m THEN next # m /\ mappings[next] = t ELSE next = titles[t].default
    /\ IF free # {} THEN r \in free ELSE Fresh(r)
    /\ last \in (IF moveLast THEN LatestRead(t, left) ELSE {entries[t].last})
    /\ mappings' = [mappings EXCEPT ![m] = r]
    /\ chapters' = left
    /\ read' = [c \in Chapters |-> IF goes(c) /\ read[c] # NoRead THEN [read[c] EXCEPT !.title = r] ELSE read[c]]
    /\ entries' = IF InLibrary(t) /\ (moveActive \/ moveLast)
                  THEN [entries EXCEPT ![t] = [active |-> IF moveActive THEN next ELSE @.active,
                                               last |-> last, at |-> clock]]
                  ELSE entries
    /\ undo' = {Released(u, t, m) : u \in undo}
    /\ titles' = [titles EXCEPT
                    ![t] = [default |-> next,
                            preferred |-> Cleared(@.preferred, m),
                            absorbed |-> @.absorbed \ {r}],
                    ![r] = [NoTitle EXCEPT !.default = m]]

-----------------------------------------------------------------------------
(* Reading. *)

(* The reader loads a chapter and keeps the title it found. *)
OpenReader(c) ==
    /\ chapters[c] \notin {None, reader[c]}
    /\ reader' = [reader EXCEPT ![c] = chapters[c]]
    /\ UNCHANGED <<rows, pending, clock, edits>>

(* A page turn.  Events of one chapter take turns in a tab; several        *)
(* windows may have the chapter open.                                      *)
Turn(c) ==
    /\ reader[c] # None
    /\ Cardinality(pending) < MaxEvents
    /\ pending' = pending \cup {[chapter |-> c, title |-> reader[c], at |-> clock, pc |-> "check"]}
    /\ UNCHANGED <<rows, reader, clock, edits>>

(* Whether an event beats what is stored; the page decides a tie. *)
Verdicts(at, stored) ==
    IF at = stored THEN BOOLEAN ELSE {at > stored}

Goes(e, pc) == pending' = (pending \ {e}) \cup {[e EXCEPT !.pc = pc]}
Ends(e) == pending' = pending \ {e}

(* getChapterReadStateOrdering and acceptChapterReadState *)
Check(e) ==
    /\ e.pc = "check"
    /\ \E accepted \in Verdicts(e.at, read[e.chapter].at) :
         IF accepted THEN Goes(e, "write") ELSE Ends(e)
    /\ UNCHANGED <<rows, reader, clock, edits>>

(* Mutated form of Write: the statement does not compare again. *)
MutWrite(e) ==
    /\ e.pc = "write"
    /\ read' = IF chapters[e.chapter] = e.title
               THEN [read EXCEPT ![e.chapter] = [at |-> e.at, title |-> e.title]]
               ELSE read
    /\ Goes(e, "look")
    /\ UNCHANGED <<titles, mappings, chapters, entries, undo, reader, clock, edits>>

(* upsertChapterReadState of a progress made at a time: the row, if it is  *)
(* for the chapter's own title and beats the one that is stored.           *)
Upserted(c, t, at) ==
    \E accepted \in Verdicts(at, read[c].at) :
        read' = IF chapters[c] = t /\ accepted
                THEN [read EXCEPT ![c] = [at |-> at, title |-> t]]
                ELSE read

(* upsertChapterReadState.  Its error, for a chapter that is not the       *)
(* title's, is not looked at (persist-reader-progress.ts:50).              *)
Write(e) ==
    /\ e.pc = "write"
    /\ Upserted(e.chapter, e.title, e.at)
    /\ Goes(e, "look")
    /\ UNCHANGED <<titles, mappings, chapters, entries, undo, reader, clock, edits>>

(* getLibraryResumeOrdering and acceptLibraryResumeMetadata *)
Look(e) ==
    /\ e.pc = "look"
    /\ \E accepted \in (IF entries[e.title].last = None THEN {TRUE} ELSE Verdicts(e.at, entries[e.title].at)) :
         IF accepted THEN Goes(e, "resume") ELSE Ends(e)
    /\ UNCHANGED <<rows, reader, clock, edits>>

(* Mutated form of Resume: it inserts the entry that is not there. *)
MutResume(e) ==
    LET t == e.title IN
    /\ e.pc = "resume"
    /\ \E accepted \in (IF entries[t].last = None THEN {TRUE} ELSE Verdicts(e.at, entries[t].at)) :
         entries' = IF accepted THEN [entries EXCEPT ![t].last = e.chapter, ![t].at = e.at] ELSE entries
    /\ Ends(e)
    /\ UNCHANGED <<titles, mappings, chapters, read, undo, reader, clock, edits>>

(* updateLibraryEntryReadingProgress, whose statement compares again *)
Resume(e) ==
    LET t == e.title IN
    /\ e.pc = "resume"
    /\ \E accepted \in (IF ~InLibrary(t) THEN {FALSE}
                        ELSE IF entries[t].last = None THEN {TRUE}
                        ELSE Verdicts(e.at, entries[t].at)) :
         entries' = IF accepted THEN [entries EXCEPT ![t].last = e.chapter, ![t].at = e.at] ELSE entries
    /\ Ends(e)
    /\ UNCHANGED <<titles, mappings, chapters, read, undo, reader, clock, edits>>

(* A call of the event fails, or its window goes away. *)
Fails(e) ==
    /\ Ends(e)
    /\ UNCHANGED <<rows, reader, clock, edits>>

(* setChapterCompleted: under the chapter's own title, at a time that      *)
(* beats what is stored.                                                   *)
SetCompleted(c) ==
    /\ Edited
    /\ chapters[c] # None
    /\ read' = [read EXCEPT ![c] = [at |-> IF @.at < clock THEN clock ELSE @.at + 1,
                                    title |-> chapters[c]]]
    /\ UNCHANGED <<titles, mappings, chapters, entries, undo>>

(* One row of markPreviousChaptersCompleted, which writes at the time it   *)
(* is: a row that is later stays as it is.  Its rows are calls of their    *)
(* own, and one whose chapter has moved since is refused like any other.   *)
MarkPrevious(c) ==
    /\ Edited
    /\ chapters[c] # None
    /\ Upserted(c, chapters[c], clock)
    /\ read' # read
    /\ UNCHANGED <<titles, mappings, chapters, entries, undo>>

-----------------------------------------------------------------------------
(* Other writers of whole snapshots. *)

(* mergeUncommittedProgress: another tab, whose snapshot was not the one   *)
(* stored last, puts the progress of its own into it.  Rows that win go in *)
(* as that tab has them: its title is the one the chapter had there, which *)
(* nothing compares with the chapter's here, where chapter_id need not     *)
(* even exist; only a title that is gone fails (the foreign key) and the   *)
(* merge with it.  Every row is compared and written by itself: a merge of *)
(* several is several steps.                                               *)
MergeReadState(c, t, at) ==
    /\ Edited
    /\ Live(t)
    /\ TRUE \in Verdicts(at, read[c].at)
    /\ read' = [read EXCEPT ![c] = [at |-> at, title |-> t]]
    /\ UNCHANGED <<titles, mappings, chapters, entries, undo>>

MergeResume(t, c, at) ==
    /\ Edited
    /\ InLibrary(t)
    /\ entries[t].last = None \/ TRUE \in Verdicts(at, entries[t].at)
    /\ entries' = [entries EXCEPT ![t].last = c, ![t].at = at]
    /\ UNCHANGED <<titles, mappings, chapters, read, undo>>

(* The errors that previewBackupRestore finds in a document that carries   *)
(* its chapters.  Default, preferred and active mappings are not looked at.*)
Previewed(d) ==
    LET own(m, t) == m # None => d.mappings[m] = t
        there(t) == d.titles[t].default # None
    IN
    /\ \A m \in Mappings : d.mappings[m] # None => there(d.mappings[m])
    /\ \A c \in Chapters : d.chapters[c] # None => d.mappings[MappingOf[c]] = d.chapters[c]
    /\ \A c \in Chapters : d.read[c] # NoRead => d.chapters[c] # None /\ d.read[c].title = d.chapters[c]
    /\ \A t \in Titles : d.entries[t] # NoEntry =>
          there(t) /\ (d.entries[t].last # None => d.chapters[d.entries[t].last] # None)
    /\ \A u \in d.undo : there(u.title) /\ own(u.default, u.title) /\ own(u.active, u.title)

(* applyBackupRestore: one transaction puts the document's rows in place   *)
(* of all.  Readers and events go on as they are.                          *)
Restore(d) ==
    /\ Edited
    /\ Previewed(d)
    /\ \A t \in Titles : d.entries[t].at <= clock
    /\ titles' = d.titles /\ mappings' = d.mappings /\ chapters' = d.chapters
    /\ read' = d.read /\ entries' = d.entries /\ undo' = d.undo

-----------------------------------------------------------------------------
Refresh ==
    \/ \E m \in Bound, whole \in BOOLEAN : (Crashes \/ whole) /\ UpsertIdentity(m, whole)
    \/ \E t \in Titles, c \in Chapters : UpsertChapter(t, c)

Edit ==
    \E t \in Titles :
        \/ AddEntry(t)
        \/ RemoveEntry(t)
        \/ Touch(t)
        \/ \E m \in Mappings : SetDefault(t, m) \/ SetActive(t, m)
        \/ \E m \in Mappings \cup {None} : SetPreferred(t, m)

Move ==
    \/ \E t \in Titles, from, to \in Mappings, done \in 1 .. 4 :
         (Crashes \/ done = 4) /\ Migrate(t, from, to, done)
    \/ \E u \in undo, whole \in BOOLEAN : (Crashes \/ whole) /\ Rollback(u, whole)
    \/ \E t, s \in Titles : Merge(t, s)
    \/ \E t, r \in Titles, m, next \in Mappings, last \in Chapters \cup {None} :
         Unmerge(t, m, r, next, last)

Reading ==
    \/ \E c \in Chapters : OpenReader(c) \/ Turn(c) \/ SetCompleted(c) \/ MarkPrevious(c)
    \/ \E e \in pending : Check(e) \/ Write(e) \/ Look(e) \/ Resume(e) \/ Fails(e)

Restores == \E d \in Backups : Restore(d)

(* A call of the database. *)
Call ==
    \/ Refresh
    \/ edits < MaxEdits /\ Edit
    \/ edits < MaxEdits /\ Move
    \/ Reading
    \/ Restores

Next ==
    \/ (Tick \/ Call) /\ StillAstray(strayed)
    \/ edits < MaxEdits /\ \E c \in Chapters, t \in Titles, at \in 1 .. clock :
         \/ MergeReadState(c, t, at) /\ StillAstray(strayed \cup {c})
         \/ MergeResume(t, c, at) /\ StillAstray(strayed)

Spec == Init /\ [][Next]_vars

-----------------------------------------------------------------------------
TitleRows == [default : Mappings \cup {None}, preferred : Mappings \cup {None}, absorbed : SUBSET Titles]
ReadRows == [at : Nat, title : Titles \cup {None}]
EntryRows == [active : Mappings \cup {None}, last : Chapters \cup {None}, at : Nat]
UndoRows == [title : Titles, from : Mappings, to : Mappings,
             default : Mappings \cup {None}, active : Mappings \cup {None}]
Events == [chapter : Chapters, title : Titles, at : Nat, pc : {"check", "write", "look", "resume"}]

(* A document holds rows of the tables' types.                             *)
Documents == [titles : [Titles -> TitleRows], mappings : [Mappings -> Titles \cup {None}],
              chapters : [Chapters -> Titles \cup {None}], read : [Chapters -> ReadRows],
              entries : [Titles -> EntryRows], undo : SUBSET UndoRows]

ASSUME BackupsAssumption ==
    \A d \in Backups :
        /\ d \in Documents
        /\ \A t \in Titles : d.titles[t].default = None => d.titles[t] = NoTitle
        /\ \A t \in Titles : d.entries[t].at = 0 => d.entries[t] = NoEntry
        /\ \A c \in Chapters : d.read[c].at = 0 => d.read[c] = NoRead

(* Types of the tables and of the events at work; a title that is gone has *)
(* left no row and no library entry, whoever still writes under its id.    *)
TypesOK ==
    /\ titles \in [Titles -> TitleRows]
    /\ mappings \in [Mappings -> Titles \cup {None}]
    /\ chapters \in [Chapters -> Titles \cup {None}]
    /\ read \in [Chapters -> ReadRows]
    /\ entries \in [Titles -> EntryRows]
    /\ undo \subseteq UndoRows
    /\ reader \in [Chapters -> Titles \cup {None}]
    /\ pending \subseteq Events
    /\ clock \in Nat \ {0}
    /\ edits \in Nat
    /\ strayed \subseteq Chapters

TypeOK ==
    /\ TypesOK
    /\ \A t \in Titles : ~Live(t) => titles[t] = NoTitle /\ entries[t] = NoEntry

(* A mapping belongs to a title that is there, a chapter to the title of   *)
(* its mapping, a read state to a title that is there and to that of its   *)
(* chapter, whatever merges, unmerges, migrations, refreshes, stale        *)
(* readers and restores have done: the three manga_id columns are written  *)
(* by different calls.  One read state is excepted, and only as long as it *)
(* stands: one that another tab has merged in under the title it knew      *)
(* (merge-uncommitted-progress.ts:28).  Restores are of documents that     *)
(* carry their chapters, as all do that the present version exports.       *)
RowsAreOwn ==
    /\ \A m \in Mappings : mappings[m] # None => Live(mappings[m])
    /\ \A c \in Chapters : chapters[c] # None => mappings[MappingOf[c]] = chapters[c]
    /\ \A c \in Chapters : read[c] # NoRead =>
          /\ read[c].at # 0 /\ read[c].title # None /\ Live(read[c].title)
          /\ chapters[c] = read[c].title \/ c \in strayed

(* The pointers to mappings that nothing but the code keeps right: every   *)
(* one names a mapping of its own title.                                   *)
Own(m, t) == m # None => mappings[m] = t

PointersAreOwn ==
    /\ \A t \in Titles : Own(titles[t].default, t) /\ Own(titles[t].preferred, t) /\ Own(entries[t].active, t)
    /\ \A u \in undo : Own(u.default, u.title) /\ Own(u.active, u.title)

(* A refresh inserts a title whose source is attached to another title, or *)
(* dies before it has attached it.                                         *)
Orphans ==
    \E m \in Bound :
        /\ ~Live(AppOf[m]) /\ titles'[AppOf[m]].default = m
        /\ mappings'[m] # AppOf[m]

(* No call leaves a pointer behind when it moves a mapping: default,       *)
(* preferred and active mapping and the undo pointers stay with the        *)
(* mapping's title.  Only a refresh can store a title without its source,  *)
(* and a restore brings the pointers its document has.                     *)
PointersStayOwn == [][PointersAreOwn => PointersAreOwn' \/ Orphans \/ Restores]_vars

(* What was read stays read: no merge, unmerge or late event takes a       *)
(* chapter's read state away or puts an older one in its place, though     *)
(* events check and write in separate calls; nor does a late event, or     *)
(* another tab's, move the time of "continue reading" back.  A restore     *)
(* does, and a read state that has strayed goes with the title it names.   *)
ProgressNeverGoesBack ==
    [][\/ Restores
       \/ /\ \A c \in Chapters \ strayed : read'[c].at >= read[c].at
          /\ \A t \in Titles : entries[t].last # None /\ entries'[t].last # None
                               => entries'[t].at >= entries[t].at]_vars

(* Not so (identity-merge.ts:1311): a title always has a provider source.  *)
TitlesKeepASource ==
    \A t \in Titles : Live(t) => \E m \in Mappings : mappings[m] = t

=============================================================================
