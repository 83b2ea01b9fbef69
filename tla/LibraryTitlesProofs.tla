------------------------ MODULE LibraryTitlesProofs ------------------------
(***************************************************************************)
(* Proofs about LibraryTitles, for any titles, mappings, chapters, crashes *)
(* and bounds.  The inductive invariant is the type invariant, the rows'   *)
(* agreement on their titles, and that no stored or travelling timestamp   *)
(* of the library is ahead of the clock, nor zero where there is a row.    *)
(***************************************************************************)
EXTENDS LibraryTitles, TLAPS

Gone == \A t \in Titles : ~Live(t) => titles[t] = NoTitle /\ entries[t] = NoEntry

TimesAreKnown ==
    /\ \A t \in Titles : entries[t].at <= clock /\ (entries[t].at = 0 => entries[t].active = None)
    /\ \A e \in pending : 0 < e.at /\ e.at <= clock

TitlesInv == TypesOK /\ Gone /\ RowsAreOwn /\ TimesAreKnown

(* None is no title, no mapping and no chapter. *)
LEMMA NoneIsNone ==
    /\ None \notin Titles /\ None \notin Mappings /\ None \notin Chapters
    /\ \A m \in Bound : m \in Mappings /\ AppOf[m] \in Titles
    /\ \A c \in Chapters : MappingOf[c] \in Mappings
  BY LibraryTitlesAssumption

(* What a step leaves of the history of strayed read states. *)
StrayedFollows ==
    \A c \in strayed : read'[c] # NoRead /\ read'[c].title # chapters'[c] => c \in strayed'

LEMMA StrayedStep ==
    ASSUME NEW cs \in SUBSET Chapters, strayed \subseteq cs, StillAstray(cs)
    PROVE  strayed' \subseteq Chapters /\ StrayedFollows
  BY DEF StillAstray, Astray, StrayedFollows

(* A time that is accepted is not before the one that is stored. *)
LEMMA Accepted ==
    ASSUME NEW at, NEW stored, NEW accepted \in Verdicts(at, stored), accepted
    PROVE  at = stored \/ at > stored
  <1>1. CASE at # stored
    <2>1. accepted \in {at > stored}
      BY <1>1, Zenon DEF Verdicts
    <2> QED BY <2>1, Zenon
  <1> QED BY <1>1

LEMMA UpsertedRow ==
    ASSUME TitlesInv, NEW c \in Chapters, NEW t \in Titles, NEW at \in Nat \ {0}, Upserted(c, t, at)
    PROVE  /\ read' \in [Chapters -> ReadRows]
           /\ \A d \in Chapters :
                \/ read'[d] = read[d]
                \/ /\ d = c /\ read'[d].at = at /\ read'[d].title = t /\ chapters[d] = t
                   /\ at >= read[d].at
  <1>1. read \in [Chapters -> ReadRows] /\ read[c].at \in Nat
    BY DEF TitlesInv, TypesOK, ReadRows
  <1>2. PICK accepted \in Verdicts(at, read[c].at) :
            read' = IF chapters[c] = t /\ accepted
                    THEN [read EXCEPT ![c] = [at |-> at, title |-> t]] ELSE read
    BY DEF Upserted
  <1>3. CASE read' = read
    BY <1>1, <1>3
  <1>4. CASE chapters[c] = t /\ accepted
    <2>1. read' = [read EXCEPT ![c] = [at |-> at, title |-> t]]
      BY <1>2, <1>4, Zenon
    <2>2. at = read[c].at \/ at > read[c].at
      BY <1>4, Accepted
    <2>3. [at |-> at, title |-> t] \in ReadRows
      BY DEF ReadRows
    <2> QED BY <1>1, <1>4, <2>1, <2>2, <2>3
  <1>5. read' = read \/ (chapters[c] = t /\ accepted)
    BY <1>2, Zenon
  <1> QED BY <1>3, <1>4, <1>5

LEMMA InitTitles == Init => TitlesInv
  <1> SUFFICES ASSUME Init PROVE TitlesInv
    OBVIOUS
  <1> USE NoneIsNone DEF Init, NoTitle, NoRead, NoEntry
  <1>1. TypesOK
    BY DEF TypesOK, TitleRows, ReadRows, EntryRows
  <1>2. Gone
    BY DEF Gone, Live
  <1>3. RowsAreOwn
    BY DEF RowsAreOwn, Live
  <1>4. TimesAreKnown
    BY DEF TimesAreKnown
  <1> QED BY <1>1, <1>2, <1>3, <1>4 DEF TitlesInv

(* The invariant under a step that leaves the titles, their mappings and   *)
(* the chapters alone.                                                     *)
LEMMA RowsUnderReading ==
    ASSUME TitlesInv, StrayedFollows, UNCHANGED <<titles, mappings, chapters>>,
           \A c \in Chapters :
               \/ read'[c] = read[c]
               \/ read'[c].at # 0 /\ chapters[c] # None /\ read'[c].title = chapters[c]
    PROVE  RowsAreOwn'
  <1>1. \A c \in Chapters : chapters[c] # None => Live(chapters[c])
    BY NoneIsNone DEF TitlesInv, RowsAreOwn
  <1>2. \A c \in Chapters : read'[c] # NoRead =>
            read'[c].at # 0 /\ read'[c].title # None /\ Live(read'[c].title)
    BY <1>1 DEF TitlesInv, RowsAreOwn
  <1>3. \A c \in Chapters : read'[c] # NoRead => chapters'[c] = read'[c].title \/ c \in strayed'
    BY DEF TitlesInv, RowsAreOwn, StrayedFollows
  <1>4. \A c \in Chapters : (read[c] # NoRead => read[c].at # 0 /\ read[c].title # None /\ Live(read[c].title))'
    BY <1>2 DEF Live
  <1>5. \A m \in Mappings : (mappings[m] # None => Live(mappings[m]))'
    BY DEF TitlesInv, RowsAreOwn, Live
  <1>6. \A c \in Chapters : (chapters[c] # None => mappings[MappingOf[c]] = chapters[c])'
    BY DEF TitlesInv, RowsAreOwn
  <1> QED BY <1>3, <1>4, <1>5, <1>6 DEF RowsAreOwn

(* Edits and migrations: titles stay, a mapping is only ever attached, to  *)
(* a title that is there.                                                  *)
LEMMA RowsUnderEdits ==
    ASSUME TitlesInv, StrayedFollows, UNCHANGED <<chapters, read>>,
           \A t \in Titles : Live(t) => Live(t)',
           \A m \in Mappings :
               \/ mappings'[m] = mappings[m]
               \/ mappings[m] = None /\ mappings'[m] \in Titles /\ (Live(mappings[m]))'
    PROVE  RowsAreOwn'
  <1>1. \A m \in Mappings : mappings[m] \in Titles \cup {None}
    BY DEF TitlesInv, TypesOK
  <1>2. \A m \in Mappings : (mappings[m] # None => Live(mappings[m]))'
    BY <1>1 DEF TitlesInv, RowsAreOwn
  <1>3. \A c \in Chapters : chapters[c] # None => mappings'[MappingOf[c]] = chapters[c]
    BY NoneIsNone DEF TitlesInv, RowsAreOwn
  <1>4. \A c \in Chapters : read[c] # NoRead => read[c].title \in Titles
    BY DEF TitlesInv, TypesOK, ReadRows, RowsAreOwn
  <1>5. \A c \in Chapters : (read[c] # NoRead => read[c].at # 0 /\ read[c].title # None /\ Live(read[c].title))'
    BY <1>4 DEF TitlesInv, RowsAreOwn
  <1>6. \A c \in Chapters : (read[c] # NoRead => chapters[c] = read[c].title \/ c \in strayed)'
    BY DEF TitlesInv, RowsAreOwn, StrayedFollows
  <1> QED BY <1>2, <1>3, <1>5, <1>6 DEF RowsAreOwn

LEMMA RefreshKeeps ==
    ASSUME TitlesInv, Refresh, strayed' \subseteq Chapters, StrayedFollows
    PROVE  TitlesInv'
  <1> USE NoneIsNone DEF TitlesInv
  <1>1. ASSUME NEW m \in Bound, NEW whole \in BOOLEAN, UpsertIdentity(m, whole)
        PROVE  TitlesInv'
    <2> USE <1>1 DEF UpsertIdentity, Edited
    <2>1. titles' \in [Titles -> TitleRows]
      BY DEF TypesOK, TitleRows, NoTitle
    <2>2. TypesOK'
      BY <2>1 DEF TypesOK
    <2>3. \A t \in Titles : Live(t) => Live(t)'
      BY DEF TypesOK, TitleRows, Live, NoTitle
    <2>4. Gone'
      BY <2>3 DEF TypesOK, Gone, Live
    <2>5. Live(AppOf[m])'
      BY DEF TypesOK, TitleRows, Live, NoTitle
    <2>6. RowsAreOwn'
      <3>1. \A n \in Mappings :
               \/ mappings'[n] = mappings[n]
               \/ mappings[n] = None /\ mappings'[n] \in Titles /\ (Live(mappings[n]))'
        <4>1. mappings' = mappings \/ (mappings[m] = None /\ mappings' = [mappings EXCEPT ![m] = AppOf[m]])
          OBVIOUS
        <4> QED BY <2>5, <4>1 DEF TypesOK
      <3> QED BY <2>3, <3>1, RowsUnderEdits
    <2>7. TimesAreKnown'
      BY DEF TimesAreKnown
    <2> QED BY <2>2, <2>4, <2>6, <2>7
  <1>2. ASSUME NEW t \in Titles, NEW c \in Chapters, UpsertChapter(t, c)
        PROVE  TitlesInv'
    <2> USE <1>2 DEF UpsertChapter
    <2>1. TypesOK'
      BY DEF TypesOK
    <2>2. Gone'
      BY DEF Gone, Live
    <2>3. RowsAreOwn'
      <3>1. \A d \in Chapters : chapters'[d] = chapters[d] \/ (chapters[d] = None /\ d = c /\ chapters'[d] = t)
        BY DEF TypesOK
      <3>2. \A d \in Chapters : (chapters[d] # None => mappings[MappingOf[d]] = chapters[d])'
        BY <3>1 DEF RowsAreOwn
      <3>3. \A n \in Mappings : (mappings[n] # None => Live(mappings[n]))'
        BY DEF RowsAreOwn, Live
      <3>4. \A d \in Chapters : (read[d] # NoRead => read[d].at # 0 /\ read[d].title # None /\ Live(read[d].title))'
        BY DEF RowsAreOwn, Live
      <3>5. \A d \in Chapters : (read[d] # NoRead => chapters[d] = read[d].title \/ d \in strayed)'
        BY <3>1 DEF RowsAreOwn, StrayedFollows
      <3> QED BY <3>2, <3>3, <3>4, <3>5 DEF RowsAreOwn
    <2>4. TimesAreKnown'
      BY DEF TimesAreKnown
    <2> QED BY <2>1, <2>2, <2>3, <2>4
  <1> QED BY <1>1, <1>2 DEF Refresh

(* A step that leaves titles, entries and clock alone. *)
LEMMA ReadingKeeps ==
    ASSUME TitlesInv, Reading, strayed' \subseteq Chapters, StrayedFollows
    PROVE  TitlesInv'
  <1> USE NoneIsNone DEF TitlesInv, rows
  <1>1. ASSUME NEW c \in Chapters, OpenReader(c) PROVE TitlesInv'
    <2> USE <1>1 DEF OpenReader
    <2>1. TypesOK' BY DEF TypesOK
    <2>2. Gone' BY DEF Gone, Live
    <2>3. RowsAreOwn' BY RowsUnderReading
    <2>4. TimesAreKnown' BY DEF TimesAreKnown
    <2> QED BY <2>1, <2>2, <2>3, <2>4
  <1>2. ASSUME NEW c \in Chapters, Turn(c) PROVE TitlesInv'
    <2> USE <1>2 DEF Turn
    <2>1. TypesOK' BY DEF TypesOK, Events
    <2>2. Gone' BY DEF Gone, Live
    <2>3. RowsAreOwn' BY RowsUnderReading
    <2>4. \A e \in pending' : 0 < e.at /\ e.at <= clock
      BY DEF TimesAreKnown, TypesOK
    <2>5. TimesAreKnown' BY <2>4 DEF TimesAreKnown
    <2> QED BY <2>1, <2>2, <2>3, <2>5
  <1>3. ASSUME NEW c \in Chapters, SetCompleted(c) PROVE TitlesInv'
    <2> USE <1>3 DEF SetCompleted, Edited
    <2>1. read' \in [Chapters -> ReadRows]
      BY DEF TypesOK, ReadRows
    <2>2. TypesOK' BY <2>1 DEF TypesOK
    <2>3. Gone' BY DEF Gone, Live
    <2>4. \A d \in Chapters :
            \/ read'[d] = read[d]
            \/ read'[d].at # 0 /\ chapters[d] # None /\ read'[d].title = chapters[d]
      BY DEF TypesOK, ReadRows
    <2>5. RowsAreOwn' BY <2>4, RowsUnderReading
    <2>6. TimesAreKnown' BY DEF TimesAreKnown
    <2> QED BY <2>2, <2>3, <2>5, <2>6
  <1>4. ASSUME NEW e \in pending, Check(e) \/ Look(e) \/ Fails(e) PROVE TitlesInv'
    <2>1. /\ pending' \subseteq pending \cup {[e EXCEPT !.pc = "write"], [e EXCEPT !.pc = "resume"]}
          /\ UNCHANGED <<rows, reader, clock, edits>>
      BY <1>4 DEF Check, Look, Fails, Goes, Ends
    <2>2. e \in Events
      BY DEF TypesOK
    <2>3. [e EXCEPT !.pc = "write"] \in Events /\ [e EXCEPT !.pc = "resume"] \in Events
      BY <2>2 DEF Events
    <2>4. [e EXCEPT !.pc = "write"].at = e.at /\ [e EXCEPT !.pc = "resume"].at = e.at
      BY <2>2 DEF Events
    <2>5. TypesOK'
      BY <2>1, <2>3 DEF TypesOK
    <2>6. Gone'
      BY <2>1 DEF Gone, Live
    <2>7. RowsAreOwn'
      BY <2>1, RowsUnderReading
    <2>8. TimesAreKnown'
      BY <2>1, <2>4 DEF TimesAreKnown
    <2> QED BY <2>5, <2>6, <2>7, <2>8
  <1>5. ASSUME NEW e \in pending, Write(e) PROVE TitlesInv'
    <2> USE <1>5 DEF Write, Goes
    <2>1. e \in Events /\ e.chapter \in Chapters /\ e.title \in Titles /\ e.at \in Nat \ {0}
      BY DEF TypesOK, Events, TimesAreKnown
    <2>2. pending' \subseteq Events BY <2>1 DEF TypesOK, Events
    <2>3. /\ read' \in [Chapters -> ReadRows]
          /\ \A d \in Chapters :
                \/ read'[d] = read[d]
                \/ read'[d].at # 0 /\ chapters[d] # None /\ read'[d].title = chapters[d]
      BY <2>1, UpsertedRow
    <2>4. TypesOK' BY <2>2, <2>3 DEF TypesOK
    <2>5. Gone' BY DEF Gone, Live
    <2>6. RowsAreOwn' BY <2>3, RowsUnderReading
    <2>7. TimesAreKnown' BY <2>1 DEF TimesAreKnown, Events
    <2> QED BY <2>4, <2>5, <2>6, <2>7
  <1>6. ASSUME NEW e \in pending, Resume(e) PROVE TitlesInv'
    <2> USE <1>6 DEF Resume, Ends
    <2>1. e \in Events BY DEF TypesOK
    <2>2. entries' \in [Titles -> EntryRows] BY <2>1 DEF TypesOK, Events, EntryRows
    <2>3. TypesOK' BY <2>2 DEF TypesOK
    <2>4. entries' # entries => InLibrary(e.title)
      BY <2>1 DEF Events
    <2>5. InLibrary(e.title) => Live(e.title)
      BY <2>1 DEF InLibrary, Gone, NoEntry, Events
    <2>6. Gone' BY <2>1, <2>4, <2>5 DEF Gone, Live, Events, TypesOK
    <2>7. RowsAreOwn' BY RowsUnderReading
    <2>8. TimesAreKnown' BY <2>1 DEF TimesAreKnown, Events, TypesOK, EntryRows
    <2> QED BY <2>3, <2>6, <2>7, <2>8
  <1>7. ASSUME NEW c \in Chapters, MarkPrevious(c) PROVE TitlesInv'
    <2>1. /\ UNCHANGED <<titles, mappings, chapters, entries, undo, reader, pending, clock>>
          /\ edits' \in Nat /\ chapters[c] \in Titles /\ clock \in Nat \ {0}
          /\ Upserted(c, chapters[c], clock)
      BY <1>7 DEF MarkPrevious, Edited, TypesOK
    <2>2. /\ read' \in [Chapters -> ReadRows]
          /\ \A d \in Chapters :
                \/ read'[d] = read[d]
                \/ read'[d].at # 0 /\ chapters[d] # None /\ read'[d].title = chapters[d]
      BY <2>1, UpsertedRow
    <2>3. TypesOK' BY <2>1, <2>2 DEF TypesOK
    <2>4. Gone' BY <2>1 DEF Gone, Live
    <2>5. RowsAreOwn' BY <2>1, <2>2, RowsUnderReading
    <2>6. TimesAreKnown' BY <2>1 DEF TimesAreKnown
    <2> QED BY <2>3, <2>4, <2>5, <2>6
  <1> QED BY <1>1, <1>2, <1>3, <1>4, <1>5, <1>6, <1>7 DEF Reading

LEMMA GoneUnderEdits ==
    ASSUME TitlesInv, NEW s \in Titles, Live(s), Live(s)',
           \A t \in Titles \ {s} : titles'[t] = titles[t] /\ entries'[t] = entries[t]
    PROVE  Gone'
  <1>1. \A t \in Titles \ {s} : Live(t)' <=> Live(t)
    BY DEF Live
  <1> QED BY <1>1 DEF TitlesInv, Gone

(* One row of the library entries is replaced. *)
LEMMA EntryChange ==
    ASSUME TitlesInv, strayed' \subseteq Chapters, StrayedFollows,
           NEW t \in Titles, NEW row \in EntryRows, Live(t),
           entries' = [entries EXCEPT ![t] = row],
           row.at <= clock, row.at = 0 => row.active = None,
           titles' = titles, mappings' = mappings, chapters' = chapters, read' = read,
           undo' = undo, reader' = reader, pending' = pending, clock' = clock,
           edits' \in Nat
    PROVE  TitlesInv'
  <1>1. TypesOK'
    BY DEF TitlesInv, TypesOK
  <1>2. \A s \in Titles : Live(s)' <=> Live(s)
    BY DEF Live
  <1>3. \A s \in Titles : entries'[s] = IF s = t THEN row ELSE entries[s]
    BY DEF TitlesInv, TypesOK
  <1>4. Gone'
    BY <1>2, <1>3, GoneUnderEdits
  <1>5. RowsAreOwn'
    BY <1>2, RowsUnderEdits
  <1>6. TimesAreKnown'
    BY <1>3 DEF TitlesInv, TimesAreKnown
  <1> QED BY <1>1, <1>4, <1>5, <1>6 DEF TitlesInv

(* One title's row is replaced by one that has a default mapping. *)
LEMMA TitleChange ==
    ASSUME TitlesInv, strayed' \subseteq Chapters, StrayedFollows,
           NEW t \in Titles, NEW row \in TitleRows, Live(t), row.default # None,
           titles' = [titles EXCEPT ![t] = row],
           mappings' = mappings, chapters' = chapters, read' = read, entries' = entries,
           undo' = undo, reader' = reader, pending' = pending, clock' = clock,
           edits' \in Nat
    PROVE  TitlesInv'
  <1>1. TypesOK'
    BY DEF TitlesInv, TypesOK
  <1>2. \A s \in Titles : titles'[s] = IF s = t THEN row ELSE titles[s]
    BY DEF TitlesInv, TypesOK
  <1>3. \A s \in Titles : Live(s)' <=> Live(s)
    BY <1>2 DEF Live
  <1>4. Gone'
    BY <1>2, <1>3, GoneUnderEdits
  <1>5. RowsAreOwn'
    BY <1>3, RowsUnderEdits
  <1>6. TimesAreKnown'
    BY DEF TitlesInv, TimesAreKnown
  <1> QED BY <1>1, <1>4, <1>5, <1>6 DEF TitlesInv

LEMMA LibraryIsLive ==
    ASSUME TitlesInv, NEW t \in Titles, InLibrary(t)
    PROVE  Live(t)
  BY DEF TitlesInv, InLibrary, Gone, NoEntry

LEMMA EditKeeps ==
    ASSUME TitlesInv, Edit, strayed' \subseteq Chapters, StrayedFollows
    PROVE  TitlesInv'
  <1> USE NoneIsNone DEF Edited
  <1>1. PICK t \in Titles :
            \/ AddEntry(t) \/ RemoveEntry(t) \/ Touch(t)
            \/ \E m \in Mappings : SetDefault(t, m) \/ SetActive(t, m)
            \/ \E m \in Mappings \cup {None} : SetPreferred(t, m)
    BY DEF Edit
  <1>2. edits \in Nat /\ clock \in Nat \ {0} /\ titles[t] \in TitleRows /\ entries[t] \in EntryRows
    BY DEF TitlesInv, TypesOK
  <1>4. CASE AddEntry(t)
    <2>1. PICK row : row = [NoEntry EXCEPT !.at = clock]
      OBVIOUS
    <2>2. row \in EntryRows /\ row.at <= clock /\ (row.at = 0 => row.active = None)
      BY <1>2, <2>1 DEF NoEntry, EntryRows
    <2>3. entries' = [entries EXCEPT ![t] = row]
      BY <1>4, <2>1 DEF AddEntry
    <2>4. edits' \in Nat
      BY <1>2, <1>4 DEF AddEntry
    <2>5. Live(t)
      BY <1>4 DEF AddEntry
    <2>6. /\ titles' = titles /\ mappings' = mappings /\ chapters' = chapters /\ read' = read
          /\ undo' = undo /\ reader' = reader /\ pending' = pending /\ clock' = clock
      BY <1>4 DEF AddEntry
    <2> QED BY <2>2, <2>3, <2>4, <2>5, <2>6, EntryChange
  <1>5. CASE RemoveEntry(t)
    <2>1. PICK row : row = NoEntry
      OBVIOUS
    <2>2. row \in EntryRows /\ row.at <= clock /\ (row.at = 0 => row.active = None)
      BY <1>2, <2>1 DEF NoEntry, EntryRows
    <2>3. entries' = [entries EXCEPT ![t] = row]
      BY <1>5, <2>1 DEF RemoveEntry
    <2>4. edits' \in Nat
      BY <1>2, <1>5 DEF RemoveEntry
    <2>5. Live(t)
      BY <1>5, LibraryIsLive DEF RemoveEntry
    <2>6. /\ titles' = titles /\ mappings' = mappings /\ chapters' = chapters /\ read' = read
          /\ undo' = undo /\ reader' = reader /\ pending' = pending /\ clock' = clock
      BY <1>5 DEF RemoveEntry
    <2> QED BY <2>2, <2>3, <2>4, <2>5, <2>6, EntryChange
  <1>6. CASE Touch(t)
    <2>1. PICK row : row = [entries[t] EXCEPT !.at = clock]
      OBVIOUS
    <2>2. row \in EntryRows /\ row.at <= clock /\ (row.at = 0 => row.active = None)
      BY <1>2, <2>1 DEF EntryRows
    <2>3. entries' = [entries EXCEPT ![t] = row]
      BY <1>6, <2>1 DEF Touch
    <2>4. edits' \in Nat
      BY <1>2, <1>6 DEF Touch
    <2>5. Live(t)
      BY <1>6, LibraryIsLive DEF Touch
    <2>6. /\ titles' = titles /\ mappings' = mappings /\ chapters' = chapters /\ read' = read
          /\ undo' = undo /\ reader' = reader /\ pending' = pending /\ clock' = clock
      BY <1>6 DEF Touch
    <2> QED BY <2>2, <2>3, <2>4, <2>5, <2>6, EntryChange
  <1>7. ASSUME NEW m \in Mappings, SetDefault(t, m)
        PROVE  TitlesInv'
    <2>1. PICK row : row = [titles[t] EXCEPT !.default = m]
      OBVIOUS
    <2>2. row \in TitleRows /\ row.default # None
      BY <1>2, <2>1 DEF TitleRows
    <2>3. titles' = [titles EXCEPT ![t] = row]
      BY <1>7, <2>1 DEF SetDefault
    <2>4. edits' \in Nat
      BY <1>2, <1>7 DEF SetDefault
    <2>5. Live(t)
      BY <1>7 DEF SetDefault
    <2>6. /\ entries' = entries /\ mappings' = mappings /\ chapters' = chapters /\ read' = read
          /\ undo' = undo /\ reader' = reader /\ pending' = pending /\ clock' = clock
      BY <1>7 DEF SetDefault
    <2> QED BY <2>2, <2>3, <2>4, <2>5, <2>6, TitleChange
  <1>8. ASSUME NEW m \in Mappings, SetActive(t, m)
        PROVE  TitlesInv'
    <2>1. PICK row : row = [entries[t] EXCEPT !.active = m, !.at = clock]
      OBVIOUS
    <2>2. row \in EntryRows /\ row.at <= clock /\ (row.at = 0 => row.active = None)
      <3>1. row \in EntryRows
        BY <1>2, <2>1 DEF EntryRows
      <3>2. row.at = clock
        BY <1>2, <2>1 DEF EntryRows
      <3> QED BY <1>2, <3>1, <3>2
    <2>3. entries' = [entries EXCEPT ![t] = row]
      BY <1>8, <2>1 DEF SetActive
    <2>4. edits' \in Nat
      BY <1>2, <1>8 DEF SetActive
    <2>5. Live(t)
      BY <1>8, LibraryIsLive DEF SetActive
    <2>6. /\ titles' = titles /\ mappings' = mappings /\ chapters' = chapters /\ read' = read
          /\ undo' = undo /\ reader' = reader /\ pending' = pending /\ clock' = clock
      BY <1>8 DEF SetActive
    <2> QED BY <2>2, <2>3, <2>4, <2>5, <2>6, EntryChange
  <1>9. ASSUME NEW m \in Mappings \cup {None}, SetPreferred(t, m)
        PROVE  TitlesInv'
    <2>1. PICK row : row = [titles[t] EXCEPT !.preferred = m]
      OBVIOUS
    <2>2. Live(t)
      BY <1>9 DEF SetPreferred
    <2>3. row \in TitleRows /\ row.default # None
      BY <1>2, <2>1, <2>2 DEF TitleRows, Live
    <2>4. titles' = [titles EXCEPT ![t] = row]
      BY <1>9, <2>1 DEF SetPreferred
    <2>5. edits' \in Nat
      BY <1>2, <1>9 DEF SetPreferred
    <2>6. /\ entries' = entries /\ mappings' = mappings /\ chapters' = chapters /\ read' = read
          /\ undo' = undo /\ reader' = reader /\ pending' = pending /\ clock' = clock
      BY <1>9 DEF SetPreferred
    <2> QED BY <2>2, <2>3, <2>4, <2>5, <2>6, TitleChange
  <1> QED BY <1>1, <1>4, <1>5, <1>6, <1>7, <1>8, <1>9

(* Following another mapping changes one entry. *)
LEMMA FollowRow ==
    ASSUME entries \in [Titles -> EntryRows], clock \in Nat,
           NEW t \in Titles, NEW m \in Mappings \cup {None},
           entries' = [entries EXCEPT ![t].active = m, ![t].at = clock]
    PROVE  /\ entries' \in [Titles -> EntryRows]
           /\ \A s \in Titles \ {t} : entries'[s] = entries[s]
           /\ entries'[t].at = clock
  <1>1. PICK row : row = [entries[t] EXCEPT !.active = m, !.at = clock]
    OBVIOUS
  <1>2. row \in EntryRows
    BY <1>1 DEF EntryRows
  <1>3. row.at = clock
    BY <1>1 DEF EntryRows
  <1>4. entries' = [entries EXCEPT ![t] = row]
    BY <1>1
  <1> QED BY <1>2, <1>3, <1>4

LEMMA MigrateKeeps ==
    ASSUME TitlesInv, strayed' \subseteq Chapters, StrayedFollows,
           NEW t \in Titles, NEW from \in Mappings, NEW to \in Mappings,
           NEW done \in 1 .. 4, Migrate(t, from, to, done)
    PROVE  TitlesInv'
  <1> USE NoneIsNone DEF Edited
  <1>1. /\ edits \in Nat /\ clock \in Nat \ {0} /\ titles \in [Titles -> TitleRows]
        /\ entries \in [Titles -> EntryRows] /\ mappings \in [Mappings -> Titles \cup {None}]
        /\ undo \subseteq UndoRows
    BY DEF TitlesInv, TypesOK
  <1>2. /\ Live(t) /\ mappings[to] \in {None, t} /\ edits' = edits + 1
        /\ UNCHANGED <<chapters, read, reader, pending, clock>>
        /\ mappings' = [mappings EXCEPT ![to] = t]
    BY DEF Migrate
  <1>3. /\ titles' \in [Titles -> TitleRows]
        /\ \A s \in Titles \ {t} : titles'[s] = titles[s]
        /\ titles'[t].default # None
    <2>1. CASE titles' = titles
      BY <1>1, <1>2, <2>1 DEF Live
    <2>2. CASE titles' = [titles EXCEPT ![t].default = to]
      BY <1>1, <2>2 DEF TitleRows
    <2> QED BY <2>1, <2>2 DEF Migrate
  <1>4. /\ entries' \in [Titles -> EntryRows]
        /\ \A s \in Titles \ {t} : entries'[s] = entries[s]
        /\ entries'[t] = entries[t] \/ entries'[t].at = clock
    <2>1. CASE entries' = entries
      BY <1>1, <2>1
    <2>2. CASE entries' = [entries EXCEPT ![t].active = to, ![t].at = clock]
      BY <1>1, <2>2, FollowRow
    <2> QED BY <2>1, <2>2 DEF Migrate
  <1>5. undo' \subseteq UndoRows
    <2>1. PICK u : u = [title |-> t, from |-> from, to |-> to,
                        default |-> titles[t].default, active |-> entries[t].active]
      OBVIOUS
    <2>2. titles[t].default \in Mappings \cup {None} /\ entries[t].active \in Mappings \cup {None}
      BY <1>1 DEF TitleRows, EntryRows
    <2>3. u \in UndoRows
      BY <2>1, <2>2 DEF UndoRows
    <2>4. undo' = undo \/ undo' = undo \cup {u}
      BY <2>1 DEF Migrate
    <2> QED BY <1>1, <2>3, <2>4
  <1>6. TypesOK'
    BY <1>1, <1>2, <1>3, <1>4, <1>5 DEF TitlesInv, TypesOK
  <1>7. \A s \in Titles : Live(s)' <=> Live(s)
    BY <1>2, <1>3 DEF Live
  <1>8. Gone'
    BY <1>2, <1>3, <1>4, <1>7, GoneUnderEdits
  <1>9. RowsAreOwn'
    <2>1. \A m \in Mappings : mappings'[m] = IF m = to THEN t ELSE mappings[m]
      BY <1>1, <1>2
    <2>2. (Live(mappings[to]))'
      BY <1>2, <1>7, <2>1
    <2>3. \A m \in Mappings :
               \/ mappings'[m] = mappings[m]
               \/ mappings[m] = None /\ mappings'[m] \in Titles /\ (Live(mappings[m]))'
      BY <1>2, <2>1, <2>2
    <2> QED BY <1>2, <1>7, <2>3, RowsUnderEdits
  <1>10. TimesAreKnown'
    BY <1>1, <1>2, <1>4 DEF TitlesInv, TimesAreKnown
  <1> QED BY <1>6, <1>8, <1>9, <1>10 DEF TitlesInv

LEMMA RollbackKeeps ==
    ASSUME TitlesInv, strayed' \subseteq Chapters, StrayedFollows,
           NEW u \in undo, NEW whole \in BOOLEAN, Rollback(u, whole)
    PROVE  TitlesInv'
  <1> USE NoneIsNone DEF Edited
  <1>1. /\ edits \in Nat /\ clock \in Nat \ {0} /\ titles \in [Titles -> TitleRows]
        /\ entries \in [Titles -> EntryRows] /\ mappings \in [Mappings -> Titles \cup {None}]
        /\ u \in UndoRows
    BY DEF TitlesInv, TypesOK
  <1>2. PICK t \in Titles : t = u.title
    BY <1>1 DEF UndoRows
  <1>3. /\ Live(t) /\ edits' = edits + 1
        /\ UNCHANGED <<mappings, chapters, read, undo, reader, pending, clock>>
    BY <1>2 DEF Rollback
  <1>4. /\ titles' \in [Titles -> TitleRows]
        /\ \A s \in Titles \ {t} : titles'[s] = titles[s]
        /\ titles'[t].default # None
    <2>1. CASE titles' = titles
      BY <1>1, <1>3, <2>1 DEF Live
    <2>2. PICK m : m = IF u.default # None THEN u.default ELSE u.from
      OBVIOUS
    <2>3. m \in Mappings
      BY <1>1, <2>2 DEF UndoRows
    <2>4. CASE titles' = [titles EXCEPT ![t].default = m]
      BY <1>1, <2>3, <2>4 DEF TitleRows
    <2> QED BY <1>2, <2>1, <2>2, <2>4 DEF Rollback
  <1>5. /\ entries' \in [Titles -> EntryRows]
        /\ \A s \in Titles \ {t} : entries'[s] = entries[s]
        /\ entries'[t] = entries[t] \/ entries'[t].at = clock
    <2>1. CASE entries' = entries
      BY <1>1, <2>1
    <2>2. PICK m : m = IF u.active = None THEN entries[t].active ELSE u.active
      OBVIOUS
    <2>3. m \in Mappings \cup {None}
      BY <1>1, <2>2 DEF UndoRows, EntryRows
    <2>4. CASE entries' = [entries EXCEPT ![t].active = m, ![t].at = clock]
      BY <1>1, <2>3, <2>4, FollowRow
    <2>5. entries' = entries \/ entries' = [entries EXCEPT ![t].active = m, ![t].at = clock]
      BY <1>1, <1>2, <2>2 DEF Rollback
    <2> QED BY <2>1, <2>4, <2>5
  <1>6. TypesOK'
    BY <1>1, <1>3, <1>4, <1>5 DEF TitlesInv, TypesOK
  <1>7. \A s \in Titles : Live(s)' <=> Live(s)
    BY <1>3, <1>4 DEF Live
  <1>8. Gone'
    BY <1>3, <1>4, <1>5, <1>7, GoneUnderEdits
  <1>9. RowsAreOwn'
    BY <1>3, <1>7, RowsUnderEdits
  <1>10. TimesAreKnown'
    BY <1>1, <1>3, <1>5 DEF TitlesInv, TimesAreKnown
  <1> QED BY <1>6, <1>8, <1>9, <1>10 DEF TitlesInv

LEMMA MergedEntryType ==
    ASSUME NEW target \in EntryRows, NEW source \in EntryRows
    PROVE  /\ MergedEntry(target, source) \in EntryRows
           /\ MergedEntry(target, source).at \in {target.at, source.at}
           /\ MergedEntry(target, source).at >= target.at
           /\ MergedEntry(target, source).active \in {target.active, source.active}
           /\ \/ MergedEntry(target, source) \in {target, source}
              \/ MergedEntry(target, source).at # 0
  <1>1. PICK active : active = IF target.active # None THEN target.active ELSE source.active
    OBVIOUS
  <1>2. PICK last : last = IF target.last = None THEN source.last
                  ELSE IF source.last # None /\ ReadAt(source.last) > ReadAt(target.last) THEN source.last
                  ELSE target.last
    OBVIOUS
  <1>3. PICK at : at = IF source.at > target.at THEN source.at ELSE target.at
    OBVIOUS
  <1>4. /\ active \in Mappings \cup {None} /\ last \in Chapters \cup {None}
        /\ at \in Nat /\ at \in {target.at, source.at} /\ at >= target.at
        /\ source.at \in Nat /\ target.at \in Nat
    BY <1>1, <1>2, <1>3 DEF EntryRows
  <1>5. MergedEntry(target, source) = IF source.at = 0 THEN target
                                      ELSE IF target.at = 0 THEN source
                                      ELSE [active |-> active, last |-> last, at |-> at]
    BY <1>1, <1>2, <1>3 DEF MergedEntry
  <1>6. [active |-> active, last |-> last, at |-> at] \in EntryRows
    BY <1>4 DEF EntryRows
  <1>7. CASE source.at = 0
    BY <1>4, <1>5, <1>7
  <1>8. CASE source.at # 0 /\ target.at = 0
    BY <1>4, <1>5, <1>8
  <1>9. CASE source.at # 0 /\ target.at # 0
    <2>1. MergedEntry(target, source) = [active |-> active, last |-> last, at |-> at]
      BY <1>5, <1>9
    <2>2. at # 0 /\ active \in {target.active, source.active}
      BY <1>1, <1>4, <1>9
    <2> QED BY <1>4, <1>6, <2>1, <2>2
  <1> QED BY <1>7, <1>8, <1>9

(* What a merge leaves in each table. *)
LEMMA MergeRows ==
    ASSUME TitlesInv, NEW t \in Titles, NEW s \in Titles, Merge(t, s)
    PROVE  /\ titles' \in [Titles -> TitleRows]
           /\ titles'[t].default = titles[t].default
           /\ titles'[t].preferred \in {titles[t].preferred, titles[s].preferred}
           /\ titles'[s] = NoTitle
           /\ \A x \in Titles \ {t, s} : titles'[x] = titles[x]
           /\ entries' \in [Titles -> EntryRows]
           /\ entries'[t] = MergedEntry(entries[t], entries[s])
           /\ entries'[s] = NoEntry
           /\ \A x \in Titles \ {t, s} : entries'[x] = entries[x]
           /\ undo' \subseteq UndoRows
  <1> USE NoneIsNone
  <1>1. /\ titles \in [Titles -> TitleRows] /\ entries \in [Titles -> EntryRows]
        /\ undo \subseteq UndoRows
        /\ t # s
    BY DEF TitlesInv, TypesOK, Merge
  <1>2. NoTitle \in TitleRows /\ NoEntry \in EntryRows
    BY DEF NoTitle, NoEntry, TitleRows, EntryRows
  <1>3. PICK row : row = [titles[t] EXCEPT
                            !.preferred = IF titles[t].preferred # None THEN titles[t].preferred
                                          ELSE titles[s].preferred,
                            !.absorbed = @ \cup titles[s].absorbed \cup {s}]
    OBVIOUS
  <1>4. /\ row \in TitleRows
        /\ row.default = titles[t].default
        /\ row.preferred \in {titles[t].preferred, titles[s].preferred}
    <2>1. PICK p : p = IF titles[t].preferred # None THEN titles[t].preferred ELSE titles[s].preferred
      OBVIOUS
    <2>2. PICK absorbed : absorbed = titles[t].absorbed \cup titles[s].absorbed \cup {s}
      OBVIOUS
    <2>3. row = [titles[t] EXCEPT !.preferred = p, !.absorbed = absorbed]
      BY <1>3, <2>1, <2>2
    <2>4. titles[t] \in TitleRows /\ titles[s] \in TitleRows
      BY <1>1
    <2>5. p \in Mappings \cup {None} /\ absorbed \in SUBSET Titles
          /\ p \in {titles[t].preferred, titles[s].preferred}
      BY <2>1, <2>2, <2>4 DEF TitleRows
    <2>6. row = [default |-> titles[t].default, preferred |-> p, absorbed |-> absorbed]
      BY <2>3, <2>4 DEF TitleRows
    <2>7. titles[t].default \in Mappings \cup {None}
      BY <2>4 DEF TitleRows
    <2>8. row \in TitleRows
      BY <2>5, <2>6, <2>7 DEF TitleRows
    <2> QED BY <2>5, <2>6, <2>8
  <1>5. \A x \in Titles : titles'[x] = IF x = s THEN NoTitle ELSE IF x = t THEN row ELSE titles[x]
    <2>1. titles' = [titles EXCEPT
                       ![t].preferred = IF titles[t].preferred # None THEN titles[t].preferred
                                        ELSE titles[s].preferred,
                       ![t].absorbed = @ \cup titles[s].absorbed \cup {s},
                       ![s] = NoTitle]
      BY DEF Merge
    <2>2. titles' = [titles EXCEPT ![t] = row, ![s] = NoTitle]
      BY <1>1, <1>3, <2>1
    <2> QED BY <1>1, <2>2
  <1>6. titles' \in [Titles -> TitleRows]
    <2>1. DOMAIN titles' = Titles /\ titles' = [x \in Titles |-> titles'[x]]
      BY <1>1 DEF Merge
    <2> QED BY <1>1, <1>2, <1>4, <1>5, <2>1
  <1>7. titles'[t].preferred \in {titles[t].preferred, titles[s].preferred}
    BY <1>1, <1>4, <1>5
  <1>8. PICK merged \in EntryRows : merged = MergedEntry(entries[t], entries[s])
    BY <1>1, MergedEntryType
  <1>9. entries' = [entries EXCEPT ![t] = merged, ![s] = NoEntry]
    BY <1>8 DEF Merge
  <1>10. /\ entries' \in [Titles -> EntryRows]
         /\ entries'[t] = merged /\ entries'[s] = NoEntry
         /\ \A x \in Titles \ {t, s} : entries'[x] = entries[x]
    BY <1>1, <1>2, <1>9
  <1>11. undo' \subseteq UndoRows
    <2>1. \A u \in undo : [u EXCEPT !.title = IF @ = s THEN t ELSE @] \in UndoRows
      BY <1>1 DEF UndoRows
    <2> QED BY <2>1 DEF Merge
  <1>12. titles'[t].default = titles[t].default /\ titles'[s] = NoTitle
         /\ \A x \in Titles \ {t, s} : titles'[x] = titles[x]
    BY <1>1, <1>4, <1>5
  <1> QED BY <1>6, <1>7, <1>8, <1>10, <1>11, <1>12

LEMMA MergeKeeps ==
    ASSUME TitlesInv, strayed' \subseteq Chapters, StrayedFollows,
           NEW t \in Titles, NEW s \in Titles, Merge(t, s)
    PROVE  TitlesInv'
  <1> USE NoneIsNone DEF Edited
  <1>1. /\ t # s /\ Live(t) /\ Live(s)
        /\ edits' = edits + 1 /\ UNCHANGED <<reader, pending, clock>>
        /\ edits \in Nat /\ mappings \in [Mappings -> Titles \cup {None}]
        /\ chapters \in [Chapters -> Titles \cup {None}]
        /\ read \in [Chapters -> ReadRows]
        /\ entries \in [Titles -> EntryRows]
        /\ clock \in Nat
    BY DEF Merge, TitlesInv, TypesOK
  <1>2. mappings' \in [Mappings -> Titles \cup {None}] /\ chapters' \in [Chapters -> Titles \cup {None}]
    BY <1>1 DEF Merge
  <1>3. read' \in [Chapters -> ReadRows]
    <2>1. \A c \in Chapters : NoRead \in ReadRows /\ [read[c] EXCEPT !.title = t] \in ReadRows
      BY <1>1 DEF ReadRows, NoRead
    <2> QED BY <1>1, <2>1 DEF Merge
  <1>4. TypesOK'
    BY <1>1, <1>2, <1>3, MergeRows DEF TitlesInv, TypesOK
  <1>5. \A x \in Titles : Live(x)' <=> x # s /\ Live(x)
    BY <1>1, MergeRows DEF Live, NoTitle
  <1>6. Gone'
    BY <1>1, <1>5, MergeRows DEF TitlesInv, Gone
  <1>7. RowsAreOwn'
    <2>1. \A m \in Mappings : mappings'[m] = IF mappings[m] = s THEN t ELSE mappings[m]
      BY <1>1 DEF Merge
    <2>2. \A c \in Chapters : chapters'[c] = IF chapters[c] = s THEN t ELSE chapters[c]
      BY <1>1 DEF Merge
    <2>3. \A m \in Mappings : (mappings[m] # None => Live(mappings[m]))'
      BY <1>1, <1>5, <2>1 DEF TitlesInv, RowsAreOwn
    <2>4. \A c \in Chapters : (chapters[c] # None => mappings[MappingOf[c]] = chapters[c])'
      BY <1>1, <2>1, <2>2 DEF TitlesInv, RowsAreOwn
    <2>5. \A c \in Chapters : (read[c] # NoRead =>
              /\ read[c].at # 0 /\ read[c].title # None /\ Live(read[c].title)
              /\ chapters[c] = read[c].title \/ c \in strayed)'
      <3> SUFFICES ASSUME NEW c \in Chapters, read'[c] # NoRead
                   PROVE  /\ read'[c].at # 0 /\ read'[c].title # None /\ (Live(read[c].title))'
                          /\ chapters'[c] = read'[c].title \/ c \in strayed'
        OBVIOUS
      <3>1. read'[c] = IF chapters[c] = s /\ read[c] # NoRead THEN [read[c] EXCEPT !.title = t]
                       ELSE IF read[c].title = s THEN NoRead ELSE read[c]
        BY DEF Merge
      <3>2. /\ read[c] # NoRead /\ read[c] \in ReadRows /\ read[c].at # 0
            /\ read[c].title \in Titles /\ Live(read[c].title)
            /\ chapters[c] = read[c].title \/ c \in strayed
        BY <1>1, <3>1 DEF TitlesInv, RowsAreOwn, ReadRows
      <3>3. CASE chapters[c] = s
        <4>1. read'[c].at = read[c].at /\ read'[c].title = t
          BY <3>1, <3>2, <3>3 DEF ReadRows
        <4> QED BY <1>1, <1>5, <2>2, <3>2, <3>3, <4>1
      <3>4. CASE chapters[c] # s
        <4>1. read'[c] = read[c] /\ read[c].title # s /\ chapters'[c] = chapters[c]
          BY <2>2, <3>1, <3>4
        <4>2. chapters'[c] = read'[c].title \/ c \in strayed'
          BY <3>2, <4>1 DEF StrayedFollows
        <4> QED BY <1>1, <1>5, <3>2, <4>1, <4>2
      <3> QED BY <3>3, <3>4
    <2> QED BY <2>3, <2>4, <2>5 DEF RowsAreOwn
  <1>8. TimesAreKnown'
    <2>1. /\ entries'[t].at \in {entries[t].at, entries[s].at} /\ entries'[s].at = 0
          /\ entries'[s].active = None
          /\ entries'[t] \in {entries[t], entries[s]} \/ entries'[t].at # 0
      <3>1. entries[t] \in EntryRows /\ entries[s] \in EntryRows
        BY <1>1
      <3> QED BY <3>1, MergeRows, MergedEntryType DEF NoEntry
    <2>2. entries'[t].at <= clock /\ (entries'[t].at = 0 => entries'[t].active = None)
      BY <2>1 DEF TitlesInv, TimesAreKnown
    <2> QED BY <1>1, <2>1, <2>2, MergeRows DEF TitlesInv, TimesAreKnown
  <1> QED BY <1>4, <1>6, <1>7, <1>8 DEF TitlesInv

(* What an unmerge leaves in each table. *)
LEMMA UnmergeRows ==
    ASSUME TitlesInv, NEW t \in Titles, NEW r \in Titles, NEW m \in Mappings, NEW next \in Mappings,
           NEW last \in Chapters \cup {None}, Unmerge(t, m, r, next, last)
    PROVE  /\ ~Live(r) /\ r # t
           /\ titles' \in [Titles -> TitleRows]
           /\ titles'[t].default = next
           /\ titles'[t].preferred = Cleared(titles[t].preferred, m)
           /\ titles'[r].default = m /\ titles'[r].preferred = None
           /\ \A x \in Titles \ {t, r} : titles'[x] = titles[x]
           /\ entries' \in [Titles -> EntryRows]
           /\ \A x \in Titles \ {t} : entries'[x] = entries[x]
           /\ \/ entries'[t] = entries[t] /\ (InLibrary(t) => entries[t].active # m)
              \/ /\ InLibrary(t) /\ entries'[t].at = clock
                 /\ entries'[t].active = IF entries[t].active = m THEN next ELSE entries[t].active
           /\ undo' \subseteq UndoRows
  <1> USE NoneIsNone
  <1>1. /\ titles \in [Titles -> TitleRows] /\ entries \in [Titles -> EntryRows]
        /\ undo \subseteq UndoRows /\ clock \in Nat
        /\ titles[t] \in TitleRows /\ entries[t] \in EntryRows
    BY DEF TitlesInv, TypesOK
  <1>2. Live(t) /\ ~Live(r) /\ r # t
    <2>1. Live(t)
      BY DEF Unmerge
    <2>2. ~Live(r)
      BY DEF Unmerge, Fresh
    <2> QED BY <2>1, <2>2
  <1>3. PICK own : own = [default |-> next, preferred |-> Cleared(titles[t].preferred, m),
                          absorbed |-> titles[t].absorbed \ {r}]
    OBVIOUS
  <1>4. own \in TitleRows
    <2>1. Cleared(titles[t].preferred, m) \in Mappings \cup {None} /\ titles[t].absorbed \ {r} \in SUBSET Titles
      BY <1>1 DEF TitleRows, Cleared
    <2> QED BY <1>3, <2>1 DEF TitleRows
  <1>5. PICK new : new = [NoTitle EXCEPT !.default = m]
    OBVIOUS
  <1>6. new \in TitleRows /\ new.default = m /\ new.preferred = None
    BY <1>5 DEF NoTitle, TitleRows
  <1>7. titles' = [titles EXCEPT ![t] = own, ![r] = new]
    BY <1>1, <1>3, <1>5 DEF Unmerge
  <1>8. /\ titles' \in [Titles -> TitleRows]
        /\ titles'[t] = own /\ titles'[r] = new
        /\ \A x \in Titles \ {t, r} : titles'[x] = titles[x]
    BY <1>1, <1>2, <1>4, <1>6, <1>7
  <1>9. PICK row : row = [active |-> IF entries[t].active = m THEN next ELSE entries[t].active,
                          last |-> last, at |-> clock]
    OBVIOUS
  <1>10. row \in EntryRows
    BY <1>1, <1>9 DEF EntryRows
  <1>11. \/ entries' = entries /\ (InLibrary(t) => entries[t].active # m)
         \/ InLibrary(t) /\ entries' = [entries EXCEPT ![t] = row]
    BY <1>1, <1>9 DEF Unmerge
  <1>12. /\ entries' \in [Titles -> EntryRows]
         /\ \A x \in Titles \ {t} : entries'[x] = entries[x]
         /\ \/ entries'[t] = entries[t] /\ (InLibrary(t) => entries[t].active # m)
            \/ InLibrary(t) /\ entries'[t] = row
    BY <1>1, <1>10, <1>11
  <1>13. undo' \subseteq UndoRows
    <2>1. \A u \in undo : Released(u, t, m) \in UndoRows
      <3> SUFFICES ASSUME NEW u \in undo PROVE Released(u, t, m) \in UndoRows
        OBVIOUS
      <3>1. u \in UndoRows
        BY <1>1
      <3>2. PICK d, a : d = Cleared(u.default, m) /\ a = Cleared(u.active, m)
        OBVIOUS
      <3>3. d \in Mappings \cup {None} /\ a \in Mappings \cup {None}
        BY <3>1, <3>2 DEF UndoRows, Cleared
      <3>4. Released(u, t, m) = IF u.title = t THEN [u EXCEPT !.default = d, !.active = a] ELSE u
        BY <3>1, <3>2 DEF Released, UndoRows
      <3>5. [u EXCEPT !.default = d, !.active = a] \in UndoRows
        BY <3>1, <3>3 DEF UndoRows
      <3> QED BY <3>1, <3>4, <3>5
    <2> QED BY <2>1 DEF Unmerge
  <1> QED BY <1>2, <1>3, <1>6, <1>8, <1>9, <1>12, <1>13

LEMMA UnmergeKeeps ==
    ASSUME TitlesInv, strayed' \subseteq Chapters, StrayedFollows,
           NEW t \in Titles, NEW r \in Titles, NEW m \in Mappings, NEW next \in Mappings,
           NEW last \in Chapters \cup {None}, Unmerge(t, m, r, next, last)
    PROVE  TitlesInv'
  <1> USE NoneIsNone DEF Edited
  <1>1. /\ Live(t) /\ mappings[m] = t
        /\ edits' = edits + 1 /\ UNCHANGED <<reader, pending, clock>>
        /\ edits \in Nat /\ mappings \in [Mappings -> Titles \cup {None}]
        /\ chapters \in [Chapters -> Titles \cup {None}]
        /\ read \in [Chapters -> ReadRows]
        /\ entries \in [Titles -> EntryRows]
        /\ clock \in Nat \ {0}
        /\ mappings' = [mappings EXCEPT ![m] = r]
    BY DEF Unmerge, TitlesInv, TypesOK
  <1>2. \A c \in Chapters :
            /\ chapters'[c] = IF MappingOf[c] = m /\ chapters[c] = t THEN r ELSE chapters[c]
            /\ read'[c] = IF MappingOf[c] = m /\ chapters[c] = t /\ read[c] # NoRead
                          THEN [read[c] EXCEPT !.title = r] ELSE read[c]
    BY DEF Unmerge
  <1>3. \A c \in Chapters : /\ [read[c] EXCEPT !.title = r] \in ReadRows
                            /\ [read[c] EXCEPT !.title = r].at = read[c].at
                            /\ [read[c] EXCEPT !.title = r].title = r
    BY <1>1 DEF ReadRows
  <1>4. chapters' \in [Chapters -> Titles \cup {None}] /\ read' \in [Chapters -> ReadRows]
    <2>1. chapters' = [c \in Chapters |-> chapters'[c]] /\ read' = [c \in Chapters |-> read'[c]]
      BY DEF Unmerge
    <2> QED BY <1>1, <1>2, <1>3, <2>1
  <1>5. TypesOK'
    BY <1>1, <1>4, UnmergeRows DEF TitlesInv, TypesOK
  <1>6. \A x \in Titles : Live(x)' <=> x = r \/ Live(x)
    <2>1. /\ titles'[t].default = next /\ titles'[r].default = m
          /\ \A x \in Titles \ {t, r} : titles'[x] = titles[x]
      BY UnmergeRows
    <2>2. titles[t].default # None
      BY <1>1 DEF Live
    <2>3. \A x \in Titles : titles'[x].default # None <=> x = r \/ titles[x].default # None
      BY <2>1, <2>2
    <2> QED BY <2>3 DEF Live
  <1>7. Gone'
    BY <1>1, <1>6, UnmergeRows DEF TitlesInv, Gone
  <1>8. RowsAreOwn'
    <2>1. \A n \in Mappings : (mappings[n] # None => Live(mappings[n]))'
      BY <1>1, <1>6 DEF TitlesInv, RowsAreOwn
    <2>2. \A c \in Chapters : (chapters[c] # None => mappings[MappingOf[c]] = chapters[c])'
      BY <1>1, <1>2 DEF TitlesInv, RowsAreOwn
    <2>3. \A c \in Chapters : (read[c] # NoRead =>
              /\ read[c].at # 0 /\ read[c].title # None /\ Live(read[c].title)
              /\ chapters[c] = read[c].title \/ c \in strayed)'
      <3> SUFFICES ASSUME NEW c \in Chapters, read'[c] # NoRead
                   PROVE  /\ read'[c].at # 0 /\ read'[c].title # None /\ (Live(read[c].title))'
                          /\ chapters'[c] = read'[c].title \/ c \in strayed'
        OBVIOUS
      <3>1. read[c] # NoRead => /\ read[c].at # 0 /\ read[c].title \in Titles /\ Live(read[c].title)
                                /\ chapters[c] = read[c].title \/ c \in strayed
        BY <1>1 DEF TitlesInv, RowsAreOwn, ReadRows
      <3>2. CASE MappingOf[c] = m /\ chapters[c] = t /\ read[c] # NoRead
        <4>1. read'[c].at = read[c].at /\ read'[c].title = r /\ chapters'[c] = r
          BY <1>2, <1>3, <3>2
        <4> QED BY <1>6, <3>1, <3>2, <4>1
      <3>3. CASE ~(MappingOf[c] = m /\ chapters[c] = t) \/ read[c] = NoRead
        <4>1. read'[c] = read[c] /\ read[c] # NoRead /\ chapters'[c] = chapters[c]
          BY <1>2, <3>3
        <4>2. chapters'[c] = read'[c].title \/ c \in strayed'
          BY <3>1, <4>1 DEF StrayedFollows
        <4> QED BY <1>6, <3>1, <4>1, <4>2
      <3> QED BY <3>2, <3>3
    <2> QED BY <2>1, <2>2, <2>3 DEF RowsAreOwn
  <1>9. TimesAreKnown'
    BY <1>1, UnmergeRows DEF TitlesInv, TimesAreKnown
  <1> QED BY <1>5, <1>7, <1>8, <1>9 DEF TitlesInv

LEMMA MoveKeeps ==
    ASSUME TitlesInv, Move, strayed' \subseteq Chapters, StrayedFollows
    PROVE  TitlesInv'
  BY MigrateKeeps, RollbackKeeps, MergeKeeps, UnmergeKeeps DEF Move

(* Progress of another tab, merged in: its read state has a title that is  *)
(* there, its resume time is none ahead of the clock.                      *)
LEMMA MergeReadStateKeeps ==
    ASSUME TitlesInv, NEW c \in Chapters, NEW t \in Titles, NEW at \in 1 .. clock,
           MergeReadState(c, t, at), StillAstray(strayed \cup {c})
    PROVE  TitlesInv'
  <1> USE NoneIsNone DEF TitlesInv
  <1>1. /\ Live(t) /\ edits' \in Nat /\ at \in Nat \ {0}
        /\ UNCHANGED <<titles, mappings, chapters, entries, undo, reader, pending, clock>>
        /\ read' = [read EXCEPT ![c] = [at |-> at, title |-> t]]
        /\ read \in [Chapters -> ReadRows] /\ strayed \cup {c} \in SUBSET Chapters
    BY DEF MergeReadState, Edited, TypesOK
  <1>2. [at |-> at, title |-> t] \in ReadRows
    BY <1>1 DEF ReadRows
  <1>3. \A d \in Chapters : read'[d] = IF d = c THEN [at |-> at, title |-> t] ELSE read[d]
    BY <1>1
  <1>4. strayed' \subseteq Chapters /\ StrayedFollows
    BY <1>1, StrayedStep
  <1>5. c \in strayed' \/ read'[c] = NoRead \/ read'[c].title = chapters'[c]
    BY DEF StillAstray, Astray
  <1>6. TypesOK'
    BY <1>1, <1>2, <1>4 DEF TypesOK
  <1>7. Gone'
    BY <1>1 DEF Gone, Live
  <1>8. RowsAreOwn'
    <2>1. \A m \in Mappings : (mappings[m] # None => Live(mappings[m]))'
      BY <1>1 DEF RowsAreOwn, Live
    <2>2. \A d \in Chapters : (chapters[d] # None => mappings[MappingOf[d]] = chapters[d])'
      BY <1>1 DEF RowsAreOwn
    <2>3. \A d \in Chapters : (read[d] # NoRead => read[d].at # 0 /\ read[d].title # None /\ Live(read[d].title))'
      <3>1. \A d \in Chapters : read'[d] # NoRead =>
                read'[d].at # 0 /\ read'[d].title # None /\ Live(read'[d].title)
        BY <1>1, <1>3 DEF RowsAreOwn
      <3> QED BY <1>1, <3>1 DEF Live
    <2>4. \A d \in Chapters : (read[d] # NoRead => chapters[d] = read[d].title \/ d \in strayed)'
      BY <1>1, <1>3, <1>4, <1>5 DEF RowsAreOwn, StrayedFollows
    <2> QED BY <2>1, <2>2, <2>3, <2>4 DEF RowsAreOwn
  <1>9. TimesAreKnown'
    BY <1>1 DEF TimesAreKnown
  <1> QED BY <1>6, <1>7, <1>8, <1>9

LEMMA ResumeRow ==
    ASSUME TitlesInv, NEW c \in Chapters, NEW t \in Titles, NEW at \in 1 .. clock, MergeResume(t, c, at)
    PROVE  \E row \in EntryRows :
               /\ row.at = at /\ row.active = entries[t].active
               /\ entries' = [entries EXCEPT ![t] = row]
  <1>1. entries \in [Titles -> EntryRows] /\ at \in Nat
    BY DEF TitlesInv, TypesOK
  <1>2. PICK e \in EntryRows : e = entries[t]
    BY <1>1
  <1>3. PICK row : row = [e EXCEPT !.last = c, !.at = at]
    OBVIOUS
  <1>4. row \in EntryRows /\ row.at = at /\ row.active = e.active
    BY <1>1, <1>3 DEF EntryRows
  <1>5. entries' = [entries EXCEPT ![t] = row]
    BY <1>2, <1>3 DEF MergeResume
  <1> QED BY <1>2, <1>4, <1>5

LEMMA MergeResumeKeeps ==
    ASSUME TitlesInv, strayed' \subseteq Chapters, StrayedFollows,
           NEW c \in Chapters, NEW t \in Titles, NEW at \in 1 .. clock, MergeResume(t, c, at)
    PROVE  TitlesInv'
  <1>1. PICK row \in EntryRows : row.at = at /\ entries' = [entries EXCEPT ![t] = row]
    BY ResumeRow
  <1>2. row.at <= clock /\ row.at # 0
    BY <1>1 DEF TitlesInv, TypesOK
  <1>3. Live(t)
    BY LibraryIsLive DEF MergeResume
  <1>4. /\ titles' = titles /\ mappings' = mappings /\ chapters' = chapters /\ read' = read
        /\ undo' = undo /\ reader' = reader /\ pending' = pending /\ clock' = clock
        /\ edits' \in Nat
    BY DEF MergeResume, Edited, TitlesInv, TypesOK
  <1> QED BY <1>1, <1>2, <1>3, <1>4, EntryChange

(* A document that the preview lets pass. *)
LEMMA RestoreKeeps ==
    ASSUME TitlesInv, strayed' \subseteq Chapters, NEW d \in Backups, Restore(d)
    PROVE  TitlesInv'
  <1> USE NoneIsNone
  <1>1. /\ d \in Documents
        /\ \A t \in Titles : d.titles[t].default = None => d.titles[t] = NoTitle
        /\ \A t \in Titles : d.entries[t].at = 0 => d.entries[t] = NoEntry
        /\ \A c \in Chapters : d.read[c].at = 0 => d.read[c] = NoRead
    BY BackupsAssumption
  <1>2. /\ d.titles \in [Titles -> TitleRows] /\ d.mappings \in [Mappings -> Titles \cup {None}]
        /\ d.chapters \in [Chapters -> Titles \cup {None}] /\ d.read \in [Chapters -> ReadRows]
        /\ d.entries \in [Titles -> EntryRows] /\ d.undo \subseteq UndoRows
    BY <1>1 DEF Documents
  <1>3. /\ titles' = d.titles /\ mappings' = d.mappings /\ chapters' = d.chapters
        /\ read' = d.read /\ entries' = d.entries /\ undo' = d.undo
        /\ UNCHANGED <<reader, pending, clock>> /\ edits' = edits + 1
        /\ \A t \in Titles : d.entries[t].at <= clock
    BY DEF Restore, Edited
  <1>4. /\ \A m \in Mappings : d.mappings[m] # None => d.titles[d.mappings[m]].default # None
        /\ \A c \in Chapters : d.chapters[c] # None => d.mappings[MappingOf[c]] = d.chapters[c]
        /\ \A c \in Chapters : d.read[c] # NoRead => d.chapters[c] # None /\ d.read[c].title = d.chapters[c]
        /\ \A t \in Titles : d.entries[t] # NoEntry => d.titles[t].default # None
    BY DEF Restore, Previewed
  <1>5. TypesOK'
    BY <1>2, <1>3 DEF TitlesInv, TypesOK
  <1>6. Gone'
    BY <1>1, <1>3, <1>4 DEF Gone, Live
  <1>7. RowsAreOwn'
    <2>1. \A m \in Mappings : (mappings[m] # None => Live(mappings[m]))'
      BY <1>3, <1>4 DEF Live
    <2>2. \A c \in Chapters : (chapters[c] # None => mappings[MappingOf[c]] = chapters[c])'
      BY <1>3, <1>4
    <2>3. \A c \in Chapters : d.read[c] # NoRead =>
              /\ d.read[c].at # 0 /\ d.read[c].title # None /\ d.read[c].title = d.chapters[c]
              /\ d.titles[d.read[c].title].default # None
      BY <1>1, <1>4
    <2>4. \A c \in Chapters : (read[c] # NoRead =>
              /\ read[c].at # 0 /\ read[c].title # None /\ Live(read[c].title)
              /\ chapters[c] = read[c].title \/ c \in strayed)'
      BY <1>3, <2>3 DEF Live
    <2> QED BY <2>1, <2>2, <2>4 DEF RowsAreOwn
  <1>8. TimesAreKnown'
    <2>1. \A t \in Titles : d.entries[t].at = 0 => d.entries[t].active = None
      BY <1>1 DEF NoEntry
    <2> QED BY <1>3, <2>1 DEF TitlesInv, TimesAreKnown
  <1> QED BY <1>5, <1>6, <1>7, <1>8 DEF TitlesInv

LEMMA TickKeeps ==
    ASSUME TitlesInv, strayed' \subseteq Chapters, StrayedFollows, Tick
    PROVE  TitlesInv'
  <1> USE DEF Tick, rows, TitlesInv
  <1>1. TypesOK'
    BY DEF TypesOK
  <1>2. Gone'
    BY DEF Gone, Live
  <1>3. RowsAreOwn'
    BY RowsUnderReading
  <1>4. /\ clock \in Nat
        /\ \A t \in Titles : entries[t].at \in Nat
        /\ \A e \in pending : e.at \in Nat
    BY DEF TypesOK, EntryRows, Events
  <1>5. TimesAreKnown'
    BY <1>4 DEF TimesAreKnown
  <1> QED BY <1>1, <1>2, <1>3, <1>5

LEMMA TitlesNext ==
    ASSUME TitlesInv, [Next]_vars
    PROVE  TitlesInv'
  <1> strayed \in SUBSET Chapters
    BY DEF TitlesInv, TypesOK
  <1>1. ASSUME Tick \/ Call, StillAstray(strayed) PROVE TitlesInv'
    <2>1. strayed' \subseteq Chapters /\ StrayedFollows
      BY <1>1, StrayedStep
    <2> QED BY <1>1, <2>1, TickKeeps, RefreshKeeps, EditKeeps, MoveKeeps, ReadingKeeps, RestoreKeeps
            DEF Call, Restores
  <1>2. ASSUME NEW c \in Chapters, NEW t \in Titles, NEW at \in 1 .. clock,
               MergeResume(t, c, at), StillAstray(strayed)
        PROVE  TitlesInv'
    <2>1. strayed' \subseteq Chapters /\ StrayedFollows
      BY <1>2, StrayedStep
    <2> QED BY <1>2, <2>1, MergeResumeKeeps
  <1>3. CASE UNCHANGED vars
    <2> USE <1>3 DEF vars, rows, TitlesInv
    <2>1. TypesOK'
      BY DEF TypesOK
    <2>2. Gone' /\ RowsAreOwn' /\ TimesAreKnown'
      BY DEF Gone, RowsAreOwn, TimesAreKnown, Live
    <2> QED BY <2>1, <2>2
  <1> QED BY <1>1, <1>2, <1>3, MergeReadStateKeeps DEF Next

LEMMA TitlesInvariant == Spec => []TitlesInv
  BY InitTitles, TitlesNext, PTL DEF Spec

(* Every table holds rows of its type, and a title that a merge has taken  *)
(* leaves neither a row nor a library entry, for any number of titles,     *)
(* edits and readers.                                                      *)
THEOREM TitlesTypeSafe == Spec => []TypeOK
  <1>1. TitlesInv => TypeOK
    BY DEF TitlesInv, Gone, TypeOK
  <1> QED BY <1>1, TitlesInvariant, PTL

(* The three manga_id columns agree, whatever has been merged, moved,      *)
(* refreshed, restored or read, but for a read state another tab has       *)
(* merged in under a title that is not its chapter's.                      *)
THEOREM RowsTheorem == Spec => []RowsAreOwn
  <1>1. TitlesInv => RowsAreOwn
    BY DEF TitlesInv
  <1> QED BY <1>1, TitlesInvariant, PTL

-----------------------------------------------------------------------------
Forward ==
    /\ \A c \in Chapters \ strayed : read'[c].at >= read[c].at
    /\ \A t \in Titles : entries[t].last # None /\ entries'[t].last # None
                         => entries'[t].at >= entries[t].at

(* No step puts an older read state or an older resume time in the place   *)
(* of a newer one.                                                         *)
LEMMA ForwardStep ==
    ASSUME TitlesInv, [Next]_vars
    PROVE  Forward \/ Restores
  <1> USE NoneIsNone
  <1>1. /\ clock \in Nat /\ read \in [Chapters -> ReadRows] /\ entries \in [Titles -> EntryRows]
        /\ \A c \in Chapters : read[c].at \in Nat
        /\ \A t \in Titles : entries[t].at \in Nat /\ entries[t].at <= clock
    BY DEF TitlesInv, TypesOK, TimesAreKnown, ReadRows, EntryRows
  <1>2. ASSUME UNCHANGED <<read, entries>> PROVE Forward
    BY <1>1, <1>2 DEF Forward
  <1>3. ASSUME UNCHANGED read, NEW t \in Titles,
               \A s \in Titles \ {t} : entries'[s] = entries[s],
               entries'[t] = entries[t] \/ entries'[t].last = None \/ entries'[t].at = clock
        PROVE  Forward
    BY <1>1, <1>3 DEF Forward
  <1>4. ASSUME Edit PROVE Forward
    <2>1. PICK t \in Titles :
              \/ AddEntry(t) \/ RemoveEntry(t) \/ Touch(t)
              \/ \E m \in Mappings : SetDefault(t, m) \/ SetActive(t, m)
              \/ \E m \in Mappings \cup {None} : SetPreferred(t, m)
      BY <1>4 DEF Edit
    <2>2. CASE AddEntry(t)
      BY <1>1, <1>3, <2>2 DEF AddEntry, NoEntry
    <2>3. CASE RemoveEntry(t)
      BY <1>1, <1>3, <2>3 DEF RemoveEntry, NoEntry
    <2>4. CASE Touch(t)
      BY <1>1, <1>3, <2>4 DEF Touch, EntryRows
    <2>5. ASSUME NEW m \in Mappings, SetActive(t, m) PROVE Forward
      BY <1>1, <1>3, <2>5, FollowRow DEF SetActive
    <2>6. ASSUME NEW m \in Mappings \cup {None}, SetDefault(t, m) \/ SetPreferred(t, m) PROVE Forward
      BY <1>2, <2>6 DEF SetDefault, SetPreferred
    <2> QED BY <2>1, <2>2, <2>3, <2>4, <2>5, <2>6
  <1>5. ASSUME NEW t \in Titles, NEW from \in Mappings, NEW to \in Mappings, NEW done \in 1 .. 4,
               Migrate(t, from, to, done)
        PROVE  Forward
    <2>1. \/ entries' = entries
          \/ entries' = [entries EXCEPT ![t].active = to, ![t].at = clock]
      BY <1>5 DEF Migrate
    <2>2. read' = read
      BY <1>5 DEF Migrate
    <2> QED BY <1>1, <1>2, <1>3, <2>1, <2>2, FollowRow
  <1>6. ASSUME NEW u \in undo, NEW whole \in BOOLEAN, Rollback(u, whole) PROVE Forward
    <2>1. PICK t \in Titles : t = u.title
      BY DEF TitlesInv, TypesOK, UndoRows
    <2>2. PICK m : m = IF u.active = None THEN entries[t].active ELSE u.active
      OBVIOUS
    <2>3. m \in Mappings \cup {None}
      BY <1>1, <2>2 DEF TitlesInv, TypesOK, UndoRows, EntryRows
    <2>4. read' = read
      BY <1>6 DEF Rollback
    <2>5. \/ entries' = entries
          \/ entries' = [entries EXCEPT ![t].active = m, ![t].at = clock]
      BY <1>1, <1>6, <2>1, <2>2 DEF Rollback
    <2> QED BY <1>1, <1>2, <1>3, <2>3, <2>4, <2>5, FollowRow
  <1>7. ASSUME NEW t \in Titles, NEW s \in Titles, Merge(t, s) PROVE Forward
    <2>1. \A c \in Chapters \ strayed : read'[c].at >= read[c].at
      <3> SUFFICES ASSUME NEW c \in Chapters \ strayed PROVE read'[c].at >= read[c].at
        OBVIOUS
      <3>1. read'[c] = IF chapters[c] = s /\ read[c] # NoRead THEN [read[c] EXCEPT !.title = t]
                       ELSE IF read[c].title = s THEN NoRead ELSE read[c]
        BY <1>7 DEF Merge
      <3>2. read[c] = NoRead \/ read[c].title = chapters[c]
        BY DEF TitlesInv, RowsAreOwn
      <3>3. [read[c] EXCEPT !.title = t].at = read[c].at
        BY <1>1 DEF ReadRows
      <3>4. read'[c].at = read[c].at
        <4>1. CASE read[c] = NoRead
          BY <3>1, <4>1
        <4>2. CASE read[c] # NoRead
          BY <3>1, <3>2, <3>3, <4>2
        <4> QED BY <4>1, <4>2
      <3> QED BY <1>1, <3>4
    <2>2. entries'[t].at >= entries[t].at
      <3>1. entries[t] \in EntryRows /\ entries[s] \in EntryRows
        BY <1>1
      <3>2. entries'[t] = MergedEntry(entries[t], entries[s])
        BY <1>7, MergeRows
      <3> QED BY <3>1, <3>2, MergedEntryType
    <2>3. entries'[s].last = None
      BY <1>7, MergeRows DEF NoEntry
    <2>4. \A x \in Titles \ {t, s} : entries'[x].at >= entries[x].at
      BY <1>1, <1>7, MergeRows
    <2> QED BY <2>1, <2>2, <2>3, <2>4 DEF Forward
  <1>8. ASSUME NEW t \in Titles, NEW r \in Titles, NEW m \in Mappings, NEW next \in Mappings,
               NEW last \in Chapters \cup {None}, Unmerge(t, m, r, next, last)
        PROVE  Forward
    <2>1. \A c \in Chapters : \/ read'[c] = read[c]
                              \/ read'[c] = [read[c] EXCEPT !.title = r]
      BY <1>8 DEF Unmerge
    <2>2. \A c \in Chapters : [read[c] EXCEPT !.title = r].at = read[c].at
      BY <1>1 DEF ReadRows
    <2>5. \A c \in Chapters : read'[c].at = read[c].at
      BY <2>1, <2>2
    <2>3. \A c \in Chapters : read'[c].at >= read[c].at
      BY <1>1, <2>5
    <2>4. \A x \in Titles : entries'[x].at = entries[x].at \/ entries'[x].at = clock
      BY <1>8, UnmergeRows
    <2> QED BY <1>1, <2>3, <2>4 DEF Forward
  <1>9. ASSUME NEW c \in Chapters, SetCompleted(c) PROVE Forward
    <2>1. entries' = entries /\ \A d \in Chapters : read'[d].at >= read[d].at
      BY <1>1, <1>9 DEF SetCompleted
    <2> QED BY <1>1, <2>1 DEF Forward
  <1>10. ASSUME NEW e \in pending, Write(e) PROVE Forward
    <2>1. e.chapter \in Chapters /\ e.title \in Titles /\ e.at \in Nat \ {0}
      BY DEF TitlesInv, TypesOK, Events, TimesAreKnown
    <2>2. entries' = entries /\ \A d \in Chapters : read'[d].at >= read[d].at
      BY <1>1, <1>10, <2>1, UpsertedRow DEF Write
    <2> QED BY <1>1, <2>2 DEF Forward
  <1>11. ASSUME NEW e \in pending, Resume(e) PROVE Forward
    <2>1. e \in Events
      BY DEF TitlesInv, TypesOK
    <2>2. e.title \in Titles /\ e.at \in Nat /\ e.chapter \in Chapters
      BY <2>1 DEF Events
    <2>3. read' = read
      BY <1>11 DEF Resume
    <2>4. CASE entries' = entries
      BY <1>2, <2>3, <2>4
    <2>5. CASE /\ entries[e.title].last = None \/ e.at >= entries[e.title].at
               /\ entries' = [entries EXCEPT ![e.title].last = e.chapter, ![e.title].at = e.at]
      <3>1. PICK row : row = [entries[e.title] EXCEPT !.last = e.chapter, !.at = e.at]
        OBVIOUS
      <3>2. row.at = e.at
        BY <1>1, <2>2, <3>1 DEF EntryRows
      <3>3. entries' = [entries EXCEPT ![e.title] = row]
        BY <2>5, <3>1
      <3>4. \A x \in Titles : entries'[x] = IF x = e.title THEN row ELSE entries[x]
        BY <1>1, <3>3
      <3> QED BY <1>1, <2>2, <2>3, <2>5, <3>2, <3>4 DEF Forward
    <2>6. \/ entries' = entries
          \/ /\ entries[e.title].last = None \/ e.at >= entries[e.title].at
             /\ entries' = [entries EXCEPT ![e.title].last = e.chapter, ![e.title].at = e.at]
      <3>2. PICK accepted \in (IF ~InLibrary(e.title) THEN {FALSE}
                               ELSE IF entries[e.title].last = None THEN {TRUE}
                               ELSE Verdicts(e.at, entries[e.title].at)) :
              entries' = IF accepted THEN [entries EXCEPT ![e.title].last = e.chapter, ![e.title].at = e.at]
                         ELSE entries
        BY <1>11 DEF Resume
      <3>3. CASE ~accepted
        BY <3>2, <3>3, Zenon
      <3>4. CASE accepted
        <4>1. entries' = [entries EXCEPT ![e.title].last = e.chapter, ![e.title].at = e.at]
          BY <3>2, <3>4, Zenon
        <4>2. InLibrary(e.title)
          BY <3>2, <3>4, Zenon
        <4>3. CASE entries[e.title].last = None
          BY <4>1, <4>3
        <4>4. CASE entries[e.title].last # None
          <5>1. accepted \in Verdicts(e.at, entries[e.title].at)
            BY <3>2, <4>2, <4>4, Zenon
          <5>2. e.at = entries[e.title].at \/ e.at > entries[e.title].at
            BY <3>4, <5>1, Accepted
          <5> QED BY <1>1, <2>2, <4>1, <5>2
        <4> QED BY <4>3, <4>4
      <3> QED BY <3>3, <3>4
    <2> QED BY <2>4, <2>5, <2>6
  <1>12. ASSUME NEW c \in Chapters, MarkPrevious(c) PROVE Forward
    <2>1. /\ chapters[c] \in Titles /\ clock \in Nat \ {0} /\ entries' = entries
          /\ Upserted(c, chapters[c], clock)
      BY <1>12 DEF MarkPrevious, TitlesInv, TypesOK
    <2>2. \A d \in Chapters : read'[d].at >= read[d].at
      BY <1>1, <2>1, UpsertedRow
    <2> QED BY <1>1, <2>1, <2>2 DEF Forward
  <1>13. ASSUME NEW c \in Chapters, NEW t \in Titles, NEW at \in 1 .. clock, MergeReadState(c, t, at)
         PROVE  Forward
    <2>1. at \in Nat /\ (at = read[c].at \/ at > read[c].at)
      <3>1. TRUE \in Verdicts(at, read[c].at)
        BY <1>13 DEF MergeReadState
      <3>2. at = read[c].at \/ at > read[c].at
        BY <3>1, Accepted
      <3> QED BY <1>1, <3>2
    <2>2. entries' = entries /\ read' = [read EXCEPT ![c] = [at |-> at, title |-> t]]
      BY <1>13 DEF MergeReadState
    <2> QED BY <1>1, <2>1, <2>2 DEF Forward
  <1>14. ASSUME NEW c \in Chapters, NEW t \in Titles, NEW at \in 1 .. clock, MergeResume(t, c, at)
         PROVE  Forward
    <2>1. PICK row \in EntryRows : row.at = at /\ entries' = [entries EXCEPT ![t] = row]
      BY <1>14, ResumeRow
    <2>2. at \in Nat
      BY <1>1
    <2>3. entries[t].last = None \/ at = entries[t].at \/ at > entries[t].at
      <3>1. entries[t].last = None \/ TRUE \in Verdicts(at, entries[t].at)
        BY <1>14 DEF MergeResume
      <3>2. TRUE \in Verdicts(at, entries[t].at) => at = entries[t].at \/ at > entries[t].at
        BY Accepted
      <3> QED BY <3>1, <3>2
    <2>4. read' = read
      BY <1>14 DEF MergeResume
    <2>5. \A x \in Titles : entries'[x] = IF x = t THEN row ELSE entries[x]
      BY <1>1, <2>1
    <2> QED BY <1>1, <2>1, <2>2, <2>3, <2>4, <2>5 DEF Forward
  <1>15. ASSUME Refresh \/ Tick \/ UNCHANGED vars PROVE Forward
    BY <1>2, <1>15 DEF Refresh, UpsertIdentity, UpsertChapter, Edited, Tick, vars, rows
  <1>16. ASSUME Reading PROVE Forward
    <2>1. ASSUME NEW c \in Chapters, OpenReader(c) \/ Turn(c) PROVE Forward
      BY <1>2, <2>1 DEF OpenReader, Turn, rows
    <2>2. ASSUME NEW e \in pending, Check(e) \/ Look(e) \/ Fails(e) PROVE Forward
      BY <1>2, <2>2 DEF Check, Look, Fails, rows
    <2> QED BY <1>9, <1>10, <1>11, <1>16, <1>12, <2>1, <2>2 DEF Reading
  <1>17. ASSUME Move PROVE Forward
    BY <1>5, <1>6, <1>7, <1>8, <1>17 DEF Move
  <1> QED BY <1>4, <1>15, <1>16, <1>17, <1>13, <1>14 DEF Next, Call

(* What was read stays read, and "continue reading" never goes back, for   *)
(* any interleaving of readers with merges, unmerges and migrations.       *)
THEOREM ProgressTheorem == Spec => ProgressNeverGoesBack
  <1>1. TitlesInv /\ [Next]_vars => Forward \/ Restores
    BY ForwardStep
  <1> QED BY <1>1, TitlesInvariant, PTL DEF Spec, ProgressNeverGoesBack, Forward

-----------------------------------------------------------------------------
(* The pointers keep to their titles under a step that gives no mapping    *)
(* away: what points elsewhere than before points to an own mapping.       *)
LEMMA PointersUnderEdits ==
    ASSUME TitlesInv, PointersAreOwn,
           \A m \in Mappings : mappings'[m] = mappings[m] \/ mappings[m] = None,
           \A t \in Titles :
               /\ titles'[t].default = titles[t].default \/ Own(titles[t].default, t)'
               /\ titles'[t].preferred = titles[t].preferred \/ Own(titles[t].preferred, t)'
               /\ entries'[t].active = entries[t].active \/ Own(entries[t].active, t)',
           \A u \in undo' : u \in undo \/ (Own(u.default, u.title)' /\ Own(u.active, u.title)')
    PROVE  PointersAreOwn'
  <1>1. \A t \in Titles : /\ titles[t].default \in Mappings \cup {None}
                          /\ titles[t].preferred \in Mappings \cup {None}
                          /\ entries[t].active \in Mappings \cup {None}
    BY DEF TitlesInv, TypesOK, TitleRows, EntryRows
  <1>2. \A u \in undo : u.default \in Mappings \cup {None} /\ u.active \in Mappings \cup {None} /\ u.title \in Titles
    BY DEF TitlesInv, TypesOK, UndoRows
  <1>3. \A m \in Mappings \cup {None}, t \in Titles : Own(m, t) => Own(m, t)'
    BY NoneIsNone DEF Own
  <1>4. \A t \in Titles : Own(titles[t].default, t)' /\ Own(titles[t].preferred, t)' /\ Own(entries[t].active, t)'
    BY <1>1, <1>3 DEF PointersAreOwn, Own
  <1>5. \A u \in undo' : Own(u.default, u.title)' /\ Own(u.active, u.title)'
    BY <1>2, <1>3 DEF PointersAreOwn
  <1> QED BY <1>4, <1>5 DEF PointersAreOwn

LEMMA PointersUnderEdit ==
    ASSUME TitlesInv, PointersAreOwn, Edit
    PROVE  PointersAreOwn'
  <1> USE NoneIsNone
  <1>1. PICK t \in Titles :
            \/ AddEntry(t) \/ RemoveEntry(t) \/ Touch(t)
            \/ \E m \in Mappings : SetDefault(t, m) \/ SetActive(t, m)
            \/ \E m \in Mappings \cup {None} : SetPreferred(t, m)
    BY DEF Edit
  <1>2. mappings' = mappings /\ undo' = undo
    BY <1>1 DEF AddEntry, RemoveEntry, Touch, SetDefault, SetActive, SetPreferred
  <1>3. /\ titles \in [Titles -> TitleRows] /\ entries \in [Titles -> EntryRows]
        /\ clock \in Nat
    BY DEF TitlesInv, TypesOK
  <1>4. ASSUME titles' = titles, NEW row, entries' = [entries EXCEPT ![t] = row],
               row.active = entries[t].active \/ Own(row.active, t)
        PROVE  PointersAreOwn'
    <2>1. \A s \in Titles : entries'[s] = IF s = t THEN row ELSE entries[s]
      BY <1>3, <1>4
    <2>2. \A s \in Titles : entries'[s].active = entries[s].active \/ Own(entries[s].active, s)'
      BY <1>2, <1>4, <2>1 DEF Own
    <2> QED BY <1>2, <1>4, <2>2, PointersUnderEdits
  <1>5. ASSUME entries' = entries, NEW row, titles' = [titles EXCEPT ![t] = row],
               row.default = titles[t].default \/ Own(row.default, t),
               row.preferred = titles[t].preferred \/ Own(row.preferred, t)
        PROVE  PointersAreOwn'
    <2>1. \A s \in Titles : titles'[s] = IF s = t THEN row ELSE titles[s]
      BY <1>3, <1>5
    <2>2. \A s \in Titles :
            /\ titles'[s].default = titles[s].default \/ Own(titles[s].default, s)'
            /\ titles'[s].preferred = titles[s].preferred \/ Own(titles[s].preferred, s)'
      BY <1>2, <1>5, <2>1 DEF Own
    <2> QED BY <1>2, <1>5, <2>2, PointersUnderEdits
  <1>6. CASE AddEntry(t)
    <2>1. PICK row : row = [NoEntry EXCEPT !.at = clock]
      OBVIOUS
    <2>2. row.active = None
      BY <2>1 DEF NoEntry
    <2>3. entries' = [entries EXCEPT ![t] = row] /\ titles' = titles
      BY <1>6, <2>1 DEF AddEntry
    <2> QED BY <1>4, <2>2, <2>3 DEF Own
  <1>7. CASE RemoveEntry(t)
    <2>1. NoEntry.active = None
      BY DEF NoEntry
    <2>2. entries' = [entries EXCEPT ![t] = NoEntry] /\ titles' = titles
      BY <1>7 DEF RemoveEntry
    <2> QED BY <1>4, <2>1, <2>2 DEF Own
  <1>8. CASE Touch(t)
    <2>1. PICK row : row = [entries[t] EXCEPT !.at = clock]
      OBVIOUS
    <2>2. row.active = entries[t].active
      BY <1>3, <2>1 DEF EntryRows
    <2>3. entries' = [entries EXCEPT ![t] = row] /\ titles' = titles
      BY <1>8, <2>1 DEF Touch
    <2> QED BY <1>4, <2>2, <2>3
  <1>9. ASSUME NEW m \in Mappings, SetDefault(t, m) PROVE PointersAreOwn'
    <2>1. PICK row : row = [titles[t] EXCEPT !.default = m]
      OBVIOUS
    <2>2. row.default = m /\ row.preferred = titles[t].preferred
      BY <1>3, <2>1 DEF TitleRows
    <2>3. titles' = [titles EXCEPT ![t] = row] /\ entries' = entries /\ Own(m, t)
      BY <1>9, <2>1 DEF SetDefault, Own
    <2> QED BY <1>5, <2>2, <2>3
  <1>10. ASSUME NEW m \in Mappings \cup {None}, SetPreferred(t, m) PROVE PointersAreOwn'
    <2>1. PICK row : row = [titles[t] EXCEPT !.preferred = m]
      OBVIOUS
    <2>2. row.preferred = m /\ row.default = titles[t].default
      BY <1>3, <2>1 DEF TitleRows
    <2>3. titles' = [titles EXCEPT ![t] = row] /\ entries' = entries /\ Own(m, t)
      BY <1>10, <2>1 DEF SetPreferred, Own
    <2> QED BY <1>5, <2>2, <2>3
  <1>11. ASSUME NEW m \in Mappings, SetActive(t, m) PROVE PointersAreOwn'
    <2>1. PICK row : row = [entries[t] EXCEPT !.active = m, !.at = clock]
      OBVIOUS
    <2>2. row.active = m
      BY <1>3, <2>1 DEF EntryRows
    <2>3. entries' = [entries EXCEPT ![t] = row] /\ titles' = titles /\ Own(m, t)
      BY <1>11, <2>1 DEF SetActive, Own
    <2> QED BY <1>4, <2>2, <2>3
  <1> QED BY <1>1, <1>6, <1>7, <1>8, <1>9, <1>10, <1>11

LEMMA PointersUnderMigrate ==
    ASSUME TitlesInv, PointersAreOwn,
           NEW t \in Titles, NEW from \in Mappings, NEW to \in Mappings, NEW done \in 1 .. 4,
           Migrate(t, from, to, done)
    PROVE  PointersAreOwn'
  <1> USE NoneIsNone
  <1>1. /\ titles \in [Titles -> TitleRows] /\ entries \in [Titles -> EntryRows]
        /\ mappings \in [Mappings -> Titles \cup {None}]
        /\ mappings[to] \in {None, t} /\ mappings' = [mappings EXCEPT ![to] = t]
    BY DEF TitlesInv, TypesOK, Migrate
  <1>2. \A m \in Mappings : mappings'[m] = mappings[m] \/ mappings[m] = None
    BY <1>1
  <1>3. Own(to, t)'
    BY <1>1 DEF Own
  <1>4. \A s \in Titles :
            /\ titles'[s].default = titles[s].default \/ Own(titles[s].default, s)'
            /\ titles'[s].preferred = titles[s].preferred \/ Own(titles[s].preferred, s)'
    <2>1. CASE titles' = [titles EXCEPT ![t].default = to]
      <3>1. PICK row : row = [titles[t] EXCEPT !.default = to]
        OBVIOUS
      <3>2. row.default = to /\ row.preferred = titles[t].preferred
        BY <1>1, <3>1 DEF TitleRows
      <3>3. \A s \in Titles : titles'[s] = IF s = t THEN row ELSE titles[s]
        BY <1>1, <2>1, <3>1
      <3> QED BY <1>3, <3>2, <3>3 DEF Own
    <2> QED BY <2>1 DEF Migrate
  <1>5. \A s \in Titles : entries'[s].active = entries[s].active \/ Own(entries[s].active, s)'
    <2>1. CASE entries' = [entries EXCEPT ![t].active = to, ![t].at = clock]
      <3>1. PICK row : row = [entries[t] EXCEPT !.active = to, !.at = clock]
        OBVIOUS
      <3>2. row.active = to
        BY <1>1, <3>1 DEF EntryRows
      <3>3. entries' = [entries EXCEPT ![t] = row]
        BY <2>1, <3>1
      <3>4. \A s \in Titles : entries'[s] = IF s = t THEN row ELSE entries[s]
        BY <1>1, <3>3
      <3> QED BY <1>3, <3>2, <3>4 DEF Own
    <2> QED BY <2>1 DEF Migrate
  <1>6. \A u \in undo' : u \in undo \/ (Own(u.default, u.title)' /\ Own(u.active, u.title)')
    <2>1. titles[t].default \in Mappings \cup {None} /\ entries[t].active \in Mappings \cup {None}
      BY <1>1 DEF TitleRows, EntryRows
    <2>2. Own(titles[t].default, t) /\ Own(entries[t].active, t)
      BY DEF PointersAreOwn
    <2>3. \A m \in Mappings \cup {None} : Own(m, t) => Own(m, t)'
      BY <1>2 DEF Own
    <2>4. \A u \in undo' : u \in undo \/ /\ u.title = t /\ u.default = titles[t].default
                                         /\ u.active = entries[t].active
      BY DEF Migrate
    <2> QED BY <2>1, <2>2, <2>3, <2>4
  <1> QED BY <1>2, <1>4, <1>5, <1>6, PointersUnderEdits

LEMMA PointersUnderRollback ==
    ASSUME TitlesInv, PointersAreOwn, NEW u \in undo, NEW whole \in BOOLEAN, Rollback(u, whole)
    PROVE  PointersAreOwn'
  <1> USE NoneIsNone
  <1>1. /\ titles \in [Titles -> TitleRows] /\ entries \in [Titles -> EntryRows]
        /\ u \in UndoRows /\ mappings' = mappings /\ undo' = undo
    BY DEF TitlesInv, TypesOK, Rollback
  <1>2. PICK t \in Titles : t = u.title
    BY <1>1 DEF UndoRows
  <1>3. PICK p : p = IF u.default # None THEN u.default ELSE u.from
    OBVIOUS
  <1>4. titles' = titles \/ (Own(p, t) /\ titles' = [titles EXCEPT ![t].default = p])
    BY <1>1, <1>2, <1>3 DEF Rollback, Own
  <1>5. \A s \in Titles :
            /\ titles'[s].default = titles[s].default \/ Own(titles[s].default, s)'
            /\ titles'[s].preferred = titles[s].preferred \/ Own(titles[s].preferred, s)'
    <2>1. CASE Own(p, t) /\ titles' = [titles EXCEPT ![t].default = p]
      <3>1. PICK row : row = [titles[t] EXCEPT !.default = p]
        OBVIOUS
      <3>2. row.default = p /\ row.preferred = titles[t].preferred
        BY <1>1, <3>1 DEF TitleRows
      <3>3. \A s \in Titles : titles'[s] = IF s = t THEN row ELSE titles[s]
        BY <1>1, <2>1, <3>1
      <3> QED BY <1>1, <2>1, <3>2, <3>3 DEF Own
    <2> QED BY <1>4, <2>1
  <1>6. PICK a : a = IF u.active = None THEN entries[t].active ELSE u.active
    OBVIOUS
  <1>7. \/ entries' = entries
        \/ /\ a = entries[t].active \/ Own(a, t)
           /\ entries' = [entries EXCEPT ![t].active = a, ![t].at = clock]
    BY <1>1, <1>2, <1>6 DEF Rollback, Own
  <1>8. \A s \in Titles : entries'[s].active = entries[s].active \/ Own(entries[s].active, s)'
    <2>1. CASE /\ a = entries[t].active \/ Own(a, t)
               /\ entries' = [entries EXCEPT ![t].active = a, ![t].at = clock]
      <3>1. PICK row : row = [entries[t] EXCEPT !.active = a, !.at = clock]
        OBVIOUS
      <3>2. row.active = a
        BY <1>1, <3>1 DEF EntryRows
      <3>3. entries' = [entries EXCEPT ![t] = row]
        BY <2>1, <3>1
      <3>4. \A s \in Titles : entries'[s] = IF s = t THEN row ELSE entries[s]
        BY <1>1, <3>3
      <3> QED BY <1>1, <2>1, <3>2, <3>4 DEF Own
    <2> QED BY <1>7, <2>1
  <1> QED BY <1>1, <1>5, <1>8, PointersUnderEdits

LEMMA PointersUnderMerge ==
    ASSUME TitlesInv, PointersAreOwn, NEW t \in Titles, NEW s \in Titles, Merge(t, s)
    PROVE  PointersAreOwn'
  <1> USE NoneIsNone
  <1>1. /\ mappings \in [Mappings -> Titles \cup {None}]
        /\ titles \in [Titles -> TitleRows] /\ entries \in [Titles -> EntryRows]
        /\ undo \subseteq UndoRows /\ t # s
    BY DEF TitlesInv, TypesOK, Merge
  <1>2. \A m \in Mappings : mappings'[m] = IF mappings[m] = s THEN t ELSE mappings[m]
    BY <1>1 DEF Merge
  <1>3. \A m \in Mappings \cup {None} : \A x \in Titles :
            /\ x # s /\ Own(m, x) => Own(m, x)'
            /\ Own(m, s) => Own(m, t)'
    BY <1>2 DEF Own
  <1>4. \A x \in Titles : /\ titles[x].default \in Mappings \cup {None}
                          /\ titles[x].preferred \in Mappings \cup {None}
                          /\ entries[x].active \in Mappings \cup {None}
                          /\ Own(titles[x].default, x) /\ Own(titles[x].preferred, x) /\ Own(entries[x].active, x)
    BY <1>1 DEF PointersAreOwn, TitleRows, EntryRows
  <1>5. /\ titles'[t].default = titles[t].default
        /\ titles'[t].preferred \in {titles[t].preferred, titles[s].preferred}
        /\ entries'[t].active \in {entries[t].active, entries[s].active}
    <2>1. entries[t] \in EntryRows /\ entries[s] \in EntryRows
      BY <1>1
    <2> QED BY <2>1, MergeRows, MergedEntryType
  <1>6. Own(titles[t].default, t)' /\ Own(titles[t].preferred, t)' /\ Own(entries[t].active, t)'
    <2>1. \A m \in Mappings \cup {None} : Own(m, t) \/ Own(m, s) => Own(m, t)'
      BY <1>1, <1>3
    <2> QED BY <1>4, <1>5, <2>1 DEF Own
  <1>7. \A x \in Titles \ {t} : Own(titles[x].default, x)' /\ Own(titles[x].preferred, x)' /\ Own(entries[x].active, x)'
    <2>1. /\ titles'[s].default = None /\ titles'[s].preferred = None /\ entries'[s].active = None
          /\ \A x \in Titles \ {t, s} : titles'[x] = titles[x] /\ entries'[x] = entries[x]
      BY MergeRows DEF NoTitle, NoEntry
    <2> QED BY <1>3, <1>4, <2>1 DEF Own
  <1>8. \A u \in undo' : Own(u.default, u.title)' /\ Own(u.active, u.title)'
    <2> SUFFICES ASSUME NEW v \in undo' PROVE Own(v.default, v.title)' /\ Own(v.active, v.title)'
      OBVIOUS
    <2>1. PICK u \in undo : v = [u EXCEPT !.title = IF @ = s THEN t ELSE @]
      BY DEF Merge
    <2>2. u \in UndoRows
      BY <1>1
    <2>3. /\ u.default \in Mappings \cup {None} /\ u.active \in Mappings \cup {None} /\ u.title \in Titles
          /\ v.default = u.default /\ v.active = u.active /\ v.title = IF u.title = s THEN t ELSE u.title
      BY <2>1, <2>2 DEF UndoRows
    <2>4. Own(u.default, u.title) /\ Own(u.active, u.title)
      BY DEF PointersAreOwn
    <2> QED BY <1>3, <2>3, <2>4
  <1> QED BY <1>6, <1>7, <1>8 DEF PointersAreOwn

LEMMA PointersUnderUnmerge ==
    ASSUME TitlesInv, PointersAreOwn,
           NEW t \in Titles, NEW r \in Titles, NEW m \in Mappings, NEW next \in Mappings,
           NEW last \in Chapters \cup {None}, Unmerge(t, m, r, next, last)
    PROVE  PointersAreOwn'
  <1> USE NoneIsNone
  <1>1. /\ mappings \in [Mappings -> Titles \cup {None}]
        /\ titles \in [Titles -> TitleRows] /\ entries \in [Titles -> EntryRows]
        /\ undo \subseteq UndoRows /\ clock \in Nat \ {0}
        /\ mappings[m] = t /\ mappings' = [mappings EXCEPT ![m] = r]
    BY DEF TitlesInv, TypesOK, Unmerge
  <1>2. ~Live(r) /\ r # t
    BY UnmergeRows
  <1>3. \A n \in Mappings \cup {None} : \A x \in Titles : n # m /\ Own(n, x) => Own(n, x)'
    BY <1>1 DEF Own
  <1>4. \A x \in Titles \ {t} : ~Own(m, x)
    BY <1>1 DEF Own
  <1>5. Own(m, r)' /\ \A x \in Titles : Own(None, x)'
    BY <1>1 DEF Own
  <1>6. \A x \in Titles : /\ titles[x].default \in Mappings \cup {None}
                          /\ titles[x].preferred \in Mappings \cup {None}
                          /\ entries[x].active \in Mappings \cup {None}
                          /\ Own(titles[x].default, x) /\ Own(titles[x].preferred, x) /\ Own(entries[x].active, x)
    BY <1>1 DEF PointersAreOwn, TitleRows, EntryRows
  <1>7. next # m /\ Own(next, t)
    <2>1. IF titles[t].default = m THEN next # m /\ mappings[next] = t ELSE next = titles[t].default
      BY DEF Unmerge
    <2> QED BY <1>6, <2>1 DEF Own
  <1>8. Own(titles[t].default, t)' /\ Own(titles[t].preferred, t)'
    <2>1. titles'[t].default = next /\ titles'[t].preferred = Cleared(titles[t].preferred, m)
      BY UnmergeRows
    <2>2. Own(next, t)'
      BY <1>3, <1>7
    <2>3. titles'[t].preferred = None \/ (titles'[t].preferred = titles[t].preferred /\ titles[t].preferred # m)
      BY <2>1 DEF Cleared
    <2> QED BY <1>3, <1>5, <1>6, <2>1, <2>2, <2>3 DEF Own
  <1>9. Own(entries[t].active, t)'
    <2>1. entries[t].active = m => InLibrary(t)
      BY DEF TitlesInv, TimesAreKnown, InLibrary
    <2>2. entries'[t].active # m /\ entries'[t].active \in {next, entries[t].active}
      BY <1>7, <2>1, UnmergeRows
    <2> QED BY <1>3, <1>6, <1>7, <2>2 DEF Own
  <1>10. Own(titles[r].default, r)' /\ Own(titles[r].preferred, r)' /\ Own(entries[r].active, r)'
    <2>1. titles'[r].default = m /\ titles'[r].preferred = None
      BY UnmergeRows
    <2>2. entries'[r].active = None
      BY <1>2, UnmergeRows DEF TitlesInv, Gone, NoEntry
    <2> QED BY <1>5, <2>1, <2>2 DEF Own
  <1>11. \A x \in Titles \ {t, r} : Own(titles[x].default, x)' /\ Own(titles[x].preferred, x)' /\ Own(entries[x].active, x)'
    <2> SUFFICES ASSUME NEW x \in Titles \ {t, r}
                 PROVE  Own(titles[x].default, x)' /\ Own(titles[x].preferred, x)' /\ Own(entries[x].active, x)'
      OBVIOUS
    <2>1. titles'[x] = titles[x] /\ entries'[x] = entries[x]
      BY UnmergeRows
    <2>2. titles[x].default # m /\ titles[x].preferred # m /\ entries[x].active # m
      BY <1>4, <1>6
    <2> QED BY <1>3, <1>6, <2>1, <2>2 DEF Own
  <1>12. \A u \in undo' : Own(u.default, u.title)' /\ Own(u.active, u.title)'
    <2> SUFFICES ASSUME NEW v \in undo' PROVE Own(v.default, v.title)' /\ Own(v.active, v.title)'
      OBVIOUS
    <2>1. PICK u \in undo : v = Released(u, t, m)
      BY DEF Unmerge
    <2>2. u \in UndoRows
      BY <1>1
    <2>3. u.default \in Mappings \cup {None} /\ u.active \in Mappings \cup {None} /\ u.title \in Titles
      BY <2>2 DEF UndoRows
    <2>4. Own(u.default, u.title) /\ Own(u.active, u.title)
      BY DEF PointersAreOwn
    <2>5. CASE u.title # t
      <3>1. v = u
        BY <2>1, <2>5 DEF Released
      <3>2. u.default # m /\ u.active # m
        BY <1>4, <2>3, <2>4, <2>5
      <3> QED BY <1>3, <2>3, <2>4, <3>1, <3>2
    <2>6. CASE u.title = t
      <3>1. PICK d, a : d = Cleared(u.default, m) /\ a = Cleared(u.active, m)
        OBVIOUS
      <3>2. v = [u EXCEPT !.default = d, !.active = a]
        BY <2>1, <2>2, <2>6, <3>1 DEF Released, UndoRows
      <3>3. v.default = d /\ v.active = a /\ v.title = t
        BY <2>2, <2>6, <3>2 DEF UndoRows
      <3>4. d # m /\ a # m /\ d \in {None, u.default} /\ a \in {None, u.active}
        BY <3>1 DEF Cleared
      <3> QED BY <1>3, <1>5, <2>3, <2>4, <2>6, <3>3, <3>4
    <2> QED BY <2>5, <2>6
  <1> QED BY <1>8, <1>9, <1>10, <1>11, <1>12 DEF PointersAreOwn

(* A refresh that inserts a title either attaches its source to it, or     *)
(* leaves a title without one.                                             *)
LEMMA PointersUnderRefresh ==
    ASSUME TitlesInv, PointersAreOwn, Refresh
    PROVE  PointersAreOwn' \/ Orphans
  <1> USE NoneIsNone
  <1>1. ASSUME NEW t \in Titles, NEW c \in Chapters, UpsertChapter(t, c)
        PROVE  PointersAreOwn'
    BY <1>1, PointersUnderEdits DEF UpsertChapter
  <1>2. ASSUME NEW m \in Bound, NEW whole \in BOOLEAN, UpsertIdentity(m, whole), ~Orphans
        PROVE  PointersAreOwn'
    <2>1. PICK id \in Titles : id = AppOf[m]
      OBVIOUS
    <2>2. /\ titles \in [Titles -> TitleRows] /\ mappings \in [Mappings -> Titles \cup {None}]
          /\ entries' = entries /\ undo' = undo
      BY <1>2 DEF TitlesInv, TypesOK, UpsertIdentity
    <2>3. \A n \in Mappings : mappings'[n] = mappings[n] \/ mappings[n] = None
      BY <1>2, <2>2 DEF UpsertIdentity
    <2>4. PICK new : new = [NoTitle EXCEPT !.default = m]
      OBVIOUS
    <2>5. new.default = m /\ new.preferred = None
      BY <2>4 DEF NoTitle
    <2>6. CASE titles' = titles
      BY <2>2, <2>3, <2>6, PointersUnderEdits
    <2>7. CASE ~Live(id) /\ titles' = [titles EXCEPT ![id] = new]
      <3>1. \A s \in Titles : titles'[s] = IF s = id THEN new ELSE titles[s]
        BY <2>2, <2>7
      <3>2. mappings'[m] = id
        BY <1>2, <2>1, <2>5, <2>7, <3>1 DEF Orphans
      <3>3. \A s \in Titles :
              /\ titles'[s].default = titles[s].default \/ Own(titles[s].default, s)'
              /\ titles'[s].preferred = titles[s].preferred \/ Own(titles[s].preferred, s)'
        BY <2>5, <3>1, <3>2 DEF Own
      <3> QED BY <2>2, <2>3, <3>3, PointersUnderEdits
    <2> QED BY <1>2, <2>1, <2>4, <2>6, <2>7 DEF UpsertIdentity
  <1> QED BY <1>1, <1>2 DEF Refresh

LEMMA PointersStep ==
    ASSUME TitlesInv, PointersAreOwn, [Next]_vars
    PROVE  PointersAreOwn' \/ Orphans \/ Restores
  <1> USE NoneIsNone
  <1>1. ASSUME UNCHANGED <<titles, mappings, undo>>, \A t \in Titles : entries'[t].active = entries[t].active
        PROVE  PointersAreOwn'
    BY <1>1, PointersUnderEdits
  <1>2. ASSUME Reading PROVE PointersAreOwn'
    <2>1. ASSUME NEW c \in Chapters, OpenReader(c) \/ Turn(c) \/ SetCompleted(c) \/ MarkPrevious(c)
          PROVE  PointersAreOwn'
      BY <1>1, <2>1 DEF OpenReader, Turn, SetCompleted, MarkPrevious, rows
    <2>2. ASSUME NEW e \in pending, Check(e) \/ Look(e) \/ Fails(e) \/ Write(e) PROVE PointersAreOwn'
      BY <1>1, <2>2 DEF Check, Look, Fails, Write, rows
    <2>3. ASSUME NEW e \in pending, Resume(e) PROVE PointersAreOwn'
      <3>1. entries \in [Titles -> EntryRows] /\ e \in Events
        BY DEF TitlesInv, TypesOK
      <3>2. e.title \in Titles
        BY <3>1 DEF Events
      <3>3. CASE entries' = [entries EXCEPT ![e.title].last = e.chapter, ![e.title].at = e.at]
        <4>1. PICK row : row = [entries[e.title] EXCEPT !.last = e.chapter, !.at = e.at]
          OBVIOUS
        <4>2. row.active = entries[e.title].active
          BY <3>1, <3>2, <4>1 DEF EntryRows
        <4>3. entries' = [entries EXCEPT ![e.title] = row]
          BY <3>3, <4>1
        <4>4. \A x \in Titles : entries'[x] = IF x = e.title THEN row ELSE entries[x]
          BY <3>1, <4>3
        <4> QED BY <1>1, <2>3, <4>2, <4>4 DEF Resume
      <3>4. entries' = entries \/ entries' = [entries EXCEPT ![e.title].last = e.chapter, ![e.title].at = e.at]
        BY <2>3, Zenon DEF Resume
      <3> QED BY <1>1, <2>3, <3>3, <3>4 DEF Resume
    <2> QED BY <1>2, <2>1, <2>2, <2>3 DEF Reading
  <1>3. ASSUME Tick \/ UNCHANGED vars PROVE PointersAreOwn'
    BY <1>1, <1>3 DEF Tick, vars, rows
  <1>4. ASSUME Move PROVE PointersAreOwn'
    BY <1>4, PointersUnderMigrate, PointersUnderRollback, PointersUnderMerge, PointersUnderUnmerge DEF Move
  <1>5. ASSUME NEW c \in Chapters, NEW t \in Titles, NEW at \in 1 .. clock, MergeReadState(c, t, at)
        PROVE  PointersAreOwn'
    BY <1>1, <1>5 DEF MergeReadState
  <1>6. ASSUME NEW c \in Chapters, NEW t \in Titles, NEW at \in 1 .. clock, MergeResume(t, c, at)
        PROVE  PointersAreOwn'
    <2>1. PICK row \in EntryRows : row.active = entries[t].active /\ entries' = [entries EXCEPT ![t] = row]
      BY <1>6, ResumeRow
    <2>2. \A x \in Titles : entries'[x] = IF x = t THEN row ELSE entries[x]
      BY <2>1 DEF TitlesInv, TypesOK
    <2>3. \A x \in Titles : entries'[x].active = entries[x].active
      BY <2>1, <2>2
    <2> QED BY <1>1, <1>6, <2>3 DEF MergeResume
  <1> QED BY <1>2, <1>3, <1>4, <1>5, <1>6, PointersUnderEdit, PointersUnderRefresh DEF Next, Call

(* Merging, splitting and migrating never leave a pointer behind on a      *)
(* mapping that has another title, for any number of titles and mappings.  *)
THEOREM PointersTheorem == Spec => PointersStayOwn
  <1>1. TitlesInv /\ [Next]_vars => [PointersAreOwn => PointersAreOwn' \/ Orphans \/ Restores]_vars
    BY PointersStep
  <1> QED BY <1>1, TitlesInvariant, PTL DEF Spec, PointersStayOwn

=============================================================================
