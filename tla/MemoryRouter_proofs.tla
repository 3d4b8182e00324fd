-------------------------- MODULE MemoryRouter_proofs --------------------------
(***************************************************************************)
(* Theorems about MemoryRouter, for every set of texts, paths and threads  *)
(* and every bound.                                                        *)
(***************************************************************************)
EXTENDS MemoryRouter, SequenceTheorems, FiniteSetTheorems, TLAPS

Writes(t) == req[t].pc \in {"write", "index"}

\* Rows of the node are not notes' rows, and hold what was remembered.
RowsSound ==
  \A i \in DOMAIN rows :
    /\ rows[i].source = "external" => rows[i].path \in Path
    /\ rows[i].source # "external" => rows[i].path = 0 /\ rows[i].text \in Text /\ ~rows[i].managed

\* What a migration still has to move are rows of the node, and what it writes
\* is the first of them.
TodoSound ==
  \A t \in Thread :
    /\ req[t].pc \in {"write", "index", "next", "drop"} =>
         \A i \in req[t].todo : i \in DOMAIN rows /\ rows[i].source # "external"
    /\ req[t].pc = "drop" => req[t].todo # {}
    /\ Writes(t) /\ req[t].todo # {} => req[t].text = rows[Next1(req[t].todo)].text

\* A row that is overwritten stands for the note that is.
AimSound ==
  \A t \in Thread :
    Writes(t) /\ req[t].row # 0 =>
      /\ req[t].row \in DOMAIN rows
      /\ rows[req[t].row].managed
      /\ rows[req[t].row].path = req[t].path

\* What a synchronisation has read of rows.
LookSound ==
  \A t \in Thread :
    req[t].pc = "sync" =>
      \A p \in Read(req[t].looked) :
        LET seen == req[t].looked[p]
        IN  seen.row # 0 =>
              /\ seen.row \in DOMAIN rows
              /\ rows[seen.row].path = p
              /\ rows[seen.row].managed = seen.managed
              /\ seen.managed => rows[seen.row].title = seen.note.title

\* One title for all that is written to a path: the note, the rows of the
\* program's notes, and what is about to be written; the owner writes elsewhere.
PathsAgree ==
  /\ \A i \in DOMAIN rows : rows[i].managed /\ There(rows[i].path) =>
       notes[rows[i].path].by = "enishi" /\ notes[rows[i].path].title = rows[i].title
  /\ \A i, j \in DOMAIN rows : rows[i].managed /\ rows[j].managed /\ rows[i].path = rows[j].path =>
       rows[i].title = rows[j].title
  /\ \A t \in Thread : Writes(t) =>
       /\ There(req[t].path) => /\ notes[req[t].path].by = "enishi"
                                /\ notes[req[t].path].title = req[t].title
       /\ \A i \in DOMAIN rows : rows[i].managed /\ rows[i].path = req[t].path => rows[i].title = req[t].title
       /\ \A u \in Thread : Writes(u) /\ req[u].path = req[t].path => req[u].title = req[t].title

Kept(x) == x \in overwritten \cup discarded \/ InNote(x)

\* A text is in a note, or was taken out of one, before its row goes.
NothingLost ==
  /\ \A x \in acked : Kept(x) \/ InRow(x)
  /\ \A t \in Thread : req[t].pc = "index" => Kept(req[t].text)
  /\ \A t \in Thread : req[t].pc = "drop" => Kept(rows[Next1(req[t].todo)].text)

Sound == TypeOK /\ RowsSound /\ TodoSound /\ AimSound /\ LookSound

--------------------------------------------------------------------------------
(* The source of truth *)

\* Once notes are the source of truth they stay it: no request that began
\* before or that fails takes it back.
THEOREM SourceKept == Spec => SourceIsKept
<1>1. [Next]_vars => [External => External']_vars
  BY DEF vars, store, Next, Step, External, ExternalStatus, ResolveBackend, ResolvedStatus,
         Summary, Remember, CreateInternal, Match, WriteNote, IndexNote, Refuse, MarkUnavailable,
         Migrate, Collect, DropCandidate, Tally, Refresh, ListNotes, LookAtNotes, CommitSync,
         Owner, FolderComesOrGoes, Crash
<1>. QED BY <1>1, PTL DEF Spec, SourceIsKept

--------------------------------------------------------------------------------
(* Types *)

\* The first of a set of numbers is one of them.
LEMMA FirstOne ==
  ASSUME NEW S, S \subseteq Nat, S # {}
  PROVE  Next1(S) \in S
<1>1. PICK i \in S : \A j \in S : <<j, i>> \notin OpToRel(<, Nat)
  BY WFMin, NatLessThanWellFounded
<1>2. \A j \in S : i <= j
  <2>. SUFFICES ASSUME NEW j \in S PROVE i <= j
    OBVIOUS
  <2>1. ~(j < i)
    BY <1>1 DEF OpToRel
  <2>. QED BY <2>1
<1>. QED BY <1>2 DEF Next1

LEMMA PathType ==
  /\ Path \subseteq Nat /\ 0 \notin Path /\ IsFiniteSet(Path)
<1>1. Cardinality(Path) \in Nat
  BY MemoryAssumption, FS_CardinalityType
<1>. QED BY <1>1, MemoryAssumption

LEMMA RowsType ==
  ASSUME TypeOK
  PROVE  /\ rows \in Seq(Row) /\ Len(rows) \in Nat /\ DOMAIN rows = 1..Len(rows)
         /\ \A i \in DOMAIN rows : rows[i] \in Row
BY LenProperties, ElementOfSeq DEF TypeOK

\* What a request is, by where it is.
LEMMA RequestType ==
  ASSUME TypeOK, NEW t \in Thread
  PROVE  /\ req[t].pc \in {"internal", "pending", "match", "refused"} => req[t] \in Remembering
         /\ Writes(t) => req[t] \in Writing
         /\ req[t].pc \in {"next", "drop"} => req[t].todo \subseteq Nat
         /\ req[t].pc = "look" => req[t].listed \subseteq Path
         /\ req[t].pc = "sync" => req[t].looked \in [Path -> Looked \cup {NoNote}]
BY DEF TypeOK, Request, Remembering, Writing, Migrating, Syncing, Idle, Writes

LEMMA NoteType ==
  ASSUME TypeOK, NEW p \in Path, There(p)
  PROVE  notes[p] \in Note
BY DEF TypeOK, There

LEMMA InternalRowType ==
  ASSUME NEW source \in InternalSources, NEW x \in Text
  PROVE  /\ InternalRow(source, x) \in Row
         /\ InternalRow(source, x).source = source /\ InternalRow(source, x).path = 0
         /\ InternalRow(source, x).text = x /\ InternalRow(source, x).active
         /\ ~InternalRow(source, x).managed
BY MemoryAssumption DEF InternalRow, Row, Title

LEMMA ImportedRowType ==
  ASSUME NEW p \in Path, NEW note \in Note
  PROVE  /\ ImportedRow(p, note) \in Row
         /\ ImportedRow(p, note).source = "external" /\ ImportedRow(p, note).path = p
         /\ ~ImportedRow(p, note).managed
BY DEF ImportedRow, Row, Note, MemoryType, ExternalCanonicalTypes

LEMMA Sources == "external" \notin InternalSources
BY DEF InternalSources

\* What a synchronisation makes of a row.
LEMMA SyncedRow ==
  ASSUME TypeOK, RowsSound, LookSound, NEW t \in Thread, req[t].pc = "sync",
         NEW i \in DOMAIN rows, NEW r, r = Synced(rows[i], i, req[t].looked)
  PROVE  /\ r \in Row
         /\ r.source = rows[i].source /\ r.path = rows[i].path /\ r.type = rows[i].type
         /\ r.managed = rows[i].managed
         /\ rows[i].source # "external" => r = rows[i]
         /\ rows[i].managed => r.title = rows[i].title
<1>. DEFINE looked == req[t].looked
            mine == {p \in Read(looked) : looked[p].row = i}
            kept == IF mine = {} THEN rows[i] ELSE Rewritten(rows[i], looked[CHOOSE p \in mine : TRUE])
<1>1. rows[i] \in Row /\ i # 0
  BY RowsType
<1>2. /\ kept \in Row
      /\ kept.source = rows[i].source /\ kept.path = rows[i].path /\ kept.type = rows[i].type
      /\ kept.managed = rows[i].managed
      /\ rows[i].source # "external" => kept = rows[i]
      /\ rows[i].managed => kept.title = rows[i].title
  <2>1. CASE mine = {}
    BY <1>1, <2>1
  <2>2. CASE mine # {}
    <3>1. PICK p \in mine : p = CHOOSE q \in mine : TRUE
      BY <2>2
    <3>2. p \in Read(looked) /\ looked[p].row = i /\ p \in Path
      BY DEF Read
    <3>3. PICK seen : seen = looked[p]
      OBVIOUS
    <3>4. seen \in Looked
      BY <3>2, <3>3, RequestType DEF Read
    <3>5. /\ rows[i].path = p
          /\ rows[i].managed = seen.managed
          /\ seen.managed => rows[i].title = seen.note.title
      BY <1>1, <3>2, <3>3 DEF LookSound
    <3>6. rows[i].source = "external"
      BY <3>2, <3>5, PathType DEF RowsSound
    <3>7. kept = Rewritten(rows[i], seen)
      BY <2>2, <3>1, <3>3
    <3>8. CASE Rewritten(rows[i], seen) = rows[i]
      BY <1>1, <3>7, <3>8
    <3>9. CASE Rewritten(rows[i], seen) # rows[i]
      <4>1. PICK a \in BOOLEAN : a = (rows[i].active \/ ~seen.active)
        OBVIOUS
      <4>2. kept = [rows[i] EXCEPT !.title = seen.note.title, !.text = seen.note.text,
                                   !.managed = seen.managed, !.active = a]
        BY <3>7, <3>9, <4>1 DEF Rewritten
      <4>3. /\ seen.note.title \in Title /\ seen.note.text \in Text \cup OwnText
            /\ seen.managed \in BOOLEAN
        BY <3>4 DEF Looked, Note
      <4>4. kept \in Row
        BY <1>1, <4>1, <4>2, <4>3 DEF Row
      <4>5. /\ kept.source = rows[i].source /\ kept.path = rows[i].path /\ kept.type = rows[i].type
            /\ kept.managed = seen.managed /\ kept.title = seen.note.title
        BY <1>1, <4>2 DEF Row
      <4>. QED BY <3>5, <3>6, <4>4, <4>5
    <3>. QED BY <3>8, <3>9
  <2>. QED BY <2>1, <2>2
<1>3. r = IF kept.source = "external" /\ kept.path \notin Read(looked)
          THEN [kept EXCEPT !.active = FALSE] ELSE kept
  BY DEF Synced
<1>. HIDE DEF kept
<1>. QED BY <1>2, <1>3 DEF Row

\* What a step may do to a row that is there, and what a new one is.
Removed(i) == (\E t \in Thread : DropCandidate(t) /\ i = Next1(req[t].todo)) \/ Forget(i)

OldRow(i) ==
  /\ i \in DOMAIN rows'
  /\ rows'[i].source = rows[i].source /\ rows'[i].path = rows[i].path
  /\ rows'[i].managed = rows[i].managed
  /\ rows[i].source # "external" => rows'[i].text = rows[i].text /\ rows'[i].title = rows[i].title
  /\ rows[i].managed => rows'[i].title = rows[i].title
  /\ rows[i].source # "external" /\ rows[i].active => rows'[i].active \/ Removed(i)

NewRow(i) ==
  \/ rows'[i].source # "external" /\ rows'[i].path = 0 /\ rows'[i].text \in Text /\ ~rows'[i].managed
  \/ rows'[i].source = "external" /\ rows'[i].path \in Path /\ ~rows'[i].managed
  \/ /\ rows'[i].source = "external" /\ rows'[i].managed
     /\ i = Len(rows) + 1
     /\ \E t \in Thread : /\ req[t].pc = "index"
                          /\ rows'[i].path = req[t].path /\ rows'[i].title = req[t].title

RowsGo ==
  /\ rows' \in Seq(Row) /\ Len(rows') \in Nat /\ Len(rows') >= Len(rows)
  /\ \A i \in DOMAIN rows : OldRow(i)
  /\ \A i \in DOMAIN rows' : i \notin DOMAIN rows => NewRow(i)

\* One row is changed in its text, in who manages it or in whether it is active.
LEMMA RowChanged ==
  ASSUME TypeOK, NEW i \in DOMAIN rows, NEW r \in Row, rows' = [rows EXCEPT ![i] = r],
         r.source = rows[i].source, r.path = rows[i].path, r.managed = rows[i].managed,
         r.title = rows[i].title,
         rows[i].source # "external" => r.text = rows[i].text /\ Removed(i)
  PROVE  RowsGo
<1>1. /\ rows \in Seq(Row) /\ Len(rows) \in Nat /\ DOMAIN rows = 1..Len(rows)
  BY RowsType
<1>2. /\ rows' \in Seq(Row) /\ Len(rows') = Len(rows)
      /\ \A j \in 1..Len(rows) : rows'[j] = IF j = i THEN r ELSE rows[j]
  BY <1>1, ExceptSeq
<1>3. DOMAIN rows' = 1..Len(rows)
  BY <1>1, <1>2, LenProperties
<1>. QED BY <1>1, <1>2, <1>3 DEF RowsGo, OldRow

\* One row is added.
LEMMA RowAdded ==
  ASSUME TypeOK, NEW r \in Row, rows' = Append(rows, r),
         \/ r.source # "external" /\ r.path = 0 /\ r.text \in Text /\ ~r.managed
         \/ /\ r.source = "external" /\ r.managed
            /\ \E t \in Thread : req[t].pc = "index" /\ r.path = req[t].path /\ r.title = req[t].title
  PROVE  RowsGo
<1>1. /\ rows \in Seq(Row) /\ Len(rows) \in Nat /\ DOMAIN rows = 1..Len(rows)
  BY RowsType
<1>2. /\ rows' \in Seq(Row) /\ Len(rows') = Len(rows) + 1
      /\ \A j \in 1..Len(rows) : rows'[j] = rows[j]
      /\ rows'[Len(rows) + 1] = r
  BY <1>1, AppendProperties
<1>3. DOMAIN rows' = 1..(Len(rows) + 1)
  BY <1>1, <1>2, LenProperties
<1>4. \A i \in DOMAIN rows : OldRow(i)
  BY <1>1, <1>2, <1>3 DEF OldRow
<1>5. \A i \in DOMAIN rows' : i \notin DOMAIN rows => i = Len(rows) + 1
  BY <1>1, <1>3
<1>6. NewRow(Len(rows) + 1)
  BY <1>2 DEF NewRow
<1>. QED BY <1>1, <1>2, <1>4, <1>5, <1>6 DEF RowsGo

LEMMA FunctionIsSeq ==
  ASSUME NEW S, NEW n \in Nat, NEW f \in [1..n -> S]
  PROVE  f \in Seq(S) /\ Len(f) = n
OBVIOUS

\* The listed notes that no row stands for.
New(looked) == {p \in Read(looked) : looked[p].row = 0}

\* A synchronisation rewrites the rows and adds one for each new note.
LEMMA SyncShape ==
  ASSUME Sound, NEW t \in Thread, CommitSync(t)
  PROVE  LET looked == req[t].looked
             n == Cardinality(New(looked))
         IN  /\ n \in Nat /\ IsFiniteSet(New(looked)) /\ New(looked) \subseteq Path
             /\ \E order \in [1..n -> New(looked)] :
                  /\ \A j \in 1..n : \A k \in 1..(j - 1) : order[k] < order[j]
                  /\ rows' \in Seq(Row) /\ DOMAIN rows' = 1..Len(rows) + n
                  /\ \A i \in DOMAIN rows : rows'[i] = Synced(rows[i], i, looked)
                  /\ \A k \in 1..n : /\ rows'[Len(rows) + k] = ImportedRow(order[k], looked[order[k]].note)
                                     /\ looked[order[k]].note \in Note
<1>. DEFINE looked == req[t].looked
            new == New(looked)
            old == [i \in DOMAIN rows |-> Synced(rows[i], i, looked)]
<1>0. /\ rows \in Seq(Row) /\ Len(rows) \in Nat /\ DOMAIN rows = 1..Len(rows)
      /\ looked \in [Path -> Looked \cup {NoNote}]
  BY RowsType, RequestType DEF CommitSync, Sound
<1>1. PICK order \in [1..Cardinality(new) -> new] :
        /\ \A j \in DOMAIN order : \A k \in 1..(j - 1) : order[k] < order[j]
        /\ rows' = old \o [k \in DOMAIN order |-> ImportedRow(order[k], looked[order[k]].note)]
  BY DEF CommitSync, New
<1>. DEFINE imported == [k \in DOMAIN order |-> ImportedRow(order[k], looked[order[k]].note)]
            n == Cardinality(new)
<1>2. /\ n \in Nat /\ DOMAIN order = 1..n
      /\ new \in SUBSET Path /\ IsFiniteSet(new)
  <2>1. new \in SUBSET Path
    BY DEF Read, New
  <2>2. IsFiniteSet(new)
    BY <2>1, PathType, FS_Subset
  <2>. QED BY <2>1, <2>2, FS_CardinalityType
<1>3. \A i \in 1..Len(rows) : old[i] \in Row
  BY <1>0, SyncedRow DEF Sound, CommitSync
<1>4. old \in Seq(Row) /\ Len(old) = Len(rows)
  <2>1. old \in [1..Len(rows) -> Row]
    BY <1>0, <1>3
  <2>. QED BY <1>0, <2>1
<1>5. \A k \in 1..n : LET p == order[k]
                      IN  /\ p \in Path
                          /\ looked[p].note \in Note
                          /\ imported[k] = ImportedRow(p, looked[p].note)
  <2>. SUFFICES ASSUME NEW k \in 1..n, NEW p, p = order[k]
                PROVE  p \in Path /\ looked[p].note \in Note /\ imported[k] = ImportedRow(p, looked[p].note)
    OBVIOUS
  <2>1. p \in new
    BY <1>2
  <2>2. p \in Path /\ looked[p] # NoNote
    BY <2>1 DEF Read, New
  <2>3. looked[p] \in Looked
    BY <1>0, <2>2
  <2>4. imported[k] = ImportedRow(p, looked[p].note)
    BY <1>2
  <2>. QED BY <2>2, <2>3, <2>4 DEF Looked
<1>6. \A k \in 1..n : imported[k] \in Row
  BY <1>5, ImportedRowType, ZenonT(40)
<1>7. imported \in Seq(Row) /\ Len(imported) = n
  <2>1. imported \in [1..n -> Row]
    BY <1>2, <1>6
  <2>. HIDE DEF imported, n
  <2>. QED BY <1>2, <2>1, FunctionIsSeq
<1>8. \A i \in DOMAIN rows : old[i] = Synced(rows[i], i, looked)
  OBVIOUS
<1>. HIDE DEF old, imported, n, new, looked
<1>9. rows' = old \o imported
  BY <1>1 DEF old, imported, looked
<1>10. /\ rows' \in Seq(Row) /\ Len(rows') = Len(rows) + n
       /\ \A i \in 1..Len(rows) + n : rows'[i] = IF i <= Len(rows) THEN old[i] ELSE imported[i - Len(rows)]
  <2>1. /\ old \o imported \in Seq(Row) /\ Len(old \o imported) = Len(old) + Len(imported)
        /\ \A i \in 1..Len(old) + Len(imported) :
             (old \o imported)[i] = IF i <= Len(old) THEN old[i] ELSE imported[i - Len(old)]
    BY <1>4, <1>7, ConcatProperties
  <2>. QED BY <1>4, <1>7, <1>9, <2>1
<1>11. DOMAIN rows' = 1..Len(rows) + n
  BY <1>0, <1>2, <1>10, LenProperties
<1>12. \A i \in DOMAIN rows : rows'[i] = Synced(rows[i], i, looked)
  BY <1>0, <1>2, <1>8, <1>10
<1>13. \A k \in 1..n : /\ rows'[Len(rows) + k] = ImportedRow(order[k], looked[order[k]].note)
                       /\ looked[order[k]].note \in Note
  <2>. SUFFICES ASSUME NEW k \in 1..n
                PROVE  /\ rows'[Len(rows) + k] = ImportedRow(order[k], looked[order[k]].note)
                       /\ looked[order[k]].note \in Note
    OBVIOUS
  <2>1. rows'[Len(rows) + k] = imported[k]
    <3>1. k \in Nat /\ k >= 1 /\ k <= n /\ Len(rows) + k \in 1..Len(rows) + n
      BY <1>0, <1>2
    <3>2. ~(Len(rows) + k <= Len(rows)) /\ (Len(rows) + k) - Len(rows) = k
      BY <1>0, <3>1
    <3>. QED BY <1>10, <3>1, <3>2
  <2>. QED BY <1>5, <2>1
<1>14. \A j \in 1..n : \A k \in 1..(j - 1) : order[k] < order[j]
  BY <1>1, <1>2
<1>15. order \in [1..n -> new]
  BY DEF n
<1>. QED BY <1>2, <1>10, <1>11, <1>12, <1>13, <1>14, <1>15 DEF n, new, looked

LEMMA RowsSynced ==
  ASSUME Sound, NEW t \in Thread, CommitSync(t)
  PROVE  RowsGo
<1>. DEFINE looked == req[t].looked
            n == Cardinality(New(looked))
<1>0. /\ Len(rows) \in Nat /\ DOMAIN rows = 1..Len(rows)
      /\ TypeOK /\ RowsSound /\ LookSound /\ req[t].pc = "sync"
  BY RowsType DEF Sound, CommitSync
<1>1. n \in Nat /\ New(looked) \subseteq Path
  BY SyncShape
<1>2. PICK order \in [1..n -> New(looked)] :
        /\ rows' \in Seq(Row) /\ DOMAIN rows' = 1..Len(rows) + n
        /\ \A i \in DOMAIN rows : rows'[i] = Synced(rows[i], i, looked)
        /\ \A k \in 1..n : /\ rows'[Len(rows) + k] = ImportedRow(order[k], looked[order[k]].note)
                           /\ looked[order[k]].note \in Note
  BY SyncShape
<1>. HIDE DEF looked, n
<1>3. Len(rows') = Len(rows) + n
  BY <1>0, <1>1, <1>2, LenProperties
<1>4. ASSUME NEW i \in DOMAIN rows PROVE OldRow(i)
  <2>1. i \in DOMAIN rows'
    BY <1>0, <1>1, <1>2
  <2>2. PICK r : r = Synced(rows[i], i, req[t].looked)
    OBVIOUS
  <2>3. rows'[i] = r
    BY <1>2, <2>2 DEF looked
  <2>4. /\ r.source = rows[i].source /\ r.path = rows[i].path /\ r.managed = rows[i].managed
        /\ rows[i].source # "external" => r = rows[i]
        /\ rows[i].managed => r.title = rows[i].title
    BY <1>0, <2>2, SyncedRow
  <2>. QED BY <2>1, <2>3, <2>4 DEF OldRow
<1>5. ASSUME NEW i \in DOMAIN rows', i \notin DOMAIN rows PROVE NewRow(i)
  <2>1. PICK k \in 1..n : i = Len(rows) + k
    <3>1. i \in Nat /\ i > Len(rows) /\ i <= Len(rows) + n
      BY <1>0, <1>1, <1>2, <1>5
    <3>2. i - Len(rows) \in 1..n /\ i = Len(rows) + (i - Len(rows))
      BY <1>0, <1>1, <3>1
    <3>. QED BY <3>2
  <2>2. PICK p \in Path : p = order[k]
    BY <1>1, <1>2
  <2>3. rows'[i] = ImportedRow(p, looked[p].note) /\ looked[p].note \in Note
    BY <1>2, <2>1, <2>2
  <2>. QED BY <2>3, ImportedRowType DEF NewRow
<1>. QED BY <1>0, <1>1, <1>2, <1>3, <1>4, <1>5 DEF RowsGo

LEMMA RowsStep == Sound /\ [Next]_vars => RowsGo
<1>. SUFFICES ASSUME Sound, [Next]_vars PROVE RowsGo
  OBVIOUS
<1>0. /\ rows \in Seq(Row) /\ Len(rows) \in Nat /\ DOMAIN rows = 1..Len(rows)
      /\ \A i \in DOMAIN rows : rows[i] \in Row
      /\ TypeOK
  BY RowsType DEF Sound
<1>1. CASE UNCHANGED rows
  BY <1>0, <1>1 DEF RowsGo, OldRow
<1>2. CASE \E t \in Thread : CreateInternal(t)
  <2>1. PICK t \in Thread : CreateInternal(t)
    BY <1>2
  <2>2. req[t].text \in Text
    BY <1>0, <2>1, RequestType DEF CreateInternal, Remembering
  <2>3. PICK source \in InternalSources : rows' = Append(rows, InternalRow(source, req[t].text))
    BY <2>1 DEF CreateInternal, InternalSources
  <2>4. source # "external"
    BY Sources
  <2>. QED BY <1>0, <2>2, <2>3, <2>4, InternalRowType, RowAdded
<1>3. CASE \E t \in Thread : IndexNote(t)
  <2>1. PICK t \in Thread : IndexNote(t)
    BY <1>3
  <2>2. Writes(t) /\ req[t] \in Writing
    BY <1>0, <2>1, RequestType DEF IndexNote, Writes
  <2>3. CASE req[t].row = 0
    <3>1. PICK r : r = [source |-> "external", path |-> req[t].path, type |-> req[t].type,
                        title |-> req[t].title, text |-> req[t].text, managed |-> TRUE, active |-> TRUE]
      OBVIOUS
    <3>2. r \in Row
      BY <2>2, <3>1 DEF Writing, Row
    <3>3. rows' = Append(rows, r)
      BY <2>1, <2>3, <3>1 DEF IndexNote
    <3>. QED BY <1>0, <2>1, <3>1, <3>2, <3>3, RowAdded DEF IndexNote
  <2>4. CASE req[t].row # 0
    <3>1. PICK i : i = req[t].row
      OBVIOUS
    <3>2. i \in DOMAIN rows /\ rows[i].managed
      BY <2>2, <2>4, <3>1 DEF Sound, AimSound
    <3>3. PICK r : r = [rows[i] EXCEPT !.text = req[t].text, !.managed = TRUE]
      OBVIOUS
    <3>4. rows' = [rows EXCEPT ![i] = r]
      BY <1>0, <2>1, <2>4, <3>1, <3>2, <3>3 DEF IndexNote
    <3>5. req[t].text \in Text \cup OwnText /\ rows[i].managed = TRUE
      BY <1>0, <2>2, <3>2 DEF Writing, Row
    <3>6. /\ r \in Row
          /\ r.source = rows[i].source /\ r.path = rows[i].path /\ r.managed = rows[i].managed
          /\ r.title = rows[i].title
      BY <1>0, <3>2, <3>3, <3>5 DEF Row
    <3>7. rows[i].source = "external"
      BY <3>2 DEF Sound, RowsSound
    <3>. QED BY <1>0, <3>2, <3>4, <3>6, <3>7, RowChanged
  <2>. QED BY <2>3, <2>4
<1>4. CASE (\E t \in Thread : DropCandidate(t)) \/ (\E i \in DOMAIN rows : Forget(i))
  <2>1. PICK i \in DOMAIN rows : rows' = [rows EXCEPT ![i].active = FALSE] /\ Removed(i)
    <3>1. CASE \E t \in Thread : DropCandidate(t)
      <4>1. PICK t \in Thread : DropCandidate(t)
        BY <3>1
      <4>2. req[t].todo \subseteq DOMAIN rows /\ req[t].todo # {} /\ req[t].todo \subseteq Nat
        BY <1>0, <4>1, RequestType DEF DropCandidate, Sound, TodoSound
      <4>3. Next1(req[t].todo) \in DOMAIN rows
        BY <4>2, FirstOne
      <4>4. PICK i \in DOMAIN rows : i = Next1(req[t].todo)
        BY <4>3
      <4>5. rows' = [rows EXCEPT ![i].active = FALSE]
        BY <4>1, <4>4 DEF DropCandidate
      <4>. QED BY <4>1, <4>4, <4>5 DEF Removed
    <3>2. CASE \E i \in DOMAIN rows : Forget(i)
      <4>1. PICK i \in DOMAIN rows : Forget(i)
        BY <3>2
      <4>2. rows' = [rows EXCEPT ![i].active = FALSE]
        BY <4>1 DEF Forget
      <4>. QED BY <4>1, <4>2 DEF Removed
    <3>. QED BY <1>4, <3>1, <3>2
  <2>2. PICK r : r = [rows[i] EXCEPT !.active = FALSE]
    OBVIOUS
  <2>3. rows' = [rows EXCEPT ![i] = r]
    BY <1>0, <2>1, <2>2
  <2>4. /\ r \in Row
        /\ r.source = rows[i].source /\ r.path = rows[i].path /\ r.managed = rows[i].managed
        /\ r.title = rows[i].title /\ r.text = rows[i].text
    BY <1>0, <2>2 DEF Row
  <2>. QED BY <1>0, <2>1, <2>3, <2>4, RowChanged
<1>5. CASE \E t \in Thread : CommitSync(t)
  BY <1>5, RowsSynced
<1>. QED BY <1>1, <1>2, <1>3, <1>4, <1>5
     DEF vars, store, Next, Step, Summary, Remember, Match, WriteNote, Refuse, MarkUnavailable,
         Migrate, Collect, Tally, Refresh, ListNotes, LookAtNotes, Owner, OwnerWrites, OwnerEdits,
         OwnerRemoves, PutSettings, FolderComesOrGoes, Crash

--------------------------------------------------------------------------------
(* What a request does next *)

\* A note to write is chosen.
Aims(u) ==
  /\ req'[u] \in Writing /\ req'[u].pc = "write"
  /\ req'[u].row \in Matches(req'[u].type, req'[u].title)
  /\ IF req'[u].row = 0 THEN Fresh(req'[u].path) ELSE req'[u].path = rows[req'[u].row].path
  /\ \/ req'[u].todo = {}
     \/ /\ req[u].pc = "next" /\ req[u].todo # {} /\ req'[u].todo = req[u].todo
        /\ req'[u].text = rows[Next1(req[u].todo)].text
  /\ \A v \in Thread : v # u => req'[v] = req[v]
  /\ UNCHANGED <<notes, rows>>

\* The note is written, its row is next.
Indexes(u) ==
  /\ req[u] \in Writing /\ req'[u] \in Writing /\ req'[u].pc = "index"
  /\ req'[u].text = req[u].text /\ req'[u].type = req[u].type /\ req'[u].title = req[u].title
  /\ req'[u].path = req[u].path /\ req'[u].row = req[u].row /\ req'[u].todo = req[u].todo

\* What a synchronisation finds of the notes in S.
Seen(S) == [p \in Path |-> IF p \in S THEN Look(p) ELSE NoNote]

Goes(u) ==
  \/ req'[u] \in Request /\ req'[u].pc \in {"idle", "internal", "pending", "match", "refused", "collect", "list"}
  \/ Aims(u)
  \/ WriteNote(u) /\ Indexes(u)
  \/ /\ IndexNote(u) /\ req[u].todo # {}
     /\ req'[u] \in Request /\ req'[u].pc = "drop" /\ req'[u].todo = req[u].todo
  \/ Collect(u) /\ req'[u] \in Request /\ req'[u].pc = "next" /\ req'[u].todo = Candidates
  \/ /\ req[u].pc \in {"write", "next", "drop"}
     /\ req'[u] \in Request /\ req'[u].pc = "next" /\ req'[u].todo \subseteq req[u].todo
  \/ req'[u] \in Request /\ req'[u].pc = "look" /\ req'[u].listed \subseteq Path
  \/ /\ req'[u].pc = "sync"
     /\ \E S \in SUBSET Path : (\A p \in S : There(p)) /\ req'[u] = [pc |-> "sync", looked |-> Seen(S)]

LEMMA IdleType == Idle \in Request /\ Idle.pc = "idle"
BY DEF Idle, Request

LEMMA RememberingType ==
  ASSUME NEW pc \in {"internal", "pending", "match", "refused"}, NEW x \in Text
  PROVE  [pc |-> pc, text |-> x] \in Request /\ [pc |-> pc, text |-> x].pc = pc
BY DEF Request, Remembering

LEMMA MigratingType ==
  ASSUME NEW pc \in {"next", "drop"}, NEW todo \in SUBSET Nat
  PROVE  /\ [pc |-> pc, todo |-> todo] \in Request
         /\ [pc |-> pc, todo |-> todo].pc = pc /\ [pc |-> pc, todo |-> todo].todo = todo
BY DEF Request, Migrating

LEMMA ListingType ==
  ASSUME NEW S \in SUBSET Path
  PROVE  [pc |-> "look", listed |-> S] \in Request
BY DEF Request, Syncing

LEMMA CandidatesType == TypeOK => Candidates \in SUBSET Nat
BY RowsType DEF Candidates

\* A row that matches is a row of a note of the program.
LEMMA Matching ==
  ASSUME Sound, NEW type, NEW title, NEW row \in Matches(type, title), row # 0
  PROVE  row \in DOMAIN rows /\ rows[row].managed /\ rows[row].title = title /\ rows[row].path \in Path
BY DEF Matches, Sound, RowsSound

LEMMA MatchingType ==
  ASSUME Sound, NEW type, NEW title
  PROVE  Matches(type, title) \subseteq Nat
BY RowsType DEF Matches, Sound

LEMMA AimStep ==
  ASSUME Sound, NEW t \in Thread, Match(t)
  PROVE  Aims(t) /\ \A v \in Thread : v # t => req'[v] = req[v]
<1>0. /\ req \in [Thread -> Request] /\ TypeOK
      /\ \A i \in DOMAIN rows : rows[i] \in Row
  BY RowsType DEF Sound, TypeOK
<1>1. ASSUME NEW x \in Text, NEW type \in MemoryType, NEW title \in Title, NEW todo \in SUBSET Nat,
             Aim(t, x, type, title, todo), UNCHANGED <<notes, rows>>,
             \/ todo = {}
             \/ /\ req[t].pc = "next" /\ req[t].todo # {} /\ todo = req[t].todo
                /\ x = rows[Next1(req[t].todo)].text
      PROVE  Aims(t) /\ \A v \in Thread : v # t => req'[v] = req[v]
  <2>0. PICK row \in Matches(type, title), path \in Path :
          /\ IF row = 0 THEN Fresh(path) ELSE path = rows[row].path
          /\ req' = [req EXCEPT ![t] = [pc |-> "write", text |-> x, type |-> type, title |-> title,
                                       path |-> path, row |-> row, todo |-> todo]]
    BY <1>1 DEF Aim, Goto
  <2>1. PICK r : /\ r = [pc |-> "write", text |-> x, type |-> type, title |-> title, path |-> path,
                         row |-> row, todo |-> todo]
                 /\ req' = [req EXCEPT ![t] = r]
    BY <2>0
  <2>2. row \in Nat
    BY MatchingType
  <2>3. r \in Writing
    BY <2>1, <2>2 DEF Writing
  <2>4. req'[t] = r /\ \A v \in Thread : v # t => req'[v] = req[v]
    BY <1>0, <2>1
  <2>. QED BY <1>1, <2>0, <2>1, <2>3, <2>4 DEF Aims
<1>2. CASE req[t].pc = "match" /\ Aim(t, req[t].text, TypeOf[req[t].text], TitleOf[req[t].text], {})
  <2>1. req[t].text \in Text
    BY <1>0, <1>2, RequestType DEF Remembering
  <2>2. TypeOf[req[t].text] \in MemoryType /\ TitleOf[req[t].text] \in Title
    BY <2>1, MemoryAssumption DEF Title
  <2>. QED BY <1>1, <1>2, <2>1, <2>2 DEF Match, store
<1>3. CASE ~(req[t].pc = "match" /\ Aim(t, req[t].text, TypeOf[req[t].text], TitleOf[req[t].text], {}))
  <2>1. PICK row : row = rows[Next1(req[t].todo)]
    OBVIOUS
  <2>2. /\ req[t].pc = "next" /\ req[t].todo # {}
        /\ Aim(t, row.text, row.type, row.title, req[t].todo)
    BY <1>3, <2>1 DEF Match
  <2>3. req[t].todo \subseteq Nat
    BY <1>0, <2>2, RequestType
  <2>4. Next1(req[t].todo) \in req[t].todo
    BY <2>2, <2>3, FirstOne
  <2>5. row \in Row /\ row.text \in Text
    BY <1>0, <2>1, <2>2, <2>4 DEF Sound, TodoSound, RowsSound
  <2>. QED BY <1>1, <2>1, <2>2, <2>3, <2>5 DEF Match, store, Row
<1>. QED BY <1>2, <1>3

LEMMA RequestStep ==
  ASSUME Sound, [Next]_vars, NEW u \in Thread
  PROVE  req'[u] = req[u] \/ Goes(u)
<1>0. /\ req \in [Thread -> Request] /\ TypeOK
  BY DEF Sound, TypeOK
<1>1. CASE UNCHANGED req
  BY <1>1
<1>2. CASE \E t \in Thread : Goto(t, Idle)
  BY <1>0, <1>2, IdleType DEF Goto, Goes
<1>3. CASE Crash
  BY <1>3, IdleType DEF Crash, Goes
<1>4. CASE \E t \in Thread : Match(t)
  BY <1>4, AimStep DEF Goes
<1>5. CASE \E t \in Thread, x \in Text : Remember(t, x)
  <2>1. PICK t \in Thread, x \in Text : req' = [req EXCEPT ![t] = [pc |-> Route(x), text |-> x]]
    BY <1>5 DEF Remember, Goto
  <2>2. Route(x) \in {"internal", "pending", "match", "refused"}
    BY DEF Route
  <2>3. [pc |-> Route(x), text |-> x] \in Request /\ [pc |-> Route(x), text |-> x].pc = Route(x)
    BY <2>2, RememberingType
  <2>4. req'[u] = IF u = t THEN [pc |-> Route(x), text |-> x] ELSE req[u]
    BY <1>0, <2>1
  <2>. QED BY <2>2, <2>3, <2>4 DEF Goes
<1>6. CASE \E t \in Thread : WriteNote(t)
  <2>1. PICK t \in Thread : WriteNote(t)
    BY <1>6
  <2>2. PICK r : r = [req[t] EXCEPT !.pc = "index"]
    OBVIOUS
  <2>3. req[t] \in Writing
    BY <1>0, <2>1, RequestType DEF WriteNote, Writes
  <2>4. /\ r \in Writing /\ r.pc = "index"
        /\ r.text = req[t].text /\ r.type = req[t].type /\ r.title = req[t].title
        /\ r.path = req[t].path /\ r.row = req[t].row /\ r.todo = req[t].todo
    BY <2>2, <2>3 DEF Writing
  <2>5. req'[t] = r /\ (u # t => req'[u] = req[u])
    BY <1>0, <2>1, <2>2 DEF WriteNote, Goto
  <2>. QED BY <2>1, <2>3, <2>4, <2>5 DEF Goes, Indexes
<1>7. CASE \E t \in Thread : IndexNote(t) /\ ~Goto(t, Idle)
  <2>1. PICK t \in Thread : IndexNote(t) /\ ~Goto(t, Idle)
    BY <1>7
  <2>2. req[t].todo # {} /\ req' = [req EXCEPT ![t] = [pc |-> "drop", todo |-> req[t].todo]]
    BY <2>1 DEF IndexNote, AfterWrite, Goto
  <2>3. u # t => req'[u] = req[u]
    BY <1>0, <2>2
  <2>4. req'[t] = [pc |-> "drop", todo |-> req[t].todo]
    BY <1>0, <2>2
  <2>5. req[t].todo \in SUBSET Nat
    BY <1>0, <2>1, RequestType DEF IndexNote, Writes, Writing
  <2>. QED BY <2>1, <2>2, <2>3, <2>4, <2>5, MigratingType DEF Goes
<1>8. CASE \E t \in Thread : Refuse(t)
  <2>1. PICK t \in Thread : Refuse(t)
    BY <1>8
  <2>2. CASE req[t].pc = "match" \/ (req[t].pc = "write" /\ req[t].todo = {})
    <3>1. req[t].text \in Text
      BY <1>0, <2>2, RequestType DEF Remembering, Writing, Writes
    <3>2. req' = [req EXCEPT ![t] = [pc |-> "refused", text |-> req[t].text]]
      BY <2>1, <2>2 DEF Refuse, Goto
    <3>3. req'[u] = IF u = t THEN [pc |-> "refused", text |-> req[t].text] ELSE req[u]
      BY <1>0, <3>2
    <3>. QED BY <3>1, <3>3, RememberingType DEF Goes
  <2>3. CASE ~(req[t].pc = "match" \/ (req[t].pc = "write" /\ req[t].todo = {}))
    <3>1. /\ req' = [req EXCEPT ![t] = [pc |-> "next", todo |-> req[t].todo \ {Next1(req[t].todo)}]]
          /\ req[t].pc \in {"write", "next", "drop"}
      BY <2>1, <2>3 DEF Refuse, Goto
    <3>2. req'[u] = IF u = t THEN [pc |-> "next", todo |-> req[t].todo \ {Next1(req[t].todo)}] ELSE req[u]
      BY <1>0, <3>1
    <3>3. /\ (req[t].todo \ {Next1(req[t].todo)}) \in SUBSET req[t].todo
          /\ (req[t].todo \ {Next1(req[t].todo)}) \in SUBSET Nat
      BY <1>0, <3>1, RequestType DEF Writes, Writing
    <3>. QED BY <3>1, <3>2, <3>3, MigratingType DEF Goes
  <2>. QED BY <2>2, <2>3
<1>9. CASE \E t \in Thread : MarkUnavailable(t)
  <2>1. PICK t \in Thread : MarkUnavailable(t)
    BY <1>9
  <2>2. req[t].text \in Text
    BY <1>0, <2>1, RequestType DEF MarkUnavailable, Remembering
  <2>3. req'[u] = IF u = t THEN [pc |-> "pending", text |-> req[t].text] ELSE req[u]
    BY <1>0, <2>1 DEF MarkUnavailable, Goto
  <2>. QED BY <2>2, <2>3, RememberingType DEF Goes
<1>10. CASE \E t \in Thread : \/ Migrate(t) /\ Goto(t, [pc |-> "collect"])
                              \/ Refresh(t) /\ Goto(t, [pc |-> "list"])
  <2>1. PICK t \in Thread, pc \in {"collect", "list"} : req' = [req EXCEPT ![t] = [pc |-> pc]]
    BY <1>10 DEF Goto
  <2>2. [pc |-> pc] \in Request /\ [pc |-> pc].pc = pc
    BY DEF Request, Migrating, Syncing
  <2>3. req'[u] = IF u = t THEN [pc |-> pc] ELSE req[u]
    BY <1>0, <2>1
  <2>. QED BY <2>2, <2>3 DEF Goes
<1>11. CASE \E t \in Thread : Collect(t) /\ ~Goto(t, Idle)
  <2>1. PICK t \in Thread : Collect(t) /\ ~Goto(t, Idle)
    BY <1>11
  <2>2. req'[u] = IF u = t THEN [pc |-> "next", todo |-> Candidates] ELSE req[u]
    BY <1>0, <2>1 DEF Collect, Goto
  <2>. QED BY <1>0, <2>1, <2>2, CandidatesType, MigratingType DEF Goes
<1>12. CASE \E t \in Thread : DropCandidate(t)
  <2>1. PICK t \in Thread : DropCandidate(t)
    BY <1>12
  <2>2. req'[u] = IF u = t THEN [pc |-> "next", todo |-> req[t].todo \ {Next1(req[t].todo)}] ELSE req[u]
    BY <1>0, <2>1 DEF DropCandidate, Goto
  <2>3. /\ (req[t].todo \ {Next1(req[t].todo)}) \in SUBSET req[t].todo
        /\ (req[t].todo \ {Next1(req[t].todo)}) \in SUBSET Nat
        /\ req[t].pc = "drop"
    BY <1>0, <2>1, RequestType DEF DropCandidate
  <2>. QED BY <2>2, <2>3, MigratingType DEF Goes
<1>13. CASE \E t \in Thread : ListNotes(t) /\ ~Goto(t, Idle)
  <2>1. PICK t \in Thread : ListNotes(t) /\ ~Goto(t, Idle)
    BY <1>13
  <2>2. req'[u] = IF u = t THEN [pc |-> "look", listed |-> {p \in Path : There(p)}] ELSE req[u]
    BY <1>0, <2>1 DEF ListNotes, Goto
  <2>3. {p \in Path : There(p)} \in SUBSET Path
    OBVIOUS
  <2>. QED BY <2>2, <2>3, ListingType DEF Goes
<1>14. CASE \E t \in Thread : LookAtNotes(t)
  <2>1. PICK t \in Thread : LookAtNotes(t)
    BY <1>14
  <2>2. PICK S : /\ S = {p \in req[t].listed : up /\ There(p)}
                 /\ req' = [req EXCEPT ![t] = [pc |-> "sync", looked |-> Seen(S)]]
    BY <2>1 DEF LookAtNotes, Goto, Seen
  <2>3. S \in SUBSET Path /\ \A p \in S : There(p)
    BY <1>0, <2>1, <2>2, RequestType DEF LookAtNotes
  <2>4. u # t => req'[u] = req[u]
    BY <1>0, <2>2
  <2>5. req'[t] = [pc |-> "sync", looked |-> Seen(S)]
    BY <1>0, <2>2
  <2>. QED BY <2>1, <2>3, <2>4, <2>5 DEF Goes
<1>. QED BY <1>1, <1>2, <1>3, <1>4, <1>5, <1>6, <1>7, <1>8, <1>9, <1>10, <1>11, <1>12, <1>13, <1>14
     DEF Next, Step, vars, Summary, CreateInternal, Migrate, Refresh, Collect, IndexNote, Tally, ListNotes,
         CommitSync, Owner, FolderComesOrGoes

--------------------------------------------------------------------------------
(* What requests rely on holds *)

LEMMA RowsSoundStep == Sound /\ [Next]_vars => RowsSound'
<1>. SUFFICES ASSUME Sound, [Next]_vars, NEW i \in DOMAIN rows'
              PROVE  /\ rows'[i].source = "external" => rows'[i].path \in Path
                     /\ rows'[i].source # "external" => /\ rows'[i].path = 0 /\ rows'[i].text \in Text
                                                        /\ ~rows'[i].managed
  BY DEF RowsSound
<1>1. RowsGo
  BY RowsStep
<1>2. CASE i \in DOMAIN rows
  BY <1>1, <1>2 DEF RowsGo, OldRow, Sound, RowsSound
<1>3. CASE i \notin DOMAIN rows
  <2>1. \A t \in Thread : req[t].pc = "index" => req[t].path \in Path
    BY RequestType DEF Sound, Writes, Writing
  <2>. QED BY <1>1, <1>3, <2>1 DEF RowsGo, NewRow
<1>. QED BY <1>2, <1>3

LEMMA TodoSoundStep == Sound /\ [Next]_vars => TodoSound'
<1>. SUFFICES ASSUME Sound, [Next]_vars, NEW t \in Thread
              PROVE  /\ req'[t].pc \in {"write", "index", "next", "drop"} =>
                          \A i \in req'[t].todo : i \in DOMAIN rows' /\ rows'[i].source # "external"
                     /\ req'[t].pc = "drop" => req'[t].todo # {}
                     /\ req'[t].pc \in {"write", "index"} /\ req'[t].todo # {} =>
                          req'[t].text = rows'[Next1(req'[t].todo)].text
  BY DEF TodoSound, Writes
<1>0. RowsGo /\ TypeOK
  BY RowsStep DEF Sound
<1>1. \A i \in DOMAIN rows : rows[i].source # "external" =>
        i \in DOMAIN rows' /\ rows'[i].source # "external" /\ rows'[i].text = rows[i].text
  BY <1>0 DEF RowsGo, OldRow
<1>2. /\ req[t].pc \in {"write", "index", "next", "drop"} =>
           \A i \in req[t].todo : i \in DOMAIN rows /\ rows[i].source # "external"
      /\ req[t].pc = "drop" => req[t].todo # {}
      /\ req[t].pc \in {"write", "index"} /\ req[t].todo # {} => req[t].text = rows[Next1(req[t].todo)].text
  BY DEF Sound, TodoSound, Writes
<1>3. req[t].pc \in {"write", "index", "next", "drop"} /\ req[t].todo # {} => Next1(req[t].todo) \in req[t].todo
  BY <1>0, RequestType, FirstOne DEF Writes, Writing
<1>4. CASE req'[t] = req[t]
  BY <1>1, <1>2, <1>3, <1>4
<1>5. CASE Aims(t)
  <2>1. UNCHANGED rows /\ req'[t].pc = "write"
    BY <1>5 DEF Aims
  <2>2. CASE req'[t].todo = {}
    BY <2>1, <2>2
  <2>3. CASE /\ req[t].pc = "next" /\ req'[t].todo = req[t].todo
             /\ req'[t].text = rows[Next1(req[t].todo)].text
    BY <1>2, <2>1, <2>3
  <2>. QED BY <1>5, <2>2, <2>3 DEF Aims
<1>6. CASE WriteNote(t) /\ Indexes(t)
  BY <1>2, <1>6 DEF WriteNote, Indexes
<1>7. CASE IndexNote(t) /\ req[t].todo # {} /\ req'[t].pc = "drop" /\ req'[t].todo = req[t].todo
  BY <1>1, <1>2, <1>7 DEF IndexNote
<1>8. CASE Collect(t) /\ req'[t].pc = "next" /\ req'[t].todo = Candidates
  BY <1>8, Sources DEF Collect, Candidates, store
<1>9. CASE req[t].pc \in {"write", "next", "drop"} /\ req'[t].pc = "next" /\ req'[t].todo \subseteq req[t].todo
  BY <1>1, <1>2, <1>9
<1>10. CASE req'[t].pc \in {"idle", "internal", "pending", "match", "refused", "collect", "list", "look", "sync"}
  BY <1>10
<1>. QED BY <1>4, <1>5, <1>6, <1>7, <1>8, <1>9, <1>10, RequestStep DEF Goes

LEMMA AimSoundStep == Sound /\ [Next]_vars => AimSound'
<1>. SUFFICES ASSUME Sound, [Next]_vars, NEW t \in Thread, req'[t].pc \in {"write", "index"}, req'[t].row # 0
              PROVE  /\ req'[t].row \in DOMAIN rows'
                     /\ rows'[req'[t].row].managed
                     /\ rows'[req'[t].row].path = req'[t].path
  BY DEF AimSound, Writes
<1>0. RowsGo /\ TypeOK
  BY RowsStep DEF Sound
<1>1. \A i \in DOMAIN rows : i \in DOMAIN rows' /\ rows'[i].managed = rows[i].managed /\ rows'[i].path = rows[i].path
  BY <1>0 DEF RowsGo, OldRow
<1>2. CASE req'[t] = req[t]
  BY <1>1, <1>2 DEF Sound, AimSound, Writes
<1>3. CASE Aims(t)
  <2>1. /\ req'[t].row \in Matches(req'[t].type, req'[t].title)
        /\ req'[t].path = rows[req'[t].row].path
    BY <1>3 DEF Aims
  <2>. QED BY <1>1, <2>1, Matching
<1>4. CASE WriteNote(t) /\ Indexes(t)
  BY <1>1, <1>4 DEF WriteNote, Indexes, Writes, Sound, AimSound
<1>. QED BY <1>2, <1>3, <1>4, RequestStep DEF Goes

LEMMA LookType ==
  ASSUME TypeOK, RowsSound, PathsAgree, NEW p \in Path, There(p), NEW seen, seen = Look(p)
  PROVE  /\ seen \in Looked
         /\ seen.row # 0 =>
              /\ seen.row \in DOMAIN rows
              /\ rows[seen.row].path = p
              /\ rows[seen.row].managed = seen.managed
              /\ seen.managed => rows[seen.row].title = seen.note.title
<1>. DEFINE found == {i \in DOMAIN rows : rows[i].path = p}
            i == RowOf(p)
<1>0. /\ notes[p] \in Note
      /\ DOMAIN rows = 1..Len(rows) /\ Len(rows) \in Nat
      /\ \A j \in DOMAIN rows : rows[j] \in Row
  BY NoteType, RowsType
<1>1. i # 0 => i \in DOMAIN rows /\ rows[i].path = p
  <2>1. CASE found = {}
    BY <2>1 DEF RowOf
  <2>2. CASE found # {}
    <3>1. found \subseteq Nat
      BY <1>0
    <3>2. Next1(found) \in found
      <4>. HIDE DEF found
      <4>. QED BY <2>2, <3>1, FirstOne
    <3>3. i = Next1(found)
      BY <2>2 DEF RowOf
    <3>. QED BY <3>2, <3>3
  <2>. QED BY <2>1, <2>2
<1>2. i \in Nat
  <2>1. i = 0 \/ i \in DOMAIN rows
    BY <1>1
  <2>. QED BY <1>0, <2>1
<1>3. seen = [note |-> notes[p], row |-> i,
              text    |-> IF i = 0 THEN "own" ELSE rows[i].text,
              active  |-> i # 0 /\ rows[i].active,
              managed |-> i # 0 /\ rows[i].managed]
  BY DEF Look
<1>. HIDE DEF i
<1>4. /\ (IF i = 0 THEN "own" ELSE rows[i].text) \in Text \cup OwnText
      /\ (i # 0 /\ rows[i].active) \in BOOLEAN
      /\ (i # 0 /\ rows[i].managed) \in BOOLEAN
  BY <1>0, <1>1 DEF Row, OwnText
<1>5. seen \in Looked
  BY <1>0, <1>2, <1>3, <1>4 DEF Looked
<1>6. /\ seen.row = i /\ seen.note = notes[p]
      /\ i # 0 => seen.managed = rows[i].managed
  BY <1>0, <1>1, <1>3 DEF Row
<1>7. i # 0 /\ seen.managed => rows[i].title = notes[p].title
  <2>1. \A j \in DOMAIN rows : rows[j].managed /\ There(rows[j].path) =>
          notes[rows[j].path].title = rows[j].title
    BY DEF PathsAgree
  <2>. QED BY <1>1, <1>6, <2>1
<1>. QED BY <1>1, <1>5, <1>6, <1>7

LEMMA LookSoundStep == Sound /\ PathsAgree /\ [Next]_vars => LookSound'
<1>. SUFFICES ASSUME Sound, PathsAgree, [Next]_vars, NEW t \in Thread, req'[t].pc = "sync",
                     NEW p \in Read(req'[t].looked), NEW seen, seen = req'[t].looked[p], seen.row # 0
              PROVE  /\ seen.row \in DOMAIN rows'
                     /\ rows'[seen.row].path = p
                     /\ rows'[seen.row].managed = seen.managed
                     /\ seen.managed => rows'[seen.row].title = seen.note.title
  BY DEF LookSound, Read
<1>0. RowsGo /\ TypeOK /\ RowsSound
  BY RowsStep DEF Sound
<1>1. /\ seen.row \in DOMAIN rows
      /\ rows[seen.row].path = p
      /\ rows[seen.row].managed = seen.managed
      /\ seen.managed => rows[seen.row].title = seen.note.title
  <2>1. CASE req'[t] = req[t]
    BY <2>1 DEF Sound, LookSound
  <2>2. CASE \E S \in SUBSET Path : (\A q \in S : There(q)) /\ req'[t] = [pc |-> "sync", looked |-> Seen(S)]
    <3>1. PICK S \in SUBSET Path : (\A q \in S : There(q)) /\ req'[t] = [pc |-> "sync", looked |-> Seen(S)]
      BY <2>2
    <3>2. p \in S /\ seen = Look(p)
      BY <3>1 DEF Seen, Read
    <3>3. p \in Path /\ There(p)
      BY <3>1, <3>2
    <3>. QED BY <1>0, <3>2, <3>3, LookType
  <2>. QED BY <2>1, <2>2, RequestStep DEF Goes, Aims, Indexes
<1>. QED BY <1>0, <1>1 DEF RowsGo, OldRow

--------------------------------------------------------------------------------
(* Paths have one title *)

LEMMA NotesStep ==
  ASSUME Sound, [Next]_vars, NEW p \in Path, There(p)', notes'[p] # notes[p]
  PROVE  \/ \E t \in Thread : /\ WriteNote(t) /\ req[t].path = p
                              /\ notes'[p].by = (IF There(p) THEN notes[p].by ELSE "enishi")
                              /\ notes'[p].title = req[t].title /\ notes'[p].text = req[t].text
         \/ Owner /\ There(p) /\ notes'[p].by = notes[p].by /\ notes'[p].title = notes[p].title
         \/ Owner /\ Fresh(p) /\ UNCHANGED <<rows, req>>
<1>0. notes \in [Path -> Note \cup {NoNote}]
  BY DEF Sound, TypeOK
<1>1. CASE \E t \in Thread : WriteNote(t)
  <2>1. PICK t \in Thread : WriteNote(t)
    BY <1>1
  <2>2. PICK r : r = [by |-> IF There(req[t].path) THEN notes[req[t].path].by ELSE "enishi",
                      title |-> req[t].title, text |-> req[t].text]
    OBVIOUS
  <2>3. notes' = [notes EXCEPT ![req[t].path] = r]
    BY <2>1, <2>2 DEF WriteNote
  <2>4. req[t].path = p /\ notes'[p] = r
    BY <1>0, <2>3
  <2>. QED BY <2>1, <2>2, <2>4
<1>2. CASE Owner
  <2>1. CASE \E q \in Path : OwnerEdits(q)
    <3>1. PICK q \in Path : OwnerEdits(q)
      BY <2>1
    <3>2. notes' = [notes EXCEPT ![q].text = "edited"] /\ There(q)
      BY <3>1 DEF OwnerEdits
    <3>3. q = p
      BY <1>0, <3>2
    <3>4. notes[p] \in Note
      BY <3>2, <3>3, NoteType DEF Sound
    <3>. QED BY <1>0, <1>2, <3>2, <3>3, <3>4 DEF Note
  <2>2. CASE \E q \in Path : OwnerRemoves(q)
    BY <1>0, <2>2 DEF OwnerRemoves, There
  <2>3. CASE \E q \in Path, title \in Title : OwnerWrites(q, title)
    BY <1>0, <1>2, <2>3 DEF OwnerWrites, Owner
  <2>. QED BY <1>2, <2>1, <2>2, <2>3 DEF Owner, Forget, PutSettings, store
<1>. QED BY <1>1, <1>2
     DEF vars, store, Next, Step, Summary, Remember, CreateInternal, Match, IndexNote, Refuse, MarkUnavailable,
         Migrate, Collect, DropCandidate, Tally, Refresh, ListNotes, LookAtNotes, CommitSync,
         FolderComesOrGoes, Crash

\* A row of the program's notes was there, or is the one that is added.
LEMMA ManagedStep ==
  ASSUME Sound, [Next]_vars, NEW i \in DOMAIN rows', rows'[i].managed
  PROVE  /\ rows'[i].path \in Path
         /\ \/ /\ i \in DOMAIN rows /\ rows[i].managed
               /\ rows'[i].path = rows[i].path /\ rows'[i].title = rows[i].title
            \/ /\ i = Len(rows) + 1
               /\ \E t \in Thread : Writes(t) /\ req[t].path = rows'[i].path /\ req[t].title = rows'[i].title
<1>1. RowsGo
  BY RowsStep
<1>2. RowsSound'
  BY RowsSoundStep
<1>3. rows'[i].path \in Path
  BY <1>2 DEF RowsSound
<1>4. CASE i \in DOMAIN rows
  BY <1>1, <1>3, <1>4 DEF RowsGo, OldRow
<1>5. CASE i \notin DOMAIN rows
  BY <1>1, <1>3, <1>5 DEF RowsGo, NewRow, Writes
<1>. QED BY <1>4, <1>5

\* A thread that writes was at it, or has just found what to write.
LEMMA WriterStep ==
  ASSUME Sound, [Next]_vars, NEW t \in Thread, Writes(t)'
  PROVE  /\ req'[t].path \in Path
         /\ \/ Writes(t) /\ req'[t].path = req[t].path /\ req'[t].title = req[t].title
            \/ Aims(t)
<1>1. CASE req'[t] = req[t]
  BY <1>1, RequestType DEF Sound, Writes, Writing
<1>2. CASE WriteNote(t) /\ Indexes(t)
  BY <1>2 DEF WriteNote, Indexes, Writes, Writing
<1>3. CASE Aims(t)
  BY <1>3 DEF Aims, Writing
<1>. QED BY <1>1, <1>2, <1>3, RequestStep DEF Goes, Writes

\* Where a thread aims, its title is the one of that path.
LEMMA AimAgrees ==
  ASSUME Sound, PathsAgree, NEW t \in Thread, Aims(t), NEW p, p = req'[t].path
  PROVE  /\ There(p) => notes[p].by = "enishi" /\ notes[p].title = req'[t].title
         /\ \A i \in DOMAIN rows : rows[i].managed /\ rows[i].path = p => rows[i].title = req'[t].title
         /\ \A u \in Thread : Writes(u) /\ req[u].path = p => req[u].title = req'[t].title
<1>1. CASE req'[t].row = 0
  <2>1. ~Taken(p)
    BY <1>1 DEF Aims, Fresh
  <2>. QED BY <2>1 DEF Taken, Writes
<1>2. CASE req'[t].row # 0
  <2>1. PICK row : /\ row = req'[t].row
                   /\ row \in Matches(req'[t].type, req'[t].title) /\ p = rows[row].path
    BY <1>2 DEF Aims
  <2>2. row \in DOMAIN rows /\ rows[row].managed /\ rows[row].title = req'[t].title
    BY <1>2, <2>1, Matching
  <2>. QED BY <2>1, <2>2 DEF PathsAgree
<1>. QED BY <1>1, <1>2

\* A note that changes is the program's and has its title.
LEMMA NoteAgrees ==
  ASSUME Sound, PathsAgree, [Next]_vars, NEW p \in Path, There(p)'
  PROVE  \/ There(p) /\ notes'[p].by = notes[p].by /\ notes'[p].title = notes[p].title
         \/ \E t \in Thread : /\ WriteNote(t) /\ Writes(t) /\ req[t].path = p
                              /\ notes'[p].by = "enishi" /\ notes'[p].title = req[t].title
         \/ Owner /\ Fresh(p) /\ UNCHANGED <<rows, req>>
<1>1. CASE notes'[p] = notes[p]
  BY <1>1 DEF There
<1>2. CASE notes'[p] # notes[p]
  <2>1. \A t \in Thread : WriteNote(t) /\ req[t].path = p /\ There(p) => notes[p].by = "enishi"
    BY DEF PathsAgree, WriteNote, Writes
  <2>2. \A t \in Thread : WriteNote(t) => Writes(t)
    BY DEF WriteNote, Writes
  <2>. QED BY <1>2, <2>1, <2>2, NotesStep
<1>. QED BY <1>1, <1>2

LEMMA PathsStep == Sound /\ PathsAgree /\ [Next]_vars => PathsAgree'
<1>. SUFFICES ASSUME Sound, PathsAgree, [Next]_vars PROVE PathsAgree'
  OBVIOUS
<1>1. ASSUME NEW i \in DOMAIN rows', rows'[i].managed, NEW p, p = rows'[i].path, There(p)'
      PROVE  notes'[p].by = "enishi" /\ notes'[p].title = rows'[i].title
  <2>1. /\ p \in Path
        /\ \/ i \in DOMAIN rows /\ rows[i].managed /\ p = rows[i].path /\ rows'[i].title = rows[i].title
           \/ \E t \in Thread : Writes(t) /\ req[t].path = p /\ req[t].title = rows'[i].title
    BY <1>1, ManagedStep
  <2>2. There(p) => notes[p].by = "enishi" /\ notes[p].title = rows'[i].title
    BY <2>1 DEF PathsAgree
  <2>3. \A t \in Thread : Writes(t) /\ req[t].path = p => req[t].title = rows'[i].title
    BY <2>1 DEF PathsAgree
  <2>4. Taken(p)
    BY <2>1 DEF Taken, Writes
  <2>. QED BY <1>1, <2>1, <2>2, <2>3, <2>4, NoteAgrees DEF Fresh
<1>2. ASSUME NEW i \in DOMAIN rows', NEW j \in DOMAIN rows', rows'[i].managed, rows'[j].managed,
             rows'[i].path = rows'[j].path
      PROVE  rows'[i].title = rows'[j].title
  <2>. DEFINE Known(k) == k \in DOMAIN rows /\ rows[k].managed
                          /\ rows'[k].path = rows[k].path /\ rows'[k].title = rows[k].title
              Added(k) == k = Len(rows) + 1
                          /\ \E t \in Thread : Writes(t) /\ req[t].path = rows'[k].path /\ req[t].title = rows'[k].title
  <2>1. (Known(i) \/ Added(i)) /\ (Known(j) \/ Added(j))
    BY <1>2, ManagedStep
  <2>2. CASE Known(i) /\ Known(j)
    <3>1. \A k, l \in DOMAIN rows : rows[k].managed /\ rows[l].managed /\ rows[k].path = rows[l].path =>
            rows[k].title = rows[l].title
      BY DEF PathsAgree
    <3>2. rows[i].title = rows[j].title
      BY <1>2, <2>2, <3>1
    <3>. QED BY <2>2, <3>2
  <2>3. CASE Known(i) /\ Added(j)
    <3>1. PICK t \in Thread : Writes(t) /\ req[t].path = rows'[j].path /\ req[t].title = rows'[j].title
      BY <2>3
    <3>2. rows[i].title = req[t].title
      BY <1>2, <2>3, <3>1 DEF PathsAgree
    <3>. QED BY <2>3, <3>1, <3>2
  <2>4. CASE Added(i) /\ Known(j)
    <3>1. PICK t \in Thread : Writes(t) /\ req[t].path = rows'[i].path /\ req[t].title = rows'[i].title
      BY <2>4
    <3>2. rows[j].title = req[t].title
      BY <1>2, <2>4, <3>1 DEF PathsAgree
    <3>. QED BY <2>4, <3>1, <3>2
  <2>5. CASE Added(i) /\ Added(j)
    BY <2>5
  <2>. QED BY <2>1, <2>2, <2>3, <2>4, <2>5
<1>3. ASSUME NEW t \in Thread, Writes(t)', NEW p, p = req'[t].path
      PROVE  /\ There(p)' => notes'[p].by = "enishi" /\ notes'[p].title = req'[t].title
             /\ \A i \in DOMAIN rows' : rows'[i].managed /\ rows'[i].path = p => rows'[i].title = req'[t].title
             /\ \A u \in Thread : Writes(u)' /\ req'[u].path = p => req'[u].title = req'[t].title
  <2>1. /\ p \in Path
        /\ \/ Writes(t) /\ p = req[t].path /\ req'[t].title = req[t].title
           \/ Aims(t)
    BY <1>3, WriterStep
  <2>2. /\ There(p) => notes[p].by = "enishi" /\ notes[p].title = req'[t].title
        /\ \A i \in DOMAIN rows : rows[i].managed /\ rows[i].path = p => rows[i].title = req'[t].title
        /\ \A u \in Thread : Writes(u) /\ req[u].path = p => req[u].title = req'[t].title
    <3>1. CASE Aims(t)
      BY <1>3, <3>1, AimAgrees
    <3>2. CASE Writes(t) /\ p = req[t].path /\ req'[t].title = req[t].title
      BY <3>2 DEF PathsAgree
    <3>. QED BY <2>1, <3>1, <3>2
  <2>3. Aims(t) => UNCHANGED <<notes, rows>> /\ \A u \in Thread : u # t => req'[u] = req[u]
    BY DEF Aims
  <2>4. There(p)' => notes'[p].by = "enishi" /\ notes'[p].title = req'[t].title
    <3>1. CASE Aims(t)
      BY <2>2, <2>3, <3>1 DEF There
    <3>2. CASE Writes(t) /\ p = req[t].path
      <4>1. Taken(p)
        BY <3>2 DEF Taken, Writes
      <4>2. \A u \in Thread : Writes(u) /\ req[u].path = p => req[u].title = req'[t].title
        BY <2>2
      <4>. QED BY <2>1, <2>2, <4>1, <4>2, NoteAgrees DEF Fresh
    <3>. QED BY <2>1, <3>1, <3>2
  <2>5. ASSUME NEW i \in DOMAIN rows', rows'[i].managed, rows'[i].path = p PROVE rows'[i].title = req'[t].title
    BY <2>2, <2>5, ManagedStep
  <2>6. ASSUME NEW u \in Thread, Writes(u)', req'[u].path = p PROVE req'[u].title = req'[t].title
    <3>1. CASE u = t
      BY <3>1
    <3>2. CASE u # t /\ Aims(t)
      BY <2>2, <2>3, <2>6, <3>2 DEF Writes
    <3>3. CASE u # t /\ Writes(u) /\ req[u].path = p /\ req'[u].title = req[u].title
      BY <2>2, <3>3
    <3>4. CASE u # t /\ ~Aims(t) /\ Aims(u)
      <4>1. Writes(t) /\ p = req[t].path /\ req'[t].title = req[t].title
        BY <2>1, <3>4
      <4>2. req[t].title = req'[u].title
        BY <2>6, <3>4, <4>1, AimAgrees
      <4>. QED BY <4>1, <4>2
    <3>. QED BY <2>6, <3>1, <3>2, <3>3, <3>4, WriterStep
  <2>. QED BY <2>4, <2>5, <2>6
<1>4. ASSUME NEW i \in DOMAIN rows', rows'[i].managed, notes'[rows'[i].path] # NoNote
      PROVE  notes'[rows'[i].path].by = "enishi" /\ notes'[rows'[i].path].title = rows'[i].title
  <2>1. PICK p : p = rows'[i].path
    OBVIOUS
  <2>. QED BY <1>1, <1>4, <2>1 DEF There
<1>5. ASSUME NEW t \in Thread, Writes(t)'
      PROVE  /\ notes'[req'[t].path] # NoNote => /\ notes'[req'[t].path].by = "enishi"
                                                 /\ notes'[req'[t].path].title = req'[t].title
             /\ \A i \in DOMAIN rows' : rows'[i].managed /\ rows'[i].path = req'[t].path =>
                  rows'[i].title = req'[t].title
             /\ \A u \in Thread : Writes(u)' /\ req'[u].path = req'[t].path => req'[u].title = req'[t].title
  <2>1. PICK p : p = req'[t].path
    OBVIOUS
  <2>. QED BY <1>3, <1>5, <2>1 DEF There
<1>. QED BY <1>2, <1>4, <1>5 DEF PathsAgree, There

--------------------------------------------------------------------------------
(* What is known when nothing has happened yet, and types *)

LEMMA InitSound == Init => Sound /\ PathsAgree /\ NothingLost
<1>. SUFFICES ASSUME Init PROVE Sound /\ PathsAgree /\ NothingLost
  OBVIOUS
<1>1. /\ rows = <<>> /\ DOMAIN rows = {}
      /\ \A t \in Thread : req[t] = Idle
      /\ \A p \in Path : notes[p] = NoNote
  BY DEF Init
<1>2. TypeOK
  <2>1. [requests |-> 0, owner |-> 0, outages |-> 0, crashes |-> 0]
          \in [{"requests", "owner", "outages", "crashes"} -> Nat]
    OBVIOUS
  <2>2. Idle \in Request
    BY IdleType
  <2>3. /\ notes \in [Path -> Note \cup {NoNote}]
        /\ req \in [Thread -> Request]
    BY <2>2 DEF Init
  <2>4. rows \in Seq(Row)
    BY <1>1
  <2>5. /\ backend \in ExternalStatus \cup {"none", "internal_primary"}
        /\ up \in BOOLEAN /\ linked \in BOOLEAN
    BY DEF Init
  <2>6. /\ remembered \subseteq Text /\ acked \subseteq Text
        /\ overwritten \subseteq Text /\ discarded \subseteq Text
        /\ calm \subseteq Thread
    BY DEF Init
  <2>7. budget = [requests |-> 0, owner |-> 0, outages |-> 0, crashes |-> 0]
    BY DEF Init
  <2>. QED BY <2>1, <2>3, <2>4, <2>5, <2>6, <2>7 DEF TypeOK
<1>3. RowsSound /\ TodoSound /\ AimSound /\ LookSound /\ PathsAgree /\ NothingLost
  BY <1>1 DEF RowsSound, TodoSound, AimSound, LookSound, PathsAgree, NothingLost, Writes, Idle, Init
<1>. QED BY <1>2, <1>3 DEF Sound

LEMMA RequestTypeStep ==
  ASSUME Sound, PathsAgree, [Next]_vars
  PROVE  req' \in [Thread -> Request]
<1>0. req \in [Thread -> Request]
  BY DEF Sound, TypeOK
<1>1. ASSUME NEW u \in Thread PROVE req'[u] \in Request
  <2>1. CASE req'[u] = req[u]
    BY <1>0, <2>1
  <2>2. CASE req'[u] \in Writing
    BY <2>2 DEF Request
  <2>3. CASE \E S \in SUBSET Path : (\A p \in S : There(p)) /\ req'[u] = [pc |-> "sync", looked |-> Seen(S)]
    <3>1. PICK S \in SUBSET Path : (\A p \in S : There(p)) /\ req'[u] = [pc |-> "sync", looked |-> Seen(S)]
      BY <2>3
    <3>2. \A p \in S : Look(p) \in Looked
      BY <3>1, LookType DEF Sound
    <3>3. Seen(S) \in [Path -> Looked \cup {NoNote}]
      BY <3>2 DEF Seen
    <3>. QED BY <3>1, <3>3 DEF Request, Syncing
  <2>. QED BY <2>1, <2>2, <2>3, RequestStep DEF Goes, Aims, Indexes
<1>2. UNCHANGED req \/ (\E t \in Thread : \E r : Goto(t, r)) \/ Crash
  BY ZenonT(60) DEF Next, Step, vars, Summary, Remember, CreateInternal, Match, Aim, WriteNote, IndexNote, AfterWrite,
         Refuse, MarkUnavailable, Migrate, Collect, DropCandidate, Tally, Refresh, ListNotes, LookAtNotes,
         CommitSync, Owner, FolderComesOrGoes
<1>3. DOMAIN req' = Thread /\ req' = [u \in Thread |-> req'[u]]
  BY <1>0, <1>2 DEF Goto, Crash
<1>. QED BY <1>1, <1>3

LEMMA NotesTypeStep ==
  ASSUME Sound, [Next]_vars
  PROVE  notes' \in [Path -> Note \cup {NoNote}]
<1>0. notes \in [Path -> Note \cup {NoNote}]
  BY DEF Sound, TypeOK
<1>1. CASE \E t \in Thread : WriteNote(t)
  <2>1. PICK t \in Thread : WriteNote(t)
    BY <1>1
  <2>2. PICK r : r = [by |-> IF There(req[t].path) THEN notes[req[t].path].by ELSE "enishi",
                      title |-> req[t].title, text |-> req[t].text]
    OBVIOUS
  <2>3. notes' = [notes EXCEPT ![req[t].path] = r]
    BY <2>1, <2>2 DEF WriteNote
  <2>4. req[t] \in Writing
    BY <2>1, RequestType DEF Sound, WriteNote, Writes
  <2>5. (IF There(req[t].path) THEN notes[req[t].path].by ELSE "enishi") \in {"enishi", "owner"}
    BY <2>4, NoteType DEF Sound, Writing, Note
  <2>6. r \in Note
    BY <2>2, <2>4, <2>5 DEF Writing, Note
  <2>. QED BY <1>0, <2>3, <2>6
<1>2. CASE \E p \in Path : OwnerEdits(p)
  <2>1. PICK p \in Path : OwnerEdits(p)
    BY <1>2
  <2>2. PICK r : r = [notes[p] EXCEPT !.text = "edited"]
    OBVIOUS
  <2>3. notes[p] \in Note
    BY <2>1, NoteType DEF OwnerEdits, Sound
  <2>4. r \in Note
    BY <2>2, <2>3 DEF Note, OwnText
  <2>5. notes' = [notes EXCEPT ![p] = r]
    BY <1>0, <2>1, <2>2 DEF OwnerEdits
  <2>. QED BY <1>0, <2>4, <2>5
<1>3. CASE \E p \in Path, title \in Title : OwnerWrites(p, title)
  <2>1. PICK p \in Path, title \in Title : OwnerWrites(p, title)
    BY <1>3
  <2>2. PICK r : r = [by |-> "owner", title |-> title, text |-> "own"]
    OBVIOUS
  <2>3. r \in Note
    BY <2>2 DEF Note, OwnText
  <2>4. notes' = [notes EXCEPT ![p] = r]
    BY <2>1, <2>2 DEF OwnerWrites
  <2>. QED BY <1>0, <2>3, <2>4
<1>4. CASE \E p \in Path : OwnerRemoves(p)
  BY <1>0, <1>4 DEF OwnerRemoves
<1>5. CASE UNCHANGED notes
  BY <1>0, <1>5
<1>. QED BY <1>1, <1>2, <1>3, <1>4, <1>5
     DEF vars, store, Next, Step, Summary, Remember, CreateInternal, Match, IndexNote, Refuse, MarkUnavailable,
         Migrate, Collect, DropCandidate, Tally, Refresh, ListNotes, LookAtNotes, CommitSync, Owner, Forget,
         PutSettings, FolderComesOrGoes, Crash

LEMMA BudgetTypeStep ==
  ASSUME TypeOK, [Next]_vars
  PROVE  budget' \in [{"requests", "owner", "outages", "crashes"} -> Nat]
<1>1. budget \in [{"requests", "owner", "outages", "crashes"} -> Nat]
  BY DEF TypeOK
<1>2. UNCHANGED budget \/ \E what \in {"requests", "owner", "outages", "crashes"} : Spend(what)
  BY DEF vars, store, Next, Step, Summary, Remember, CreateInternal, Match, WriteNote, IndexNote, Refuse,
         MarkUnavailable, Migrate, Collect, DropCandidate, Tally, Refresh, ListNotes, LookAtNotes, CommitSync,
         Owner, FolderComesOrGoes, Crash
<1>. QED BY <1>1, <1>2 DEF Spend

LEMMA HistoryTypeStep ==
  ASSUME Sound, [Next]_vars
  PROVE  /\ remembered' \subseteq Text /\ acked' \subseteq Text
         /\ overwritten' \subseteq Text /\ discarded' \subseteq Text
         /\ calm' \subseteq Thread
<1>0. /\ remembered \subseteq Text /\ acked \subseteq Text
      /\ overwritten \subseteq Text /\ discarded \subseteq Text
      /\ calm \subseteq Thread /\ TypeOK
  BY DEF Sound, TypeOK
<1>1. remembered' \subseteq Text
  BY <1>0 DEF vars, store, history, Next, Step, Summary, Remember, CreateInternal, Match, WriteNote, IndexNote, Refuse,
         MarkUnavailable, Migrate, Collect, DropCandidate, Tally, Refresh, ListNotes, LookAtNotes, CommitSync,
         Owner, FolderComesOrGoes, Crash
<1>2. acked' \subseteq Text
  <2>1. \A t \in Thread : req[t].pc \in {"internal", "pending"} => req[t].text \in Text
    BY <1>0, RequestType DEF Remembering
  <2>2. \A t \in Thread : req[t].pc = "index" => req[t].text \in Text
    BY <1>0, RequestType DEF Writing, Writes
  <2>3. CASE \E t \in Thread : CreateInternal(t)
    BY <1>0, <2>1, <2>3 DEF CreateInternal
  <2>4. CASE \E t \in Thread : IndexNote(t)
    BY <1>0, <2>2, <2>4 DEF IndexNote, AfterWrite
  <2>5. CASE UNCHANGED acked
    BY <1>0, <2>5
  <2>. QED
    BY <2>3, <2>4, <2>5
    DEF vars, history, Next, Step, Summary, Remember, Match, WriteNote, Refuse, MarkUnavailable, Migrate,
         Collect, DropCandidate, Tally, Refresh, ListNotes, LookAtNotes, CommitSync, Owner, FolderComesOrGoes, Crash
<1>3. overwritten' \subseteq Text
  <2>1. \A old, x : overwritten \cup (({old} \cap Text) \ {x}) \subseteq Text
    BY <1>0
  <2>. QED
    BY <1>0, <2>1, ZenonT(60)
    DEF vars, store, history, Next, Step, Summary, Remember, CreateInternal, Match, WriteNote, IndexNote,
         Refuse, MarkUnavailable, Migrate, Collect, DropCandidate, Tally, Refresh, ListNotes, LookAtNotes, CommitSync,
         Owner, FolderComesOrGoes, Crash
<1>4. discarded' \subseteq Text
  BY <1>0
  DEF vars, store, history, Next, Step, Summary, Remember, CreateInternal, Match, WriteNote, IndexNote,
       Refuse, MarkUnavailable, Migrate, Collect, DropCandidate, Tally, Refresh, ListNotes, LookAtNotes, CommitSync,
       Owner, OwnerEdits, OwnerWrites, OwnerRemoves, Forget, PutSettings, Discard, FolderComesOrGoes, Crash
<1>5. calm' \subseteq Thread
  BY <1>0
  DEF vars, store, history, Next, Step, Summary, Remember, StartsCalm, CreateInternal, Match, WriteNote, IndexNote,
       Refuse, MarkUnavailable, Migrate, Collect, DropCandidate, Tally, Refresh, ListNotes, LookAtNotes, CommitSync,
       Owner, FolderComesOrGoes, Crash
<1>. QED BY <1>1, <1>2, <1>3, <1>4, <1>5

LEMMA SettingsTypeStep ==
  ASSUME TypeOK, [Next]_vars
  PROVE  /\ up' \in BOOLEAN /\ linked' \in BOOLEAN
         /\ backend' \in ExternalStatus \cup {"none", "internal_primary"}
<1>1. /\ up \in BOOLEAN /\ linked \in BOOLEAN
      /\ backend \in ExternalStatus \cup {"none", "internal_primary"}
  BY DEF TypeOK
<1>2. up' \in BOOLEAN
  BY <1>1, ZenonT(60)
  DEF vars, store, Next, Step, Summary, Remember, CreateInternal, Match, WriteNote, IndexNote,
       Refuse, MarkUnavailable, Migrate, Collect, DropCandidate, Tally, Refresh, ListNotes, LookAtNotes, CommitSync,
       Owner, FolderComesOrGoes, Crash
<1>3. linked' \in BOOLEAN
  BY <1>1, ZenonT(60)
  DEF vars, store, Next, Step, Summary, Remember, ResolveBackend, CreateInternal, Match, WriteNote, IndexNote,
       Refuse, MarkUnavailable, Migrate, Collect, DropCandidate, Tally, Refresh, ListNotes, LookAtNotes, CommitSync,
       Owner, OwnerEdits, OwnerWrites, OwnerRemoves, Forget, PutSettings, FolderComesOrGoes, Crash
<1>4. backend' \in ExternalStatus \cup {"none", "internal_primary"}
  <2>1. ResolvedStatus \in ExternalStatus \cup {"none", "internal_primary"}
    BY DEF ResolvedStatus, ExternalStatus
  <2>2. "external_unavailable" \in ExternalStatus /\ "external_primary" \in ExternalStatus
          /\ "migrating" \in ExternalStatus
    BY DEF ExternalStatus
  <2>3. \/ UNCHANGED backend \/ backend' = ResolvedStatus
        \/ backend' \in {"external_unavailable", "external_primary", "migrating"}
    BY DEF vars, Next, Step, Summary, Remember, ResolveBackend, CreateInternal,
           Match, WriteNote, IndexNote, Refuse, MarkUnavailable, Migrate, Collect, DropCandidate, Tally, Refresh,
           ListNotes, LookAtNotes, CommitSync, Owner, FolderComesOrGoes, Crash
  <2>. QED BY <1>1, <2>1, <2>2, <2>3
<1>. QED BY <1>2, <1>3, <1>4

LEMMA TypeStep == Sound /\ PathsAgree /\ [Next]_vars => TypeOK'
<1>. SUFFICES ASSUME Sound, PathsAgree, [Next]_vars PROVE TypeOK'
  OBVIOUS
<1>1. TypeOK
  BY DEF Sound
<1>2. rows' \in Seq(Row)
  BY RowsStep DEF RowsGo
<1>. QED BY <1>1, <1>2, RequestTypeStep, NotesTypeStep, BudgetTypeStep, HistoryTypeStep, SettingsTypeStep DEF TypeOK

LEMMA Invariant == Spec => [](Sound /\ PathsAgree)
<1>1. Init => Sound /\ PathsAgree
  BY InitSound
<1>2. Sound /\ PathsAgree /\ [Next]_vars => (Sound /\ PathsAgree)'
  BY TypeStep, RowsSoundStep, TodoSoundStep, AimSoundStep, LookSoundStep, PathsStep DEF Sound
<1>. QED BY <1>1, <1>2, PTL DEF Spec

\* Every variable keeps its type; a note and a row always have one that the
\* database and the folder can hold.
THEOREM TypeCorrect == Spec => []TypeOK
<1>1. Sound => TypeOK
  BY DEF Sound
<1>. QED BY <1>1, Invariant, PTL

--------------------------------------------------------------------------------
(* Notes of the owner *)

\* Only the owner changes a note the owner wrote: a memory is written to a
\* path that is new, or to the one of a note of the program.
THEOREM OwnersNotes == Spec => OwnNotesUntouched
<1>1. ASSUME Sound, PathsAgree, [Next]_vars, NEW p \in Path, notes[p] # notes'[p], There(p)
      PROVE  notes[p].by = "enishi" \/ budget'.owner # budget.owner
  <2>0. /\ notes \in [Path -> Note \cup {NoNote}]
        /\ budget \in [{"requests", "owner", "outages", "crashes"} -> Nat]
    BY <1>1 DEF Sound, TypeOK
  <2>1. CASE Owner
    <3>1. budget' = [budget EXCEPT !["owner"] = @ + 1]
      BY <2>1 DEF Owner, Spend
    <3>. QED BY <2>0, <3>1
  <2>2. CASE \E t \in Thread : WriteNote(t)
    <3>1. PICK t \in Thread : WriteNote(t)
      BY <2>2
    <3>2. req[t].path = p
      BY <1>1, <2>0, <3>1 DEF WriteNote
    <3>. QED BY <1>1, <3>1, <3>2 DEF PathsAgree, Writes, WriteNote
  <2>. QED BY <1>1, <2>1, <2>2
     DEF vars, store, Next, Step, Summary, Remember, CreateInternal, Match, IndexNote, Refuse, MarkUnavailable,
         Migrate, Collect, DropCandidate, Tally, Refresh, ListNotes, LookAtNotes, CommitSync,
         FolderComesOrGoes, Crash
<1>2. Sound /\ PathsAgree /\ [Next]_vars =>
        [\A p \in Path : notes[p] # notes'[p] /\ There(p) =>
           notes[p].by = "enishi" \/ budget'.owner # budget.owner]_vars
  BY <1>1
<1>. QED BY <1>2, Invariant, PTL DEF Spec, OwnNotesUntouched

--------------------------------------------------------------------------------
(* No memory is lost *)

\* What is in a note, or was taken out of one, stays so.
LEMMA KeptStep ==
  ASSUME Sound, PathsAgree, [Next]_vars, NEW x \in Text, Kept(x)
  PROVE  Kept(x)'
<1>0. notes \in [Path -> Note \cup {NoNote}]
  BY DEF Sound, TypeOK
<1>1. overwritten \subseteq overwritten' /\ discarded \subseteq discarded'
  BY ZenonT(60) DEF vars, history, Next, Step, Summary, Remember, CreateInternal, Match, WriteNote, IndexNote,
       Refuse, MarkUnavailable, Migrate, Collect, DropCandidate, Tally, Refresh, ListNotes, LookAtNotes, CommitSync,
       Owner, OwnerEdits, OwnerWrites, OwnerRemoves, Forget, PutSettings, Discard, FolderComesOrGoes, Crash
<1>2. ASSUME NEW p \in Path, There(p), notes[p].text = x, notes'[p] # notes[p]
      PROVE  Kept(x)'
  <2>1. CASE \E t \in Thread : WriteNote(t)
    <3>1. PICK t \in Thread : WriteNote(t)
      BY <2>1
    <3>2. PICK r : r = [by |-> IF There(req[t].path) THEN notes[req[t].path].by ELSE "enishi",
                        title |-> req[t].title, text |-> req[t].text]
      OBVIOUS
    <3>3. notes' = [notes EXCEPT ![req[t].path] = r]
      BY <3>1, <3>2 DEF WriteNote
    <3>4. req[t].path = p /\ notes'[p] = r
      BY <1>0, <1>2, <3>3
    <3>5. notes[p].title = req[t].title
      BY <1>2, <3>1, <3>4 DEF PathsAgree, Writes, WriteNote
    <3>6. overwritten' = overwritten \cup (({x} \cap Text) \ {req[t].text})
      BY <1>2, <3>1, <3>4, <3>5 DEF WriteNote
    <3>7. CASE x = req[t].text
      <4>1. notes'[p] # NoNote /\ notes'[p].text = x
        BY <3>2, <3>4, <3>7 DEF NoNote
      <4>. QED BY <4>1 DEF Kept, InNote, There
    <3>8. CASE x # req[t].text
      BY <3>6, <3>8 DEF Kept
    <3>. QED BY <3>7, <3>8
  <2>2. CASE \E q \in Path : OwnerEdits(q) \/ OwnerRemoves(q)
    <3>1. PICK q \in Path : OwnerEdits(q) \/ OwnerRemoves(q)
      BY <2>2
    <3>2. q = p
      BY <1>0, <1>2, <3>1 DEF OwnerEdits, OwnerRemoves
    <3>3. x \in discarded'
      BY <1>2, <3>1, <3>2 DEF OwnerEdits, OwnerRemoves, Discard
    <3>. QED BY <3>3 DEF Kept
  <2>3. CASE \E q \in Path, title \in Title : OwnerWrites(q, title)
    <3>1. PICK q \in Path, title \in Title : OwnerWrites(q, title)
      BY <2>3
    <3>2. q = p
      BY <1>0, <1>2, <3>1 DEF OwnerWrites
    <3>. QED BY <1>2, <3>1, <3>2 DEF OwnerWrites, Fresh, Taken
  <2>. QED
    BY <1>2, <2>1, <2>2, <2>3
    DEF vars, store, Next, Step, Summary, Remember, CreateInternal, Match, IndexNote, Refuse, MarkUnavailable,
         Migrate, Collect, DropCandidate, Tally, Refresh, ListNotes, LookAtNotes, CommitSync, Owner, Forget,
         PutSettings, FolderComesOrGoes, Crash
<1>3. CASE InNote(x)
  <2>1. PICK p \in Path : There(p) /\ notes[p].text = x
    BY <1>3 DEF InNote
  <2>2. CASE notes'[p] = notes[p]
    BY <2>1, <2>2 DEF Kept, InNote, There
  <2>. QED BY <1>2, <2>1, <2>2
<1>. QED BY <1>1, <1>3 DEF Kept

\* The row of a memory goes only when the memory is kept elsewhere.
LEMMA InRowStep ==
  ASSUME Sound, PathsAgree, NothingLost, [Next]_vars, NEW x \in Text, InRow(x)
  PROVE  InRow(x)' \/ Kept(x)'
<1>1. PICK i \in DOMAIN rows : rows[i].active /\ rows[i].source \in InternalSources /\ rows[i].text = x
  BY DEF InRow
<1>2. OldRow(i)
  BY RowsStep DEF RowsGo
<1>3. i \in DOMAIN rows' /\ rows'[i].source \in InternalSources /\ rows'[i].text = x
  BY <1>1, <1>2, Sources DEF OldRow
<1>4. CASE rows'[i].active
  BY <1>3, <1>4 DEF InRow
<1>5. CASE Forget(i)
  BY <1>1, <1>5 DEF Forget, Discard, Kept
<1>6. CASE \E t \in Thread : DropCandidate(t) /\ i = Next1(req[t].todo)
  <2>1. Kept(x)
    BY <1>1, <1>6 DEF NothingLost, DropCandidate
  <2>. QED BY <2>1, KeptStep
<1>. QED BY <1>1, <1>2, <1>4, <1>5, <1>6, Sources DEF OldRow, Removed

LEMMA NothingLostStep == Sound /\ PathsAgree /\ NothingLost /\ [Next]_vars => NothingLost'
<1>. SUFFICES ASSUME Sound, PathsAgree, NothingLost, [Next]_vars PROVE NothingLost'
  OBVIOUS
<1>0. TypeOK /\ TypeOK'
  BY TypeStep DEF Sound
<1>1. ASSUME NEW x \in acked' PROVE Kept(x)' \/ InRow(x)'
  <2>1. x \in Text
    BY <1>0 DEF TypeOK
  <2>2. CASE x \in acked
    BY <2>1, <2>2, KeptStep, InRowStep DEF NothingLost
  <2>3. CASE \E t \in Thread : CreateInternal(t) /\ x = req[t].text
    <3>1. PICK t \in Thread : CreateInternal(t) /\ x = req[t].text
      BY <2>3
    <3>2. PICK source \in InternalSources : rows' = Append(rows, InternalRow(source, x))
      BY <3>1 DEF CreateInternal, InternalSources
    <3>3. PICK r : r = InternalRow(source, x)
      OBVIOUS
    <3>4. r \in Row /\ r.source \in InternalSources /\ r.text = x /\ r.active
      BY <2>1, <3>3, InternalRowType
    <3>5. /\ rows \in Seq(Row) /\ rows' = Append(rows, r) /\ Len(rows) \in Nat
      BY <1>0, <3>2, <3>3, RowsType
    <3>6. rows' \in Seq(Row) /\ Len(rows') = Len(rows) + 1 /\ rows'[Len(rows) + 1] = r
      BY <3>4, <3>5, AppendProperties
    <3>7. Len(rows) + 1 \in DOMAIN rows'
      BY <3>5, <3>6, LenProperties
    <3>. QED BY <3>4, <3>6, <3>7 DEF InRow
  <2>4. CASE \E t \in Thread : req[t].pc = "index" /\ x = req[t].text
    <3>1. Kept(x)
      BY <2>4 DEF NothingLost
    <3>. QED BY <2>1, <3>1, KeptStep
  <2>. QED
    BY ZenonT(60), <2>2, <2>3, <2>4
    DEF vars, history, Next, Step, Summary, Remember, CreateInternal, Match, WriteNote, IndexNote, AfterWrite, Refuse,
         MarkUnavailable, Migrate, Collect, DropCandidate, Tally, Refresh, ListNotes, LookAtNotes, CommitSync, Owner,
         FolderComesOrGoes, Crash
<1>2. ASSUME NEW t \in Thread, req'[t].pc = "index", NEW x, x = req'[t].text PROVE Kept(x)'
  <2>3. CASE req'[t] = req[t]
    <3>1. x \in Text
      BY <1>0, <1>2, <2>3, RequestType DEF Writes, Writing
    <3>2. Kept(x)
      BY <1>2, <2>3 DEF NothingLost
    <3>. QED BY <3>1, <3>2, KeptStep
  <2>4. CASE WriteNote(t) /\ Indexes(t)
    <3>1. PICK r : r = [by |-> IF There(req[t].path) THEN notes[req[t].path].by ELSE "enishi",
                        title |-> req[t].title, text |-> req[t].text]
      OBVIOUS
    <3>2. req[t].path \in Path /\ notes' = [notes EXCEPT ![req[t].path] = r] /\ r.text = x
      BY <1>2, <2>4, <3>1 DEF WriteNote, Indexes, Writing
    <3>3. notes'[req[t].path] = r /\ r # NoNote
      BY <1>0, <3>1, <3>2 DEF TypeOK, NoNote
    <3>. QED BY <3>2, <3>3 DEF Kept, InNote, There
  <2>. QED BY <1>2, <2>3, <2>4, RequestStep DEF Goes, Aims
<1>3. ASSUME NEW t \in Thread, req'[t].pc = "drop", NEW y, y = rows'[Next1(req'[t].todo)].text PROVE Kept(y)'
  <2>1. PICK i : i = Next1(req'[t].todo)
    OBVIOUS
  <2>2. CASE req'[t] = req[t]
    <3>1. i \in req[t].todo
      BY <1>0, <1>3, <2>1, <2>2, RequestType, FirstOne DEF Sound, TodoSound
    <3>2. i \in DOMAIN rows /\ rows[i].source # "external"
      BY <1>3, <2>2, <3>1 DEF Sound, TodoSound
    <3>3. PICK x : x = rows[i].text
      OBVIOUS
    <3>4. x \in Text /\ rows'[i].text = x
      BY <3>2, <3>3, RowsStep DEF Sound, RowsSound, RowsGo, OldRow
    <3>5. Kept(x)
      BY <1>3, <2>1, <2>2, <3>3 DEF NothingLost
    <3>6. Kept(x)'
      BY <3>4, <3>5, KeptStep
    <3>. QED BY <1>3, <2>1, <3>4, <3>6
  <2>3. CASE IndexNote(t) /\ req[t].todo # {} /\ req'[t].todo = req[t].todo
    <3>0. req[t].pc = "index" /\ req[t] \in Writing
      BY <1>0, <2>3, RequestType DEF IndexNote, Writes
    <3>1. i \in req[t].todo
      BY <2>1, <2>3, <3>0, FirstOne DEF Writing
    <3>2. i \in DOMAIN rows /\ rows[i].source # "external"
      BY <3>0, <3>1 DEF Sound, TodoSound
    <3>3. PICK x : x = rows[i].text
      OBVIOUS
    <3>4. x \in Text /\ rows'[i].text = x
      BY <3>2, <3>3, RowsStep DEF Sound, RowsSound, RowsGo, OldRow
    <3>5. x = req[t].text
      BY <2>1, <2>3, <3>0, <3>3 DEF Sound, TodoSound, Writes
    <3>6. Kept(x)
      BY <3>0, <3>5 DEF NothingLost
    <3>7. Kept(x)'
      BY <3>4, <3>6, KeptStep
    <3>. QED BY <1>3, <2>1, <3>4, <3>7
  <2>. QED BY <1>3, <2>2, <2>3, RequestStep DEF Goes, Aims, Indexes
<1>4. \A x \in acked' : Kept(x)' \/ InRow(x)'
  BY <1>1
<1>. QED BY <1>2, <1>3, <1>4 DEF NothingLost, Kept, InNote, InRow, There

\* A memory whose remember was answered is in a note or in an active row of
\* the node, unless the owner removed it or a memory of the same title took
\* its place: whatever fails, crashes or runs at the same time.
THEOREM NothingIsForgotten == Spec => []NothingForgotten
<1>1. Init => Sound /\ PathsAgree /\ NothingLost
  BY InitSound
<1>2. Sound /\ PathsAgree /\ NothingLost /\ [Next]_vars => NothingLost'
  BY NothingLostStep
<1>3. NothingLost => NothingForgotten
  BY DEF NothingLost, NothingForgotten, Kept
<1>. QED BY <1>1, <1>2, <1>3, Invariant, PTL DEF Spec

--------------------------------------------------------------------------------
(* A synchronisation that has the system to itself *)

\* What such a request has found is what is there.
CalmInv ==
  \A t \in calm :
    /\ Alone(t)
    /\ req[t].pc = "look" => up /\ req[t].listed = {p \in Path : There(p)}
    /\ req[t].pc = "sync" => req[t].looked = Seen({p \in Path : There(p)})

\* A request begins alone, and is the only one to act while it stays calm.
LEMMA CalmStep == Sound /\ CalmInv /\ [Next]_vars => CalmInv'
<1>. SUFFICES ASSUME Sound, CalmInv, [Next]_vars, NEW t \in calm'
              PROVE  /\ \A v \in Thread \ {t} : req'[v] = Idle
                     /\ req'[t].pc = "look" => up' /\ req'[t].listed = {p \in Path : notes'[p] # NoNote}
                     /\ req'[t].pc = "sync" => req'[t].looked = Seen({p \in Path : There(p)})'
  BY DEF CalmInv, Alone, There
<1>0. /\ req \in [Thread -> Request] /\ calm \subseteq Thread /\ TypeOK
  BY DEF Sound, TypeOK
<1>1. ASSUME t \in calm, UNCHANGED req[t], UNCHANGED <<up, notes, rows>>
      PROVE  /\ req'[t].pc = "look" => up' /\ req'[t].listed = {p \in Path : notes'[p] # NoNote}
             /\ req'[t].pc = "sync" => req'[t].looked = Seen({p \in Path : There(p)})'
  BY <1>1 DEF CalmInv, There, Seen, Look, RowOf
<1>2. CASE UNCHANGED vars \/ Summary
  <2>1. UNCHANGED <<up, notes, rows, req, calm>>
    BY <1>2 DEF vars, store, history, Summary
  <2>2. t \in calm /\ \A v \in Thread \ {t} : req[v] = Idle
    BY <2>1 DEF CalmInv, Alone
  <2>. QED BY <1>1, <2>1, <2>2
<1>3. CASE Owner \/ FolderComesOrGoes \/ Crash
  BY <1>3 DEF Owner, FolderComesOrGoes, Crash
<1>4. ASSUME NEW u \in Thread, StartsCalm(u), NEW r, r.pc \notin {"look", "sync"},
             UNCHANGED req \/ Goto(u, r), req[u] = Idle
      PROVE  /\ \A v \in Thread \ {t} : req'[v] = Idle
             /\ req'[t].pc \notin {"look", "sync"}
  <2>1. t = u /\ \A v \in Thread \ {u} : req[v] = Idle
    BY <1>4 DEF StartsCalm, Alone
  <2>2. \A v \in Thread : req'[v] = req[v] \/ (v = u /\ req'[v] = r)
    BY <1>0, <1>4 DEF Goto
  <2>. QED BY <1>4, <2>1, <2>2, IdleType
<1>5. CASE \E u \in Thread, x \in Text : Remember(u, x)
  <2>1. PICK u \in Thread, x \in Text : Remember(u, x)
    BY <1>5
  <2>2. PICK r : r = [pc |-> Route(x), text |-> x]
    OBVIOUS
  <2>3. r.pc \notin {"look", "sync"}
    BY <2>2 DEF Route
  <2>. QED BY <1>4, <2>1, <2>2, <2>3 DEF Remember
<1>6. CASE \E u \in Thread : Migrate(u) \/ Refresh(u)
  <2>1. PICK u \in Thread : Migrate(u) \/ Refresh(u)
    BY <1>6
  <2>2. PICK r : r.pc \notin {"look", "sync"} /\ (UNCHANGED req \/ Goto(u, r))
    <3>1. [pc |-> "collect"].pc = "collect" /\ [pc |-> "list"].pc = "list"
      OBVIOUS
    <3>. QED BY <2>1, <3>1 DEF Migrate, Refresh
  <2>3. StartsCalm(u) /\ req[u] = Idle
    BY <2>1 DEF Migrate, Refresh
  <2>. QED BY <1>4, <2>2, <2>3
\* What goes on with a request.
<1>7. ASSUME NEW u \in Thread, req[u].pc # "idle", calm' \subseteq calm,
             \A v \in Thread : v # u => req'[v] = req[v]
      PROVE  t = u /\ t \in calm /\ \A v \in Thread \ {t} : req'[v] = Idle
  <2>1. t \in calm /\ \A v \in Thread \ {t} : req[v] = Idle
    BY <1>7 DEF CalmInv, Alone
  <2>2. t = u
    BY <1>7, <2>1, IdleType
  <2>. QED BY <1>7, <2>1, <2>2
<1>8. CASE \E u \in Thread : ListNotes(u)
  <2>1. PICK u \in Thread : ListNotes(u)
    BY <1>8
  <2>2. PICK r : /\ r = IF up THEN [pc |-> "look", listed |-> {p \in Path : There(p)}] ELSE Idle
                 /\ req' = [req EXCEPT ![u] = r]
    BY <2>1 DEF ListNotes, Goto
  <2>3. req'[u] = r /\ \A v \in Thread : v # u => req'[v] = req[v]
    BY <1>0, <2>2
  <2>4. t = u /\ \A v \in Thread \ {t} : req'[v] = Idle
    BY <1>7, <2>1, <2>3 DEF ListNotes
  <2>5. UNCHANGED <<up, notes>>
    BY <2>1 DEF ListNotes, store
  <2>6. CASE up
    BY <2>2, <2>3, <2>4, <2>5, <2>6 DEF There
  <2>7. CASE ~up
    BY <2>2, <2>3, <2>4, <2>7, IdleType
  <2>. QED BY <2>6, <2>7
<1>9. CASE \E u \in Thread : LookAtNotes(u)
  <2>1. PICK u \in Thread : LookAtNotes(u)
    BY <1>9
  <2>2. PICK S : /\ S = {p \in req[u].listed : up /\ There(p)}
                 /\ req' = [req EXCEPT ![u] = [pc |-> "sync", looked |-> Seen(S)]]
    BY <2>1 DEF LookAtNotes, Goto, Seen
  <2>3. /\ req'[u] = [pc |-> "sync", looked |-> Seen(S)]
        /\ \A v \in Thread : v # u => req'[v] = req[v]
    BY <1>0, <2>2
  <2>4. t = u /\ t \in calm /\ \A v \in Thread \ {t} : req'[v] = Idle
    BY <1>7, <2>1, <2>3 DEF LookAtNotes
  <2>5. S = {p \in Path : There(p)}
    BY <2>1, <2>2, <2>4 DEF LookAtNotes, CalmInv
  <2>6. UNCHANGED <<notes, rows>>
    BY <2>1 DEF LookAtNotes, store
  <2>7. Seen({p \in Path : There(p)})' = Seen(S)
    BY <2>5, <2>6 DEF Seen, Look, RowOf, There
  <2>. QED BY <2>3, <2>4, <2>7
<1>10. ASSUME NEW u \in Thread, req[u].pc # "idle", calm' \subseteq calm, NEW r, Goto(u, r),
              r.pc \notin {"look", "sync"}
       PROVE  /\ \A v \in Thread \ {t} : req'[v] = Idle
              /\ req'[t].pc \notin {"look", "sync"}
  <2>1. req'[u] = r /\ \A v \in Thread : v # u => req'[v] = req[v]
    BY <1>0, <1>10 DEF Goto
  <2>. QED BY <1>7, <1>10, <2>1
<1>11. CASE \E u \in Thread : Match(u)
  <2>1. PICK u \in Thread : Match(u)
    BY <1>11
  <2>2. Aims(u) /\ \A v \in Thread : v # u => req'[v] = req[v]
    BY <2>1, AimStep
  <2>3. req[u].pc # "idle" /\ calm' \subseteq calm
    BY <2>1 DEF Match
  <2>4. t = u /\ \A v \in Thread \ {t} : req'[v] = Idle
    BY <1>7, <2>2, <2>3
  <2>. QED BY <2>2, <2>4 DEF Aims
<1>12. CASE \E u \in Thread : WriteNote(u)
  <2>1. PICK u \in Thread : WriteNote(u)
    BY <1>12
  <2>2. PICK r : r = [req[u] EXCEPT !.pc = "index"]
    OBVIOUS
  <2>3. r.pc = "index"
    BY <1>0, <2>1, <2>2, RequestType DEF WriteNote, Writes, Writing
  <2>. QED BY <1>10, <2>1, <2>2, <2>3 DEF WriteNote
<1>13. CASE \E u \in Thread : \/ CreateInternal(u) \/ IndexNote(u) \/ Refuse(u) \/ MarkUnavailable(u)
                              \/ Collect(u) \/ DropCandidate(u) \/ Tally(u) \/ CommitSync(u)
  <2>1. PICK u \in Thread : \/ CreateInternal(u) \/ IndexNote(u) \/ Refuse(u) \/ MarkUnavailable(u)
                             \/ Collect(u) \/ DropCandidate(u) \/ Tally(u) \/ CommitSync(u)
    BY <1>13
  <2>2. req[u].pc # "idle" /\ calm' \subseteq calm
    BY <2>1 DEF CreateInternal, IndexNote, Refuse, MarkUnavailable, Collect, DropCandidate, Tally, CommitSync
  <2>3. PICK r : Goto(u, r) /\ r.pc \notin {"look", "sync"}
    <3>1. \A x, T : /\ [pc |-> "refused", text |-> x].pc = "refused"
                    /\ [pc |-> "pending", text |-> x].pc = "pending"
                    /\ [pc |-> "next", todo |-> T].pc = "next"
                    /\ [pc |-> "drop", todo |-> T].pc = "drop"
      OBVIOUS
    <3>. QED BY <2>1, <3>1, IdleType, Zenon
         DEF CreateInternal, IndexNote, AfterWrite, Refuse, MarkUnavailable, Collect, DropCandidate, Tally, CommitSync
  <2>. QED BY <1>10, <2>2, <2>3
<1>. QED BY <1>2, <1>3, <1>5, <1>6, <1>8, <1>9, <1>11, <1>12, <1>13 DEF Next, Step

\* An increasing list as long as a set of numbers has all of them.
LEMMA IncreasingHasAll ==
  ASSUME NEW S \in SUBSET Nat, IsFiniteSet(S), NEW n \in Nat, n = Cardinality(S), NEW f \in [1..n -> S],
         \A j \in 1..n : \A k \in 1..(j - 1) : f[k] < f[j]
  PROVE  \A x \in S : \E k \in 1..n : f[k] = x
<1>1. \A j, k \in 1..n : f[j] = f[k] => j = k
  <2>. SUFFICES ASSUME NEW j \in 1..n, NEW k \in 1..n, j # k PROVE f[j] # f[k]
    OBVIOUS
  <2>1. f[j] \in Nat /\ f[k] \in Nat
    OBVIOUS
  <2>2. CASE j < k
    <3>1. j \in 1..(k - 1)
      BY <2>2
    <3>. QED BY <2>1, <3>1
  <2>3. CASE k < j
    <3>1. k \in 1..(j - 1)
      BY <2>3
    <3>. QED BY <2>1, <3>1
  <2>. QED BY <2>2, <2>3
<1>2. f \in Injection(1..n, S)
  BY <1>1 DEF Injection, IsInjective
<1>3. Cardinality(1..n) = n
  BY FS_Interval
<1>4. f \in Surjection(1..n, S)
  BY <1>2, <1>3, FS_Injection
<1>. QED BY <1>4 DEF Surjection

\* A note that is there was found, and with the first of its rows.
LEMMA CalmLook ==
  ASSUME Sound, PathsAgree, CalmInv, NEW t \in calm, req[t].pc = "sync", NEW p \in Path
  PROVE  /\ p \in Read(req[t].looked) <=> There(p)
         /\ There(p) => /\ req[t].looked[p] = Look(p)
                        /\ Look(p).note = notes[p]
                        /\ Look(p).row # 0 => /\ Look(p).row \in DOMAIN rows
                                              /\ rows[Look(p).row].path = p
                                              /\ Look(p).active = rows[Look(p).row].active
                                              /\ Look(p).text = rows[Look(p).row].text
<1>1. req[t].looked[p] = IF There(p) THEN Look(p) ELSE NoNote
  BY DEF CalmInv, Seen
<1>2. CASE ~There(p)
  BY <1>1, <1>2 DEF Read
<1>3. CASE There(p)
  <2>1. TypeOK /\ RowsSound
    BY DEF Sound
  <2>2. PICK seen : seen = Look(p)
    OBVIOUS
  <2>3. seen \in Looked /\ (seen.row # 0 => seen.row \in DOMAIN rows /\ rows[seen.row].path = p)
    BY <1>3, <2>1, <2>2, LookType
  <2>4. seen # NoNote
    <3>1. "note" \in DOMAIN seen
      BY <2>3 DEF Looked
    <3>2. "note" \notin DOMAIN NoNote
      BY DEF NoNote
    <3>. QED BY <3>1, <3>2
  <2>5. PICK i : i = RowOf(p)
    OBVIOUS
  <2>6. seen = [note |-> notes[p], row |-> i, text |-> IF i = 0 THEN "own" ELSE rows[i].text,
                active |-> i # 0 /\ rows[i].active, managed |-> i # 0 /\ rows[i].managed]
    BY <2>2, <2>5 DEF Look
  <2>7. i # 0 => i \in DOMAIN rows /\ rows[i] \in Row
    BY <2>1, <2>3, <2>6, RowsType
  <2>8. i # 0 => rows[i].active \in BOOLEAN
    BY <2>7 DEF Row
  <2>9. seen.note = notes[p] /\ seen.row = i /\ (i # 0 => seen.active = rows[i].active /\ seen.text = rows[i].text)
    BY <2>6, <2>8
  <2>. QED BY <1>1, <1>3, <2>2, <2>3, <2>4, <2>9 DEF Read
<1>. QED BY <1>2, <1>3

\* What a calm synchronisation leaves.
LEMMA CalmSync ==
  ASSUME Sound, PathsAgree, CalmInv, NEW t \in calm, t \in Thread, CommitSync(t)
  PROVE  /\ \A p \in Path : There(p) => Indexed(p)'
         /\ \A i \in DOMAIN rows' : rows'[i].active /\ rows'[i].source = "external" => There(rows'[i].path)
<1>. DEFINE looked == req[t].looked
            n == Cardinality(New(looked))
<1>0. /\ Len(rows) \in Nat /\ DOMAIN rows = 1..Len(rows)
      /\ \A i \in DOMAIN rows : rows[i] \in Row
      /\ TypeOK /\ RowsSound /\ LookSound /\ req[t].pc = "sync" /\ UNCHANGED notes
  BY RowsType DEF Sound, CommitSync
<1>1. n \in Nat /\ New(looked) \in SUBSET Nat /\ New(looked) \subseteq Path /\ IsFiniteSet(New(looked))
  BY SyncShape, PathType
<1>2. PICK order \in [1..n -> New(looked)] :
        /\ \A j \in 1..n : \A k \in 1..(j - 1) : order[k] < order[j]
        /\ rows' \in Seq(Row) /\ DOMAIN rows' = 1..Len(rows) + n
        /\ \A i \in DOMAIN rows : rows'[i] = Synced(rows[i], i, looked)
        /\ \A k \in 1..n : /\ rows'[Len(rows) + k] = ImportedRow(order[k], looked[order[k]].note)
                           /\ looked[order[k]].note \in Note
  BY SyncShape
<1>3. \A x \in New(looked) : \E k \in 1..n : order[k] = x
  BY <1>1, <1>2, IncreasingHasAll
<1>4. \A p \in Path : /\ p \in Read(looked) <=> There(p)
                      /\ There(p) => /\ looked[p] = Look(p)
                                     /\ Look(p).note = notes[p]
                                     /\ Look(p).row # 0 => /\ Look(p).row \in DOMAIN rows
                                                           /\ rows[Look(p).row].path = p
                                                           /\ Look(p).active = rows[Look(p).row].active
                                                           /\ Look(p).text = rows[Look(p).row].text
  BY <1>0, CalmLook
<1>. HIDE DEF looked, n
<1>5. ASSUME NEW p \in Path, There(p) PROVE Indexed(p)'
  <2>. SUFFICES \E i \in DOMAIN rows' : rows'[i].active /\ rows'[i].path = p /\ rows'[i].text = notes'[p].text
    BY DEF Indexed
  <2>1. PICK seen : seen = looked[p]
    OBVIOUS
  <2>2. /\ p \in Read(looked) /\ seen.note = notes[p]
        /\ seen.row # 0 => /\ seen.row \in DOMAIN rows /\ rows[seen.row].path = p
                           /\ seen.active = rows[seen.row].active /\ seen.text = rows[seen.row].text
    BY <1>4, <1>5, <2>1
  <2>3. CASE seen.row = 0
    <3>1. p \in New(looked)
      BY <2>1, <2>2, <2>3 DEF New
    <3>2. PICK k \in 1..n : order[k] = p
      BY <1>3, <3>1
    <3>3. PICK i : i = Len(rows) + k
      OBVIOUS
    <3>4. i \in DOMAIN rows'
      BY <1>0, <1>1, <1>2, <3>3
    <3>5. rows'[i] = ImportedRow(p, notes[p])
      BY <1>2, <2>1, <2>2, <3>2, <3>3
    <3>6. rows'[i].active /\ rows'[i].path = p /\ rows'[i].text = notes[p].text
      BY <3>5 DEF ImportedRow
    <3>. QED BY <1>0, <3>4, <3>6
  <2>4. CASE seen.row # 0
    <3>1. PICK i : i = seen.row
      OBVIOUS
    <3>2. /\ i \in DOMAIN rows /\ i \in DOMAIN rows' /\ rows[i] \in Row /\ rows[i].path = p
          /\ seen.active = rows[i].active /\ seen.text = rows[i].text
      BY <1>0, <1>1, <1>2, <2>2, <2>4, <3>1
    <3>3. {q \in Read(looked) : looked[q].row = i} = {p}
      <4>1. ASSUME NEW q \in Read(looked), looked[q].row = i PROVE q = p
        <5>1. q \in Path
          BY DEF Read
        <5>2. looked[q] = Look(q) /\ Look(q).row # 0 /\ rows[Look(q).row].path = q
          BY <1>4, <2>4, <3>1, <4>1, <5>1
        <5>. QED BY <3>2, <4>1, <5>2
      <4>. QED BY <2>1, <2>2, <3>1, <4>1
    <3>4. PICK r : r = Rewritten(rows[i], seen)
      OBVIOUS
    <3>5. rows'[i] = IF r.source = "external" /\ r.path \notin Read(looked) THEN [r EXCEPT !.active = FALSE] ELSE r
      <4>1. /\ {q \in Read(looked) : looked[q].row = i} # {}
            /\ p = CHOOSE q \in {q \in Read(looked) : looked[q].row = i} : TRUE
        BY <3>3
      <4>2. rows'[i] = Synced(rows[i], i, looked)
        BY <1>2, <3>2
      <4>. QED BY <2>1, <3>4, <4>1, <4>2, Zenon DEF Synced
    <3>6. r.path = p /\ r.active /\ r.text = notes[p].text
      <4>1. CASE seen.text = seen.note.text /\ seen.active
        BY <2>2, <3>2, <3>4, <4>1 DEF Rewritten
      <4>2. CASE ~(seen.text = seen.note.text /\ seen.active)
        <5>1. PICK a \in BOOLEAN : a = (rows[i].active \/ ~seen.active)
          OBVIOUS
        <5>2. r = [rows[i] EXCEPT !.title = seen.note.title, !.text = seen.note.text,
                                  !.managed = seen.managed, !.active = a]
          BY <3>4, <4>2, <5>1 DEF Rewritten
        <5>3. r.path = rows[i].path /\ r.active = a /\ r.text = seen.note.text
          BY <3>2, <5>2 DEF Row
        <5>4. a
          BY <3>2, <5>1
        <5>. QED BY <2>2, <3>2, <5>3, <5>4
      <4>. QED BY <4>1, <4>2
    <3>7. rows'[i] = r
      BY <2>2, <3>5, <3>6
    <3>. QED BY <1>0, <3>2, <3>6, <3>7
  <2>. QED BY <2>3, <2>4
<1>6. ASSUME NEW i \in DOMAIN rows', rows'[i].active, rows'[i].source = "external" PROVE There(rows'[i].path)
  <2>1. CASE i \in DOMAIN rows
    <3>1. PICK kept : /\ kept = LET mine == {p \in Read(looked) : looked[p].row = i}
                                IN  IF mine = {} THEN rows[i]
                                    ELSE Rewritten(rows[i], looked[CHOOSE p \in mine : TRUE])
                      /\ rows'[i] = IF kept.source = "external" /\ kept.path \notin Read(looked)
                                    THEN [kept EXCEPT !.active = FALSE] ELSE kept
      BY <1>2, <2>1 DEF Synced
    <3>2. PICK r : r = Synced(rows[i], i, req[t].looked)
      OBVIOUS
    <3>3. r \in Row /\ r.source = rows[i].source /\ r.path = rows[i].path
      BY <1>0, <2>1, <3>2, SyncedRow
    <3>4. rows'[i] = r
      BY <1>2, <2>1, <3>2 DEF looked
    <3>5. ~(kept.source = "external" /\ kept.path \notin Read(looked))
      BY <1>6, <3>1, <3>3, <3>4 DEF Row
    <3>6. rows'[i].path \in Read(looked)
      BY <1>6, <3>1, <3>5
    <3>. QED BY <1>4, <3>6 DEF Read
  <2>2. CASE i \notin DOMAIN rows
    <3>1. PICK k \in 1..n : i = Len(rows) + k
      <4>1. i \in Nat /\ i > Len(rows) /\ i <= Len(rows) + n
        BY <1>0, <1>1, <1>2, <2>2
      <4>2. i - Len(rows) \in 1..n /\ i = Len(rows) + (i - Len(rows))
        BY <1>0, <1>1, <4>1
      <4>. QED BY <4>2
    <3>2. PICK p \in New(looked) : p = order[k]
      BY <1>2
    <3>3. rows'[i] = ImportedRow(p, looked[p].note) /\ p \in Read(looked) /\ p \in Path
      BY <1>1, <1>2, <3>1, <3>2 DEF New
    <3>4. rows'[i].path = p
      BY <3>3 DEF ImportedRow
    <3>. QED BY <1>4, <3>3, <3>4
  <2>. QED BY <2>1, <2>2
<1>. QED BY <1>5, <1>6

\* After a synchronisation that nothing disturbed every note has an active row
\* with its text, and no active row stands for a note that is gone: for any
\* notes and any rows, deleted, doubled or outdated, that were there before.
THEOREM IndexTheorem == Spec => IndexIsComplete
<1>1. Init => CalmInv
  BY DEF Init, CalmInv
<1>2. Sound /\ CalmInv /\ [Next]_vars => CalmInv'
  BY CalmStep
<1>3. ASSUME Sound, PathsAgree, CalmInv, [Next]_vars, NEW t \in Thread, SyncEnds(t) PROVE CommitSync(t)
  <2>0. /\ req \in [Thread -> Request] /\ Sound
        /\ t \in calm /\ t \in calm' /\ req[t].pc = "sync" /\ req'[t] = Idle /\ req'[t] # req[t]
    BY <1>3, IdleType DEF Sound, TypeOK, SyncEnds
  <2>1. ASSUME NEW u \in Thread, NEW r, Goto(u, r) PROVE u = t
    <3>1. u # t => req'[t] = req[t]
      BY <2>0, <2>1 DEF Goto
    <3>. QED BY <2>0, <3>1
  <2>2. ~\E u \in Thread : Migrate(u) \/ Refresh(u) \/ \E x \in Text : Remember(u, x)
    <3>. SUFFICES ASSUME NEW u \in Thread, Migrate(u) \/ Refresh(u) \/ \E x \in Text : Remember(u, x)
                  PROVE  FALSE
      OBVIOUS
    <3>1. req[u] = Idle /\ (UNCHANGED req \/ \E r : Goto(u, r))
      BY DEF Migrate, Refresh, Remember
    <3>. QED BY <2>0, <2>1, <3>1
  <2>3. ~\E u \in Thread : \/ CreateInternal(u) \/ Match(u) \/ WriteNote(u) \/ IndexNote(u) \/ Refuse(u)
                           \/ MarkUnavailable(u) \/ Collect(u) \/ DropCandidate(u) \/ Tally(u)
                           \/ ListNotes(u) \/ LookAtNotes(u)
    <3>. SUFFICES ASSUME NEW u \in Thread,
                         \/ CreateInternal(u) \/ Match(u) \/ WriteNote(u) \/ IndexNote(u) \/ Refuse(u)
                         \/ MarkUnavailable(u) \/ Collect(u) \/ DropCandidate(u) \/ Tally(u)
                         \/ ListNotes(u) \/ LookAtNotes(u)
                  PROVE  FALSE
      OBVIOUS
    <3>1. \E r : Goto(u, r)
      BY DEF CreateInternal, Match, Aim, WriteNote, IndexNote, AfterWrite, Refuse, MarkUnavailable, Collect,
             DropCandidate, Tally, ListNotes, LookAtNotes
    <3>2. req[u].pc # "sync"
      BY DEF CreateInternal, Match, WriteNote, IndexNote, Refuse, MarkUnavailable, Collect, DropCandidate, Tally,
             ListNotes, LookAtNotes
    <3>. QED BY <2>0, <2>1, <3>1, <3>2
  <2>4. ASSUME NEW u \in Thread, CommitSync(u) PROVE CommitSync(t)
    <3>1. Goto(u, Idle)
      BY <2>4 DEF CommitSync
    <3>. QED BY <2>1, <2>4, <3>1
  <2>. QED
    BY <1>3, <2>0, <2>2, <2>3, <2>4
    DEF vars, Next, Step, Summary, Owner, FolderComesOrGoes, Crash
<1>4. Sound /\ PathsAgree /\ CalmInv /\ [Next]_vars =>
        [\A t \in Thread : SyncEnds(t) =>
           /\ \A p \in Path : There(p) => Indexed(p)'
           /\ \A i \in DOMAIN rows' : rows'[i].active /\ rows'[i].source = "external" => There(rows'[i].path)]_vars
  BY <1>3, CalmSync DEF SyncEnds
<1>. QED BY <1>1, <1>2, <1>4, Invariant, PTL DEF Spec, IndexIsComplete

================================================================================
