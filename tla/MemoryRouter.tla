------------------------------ MODULE MemoryRouter -----------------------------
(***************************************************************************)
(* Where an owner's memories are kept (services/memory_router.py,          *)
(* external_memory.py, memory_source_settings.py): in the database of the  *)
(* node, or in a folder of Markdown notes that becomes the source of truth *)
(* once it is found, with the database holding an index of the notes.      *)
(*                                                                         *)
(* The folder belongs to the owner as well: notes are written, edited and  *)
(* removed behind the back of the program, and the folder itself comes and *)
(* goes.  A request works in several steps, each ending in a commit of the *)
(* database or a replaced file, and any other request may run in between.  *)
(***************************************************************************)
EXTENDS Integers, Sequences, FiniteSets

CONSTANTS
  Text,          \* texts that are remembered, each once
  TypeOf,        \* the memory_type of a text
  TitleOf,       \* its title
  Thread,        \* request threads
  Path,          \* names for notes: an initial segment of 1, 2, ...
  AutoDiscover,  \* settings.auto_discover_external_memory
  MaxRequests,   \* bound on migrations and refreshes
  MaxOwner,      \* bound on what owners do to notes, rows and settings
  MaxOutages,    \* bound on the times the folder is taken away
  MaxCrashes     \* bound on the times the process dies

\* The types that belong to the external source of truth, and one that does not.
ExternalCanonicalTypes == {"identity", "preference", "negative_preference", "skill", "project",
                           "project_state", "decision", "policy", "communication", "environment"}
MemoryType == ExternalCanonicalTypes \cup {"episodic", "relationship", "schedule"}

InternalSources == {"enishi_mcp", "enishi_pending"}

\* What owners write themselves: never the text of a memory.
OwnText == {"own", "edited"}

ASSUME MemoryAssumption ==
  /\ TypeOf \in [Text -> MemoryType]
  /\ Path = 1..Cardinality(Path) /\ IsFiniteSet(Path)
  /\ Text \cap OwnText = {}
  /\ AutoDiscover \in BOOLEAN
  /\ MaxRequests \in Nat /\ MaxOwner \in Nat /\ MaxOutages \in Nat /\ MaxCrashes \in Nat

Title == {TitleOf[x] : x \in Text}

VARIABLES
  up,          \* is the folder there?
  notes,       \* the notes in it
  linked,      \* the setting of the external source: enabled, with a scope
  backend,     \* the MemoryBackendState row
  rows,        \* the MemoryItem rows, in the order they were created
  req,         \* what each thread is doing
  remembered,  \* texts a remember was called with
  acked,       \* texts whose remember returned
  overwritten, \* texts that were in a note the program replaced by another text
  discarded,   \* texts an owner deleted, or edited away
  calm,        \* threads whose request has had the system to itself so far
  budget       \* migrations and refreshes, owner's actions, outages and crashes so far

store == <<notes, rows>>
history == <<remembered, acked, overwritten, discarded>>
vars == <<up, store, linked, backend, req, history, calm, budget>>

NoNote == [by |-> "nobody"]
Note == [by : {"enishi", "owner"}, title : Title, text : Text \cup OwnText]
There(p) == notes[p] # NoNote

\* A row that stands for a note has its path; the others have path 0.
Row == [source : InternalSources \cup {"external"}, path : Path \cup {0}, type : MemoryType,
        title : Title, text : Text \cup OwnText, managed : BOOLEAN, active : BOOLEAN]

InternalRow(source, x) ==
  [source |-> source, path |-> 0, type |-> TypeOf[x], title |-> TitleOf[x], text |-> x,
   managed |-> FALSE, active |-> TRUE]

\* The rows a migration takes along, and what resolve_backend counts.
Candidates ==
  {i \in DOMAIN rows : /\ rows[i].active
                       /\ rows[i].source \in InternalSources
                       /\ rows[i].type \in ExternalCanonicalTypes}

Idle == [pc |-> "idle"]

\* todo: the candidates a migration has yet to move, the one it is at included;
\* empty while a single memory is written.
Remembering == [pc : {"internal", "pending", "match", "refused"}, text : Text]
Writing == [pc : {"write", "index"}, text : Text, type : MemoryType, title : Title, path : Path,
            row : Nat, todo : SUBSET Nat]
Migrating == [pc : {"collect"}] \cup [pc : {"next", "drop"}, todo : SUBSET Nat]

\* A note as a synchronisation has read it, with the row it found for it (0: none) and what that held.
Looked == [note : Note, row : Nat, text : Text \cup OwnText, active : BOOLEAN, managed : BOOLEAN]
Syncing == [pc : {"list"}] \cup [pc : {"look"}, listed : SUBSET Path]
             \cup [pc : {"sync"}, looked : [Path -> Looked \cup {NoNote}]]

Request == {Idle} \cup Remembering \cup Writing \cup Migrating \cup Syncing

ExternalStatus == {"external_primary", "external_unavailable", "migrating"}

TypeOK ==
  /\ up \in BOOLEAN
  /\ notes \in [Path -> Note \cup {NoNote}]
  /\ linked \in BOOLEAN
  /\ backend \in ExternalStatus \cup {"none", "internal_primary"}
  /\ rows \in Seq(Row)
  /\ req \in [Thread -> Request]
  /\ remembered \subseteq Text /\ acked \subseteq Text
  /\ overwritten \subseteq Text /\ discarded \subseteq Text
  /\ calm \subseteq Thread
  /\ budget \in [{"requests", "owner", "outages", "crashes"} -> Nat]

\* No state row is written before the first request.
Init ==
  /\ up \in BOOLEAN
  /\ notes = [p \in Path |-> NoNote]
  /\ linked = FALSE
  /\ backend = "none"
  /\ rows = <<>>
  /\ req = [t \in Thread |-> Idle]
  /\ remembered = {} /\ acked = {} /\ overwritten = {} /\ discarded = {}
  /\ calm = {}
  /\ budget = [requests |-> 0, owner |-> 0, outages |-> 0, crashes |-> 0]

Limits == [requests |-> MaxRequests, owner |-> MaxOwner, outages |-> MaxOutages, crashes |-> MaxCrashes]
Spend(what) == budget[what] < Limits[what] /\ budget' = [budget EXCEPT ![what] = @ + 1]

Goto(t, to) == req' = [req EXCEPT ![t] = to]

Alone(t) == \A u \in Thread \ {t} : req[u] = Idle
StartsCalm(t) == calm' = IF Alone(t) THEN {t} ELSE {}

\* A new id is nobody's: no note, row or request has it.
Taken(p) ==
  \/ There(p)
  \/ \E i \in DOMAIN rows : rows[i].path = p
  \/ \E t \in Thread : req[t].pc \in {"write", "index"} /\ req[t].path = p
Fresh(p) == ~Taken(p) /\ \A q \in 1..(p - 1) : Taken(q)

-----------------------------------------------------------------------------
(* Which source is the source of truth, decided at the start of every      *)
(* request and never taken back.                                           *)

External == backend \in ExternalStatus
Connected == linked /\ up
AutoDetected == AutoDiscover /\ up /\ \E p \in Path : There(p)

\* Faulty: while the folder is away the node is its own source of truth.
ResolvedStatusFallsBack ==
  IF ~up THEN "internal_primary" ELSE IF Candidates = {} THEN "external_primary" ELSE "migrating"

ResolvedStatus ==
  IF External /\ ~up THEN "external_unavailable"
  ELSE IF External \/ Connected \/ AutoDetected
       THEN IF Candidates = {} THEN "external_primary" ELSE "migrating"
       ELSE "internal_primary"

\* Detection also writes the setting.
ResolveBackend ==
  /\ backend' = ResolvedStatus
  /\ linked' = (linked \/ (~External /\ AutoDetected))

\* GET /memory-backend, and a search within a minute of the last synchronisation.
Summary ==
  /\ ResolveBackend
  /\ UNCHANGED <<up, store, req, history, calm, budget>>

-----------------------------------------------------------------------------
(* remember and, within it and within a migration, write_markdown_memory.  *)

Route(x) ==
  IF TypeOf[x] \notin ExternalCanonicalTypes \/ ResolvedStatus = "internal_primary" THEN "internal"
  ELSE IF ResolvedStatus = "external_unavailable" THEN "pending" ELSE "match"

Remember(t, x) ==
  /\ req[t] = Idle
  /\ x \notin remembered
  /\ ResolveBackend
  /\ remembered' = remembered \cup {x}
  /\ Goto(t, [pc |-> Route(x), text |-> x])
  /\ StartsCalm(t)
  /\ UNCHANGED <<up, store, acked, overwritten, discarded, budget>>

CreateInternal(t) ==
  /\ req[t].pc \in {"internal", "pending"}
  /\ LET source == IF req[t].pc = "internal" THEN "enishi_mcp" ELSE "enishi_pending"
     IN  rows' = Append(rows, InternalRow(source, req[t].text))
  /\ acked' = acked \cup {req[t].text}
  /\ Goto(t, Idle)
  /\ UNCHANGED <<up, notes, linked, backend, remembered, overwritten, discarded, calm, budget>>

\* Faulty: a row the program did not write will do as well.
MatchesAnyRow(type, title) ==
  LET found == {i \in DOMAIN rows : rows[i].active /\ rows[i].source = "external" /\ rows[i].title = title}
  IN  IF found = {} THEN {0} ELSE found

\* The rows of the program's own notes with this type and title; 0 stands for none.
Matches(type, title) ==
  LET found == {i \in DOMAIN rows : /\ rows[i].active
                                    /\ rows[i].source = "external"
                                    /\ rows[i].type = type
                                    /\ rows[i].title = title
                                    /\ rows[i].managed}
  IN  IF found = {} THEN {0} ELSE found

Aim(t, x, type, title, todo) ==
  \E row \in Matches(type, title), path \in Path :
    /\ IF row = 0 THEN Fresh(path) ELSE path = rows[row].path
    /\ Goto(t, [pc |-> "write", text |-> x, type |-> type, title |-> title, path |-> path,
                row |-> row, todo |-> todo])

Next1(todo) == CHOOSE i \in todo : \A j \in todo : i <= j

\* The root is checked, then a row to overwrite is looked for.
Match(t) ==
  /\ up
  /\ \/ /\ req[t].pc = "match"
        /\ LET x == req[t].text IN Aim(t, x, TypeOf[x], TitleOf[x], {})
     \/ /\ req[t].pc = "next"
        /\ req[t].todo # {}
        /\ LET row == rows[Next1(req[t].todo)] IN Aim(t, row.text, row.type, row.title, req[t].todo)
  /\ UNCHANGED <<up, store, linked, backend, history, calm, budget>>

\* The file is replaced; its row still says what it said.
WriteNote(t) ==
  /\ req[t].pc = "write"
  /\ up
  /\ LET p == req[t].path
         old == notes[p]
     IN  /\ notes' = [notes EXCEPT ![p] = [by |-> IF There(p) THEN old.by ELSE "enishi",
                                           title |-> req[t].title, text |-> req[t].text]]
         /\ overwritten' = IF There(p) /\ old.title = req[t].title
                           THEN overwritten \cup (({old.text} \cap Text) \ {req[t].text})
                           ELSE overwritten
  /\ Goto(t, [req[t] EXCEPT !.pc = "index"])
  /\ UNCHANGED <<up, rows, linked, backend, remembered, acked, discarded, calm, budget>>

\* What follows a written note: the answer, or the removal of the row it came from.
AfterWrite(t) ==
  IF req[t].todo = {}
    THEN acked' = acked \cup {req[t].text} /\ Goto(t, Idle)
    ELSE UNCHANGED acked /\ Goto(t, [pc |-> "drop", todo |-> req[t].todo])

IndexNote(t) ==
  /\ req[t].pc = "index"
  /\ rows' = IF req[t].row = 0
             THEN Append(rows, [source |-> "external", path |-> req[t].path, type |-> req[t].type,
                                title |-> req[t].title, text |-> req[t].text,
                                managed |-> TRUE, active |-> TRUE])
             ELSE [rows EXCEPT ![req[t].row].text = req[t].text, ![req[t].row].managed = TRUE]
  /\ AfterWrite(t)
  /\ UNCHANGED <<up, notes, linked, backend, remembered, overwritten, discarded, calm, budget>>

\* Faulty: a memory that could not be moved is removed all the same.
RefuseGoesOn(t) ==
  /\ req[t].pc = "next"
  /\ req[t].todo # {}
  /\ Goto(t, [pc |-> "drop", todo |-> req[t].todo])
  /\ calm' = calm \ {t}
  /\ UNCHANGED <<up, store, linked, backend, history, budget>>

\* The folder is gone or read-only, or the system refuses the file.
\* A migration goes on with the next memory.
Refuse(t) ==
  /\ \/ req[t].pc \in {"match", "write"}
     \/ req[t].pc = "next" /\ req[t].todo # {}
  /\ Goto(t, IF req[t].pc = "match" \/ (req[t].pc = "write" /\ req[t].todo = {})
             THEN [pc |-> "refused", text |-> req[t].text]
             ELSE [pc |-> "next", todo |-> req[t].todo \ {Next1(req[t].todo)}])
  /\ calm' = calm \ {t}
  /\ UNCHANGED <<up, store, linked, backend, history, budget>>

MarkUnavailable(t) ==
  /\ req[t].pc = "refused"
  /\ backend' = "external_unavailable"
  /\ Goto(t, [pc |-> "pending", text |-> req[t].text])
  /\ UNCHANGED <<up, store, linked, history, calm, budget>>

-----------------------------------------------------------------------------
(* migrate_to_external: the candidates are read once, then moved one by    *)
(* one; a note and its row come first, the removal of the old row after.   *)

Migrate(t) ==
  /\ req[t] = Idle
  /\ Spend("requests")
  /\ ResolveBackend
  /\ IF ResolvedStatus = "internal_primary" THEN UNCHANGED req ELSE Goto(t, [pc |-> "collect"])
  /\ StartsCalm(t)
  /\ UNCHANGED <<up, store, history>>

Collect(t) ==
  /\ req[t].pc = "collect"
  /\ IF up THEN Goto(t, [pc |-> "next", todo |-> Candidates]) /\ UNCHANGED backend
           ELSE Goto(t, Idle) /\ backend' = "external_unavailable"
  /\ UNCHANGED <<up, store, linked, history, calm, budget>>

DropCandidate(t) ==
  /\ req[t].pc = "drop"
  /\ LET i == Next1(req[t].todo)
     IN  /\ rows' = [rows EXCEPT ![i].active = FALSE]
         /\ Goto(t, [pc |-> "next", todo |-> req[t].todo \ {i}])
  /\ UNCHANGED <<up, notes, linked, backend, history, calm, budget>>

Tally(t) ==
  /\ req[t].pc = "next"
  /\ req[t].todo = {}
  /\ backend' = IF Candidates = {} THEN "external_primary" ELSE "migrating"
  /\ Goto(t, Idle)
  /\ UNCHANGED <<up, store, linked, history, calm, budget>>

-----------------------------------------------------------------------------
(* refresh_external_index and sync_markdown_folder.                        *)

Refresh(t) ==
  /\ req[t] = Idle
  /\ Spend("requests")
  /\ ResolveBackend
  /\ IF ResolvedStatus \in {"internal_primary", "external_unavailable"}
       THEN UNCHANGED req ELSE Goto(t, [pc |-> "list"])
  /\ StartsCalm(t)
  /\ UNCHANGED <<up, store, history>>

ListNotes(t) ==
  /\ req[t].pc = "list"
  /\ Goto(t, IF up THEN [pc |-> "look", listed |-> {p \in Path : There(p)}] ELSE Idle)
  /\ UNCHANGED <<up, store, linked, backend, history, calm, budget>>

\* The first row with this path, whatever became of it; 0 stands for none.
RowOf(p) ==
  LET found == {i \in DOMAIN rows : rows[i].path = p} IN IF found = {} THEN 0 ELSE Next1(found)

Look(p) ==
  LET i == RowOf(p)
  IN  [note |-> notes[p], row |-> i,
       text    |-> IF i = 0 THEN "own" ELSE rows[i].text,
       active  |-> i # 0 /\ rows[i].active,
       managed |-> i # 0 /\ rows[i].managed]

\* A listed note that is gone by now is skipped.
LookAtNotes(t) ==
  /\ req[t].pc = "look"
  /\ LET readable == {p \in req[t].listed : up /\ There(p)}
     IN  Goto(t, [pc |-> "sync", looked |-> [p \in Path |-> IF p \in readable THEN Look(p) ELSE NoNote]])
  /\ UNCHANGED <<up, store, linked, backend, history, calm, budget>>

\* Faulty: a row that was deleted stays deleted when its note is back unchanged.
RewrittenIfChanged(row, seen) ==
  IF seen.text = seen.note.text THEN row
  ELSE [row EXCEPT !.title = seen.note.title, !.text = seen.note.text, !.active = @ \/ ~seen.active]

\* A row of a changed note is rewritten as far as it differs from what was loaded.
Rewritten(row, seen) ==
  IF seen.text = seen.note.text /\ seen.active THEN row
  ELSE [row EXCEPT !.title = seen.note.title, !.text = seen.note.text, !.managed = seen.managed,
                   !.active = @ \/ ~seen.active]

Read(looked) == {p \in Path : looked[p] # NoNote}

\* Faulty: the type of an imported note is not one of the memory types.
ImportedRowUntyped(p, note) ==
  [source |-> "external", path |-> p, type |-> "markdown", title |-> note.title, text |-> note.text,
   managed |-> FALSE, active |-> TRUE]

ImportedRow(p, note) ==
  [source |-> "external", path |-> p, type |-> "project", title |-> note.title, text |-> note.text,
   managed |-> FALSE, active |-> TRUE]

\* What the listing did not have is deleted, by the rows as they are at the end.
Synced(row, i, looked) ==
  LET mine == {p \in Read(looked) : looked[p].row = i}
      kept == IF mine = {} THEN row ELSE Rewritten(row, looked[CHOOSE p \in mine : TRUE])
  IN  IF kept.source = "external" /\ kept.path \notin Read(looked)
      THEN [kept EXCEPT !.active = FALSE] ELSE kept

CommitSync(t) ==
  /\ req[t].pc = "sync"
  /\ LET looked == req[t].looked
         new == {p \in Read(looked) : looked[p].row = 0}
     IN  \E order \in [1..Cardinality(new) -> new] :
           /\ \A j \in DOMAIN order : \A k \in 1..(j - 1) : order[k] < order[j]
           /\ rows' = [i \in DOMAIN rows |-> Synced(rows[i], i, looked)]
                        \o [k \in DOMAIN order |-> ImportedRow(order[k], looked[order[k]].note)]
  /\ Goto(t, Idle)
  /\ UNCHANGED <<up, notes, linked, backend, history, calm, budget>>

-----------------------------------------------------------------------------
(* The owner, the folder and the process.                                  *)

Discard(text) == discarded' = discarded \cup ({text} \cap Text)

OwnerWrites(p, title) ==
  /\ up /\ Fresh(p)
  /\ notes' = [notes EXCEPT ![p] = [by |-> "owner", title |-> title, text |-> "own"]]
  /\ UNCHANGED <<rows, linked, discarded>>

OwnerEdits(p) ==
  /\ up /\ There(p) /\ notes[p].text # "edited"
  /\ notes' = [notes EXCEPT ![p].text = "edited"]
  /\ Discard(notes[p].text)
  /\ UNCHANGED <<rows, linked>>

OwnerRemoves(p) ==
  /\ up /\ There(p)
  /\ notes' = [notes EXCEPT ![p] = NoNote]
  /\ Discard(notes[p].text)
  /\ UNCHANGED <<rows, linked>>

\* DELETE /memories/{id}.  The note of an index row stays.
Forget(i) ==
  /\ rows[i].active
  /\ rows' = [rows EXCEPT ![i].active = FALSE]
  /\ IF rows[i].source \in InternalSources THEN Discard(rows[i].text) ELSE UNCHANGED discarded
  /\ UNCHANGED <<notes, linked>>

\* put_settings: a source that is not connected cannot be enabled.
PutSettings(enabled) ==
  /\ linked' = (enabled /\ up)
  /\ UNCHANGED <<store, discarded>>

Owner ==
  /\ \/ \E p \in Path : OwnerEdits(p) \/ OwnerRemoves(p) \/ \E title \in Title : OwnerWrites(p, title)
     \/ \E i \in DOMAIN rows : Forget(i)
     \/ \E enabled \in BOOLEAN : PutSettings(enabled)
  /\ Spend("owner")
  /\ calm' = {}
  /\ UNCHANGED <<up, backend, req, remembered, acked, overwritten>>

FolderComesOrGoes ==
  /\ up' = ~up
  /\ Spend("outages")
  /\ calm' = {}
  /\ UNCHANGED <<store, linked, backend, req, history>>

Crash ==
  /\ Spend("crashes")
  /\ req' = [t \in Thread |-> Idle]
  /\ calm' = {}
  /\ UNCHANGED <<up, store, linked, backend, history>>

Step(t) ==
  \/ \E x \in Text : Remember(t, x)
  \/ CreateInternal(t) \/ Match(t) \/ WriteNote(t) \/ IndexNote(t) \/ Refuse(t) \/ MarkUnavailable(t)
  \/ Migrate(t) \/ Collect(t) \/ DropCandidate(t) \/ Tally(t)
  \/ Refresh(t) \/ ListNotes(t) \/ LookAtNotes(t) \/ CommitSync(t)

Next == (\E t \in Thread : Step(t)) \/ Summary \/ Owner \/ FolderComesOrGoes \/ Crash

Spec == Init /\ [][Next]_vars

-----------------------------------------------------------------------------
InNote(x) == \E p \in Path : There(p) /\ notes[p].text = x
InRow(x) == \E i \in DOMAIN rows : rows[i].active /\ rows[i].source \in InternalSources /\ rows[i].text = x

\* A memory whose remember was answered is in a note or in an active row of
\* the node for as long as the owner does not remove it and nothing of the
\* same title takes the place of its note: across outages, refused writes,
\* migrations that die half-way and synchronisations of a folder that moves.
NothingForgotten == \A x \in acked : x \in overwritten \cup discarded \/ InNote(x) \/ InRow(x)

\* Only the owner changes a note the owner wrote, even when a memory has its
\* title (docs/second-brain.md: other notes than its own are never rewritten).
OwnNotesUntouched ==
  [][\A p \in Path : notes[p] # notes'[p] /\ There(p) =>
       notes[p].by = "enishi" \/ budget'.owner # budget.owner]_vars

\* Once notes are the source of truth they stay it, in whatever order
\* requests that began before and after resolve, fail and finish.
SourceIsKept == [][External => External']_vars

Indexed(p) == \E i \in DOMAIN rows : rows[i].active /\ rows[i].path = p /\ rows[i].text = notes[p].text
Stale(i) == rows[i].active /\ rows[i].source = "external" /\ notes[rows[i].path].text # rows[i].text

SyncEnds(t) == t \in calm /\ t \in calm' /\ req[t].pc = "sync" /\ req'[t] = Idle

\* After a synchronisation that nothing disturbed every note has an active row
\* with its text, and no row stands for a note that is gone.
IndexIsComplete ==
  [][\A t \in Thread : SyncEnds(t) =>
       /\ \A p \in Path : There(p) => Indexed(p)'
       /\ \A i \in DOMAIN rows' : rows'[i].active /\ rows'[i].source = "external" => There(rows'[i].path)]_vars

\* A search takes in what changed in the notes (docs/second-brain.md): after
\* such a synchronisation no active row says anything else than its note.  (TLC
\* refutes this: README.)
IndexIsExact ==
  [][\A t \in Thread : SyncEnds(t) => \A i \in DOMAIN rows' : ~Stale(i)']_vars
================================================================================
