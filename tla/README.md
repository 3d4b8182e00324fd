# ENISHI: a TLA+ verification development

This directory holds TLA+ models of ENISHI, the TLC configurations that check
them on small instances, and TLAPS proofs of their main theorems for every value
of the constants. Paths below are relative to the repository; `local-core/`
stands for `services/local-core/enishi_core/` and `relay/` for
`services/relay/relay/`.

* [The system](#the-system) · [Modules](#modules) · [Runs](#runs) ·
  [Bounds](#bounds) · [Fairness](#fairness) · [Proofs](#proofs) ·
  [What the code does otherwise](#what-the-code-does-otherwise) ·
  [Not modelled](#not-modelled) · [Plan](#plan)

Checking it:

    tlc -workers 2 -config meeting_owners.cfg MCRemoteNegotiation
    tlapm RemoteNegotiation_proofs.tla

## The system

Every user runs a *Local Core*: a FastAPI process over one SQLite database. Two
Local Cores negotiate on behalf of their owners by exchanging signed envelopes
through a *Relay*, a store-and-forward mailbox. Owners see their own node through
a desktop application or through MCP.

### Components

| component | state | operations | interacts with |
|---|---|---|---|
| Protocol state machine (`local-core/services/protocol_state.py`) | none | `validate_incoming` | called for every received message |
| Remote negotiation (`services/remote_negotiation.py`) | sessions, messages, agreements, approvals, outbox | `start_remote_negotiation`, `process_inbox`, `flush_outbox`, `resolve_remote_approval` | Relay, approvals, domains |
| Domains (`domains/meeting_schedule.py`, `cost_split.py`, `task_request.py`) | none | `decide_remote_reply`, `approval_reply`, the three local negotiations | called by the negotiations |
| Strategy and slots (`domains/cost_split_strategy.py`, `services/scheduling.py`) | none | the next move of a cost split; free slots of a calendar | called by the domains |
| Relay worker (`services/relay_worker.py`) | a status record | a thread: poll, expire, flush, back off | remote negotiation |
| Approvals (`services/approvals.py`) | approval rows | create, approve, reject, expire | routes, tasks, negotiations |
| Envelope and replay (`security/envelope.py`, `replay.py`) | seen messages | verify, check-and-record | `process_inbox` |
| Relay (`relay/store.py`, `main.py`) | mailboxes, rate counters | `allow_send`, `put`, `fetch`, `ack`, purge | both nodes |
| Coding tasks (`services/tasks.py`) | tasks | create, cancel, claim, run, recover | approvals, a worker thread |
| Local negotiation (`services/negotiation.py`, `domains/common.py`) | sessions on one node | run turn by turn, escalate, agree | domains, policies, approvals |
| Peers, clones, memories (`services/peers.py`, `clones.py`, `clone_bootstrap.py`, `memories.py`, `agent_requests.py`) | trust, drafts, activation, the delegate, snapshots | register, trust, block, draft, rebuild, activate, delete | the doors of a remote negotiation ask them |
| Memory router (`services/memory_router.py`, `external_memory.py`, `memory_source_settings.py`) | memories, note files, index, source of truth | route, migrate, synchronise | files on disk, which the owner edits too |
| Core discovery (`services/core_discovery.py`, `main.py`) | `core.json` | publish, unpublish | every process that starts or looks for a Core |
| MCP client (`enishi-mcp`), desktop application | a start lock; a child process | find, start, take over from and kill a Core | core discovery, Local Core over HTTP |

### What is hard

* **Threads over one database.** The relay worker and every HTTP request that
  synchronises an inbox run the same handlers concurrently. A transaction starts
  at the first *write* and a read takes no lock, so a handler may commit what it
  decided from rows that have changed since.
* **Two processes with a mailbox between them.** The sender of a final message
  records its outcome before the receiver hears of it. Requests, responses and
  acknowledgements are lost; deliveries are repeated and, with equal time stamps,
  reordered; the mailbox, the time window and the replay table forget things.
* **Crashes between two commits** of one operation.
* **Processes that replace each other.** A desktop application takes over from a Core that
  an MCP client has started, clients start Cores on demand, and what they know of each
  other is one file.
* **Files the owner edits.** Notes are written, edited and removed while a request has
  looked at them and not yet at their rows.
* **Owners.** A session that waits for an owner waits on somebody who may never
  answer, or answer twice, or answer as the approval expires.

What makes each part correct follows from this. *Remote negotiation*: the two nodes hold
the same history and never disagree on an outcome, nothing changes what has ended,
nothing is agreed behind an owner, an approval is answered once, and every negotiation
ends. *Delivery*: an envelope is handled at most once, in order, and lost only when it
is too old to be handled. *Tasks and local negotiations*: nothing happens without the
approval it needs, a task that says it is running is being run, and a resolution reaches
what waits for it; what two clones agree stays inside the limits and calendars of their
owners, and they come to an end. *Memory router*: no memory is lost between a file and
its row, an owner's own notes are left alone, and the source of truth does not flip
back. *Clones and peers*: nobody acts for an owner who has not reviewed it, and a
deletion or a block reaches whoever has not read the clone or the peer before. *Core
discovery*: one Core serves a data directory, whoever looks for it finds it, and one worker
runs its tasks.
`PROJECT.json` lists every hazard at its line with the properties that watch it.

## Modules

### `ProtocolState`

`validate_incoming` and the table of successors as pure operators, in the order of
the code's early returns; counting and looking up the last message.

### `RemoteNegotiation`

Two nodes `"a"` and `"b"`, each with its sessions, messages, agreements, approvals,
outbox and replay table, and a mailbox each at the Relay. **An action is one SQLite
transaction of one thread or one call to the Relay.** `_handle_envelope` is two
transactions for an offer, because the policy lookup (`_get_policy`) in the middle
commits: `Receive` (up to that commit) and `Decide` (the rest). A REQUEST or a final
message is one. `resolve_remote_approval` is two actions because its checks read rows
outside a transaction: `BeginResolve` and `CommitResolve`. Everything the code
does before the commit (saving the reply, numbering it, queueing it, the session,
the approval and the agreement) is in the same action.

| code | actions |
|---|---|
| `start_remote_negotiation` | `Start` |
| `flush_outbox`, `RelayClient.send` | `Flush`, `FlushDuplicate` (stored, but not recorded as sent) |
| `process_inbox`, `_handle_envelope` | `Receive` (`Discard`, `Duplicate`, `Refuse`, `HandleRequest`, `HandleFinal`, `HandleOffer`), `Decide` (`DecideApproval`, `DecideAccept`, `DecideReject`, `DecideCounter`, `DecideExhausted`), `Ack`, `AckLost` |
| `resolve_remote_approval`, `expire_if_needed` | `Overdue`, `BeginResolve`, `CommitResolve` |
| process death, an exception in the decision | `Crash`, `DecideFails` |
| the Relay's expiry | `Purge` |

Abstractions. A value is a meeting slot or a share of a cost; an offer is the set of values it
contains, and a node's own position is the constant set `Acceptable`, although the code derives
it anew for each message (`:1011`): between the messages of a session the owner's calendar,
rules and clone are taken to stay as they are. Which of its acceptable values a clone offers,
and whether the policies and guards find a reason to ask the owner, is left open. A meeting
with several slots in common accepts any of them, where the code takes the first. An approval
whose `expires_at` has passed has the status `"overdue"`: in the database it is still pending.
An approval is named by its session and the sequence of the offer it is about, a message by its
own contents. A caller here fetches one delivery at a time; pages of several are in
`EnvelopeDelivery`. The peer runs this code: a foreign implementation that sends what this one
never would is outside the model.

### `NegotiationOutcome`

What a negotiation promises, as an abstract specification of one action: each node
records an outcome once, for good, and the same as its peer. `RemoteNegotiation`
implements it (`ImplementsOutcome`) under the mapping that reads the session row and
the agreement row of a node as its owner would.

### `EnvelopeDelivery`

What `RemoteNegotiation` takes as given about a single envelope: the outbox row by
row, the rate limit and the three mailbox limits of the Relay (each a transaction of
its own), the purge, pages of deliveries, the time window against two clocks, the
replay table with its expiry, and two inbox callers. `handled` counts the commits of
`_handle_envelope`, `refused` holds what was acked with a refusal; both are history.
The identifier of a delivery stands for the pair the Relay sorts by. Clocks run at
one speed with a constant offset.

### `TaskLifecycle`

What waits for an owner on one node. **An action is one read or one commit of one
request**: since reads take no lock and an UPDATE names only its row, the last writer
wins everywhere except in the conditional UPDATE of `claim_next_task`. A request
carries what it has read (`seen`, `verdict`) from action to action, as the code does in
its ORM session.

| code | actions |
|---|---|
| `create_task` | `CreateTask` |
| `create_negotiation_approval` | `Escalate`, `Await` (two commits) |
| `approve`, `reject`, `expire_if_needed` | `Overdue`, `Begin`, `Resolve` |
| `on_approval_resolved` (tasks, negotiations) | `Apply`, `WriteTask`, `WriteAgreed`, `WriteMessage`, `WriteFailed` |
| `get_task`, `cancel_task` | `GetTask`, `Look`, `Refresh`, `CancelUngated`, `Cancel` |
| `claim_next_task`, `_run_claimed_task`, `_mark_task_finished` | `Claim`, `Load`, `Finish` |
| process death, `recover_interrupted_tasks` | `Restart` |

`granted` is a history of committed approvals. Which queued task is the oldest is left
open; the poll for a cancellation and the end of the run are one action.

### `CostSplitStrategy`, `MeetingSlots`

The pure parts of the domains. `CostSplitStrategy` is the next move of a clone in a cost
split: reservation, opening, floor and concession in hundredths of a unit, rounded as the
code rounds (a tie goes up here; in the code it depends on the binary value).
`MeetingSlots` is the search for free slots in a calendar, with entries that are wall
clocks of their owner and entries that are instants, the cap of the candidates and of an
offer, and the preference rules.

### `LocalNegotiation`

The negotiation of two clones on one node, over the real strategy and the real slots.
One request thread drives it; **an action is one turn**, because every look at the
delegation rules commits. Owners change rules and clones between turns, and the process
may die there. The driver holds the clones it loaded at the start and reads the rules anew
at each turn (`loaded`, `delegated`), as the code does.

| code | actions |
|---|---|
| `run_cost_split_negotiation` | `StartCostSplit`, `Precheck` (the shortcut without a zone of agreement), `CostSplitTurn` (`Agree`, `Ask`, `Fail`, `OfferCounter`, `LastRound`) |
| `run_negotiation` (meeting) | `StartMeeting`, `MeetingTurn` |
| `run_task_request_negotiation` | `RunTaskRequest` |
| `create_negotiation_approval` | `Ask`, `Await` (two commits) |
| approve, reject, expiry | `Resolve` (its commits are taken apart in `TaskLifecycle`) |
| policy routes, activation of another clone | `ChangeRules` |
| process death | `Die` |

Abstractions: relationship and confidence rules are one Boolean per clone (`content`); the
shadow calendar of schedule memories is part of `entries`.

### `MemoryRouter`

Where memories are kept. **An action is one commit, one replaced file, or one read that a
later step uses.** `up` is whether the folder can be reached; `notes` are its files,
`rows` the `MemoryItem` rows in the order of their creation.

| code | actions |
|---|---|
| `resolve_backend` | `ResolveBackend`, at the start of `Summary`, `Remember`, `Migrate`, `Refresh` |
| `route_and_create`, `write_markdown_memory` | `Remember`, `CreateInternal`, `Match`, `WriteNote`, `IndexNote`, `Refuse`, `MarkUnavailable` |
| `migrate_to_external` | `Migrate`, `Collect`, `Match`, `WriteNote`, `IndexNote`, `DropCandidate`, `Refuse`, `Tally` |
| `refresh_external_index`, `sync_markdown_folder` | `Refresh`, `ListNotes`, `LookAtNotes`, `CommitSync` |
| `delete_memory`, `put_settings` | `Forget`, `PutSettings` |
| the owner at the folder, the folder, the process | `OwnerWrites`, `OwnerEdits`, `OwnerRemoves`, `FolderComesOrGoes`, `Crash` |

`remembered`, `acked`, `overwritten`, `discarded` and `calm` are history. Abstractions:
`resolve_backend` (some reads and one commit) is one step; there is one external root; no
limit on files or sizes; a synchronisation reads all the files it listed in one step; a
folder that vanishes in the middle of a write is a refused write; an owner's edit keeps the
heading of a note; whether the last synchronisation is a minute old is left open.

### `Representation`

Who speaks for the owner, and with whom. **A request is a step that reads and a step that
writes** (`req` holds what was read), because reads take no lock. `process_inbox` has three
of these windows:

* It holds rows from one message of a page to the next. Its session does not expire what it
  has loaded (`expire_on_commit=False`), and the local variables keep the peer (`:1154`) and
  the personal agent (`:1170`) in its identity map. `CheckSender` reads them unless `req`
  holds them (`peer`, `held`, `delegate`); between two messages a poll is at `"page"`. A
  rollback drops both (`DropRows`), a sender that is refused replaces the peer only
  (`RefuseSender`), a duplicate or a bad signature drops nothing (`SkipMessage`).
* The sender is checked before the `message_id` is recorded. From there on the handler has
  the write lock, so a REQUEST is one step (`HandleRequest`).
* For an offer the lock ends early. `TakeOffer` stores it and resolves the acting clone
  (`:1008`); the lookup of the policies commits (`:1017`, `:1023`); `AnswerOffer` decides and
  replies with the clone resolved before.

How ACCEPT, REJECT and ERROR end a session is `RemoteNegotiation`'s; they change no row
of this module.

| code | actions |
|---|---|
| `create_memory`, `delete_memory` | `CreateMemory`, `DeleteMemory` |
| `ensure_clone`, `rebuild_clone`, `build_clone_draft` | `EnsureClone`, `RebuildClone`, `StoreDraft`, `RetireOld` |
| `activate_clone` | `ActivateClone`, `StoreActivation` |
| `ensure_personal_agent` | `ReadActive`, `Delegate`, `FindDelegate` |
| `register_from_card`, `trust_peer`, `block_peer` | `RegisterPeer`, `TrustPeer`, `StoreTrust`, `BlockPeer` |
| `start_remote_negotiation` | `CheckPeer`, `FindDelegate`, `RefuseStart`, `StartAsNewDelegate`, `StartAsDelegate`, `OpenSession` |
| `process_inbox`, `_handle_envelope`, `_resolve_own_identity` | `CheckSender`, `RefuseSender`, `SkipMessage`, `DropRows`, `HandleRequest`, `TakeOffer`, `AnswerOffer` |
| process death | `Crash` |

`spoiled` is history: the clones that a deletion has outdated and nobody has activated since.
The two properties about deletion and block are exact about the windows above. A request or a
poll that has read the clone or the peer before may still use it once it is outdated or
blocked; none takes it up afterwards, and nobody else acts with it. Abstractions: the personal
agent's row is there from the start; versions, profiles, confidence and preferences are left
out; the statuses PAUSED, DRAFT and DELETED, which no code sets, do not occur; the check of
delegation only decides whether a start happens.

### `CoreDiscovery`

The processes of one machine: Cores from start to end, the MCP clients that start headless
ones, the desktop apps that stop what they find and start their own. **A step is one access
to something they share**: `core.json`, the temporary file it is renamed from, the lock of
the clients, a port, a process id, the row of a task.

| code | actions |
|---|---|
| `lifespan` | `Recover`, then `publish`; at the end `Leave` (the worker is done), then `unpublish` |
| `publish`, `unpublish` | `Check`, `WriteTmp`, `Replace`; `Leave` (reads), `Unlink` |
| the server | `Listen`, `PortTaken` |
| `claim_next_task`, `_mark_task_finished` | `Pick`, `Claim`, `Finish` |
| `CoreClient`, `start_local_core` | `Begin`, `Acquire`, `Found`, `StartHeadless`, `Connect`, `GiveUp`, `Call` |
| `stop_managed_core`, `spawn_core`, `AppState.shutdown` | `StopManaged`, `StartDesktop`, `Close` |
| process death | `Die`, `Exit` |

A process that has ended is *defunct* until its parent waits for it, which neither client
nor app does while it runs; signal 0 still reaches it. `lost` and `overlapped` are history.
Abstractions: the content of a file is the Core it names; a write of the temporary file is
one step; tokens, file modes, a standalone Core and the reuse of process ids are left out;
nobody cancels a task here (`TaskLifecycle` has that). With `Slow` any deadline may pass at
any time; without it, only when what is waited for cannot come in time: a Core that has
ended, or one whose worker still runs a task.

### Other modules

`MC*` give the constants of a module values for TLC. `RemoteNegotiation_proofs`,
`RemoteNegotiation_refinement`, `EnvelopeDelivery_proofs`, `TaskLifecycle_proofs`,
`LocalNegotiation_proofs`, `MemoryRouter_proofs`, `Representation_proofs` and
`CoreDiscovery_proofs` hold the theorems.
Definitions commented as *Faulty* or *a plausible slip* are not part of any specification:
each is a plausible bug of the operator that follows it, and shows that a property of a
run would notice the bug.

### How they fit together

`RemoteNegotiation` extends `ProtocolState` and implements `NegotiationOutcome`. What it
takes as given is modelled beside it: a single envelope in `EnvelopeDelivery`, the doors
through which a message or a start has to pass in `Representation`, the numbers and slots
behind `Offers` and `Acceptable` in `CostSplitStrategy` and `MeetingSlots`, which
`LocalNegotiation` composes. `LocalNegotiation` takes the answer of an owner as one step;
`TaskLifecycle` has its commits and what races with them. `CoreDiscovery` takes the restart
of `TaskLifecycle` apart: there the recovery happens while no other Core runs, here it meets
one.

## Runs

| run | what it asks | what it shows |
|---|---|---|
| `meeting_threads` | Do two inbox callers per node, a crash, a repeated call and lost or reordered deliveries confuse the exchange? | `TypeOK`, `HistoriesAgree`. |
| `meeting_owners` | Do owners, whose answers race with each other and with expiry, get what they decided? | `OutcomesAgree`, `WaitingIffPending`, `ResolvedOnce`, `OwnerDecides`, `OverrunIsTheOwners`, `TerminalIsFinal`, and `NegotiationOutcome` is implemented. |
| `negotiations_end` | Does a meeting or a cost split end, and is a meeting agreed inside both positions? | `WaitingEnds` across a crash; `EveryNegotiationConcludes` unless a process dies; `AgreementWithinLimits`. |
| `delivery` | What happens to an envelope under lost calls, crashes, limits and purges? | `TypeOK`, `HandledOnce`, `HandledInOrder`, `LostOnlyWhenStale`. |
| `tasks` | What can racing requests do to tasks and local negotiations? Does a running task stop, and does a resolution arrive? | `TypeOK`, `NothingUnapproved`, `RunningIsWorkedOn`; `RunningEnds`, `ResolutionReachesTask` (unless the process dies in between). |
| `local` | What can two clones on one node agree, over real amounts and calendars? | `TypeOK`; `ReservationKept`, `OffersConverge` and `AgreedWasOffered` of cost splits; `SlotFreeForBoth` of meetings; `LocalConcludes`. |
| `memory` | Is a memory lost, an owner's note overwritten or the source of truth confused when requests, edits, an outage and a crash overlap? | `TypeOK`, `NothingForgotten`, `OwnNotesUntouched`, `SourceIsKept`, `IndexIsComplete`. |
| `representation` | Who acts when reviews, activations, deletions, blocks and messages overlap? | `TypeOK`, `DraftsActForNobody`, `DeletionIsHeeded`, `BlockIsHeeded`. |
| `discovery` | How many Cores and workers can clients, an app, impatience and a death make? | `TypeOK`; `OneCore` and `OneWorker` unless two starts overlap; `OneRunner` always. |
| `v_rounds`, `v_recover`, `v_defunct` | Does the code do what a document or comment says? | No: see [below](#what-the-code-does-otherwise). |

`HistoriesAgree` deserves a word. Both nodes append a reply to their own log before the
other node knows of it, and two callers may hold the same delivery. What keeps the logs
equal is that the nodes take turns and that an offer is decided once. Two guards see to
the second, the replay table and the next sequence number that `validate_incoming`
demands: TLC finds that the histories still agree without either one alone, and part
without both. They part at once when a reply is sent that its sender did not save, which
is the mutant of the run.

`negotiations_end` lets only b ask its owner. When both owners are asked and keep choosing
other slots, a fourth COUNTER is dropped by its receiver and both sessions stay open:
that is the finding of `v_rounds`, and the reason why a meeting need not end. What bounds
a negotiation instead is `OverrunIsTheOwners` (checked in `meeting_owners`, where the fourth
COUNTER occurs, and proved): there is at most one COUNTER too many, it answers an approval
that was approved, it is the last word of its sender, and no peer ever saves it.

## Bounds

* `Session = {s1}`. Sessions share a mailbox, an outbox and an inbox caller but no row;
  what one session's envelopes do to another's is delay, which interleaving with a
  second flush, purge and reordering already gives. The theorems are for any set.
* `Value`: one value only a accepts, one both accept, one only b accepts. So an offer
  can be inside or outside a position, and a node can be asked to agree outside its own.
* `Thread`: two callers in `meeting_threads`, one elsewhere, where what races is the
  resolutions.
* `MaxCrashes`, `MaxDuplicates` = 1: each fault is possible at any moment, in any
  process. `MaxResolving = 2`: two resolutions race on a node.
* The rounds are not bounded by the configuration: `MAX_COUNTER_ROUNDS` of the code
  bounds them.
* `negotiations_end`: a meeting or a cost split (`Session = {s1, s2}`, `MaxStarted = 1`), so
  that both domains are decided by one run; one crash.
* `delivery`: two envelopes from a to b; one thread flushes on a and two poll on b;
  `Window = 1`, `SeenTTL = RelayTTL = 2` and `MaxTime = 2`, so that every expiry
  happens; `RateLimit`, `MaxPending` = 2 and `MaxBytes = 3` with sizes 1 and 2, so that
  every limit is met once an envelope is repeated. `MaxDeliveries = 3` allows a
  repetition. `MaxSkew = 0`: clocks that differ and several threads that flush are not
  in the run, but in the theorems.
* `tasks`: two of a task that needs its owner, one that does not and a local negotiation
  (`MaxItems = 2`: they meet only in the threads and the worker, which two occupy), two
  request threads, one restart.
* `local`: totals of 10.00, reservations, concessions and openings on both sides of each
  other and of every limit, with and without a zone of agreement; two calendars, two
  offsets, one or two days, preferences that ask and that do not; tasks on both sides of
  every limit and deadline. One change of the rules, which may fall between any two turns.
  The three rounds are the code's.
* `memory`: two texts of one title, so that one can take the other's place; three paths,
  so that a note of the owner fits beside them; two requests at a time, two migrations or
  synchronisations; one action of the owner, one outage and one crash, each at any
  moment.
* `representation`: one memory, one peer of either card version, one session, two
  requests at a time, two clones: enough for a draft, its predecessor and a deletion to
  overlap. A page is a REQUEST, an offer and any number of messages that are skipped or
  refused in between: the offer may be answered from rows read for the REQUEST. A card of
  version 2 declares cost splits only, so that capabilities refuse something. More peers,
  and a page that changes from one to another, are in the theorems.
* `discovery`: two clients that can each start a Core, one app, one task, one death or taken
  port, `Slow`: any start can race with any stop. The violation runs take away what they do
  not need.

Every run says `CHECK_DEADLOCK FALSE`: once its sessions or tasks have ended a node has
nothing left to do, the bounded clock of `delivery` stops, and so do requests whose number
is bounded.

## Fairness

Only for what runs by itself. The relay worker is a loop that polls, expires overdue approvals
and flushes (`relay_worker.py`, `worker_loop`); a poll that fails is repeated, and expiry comes
after it, so the Relay has to be reachable time and again; handlers run to their end; time
passes. So there is weak fairness of `Flush`, `Receive`, `Decide`, `Ack`, `Overdue`, the
*expiring* `BeginResolve` and `CommitResolve`. In `TaskLifecycle` requests in flight, the
worker's claim, and its run, which has a time limit, are weakly fair. In `LocalNegotiation` the
thread that drives a negotiation is (`Drive`; a request to begin one is never due). In
`CoreDiscovery` a Core that starts or stops goes on, a task ends, a client's and an app's
deadlines pass, and a released `flock` goes to those blocked on it in turn (strong fairness of
`Acquire`). No owner ever has to answer, nobody has to send a request, and nothing is assumed
of crashes, losses or the Relay's choices. `Discard`, `Purge` and reordering are switched off
in the liveness runs: with lost deliveries a negotiation need not end, and the documentation
does not say that it would.

## Proofs

TLAPS checks these for all sets of sessions, values, threads, tasks, negotiations,
calendars, memories, peers, texts and paths and all bounds, from the named assumptions on
the constants alone (`ConstantsAssumption`, `RoutesAssumption`, `TimesAssumption`,
`LimitsAssumption`, `ItemsAssumption`, `RequestsAssumption`, `MemoryAssumption`,
`DiscoveryAssumption`). Every invariant and every safety property of a run is among them.

| theorem | says |
|---|---|
| `RemoteNegotiation_proofs!TypeCorrect` | `Spec => []TypeOK` |
| `ProtocolInvariant` | `Spec => []ProtocolInv` |
| `HistoriesTheorem` | `Spec => []HistoriesAgree` |
| `OutcomesTheorem` | `Spec => []OutcomesAgree` |
| `TerminalTheorem` | `Spec => TerminalIsFinal` |
| `ApprovalInvariant` | `Spec => [](ApprovalInv /\ PositionInv)` |
| `WaitingTheorem` | `Spec => []WaitingIffPending` |
| `ResolvedOnceTheorem` | `Spec => []ResolvedOnce` |
| `OwnerDecidesTheorem` | `Spec => []OwnerDecides` |
| `LimitsTheorem` | `Spec => []AgreementWithinLimits` |
| `RoundsInvariant` | `Spec => []RoundsInv` |
| `OverrunTheorem` | `Spec => []OverrunIsTheOwners` |
| `RemoteNegotiation_refinement!RefinementTheorem` | `Spec => ImplementsOutcome` |
| `EnvelopeDelivery_proofs!TypeCorrect` | `Spec => []TypeOK` |
| `OnceTheorem` | `Spec => []HandledOnce` |
| `LossTheorem` | `Spec => []LostOnlyWhenStale` |
| `OrderTheorem` | `Spec => []HandledInOrder` |
| `TaskLifecycle_proofs!TypeCorrect` | `Spec => []TypeOK` |
| `ApprovalTheorem` | `Spec => []NothingUnapproved` |
| `RunningTheorem` | `Spec => []RunningIsWorkedOn` |
| `LocalNegotiation_proofs!NegotiationInvariant` | `Spec => []IInv` |
| `TypeCorrect` | `Spec => []TypeOK` |
| `ReservationTheorem` | `Spec => []ReservationKept` |
| `ConvergenceTheorem` | `Spec => []OffersConverge` |
| `AgreedTheorem` | `Spec => []AgreedWasOffered` |
| `SlotTheorem` | `Spec => []SlotFreeForBoth` |
| `MemoryRouter_proofs!TypeCorrect` | `Spec => []TypeOK` |
| `NothingIsForgotten` | `Spec => []NothingForgotten` |
| `OwnersNotes` | `Spec => OwnNotesUntouched` |
| `SourceKept` | `Spec => SourceIsKept` |
| `IndexTheorem` | `Spec => IndexIsComplete` |
| `Representation_proofs!TypeCorrect` | `Spec => []TypeOK` |
| `DraftsNeverAct` | `Spec => []DraftsActForNobody` |
| `DeletionHeeded` | `Spec => DeletionIsHeeded` |
| `BlockHeeded` | `Spec => BlockIsHeeded` |
| `CoreDiscovery_proofs!TypeCorrect` | `Spec => []TypeOK` |
| `OneCoreTheorem` | `Spec => []OneCore` |
| `OneWorkerTheorem` | `Spec => []OneWorker` |
| `OneRunnerTheorem` | `Spec => []OneRunner` |

**The argument of `ProtocolInvariant`.** That the histories agree is not inductive: a
node could append something while a different message with the same number is on its
way. `ProtocolInv` adds what excludes this. Logs are dense and their rows carry their
positions (`LogIsDense`); whatever is received or under way is in its sender's log
(`LogsAreStored`, `RowsAreStored`); the nodes alternate after the opening pair
(`TurnsAlternate`), so that at a given position only one of them can append on its own;
status and agreement follow from the last message (`StatusFollowsLog`), so that a
terminal session takes no more; a caller that decides holds the last message of an open
session and is the only one (`DecidesTheLast`); and a resolution that has passed its
checks either still finds the session as it read it or is already answered
(`ResolvesThePending`), where the unique constraint on `RelayOutbox.approval_id` comes
in. Each part needs others to survive a step: hence one conjunction, checked by TLC with
the constants of `meeting_threads` before it was proved. The steps that append to a log
(`Start`, `Record`, `Reply`) go through shared lemmas (`AppendKeepsLogInv`,
`AppendKeepsStatus`, `AppendKeepsRows`, `AppendKeepsDecides`, `AppendKeepsResolving`);
the others change no log.

**The argument of `ApprovalInvariant`.** It goes on from `ProtocolInv`. That a session waits
exactly while its approval is pending does not survive two resolutions that read it at the
same time, unless it is known what either may still do. `ApprovalsAreDistinct`: an offer is
asked about once, and once an approval is resolved the log has outgrown it.
`RepliesFollowApprovals`: an approval is resolved exactly when a row of the outbox answers
it, with what it calls for. A second resolution then either finds the session as it read it,
and nobody has answered, or meets the unique constraint; `ReviewedAccepts` adds that an
ACCEPT that needs an owner is such an answer. `ResolvedOnce` counts those rows and
`OwnerDecides` reads them. `PositionInv` is about values: what a node says about a meeting
and the slots it asks its owner about lie in its own position, and an ACCEPT takes up the
message before it. Since the logs agree, that message is what the other node said, and
`AgreementWithinLimits` follows for both sides, although no receiver compares an ACCEPT with
what it offered.

**The argument of `RoundsInvariant`.** How many COUNTERs a log holds follows from its length:
it is a REQUEST, a PROPOSE, COUNTERs, and a final message at most at the end
(`RoundsOfAnOffer`), so counting becomes a bound on positions. `RoundsAreCounted`: a COUNTER
that was received stands at position 5 at the latest, because `validate_incoming` counts
before it saves; whoever answers a received offer therefore writes position 6 at the latest.
A clone counts one round earlier, and `resolve_remote_approval` does not count at all: what
stands at position 6 is an owner's (`OverrunsAreAnswers`, which finds the row in the outbox
and its approval by `ApprovalInv`), and the peer, who would have had to receive it, does not
have it.

**Refinement.** A step changes the view of at most one node and session, and when it
records an outcome the last messages of both logs, equal where both exist, make it the
peer's outcome. Nothing changes a recorded outcome, by `TerminalTheorem`.

**The arguments of `OnceTheorem` and `LossTheorem`.** Both are about expiry against clocks
that differ. `Remembers`: once an envelope is handled, its row is in the replay table or
its window is over for good, since the row was written inside the window and stays for
two of them (`SeenTTL >= 2 * Window`, as 3600 s and 300 s do). `LossInv` follows an
envelope from the call that stored it to the one that acked it: it is stored, settled or
stale at each of them. What the Relay purges is stale, since `RelayTTL > Window + 2 *
MaxSkew`; what is outside the window of its receiver is old and not new, since it was
signed in the past and `2 * MaxSkew <= Window`. A clock further ahead than that does
lose fresh envelopes: the assumption is on the nodes' clocks, not on the code.
`Held` (a thread never runs out of rows or deliveries) carries both.

**The argument of `OrderTheorem`.** An envelope is *done with* once it is settled or stale
for its receiver. `OrderInv` says the same of three places: for each delivery in the mailbox
(`MailboxInOrder`), for each in the page of a caller (`PagesInOrder`) and for each row that a
flush has yet to send (`FlushedInOrder`), whatever was queued earlier for the same receiver
is ahead of it there or done with. It carries over from the outbox to the mailbox because a
flush stops at the first row that fails, and from there to the page because a fetch takes
the oldest deliveries and the Relay numbers what it stores. A delivery leaves the mailbox
only when it is done with, which is `LossInv`.

**The argument of `ApprovalTheorem`.** `Granted` extends `NothingUnapproved` to what may
still set a task going: a queued task, an approval row that says approved, and a request
about to write an approved verdict all have a committed approval behind them. It says
nothing about rejected ones, and cannot: see
[below](#what-the-code-does-otherwise).

**The argument of `LocalNegotiation_proofs`.** `IInv` is the types with `CostSplitInv`
and `SlotInv`. In a cost split the session, the approval and the agreement move with the
driver (`DriverInv`); the amount on the table is the last one the other side named
(`TableInv`), and so is what an owner is asked about (`AskedInv`). Under it stand lemmas
about the arithmetic of `CostSplitStrategy`: whatever the rounding, a clone that
concedes does not go back behind its own last amount nor beyond its reservation or floor
(`ResponderMoves`, `InitiatorMoves`). In a meeting every candidate is clear of every
entry of its calendar in its timezone (`CandidatesFit`), and what is chosen was offered.
The search for slots is a recursive function (`Keep`) and the calendar a flattened
sequence. What they compute for every length is proved by the principle of the least
number (`LeastNatural`, from the well-foundedness of `<`): the least length at which the
claim fails leads to a smaller one.

**The argument of `MemoryRouter_proofs`.** That a memory is in a note or in a row is not
inductive: between the note and the removal of the row it came from, what matters is what a
request carries. `NothingLost` adds it: once a note is written its text is *kept* (in a
note, or taken out of one by its owner or by a memory of its title), so the row may go. That
a write takes only the place of its own title is `PathsAgree`: the note at a path, every row
of the program's notes for it and every request about to write there have one title, and
the note is not the owner's; a new path is nobody's. It rests on `Sound`, which says what
requests may rely on: rows keep their path and source while others work (`AimSound`,
`LookSound`), and what a migration has collected stays what it was (`TodoSound`), since rows
are only added, rewritten in place or deactivated (`RowsStep`). `IndexTheorem` adds
`CalmInv`: while a request is calm nobody else is at work, and what it has listed and read is
what is there now. Then every note that was read has either a row, the first of its path,
which is rewritten and active afterwards, or is imported: the list of imports has as many
entries as there are new notes and never repeats one, so it misses none
(`IncreasingHasAll`).

**The arguments of `Representation_proofs`.** `OnlyReviewedAct`: whatever is bound, decides
or is about to be activated or to act was reviewed, and no step leads back to
`review_required`. `OneMoves` and `RequestStep` say what a step can do to a request
(`Moves`): what is newly read is what the rows say now, and everything else was in the
request before. For a deletion that, with `SpoiledAreOut` (a spoiled clone is outdated),
leaves no way to take the clone up; `SpoiledActs` goes through the steps that act and finds
the clone in the request that does. For a block it is the same of the peer (`BlockedStep`),
with `RequestsAccord`: a request is about the peer of its session, and only one is about a
session that is not there yet.

**The arguments of `CoreDiscovery_proofs`.** `OneCore` needs to know what lies between a
check and the publication that follows it (`WindowInv`): without overlap one Core at most
is there, the temporary file is its own, and no Core is published, because the check found
none alive. `OneWorker` follows with `WorkerInv`: a busy worker keeps its Core from ending
its publication. `OneRunner` rests on the conditional UPDATE alone (`RunInv`): a task that
somebody runs is not queued.

Only model-checked: liveness (`WaitingEnds`, `EveryNegotiationConcludes`, `RunningEnds`,
`ResolutionReachesTask`, `LocalConcludes`), since the prover knows neither ENABLED nor the
rules of fairness, and of course the runs that end in a counterexample. The induction
theorems of the library cannot be used, as they take an operator as a parameter; where a
proof goes over the length of a sequence it uses the least number instead. There is no
RECURSIVE operator in the development.

## What the code does otherwise

Each of these is a run that TLC ends with a counterexample.

* `v_rounds` (`CounterRoundsBounded`). `docs/protocol.md:12` allows at most three
  COUNTERs. An owner who chooses another slot sends one without the rounds being looked
  at (`remote_negotiation.py:823`); the peer drops it and both sessions stay open.
* `v_recover` (`OnlyStoppedInterrupted`). A task is given up as interrupted "while the worker
  was stopped" (`tasks.py:383`). `lifespan` does this before `publish` looks for another Core
  (`main.py:34`, `:38`): a second Core fails the task the first one is running, and only
  then refuses to start.
* `v_defunct` (`CallStartsCore`). `docs/mcp-control-plane.md:15`: a call without a running
  Core starts one. A headless Core that dies stays a defunct child of the client that
  started it (`client.py:144`); its process id passes for alive, and no call gets as far as
  a start until that client exits.

The models show more that disagrees with a document; it has no run of its own. The first
four are stated as a property of their module, which TLC refutes as soon as it is added to
the configuration that is named.

* `IndexIsExact` (`memory.cfg`). `docs/second-brain.md:17` says that a search takes in what
  changed in the notes. A synchronisation that runs between the write of a note and the
  commit of its row inserts a second row (`external_memory.py:253`), and from then on only
  one of the two is kept up to date.
* `RoleIsKept` (`representation.cfg`). The docstring of `_resolve_own_identity`
  (`remote_negotiation.py:842`) judges the own side by the recorded agent ids. The role in a
  cost split is judged by the clone that acts (`remote_negotiation.py:1014`): after the
  owner has activated another clone, the side that began bargains as the other.
* `TakesOver` (`discovery.cfg`, with `FairSpec`, `Slow = FALSE` and `MaxLost = 0`).
  `README.md:260`: the app safely takes over. It waits 3 seconds for a Core that stops
  (`process/mod.rs:60`); one that runs a task takes longer, and the app's own Core refuses
  to start beside it and is not started again.
* `LiveFileKept` (`discovery.cfg`). `test_mcp_control_plane.py:167`: a live `core.json` must
  not be overwritten. An app takes no lock, so its Core and a client's may both pass the
  check (`core_discovery.py:46`).
* `README.md:130`: once expired, an approval can no longer be approved. For remote sessions
  only its status is looked at (`remote_negotiation.py:701`), so it can until the worker
  has expired it.
* `docs/mcp-control-plane.md:15`: an app stops only a headless Core. It also stops one that
  another app owns (`process/mod.rs:41`).
* A comment (`remote_negotiation.py:1243`) says that the reply is settled by the transaction
  that handles a message. The policy lookup commits in between (`:1017`); after a crash
  there the offer is consumed and never answered.
* The outbox is documented to lose no decision while the Relay is down
  (`models/negotiation.py:129`). An envelope keeps the time it was signed at and is refused
  after 300 seconds, when its sender has recorded the outcome.
* A reject that is answered with success cancels the task (`tests/test_tasks.py:201`), and a
  second resolution is refused (`tests/test_approvals.py:59`). When both calls pass the
  check before either commits (`approvals.py:145`), the approval ends rejected and the task
  is run.
* `README.md:147` says that a cost split also stops on its own amount limits and on the
  `high_value` rule. Both are looked at only above the reservation
  (`cost_split_strategy.py:80`); below it a clone agrees without them.

And this no document denies.

* *Tasks*: a cancellation committed during a run ends the task as failed; a slow catch-up in
  `get_task` can queue a task a second time; a cancellation just after the end leaves the
  task cancelling until the next start; a local negotiation whose approval is resolved
  before its second commit waits for ever.
* *Negotiations*: a COUNTER of a peer with a version-1 card in a session this node began is
  refused (`remote_negotiation.py:874`), though such a peer may be asked for a meeting; the
  amount of an ACCEPT in a cost split is taken as the peer says it (`cost_split.py:334`); the
  clones a local negotiation loaded are not read again when another is activated; a clone that
  is outdated between `:1008` and `:1025` still answers; a peer that is blocked while a page of
  its messages is handled is answered to the end of the page, or to the first message that is
  refused; a blocked peer still gets the envelopes that are queued and the replies an owner
  approves.
* *Memories*: an older pending memory that is migrated later overwrites a newer note of its
  title; an internal memory that is deleted while it is migrated comes back as a note; a
  deleted index row is back after the next synchronisation; a folder that vanishes during
  one marks rows as deleted; deletions by a synchronisation or a migration do not mark
  clones.
* *Clones*: two clones can be active at once, and a second activation that was under way
  brings back a clone that a deletion had outdated; a rebuild drops the saved meeting
  preferences; the confidence of a clone never falls, although comments say when it should
  (`clones.py:125`).

## Not modelled

* Cryptography and data formats: signatures, canonical JSON, schemas, keys, identity cards
  beyond what they make of a peer.
* Text interpretation (`intent_interpreter`, the wording of `agent_requests` and
  `second_brain`), reports, metrics and the audit log: nothing else depends on them.
* Disclosure policies: what a clone is told about a memory is not what it decides on.
* `update_memory`, which nothing calls; `effective_until`; limits on the number and size of
  notes.
* The Relay's in-memory store (for unit tests), its authentication, and refusals that
  never end (an unknown receiver).
* A foreign implementation at the other end. It could send what this code never does, for
  example a REJECT to a session that waits for its owner (`approvals.py:112`).
* The external coding tools: the task model takes their result as open.
* The user interface, and the translation of MCP calls to HTTP calls.
* The reuse of process ids, and Cores that are started by hand.

Parts with status `partly` in `PROJECT.json` say what is missing.

## Plan

Done: the core of remote negotiation with its refinement, delivery, tasks, local
negotiations over real amounts and slots, the memory router, clones and peers, and the
processes around `core.json`; type correctness and every safety property of a run as
theorems.

Left, in order of importance:

1. A permanent refusal of the Relay with two peers, for the liveness of the outbox.
2. Disclosure: what a peer learns of a memory under its policy, composed with
   `Representation`.
