----------------------------- MODULE Representation -----------------------------
(***************************************************************************)
(* Who may speak for the owner of a node, and with whom: clones and the    *)
(* memories they are drafted from (services/clones.py, clone_bootstrap.py, *)
(* memories.py), the personal agent that delegates to one of them          *)
(* (agent_requests.py), the peers (peers.py, identity_cards.py), and the   *)
(* checks at the peers of a negotiation (remote_negotiation.py).           *)
(*                                                                         *)
(* A request reads rows one by one and takes SQLite's write lock at its    *)
(* first write, so what it read before may have changed by then: a request *)
(* is a step that reads and a step that writes.                            *)
(*                                                                         *)
(* A poll of the inbox holds on to rows.  Its database session keeps the   *)
(* values it has loaded across commits (expire_on_commit=False) for as     *)
(* long as a local variable holds their row, and process_inbox holds the   *)
(* sender's peer and the receiver's personal agent from one message of a   *)
(* page to the next; only a rollback drops them.  The handler runs under   *)
(* the write lock from the recording of the message_id to the first commit *)
(* of the policies, which is between the choice of the acting clone and    *)
(* its answer.                                                             *)
(***************************************************************************)
EXTENDS Naturals, Sequences, FiniteSets, FiniteSetsExt

CONSTANTS
  Memory,      \* memories of the owner
  Title,       \* the (memory_type, title) pairs of memories
  TitleOf,     \* that pair of each memory
  Secret,      \* memories of sensitivity "secret"
  Peer,        \* nodes of other owners
  Intent,      \* "meeting.schedule" and "cost.split"
  Card,        \* what peers' cards say: the intents declared, {} for version 1,
               \* and whether there is a personal_agent_id
  Session,     \* negotiation sessions
  Thread,      \* requests and inbox polls under way at a time
  MaxClones,   \* bound on clones drafted
  MaxTurns     \* bound on the offers a session receives

ASSUME ConstantsAssumption ==
  /\ TitleOf \in [Memory -> Title]
  /\ Peer # {}
  /\ "meeting.schedule" \in Intent
  /\ Secret \subseteq Memory
  /\ Card \subseteq [declares : SUBSET Intent, ownerId : BOOLEAN]
  /\ MaxClones \in Nat
  /\ MaxTurns \in Nat

VARIABLES
  memories,  \* MemoryItem.status
  clones,    \* the CloneAgent rows, by created_at
  personal,  \* PersonalAgent.active_clone_id, 0 for None
  peers,     \* the PeerAgent rows
  sessions,  \* the NegotiationSession rows
  req,       \* what each thread has read and is about to write
  spoiled    \* clones a deleted memory outdated, that were not activated since

vars == <<memories, clones, personal, peers, sessions, req, spoiled>>
owner == <<memories, clones, spoiled>>

--------------------------------------------------------------------------------
(* Rows *)

Clone == [status : {"review_required", "active", "outdated"}, snapshot : SUBSET Memory]

PeerRow == [status : {"none", "pending", "trusted", "blocked"},
            declares : SUBSET Intent, ownerId : BOOLEAN]

NoPeer == [status |-> "none", declares |-> {}, ownerId |-> FALSE]

\* bound is initiator_clone_id where this node began the session, and
\* responder_clone_id where the peer did; decider is the clone of the last
\* offer sent or answered, and roles the roles it was answered in.
NoSession == [side |-> "none", intent |-> "meeting.schedule", peer |-> CHOOSE p \in Peer : TRUE,
              bound |-> 0, decider |-> 0, turns |-> 0, roles |-> {}]

SessionRow ==
  [side : {"none", "initiator", "responder"}, intent : Intent, peer : Peer, bound : Nat,
   decider : Nat, turns : Nat, roles : SUBSET {"initiator", "responder"}]

\* clone is the clone a request is about, known what it read of the memories,
\* about the negotiation it is about, peer the peer it has checked; held says
\* whether it holds the personal agent, and delegate what active_clone_id is in
\* that row.  A poll that holds rows of its last message is at "page".
Request ==
  [pc : {"idle", "draft", "retire", "activate", "point", "trust", "start", "bind", "open",
         "inbox", "decide", "page"},
   clone : Nat, known : SUBSET Memory, about : SUBSET (Session \X Peer \X Intent),
   peer : SUBSET Peer, held : BOOLEAN, delegate : Nat]

Idle == [pc |-> "idle", clone |-> 0, known |-> {}, about |-> {}, peer |-> {},
         held |-> FALSE, delegate |-> 0]

ForClone(pc, c) == [Idle EXCEPT !.pc = pc, !.clone = c]

ForSession(pc, s, p, i) == [Idle EXCEPT !.pc = pc, !.about = {<<s, p, i>>}, !.peer = {p}]

Is(c, s) == c \in DOMAIN clones /\ clones[c].status = s

\* Faulty: a clone waiting for review counts as one that may act.
NewestUnretired ==
  LET usable == {c \in DOMAIN clones : clones[c].status # "outdated"}
  IN  IF usable = {} THEN 0 ELSE Max(usable)

\* The newest active clone (ensure_personal_agent, _find_active_clone), 0 if none.
NewestActive ==
  LET active == {c \in DOMAIN clones : clones[c].status = "active"}
  IN  IF active = {} THEN 0 ELSE Max(active)

\* exportable_memories
Exportable == {m \in Memory : memories[m] = "active" /\ m \notin Secret}

\* _deduplicate: one memory for each (type, title); which one depends on
\* confidence and updated_at.
Deduplicated(S) ==
  {T \in SUBSET S : \A m \in S : Cardinality({n \in T : TitleOf[n] = TitleOf[m]}) = 1}

TypeOK ==
  /\ memories \in [Memory -> {"none", "active", "deleted"}]
  /\ clones \in Seq(Clone)
  /\ personal \in 0..Len(clones)
  /\ peers \in [Peer -> PeerRow]
  /\ sessions \in [Session -> SessionRow]
  /\ \A s \in Session : sessions[s].bound \in 0..Len(clones) /\ sessions[s].decider \in 0..Len(clones)
  /\ req \in [Thread -> Request]
  /\ \A t \in Thread : req[t].clone \in 0..Len(clones) /\ req[t].delegate \in 0..Len(clones)
  /\ spoiled \subseteq DOMAIN clones

Init ==
  /\ memories = [m \in Memory |-> "none"]
  /\ clones = <<>>
  /\ personal = 0
  /\ peers = [p \in Peer |-> NoPeer]
  /\ sessions = [s \in Session |-> NoSession]
  /\ req = [t \in Thread |-> Idle]
  /\ spoiled = {}

At(t, pc) == req[t].pc = pc

Continue(t, r) == req' = [req EXCEPT ![t] = r]

Begin(t, r) == req[t] = Idle /\ Continue(t, r)

Done(t) == Continue(t, Idle)

--------------------------------------------------------------------------------
(* Memories *)

\* create_memory
CreateMemory(m) ==
  /\ memories[m] = "none"
  /\ memories' = [memories EXCEPT ![m] = "active"]
  /\ UNCHANGED <<clones, personal, peers, sessions, req, spoiled>>

\* Faulty: only the clone the personal agent delegates to is marked.
MarkedDelegate(m) == {c \in {personal} : Is(c, "active") /\ m \in clones[c].snapshot}

\* _mark_clones_outdated_for_memory
Marked(m) == {c \in DOMAIN clones : Is(c, "active") /\ m \in clones[c].snapshot}

\* The clones that speak from m.
SpeakFrom(m) == {c \in DOMAIN clones : Is(c, "active") /\ m \in clones[c].snapshot}

\* delete_memory, of a memory in any status.
DeleteMemory(m) ==
  /\ memories[m] # "none"
  /\ memories' = [memories EXCEPT ![m] = "deleted"]
  /\ clones' = [c \in DOMAIN clones |->
                  IF c \in Marked(m) THEN [clones[c] EXCEPT !.status = "outdated"] ELSE clones[c]]
  /\ spoiled' = spoiled \cup SpeakFrom(m)
  /\ UNCHANGED <<personal, peers, sessions, req>>

--------------------------------------------------------------------------------
(* Clones *)

\* The memories a draft is built from are read before it is stored.
ReadMemories(t, old) ==
  /\ Len(clones) < MaxClones
  /\ \E T \in Deduplicated(Exportable) : Begin(t, [ForClone("draft", old) EXCEPT !.known = T])
  /\ UNCHANGED <<owner, personal, peers, sessions>>

\* ensure_clone reuses an active clone, or a draft that waits for its review.
EnsureClone(t) ==
  /\ \A c \in DOMAIN clones : clones[c].status = "outdated"
  /\ ReadMemories(t, 0)

\* rebuild_clone, of a clone in any status.
RebuildClone(t) == \E c \in DOMAIN clones : ReadMemories(t, c)

\* Faulty: a draft begins as CloneStatus.DRAFT, which no code reads.
NewDraft(S) == [status |-> "draft", snapshot |-> S]

NewClone(S) == [status |-> "review_required", snapshot |-> S]

\* build_clone_draft commits; rebuild_clone retires the old clone in a second
\* transaction.
StoreDraft(t) ==
  /\ At(t, "draft")
  /\ clones' = Append(clones, NewClone(req[t].known))
  /\ IF req[t].clone = 0 THEN Done(t) ELSE Continue(t, ForClone("retire", req[t].clone))
  /\ UNCHANGED <<memories, personal, peers, sessions, spoiled>>

RetireOld(t) ==
  /\ At(t, "retire")
  /\ clones' = [clones EXCEPT ![req[t].clone].status = "outdated"]
  /\ Done(t)
  /\ UNCHANGED <<memories, personal, peers, sessions, spoiled>>

\* No code pauses a clone.
Activatable(c) == clones[c].status = "review_required"

ActivateClone(t) ==
  /\ \E c \in DOMAIN clones :
       Activatable(c) /\ Begin(t, ForClone("activate", c))
  /\ UNCHANGED <<owner, personal, peers, sessions>>

\* The personal agent delegates to the clone that was activated last.
StoreActivation(t) ==
  /\ At(t, "activate")
  /\ clones' = [clones EXCEPT ![req[t].clone].status = "active"]
  /\ personal' = req[t].clone
  /\ spoiled' = spoiled \ {req[t].clone}
  /\ Done(t)
  /\ UNCHANGED <<memories, peers, sessions>>

\* ensure_personal_agent, as the identity, card and self routes call it.
ReadActive(t) ==
  /\ NewestActive # 0
  /\ Begin(t, ForClone("point", NewestActive))
  /\ UNCHANGED <<owner, personal, peers, sessions>>

Delegate(t) ==
  /\ At(t, "point")
  /\ personal' = req[t].clone
  /\ Done(t)
  /\ UNCHANGED <<owner, peers, sessions>>

--------------------------------------------------------------------------------
(* Peers *)

\* register_from_card, once verify_card accepts the card.
Registered(card) == [status |-> "pending", declares |-> card.declares, ownerId |-> card.ownerId]

\* register_peer; a peer that is there is not replaced.
RegisterPeer(p) ==
  /\ peers[p] = NoPeer
  /\ \E card \in Card : peers' = [peers EXCEPT ![p] = Registered(card)]
  /\ UNCHANGED <<owner, personal, sessions, req>>

\* Faulty: a blocked peer can be trusted again.
MayBeTrustedAgain(p) == peers[p].status \in {"pending", "blocked"}

\* Trusting a trusted peer writes nothing.
MayBeTrusted(p) == peers[p].status = "pending"

TrustPeer(t) ==
  /\ \E p \in Peer : MayBeTrusted(p) /\ Begin(t, [Idle EXCEPT !.pc = "trust", !.peer = {p}])
  /\ UNCHANGED <<owner, personal, peers, sessions>>

StoreTrust(t) ==
  /\ At(t, "trust")
  /\ peers' = [p \in Peer |->
                 IF p \in req[t].peer THEN [peers[p] EXCEPT !.status = "trusted"] ELSE peers[p]]
  /\ Done(t)
  /\ UNCHANGED <<owner, personal, sessions>>

BlockPeer(p) ==
  /\ peers[p].status \in {"pending", "trusted"}
  /\ peers' = [peers EXCEPT ![p].status = "blocked"]
  /\ UNCHANGED <<owner, personal, sessions, req>>

--------------------------------------------------------------------------------
(* Beginning a negotiation: start_remote_negotiation *)

\* session_id is a fresh uuid.
Fresh(s) ==
  /\ sessions[s] = NoSession
  /\ \A t \in Thread : \A a \in req[t].about : a[1] # s

\* _require_trusted_peer, which resolve_trusted_peer asks before it.
Trusted(p) == peers[p].status = "trusted"

\* _require_peer_capability
MayBeAsked(p, i) ==
  \/ peers[p].declares = {} /\ i = "meeting.schedule"
  \/ i \in peers[p].declares

CheckPeer(t) ==
  /\ \E s \in Session, p \in Peer, i \in Intent :
       /\ Fresh(s)
       /\ Trusted(p)
       /\ MayBeAsked(p, i)
       /\ Begin(t, ForSession("start", s, p, i))
  /\ UNCHANGED <<owner, personal, peers, sessions>>

\* ensure_personal_agent reads the active clone.
FindDelegate(t) ==
  /\ At(t, "start")
  /\ Continue(t, [req[t] EXCEPT !.pc = "bind", !.clone = NewestActive])
  /\ UNCHANGED <<owner, personal, peers, sessions>>

Open(t, clone) ==
  /\ \E a \in req[t].about :
       sessions' = [sessions EXCEPT ![a[1]] =
         [NoSession EXCEPT !.side = "initiator", !.peer = a[2], !.intent = a[3],
                           !.bound = clone, !.decider = clone]]
  /\ Done(t)

\* The delegate is the clone just read, whose status is not read again, or else
\* the one the personal agent has.
StartsAs(t) ==
  IF req[t].clone # 0 THEN req[t].clone ELSE IF Is(personal, "active") THEN personal ELSE 0

\* Nobody may act: CLONE_REVIEW_REQUIRED, and the request is rolled back.
RefuseStart(t) ==
  /\ At(t, "bind")
  /\ StartsAs(t) = 0
  /\ Done(t)
  /\ UNCHANGED <<owner, personal, peers, sessions>>

\* The personal agent changes: its update holds the write lock to the commit.
StartAsNewDelegate(t) ==
  /\ At(t, "bind")
  /\ StartsAs(t) \notin {0, personal}
  /\ personal' = StartsAs(t)
  /\ Open(t, StartsAs(t))
  /\ UNCHANGED <<owner, peers>>

StartAsDelegate(t) ==
  /\ At(t, "bind")
  /\ StartsAs(t) # 0
  /\ StartsAs(t) = personal
  /\ Continue(t, [req[t] EXCEPT !.pc = "open", !.clone = personal])
  /\ UNCHANGED <<owner, personal, peers, sessions>>

OpenSession(t) ==
  /\ At(t, "open")
  /\ Open(t, req[t].clone)
  /\ UNCHANGED <<owner, personal, peers>>

--------------------------------------------------------------------------------
(* Answering a peer: process_inbox and _handle_envelope *)

\* A row that is still held is not read again: the peer, if the message before
\* came from it too, and the personal agent, if that message named it as its
\* receiver.  A peer without a personal_agent_id names nobody.
DelegateRead(t, p) ==
  IF ~peers[p].ownerId THEN 0 ELSE IF req[t].held THEN req[t].delegate ELSE personal

\* process_inbox takes messages of trusted peers: a REQUEST of a new session,
\* or an offer of one that is there (_require_bound_to_session).
CheckSender(t) ==
  /\ req[t] = Idle \/ At(t, "page")
  /\ \E s \in Session, p \in Peer, i \in Intent :
       /\ p \in req[t].peer \/ Trusted(p)
       /\ \/ Fresh(s)
          \/ /\ sessions[s].side # "none" /\ sessions[s].peer = p /\ sessions[s].intent = i
             /\ sessions[s].turns < MaxTurns
       /\ Continue(t, [ForSession("inbox", s, p, i) EXCEPT !.held = peers[p].ownerId,
                                                            !.delegate = DelegateRead(t, p)])
  /\ UNCHANGED <<owner, personal, peers, sessions>>

\* The poll goes on to the page's next message, and still holds its rows.
NextMessage(t, P) == Continue(t, [req[t] EXCEPT !.pc = "page", !.clone = 0, !.about = {}, !.peer = P])

\* A sender that is no trusted peer is refused.  The peer before it is let go,
\* the personal agent is not.
RefuseSender(t) ==
  /\ At(t, "page")
  /\ req[t].held
  /\ NextMessage(t, {})
  /\ UNCHANGED <<owner, personal, peers, sessions>>

\* _require_peer_capability_for_receive: an empty declaration is no restriction.
MayAsk(p, i) == peers[p].declares = {} \/ i \in peers[p].declares

\* With a personal_agent_id the clone is the delegate, in whatever status.
Responder(t, p) == IF peers[p].ownerId THEN req[t].delegate ELSE NewestActive

HandleRequest(t) ==
  /\ At(t, "inbox")
  /\ \E a \in req[t].about :
       /\ sessions[a[1]] = NoSession
       /\ MayAsk(a[2], a[3])
       /\ Responder(t, a[2]) # 0
       /\ sessions' = [sessions EXCEPT ![a[1]] =
            [NoSession EXCEPT !.side = "responder", !.peer = a[2], !.intent = a[3],
                              !.bound = Responder(t, a[2])]]
  /\ NextMessage(t, req[t].peer)
  /\ UNCHANGED <<owner, personal, peers>>

\* Faulty: the delegate decides in whatever status.
ActingCloneUnchecked(t, s) ==
  IF peers[sessions[s].peer].ownerId THEN req[t].delegate
  ELSE IF sessions[s].side = "responder" THEN NewestActive ELSE 0

\* _resolve_own_identity: the delegate if it is active now.  A peer without a
\* personal_agent_id answers to the node's id, which is no party of a session
\* this node began: that message is refused.
ActingClone(t, s) ==
  IF peers[sessions[s].peer].ownerId
    THEN (IF Is(req[t].delegate, "active") THEN req[t].delegate ELSE 0)
  ELSE IF sessions[s].side = "responder" THEN NewestActive ELSE 0

\* _handle_envelope: the clone that began the session is its initiator.
RoleOf(s, c) ==
  IF sessions[s].side = "initiator" /\ sessions[s].bound = c THEN "initiator" ELSE "responder"

\* The offer is stored and the acting clone resolved; the policies' commit ends
\* the transaction.
TakeOffer(t) ==
  /\ At(t, "inbox")
  /\ \E a \in req[t].about :
       /\ sessions[a[1]].side # "none"
       /\ ActingClone(t, a[1]) # 0
       /\ Continue(t, [req[t] EXCEPT !.pc = "decide", !.clone = ActingClone(t, a[1])])
  /\ UNCHANGED <<owner, personal, peers, sessions>>

\* The clone resolved decides, and the answer is committed.
AnswerOffer(t) ==
  /\ At(t, "decide")
  /\ \E a \in req[t].about :
       /\ sessions[a[1]].turns < MaxTurns
       /\ sessions' = [sessions EXCEPT ![a[1]].decider = req[t].clone, ![a[1]].turns = @ + 1,
                                       ![a[1]].roles = @ \cup {RoleOf(a[1], req[t].clone)}]
  /\ NextMessage(t, req[t].peer)
  /\ UNCHANGED <<owner, personal, peers>>

\* The envelope does not verify, or is known: it is acked, and the rows stay.
SkipMessage(t) ==
  /\ At(t, "inbox")
  /\ NextMessage(t, req[t].peer)
  /\ UNCHANGED <<owner, personal, peers, sessions>>

\* The handler refuses the message or fails, and the rollback drops the rows; or
\* the page is done, or goes on with a message that lets go of all it holds.
DropRows(t) ==
  /\ req[t].pc \in {"inbox", "decide", "page"}
  /\ Done(t)
  /\ UNCHANGED <<owner, personal, peers, sessions>>

--------------------------------------------------------------------------------

\* The process dies: requests lose what they read.
Crash ==
  /\ \E t \in Thread : req[t] # Idle
  /\ req' = [t \in Thread |-> Idle]
  /\ UNCHANGED <<owner, personal, peers, sessions>>

OwnerActs ==
  \/ \E m \in Memory : CreateMemory(m) \/ DeleteMemory(m)
  \/ \E p \in Peer : RegisterPeer(p) \/ BlockPeer(p)

Step(t) ==
  \/ EnsureClone(t) \/ RebuildClone(t) \/ StoreDraft(t) \/ RetireOld(t)
  \/ ActivateClone(t) \/ StoreActivation(t)
  \/ ReadActive(t) \/ Delegate(t)
  \/ TrustPeer(t) \/ StoreTrust(t)
  \/ CheckPeer(t) \/ FindDelegate(t) \/ RefuseStart(t)
  \/ StartAsNewDelegate(t) \/ StartAsDelegate(t) \/ OpenSession(t)
  \/ CheckSender(t) \/ RefuseSender(t) \/ SkipMessage(t) \/ DropRows(t)
  \/ HandleRequest(t) \/ TakeOffer(t) \/ AnswerOffer(t)

Next == OwnerActs \/ (\E t \in Thread : Step(t)) \/ Crash

Spec == Init /\ [][Next]_vars

--------------------------------------------------------------------------------
(* Properties *)

\* A clone represents nobody until the owner has reviewed it: a draft is never
\* the delegate, never bound to a session and never the one that decides an
\* offer, whatever drafts, activations and requests overlap.
DraftsActForNobody ==
  \A c \in {personal} \cup {sessions[s].bound : s \in Session} \cup {sessions[s].decider : s \in Session} :
    ~Is(c, "review_required")

\* A clone begins the session or answers an offer of it in this step.
Acts(s) ==
  \/ sessions'[s].turns # sessions[s].turns
  \/ sessions[s].side = "none" /\ sessions'[s].side = "initiator"

\* The clone a request has checked, and will activate or act as.
Checked(t) ==
  IF req[t].pc \in {"activate", "bind", "open", "decide"} THEN {req[t].clone} ELSE {}

\* delete_memory reaches every clone that speaks from that memory, however
\* many are active at once.  Until its owner activates it again, no request and
\* no message takes such a clone up; it begins a negotiation, answers an offer
\* or becomes active again only in one that had checked it before the deletion.
DeletionIsHeeded ==
  [][\A c \in spoiled :
       /\ \A t \in Thread : c \in Checked(t)' => c \in Checked(t)
       /\ \/ clones'[c].status # "outdated"
          \/ \E s \in Session : Acts(s) /\ sessions'[s].decider = c
          => \E t \in Thread : c \in Checked(t) /\ req'[t] # req[t]]_vars

\* No request and no poll takes up a peer that is blocked; it becomes trusted
\* again, a negotiation with it is opened or an offer of it is answered only in
\* one that had checked it before the block, or that still holds its row.
BlockIsHeeded ==
  [][\A p \in Peer : peers[p].status = "blocked" =>
       /\ \A t \in Thread : p \in req'[t].peer => p \in req[t].peer
       /\ \/ peers'[p].status # "blocked"
          \/ \E s \in Session : sessions'[s] # sessions[s] /\ sessions'[s].peer = p
          => \E t \in Thread : p \in req[t].peer /\ req'[t] # req[t]]_vars

\* _resolve_own_identity: the side a node takes in a session is settled by the
\* agent ids recorded in it.  What the cost strategy is told agrees with it.  (TLC
\* refutes this: README.)
RoleIsKept ==
  \A s \in Session : sessions[s].intent = "cost.split" => sessions[s].roles \subseteq {sessions[s].side}
================================================================================
