--------------------------- MODULE RemoteNegotiation ---------------------------
(***************************************************************************)
(* Two Local Cores negotiating through the Relay                           *)
(* (services/remote_negotiation.py with the relay worker, the approval     *)
(* routes and the relay mailbox they use).                                 *)
(*                                                                         *)
(* An action is one SQLite transaction of one thread, or one call to the   *)
(* Relay.  Where the code commits in the middle of a handler the handler   *)
(* is two actions, and a crash or another thread may come between them.    *)
(***************************************************************************)
EXTENDS ProtocolState

CONSTANTS
  Session,        \* negotiation sessions
  Value,          \* what can be agreed: meeting slots, or shares of a cost
  Thread,         \* callers of process_inbox on one node (worker and routes)
  IntentOf,       \* what a session is about: "meeting.schedule" or "cost.split"
  InitiatorOf,    \* the node whose owner starts a session
  Acceptable,     \* the values inside a node's own position
  Offers,         \* the offers a node's clone or owner may put on the wire
  HumanReview,    \* may a node's guards find a reason to ask its owner?
  MaxStarted,     \* bound on negotiations started
  MaxCrashes,     \* bound on process crashes and handler exceptions
  MaxDuplicates,  \* bound on relay calls whose outcome the caller misses
  MaxResolving,   \* bound on resolve_remote_approval calls at a time
  MayDiscard,     \* may a delivery be refused or lost before it is handled?
  MayReorder      \* may equal stored_at stamps reorder a mailbox?

Node == {"a", "b"}
Peer(n) == IF n = "a" THEN "b" ELSE "a"

ASSUME ConstantsAssumption ==
  /\ IntentOf \in [Session -> {"meeting.schedule", "cost.split"}]
  /\ InitiatorOf \in [Session -> Node]
  /\ Acceptable \in [Node -> SUBSET Value]
  /\ Offers \in [Node -> SUBSET SUBSET Value]
  /\ \A n \in Node : \A o \in Offers[n] : o \subseteq Acceptable[n]
  /\ HumanReview \in [Node -> SUBSET BOOLEAN]
  /\ MaxStarted \in Nat
  /\ MaxCrashes \in Nat
  /\ MaxDuplicates \in Nat
  /\ MaxResolving \in Nat
  /\ MayDiscard \in BOOLEAN
  /\ MayReorder \in BOOLEAN

VARIABLES
  status,       \* NegotiationSession.status, per node and session
  lastSequence, \* NegotiationSession.last_sequence
  pending,      \* NegotiationSession.pending_approval_id, 0 for None
  messages,     \* the NegotiationMessage rows of a session, by sequence
  agreement,    \* the Agreement row of a session: {} or {value}
  approvals,    \* the Approval rows of a node
  outbox,       \* the RelayOutbox rows of a node, by created_at
  seen,         \* the SeenMessage rows of a node
  mailbox,      \* the Relay's undelivered messages for a node, by stored_at
  work,         \* what each process_inbox caller is doing
  resolving,    \* resolve_remote_approval calls past their checks
  crashes,      \* crashes and handler exceptions so far
  duplicates    \* missed outcomes so far

store == <<status, lastSequence, pending, messages, agreement>>
vars == <<store, approvals, outbox, seen, mailbox, work, resolving, crashes, duplicates>>

--------------------------------------------------------------------------------
(* Data *)

\* A signed envelope.  message_id is a fresh uuid: HistoriesAgree says that a
\* session has at most one message per sequence, so the record identifies it.
Message == [sid : Session, from : Node, type : MessageTypes, seq : Nat, offer : SUBSET Value]

Envelope(s, n, type, seq, offer) ==
  [sid |-> s, from |-> n, type |-> type, seq |-> seq, offer |-> offer]

\* An approval is identified by its session and the sequence of the offer it is
\* about.  selected is the value the clone proposes to accept, if any.  An
\* "overdue" approval is a PENDING row whose expires_at has passed.
Approval == [sid : Session, seq : Nat, selected : SUBSET Value, candidates : SUBSET Value,
             status : {"pending", "overdue", "approved", "rejected", "expired"}]

Pending == {"pending", "overdue"}

OutboxRow == [msg : Message, status : {"pending", "sent"}, approval : Nat]

Idle == [stage |-> "idle"]
Busy == [stage : {"decide", "ack"}, msg : Message]

Resolution == [sid : Session, seq : Nat, target : {"approved", "rejected", "expired"}, last : Nat]

\* A sequence without its i-th element.
Without(q, i) == [j \in 1..Len(q) - 1 |-> IF j < i THEN q[j] ELSE q[j + 1]]

TypeOK ==
  /\ status \in [Node -> [Session -> Statuses]]
  /\ lastSequence \in [Node -> [Session -> Nat]]
  /\ pending \in [Node -> [Session -> Nat]]
  /\ messages \in [Node -> [Session -> Seq(Message)]]
  /\ agreement \in [Node -> [Session -> SUBSET Value]]
  /\ approvals \in [Node -> SUBSET Approval]
  /\ outbox \in [Node -> Seq(OutboxRow)]
  /\ seen \in [Node -> SUBSET Message]
  /\ mailbox \in [Node -> Seq(Message)]
  /\ work \in [Node -> [Thread -> {Idle} \cup Busy]]
  /\ resolving \in [Node -> SUBSET Resolution]
  /\ crashes \in 0..MaxCrashes
  /\ duplicates \in 0..MaxDuplicates

Init ==
  /\ status = [n \in Node |-> [s \in Session |-> "none"]]
  /\ lastSequence = [n \in Node |-> [s \in Session |-> 0]]
  /\ pending = [n \in Node |-> [s \in Session |-> 0]]
  /\ messages = [n \in Node |-> [s \in Session |-> <<>>]]
  /\ agreement = [n \in Node |-> [s \in Session |-> {}]]
  /\ approvals = [n \in Node |-> {}]
  /\ outbox = [n \in Node |-> <<>>]
  /\ seen = [n \in Node |-> {}]
  /\ mailbox = [n \in Node |-> <<>>]
  /\ work = [n \in Node |-> [t \in Thread |-> Idle]]
  /\ resolving = [n \in Node |-> {}]
  /\ crashes = 0
  /\ duplicates = 0

--------------------------------------------------------------------------------
(* Starting a negotiation *)

\* start_remote_negotiation: REQUEST and PROPOSE are saved and queued in one
\* commit; its flush_outbox is the Flush actions.  The checks before (trusted
\* peer, capability, delegation, active clone) only decide whether it happens.
Start(n, s) ==
  /\ InitiatorOf[s] = n
  /\ status[n][s] = "none"
  /\ Cardinality({u \in Session : status[InitiatorOf[u]][u] # "none"}) < MaxStarted
  /\ \E offer \in Offers[n] :
       LET request == Envelope(s, n, "REQUEST", 1, {})
           propose == Envelope(s, n, "PROPOSE", 2, offer)
           Row(m)  == [msg |-> m, status |-> "pending", approval |-> 0]
       IN  /\ messages' = [messages EXCEPT ![n][s] = <<request, propose>>]
           /\ outbox' = [outbox EXCEPT ![n] = @ \o <<Row(request), Row(propose)>>]
  /\ status' = [status EXCEPT ![n][s] = "open"]
  /\ lastSequence' = [lastSequence EXCEPT ![n][s] = 2]
  /\ UNCHANGED <<pending, agreement, approvals, seen, mailbox, work, resolving, crashes, duplicates>>

--------------------------------------------------------------------------------
(* Sending: flush_outbox *)

\* relay.send stores the envelope in the receiver's mailbox.
Deliver(n, m) == mailbox' = [mailbox EXCEPT ![Peer(n)] = Append(@, m)]

\* The row a flush sends next: it stops at the first row that fails.
FirstPending(n, i) ==
  /\ outbox[n][i].status = "pending"
  /\ \A j \in 1..i - 1 : outbox[n][j].status = "sent"

Flush(n) ==
  /\ \E i \in DOMAIN outbox[n] :
       /\ FirstPending(n, i)
       /\ Deliver(n, outbox[n][i].msg)
       /\ outbox' = [outbox EXCEPT ![n][i].status = "sent"]
  /\ UNCHANGED <<store, approvals, seen, work, resolving, crashes, duplicates>>

\* The Relay stored the envelope but the sender did not record it: the response
\* was lost, or the process died before the commit.  Or a second flush, whose
\* list of pending rows is older, sends a row again.
FlushDuplicate(n) ==
  /\ duplicates < MaxDuplicates
  /\ \E i \in DOMAIN outbox[n] :
       /\ FirstPending(n, i) \/ outbox[n][i].status = "sent"
       /\ Deliver(n, outbox[n][i].msg)
  /\ duplicates' = duplicates + 1
  /\ UNCHANGED <<store, approvals, outbox, seen, work, resolving, crashes>>

--------------------------------------------------------------------------------
(* Receiving: process_inbox, up to the first commit of _handle_envelope *)

\* The next delivery of a mailbox: the oldest one, or any of those whose
\* stored_at is the same (their order is that of random delivery ids).
Fetched(n, i) ==
  /\ i \in DOMAIN mailbox[n]
  /\ ~MayReorder => i = 1

Acks(n, t, m) == work' = [work EXCEPT ![n][t] = [stage |-> "ack", msg |-> m]]

\* Faulty: the rounds are not counted.
AcceptsAnyRound(n, m) ==
  ValidateIncoming(IF status[n][m.sid] = "none" THEN "open" ELSE status[n][m.sid],
                   lastSequence[n][m.sid], m.type, m.seq, LastType(messages[n][m.sid]), 0)

\* validate_incoming on the session's row, or on a session that is not there.
Accepts(n, m) ==
  ValidateIncoming(IF status[n][m.sid] = "none" THEN "open" ELSE status[n][m.sid],
                   lastSequence[n][m.sid], m.type, m.seq,
                   LastType(messages[n][m.sid]), CounterRounds(messages[n][m.sid]))

\* Refused before anything is stored: the peer is no longer trusted, the
\* envelope is outside the timestamp window, the clone is not active, the peer
\* may not see the calendar.  The delivery is acked and nothing else happens.
Discard(n, t, m) ==
  /\ MayDiscard
  /\ Acks(n, t, m)
  /\ UNCHANGED <<store, seen>>

\* check_and_record finds the message_id.
Duplicate(n, t, m) ==
  /\ m \in seen[n]
  /\ Acks(n, t, m)
  /\ UNCHANGED <<store, seen>>

\* _handle_envelope raises: the transaction is rolled back, the SeenMessage row
\* with it, and the delivery is acked.
Refuse(n, t, m) ==
  /\ m \notin seen[n]
  /\ ~Accepts(n, m)
  /\ Acks(n, t, m)
  /\ UNCHANGED <<store, seen>>

\* check_and_record and _save_message, in the transaction of the handler.
Record(n, m) ==
  /\ m \notin seen[n]
  /\ Accepts(n, m)
  /\ seen' = [seen EXCEPT ![n] = @ \cup {m}]
  /\ messages' = [messages EXCEPT ![n][m.sid] = Append(@, m)]
  /\ lastSequence' = [lastSequence EXCEPT ![n][m.sid] = m.seq]

\* A REQUEST creates the session and needs no reply.
HandleRequest(n, t, m) ==
  /\ m.type = "REQUEST"
  /\ Record(n, m)
  /\ status' = [status EXCEPT ![n][m.sid] = "open"]
  /\ Acks(n, t, m)
  /\ UNCHANGED <<pending, agreement>>

\* Faulty: every final message is recorded as an agreement.
HandleFinalAgreed(n, t, m) ==
  /\ m.type \in {"ACCEPT", "REJECT", "ERROR"}
  /\ Record(n, m)
  /\ status' = [status EXCEPT ![n][m.sid] = "agreed"]
  /\ agreement' = [agreement EXCEPT ![n][m.sid] = m.offer]
  /\ Acks(n, t, m)
  /\ UNCHANGED pending

\* ACCEPT, REJECT and ERROR end the session.
HandleFinal(n, t, m) ==
  /\ m.type \in {"ACCEPT", "REJECT", "ERROR"}
  /\ Record(n, m)
  /\ status' = [status EXCEPT ![n][m.sid] = IF m.type = "ACCEPT" THEN "agreed" ELSE "failed"]
  /\ agreement' = [agreement EXCEPT ![n][m.sid] = IF m.type = "ACCEPT" THEN m.offer ELSE @]
  /\ Acks(n, t, m)
  /\ UNCHANGED pending

\* An offer is saved, and the policy lookup that precedes the decision commits
\* it (_get_policy): the decision is a transaction of its own.
HandleOffer(n, t, m) ==
  /\ m.type \in OfferTypes
  /\ Record(n, m)
  /\ work' = [work EXCEPT ![n][t] = [stage |-> "decide", msg |-> m]]
  /\ UNCHANGED <<status, pending, agreement>>

Receive(n, t) ==
  /\ work[n][t] = Idle
  /\ \E i \in DOMAIN mailbox[n] :
       LET m == mailbox[n][i]
       IN  /\ Fetched(n, i)
           /\ \/ Discard(n, t, m)
              \/ Duplicate(n, t, m)
              \/ Refuse(n, t, m)
              \/ HandleRequest(n, t, m)
              \/ HandleFinal(n, t, m)
              \/ HandleOffer(n, t, m)
  /\ UNCHANGED <<approvals, outbox, mailbox, resolving, crashes, duplicates>>

--------------------------------------------------------------------------------
(* Deciding: the second transaction of _handle_envelope *)

\* Faulty: the reply is queued but not saved.
ReplyUnsaved(n, s, type, seq, offer, approval) ==
  /\ outbox' = [outbox EXCEPT ![n] =
                  Append(@, [msg |-> Envelope(s, n, type, seq, offer), status |-> "pending",
                             approval |-> approval])]
  /\ lastSequence' = [lastSequence EXCEPT ![n][s] = seq]
  /\ UNCHANGED messages

\* _save_message, _enqueue_envelope and last_sequence for one reply.
Reply(n, s, type, seq, offer, approval) ==
  LET m == Envelope(s, n, type, seq, offer)
  IN  /\ messages' = [messages EXCEPT ![n][s] = Append(@, m)]
      /\ outbox' = [outbox EXCEPT ![n] =
                      Append(@, [msg |-> m, status |-> "pending", approval |-> approval])]
      /\ lastSequence' = [lastSequence EXCEPT ![n][s] = seq]

\* The round of the decision about the offer just saved.
Rounds(n, s) == CounterRounds(messages[n][s]) + 1

\* Faulty: whatever the peer offers.
CommonOffered(n, m) == m.offer

\* The offered values inside the node's own position (intersect_slots; the
\* standing amount of a cost split when it is within the reservation price).
Common(n, m) == Acceptable[n] \cap m.offer

\* decide_remote_reply: the guards find a reason to ask the owner, or the
\* cost-split strategy escalates.
AskOwner(n, m) ==
  \/ TRUE \in HumanReview[n]
  \/ /\ IntentOf[m.sid] = "cost.split"
     /\ Common(n, m) = {} \/ Rounds(n, m.sid) >= MaxCounterRounds

Selections(n, m) ==
  IF IntentOf[m.sid] = "cost.split" THEN {m.offer}
  ELSE IF Common(n, m) = {} THEN {{}} ELSE {{v} : v \in Common(n, m)}

\* _request_human_decision
DecideApproval(n, m) ==
  /\ AskOwner(n, m)
  /\ \E selected \in Selections(n, m), candidates \in Offers[n] :
       approvals' = [approvals EXCEPT ![n] = @ \cup
         {[sid |-> m.sid, seq |-> m.seq, selected |-> selected, candidates |-> candidates,
           status |-> "pending"]}]
  /\ status' = [status EXCEPT ![n][m.sid] = "waiting_approval"]
  /\ pending' = [pending EXCEPT ![n][m.sid] = m.seq]
  /\ UNCHANGED <<lastSequence, messages, agreement, outbox>>

\* Faulty: accepts although the guards found a reason to ask the owner.
DecideAcceptUnasked(n, m) ==
  /\ \E v \in Common(n, m) :
       /\ Reply(n, m.sid, "ACCEPT", m.seq + 1, {v}, 0)
       /\ agreement' = [agreement EXCEPT ![n][m.sid] = {v}]
  /\ status' = [status EXCEPT ![n][m.sid] = "agreed"]
  /\ UNCHANGED <<pending, approvals>>

\* auto_accept
DecideAccept(n, m) ==
  /\ FALSE \in HumanReview[n]
  /\ \E v \in Common(n, m) :
       /\ Reply(n, m.sid, "ACCEPT", m.seq + 1, {v}, 0)
       /\ agreement' = [agreement EXCEPT ![n][m.sid] = {v}]
  /\ status' = [status EXCEPT ![n][m.sid] = "agreed"]
  /\ UNCHANGED <<pending, approvals>>

\* reject: only the responder of a cost split, above its negotiable amount.
DecideReject(n, m) ==
  /\ FALSE \in HumanReview[n]
  /\ IntentOf[m.sid] = "cost.split" /\ InitiatorOf[m.sid] # n /\ Common(n, m) = {}
  /\ Reply(n, m.sid, "REJECT", m.seq + 1, {}, 0)
  /\ status' = [status EXCEPT ![n][m.sid] = "failed"]
  /\ UNCHANGED <<pending, agreement, approvals>>

\* counter, while rounds are left
DecideCounter(n, m) ==
  /\ FALSE \in HumanReview[n]
  /\ Rounds(n, m.sid) < MaxCounterRounds
  /\ IF IntentOf[m.sid] = "cost.split" THEN InitiatorOf[m.sid] = n \/ Common(n, m) # {}
                              ELSE Common(n, m) = {}
  /\ \E offer \in Offers[n] : Reply(n, m.sid, "COUNTER", m.seq + 1, offer, 0)
  /\ UNCHANGED <<status, pending, agreement, approvals>>

\* Faulty: the reply fails the session with a status of its own.
DecideExhaustedError(n, m) ==
  /\ FALSE \in HumanReview[n]
  /\ IntentOf[m.sid] = "meeting.schedule" /\ Common(n, m) = {}
  /\ Rounds(n, m.sid) >= MaxCounterRounds
  /\ Reply(n, m.sid, "ERROR", m.seq + 1, {}, 0)
  /\ status' = [status EXCEPT ![n][m.sid] = "error"]
  /\ UNCHANGED <<pending, agreement, approvals>>

\* Faulty: nothing more is said when the rounds are over.
DecideExhaustedSilent(n, m) ==
  /\ FALSE \in HumanReview[n]
  /\ IntentOf[m.sid] = "meeting.schedule" /\ Common(n, m) = {}
  /\ Rounds(n, m.sid) >= MaxCounterRounds
  /\ UNCHANGED <<store, approvals, outbox>>

\* counter, with no round left: ERROR ends the session
DecideExhausted(n, m) ==
  /\ FALSE \in HumanReview[n]
  /\ IntentOf[m.sid] = "meeting.schedule" /\ Common(n, m) = {}
  /\ Rounds(n, m.sid) >= MaxCounterRounds
  /\ Reply(n, m.sid, "ERROR", m.seq + 1, {}, 0)
  /\ status' = [status EXCEPT ![n][m.sid] = "failed"]
  /\ UNCHANGED <<pending, agreement, approvals>>

Decide(n, t) ==
  /\ work[n][t].stage = "decide"
  /\ LET m == work[n][t].msg
     IN  /\ \/ DecideApproval(n, m)
            \/ DecideAccept(n, m)
            \/ DecideReject(n, m)
            \/ DecideCounter(n, m)
            \/ DecideExhausted(n, m)
         /\ Acks(n, t, m)
  /\ UNCHANGED <<seen, mailbox, resolving, crashes, duplicates>>

--------------------------------------------------------------------------------
(* Acknowledging *)

\* relay.ack removes the delivery.  When another caller already did, the Relay
\* answers 404 and the batch ends; there is nothing left to remove.
Ack(n, t) ==
  /\ work[n][t].stage = "ack"
  /\ LET m == work[n][t].msg
         Copy(i) == mailbox[n][i] = m /\ \A j \in 1..i - 1 : mailbox[n][j] # m
     IN  IF \E i \in DOMAIN mailbox[n] : Copy(i)
         THEN \E i \in DOMAIN mailbox[n] :
                Copy(i) /\ mailbox' = [mailbox EXCEPT ![n] = Without(@, i)]
         ELSE UNCHANGED mailbox
  /\ work' = [work EXCEPT ![n][t] = Idle]
  /\ UNCHANGED <<store, approvals, outbox, seen, resolving, crashes, duplicates>>

\* relay.ack raises: the batch ends and the delivery will be fetched again.
AckLost(n, t) ==
  /\ work[n][t].stage = "ack"
  /\ duplicates < MaxDuplicates
  /\ work' = [work EXCEPT ![n][t] = Idle]
  /\ duplicates' = duplicates + 1
  /\ UNCHANGED <<store, approvals, outbox, seen, mailbox, resolving, crashes>>

--------------------------------------------------------------------------------
(* Approvals: the owner, the relay worker and resolve_remote_approval *)

\* expires_at of a pending approval passes.
Overdue(n) ==
  /\ \E a \in approvals[n] :
       /\ a.status = "pending"
       /\ approvals' = [approvals EXCEPT ![n] = (@ \ {a}) \cup {[a EXCEPT !.status = "overdue"]}]
  /\ UNCHANGED <<store, outbox, seen, mailbox, work, resolving, crashes, duplicates>>

\* Faulty: an overdue approval can no longer be resolved at all.
BeginResolveInTime(n, target) ==
  /\ Cardinality(resolving[n]) < MaxResolving
  /\ \E a \in approvals[n] :
       /\ a.status = "pending"
       /\ target # "expired"
       /\ status[n][a.sid] = "waiting_approval"
       /\ pending[n][a.sid] = a.seq
       /\ resolving' = [resolving EXCEPT ![n] = @ \cup
            {[sid |-> a.sid, seq |-> a.seq, target |-> target, last |-> lastSequence[n][a.sid]]}]
       /\ resolving' # resolving
  /\ UNCHANGED <<store, approvals, outbox, seen, mailbox, work, crashes, duplicates>>

\* The checks of resolve_remote_approval, on rows read outside a transaction.
\* Only expire_if_needed looks at expires_at.
BeginResolve(n, target) ==
  /\ Cardinality(resolving[n]) < MaxResolving
  /\ \E a \in approvals[n] :
       /\ a.status \in Pending
       /\ status[n][a.sid] = "waiting_approval"
       /\ pending[n][a.sid] = a.seq
       /\ target = "expired" => a.status = "overdue"
       /\ resolving' = [resolving EXCEPT ![n] = @ \cup
            {[sid |-> a.sid, seq |-> a.seq, target |-> target, last |-> lastSequence[n][a.sid]]}]
       /\ resolving' # resolving
  /\ UNCHANGED <<store, approvals, outbox, seen, mailbox, work, crashes, duplicates>>

\* approval_reply for a yes.  A meeting is accepted as proposed, or countered
\* with another of the candidates; the amount of a cost split can be replaced.
ApprovedReplies(a) ==
  IF IntentOf[a.sid] = "cost.split"
  THEN {[type |-> "ACCEPT", offer |-> {v}] : v \in Value}
  ELSE {[type |-> IF a.selected = {} THEN "COUNTER" ELSE "ACCEPT",
         offer |-> IF a.selected = {} THEN a.candidates ELSE a.selected]}
         \cup {[type |-> "COUNTER", offer |-> {v}] : v \in a.candidates \ a.selected}

\* Faulty: no unique constraint.
NeverAnswered(n, s, id) == FALSE

\* RelayOutbox.approval_id is unique.
Answered(n, s, id) ==
  \E i \in DOMAIN outbox[n] : outbox[n][i].msg.sid = s /\ outbox[n][i].approval = id

\* Faulty: the approval row is not updated.
ResolveReplyOnly(n, r, a, type, offer) ==
  /\ Reply(n, r.sid, type, r.last + 1, offer, r.seq)
  /\ pending' = [pending EXCEPT ![n][r.sid] = 0]
  /\ status' = [status EXCEPT ![n][r.sid] =
                  CASE type = "ACCEPT"  -> "agreed"
                    [] type = "COUNTER" -> "open"
                    [] OTHER            -> "failed"]
  /\ agreement' = [agreement EXCEPT ![n][r.sid] = IF type = "ACCEPT" THEN offer ELSE @]
  /\ UNCHANGED approvals

Resolve(n, r, a, type, offer) ==
  /\ Reply(n, r.sid, type, r.last + 1, offer, r.seq)
  /\ pending' = [pending EXCEPT ![n][r.sid] = 0]
  /\ approvals' = [approvals EXCEPT ![n] = (@ \ {a}) \cup {[a EXCEPT !.status = r.target]}]
  /\ status' = [status EXCEPT ![n][r.sid] =
                  CASE type = "ACCEPT"  -> "agreed"
                    [] type = "COUNTER" -> "open"
                    [] OTHER            -> "failed"]
  /\ agreement' = [agreement EXCEPT ![n][r.sid] = IF type = "ACCEPT" THEN offer ELSE @]

\* The commit of resolve_remote_approval: the reply, the approval and the
\* session in one transaction, or none of them when the approval already has
\* its outbox row (IntegrityError).
CommitResolve(n, r) ==
  /\ r \in resolving[n]
  /\ resolving' = [resolving EXCEPT ![n] = @ \ {r}]
  /\ \/ /\ Answered(n, r.sid, r.seq)
        /\ UNCHANGED <<store, approvals, outbox>>
     \/ /\ ~Answered(n, r.sid, r.seq)
        /\ \E a \in approvals[n] :
             /\ a.sid = r.sid /\ a.seq = r.seq
             /\ IF r.target = "approved"
                THEN \E reply \in ApprovedReplies(a) : Resolve(n, r, a, reply.type, reply.offer)
                ELSE Resolve(n, r, a, "REJECT", {})
  /\ UNCHANGED <<seen, mailbox, work, crashes, duplicates>>

--------------------------------------------------------------------------------
(* Failures *)

\* The process of a node dies and is started again: every thread is gone, the
\* database keeps what was committed.
Crash(n) ==
  /\ crashes < MaxCrashes
  /\ work' = [work EXCEPT ![n] = [t \in Thread |-> Idle]]
  /\ resolving' = [resolving EXCEPT ![n] = {}]
  /\ crashes' = crashes + 1
  /\ UNCHANGED <<store, approvals, outbox, seen, mailbox, duplicates>>

\* The decision raises (the database is locked, say): it is rolled back, the
\* delivery is acked, and the offer saved by the first commit stays.
DecideFails(n, t) ==
  /\ crashes < MaxCrashes
  /\ work[n][t].stage = "decide"
  /\ Acks(n, t, work[n][t].msg)
  /\ crashes' = crashes + 1
  /\ UNCHANGED <<store, approvals, outbox, seen, mailbox, resolving, duplicates>>

\* The Relay's TTL removes a delivery.
Purge(n) ==
  /\ MayDiscard
  /\ \E i \in DOMAIN mailbox[n] : mailbox' = [mailbox EXCEPT ![n] = Without(@, i)]
  /\ UNCHANGED <<store, approvals, outbox, seen, work, resolving, crashes, duplicates>>

Next ==
  \E n \in Node :
    \/ \E s \in Session : Start(n, s)
    \/ Flush(n)
    \/ FlushDuplicate(n)
    \/ \E t \in Thread : \/ Receive(n, t)
                        \/ Decide(n, t) \/ DecideFails(n, t)
                        \/ Ack(n, t) \/ AckLost(n, t)
    \/ Overdue(n)
    \/ \E target \in {"approved", "rejected", "expired"} : BeginResolve(n, target)
    \/ \E r \in resolving[n] : CommitResolve(n, r)
    \/ Crash(n)
    \/ Purge(n)

Spec == Init /\ [][Next]_vars

\* The relay worker polls for ever, its handlers run to their end, time passes.
\* The owners, the failures and the Relay's own choices have no fairness.
Fairness ==
  \A n \in Node :
    /\ WF_vars(Flush(n))
    /\ \A t \in Thread : WF_vars(Receive(n, t)) /\ WF_vars(Decide(n, t)) /\ WF_vars(Ack(n, t))
    /\ WF_vars(Overdue(n))
    /\ WF_vars(BeginResolve(n, "expired"))
    /\ WF_vars(\E r \in resolving[n] : CommitResolve(n, r))

FairSpec == Spec /\ Fairness

--------------------------------------------------------------------------------
(* Properties *)

Last(q) == q[Len(q)]

\* The two nodes hold the same conversation: message by message, what one has
\* saved is a prefix of what the other has saved, although each appends its own
\* replies before the other sees them and crashes, duplicates and two inbox
\* callers interleave with validate_incoming's checks.
HistoriesAgree ==
  \A s \in Session : \A i \in DOMAIN messages["a"][s] \cap DOMAIN messages["b"][s] :
    messages["a"][s][i] = messages["b"][s][i]

\* A session that ended on both nodes ended the same way, with the same
\* canonical agreement (README.md, line 191), whoever sent the last message:
\* the sender records its outcome before the receiver hears of it.
OutcomesAgree ==
  \A s \in Session :
    (\A n \in Node : status[n][s] \in Terminal) =>
      /\ status["a"][s] = status["b"][s]
      /\ agreement["a"][s] = agreement["b"][s]

\* A session waits for its owner exactly while it points at an approval that
\* is still pending, and no approval is left pending by a session that moved
\* on: resolve_remote_approval would refuse it for ever.
WaitsIffPending(n) ==
  /\ \A s \in Session :
       status[n][s] = "waiting_approval" <=>
         \E a \in approvals[n] : a.sid = s /\ a.seq = pending[n][s] /\ a.status \in Pending
  /\ \A a \in approvals[n] :
       a.status \in Pending => status[n][a.sid] = "waiting_approval" /\ pending[n][a.sid] = a.seq

WaitingIffPending == \A n \in Node : WaitsIffPending(n)

\* An owner's decision is answered once: a resolved approval has exactly one
\* reply in the outbox, of the type its outcome calls for, and a pending one
\* has none, although two callers may both have passed the checks.
ResolvedOnce ==
  \A n \in Node : \A a \in approvals[n] :
    LET replies == {i \in DOMAIN outbox[n] : outbox[n][i].msg.sid = a.sid
                                             /\ outbox[n][i].approval = a.seq}
    IN  /\ Cardinality(replies) = IF a.status \in Pending THEN 0 ELSE 1
        /\ \A i \in replies :
             outbox[n][i].msg.type \in
               IF a.status = "approved" THEN {"ACCEPT", "COUNTER"} ELSE {"REJECT"}

\* A node commits its owner to a meeting only inside its own position, whoever
\* sends the ACCEPT: what a peer accepts is not checked against the offer it
\* answers (agreement_value_from_accept_delta), but a peer only accepts what it
\* was offered, and an owner chooses among the slots the approval lists.  Of a
\* cost split this is not true: the peer's owner may put in another amount.
AgreementWithinLimits ==
  \A n \in Node, s \in Session :
    status[n][s] = "agreed" /\ IntentOf[s] = "meeting.schedule" =>
      agreement[n][s] \subseteq Acceptable[n]

\* A reply that the guards reserve for the owner never leaves without the
\* owner: where every decision needs review, an ACCEPT on the wire answers an
\* approved approval of its sender, and it is the last thing the sender said.
OwnerDecides ==
  \A n \in Node : \A i \in DOMAIN outbox[n] :
    LET row == outbox[n][i]
    IN  HumanReview[n] = {TRUE} /\ row.msg.type = "ACCEPT" =>
          /\ \E a \in approvals[n] :
               a.sid = row.msg.sid /\ a.seq = row.msg.seq - 1 /\ a.status = "approved"
          /\ Last(messages[n][row.msg.sid]) = row.msg

\* Nothing changes a session that has ended: not a second resolution that read
\* the session before, not a late or repeated message.
TerminalIsFinal ==
  [][\A n \in Node, s \in Session :
       status[n][s] \in Terminal =>
         /\ status'[n][s] = status[n][s]
         /\ agreement'[n][s] = agreement[n][s]
         /\ messages'[n][s] = messages[n][s]]_vars

\* A negotiation that was started ends on both nodes, unless a process dies or
\* a delivery is lost: the rounds run out, approvals expire.
EveryNegotiationConcludes ==
  \A s \in Session :
    status[InitiatorOf[s]][s] # "none" ~>
      (\A n \in Node : status[n][s] \in Terminal) \/ crashes > 0

\* A session that waits for its owner stops waiting even when the owner never
\* answers, whatever crashes and losses happen around it: the relay worker
\* expires the approval.
WaitingEnds ==
  \A n \in Node, s \in Session :
    status[n][s] = "waiting_approval" ~> status[n][s] # "waiting_approval"

\* docs/protocol.md, line 12: "COUNTER (at most 3 rounds)".
CounterRoundsBounded ==
  \A n \in Node, s \in Session : CounterRounds(messages[n][s]) <= MaxCounterRounds

\* What holds instead.  The receiver of a COUNTER counts the rounds, the sender
\* of an owner's COUNTER does not: a log has at most one COUNTER too many, and
\* then it is the last message of its sender's log, the answer to an approval
\* the owner approved, and the peer never takes it.
OverrunIsTheOwners ==
  \A n \in Node, s \in Session :
    LET log == messages[n][s]
    IN  CounterRounds(log) > MaxCounterRounds =>
          /\ CounterRounds(log) = MaxCounterRounds + 1
          /\ Last(log).type = "COUNTER" /\ Last(log).from = n
          /\ \E a \in approvals[n] :
               a.sid = s /\ a.seq = Len(log) - 1 /\ a.status = "approved"
          /\ Len(messages[Peer(n)][s]) < Len(log)

--------------------------------------------------------------------------------
(* Why the histories agree: an inductive invariant *)

Final == {"ACCEPT", "REJECT", "ERROR"}

\* lastSequence counts the log, whose rows carry their own positions.
LogIsDense ==
  \A n \in Node, s \in Session :
    /\ lastSequence[n][s] = Len(messages[n][s])
    /\ \A i \in DOMAIN messages[n][s] : messages[n][s][i].seq = i /\ messages[n][s][i].sid = s

\* The sender of m holds m in its own log.
Stored(m) ==
  /\ m.seq \in DOMAIN messages[m.from][m.sid]
  /\ messages[m.from][m.sid][m.seq] = m

\* Nothing is received that its sender does not hold.
LogsAreStored ==
  \A n \in Node, s \in Session : \A i \in DOMAIN messages[n][s] : Stored(messages[n][s][i])

\* Nothing is on its way that its sender does not hold.
RowsAreStored ==
  \A n \in Node :
    /\ \A i \in DOMAIN outbox[n] : outbox[n][i].msg.from = n /\ Stored(outbox[n][i].msg)
    /\ \A i \in DOMAIN mailbox[n] : mailbox[n][i].from = Peer(n) /\ Stored(mailbox[n][i])

\* The initiator opens with a REQUEST and a PROPOSE, then the nodes alternate.
TurnsAlternate ==
  \A n \in Node, s \in Session : \A i \in DOMAIN messages[n][s] :
    /\ messages[n][s][i].type = "REQUEST" <=> i = 1
    /\ messages[n][s][i].from =
         IF i <= 2 THEN InitiatorOf[s] ELSE Peer(messages[n][s][i - 1].from)

\* The status of a session follows from the last message of its log, and only
\* the last message can be final.
StatusFollowsItsLog(n, s) ==
  /\ status[n][s] = "none" <=> messages[n][s] = <<>>
  /\ \A i \in DOMAIN messages[n][s] :
       messages[n][s][i].type \in Final =>
         /\ i = Len(messages[n][s])
         /\ status[n][s] = IF messages[n][s][i].type = "ACCEPT" THEN "agreed" ELSE "failed"
  /\ status[n][s] \in Terminal => Last(messages[n][s]).type \in Final
  /\ agreement[n][s] = IF status[n][s] = "agreed" THEN Last(messages[n][s]).offer ELSE {}
  /\ status[n][s] = "waiting_approval" =>
       /\ Last(messages[n][s]).type \in OfferTypes
       /\ Last(messages[n][s]).from = Peer(n)
       /\ pending[n][s] = Len(messages[n][s])

StatusFollowsLog == \A n \in Node, s \in Session : StatusFollowsItsLog(n, s)

\* A caller decides about the last message of an open session, alone.
DecidesTheLast ==
  \A n \in Node, t \in Thread :
    work[n][t].stage = "decide" =>
      LET m == work[n][t].msg
      IN  /\ status[n][m.sid] = "open"
          /\ m.from = Peer(n) /\ m.type \in OfferTypes
          /\ m.seq = Len(messages[n][m.sid]) /\ messages[n][m.sid][m.seq] = m
          /\ \A u \in Thread : u # t /\ work[n][u].stage = "decide" => work[n][u].msg.sid # m.sid

\* A resolution that is not answered yet still finds the session it read.
ResolvesThePending ==
  \A n \in Node :
    /\ \A i \in DOMAIN outbox[n] :
         outbox[n][i].approval # 0 => outbox[n][i].msg.seq = outbox[n][i].approval + 1
    /\ \A r \in resolving[n] :
         \/ Answered(n, r.sid, r.seq)
         \/ /\ status[n][r.sid] = "waiting_approval"
            /\ r.seq = pending[n][r.sid] /\ r.last = r.seq

\* What the logs alone satisfy.
LogInv == LogIsDense /\ LogsAreStored /\ TurnsAlternate /\ HistoriesAgree

\* The parts above, each of which needs the others to survive a step.
ProtocolInv ==
  /\ LogInv
  /\ RowsAreStored
  /\ StatusFollowsLog
  /\ DecidesTheLast
  /\ ResolvesThePending

--------------------------------------------------------------------------------
(* Why an owner is asked once and heard: an inductive invariant *)

\* An approval is the only one about its offer, and the log has grown since it
\* was resolved.
ApprovalsAreDistinct(n) ==
  /\ \A a, b \in approvals[n] : a.sid = b.sid /\ a.seq = b.seq => a = b
  /\ \A a \in approvals[n] :
       /\ a.seq \in DOMAIN messages[n][a.sid]
       /\ a.status \notin Pending => a.seq < Len(messages[n][a.sid])

\* The reply an approval calls for once it is resolved.
CalledFor(a) == IF a.status = "approved" THEN {"ACCEPT", "COUNTER"} ELSE {"REJECT"}

\* The approvals that are resolved are those with a row in the outbox.
RepliesFollowApprovals(n) ==
  /\ \A i, j \in DOMAIN outbox[n] :
       /\ outbox[n][i].approval # 0 /\ outbox[n][i].approval = outbox[n][j].approval
       /\ outbox[n][i].msg.sid = outbox[n][j].msg.sid
       => i = j
  /\ \A i \in DOMAIN outbox[n] :
       outbox[n][i].approval # 0 =>
         \E a \in approvals[n] :
           /\ a.sid = outbox[n][i].msg.sid /\ a.seq = outbox[n][i].approval
           /\ a.status \notin Pending /\ outbox[n][i].msg.type \in CalledFor(a)
  /\ \A a \in approvals[n] : a.status \notin Pending => Answered(n, a.sid, a.seq)

\* Where every decision needs review, no ACCEPT is automatic.
ReviewedAccepts(n) ==
  HumanReview[n] = {TRUE} =>
    \A i \in DOMAIN outbox[n] : outbox[n][i].msg.type = "ACCEPT" => outbox[n][i].approval # 0

AsksOnce(n) ==
  /\ ApprovalsAreDistinct(n)
  /\ WaitsIffPending(n)
  /\ RepliesFollowApprovals(n)
  /\ ReviewedAccepts(n)

ApprovalInv == \A n \in Node : AsksOnce(n)

\* What a node says about a meeting, and what it asks its owner about, lies
\* inside its own position; it accepts what the message before its own offered.
KeepsPosition(n) ==
  \A s \in Session :
    IntentOf[s] = "meeting.schedule" =>
      /\ \A i \in DOMAIN messages[n][s] :
           messages[n][s][i].from = n =>
             /\ messages[n][s][i].offer \subseteq Acceptable[n]
             /\ messages[n][s][i].type = "ACCEPT" =>
                  i > 2 /\ messages[n][s][i].offer \subseteq messages[n][s][i - 1].offer
      /\ \A a \in approvals[n] :
           a.sid = s =>
             /\ a.selected \subseteq Acceptable[n] \cap messages[n][s][a.seq].offer
             /\ a.candidates \subseteq Acceptable[n]

PositionInv == \A n \in Node : KeepsPosition(n)

--------------------------------------------------------------------------------
(* How far the rounds can be overrun: an inductive invariant *)

\* A log is a REQUEST, a PROPOSE and the COUNTERs; the ones that were received
\* were counted.
RoundsAreCounted(n) ==
  \A s \in Session : \A i \in DOMAIN messages[n][s] :
    LET m == messages[n][s][i]
    IN  /\ i <= MaxCounterRounds + 3
        /\ m.type = "PROPOSE" <=> i = 2
        /\ m.type = "COUNTER" /\ m.from # n => i <= MaxCounterRounds + 2

\* What a node said it has queued, and a COUNTER beyond the rounds answers an
\* approval.
OverrunsAreAnswers(n) ==
  /\ \A s \in Session : \A i \in DOMAIN messages[n][s] :
       messages[n][s][i].from = n =>
         \E j \in DOMAIN outbox[n] : outbox[n][j].msg = messages[n][s][i]
  /\ \A j \in DOMAIN outbox[n] :
       outbox[n][j].msg.type = "COUNTER" /\ outbox[n][j].msg.seq > MaxCounterRounds + 2 =>
         outbox[n][j].approval # 0

RoundsInv == \A n \in Node : RoundsAreCounted(n) /\ OverrunsAreAnswers(n)

--------------------------------------------------------------------------------
(* What the protocol implements *)

Outcomes == [status : Terminal, value : SUBSET Value]
NoOutcome == [status |-> "undecided", value |-> {}]

\* What node n has recorded of session s, as its owner would read it.
View(n, s) ==
  IF status[n][s] \in Terminal THEN [status |-> status[n][s], value |-> agreement[n][s]]
                               ELSE NoOutcome

Abstract == INSTANCE NegotiationOutcome
  WITH Outcome <- Outcomes, Undecided <- NoOutcome,
       view <- [n \in Node |-> [s \in Session |-> View(n, s)]]

\* The message exchange implements the abstract negotiation: each step is a
\* step of one node recording an outcome consistent with its peer's, or none.
ImplementsOutcome == Abstract!Spec
================================================================================
