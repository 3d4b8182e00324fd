---------------------------- MODULE EnvelopeDelivery ----------------------------
(***************************************************************************)
(* How a signed envelope travels: the outbox of the sending node           *)
(* (flush_outbox), the Relay's SQLite mailbox (relay/store.py behind the   *)
(* routes of relay/main.py) and the receiving node's inbox (process_inbox  *)
(* with verify_envelope's time window and check_and_record's replay        *)
(* table).  What an envelope says is left to RemoteNegotiation.            *)
(*                                                                         *)
(* An action is one transaction of the node or of the Relay; requests and  *)
(* responses may be lost between them, and a node's threads interleave.    *)
(***************************************************************************)
EXTENDS Integers, Sequences, FiniteSets, FiniteSetsExt

CONSTANTS
  Node,
  Caller,         \* the threads of a node that flush and poll: worker, routes
  Message,        \* envelopes
  From, To,       \* sender_node_id and receiver_node_id of an envelope
  Size,           \* its size in bytes
  Window,         \* verify_envelope: window_seconds
  SeenTTL,        \* check_and_record: ttl_seconds
  RelayTTL,       \* the Relay's message_ttl_seconds
  Minute,         \* the length of a rate bucket
  RateLimit,      \* rate_limit_per_minute
  MaxPending,     \* max_pending_messages_per_receiver
  MaxBytes,       \* max_pending_bytes_per_receiver
  MaxTotalBytes,  \* max_total_pending_bytes
  PageLimit,      \* deliveries in one fetch
  MaxSkew,        \* how far a node's clock is from the Relay's
  MayRefuse,      \* may the receiver refuse an envelope it has verified?
  MaxTime,        \* bound on the clock
  MaxDeliveries   \* bound on the envelopes the Relay stores

ASSUME RoutesAssumption ==
  /\ DOMAIN Caller = Node
  /\ From \in [Message -> Node] /\ To \in [Message -> Node] /\ Size \in [Message -> Nat]

\* The values of the code: 300 s, 3600 s, 3600 s, and clocks that agree to a
\* few minutes.
ASSUME TimesAssumption ==
  /\ Window \in Nat /\ SeenTTL \in Nat /\ RelayTTL \in Nat /\ MaxSkew \in Nat
  /\ SeenTTL >= 2 * Window
  /\ RelayTTL > Window + 2 * MaxSkew
  /\ 2 * MaxSkew <= Window

ASSUME LimitsAssumption ==
  /\ Minute \in Nat \ {0} /\ RateLimit \in Nat /\ PageLimit \in Nat \ {0}
  /\ MaxPending \in Nat /\ MaxBytes \in Nat /\ MaxTotalBytes \in Nat
  /\ MayRefuse \in BOOLEAN /\ MaxTime \in Nat /\ MaxDeliveries \in Nat

VARIABLES
  now,        \* the Relay's clock
  offset,     \* each node's clock minus the Relay's
  created,    \* created_at of an envelope, by its sender's clock
  outbox,     \* the RelayOutbox rows of a node in order of created_at
  rate,       \* rate_limits: a sender's count in the current bucket
  mailbox,    \* the messages table of the Relay
  stored,     \* how many envelopes the Relay has stored
  task,       \* what each thread is doing
  seen,       \* the SeenMessage rows of a node
  handled,    \* how often _handle_envelope has committed an envelope
  refused     \* envelopes acked with a refusal

relay == <<rate, mailbox, stored>>
inbox == <<seen, handled, refused>>
vars == <<now, offset, created, outbox, relay, task, inbox>>

Clock(n) == now + offset[n]

OutboxRow == [msg : Message, status : {"pending", "sent"}]

\* id stands for (stored_at, delivery_id), by which a fetch sorts: stamps grow
\* (RemoteNegotiation looks at equal stamps, MayReorder).
Delivery == [id : Nat, msg : Message, at : Nat]

Idle == [stage |-> "idle"]
Flushing == [stage : {"send", "allowed", "stored"}, rows : SUBSET Nat]
Receiving == [stage : {"handle", "ack"}, page : SUBSET Delivery]

SeenRow == [msg : Message, expires : Int]

TypeOK ==
  /\ now \in Nat
  /\ offset \in [Node -> -MaxSkew..MaxSkew]
  /\ created \in [Message -> Int]
  /\ outbox \in [Node -> Seq(OutboxRow)]
  /\ rate \in [Node -> 0..RateLimit]
  /\ mailbox \in SUBSET Delivery
  /\ stored \in Nat
  /\ DOMAIN task = Node
  /\ \A n \in Node : task[n] \in [Caller[n] -> {Idle} \cup Flushing \cup Receiving]
  /\ seen \in [Node -> SUBSET SeenRow]
  /\ handled \in [Message -> Nat]
  /\ refused \in SUBSET Message

Init ==
  /\ now = 0
  /\ offset \in [Node -> -MaxSkew..MaxSkew]
  /\ created = [m \in Message |-> 0]
  /\ outbox = [n \in Node |-> <<>>]
  /\ rate = [n \in Node |-> 0]
  /\ mailbox = {}
  /\ stored = 0
  /\ task = [n \in Node |-> [t \in Caller[n] |-> Idle]]
  /\ seen = [n \in Node |-> {}]
  /\ handled = [m \in Message |-> 0]
  /\ refused = {}

\* Time passes; a rate bucket is int(now // 60), and older ones are not read.
Tick ==
  /\ now < MaxTime
  /\ now' = now + 1
  /\ rate' = IF now' % Minute = 0 THEN [n \in Node |-> 0] ELSE rate
  /\ UNCHANGED <<offset, created, outbox, mailbox, stored, task, inbox>>

--------------------------------------------------------------------------------
(* The outbox *)

Does(n, t, what) == task' = [task EXCEPT ![n][t] = what]

Queued(m) == \E i \in DOMAIN outbox[From[m]] : outbox[From[m]][i].msg = m

\* build_envelope signs with the node's clock, _enqueue_envelope adds the row.
Enqueue(m) ==
  /\ ~Queued(m)
  /\ created' = [created EXCEPT ![m] = Clock(From[m])]
  /\ outbox' = [outbox EXCEPT ![From[m]] = Append(@, [msg |-> m, status |-> "pending"])]
  /\ UNCHANGED <<now, offset, relay, task, inbox>>

PendingRows(n) == {i \in DOMAIN outbox[n] : outbox[n][i].status = "pending"}

\* flush_outbox reads the pending rows once, and sends them in order.
FlushStart(n, t) ==
  /\ task[n][t] = Idle
  /\ PendingRows(n) # {}
  /\ Does(n, t, [stage |-> "send", rows |-> PendingRows(n)])
  /\ UNCHANGED <<now, offset, created, outbox, relay, inbox>>

CurrentRow(n, t) == CHOOSE i \in task[n][t].rows : \A j \in task[n][t].rows : i <= j

Sending(n, t) == outbox[n][CurrentRow(n, t)].msg

\* The loop goes on with the next of its rows.
NextRow(n, t) ==
  LET rest == task[n][t].rows \ {CurrentRow(n, t)}
  IN  Does(n, t, IF rest = {} THEN Idle ELSE [stage |-> "send", rows |-> rest])

\* Faulty: a send that fails does not hold back the rows behind it.
SendFailsAlone(n, t) == NextRow(n, t)

\* A send that fails ends the flush: the row stays pending, and so do those
\* behind it.
SendFails(n, t) == Does(n, t, Idle)

\* The Relay has answered: the status of the row.
FlushSent(n, t) ==
  /\ task[n][t].stage = "stored"
  /\ outbox' = [outbox EXCEPT ![n][CurrentRow(n, t)].status = "sent"]
  /\ NextRow(n, t)
  /\ UNCHANGED <<now, offset, created, relay, inbox>>

\* The request or its response is lost.
FlushLost(n, t) ==
  /\ task[n][t].stage \in {"send", "allowed", "stored"}
  /\ SendFails(n, t)
  /\ UNCHANGED <<now, offset, created, outbox, relay, inbox>>

--------------------------------------------------------------------------------
(* The Relay *)

\* Faulty: one more than the limit.
MaySendOneMore(n) == rate[n] <= RateLimit

MaySend(n) == rate[n] < RateLimit

\* allow_send, a transaction of its own: it counts the request whether or not
\* the mailbox then takes the envelope.
RelayAllow(n, t) ==
  /\ task[n][t].stage = "send"
  /\ \/ /\ MaySend(n)
        /\ rate' = [rate EXCEPT ![n] = @ + 1]
        /\ Does(n, t, [task[n][t] EXCEPT !.stage = "allowed"])
     \/ /\ ~MaySend(n)
        /\ SendFails(n, t)
        /\ UNCHANGED rate
  /\ UNCHANGED <<now, offset, created, outbox, mailbox, stored, inbox>>

\* Faulty: a delivery is kept for a minute.
KeptForAMinute(d) == now - d.at < Minute

\* What _purge_messages leaves.
Kept(d) == now - d.at < RelayTTL

Live == {d \in mailbox : Kept(d)}

Bytes(D) == MapThenSumSet(LAMBDA d : Size[d.msg], D)

MailboxOf(n, D) == {d \in D : To[d.msg] = n}

\* The three limits of put, on what the purge leaves.
HasRoom(m) ==
  /\ Cardinality(MailboxOf(To[m], Live)) < MaxPending
  /\ Bytes(MailboxOf(To[m], Live)) + Size[m] <= MaxBytes
  /\ Bytes(Live) + Size[m] <= MaxTotalBytes

\* put: purge and insert in one transaction, or neither when there is no room.
RelayPut(n, t) ==
  /\ task[n][t].stage = "allowed"
  /\ \/ /\ HasRoom(Sending(n, t))
        /\ stored < MaxDeliveries
        /\ mailbox' = Live \cup {[id |-> stored + 1, msg |-> Sending(n, t), at |-> now]}
        /\ stored' = stored + 1
        /\ Does(n, t, [task[n][t] EXCEPT !.stage = "stored"])
     \/ /\ ~HasRoom(Sending(n, t))
        /\ SendFails(n, t)
        /\ UNCHANGED <<mailbox, stored>>
  /\ UNCHANGED <<now, offset, created, outbox, rate, inbox>>

\* pending_stats, for the metrics: a purge at any time.
RelayStats ==
  /\ mailbox # Live
  /\ mailbox' = Live
  /\ UNCHANGED <<now, offset, created, outbox, rate, stored, task, inbox>>

\* The oldest deliveries of n.
Page(n) ==
  {d \in MailboxOf(n, Live) :
     Cardinality({e \in MailboxOf(n, Live) : e.id < d.id}) < PageLimit}

\* fetch, the first page, by a caller of process_inbox.
InboxFetch(n, t) ==
  /\ task[n][t] = Idle
  /\ Page(n) # {}
  /\ mailbox' = Live
  /\ Does(n, t, [stage |-> "handle", page |-> Page(n)])
  /\ UNCHANGED <<now, offset, created, outbox, rate, stored, inbox>>

--------------------------------------------------------------------------------
(* The inbox *)

CurrentDelivery(n, t) ==
  CHOOSE d \in task[n][t].page : \A e \in task[n][t].page : d.id <= e.id

\* verify_envelope: the timestamp is at most Window away, on either side.
Fresh(n, m) == Clock(n) - created[m] \in -Window..Window

\* Faulty: a row expires when it is written.
RememberedBriefly(n) == {r \in seen[n] : r.expires - SeenTTL >= Clock(n)}

\* check_and_record deletes the expired rows first.
Remembered(n) == {r \in seen[n] : r.expires >= Clock(n)}

Knows(n, m) == \E r \in Remembered(n) : r.msg = m

\* Outside the window: acked, never handled.
InboxStale(n, m) ==
  /\ ~Fresh(n, m)
  /\ UNCHANGED inbox

\* The message_id is in the table: acked only.
InboxDuplicate(n, m) ==
  /\ Fresh(n, m)
  /\ Knows(n, m)
  /\ seen' = [seen EXCEPT ![n] = Remembered(n)]
  /\ UNCHANGED <<handled, refused>>

\* Refused before or inside _handle_envelope (peer not trusted, identity
\* mismatch, any exception): rolled back, with its SeenMessage row, and acked.
InboxRefuse(n, m) ==
  /\ MayRefuse
  /\ refused' = refused \cup {m}
  /\ UNCHANGED <<seen, handled>>

\* check_and_record and _handle_envelope commit together.
InboxHandle(n, m) ==
  /\ Fresh(n, m)
  /\ ~Knows(n, m)
  /\ seen' = [seen EXCEPT ![n] =
                Remembered(n) \cup {[msg |-> m, expires |-> Clock(n) + SeenTTL]}]
  /\ handled' = [handled EXCEPT ![m] = @ + 1]
  /\ UNCHANGED refused

InboxStep(n, t) ==
  /\ task[n][t].stage = "handle"
  /\ LET m == CurrentDelivery(n, t).msg
     IN  \/ InboxStale(n, m)
         \/ InboxDuplicate(n, m)
         \/ InboxRefuse(n, m)
         \/ InboxHandle(n, m)
  /\ Does(n, t, [task[n][t] EXCEPT !.stage = "ack"])
  /\ UNCHANGED <<now, offset, created, outbox, relay>>

\* ack removes the delivery; when another caller already has, the Relay answers
\* 404 and process_inbox raises, its other deliveries left for the next fetch.
InboxAck(n, t) ==
  /\ task[n][t].stage = "ack"
  /\ LET d    == CurrentDelivery(n, t)
         rest == task[n][t].page \ {d}
     IN  /\ mailbox' = mailbox \ {d}
         /\ Does(n, t, IF rest = {} \/ d \notin mailbox THEN Idle
                       ELSE [stage |-> "handle", page |-> rest])
  /\ UNCHANGED <<now, offset, created, outbox, rate, stored, inbox>>

\* The ack does not reach the Relay: process_inbox raises.
InboxAckLost(n, t) ==
  /\ task[n][t].stage = "ack"
  /\ Does(n, t, Idle)
  /\ UNCHANGED <<now, offset, created, outbox, relay, inbox>>

\* A node dies and is started again: its tables keep what was committed.
Crash(n) ==
  /\ task[n] # [t \in Caller[n] |-> Idle]
  /\ task' = [task EXCEPT ![n] = [t \in Caller[n] |-> Idle]]
  /\ UNCHANGED <<now, offset, created, outbox, relay, inbox>>

Next ==
  \/ Tick
  \/ \E m \in Message : Enqueue(m)
  \/ \E n \in Node : \E t \in Caller[n] :
       \/ FlushStart(n, t) \/ RelayAllow(n, t) \/ RelayPut(n, t)
       \/ FlushSent(n, t) \/ FlushLost(n, t)
       \/ InboxFetch(n, t) \/ InboxStep(n, t) \/ InboxAck(n, t) \/ InboxAckLost(n, t)
  \/ \E n \in Node : Crash(n)
  \/ RelayStats

Spec == Init /\ [][Next]_vars

--------------------------------------------------------------------------------
(* Properties *)

\* Replay protection: an envelope is handled at most once, however often the
\* outbox sends it, the Relay delivers it and the table forgets it.  It takes
\* both sides of the time window and a table that outlives two windows.
HandledOnce == \A m \in Message : handled[m] <= 1

\* Past the time window of its receiver, and so never to be handled.
Stale(m) == Clock(To[m]) - created[m] > Window

Settled(m) == handled[m] > 0 \/ m \in refused

\* Envelopes from one node to another are handled in the order they were
\* queued: a failed send holds back those behind it, and no lost ack and no
\* second inbox caller lets a later one overtake.
HandledInOrder ==
  \A n \in Node : \A j \in DOMAIN outbox[n] : \A i \in 1..j - 1 :
    LET earlier == outbox[n][i].msg
        later   == outbox[n][j].msg
    IN  To[earlier] = To[later] /\ Settled(later) => Settled(earlier) \/ Stale(earlier)

InMailbox(m) == \E d \in mailbox : d.msg = m

\* An envelope the sender has marked sent is not lost while it could still be
\* handled: not by a crash, a lost ack, a batch that was broken off or a purge.
LostOnlyWhenStale ==
  \A n \in Node : \A i \in DOMAIN outbox[n] :
    LET m == outbox[n][i].msg
    IN  outbox[n][i].status = "sent" => InMailbox(m) \/ Settled(m) \/ Stale(m)
================================================================================
