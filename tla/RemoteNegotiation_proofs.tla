------------------------ MODULE RemoteNegotiation_proofs ------------------------
(***************************************************************************)
(* Theorems about RemoteNegotiation, for every set of sessions, values and *)
(* threads, every choice of positions and every bound.                     *)
(***************************************************************************)
EXTENDS RemoteNegotiation, SequenceTheorems, FiniteSetTheorems, TLAPS

\* Removing an element from a mailbox leaves elements of the mailbox.
LEMMA WithoutSeq ==
  ASSUME NEW S, NEW q \in Seq(S), NEW i \in DOMAIN q
  PROVE  /\ Without(q, i) \in Seq(S)
         /\ \A j \in DOMAIN Without(q, i) : \E k \in DOMAIN q : Without(q, i)[j] = q[k]
<1>1. Len(q) \in Nat /\ Len(q) >= 1 /\ DOMAIN q = 1..Len(q)
  BY LenProperties
<1>2. \A j \in 1..Len(q) - 1 : j \in 1..Len(q) /\ j + 1 \in 1..Len(q)
  BY <1>1
<1>3. \A j \in 1..Len(q) - 1 : Without(q, i)[j] \in S
  BY <1>1, <1>2, ElementOfSeq DEF Without
<1>4. Len(q) - 1 \in Nat
  BY <1>1
<1>5. Without(q, i) \in [1..Len(q) - 1 -> S]
  BY <1>3 DEF Without
<1>6. Without(q, i) \in Seq(S)
  BY <1>4, <1>5
<1>7. \A j \in DOMAIN Without(q, i) : \E k \in DOMAIN q : Without(q, i)[j] = q[k]
  BY <1>1, <1>2 DEF Without
<1>. QED BY <1>6, <1>7

\* A caller past its fetch holds a message.
LEMMA WorkMessage ==
  ASSUME TypeOK, NEW n \in Node, NEW t \in Thread, work[n][t].stage # "idle"
  PROVE  work[n][t].msg \in Message /\ work[n][t] \in Busy
BY DEF TypeOK, Idle, Busy

\* The invariants at one place.
LEMMA RowStored ==
  ASSUME RowsAreStored, NEW n \in Node
  PROVE  /\ \A i \in DOMAIN outbox[n] : outbox[n][i].msg.from = n /\ Stored(outbox[n][i].msg)
         /\ \A i \in DOMAIN mailbox[n] : mailbox[n][i].from = Peer(n) /\ Stored(mailbox[n][i])
BY DEF RowsAreStored

LEMMA DecidesAt ==
  ASSUME DecidesTheLast, NEW n \in Node, NEW t \in Thread, work[n][t].stage = "decide",
         NEW m, m = work[n][t].msg
  PROVE  /\ status[n][m.sid] = "open"
         /\ m.from = Peer(n) /\ m.type \in OfferTypes
         /\ m.seq = Len(messages[n][m.sid]) /\ messages[n][m.sid][m.seq] = m
         /\ \A u \in Thread : u # t /\ work[n][u].stage = "decide" => work[n][u].msg.sid # m.sid
BY DEF DecidesTheLast

\* A deciding caller keeps the log and the status it decides about.
LEMMA DecidesStays ==
  ASSUME DecidesTheLast, UNCHANGED <<status, messages>>,
         \A q \in Node, u \in Thread : work'[q][u].stage = "decide" => work'[q][u] = work[q][u]
  PROVE  DecidesTheLast'
<1>. SUFFICES ASSUME NEW q \in Node, NEW u \in Thread, work'[q][u].stage = "decide"
              PROVE  LET x == work'[q][u].msg
                     IN  /\ status'[q][x.sid] = "open"
                         /\ x.from = Peer(q) /\ x.type \in OfferTypes
                         /\ x.seq = Len(messages'[q][x.sid]) /\ messages'[q][x.sid][x.seq] = x
                         /\ \A v \in Thread : v # u /\ work'[q][v].stage = "decide" =>
                              work'[q][v].msg.sid # x.sid
  BY DEF DecidesTheLast
<1>1. PICK x : work[q][u].stage = "decide" /\ x = work[q][u].msg
  OBVIOUS
<1>2. /\ status[q][x.sid] = "open"
      /\ x.from = Peer(q) /\ x.type \in OfferTypes
      /\ x.seq = Len(messages[q][x.sid]) /\ messages[q][x.sid][x.seq] = x
      /\ \A v \in Thread : v # u /\ work[q][v].stage = "decide" => work[q][v].msg.sid # x.sid
  BY <1>1, DecidesAt
<1>3. x = work'[q][u].msg
  BY <1>1
<1>. QED BY <1>2, <1>3

\* What an envelope is made of.
LEMMA EnvelopeType ==
  ASSUME NEW s \in Session, NEW n \in Node, NEW type \in MessageTypes, NEW seq \in Nat,
         NEW offer \in SUBSET Value
  PROVE  Envelope(s, n, type, seq, offer) \in Message
BY DEF Envelope, Message

LEMMA PeerNode == ASSUME NEW n \in Node PROVE Peer(n) \in Node /\ Peer(Peer(n)) = n /\ Peer(n) # n
BY DEF Node, Peer

LEMMA OffersType ==
  ASSUME NEW n \in Node, NEW o \in Offers[n] PROVE o \in SUBSET Value
BY ConstantsAssumption DEF Node

\* A reply is a message of the right types, wherever it comes from.
LEMMA ReplyType ==
  ASSUME TypeOK, NEW n \in Node, NEW s \in Session, NEW type \in MessageTypes, NEW seq \in Nat,
         NEW offer \in SUBSET Value, NEW approval \in Nat, Reply(n, s, type, seq, offer, approval)
  PROVE  /\ messages' \in [Node -> [Session -> Seq(Message)]]
         /\ outbox' \in [Node -> Seq(OutboxRow)]
         /\ lastSequence' \in [Node -> [Session -> Nat]]
<1>. DEFINE m == Envelope(s, n, type, seq, offer)
           row == [msg |-> m, status |-> "pending", approval |-> approval]
<1>1. m \in Message
  BY EnvelopeType
<1>2. row \in OutboxRow
  BY <1>1 DEF OutboxRow
<1>3. Append(messages[n][s], m) \in Seq(Message) /\ Append(outbox[n], row) \in Seq(OutboxRow)
  BY <1>1, <1>2, AppendProperties DEF TypeOK
<1>. HIDE DEF m, row
<1>4. /\ messages' = [messages EXCEPT ![n][s] = Append(@, m)]
      /\ outbox' = [outbox EXCEPT ![n] = Append(@, row)]
      /\ lastSequence' = [lastSequence EXCEPT ![n][s] = seq]
  BY DEF Reply, m, row
<1>. QED BY <1>3, <1>4 DEF TypeOK

--------------------------------------------------------------------------------
(* Type correctness, one lemma per group of actions *)

LEMMA StartType ==
  ASSUME TypeOK, NEW n \in Node, NEW s \in Session, Start(n, s)
  PROVE  TypeOK'
<1>1. PICK offer \in Offers[n] :
        LET request == Envelope(s, n, "REQUEST", 1, {})
            propose == Envelope(s, n, "PROPOSE", 2, offer)
            Row(m)  == [msg |-> m, status |-> "pending", approval |-> 0]
        IN  /\ messages' = [messages EXCEPT ![n][s] = <<request, propose>>]
            /\ outbox' = [outbox EXCEPT ![n] = @ \o <<Row(request), Row(propose)>>]
  BY DEF Start
<1>. DEFINE request == Envelope(s, n, "REQUEST", 1, {})
            propose == Envelope(s, n, "PROPOSE", 2, offer)
            Row(m)  == [msg |-> m, status |-> "pending", approval |-> 0]
<1>2. request \in Message /\ propose \in Message
  BY OffersType, EnvelopeType DEF MessageTypes
<1>3. Row(request) \in OutboxRow /\ Row(propose) \in OutboxRow
  BY <1>2 DEF OutboxRow
<1>. HIDE DEF request, propose, Row
<1>4. <<request, propose>> \in Seq(Message)
  BY <1>2
<1>5. outbox[n] \o <<Row(request), Row(propose)>> \in Seq(OutboxRow)
  BY <1>3, ConcatProperties DEF TypeOK
<1>6. /\ messages' = [messages EXCEPT ![n][s] = <<request, propose>>]
      /\ outbox' = [outbox EXCEPT ![n] = @ \o <<Row(request), Row(propose)>>]
  BY <1>1 DEF request, propose, Row
<1>7. messages' \in [Node -> [Session -> Seq(Message)]] /\ outbox' \in [Node -> Seq(OutboxRow)]
  BY <1>4, <1>5, <1>6 DEF TypeOK
<1>8. /\ status' \in [Node -> [Session -> Statuses]]
      /\ lastSequence' \in [Node -> [Session -> Nat]]
  BY DEF TypeOK, Start, Statuses
<1>. QED BY <1>7, <1>8 DEF TypeOK, Start

LEMMA FlushType ==
  ASSUME TypeOK, NEW n \in Node, Flush(n) \/ FlushDuplicate(n)
  PROVE  TypeOK'
<1>1. \A i \in DOMAIN outbox[n] :
        /\ outbox[n][i] \in OutboxRow /\ outbox[n][i].msg \in Message
        /\ Append(mailbox[Peer(n)], outbox[n][i].msg) \in Seq(Message)
  <2>. SUFFICES ASSUME NEW i \in DOMAIN outbox[n]
                PROVE  /\ outbox[n][i] \in OutboxRow /\ outbox[n][i].msg \in Message
                       /\ Append(mailbox[Peer(n)], outbox[n][i].msg) \in Seq(Message)
    OBVIOUS
  <2>1. outbox[n][i] \in OutboxRow
    BY LenProperties, ElementOfSeq DEF TypeOK
  <2>2. outbox[n][i].msg \in Message
    BY <2>1 DEF OutboxRow
  <2>. QED BY <2>1, <2>2, PeerNode, AppendProperties DEF TypeOK
<1>2. CASE Flush(n)
  <2>1. PICK i \in DOMAIN outbox[n] :
          /\ Deliver(n, outbox[n][i].msg)
          /\ outbox' = [outbox EXCEPT ![n][i].status = "sent"]
    BY <1>2 DEF Flush
  <2>2. mailbox' \in [Node -> Seq(Message)]
    BY <1>1, <2>1, PeerNode DEF Deliver, TypeOK
  <2>3. [outbox[n][i] EXCEPT !.status = "sent"] \in OutboxRow
    BY <1>1 DEF OutboxRow
  <2>4. [outbox[n] EXCEPT ![i] = [outbox[n][i] EXCEPT !.status = "sent"]] \in Seq(OutboxRow)
    BY <2>3, ExceptSeq DEF TypeOK
  <2>5. outbox' = [outbox EXCEPT ![n] = [outbox[n] EXCEPT ![i] = [outbox[n][i] EXCEPT !.status = "sent"]]]
    BY <2>1 DEF TypeOK
  <2>6. outbox' \in [Node -> Seq(OutboxRow)]
    BY <2>4, <2>5 DEF TypeOK
  <2>. QED BY <1>2, <2>2, <2>6 DEF Flush, TypeOK, store
<1>3. CASE FlushDuplicate(n)
  <2>1. mailbox' \in [Node -> Seq(Message)]
    BY <1>1, <1>3, PeerNode DEF FlushDuplicate, Deliver, TypeOK
  <2>. QED BY <1>3, <2>1, ConstantsAssumption DEF FlushDuplicate, TypeOK, store
<1>. QED BY <1>2, <1>3

LEMMA ReceiveType ==
  ASSUME TypeOK, NEW n \in Node, NEW t \in Thread, Receive(n, t)
  PROVE  TypeOK'
<1>1. PICK i \in DOMAIN mailbox[n] :
        \/ Discard(n, t, mailbox[n][i])
        \/ Duplicate(n, t, mailbox[n][i])
        \/ Refuse(n, t, mailbox[n][i])
        \/ HandleRequest(n, t, mailbox[n][i])
        \/ HandleFinal(n, t, mailbox[n][i])
        \/ HandleOffer(n, t, mailbox[n][i])
  BY DEF Receive
<1>. DEFINE m == mailbox[n][i]
<1>2. m \in Message
  BY LenProperties, ElementOfSeq DEF TypeOK
<1>. HIDE DEF m
<1>3. /\ m.sid \in Session /\ m.seq \in Nat /\ m.offer \in SUBSET Value
      /\ Append(messages[n][m.sid], m) \in Seq(Message)
  <2>1. m.sid \in Session /\ m.seq \in Nat /\ m.offer \in SUBSET Value
    BY <1>2 DEF Message
  <2>2. messages[n][m.sid] \in Seq(Message)
    BY <2>1 DEF TypeOK
  <2>. QED BY <1>2, <2>1, <2>2, AppendProperties
<1>4. /\ [stage |-> "ack", msg |-> m] \in Busy
      /\ [stage |-> "decide", msg |-> m] \in Busy
  BY <1>2 DEF Busy
<1>5. Acks(n, t, m) => work' \in [Node -> [Thread -> {Idle} \cup Busy]]
  BY <1>4 DEF Acks, TypeOK
<1>6. Record(n, m) => /\ seen' \in [Node -> SUBSET Message]
                      /\ messages' \in [Node -> [Session -> Seq(Message)]]
                      /\ lastSequence' \in [Node -> [Session -> Nat]]
  BY <1>2, <1>3 DEF Record, TypeOK
<1>7. UNCHANGED <<approvals, outbox, mailbox, resolving, crashes, duplicates>>
  BY DEF Receive
<1>8. CASE Discard(n, t, m) \/ Duplicate(n, t, m) \/ Refuse(n, t, m)
  BY <1>5, <1>7, <1>8 DEF Discard, Duplicate, Refuse, TypeOK, store
<1>9. CASE HandleRequest(n, t, m)
  <2>1. status' \in [Node -> [Session -> Statuses]]
    BY <1>3, <1>9 DEF HandleRequest, TypeOK, Statuses
  <2>. QED BY <1>5, <1>6, <1>7, <1>9, <2>1 DEF HandleRequest, TypeOK
<1>10. CASE HandleFinal(n, t, m)
  <2>1. /\ status' \in [Node -> [Session -> Statuses]]
        /\ agreement' \in [Node -> [Session -> SUBSET Value]]
    BY <1>3, <1>10 DEF HandleFinal, TypeOK, Statuses
  <2>. QED BY <1>5, <1>6, <1>7, <1>10, <2>1 DEF HandleFinal, TypeOK
<1>11. CASE HandleOffer(n, t, m)
  <2>1. work' \in [Node -> [Thread -> {Idle} \cup Busy]]
    BY <1>4, <1>11 DEF HandleOffer, TypeOK
  <2>. QED BY <1>6, <1>7, <1>11, <2>1 DEF HandleOffer, TypeOK
<1>. QED BY <1>1, <1>8, <1>9, <1>10, <1>11 DEF m

LEMMA DecideType ==
  ASSUME TypeOK, NEW n \in Node, NEW t \in Thread, Decide(n, t)
  PROVE  TypeOK'
<1>. DEFINE m == work[n][t].msg
<1>1. m \in Message
  BY WorkMessage DEF Decide
<1>. HIDE DEF m
<1>2. /\ m.sid \in Session /\ m.seq \in Nat /\ m.seq + 1 \in Nat /\ m.offer \in SUBSET Value
      /\ [stage |-> "ack", msg |-> m] \in Busy
  BY <1>1 DEF Message, Busy
<1>3. /\ Acks(n, t, m)
      /\ UNCHANGED <<seen, mailbox, resolving, crashes, duplicates>>
  BY DEF Decide, m
<1>4. work' \in [Node -> [Thread -> {Idle} \cup Busy]]
  BY <1>2, <1>3 DEF Acks, TypeOK
<1>5. {} \in SUBSET Value /\ 0 \in Nat
  OBVIOUS
<1>6. CASE DecideApproval(n, m)
  <2>1. PICK selected \in Selections(n, m), candidates \in Offers[n] :
          approvals' = [approvals EXCEPT ![n] = @ \cup
            {[sid |-> m.sid, seq |-> m.seq, selected |-> selected, candidates |-> candidates,
              status |-> "pending"]}]
    BY <1>6 DEF DecideApproval
  <2>2. selected \in SUBSET Value
    BY <1>2 DEF Selections, Common
  <2>3. [sid |-> m.sid, seq |-> m.seq, selected |-> selected, candidates |-> candidates,
         status |-> "pending"] \in Approval
    BY <1>2, <2>2, OffersType DEF Approval
  <2>4. approvals' \in [Node -> SUBSET Approval]
    BY <2>1, <2>3 DEF TypeOK
  <2>5. /\ status' \in [Node -> [Session -> Statuses]]
        /\ pending' \in [Node -> [Session -> Nat]]
    BY <1>2, <1>6 DEF DecideApproval, TypeOK, Statuses
  <2>. QED BY <1>3, <1>4, <1>6, <2>4, <2>5 DEF DecideApproval, TypeOK
<1>7. CASE DecideAccept(n, m)
  <2>1. PICK v \in Common(n, m) :
          /\ Reply(n, m.sid, "ACCEPT", m.seq + 1, {v}, 0)
          /\ agreement' = [agreement EXCEPT ![n][m.sid] = {v}]
    BY <1>7 DEF DecideAccept
  <2>2. {v} \in SUBSET Value
    BY <1>2 DEF Common
  <2>3. /\ messages' \in [Node -> [Session -> Seq(Message)]]
        /\ outbox' \in [Node -> Seq(OutboxRow)]
        /\ lastSequence' \in [Node -> [Session -> Nat]]
    BY <1>2, <1>5, <2>1, <2>2, ReplyType DEF MessageTypes
  <2>4. /\ status' \in [Node -> [Session -> Statuses]]
        /\ agreement' \in [Node -> [Session -> SUBSET Value]]
    BY <1>2, <1>7, <2>1, <2>2 DEF DecideAccept, TypeOK, Statuses
  <2>. QED BY <1>3, <1>4, <1>7, <2>3, <2>4 DEF DecideAccept, TypeOK
<1>8. CASE DecideReject(n, m)
  <2>1. /\ messages' \in [Node -> [Session -> Seq(Message)]]
        /\ outbox' \in [Node -> Seq(OutboxRow)]
        /\ lastSequence' \in [Node -> [Session -> Nat]]
    BY <1>2, <1>5, <1>8, ReplyType DEF DecideReject, MessageTypes
  <2>2. status' \in [Node -> [Session -> Statuses]]
    BY <1>2, <1>8 DEF DecideReject, TypeOK, Statuses
  <2>. QED BY <1>3, <1>4, <1>8, <2>1, <2>2 DEF DecideReject, TypeOK
<1>9. CASE DecideCounter(n, m)
  <2>1. PICK offer \in Offers[n] : Reply(n, m.sid, "COUNTER", m.seq + 1, offer, 0)
    BY <1>9 DEF DecideCounter
  <2>2. offer \in SUBSET Value
    BY OffersType
  <2>3. /\ messages' \in [Node -> [Session -> Seq(Message)]]
        /\ outbox' \in [Node -> Seq(OutboxRow)]
        /\ lastSequence' \in [Node -> [Session -> Nat]]
    BY <1>2, <1>5, <2>1, <2>2, ReplyType DEF MessageTypes
  <2>. QED BY <1>3, <1>4, <1>9, <2>3 DEF DecideCounter, TypeOK
<1>10. CASE DecideExhausted(n, m)
  <2>1. /\ messages' \in [Node -> [Session -> Seq(Message)]]
        /\ outbox' \in [Node -> Seq(OutboxRow)]
        /\ lastSequence' \in [Node -> [Session -> Nat]]
    BY <1>2, <1>5, <1>10, ReplyType DEF DecideExhausted, MessageTypes
  <2>2. status' \in [Node -> [Session -> Statuses]]
    BY <1>2, <1>10 DEF DecideExhausted, TypeOK, Statuses
  <2>. QED BY <1>3, <1>4, <1>10, <2>1, <2>2 DEF DecideExhausted, TypeOK
<1>. QED BY <1>6, <1>7, <1>8, <1>9, <1>10 DEF Decide, m

\* The steps of a caller after its decision, and its failures.
LEMMA AckType ==
  ASSUME TypeOK, NEW n \in Node, NEW t \in Thread,
         Ack(n, t) \/ AckLost(n, t) \/ DecideFails(n, t)
  PROVE  TypeOK'
<1>1. Idle \in {Idle} \cup Busy
  OBVIOUS
<1>2. CASE Ack(n, t)
  <2>1. \A i \in DOMAIN mailbox[n] : Without(mailbox[n], i) \in Seq(Message)
    BY WithoutSeq DEF TypeOK
  <2>2. mailbox' = mailbox \/ \E i \in DOMAIN mailbox[n] :
                                mailbox' = [mailbox EXCEPT ![n] = Without(@, i)]
    BY <1>2 DEF Ack
  <2>3. mailbox' \in [Node -> Seq(Message)]
    <3>1. mailbox \in [Node -> Seq(Message)]
      BY DEF TypeOK
    <3>2. ASSUME NEW i \in DOMAIN mailbox[n], mailbox' = [mailbox EXCEPT ![n] = Without(@, i)]
          PROVE  mailbox' \in [Node -> Seq(Message)]
      <4>1. Without(mailbox[n], i) \in Seq(Message)
        BY <2>1
      <4>. QED BY <3>1, <3>2, <4>1
    <3>. QED BY <2>2, <3>1, <3>2
  <2>4. UNCHANGED <<store, approvals, outbox, seen, resolving, crashes, duplicates>>
        /\ work' = [work EXCEPT ![n][t] = Idle]
    BY <1>2 DEF Ack
  <2>. QED BY <1>1, <2>3, <2>4 DEF TypeOK, store
<1>3. CASE AckLost(n, t)
  BY <1>1, <1>3, ConstantsAssumption DEF AckLost, TypeOK, store
<1>4. CASE DecideFails(n, t)
  <2>1. [stage |-> "ack", msg |-> work[n][t].msg] \in Busy
    BY <1>4, WorkMessage DEF DecideFails, Busy
  <2>. QED BY <1>4, <2>1, ConstantsAssumption DEF DecideFails, Acks, TypeOK, store
<1>. QED BY <1>2, <1>3, <1>4

LEMMA BeginResolveType ==
  ASSUME TypeOK, NEW n \in Node, NEW target \in {"approved", "rejected", "expired"},
         BeginResolve(n, target)
  PROVE  TypeOK'
<1>1. PICK a \in approvals[n] :
        resolving' = [resolving EXCEPT ![n] = @ \cup
          {[sid |-> a.sid, seq |-> a.seq, target |-> target, last |-> lastSequence[n][a.sid]]}]
  BY DEF BeginResolve
<1>2. a \in Approval
  BY DEF TypeOK
<1>3. a.sid \in Session /\ a.seq \in Nat
  BY <1>2 DEF Approval
<1>4. [sid |-> a.sid, seq |-> a.seq, target |-> target, last |-> lastSequence[n][a.sid]]
        \in Resolution
  BY <1>3 DEF Resolution, TypeOK
<1>. QED BY <1>1, <1>4 DEF BeginResolve, TypeOK, store

\* What a resolution may answer.
LEMMA ApprovedRepliesType ==
  ASSUME NEW a \in Approval, NEW reply \in ApprovedReplies(a)
  PROVE  reply.type \in {"ACCEPT", "COUNTER"} /\ reply.offer \in SUBSET Value
<1>1. a.selected \in SUBSET Value /\ a.candidates \in SUBSET Value
  BY DEF Approval
<1>2. CASE IntentOf[a.sid] = "cost.split"
  BY <1>2 DEF ApprovedReplies
<1>3. CASE IntentOf[a.sid] # "cost.split"
  BY <1>1, <1>3 DEF ApprovedReplies
<1>. QED BY <1>2, <1>3

LEMMA CommitResolveType ==
  ASSUME TypeOK, NEW n \in Node, NEW r \in resolving[n], CommitResolve(n, r)
  PROVE  TypeOK'
<1>1. r \in Resolution
  BY DEF TypeOK
<1>2. /\ r.sid \in Session /\ r.seq \in Nat /\ r.last + 1 \in Nat
      /\ r.target \in {"approved", "rejected", "expired"}
  BY <1>1 DEF Resolution
<1>3. resolving' \in [Node -> SUBSET Resolution]
  BY DEF CommitResolve, TypeOK
<1>4. ASSUME NEW a \in approvals[n], NEW type \in {"ACCEPT", "COUNTER", "REJECT"},
             NEW offer \in SUBSET Value, Resolve(n, r, a, type, offer)
      PROVE  TypeOK'
  <2>1. a \in Approval
    BY DEF TypeOK
  <2>2. [a EXCEPT !.status = r.target] \in Approval
    BY <1>2, <2>1 DEF Approval
  <2>3. approvals' \in [Node -> SUBSET Approval]
    BY <1>4, <2>2 DEF Resolve, TypeOK
  <2>4. /\ messages' \in [Node -> [Session -> Seq(Message)]]
        /\ outbox' \in [Node -> Seq(OutboxRow)]
        /\ lastSequence' \in [Node -> [Session -> Nat]]
    <3>1. type \in MessageTypes
      BY DEF MessageTypes
    <3>2. Reply(n, r.sid, type, r.last + 1, offer, r.seq)
      BY <1>4 DEF Resolve
    <3>. QED BY <1>2, <3>1, <3>2, ReplyType
  <2>5. /\ pending' \in [Node -> [Session -> Nat]]
        /\ agreement' \in [Node -> [Session -> SUBSET Value]]
    BY <1>2, <1>4 DEF Resolve, TypeOK
  <2>6. status' \in [Node -> [Session -> Statuses]]
    <3>1. PICK v \in Statuses : status' = [status EXCEPT ![n][r.sid] = v]
      <4>1. CASE type = "ACCEPT"
        BY <1>4, <4>1 DEF Resolve, Statuses
      <4>2. CASE type = "COUNTER"
        BY <1>4, <4>2 DEF Resolve, Statuses
      <4>3. CASE type = "REJECT"
        BY <1>4, <4>3 DEF Resolve, Statuses
      <4>. QED BY <4>1, <4>2, <4>3
    <3>. QED BY <1>2, <3>1 DEF TypeOK
  <2>. QED BY <1>3, <2>3, <2>4, <2>5, <2>6 DEF CommitResolve, TypeOK
<1>5. CASE UNCHANGED <<store, approvals, outbox>>
  BY <1>3, <1>5 DEF CommitResolve, TypeOK, store
<1>6. CASE \E a \in approvals[n] : \E reply \in ApprovedReplies(a) :
             Resolve(n, r, a, reply.type, reply.offer)
  <2>0. PICK a \in approvals[n] : \E reply \in ApprovedReplies(a) :
          Resolve(n, r, a, reply.type, reply.offer)
    BY <1>6
  <2>1. PICK reply \in ApprovedReplies(a) : Resolve(n, r, a, reply.type, reply.offer)
    BY <2>0
  <2>2. a \in Approval
    BY DEF TypeOK
  <2>3. reply.type \in {"ACCEPT", "COUNTER", "REJECT"} /\ reply.offer \in SUBSET Value
    BY <2>2, ApprovedRepliesType
  <2>. QED BY <1>4, <2>1, <2>3
<1>7. CASE \E a \in approvals[n] : Resolve(n, r, a, "REJECT", {})
  BY <1>4, <1>7
<1>. QED BY <1>5, <1>6, <1>7 DEF CommitResolve

LEMMA FailureType ==
  ASSUME TypeOK, NEW n \in Node, Overdue(n) \/ Crash(n) \/ Purge(n)
  PROVE  TypeOK'
<1>1. CASE Overdue(n)
  <2>1. PICK a \in approvals[n] :
          approvals' = [approvals EXCEPT ![n] = (@ \ {a}) \cup {[a EXCEPT !.status = "overdue"]}]
    BY <1>1 DEF Overdue
  <2>2. a \in Approval
    BY DEF TypeOK
  <2>3. [a EXCEPT !.status = "overdue"] \in Approval
    BY <2>2 DEF Approval
  <2>. QED BY <1>1, <2>1, <2>3 DEF Overdue, TypeOK, store
<1>2. CASE Crash(n)
  BY <1>2, ConstantsAssumption DEF Crash, TypeOK, store
<1>3. CASE Purge(n)
  <2>1. \A i \in DOMAIN mailbox[n] : Without(mailbox[n], i) \in Seq(Message)
    BY WithoutSeq DEF TypeOK
  <2>. QED BY <1>3, <2>1 DEF Purge, TypeOK, store
<1>. QED BY <1>1, <1>2, <1>3

\* Every row, envelope and caller has the shape its table or message gives it.
THEOREM TypeCorrect == Spec => []TypeOK
<1>1. Init => TypeOK
  BY ConstantsAssumption DEF Init, TypeOK, Statuses
<1>2. TypeOK /\ [Next]_vars => TypeOK'
  <2>. SUFFICES ASSUME TypeOK, [Next]_vars PROVE TypeOK'
    OBVIOUS
  <2>1. CASE UNCHANGED vars
    BY <2>1 DEF vars, store, TypeOK
  <2>2. CASE Next
    BY <2>2, StartType, FlushType, ReceiveType, DecideType, AckType, BeginResolveType,
       CommitResolveType, FailureType DEF Next
  <2>. QED BY <2>1, <2>2
<1>. QED BY <1>1, <1>2, PTL DEF Spec

--------------------------------------------------------------------------------
(* The logs of a session *)

LEMMA LogType ==
  ASSUME TypeOK, NEW n \in Node, NEW s \in Session
  PROVE  /\ messages[n][s] \in Seq(Message)
         /\ Len(messages[n][s]) \in Nat
         /\ DOMAIN messages[n][s] = 1..Len(messages[n][s])
         /\ \A i \in DOMAIN messages[n][s] : messages[n][s][i] \in Message
<1>1. messages[n][s] \in Seq(Message)
  BY DEF TypeOK
<1>. QED BY <1>1, LenProperties, ElementOfSeq

\* HistoriesAgree without the names of the nodes.
LEMMA LogsAgree ==
  ASSUME HistoriesAgree, NEW n \in Node, NEW p \in Node, NEW s \in Session,
         NEW i \in DOMAIN messages[n][s] \cap DOMAIN messages[p][s]
  PROVE  messages[n][s][i] = messages[p][s][i]
BY DEF HistoriesAgree, Node

\* Node n adds message m to its log of session s, and nothing else to any log.
Appended(n, s, m) == messages' = [messages EXCEPT ![n][s] = Append(@, m)]

LEMMA AppendedLog ==
  ASSUME TypeOK, NEW n \in Node, NEW s \in Session, NEW m \in Message, Appended(n, s, m)
  PROVE  /\ \A p \in Node, z \in Session :
              p # n \/ z # s => messages'[p][z] = messages[p][z]
         /\ Len(messages'[n][s]) = Len(messages[n][s]) + 1
         /\ DOMAIN messages'[n][s] = 1..Len(messages[n][s]) + 1
         /\ messages'[n][s][Len(messages[n][s]) + 1] = m
         /\ \A i \in DOMAIN messages[n][s] : messages'[n][s][i] = messages[n][s][i]
<1>1. messages'[n][s] = Append(messages[n][s], m)
  BY DEF Appended, TypeOK
<1>2. \A p \in Node, z \in Session : p # n \/ z # s => messages'[p][z] = messages[p][z]
  BY DEF Appended, TypeOK
<1>. QED BY <1>1, <1>2, LogType, AppendProperties

LEMMA AppendedAt ==
  ASSUME TypeOK, NEW n \in Node, NEW s \in Session, NEW m \in Message, Appended(n, s, m),
         NEW q \in Node, NEW z \in Session, NEW i \in DOMAIN messages'[q][z]
  PROVE  \/ i \in DOMAIN messages[q][z] /\ messages'[q][z][i] = messages[q][z][i]
         \/ q = n /\ z = s /\ i = Len(messages[n][s]) + 1 /\ messages'[q][z][i] = m
<1>1. CASE q # n \/ z # s
  <2>1. messages'[q][z] = messages[q][z]
    BY <1>1, AppendedLog
  <2>. QED BY <2>1
<1>2. CASE q = n /\ z = s
  <2>. DEFINE k == Len(messages[n][s])
  <2>1. k \in Nat /\ DOMAIN messages[n][s] = 1..k
    BY LogType
  <2>2. DOMAIN messages'[n][s] = 1..k + 1
    BY AppendedLog
  <2>. HIDE DEF k
  <2>3. i \in 1..k + 1
    BY <1>2, <2>2
  <2>4. i \in 1..k \/ i = k + 1
    BY <2>1, <2>3
  <2>5. CASE i \in 1..k
    <3>1. i \in DOMAIN messages[n][s]
      BY <2>1, <2>5
    <3>. QED BY <1>2, <3>1, AppendedLog
  <2>6. CASE i = k + 1
    BY <1>2, <2>6, AppendedLog DEF k
  <2>. QED BY <2>4, <2>5, <2>6
<1>. QED BY <1>1, <1>2

\* What a sender holds it keeps.
LEMMA StoredStays ==
  ASSUME TypeOK, NEW n \in Node, NEW s \in Session, NEW m \in Message, Appended(n, s, m),
         NEW x \in Message, Stored(x)
  PROVE  Stored(x)'
<1>1. x.from \in Node /\ x.sid \in Session
  BY DEF Message
<1>2. DOMAIN messages[n][s] \subseteq DOMAIN messages'[n][s]
  BY AppendedLog, LogType
<1>3. CASE x.from = n /\ x.sid = s
  BY <1>2, <1>3, AppendedLog DEF Stored
<1>4. CASE x.from # n \/ x.sid # s
  BY <1>1, <1>4, AppendedLog DEF Stored
<1>. QED BY <1>3, <1>4

\* n answers the peer's last message, or records a message the peer holds.
Sends(n, s, m) ==
  /\ m.from = n /\ m.type # "REQUEST"
  /\ Len(messages[n][s]) >= 2
  /\ messages[n][s][Len(messages[n][s])].from = Peer(n)

Receives(n, m) == m.from = Peer(n) /\ Stored(m)

\* Two nodes never write different messages at the same place: a message that
\* the peer already holds where n is about to answer would have been sent by n,
\* who does not hold it, or by the peer, whose turn it was not.
LEMMA NoRival ==
  ASSUME TypeOK, LogInv, NEW n \in Node, NEW s \in Session, NEW m \in Message, Sends(n, s, m)
  PROVE  Len(messages[n][s]) + 1 \notin DOMAIN messages[Peer(n)][s]
<1>. DEFINE p == Peer(n)
            k == Len(messages[n][s])
            x == messages[p][s][k + 1]
<1>1. p \in Node /\ Peer(p) = n /\ p # n
  BY PeerNode
<1>2. k \in Nat /\ k >= 2 /\ DOMAIN messages[n][s] = 1..k
  BY LogType DEF Sends
<1>. SUFFICES ASSUME k + 1 \in DOMAIN messages[p][s] PROVE FALSE
  OBVIOUS
<1>3. k \in DOMAIN messages[p][s] /\ k \in DOMAIN messages[n][s]
  BY <1>1, <1>2, LogType
<1>4. x \in Message /\ x.seq = k + 1 /\ x.sid = s /\ Stored(x)
  BY <1>1, LogType DEF LogInv, LogIsDense, LogsAreStored
<1>5. x.from # n
  <2>1. k + 1 \in DOMAIN messages[x.from][s]
    BY <1>4 DEF Stored
  <2>2. k + 1 \notin DOMAIN messages[n][s]
    BY <1>2
  <2>. QED BY <2>1, <2>2
<1>6. x.from = Peer(messages[p][s][k].from)
  <2>1. ~(k + 1 <= 2) /\ (k + 1) - 1 = k
    BY <1>2
  <2>2. x.from = IF k + 1 <= 2 THEN InitiatorOf[s] ELSE Peer(messages[p][s][(k + 1) - 1].from)
    BY <1>1 DEF LogInv, TurnsAlternate
  <2>. QED BY <2>1, <2>2
<1>7. messages[p][s][k] = messages[n][s][k]
  BY <1>1, <1>3, LogsAgree DEF LogInv
<1>8. messages[n][s][k].from = p
  BY DEF Sends
<1>. QED BY <1>1, <1>5, <1>6, <1>7, <1>8

LEMMA AppendKeepsLogInv ==
  ASSUME TypeOK, LogInv, NEW n \in Node, NEW s \in Session, NEW m \in Message,
         m.sid = s, m.seq = Len(messages[n][s]) + 1,
         Appended(n, s, m), lastSequence' = [lastSequence EXCEPT ![n][s] = m.seq],
         Sends(n, s, m) \/ Receives(n, m)
  PROVE  LogInv' /\ Stored(m)'
<1>. DEFINE p == Peer(n)
            k == Len(messages[n][s])
<1>1. p \in Node /\ Peer(p) = n /\ p # n
  BY PeerNode
<1>2. k \in Nat /\ DOMAIN messages[n][s] = 1..k /\ DOMAIN messages'[n][s] = 1..k + 1
  BY LogType, AppendedLog
<1>3. LogIsDense'
  <2>. SUFFICES ASSUME NEW q \in Node, NEW z \in Session
                PROVE  /\ lastSequence'[q][z] = Len(messages'[q][z])
                       /\ \A i \in DOMAIN messages'[q][z] :
                            messages'[q][z][i].seq = i /\ messages'[q][z][i].sid = z
    BY DEF LogIsDense
  <2>1. CASE q = n /\ z = s
    <3>1. lastSequence'[n][s] = k + 1
      BY DEF TypeOK
    <3>2. Len(messages'[n][s]) = k + 1 /\ messages'[n][s][k + 1] = m
      BY AppendedLog
    <3>3. ASSUME NEW i \in DOMAIN messages[n][s]
          PROVE  messages'[n][s][i].seq = i /\ messages'[n][s][i].sid = s
      BY AppendedLog DEF LogInv, LogIsDense
    <3>4. \A i \in DOMAIN messages'[n][s] : i \in DOMAIN messages[n][s] \/ i = k + 1
      BY <1>2
    <3>. QED BY <2>1, <3>1, <3>2, <3>3, <3>4
  <2>2. CASE q # n \/ z # s
    <3>1. lastSequence'[q][z] = lastSequence[q][z]
      BY <2>2 DEF TypeOK
    <3>. QED BY <2>2, <3>1, AppendedLog DEF LogInv, LogIsDense
  <2>. QED BY <2>1, <2>2
<1>4. Stored(m)'
  <2>1. CASE Sends(n, s, m)
    BY <1>2, <2>1, AppendedLog DEF Stored, Sends
  <2>2. CASE Receives(n, m)
    BY <2>2, StoredStays DEF Receives
  <2>. QED BY <2>1, <2>2
<1>5. LogsAreStored'
  <2>. SUFFICES ASSUME NEW q \in Node, NEW z \in Session, NEW i \in DOMAIN messages'[q][z]
                PROVE  Stored(messages[q][z][i])'
    BY DEF LogsAreStored
  <2>1. PICK x : x = messages'[q][z][i]
    OBVIOUS
  <2>2. ASSUME q = n, z = s, i = k + 1 PROVE Stored(x)'
    <3>1. messages'[n][s][k + 1] = m
      BY AppendedLog
    <3>2. x = m
      BY <2>1, <2>2, <3>1
    <3>. QED BY <1>4, <3>2
  <2>3. ASSUME ~(q = n /\ z = s /\ i = k + 1) PROVE Stored(x)'
    <3>1. i \in DOMAIN messages[q][z] /\ messages'[q][z][i] = messages[q][z][i]
      BY <2>3, AppendedAt
    <3>2. x \in Message /\ Stored(x)
      BY <2>1, <3>1, LogType DEF LogInv, LogsAreStored
    <3>. QED BY <3>2, StoredStays
  <2>4. Stored(x)'
    BY <2>2, <2>3
  <2>5. x.seq \in DOMAIN messages'[x.from][x.sid] /\ messages'[x.from][x.sid][x.seq] = x
    BY <2>4 DEF Stored
  <2>. QED BY <2>1, <2>5 DEF Stored
<1>6. TurnsAlternate'
  <2>. SUFFICES ASSUME NEW q \in Node, NEW z \in Session, NEW i \in DOMAIN messages'[q][z]
                PROVE  /\ messages'[q][z][i].type = "REQUEST" <=> i = 1
                       /\ messages'[q][z][i].from =
                            IF i <= 2 THEN InitiatorOf[z] ELSE Peer(messages'[q][z][i - 1].from)
    BY DEF TurnsAlternate
  <2>1. CASE ~(q = n /\ z = s /\ i = k + 1)
    <3>1. i \in DOMAIN messages[q][z] /\ messages'[q][z][i] = messages[q][z][i]
      BY <2>1, AppendedAt
    <3>2. ASSUME i > 2 PROVE messages'[q][z][i - 1] = messages[q][z][i - 1]
      <4>1. i - 1 \in DOMAIN messages[q][z]
        BY <3>1, <3>2, LogType
      <4>2. CASE q = n /\ z = s
        BY <1>2, <4>1, <4>2, AppendedLog
      <4>3. CASE ~(q = n /\ z = s)
        BY <1>2, <4>3, AppendedLog
      <4>. QED BY <4>2, <4>3
    <3>3. i \in Nat
      BY <3>1, LogType
    <3>. QED BY <3>1, <3>2, <3>3 DEF LogInv, TurnsAlternate
  <2>2. CASE q = n /\ z = s /\ i = k + 1 /\ Sends(n, s, m)
    <3>1. k >= 2 /\ messages'[n][s][k] = messages[n][s][k]
      BY <1>2, <2>2, AppendedLog DEF Sends
    <3>2. messages'[q][z][i] = m /\ ~(i <= 2) /\ i # 1 /\ i - 1 = k
      BY <1>2, <2>2, <3>1, AppendedLog
    <3>3. m.from = Peer(messages[n][s][k].from) /\ m.type # "REQUEST"
      BY <1>1, <2>2 DEF Sends
    <3>. QED BY <2>2, <3>1, <3>2, <3>3
  <2>3. CASE q = n /\ z = s /\ i = k + 1 /\ Receives(n, m)
    <3>1. messages'[n][s][i] = m /\ i - 1 = k
      BY <1>2, <2>3, AppendedLog
    <3>2. i \in DOMAIN messages[p][s] /\ messages[p][s][i] = m
      BY <2>3 DEF Receives, Stored
    <3>3. /\ m.type = "REQUEST" <=> i = 1
          /\ m.from = IF i <= 2 THEN InitiatorOf[s] ELSE Peer(messages[p][s][i - 1].from)
      BY <1>1, <3>2 DEF LogInv, TurnsAlternate
    <3>4. CASE i <= 2
      BY <2>3, <3>1, <3>3, <3>4
    <3>5. CASE ~(i <= 2)
      <4>1. k \in DOMAIN messages[n][s] \cap DOMAIN messages[p][s]
        BY <1>1, <1>2, <2>3, <3>2, <3>5, LogType
      <4>2. messages[p][s][k] = messages[n][s][k] /\ messages'[n][s][k] = messages[n][s][k]
        BY <1>1, <4>1, LogsAgree, AppendedLog DEF LogInv
      <4>. QED BY <2>3, <3>1, <3>3, <3>5, <4>2
    <3>. QED BY <3>4, <3>5
  <2>. QED BY <2>1, <2>2, <2>3
<1>7. HistoriesAgree'
  <2>1. ASSUME NEW z \in Session, NEW i \in DOMAIN messages'[n][z] \cap DOMAIN messages'[p][z]
        PROVE  messages'[n][z][i] = messages'[p][z][i]
    <3>0. messages'[p][z] = messages[p][z]
      BY <1>1, AppendedLog
    <3>1. CASE z = s /\ i = k + 1 /\ Sends(n, s, m)
      BY <3>0, <3>1, NoRival
    <3>2. CASE z = s /\ i = k + 1 /\ Receives(n, m)
      BY <3>0, <3>2, AppendedLog DEF Receives, Stored
    <3>3. CASE ~(z = s /\ i = k + 1)
      <4>1. i \in DOMAIN messages[n][z] /\ messages'[n][z][i] = messages[n][z][i]
        BY <1>2, <3>3, AppendedLog
      <4>. QED BY <1>1, <3>0, <4>1, LogsAgree DEF LogInv
    <3>. QED BY <3>1, <3>2, <3>3
  <2>2. (n = "a" /\ p = "b") \/ (n = "b" /\ p = "a")
    BY DEF Node, Peer
  <2>3. CASE n = "a" /\ p = "b"
    BY <2>1, <2>3 DEF HistoriesAgree
  <2>4. CASE n = "b" /\ p = "a"
    BY <2>1, <2>4 DEF HistoriesAgree
  <2>. QED BY <2>2, <2>3, <2>4
<1>. QED BY <1>3, <1>4, <1>5, <1>6, <1>7 DEF LogInv

--------------------------------------------------------------------------------
(* Steps that add one message to one log *)

\* The status of a session after a message, sent or received.
StatusAfter(type) ==
  CASE type = "ACCEPT"            -> "agreed"
    [] type \in {"REJECT", "ERROR"} -> "failed"
    [] OTHER                      -> "open"

\* Node n adds m to session s, which is not over, and follows it.
AppendStep(n, s, m) ==
  /\ m.sid = s /\ m.seq = Len(messages[n][s]) + 1
  /\ Sends(n, s, m) \/ Receives(n, m)
  /\ Appended(n, s, m)
  /\ lastSequence' = [lastSequence EXCEPT ![n][s] = m.seq]
  /\ status[n][s] \notin Terminal
  /\ status' = [status EXCEPT ![n][s] = StatusAfter(m.type)]
  /\ agreement' = [agreement EXCEPT ![n][s] = IF m.type = "ACCEPT" THEN m.offer ELSE @]
  /\ \A q \in Node, z \in Session : q # n \/ z # s => pending'[q][z] = pending[q][z]

LEMMA AppendElsewhere ==
  ASSUME TypeOK, NEW n \in Node, NEW s \in Session, NEW m \in Message, AppendStep(n, s, m),
         NEW q \in Node, NEW z \in Session, q # n \/ z # s
  PROVE  /\ status'[q][z] = status[q][z] /\ agreement'[q][z] = agreement[q][z]
         /\ pending'[q][z] = pending[q][z] /\ messages'[q][z] = messages[q][z]
<1>1. messages'[q][z] = messages[q][z]
  BY AppendedLog DEF AppendStep
<1>2. pending'[q][z] = pending[q][z]
  BY DEF AppendStep
<1>3. status'[q][z] = status[q][z]
  BY DEF AppendStep, TypeOK
<1>4. agreement'[q][z] = agreement[q][z]
  BY DEF AppendStep, TypeOK
<1>. QED BY <1>1, <1>2, <1>3, <1>4

LEMMA AppendKeepsStatus ==
  ASSUME TypeOK, StatusFollowsLog, NEW n \in Node, NEW s \in Session, NEW m \in Message,
         AppendStep(n, s, m)
  PROVE  StatusFollowsLog'
<1>. DEFINE k == Len(messages[n][s])
            st == StatusAfter(m.type)
<1>1. /\ k \in Nat /\ DOMAIN messages[n][s] = 1..k /\ DOMAIN messages'[n][s] = 1..k + 1
      /\ Len(messages'[n][s]) = k + 1 /\ messages'[n][s][k + 1] = m
      /\ \A i \in 1..k : messages'[n][s][i] = messages[n][s][i]
  BY LogType, AppendedLog DEF AppendStep
<1>2. status'[n][s] = st /\ agreement'[n][s] = IF m.type = "ACCEPT" THEN m.offer ELSE agreement[n][s]
  BY DEF AppendStep, TypeOK
<1>3. /\ st = "agreed" <=> m.type = "ACCEPT"
      /\ st = "failed" <=> m.type \in {"REJECT", "ERROR"}
      /\ st \notin {"none", "waiting_approval"}
  BY DEF StatusAfter
<1>4. \A i \in 1..k : messages[n][s][i].type \notin Final
  BY <1>1 DEF AppendStep, StatusFollowsLog, StatusFollowsItsLog, Terminal
<1>5. agreement[n][s] = {}
  BY DEF AppendStep, StatusFollowsLog, StatusFollowsItsLog, Terminal
<1>6. Last(messages'[n][s]) = m /\ messages'[n][s] # <<>>
  BY <1>1 DEF Last
<1>. HIDE DEF st
<1>7. /\ status'[n][s] = "none" <=> messages'[n][s] = <<>>
      /\ \A i \in DOMAIN messages'[n][s] :
           messages'[n][s][i].type \in Final =>
             /\ i = Len(messages'[n][s])
             /\ status'[n][s] = IF messages'[n][s][i].type = "ACCEPT" THEN "agreed" ELSE "failed"
      /\ status'[n][s] \in Terminal => Last(messages'[n][s]).type \in Final
      /\ agreement'[n][s] = IF status'[n][s] = "agreed" THEN Last(messages'[n][s]).offer ELSE {}
      /\ status'[n][s] # "waiting_approval"
  <2>1. status'[n][s] = "none" <=> messages'[n][s] = <<>>
    BY <1>2, <1>3, <1>6
  <2>2. ASSUME NEW i \in DOMAIN messages'[n][s], messages'[n][s][i].type \in Final
        PROVE  /\ i = Len(messages'[n][s])
               /\ status'[n][s] = IF messages'[n][s][i].type = "ACCEPT" THEN "agreed" ELSE "failed"
    <3>1. i \in 1..k \/ i = k + 1
      BY <1>1
    <3>2. i \notin 1..k
      BY <1>1, <1>4, <2>2
    <3>. QED BY <1>1, <1>2, <1>3, <2>2, <3>1, <3>2 DEF Final
  <2>3. status'[n][s] \in Terminal => Last(messages'[n][s]).type \in Final
    BY <1>2, <1>3, <1>6 DEF Terminal, Final
  <2>4. agreement'[n][s] = IF status'[n][s] = "agreed" THEN Last(messages'[n][s]).offer ELSE {}
    BY <1>2, <1>3, <1>5, <1>6
  <2>5. status'[n][s] # "waiting_approval"
    BY <1>2, <1>3
  <2>. QED BY <2>1, <2>2, <2>3, <2>4, <2>5
<1>8. ASSUME NEW q \in Node, NEW z \in Session, q # n \/ z # s
      PROVE  /\ status'[q][z] = status[q][z] /\ agreement'[q][z] = agreement[q][z]
             /\ pending'[q][z] = pending[q][z] /\ messages'[q][z] = messages[q][z]
  BY <1>8, AppendElsewhere
<1>. QED BY <1>7, <1>8 DEF StatusFollowsLog, StatusFollowsItsLog

\* A step disturbs at most one session of one node, and none that has ended.
OneSession(n, s) ==
  \A q \in Node, z \in Session :
    q # n \/ z # s \/ status[q][z] \in Terminal =>
      /\ status'[q][z] = status[q][z] /\ agreement'[q][z] = agreement[q][z]
      /\ messages'[q][z] = messages[q][z]

SmallStep ==
  \/ UNCHANGED <<status, agreement, messages>>
  \/ \E n \in Node, s \in Session : OneSession(n, s)

LEMMA AppendIsSmall ==
  ASSUME TypeOK, NEW n \in Node, NEW s \in Session, NEW m \in Message, AppendStep(n, s, m)
  PROVE  SmallStep
<1>1. status[n][s] \notin Terminal
  BY DEF AppendStep
<1>2. ASSUME NEW q \in Node, NEW z \in Session, q # n \/ z # s \/ status[q][z] \in Terminal
      PROVE  /\ status'[q][z] = status[q][z] /\ agreement'[q][z] = agreement[q][z]
             /\ messages'[q][z] = messages[q][z]
  BY <1>1, <1>2, AppendElsewhere
<1>. QED BY <1>2 DEF SmallStep, OneSession

\* The peer never has the next message when the last one is its own.
LEMMA NotPeersTurn ==
  ASSUME TypeOK, LogInv, NEW n \in Node, NEW s \in Session, NEW m \in Message,
         m.sid = s, m.seq = Len(messages[n][s]) + 1, Receives(n, m),
         Len(messages[n][s]) >= 2, messages[n][s][Len(messages[n][s])].from = Peer(n)
  PROVE  FALSE
<1>. DEFINE p == Peer(n)
            k == Len(messages[n][s])
<1>1. p \in Node /\ Peer(p) = n /\ p # n
  BY PeerNode
<1>2. k \in Nat /\ k >= 2 /\ ~(k + 1 <= 2) /\ (k + 1) - 1 = k
  BY LogType
<1>3. k + 1 \in DOMAIN messages[p][s] /\ messages[p][s][k + 1] = m
  BY DEF Receives, Stored
<1>4. m.from = Peer(messages[p][s][k].from)
  <2>1. messages[p][s][k + 1].from =
          IF k + 1 <= 2 THEN InitiatorOf[s] ELSE Peer(messages[p][s][(k + 1) - 1].from)
    BY <1>1, <1>3 DEF LogInv, TurnsAlternate
  <2>. QED BY <1>2, <1>3, <2>1
<1>5. messages[p][s][k] = messages[n][s][k]
  <2>1. k \in DOMAIN messages[p][s] \cap DOMAIN messages[n][s]
    BY <1>1, <1>2, <1>3, LogType
  <2>. QED BY <1>1, <2>1, LogsAgree DEF LogInv
<1>6. m.from = n
  BY <1>1, <1>4, <1>5
<1>. QED BY <1>1, <1>6 DEF Receives

\* A session whose last message is an offer has had its REQUEST before.
LEMMA OfferIsNotFirst ==
  ASSUME TypeOK, TurnsAlternate, NEW n \in Node, NEW s \in Session,
         Len(messages[n][s]) >= 1, messages[n][s][Len(messages[n][s])].type \in OfferTypes
  PROVE  Len(messages[n][s]) >= 2
<1>1. Len(messages[n][s]) \in Nat /\ Len(messages[n][s]) \in DOMAIN messages[n][s]
  BY LogType
<1>2. CASE Len(messages[n][s]) = 1
  <2>1. 1 \in DOMAIN messages[n][s] /\ messages[n][s][1].type \in OfferTypes
    BY <1>1, <1>2
  <2>2. messages[n][s][1].type = "REQUEST" <=> 1 = 1
    BY <2>1 DEF TurnsAlternate
  <2>. QED BY <2>1, <2>2 DEF OfferTypes
<1>3. CASE Len(messages[n][s]) # 1
  <2>1. \A k \in Nat : k >= 1 /\ k # 1 => k >= 2
    OBVIOUS
  <2>. QED BY <1>1, <1>3, <2>1
<1>. QED BY <1>2, <1>3

\* A session that waits for its owner, or is being decided about, has the
\* peer's offer as its last message.
LEMMA WaitingTurn ==
  ASSUME TypeOK, LogInv, StatusFollowsLog, NEW n \in Node, NEW s \in Session,
         status[n][s] = "waiting_approval"
  PROVE  /\ Len(messages[n][s]) >= 2
         /\ messages[n][s][Len(messages[n][s])].from = Peer(n)
         /\ messages[n][s][Len(messages[n][s])].type \in OfferTypes
         /\ pending[n][s] = Len(messages[n][s])
<1>1. messages[n][s] # <<>>
  BY DEF StatusFollowsLog, StatusFollowsItsLog
<1>2. Len(messages[n][s]) >= 1
  BY <1>1, LogType, EmptySeq
<1>3. /\ messages[n][s][Len(messages[n][s])].from = Peer(n)
      /\ messages[n][s][Len(messages[n][s])].type \in OfferTypes
      /\ pending[n][s] = Len(messages[n][s])
  BY DEF StatusFollowsLog, StatusFollowsItsLog, Last
<1>. QED BY <1>2, <1>3, OfferIsNotFirst DEF LogInv

LEMMA DecidingTurn ==
  ASSUME TypeOK, LogInv, StatusFollowsLog, DecidesTheLast, NEW n \in Node, NEW t \in Thread,
         work[n][t].stage = "decide"
  PROVE  LET m == work[n][t].msg
         IN  /\ m \in Message /\ m.sid \in Session
             /\ Len(messages[n][m.sid]) >= 2 /\ m.seq = Len(messages[n][m.sid])
             /\ messages[n][m.sid][Len(messages[n][m.sid])].from = Peer(n)
             /\ status[n][m.sid] = "open"
<1>. DEFINE m == work[n][t].msg
<1>1. m \in Message
  BY WorkMessage
<1>2. /\ status[n][m.sid] = "open" /\ m.from = Peer(n) /\ m.type \in OfferTypes
      /\ m.seq = Len(messages[n][m.sid]) /\ messages[n][m.sid][m.seq] = m
  BY DEF DecidesTheLast
<1>. HIDE DEF m
<1>3. m.sid \in Session
  BY <1>1 DEF Message
<1>4. m.seq >= 1
  <2>1. messages[n][m.sid] # <<>>
    BY <1>2, <1>3 DEF StatusFollowsLog, StatusFollowsItsLog
  <2>. QED BY <1>2, <1>3, <2>1, LogType, EmptySeq
<1>5. Len(messages[n][m.sid]) >= 2
  BY <1>2, <1>3, <1>4, OfferIsNotFirst DEF LogInv
<1>. QED BY <1>1, <1>2, <1>3, <1>5 DEF m

\* Node n queues m, as the answer to approval ap if ap is not 0.
Queued(n, m, ap) ==
  outbox' = [outbox EXCEPT ![n] = Append(@, [msg |-> m, status |-> "pending", approval |-> ap])]

LEMMA QueuedRow ==
  ASSUME TypeOK, NEW n \in Node, NEW m \in Message, NEW ap \in Nat, Queued(n, m, ap)
  PROVE  /\ \A q \in Node : q # n => outbox'[q] = outbox[q]
         /\ DOMAIN outbox[n] = 1..Len(outbox[n]) /\ Len(outbox[n]) \in Nat
         /\ DOMAIN outbox'[n] = 1..Len(outbox[n]) + 1
         /\ \A i \in DOMAIN outbox[n] : outbox'[n][i] = outbox[n][i]
         /\ outbox'[n][Len(outbox[n]) + 1] = [msg |-> m, status |-> "pending", approval |-> ap]
<1>. DEFINE row == [msg |-> m, status |-> "pending", approval |-> ap]
<1>1. row \in OutboxRow /\ outbox[n] \in Seq(OutboxRow)
  BY DEF OutboxRow, TypeOK
<1>2. outbox' = [outbox EXCEPT ![n] = Append(@, row)]
  BY DEF Queued
<1>. HIDE DEF row
<1>3. outbox'[n] = Append(outbox[n], row) /\ \A q \in Node : q # n => outbox'[q] = outbox[q]
  BY <1>2 DEF TypeOK
<1>4. /\ DOMAIN outbox[n] = 1..Len(outbox[n]) /\ Len(outbox[n]) \in Nat
      /\ DOMAIN outbox'[n] = 1..Len(outbox[n]) + 1
      /\ \A i \in 1..Len(outbox[n]) : outbox'[n][i] = outbox[n][i]
      /\ outbox'[n][Len(outbox[n]) + 1] = row
  BY <1>1, <1>3, AppendProperties, LenProperties
<1>. QED BY <1>3, <1>4 DEF row

LEMMA RowType ==
  ASSUME TypeOK, NEW n \in Node
  PROVE  /\ \A i \in DOMAIN outbox[n] : outbox[n][i] \in OutboxRow /\ outbox[n][i].msg \in Message
         /\ \A i \in DOMAIN mailbox[n] : mailbox[n][i] \in Message
<1>1. outbox[n] \in Seq(OutboxRow) /\ mailbox[n] \in Seq(Message)
  BY DEF TypeOK
<1>2. \A i \in DOMAIN outbox[n] : outbox[n][i] \in OutboxRow
  BY <1>1, LenProperties, ElementOfSeq
<1>3. \A i \in DOMAIN mailbox[n] : mailbox[n][i] \in Message
  BY <1>1, LenProperties, ElementOfSeq
<1>. QED BY <1>2, <1>3 DEF OutboxRow

LEMMA AppendKeepsRows ==
  ASSUME TypeOK, LogInv, RowsAreStored, NEW n \in Node, NEW s \in Session, NEW m \in Message,
         NEW ap \in Nat, AppendStep(n, s, m), UNCHANGED mailbox,
         UNCHANGED outbox \/ (m.from = n /\ Queued(n, m, ap))
  PROVE  RowsAreStored'
<1>1. Stored(m)'
  BY AppendKeepsLogInv DEF AppendStep
<1>2. ASSUME NEW x \in Message, Stored(x) PROVE Stored(x)'
  BY <1>2, StoredStays DEF AppendStep
<1>3. ASSUME NEW q \in Node, NEW i \in DOMAIN mailbox'[q]
      PROVE  mailbox'[q][i].from = Peer(q) /\ Stored(mailbox[q][i])'
  BY <1>2, RowType DEF RowsAreStored
<1>4. ASSUME NEW q \in Node, NEW i \in DOMAIN outbox[q], NEW x, x = outbox[q][i].msg
      PROVE  x.from = q /\ Stored(x)'
  <2>1. x \in Message
    BY <1>4, RowType
  <2>2. x.from = q /\ Stored(x)
    BY <1>4 DEF RowsAreStored
  <2>. QED BY <1>2, <2>1, <2>2
<1>5. ASSUME NEW q \in Node, NEW i \in DOMAIN outbox'[q], NEW x, x = outbox'[q][i].msg
      PROVE  x.from = q /\ Stored(x)'
  <2>1. CASE UNCHANGED outbox
    BY <1>4, <1>5, <2>1
  <2>2. CASE m.from = n /\ Queued(n, m, ap)
    <3>0. /\ \A w \in Node : w # n => outbox'[w] = outbox[w]
          /\ Len(outbox[n]) \in Nat /\ DOMAIN outbox[n] = 1..Len(outbox[n])
          /\ DOMAIN outbox'[n] = 1..Len(outbox[n]) + 1
          /\ \A j \in DOMAIN outbox[n] : outbox'[n][j] = outbox[n][j]
          /\ outbox'[n][Len(outbox[n]) + 1] = [msg |-> m, status |-> "pending", approval |-> ap]
      BY <2>2, QueuedRow
    <3>1. CASE q # n
      BY <1>4, <1>5, <3>0, <3>1
    <3>2. CASE q = n /\ i \in DOMAIN outbox[n]
      BY <1>4, <1>5, <3>0, <3>2
    <3>3. CASE q = n /\ i = Len(outbox[n]) + 1
      BY <1>1, <1>5, <2>2, <3>0, <3>3
    <3>4. q = n => i \in DOMAIN outbox[n] \/ i = Len(outbox[n]) + 1
      BY <3>0
    <3>. QED BY <3>1, <3>2, <3>3, <3>4
  <2>. QED BY <2>1, <2>2
<1>6. ASSUME NEW q \in Node, NEW i \in DOMAIN outbox'[q]
      PROVE  (outbox[q][i].msg.from = q /\ Stored(outbox[q][i].msg))'
  <2>1. PICK x : x = outbox'[q][i].msg
    OBVIOUS
  <2>2. x.from = q /\ Stored(x)'
    BY <1>5, <1>6, <2>1
  <2>3. /\ x.from = q /\ x.seq \in DOMAIN messages'[x.from][x.sid]
        /\ messages'[x.from][x.sid][x.seq] = x
    BY <2>2 DEF Stored
  <2>. QED BY <2>1, <2>3 DEF Stored
<1>. QED BY <1>3, <1>6 DEF RowsAreStored

\* Deciding survives when no other caller decides about the same session.
LEMMA AppendKeepsDecides ==
  ASSUME TypeOK, LogInv, StatusFollowsLog, DecidesTheLast,
         NEW n \in Node, NEW s \in Session, NEW m \in Message, AppendStep(n, s, m),
         \A q \in Node : q # n => work'[q] = work[q],
         \A u \in Thread : work'[n][u].stage = "decide" =>
           \/ work'[n][u] = work[n][u] /\ work[n][u].msg.sid # s
           \/ /\ work'[n][u].msg = m /\ m.from = Peer(n) /\ m.type \in OfferTypes
              /\ \A v \in Thread : v # u /\ work'[n][v].stage = "decide" =>
                   work'[n][v].msg.sid # s
  PROVE  DecidesTheLast'
<1>. SUFFICES ASSUME NEW q \in Node, NEW u \in Thread, work'[q][u].stage = "decide"
              PROVE  LET x == work'[q][u].msg
                     IN  /\ status'[q][x.sid] = "open"
                         /\ x.from = Peer(q) /\ x.type \in OfferTypes
                         /\ x.seq = Len(messages'[q][x.sid]) /\ messages'[q][x.sid][x.seq] = x
                         /\ \A v \in Thread : v # u /\ work'[q][v].stage = "decide" =>
                              work'[q][v].msg.sid # x.sid
  BY DEF DecidesTheLast
<1>. DEFINE x == work'[q][u].msg
<1>1. CASE q # n
  <2>1. work'[q] = work[q]
    BY <1>1
  <2>2. x \in Message /\ x.sid \in Session
    BY <2>1, WorkMessage DEF Message
  <2>3. status'[q][x.sid] = status[q][x.sid] /\ messages'[q][x.sid] = messages[q][x.sid]
    BY <1>1, <2>2, AppendElsewhere
  <2>4. /\ status[q][x.sid] = "open" /\ x.from = Peer(q) /\ x.type \in OfferTypes
        /\ x.seq = Len(messages[q][x.sid]) /\ messages[q][x.sid][x.seq] = x
        /\ \A v \in Thread : v # u /\ work[q][v].stage = "decide" => work[q][v].msg.sid # x.sid
    <3>1. work[q][u].stage = "decide" /\ x = work[q][u].msg
      BY <2>1
    <3>. HIDE DEF x
    <3>. QED BY <3>1, DecidesAt
  <2>. QED BY <2>1, <2>3, <2>4
<1>2. CASE q = n /\ work'[n][u] = work[n][u] /\ work[n][u].msg.sid # s
  <2>1. x \in Message /\ x.sid \in Session
    BY <1>2, WorkMessage DEF Message
  <2>2. status'[q][x.sid] = status[q][x.sid] /\ messages'[q][x.sid] = messages[q][x.sid]
    BY <1>2, <2>1, AppendElsewhere
  <2>3. ASSUME NEW v \in Thread, v # u, work'[n][v].stage = "decide"
        PROVE  work'[n][v].msg.sid # x.sid
    <3>1. CASE work'[n][v] = work[n][v]
      <4>1. work[n][v].stage = "decide" /\ work[n][u].stage = "decide" /\ x = work[n][u].msg
        BY <1>2, <2>3, <3>1
      <4>2. work[n][v].msg.sid # work[n][u].msg.sid
        BY <2>3, <4>1, DecidesAt
      <4>. QED BY <3>1, <4>1, <4>2
    <3>2. CASE work'[n][v].msg = m
      BY <1>2, <3>2 DEF AppendStep
    <3>. QED BY <2>3, <3>1, <3>2
  <2>4. /\ status[q][x.sid] = "open" /\ x.from = Peer(q) /\ x.type \in OfferTypes
        /\ x.seq = Len(messages[q][x.sid]) /\ messages[q][x.sid][x.seq] = x
    <3>1. q \in Node /\ work[q][u].stage = "decide" /\ x = work[q][u].msg
      BY <1>2
    <3>. HIDE DEF x
    <3>. QED BY <3>1, DecidesAt
  <2>. QED BY <1>2, <2>2, <2>3, <2>4
<1>3. CASE q = n /\ ~(work'[n][u] = work[n][u] /\ work[n][u].msg.sid # s)
  <2>1. /\ x = m /\ m.from = Peer(n) /\ m.type \in OfferTypes
        /\ \A v \in Thread : v # u /\ work'[n][v].stage = "decide" => work'[n][v].msg.sid # s
    BY <1>3
  <2>2. m.sid = s /\ m.seq = Len(messages[n][s]) + 1
    BY DEF AppendStep
  <2>3. Len(messages'[n][s]) = m.seq /\ messages'[n][s][m.seq] = m
    BY <2>2, AppendedLog DEF AppendStep
  <2>4. StatusAfter(m.type) = "open"
    BY <2>1 DEF StatusAfter, OfferTypes
  <2>5. status'[n][s] = "open"
    BY <2>4 DEF AppendStep, TypeOK
  <2>. QED BY <1>3, <2>1, <2>2, <2>3, <2>5
<1>. QED BY <1>1, <1>2, <1>3

LEMMA AppendKeepsResolving ==
  ASSUME TypeOK, ResolvesThePending, NEW n \in Node, NEW s \in Session, NEW m \in Message,
         NEW ap \in Nat, AppendStep(n, s, m),
         UNCHANGED outbox \/ (Queued(n, m, ap) /\ (ap # 0 => m.seq = ap + 1)),
         \A q \in Node : resolving'[q] \subseteq resolving[q],
         \A r \in resolving[n] :
           r.sid = s /\ status[n][s] = "waiting_approval" /\ r.seq = pending[n][s] =>
             Queued(n, m, r.seq)
  PROVE  ResolvesThePending'
<1>1. ASSUME NEW q \in Node, NEW i \in DOMAIN outbox'[q], outbox'[q][i].approval # 0
      PROVE  outbox'[q][i].msg.seq = outbox'[q][i].approval + 1
  <2>1. CASE i \in DOMAIN outbox[q] /\ outbox'[q][i] = outbox[q][i]
    BY <1>1, <2>1 DEF ResolvesThePending
  <2>2. CASE ~(i \in DOMAIN outbox[q] /\ outbox'[q][i] = outbox[q][i])
    <3>1. Queued(n, m, ap) /\ (ap # 0 => m.seq = ap + 1)
      BY <2>2
    <3>2. outbox'[q][i] = [msg |-> m, status |-> "pending", approval |-> ap]
      BY <2>2, <3>1, QueuedRow
    <3>. QED BY <1>1, <3>1, <3>2
  <2>. QED BY <2>1, <2>2
<1>2. ASSUME NEW q \in Node, NEW z \in Session, NEW id \in Nat, Answered(q, z, id)
      PROVE  Answered(q, z, id)'
  <2>1. PICK i \in DOMAIN outbox[q] : outbox[q][i].msg.sid = z /\ outbox[q][i].approval = id
    BY <1>2 DEF Answered
  <2>2. i \in DOMAIN outbox'[q] /\ outbox'[q][i] = outbox[q][i]
    <3>1. CASE UNCHANGED outbox
      BY <3>1
    <3>2. CASE Queued(n, m, ap)
      <4>1. /\ \A w \in Node : w # n => outbox'[w] = outbox[w]
            /\ Len(outbox[n]) \in Nat /\ DOMAIN outbox[n] = 1..Len(outbox[n])
            /\ DOMAIN outbox'[n] = 1..Len(outbox[n]) + 1
            /\ \A j \in DOMAIN outbox[n] : outbox'[n][j] = outbox[n][j]
        BY <3>2, QueuedRow
      <4>2. CASE q = n
        BY <4>1, <4>2
      <4>. QED BY <4>1, <4>2
    <3>. QED BY <3>1, <3>2
  <2>. QED BY <2>1, <2>2 DEF Answered
<1>3. ASSUME NEW q \in Node, NEW r \in resolving'[q]
      PROVE  \/ Answered(q, r.sid, r.seq)'
             \/ /\ status'[q][r.sid] = "waiting_approval"
                /\ r.seq = pending'[q][r.sid] /\ r.last = r.seq
  <2>0. r \in resolving[q] /\ r \in Resolution
    BY <1>3 DEF TypeOK
  <2>1. r \in resolving[q] /\ r \in Resolution /\ r.sid \in Session /\ r.seq \in Nat
    BY <2>0 DEF Resolution
  <2>2. CASE Answered(q, r.sid, r.seq)
    BY <1>2, <2>1, <2>2
  <2>3. CASE ~Answered(q, r.sid, r.seq) /\ (q # n \/ r.sid # s)
    <3>1. status'[q][r.sid] = status[q][r.sid] /\ pending'[q][r.sid] = pending[q][r.sid]
      BY <2>1, <2>3, AppendElsewhere
    <3>. QED BY <2>1, <2>3, <3>1 DEF ResolvesThePending
  <2>4. CASE ~Answered(q, r.sid, r.seq) /\ q = n /\ r.sid = s
    <3>1. status[n][s] = "waiting_approval" /\ r.seq = pending[n][s]
      BY <2>1, <2>4 DEF ResolvesThePending
    <3>2. Queued(n, m, r.seq)
      BY <2>1, <2>4, <3>1
    <3>3. /\ Len(outbox[n]) + 1 \in DOMAIN outbox'[n]
          /\ outbox'[n][Len(outbox[n]) + 1] = [msg |-> m, status |-> "pending", approval |-> r.seq]
      BY <2>1, <3>2, QueuedRow
    <3>4. m.sid = s
      BY DEF AppendStep
    <3>. QED BY <2>4, <3>3, <3>4 DEF Answered
  <2>. QED BY <2>2, <2>3, <2>4
<1>. QED BY <1>1, <1>3 DEF ResolvesThePending

--------------------------------------------------------------------------------
(* The actions that add a message *)

\* A message of the mailbox that n accepts is the peer's next message, in a
\* session that is neither over nor in n's hands.
LEMMA AcceptedIsNext ==
  ASSUME TypeOK, ProtocolInv, NEW n \in Node, NEW i \in DOMAIN mailbox[n], Accepts(n, mailbox[n][i])
  PROVE  LET m == mailbox[n][i]
         IN  /\ m \in Message /\ m.sid \in Session /\ Receives(n, m)
             /\ m.seq = Len(messages[n][m.sid]) + 1
             /\ status[n][m.sid] \in {"none", "open"}
             /\ m.type \in OfferTypes => status[n][m.sid] = "open"
             /\ \A u \in Thread : work[n][u].stage = "decide" => work[n][u].msg.sid # m.sid
<1>. DEFINE m == mailbox[n][i]
<1>1. m \in Message /\ Receives(n, m)
  BY RowType DEF ProtocolInv, RowsAreStored, Receives
<1>2. Accepts(n, m)
  OBVIOUS
<1>. HIDE DEF m
<1>3. m.sid \in Session
  BY <1>1 DEF Message
<1>4. /\ status[n][m.sid] \notin Terminal
      /\ m.seq = Len(messages[n][m.sid]) + 1
      /\ m.type \in AllowedAfter(LastType(messages[n][m.sid]))
  BY <1>2, <1>3 DEF Accepts, ValidateIncoming, ProtocolInv, LogInv, LogIsDense, Terminal
<1>5. status[n][m.sid] # "waiting_approval"
  BY <1>1, <1>3, <1>4, WaitingTurn, NotPeersTurn DEF ProtocolInv
<1>6. status[n][m.sid] \in {"none", "open"}
  BY <1>3, <1>4, <1>5 DEF TypeOK, Statuses, Terminal
<1>7. m.type \in OfferTypes => status[n][m.sid] = "open"
  <2>. SUFFICES ASSUME m.type \in OfferTypes, status[n][m.sid] = "none" PROVE FALSE
    BY <1>6
  <2>1. messages[n][m.sid] = <<>>
    BY <1>3 DEF ProtocolInv, StatusFollowsLog, StatusFollowsItsLog
  <2>2. m.type \in AllowedAfter("")
    BY <1>4, <2>1 DEF LastType
  <2>3. m.type = "REQUEST"
    BY <2>2 DEF AllowedAfter, OfferTypes
  <2>. QED BY <2>3 DEF OfferTypes
<1>8. ASSUME NEW u \in Thread, work[n][u].stage = "decide", work[n][u].msg.sid = m.sid
      PROVE  FALSE
  BY <1>1, <1>3, <1>4, <1>8, DecidingTurn, NotPeersTurn DEF ProtocolInv
<1>. QED BY <1>1, <1>3, <1>4, <1>6, <1>7, <1>8 DEF m

\* Recording a message keeps the invariant.
LEMMA RecordKeepsInv ==
  ASSUME TypeOK, ProtocolInv, NEW n \in Node, NEW t \in Thread, NEW i \in DOMAIN mailbox[n],
         UNCHANGED <<approvals, outbox, mailbox, resolving, crashes, duplicates>>,
         \/ HandleRequest(n, t, mailbox[n][i])
         \/ HandleFinal(n, t, mailbox[n][i])
         \/ HandleOffer(n, t, mailbox[n][i])
  PROVE  ProtocolInv' /\ SmallStep
<1>. DEFINE m == mailbox[n][i]
            s == m.sid
<1>0. HandleRequest(n, t, m) \/ HandleFinal(n, t, m) \/ HandleOffer(n, t, m)
  OBVIOUS
<1>1. Record(n, m)
  BY <1>0 DEF HandleRequest, HandleFinal, HandleOffer
<1>2. /\ m \in Message /\ s \in Session /\ Receives(n, m)
      /\ m.seq = Len(messages[n][s]) + 1
      /\ status[n][s] \in {"none", "open"}
      /\ m.type \in OfferTypes => status[n][s] = "open"
      /\ \A u \in Thread : work[n][u].stage = "decide" => work[n][u].msg.sid # s
  BY <1>1, AcceptedIsNext DEF Record
<1>. HIDE DEF m
<1>3. /\ Appended(n, s, m)
      /\ lastSequence' = [lastSequence EXCEPT ![n][s] = m.seq]
  BY <1>1 DEF Record, Appended
<1>4. status' = [status EXCEPT ![n][s] = StatusAfter(m.type)]
  <2>1. CASE HandleRequest(n, t, m)
    BY <2>1 DEF HandleRequest, StatusAfter
  <2>2. CASE HandleFinal(n, t, m)
    <3>1. StatusAfter(m.type) = IF m.type = "ACCEPT" THEN "agreed" ELSE "failed"
      BY <2>2 DEF HandleFinal, StatusAfter
    <3>. QED BY <2>2, <3>1 DEF HandleFinal
  <2>3. CASE HandleOffer(n, t, m)
    <3>1. StatusAfter(m.type) = "open" /\ status[n][s] = "open"
      BY <1>2, <2>3 DEF HandleOffer, StatusAfter, OfferTypes
    <3>. QED BY <2>3, <3>1 DEF HandleOffer, TypeOK
  <2>. QED BY <1>0, <2>1, <2>2, <2>3 DEF m
<1>5. agreement' = [agreement EXCEPT ![n][s] = IF m.type = "ACCEPT" THEN m.offer ELSE @]
  <2>1. CASE HandleFinal(n, t, m)
    BY <2>1 DEF HandleFinal
  <2>2. CASE HandleRequest(n, t, m) \/ HandleOffer(n, t, m)
    <3>1. agreement' = agreement /\ m.type # "ACCEPT"
      BY <2>2 DEF HandleRequest, HandleOffer, OfferTypes
    <3>. QED BY <3>1 DEF TypeOK
  <2>. QED BY <1>0, <2>1, <2>2 DEF m
<1>6. UNCHANGED pending
  BY <1>0 DEF HandleRequest, HandleFinal, HandleOffer
<1>7. AppendStep(n, s, m)
  BY <1>2, <1>3, <1>4, <1>5, <1>6 DEF AppendStep, Terminal
<1>8. LogInv'
  BY <1>2, <1>3, AppendKeepsLogInv DEF ProtocolInv
<1>9. RowsAreStored'
  BY <1>2, <1>7, AppendKeepsRows, 0 \in Nat DEF ProtocolInv
<1>10. StatusFollowsLog'
  BY <1>2, <1>7, AppendKeepsStatus DEF ProtocolInv
<1>11. DecidesTheLast'
  <2>1. \A q \in Node : q # n => work'[q] = work[q]
    BY <1>0 DEF HandleRequest, HandleFinal, HandleOffer, Acks, TypeOK, m
  <2>2. \A u \in Thread : u # t => work'[n][u] = work[n][u]
    BY <1>0 DEF HandleRequest, HandleFinal, HandleOffer, Acks, TypeOK, m
  <2>3. work'[n][t].stage = "decide" => work'[n][t].msg = m /\ m.type \in OfferTypes
    BY <1>0 DEF HandleRequest, HandleFinal, HandleOffer, Acks, TypeOK, m
  <2>4. m.from = Peer(n)
    BY <1>2 DEF Receives
  <2>. QED BY <1>2, <1>7, <2>1, <2>2, <2>3, <2>4, AppendKeepsDecides DEF ProtocolInv
<1>12. ResolvesThePending'
  BY <1>2, <1>7, AppendKeepsResolving, 0 \in Nat DEF ProtocolInv
<1>13. SmallStep
  BY <1>2, <1>7, AppendIsSmall
<1>. QED BY <1>8, <1>9, <1>10, <1>11, <1>12, <1>13 DEF ProtocolInv

\* Node n answers the peer's last message in session s, its own hands' work,
\* as the answer to approval ap if ap is not 0.
ReplyStep(n, s, type, seq, offer, ap) ==
  /\ Reply(n, s, type, seq, offer, ap)
  /\ seq = Len(messages[n][s]) + 1
  /\ ap # 0 => seq = ap + 1
  /\ Len(messages[n][s]) >= 2
  /\ messages[n][s][Len(messages[n][s])].from = Peer(n)
  /\ status[n][s] \notin Terminal
  /\ status' = [status EXCEPT ![n][s] = StatusAfter(type)]
  /\ agreement' = [agreement EXCEPT ![n][s] = IF type = "ACCEPT" THEN offer ELSE @]
  /\ \A q \in Node, z \in Session : q # n \/ z # s => pending'[q][z] = pending[q][z]
  /\ UNCHANGED mailbox
  /\ \A q \in Node : q # n => work'[q] = work[q]
  /\ \A u \in Thread : work'[n][u].stage = "decide" =>
       work'[n][u] = work[n][u] /\ work[n][u].msg.sid # s
  /\ \A q \in Node : resolving'[q] \subseteq resolving[q]
  /\ \A r \in resolving[n] :
       r.sid = s /\ status[n][s] = "waiting_approval" /\ r.seq = pending[n][s] => r.seq = ap

LEMMA ReplyKeepsInv ==
  ASSUME TypeOK, ProtocolInv, NEW n \in Node, NEW s \in Session,
         NEW type \in {"COUNTER", "ACCEPT", "REJECT", "ERROR"},
         NEW seq \in Nat, NEW offer \in SUBSET Value, NEW ap \in Nat,
         ReplyStep(n, s, type, seq, offer, ap)
  PROVE  ProtocolInv' /\ SmallStep
<1>. USE DEF ReplyStep
<1>. DEFINE m == Envelope(s, n, type, seq, offer)
<1>1. m \in Message
  BY EnvelopeType DEF MessageTypes
<1>2. m.sid = s /\ m.from = n /\ m.type = type /\ m.seq = seq /\ m.offer = offer
  BY DEF Envelope
<1>3. Appended(n, s, m) /\ Queued(n, m, ap) /\ lastSequence' = [lastSequence EXCEPT ![n][s] = seq]
  BY DEF Reply, Appended, Queued
<1>. HIDE DEF m
<1>4. Sends(n, s, m)
  BY <1>2 DEF Sends
<1>5. AppendStep(n, s, m)
  BY <1>2, <1>3, <1>4 DEF AppendStep
<1>6. LogInv'
  BY <1>1, <1>2, <1>3, <1>4, AppendKeepsLogInv DEF ProtocolInv
<1>7. RowsAreStored'
  BY <1>1, <1>2, <1>3, <1>5, AppendKeepsRows DEF ProtocolInv
<1>8. StatusFollowsLog'
  BY <1>1, <1>5, AppendKeepsStatus DEF ProtocolInv
<1>9. DecidesTheLast'
  BY <1>1, <1>5, AppendKeepsDecides DEF ProtocolInv
<1>10. ResolvesThePending'
  <2>1. \A r \in resolving[n] :
          r.sid = s /\ status[n][s] = "waiting_approval" /\ r.seq = pending[n][s] =>
            Queued(n, m, r.seq)
    BY <1>3
  <2>2. Queued(n, m, ap) /\ (ap # 0 => m.seq = ap + 1)
    BY <1>2, <1>3
  <2>. QED BY <1>1, <1>5, <2>1, <2>2, AppendKeepsResolving DEF ProtocolInv
<1>11. SmallStep
  BY <1>1, <1>5, AppendIsSmall
<1>. QED BY <1>6, <1>7, <1>8, <1>9, <1>10, <1>11 DEF ProtocolInv

\* A caller that decided is done with its session.
LEMMA DecidedWork ==
  ASSUME TypeOK, ProtocolInv, NEW n \in Node, NEW t \in Thread, Decide(n, t)
  PROVE  /\ \A q \in Node : q # n => work'[q] = work[q]
         /\ \A u \in Thread : work'[n][u].stage = "decide" =>
              work'[n][u] = work[n][u] /\ work[n][u].msg.sid # work[n][t].msg.sid
<1>1. work' = [work EXCEPT ![n][t] = [stage |-> "ack", msg |-> work[n][t].msg]]
  BY DEF Decide, Acks
<1>2. \A q \in Node : q # n => work'[q] = work[q]
  BY <1>1 DEF TypeOK
<1>3. work'[n][t].stage = "ack" /\ \A u \in Thread : u # t => work'[n][u] = work[n][u]
  BY <1>1 DEF TypeOK
<1>4. work[n][t].stage = "decide"
  BY DEF Decide
<1>5. \A u \in Thread : u # t /\ work[n][u].stage = "decide" =>
        work[n][u].msg.sid # work[n][t].msg.sid
  BY <1>4, DecidesAt DEF ProtocolInv
<1>. QED BY <1>2, <1>3, <1>5

\* What depends on the logs alone does not change with anything else.
LEMMA LogsUnchanged ==
  ASSUME UNCHANGED <<messages, lastSequence>>
  PROVE  /\ LogInv => LogInv'
         /\ UNCHANGED <<outbox, mailbox>> /\ RowsAreStored => RowsAreStored'
<1>1. messages' = messages /\ lastSequence' = lastSequence
  OBVIOUS
<1>2. \A x : Stored(x) => Stored(x)'
  BY <1>1 DEF Stored
<1>3. LogIsDense => LogIsDense'
  BY <1>1 DEF LogIsDense
<1>4. LogsAreStored => LogsAreStored'
  BY <1>1, <1>2 DEF LogsAreStored
<1>5. TurnsAlternate => TurnsAlternate'
  BY <1>1 DEF TurnsAlternate
<1>6. HistoriesAgree => HistoriesAgree'
  BY <1>1 DEF HistoriesAgree
<1>7. LogInv => LogInv'
  BY <1>3, <1>4, <1>5, <1>6 DEF LogInv
<1>8. ASSUME outbox' = outbox, mailbox' = mailbox, RowsAreStored PROVE RowsAreStored'
  <2>1. ASSUME NEW q \in Node, NEW j \in DOMAIN outbox[q]
        PROVE  outbox[q][j].msg.from = q /\ Stored(outbox[q][j].msg)'
    BY <1>2, <1>8 DEF RowsAreStored
  <2>2. ASSUME NEW q \in Node, NEW j \in DOMAIN mailbox[q]
        PROVE  mailbox[q][j].from = Peer(q) /\ Stored(mailbox[q][j])'
    BY <1>2, <1>8 DEF RowsAreStored
  <2>. QED BY <1>8, <2>1, <2>2 DEF RowsAreStored, Stored
<1>. QED BY <1>7, <1>8

\* Asking the owner adds no message.
LEMMA ApprovalKeepsInv ==
  ASSUME TypeOK, ProtocolInv, NEW n \in Node, NEW t \in Thread, Decide(n, t),
         DecideApproval(n, work[n][t].msg)
  PROVE  ProtocolInv' /\ SmallStep
<1>. DEFINE m == work[n][t].msg
            s == m.sid
<1>1. /\ m \in Message /\ s \in Session
      /\ Len(messages[n][s]) >= 2 /\ m.seq = Len(messages[n][s])
      /\ messages[n][s][Len(messages[n][s])].from = Peer(n)
      /\ status[n][s] = "open"
  BY DecidingTurn DEF Decide, ProtocolInv
<1>2. messages[n][s][m.seq] = m /\ m.type \in OfferTypes
  BY DEF Decide, ProtocolInv, DecidesTheLast
<1>3. /\ status' = [status EXCEPT ![n][s] = "waiting_approval"]
      /\ pending' = [pending EXCEPT ![n][s] = m.seq]
      /\ UNCHANGED <<lastSequence, messages, agreement, outbox, mailbox, resolving>>
  BY DEF DecideApproval, Decide
<1>4. /\ \A q \in Node : q # n => work'[q] = work[q]
      /\ \A u \in Thread : work'[n][u].stage = "decide" =>
           work'[n][u] = work[n][u] /\ work[n][u].msg.sid # s
  BY DecidedWork
<1>. HIDE DEF m
<1>5. /\ status'[n][s] = "waiting_approval" /\ pending'[n][s] = m.seq
      /\ \A q \in Node, z \in Session :
           q # n \/ z # s => status'[q][z] = status[q][z] /\ pending'[q][z] = pending[q][z]
  BY <1>1, <1>3 DEF TypeOK
<1>6. LogInv' /\ RowsAreStored'
  BY <1>3, LogsUnchanged DEF ProtocolInv
<1>7. StatusFollowsLog'
  <2>1. ASSUME NEW q \in Node, NEW z \in Session, q # n \/ z # s
        PROVE  /\ status'[q][z] = status[q][z] /\ pending'[q][z] = pending[q][z]
               /\ messages'[q][z] = messages[q][z] /\ agreement'[q][z] = agreement[q][z]
    BY <1>3, <1>5, <2>1
  <2>2. /\ messages'[n][s] = messages[n][s] /\ agreement'[n][s] = agreement[n][s]
        /\ messages[n][s] # <<>> /\ agreement[n][s] = {}
        /\ \A i \in DOMAIN messages[n][s] : messages[n][s][i].type \notin Final
    BY <1>1, <1>3 DEF ProtocolInv, StatusFollowsLog, StatusFollowsItsLog
  <2>3. Last(messages[n][s]) = m /\ m.from = Peer(n)
    BY <1>1, <1>2 DEF Last
  <2>4. status'[n][s] # "none" /\ status'[n][s] \notin Terminal /\ status'[n][s] # "agreed"
    BY <1>5 DEF Terminal
  <2>5. pending'[n][s] = Len(messages[n][s])
    BY <1>1, <1>5
  <2>. SUFFICES ASSUME NEW q \in Node, NEW z \in Session
                PROVE  StatusFollowsItsLog(q, z)'
    BY DEF StatusFollowsLog, StatusFollowsItsLog
  <2>6. CASE q = n /\ z = s
    BY <1>2, <1>5, <2>2, <2>3, <2>4, <2>5, <2>6 DEF StatusFollowsItsLog
  <2>7. CASE q # n \/ z # s
    <3>1. StatusFollowsItsLog(q, z)
      BY DEF ProtocolInv, StatusFollowsLog, StatusFollowsItsLog
    <3>. QED BY <2>1, <2>7, <3>1 DEF StatusFollowsItsLog
  <2>. QED BY <2>6, <2>7
<1>8. DecidesTheLast'
  <2>. SUFFICES ASSUME NEW q \in Node, NEW u \in Thread, work'[q][u].stage = "decide"
                PROVE  LET x == work'[q][u].msg
                       IN  /\ status'[q][x.sid] = "open"
                           /\ x.from = Peer(q) /\ x.type \in OfferTypes
                           /\ x.seq = Len(messages'[q][x.sid]) /\ messages'[q][x.sid][x.seq] = x
                           /\ \A v \in Thread : v # u /\ work'[q][v].stage = "decide" =>
                                work'[q][v].msg.sid # x.sid
    BY DEF DecidesTheLast
  <2>. DEFINE x == work[q][u].msg
  <2>1. work'[q][u] = work[q][u] /\ (q = n => x.sid # s)
    BY <1>4
  <2>2. x.sid \in Session
    BY <2>1, WorkMessage DEF Message
  <2>3. /\ status[q][x.sid] = "open" /\ x.from = Peer(q) /\ x.type \in OfferTypes
        /\ x.seq = Len(messages[q][x.sid]) /\ messages[q][x.sid][x.seq] = x
        /\ \A v \in Thread : v # u /\ work[q][v].stage = "decide" => work[q][v].msg.sid # x.sid
    <3>1. work[q][u].stage = "decide"
      BY <2>1
    <3>2. DecidesTheLast
      BY DEF ProtocolInv
    <3>3. PICK y : y = work[q][u].msg
      OBVIOUS
    <3>4. /\ status[q][y.sid] = "open" /\ y.from = Peer(q) /\ y.type \in OfferTypes
          /\ y.seq = Len(messages[q][y.sid]) /\ messages[q][y.sid][y.seq] = y
          /\ \A v \in Thread : v # u /\ work[q][v].stage = "decide" => work[q][v].msg.sid # y.sid
      BY <3>1, <3>2, <3>3, DecidesAt
    <3>. QED BY <3>3, <3>4
  <2>4. status'[q][x.sid] = "open" /\ messages'[q][x.sid] = messages[q][x.sid]
    BY <1>3, <1>5, <2>1, <2>2, <2>3
  <2>5. \A v \in Thread : work'[q][v].stage = "decide" => work'[q][v] = work[q][v]
    BY <1>4
  <2>. QED BY <2>1, <2>3, <2>4, <2>5
<1>9. ResolvesThePending'
  <2>1. ASSUME NEW q \in Node, NEW r \in resolving[q]
        PROVE  \/ Answered(q, r.sid, r.seq)
               \/ /\ status'[q][r.sid] = "waiting_approval"
                  /\ r.seq = pending'[q][r.sid] /\ r.last = r.seq
    <3>1. r \in Resolution
      BY DEF TypeOK
    <3>2. r.sid \in Session
      BY <3>1 DEF Resolution
    <3>. QED BY <1>1, <1>5, <3>2 DEF ProtocolInv, ResolvesThePending
  <2>2. \A q \in Node, z \in Session, id \in Nat : Answered(q, z, id)' <=> Answered(q, z, id)
    BY <1>3 DEF Answered
  <2>3. \A q \in Node : \A r \in resolving[q] : r.sid \in Session /\ r.seq \in Nat
    <3>1. \A q \in Node : \A r \in resolving[q] : r \in Resolution
      BY DEF TypeOK
    <3>. QED BY <3>1 DEF Resolution
  <2>. QED BY <1>3, <2>1, <2>2, <2>3 DEF ProtocolInv, ResolvesThePending
<1>10. SmallStep
  <2>1. OneSession(n, s)
    BY <1>1, <1>3, <1>5 DEF OneSession, Terminal
  <2>. QED BY <1>1, <2>1 DEF SmallStep
<1>. QED BY <1>6, <1>7, <1>8, <1>9, <1>10 DEF ProtocolInv

LEMMA DecideKeepsInv ==
  ASSUME TypeOK, ProtocolInv, NEW n \in Node, NEW t \in Thread, Decide(n, t)
  PROVE  ProtocolInv' /\ SmallStep
<1>. DEFINE m == work[n][t].msg
            s == m.sid
            k == m.seq + 1
<1>1. /\ m \in Message /\ s \in Session
      /\ Len(messages[n][s]) >= 2 /\ m.seq = Len(messages[n][s])
      /\ messages[n][s][Len(messages[n][s])].from = Peer(n)
      /\ status[n][s] = "open"
  BY DecidingTurn DEF Decide, ProtocolInv
<1>2. /\ \A q \in Node : q # n => work'[q] = work[q]
      /\ \A u \in Thread : work'[n][u].stage = "decide" =>
           work'[n][u] = work[n][u] /\ work[n][u].msg.sid # s
  BY DecidedWork
<1>3. UNCHANGED <<mailbox, resolving>>
  BY DEF Decide
<1>4. m.offer \in SUBSET Value /\ {} \in SUBSET Value /\ k \in Nat
  <2>. HIDE DEF m
  <2>. QED BY <1>1 DEF Message
<1>5. CASE DecideApproval(n, m)
  BY <1>5, ApprovalKeepsInv
<1>6. ASSUME NEW type \in {"COUNTER", "ACCEPT", "REJECT", "ERROR"}, NEW offer \in SUBSET Value,
             Reply(n, s, type, k, offer, 0), UNCHANGED pending,
             status' = [status EXCEPT ![n][s] = StatusAfter(type)],
             agreement' = [agreement EXCEPT ![n][s] = IF type = "ACCEPT" THEN offer ELSE @]
      PROVE  ProtocolInv' /\ SmallStep
  <2>. HIDE DEF m
  <2>1. k = Len(messages[n][s]) + 1 /\ status[n][s] \notin Terminal
        /\ status[n][s] # "waiting_approval"
    BY <1>1 DEF Terminal
  <2>2. \A q \in Node : resolving'[q] \subseteq resolving[q]
    BY <1>3
  <2>3. \A q \in Node, z \in Session : q # n \/ z # s => pending'[q][z] = pending[q][z]
    BY <1>6
  <2>4. \A r \in resolving[n] :
          r.sid = s /\ status[n][s] = "waiting_approval" /\ r.seq = pending[n][s] => r.seq = 0
    BY <2>1
  <2>. HIDE DEF s
  <2>5. ReplyStep(n, s, type, k, offer, 0)
    BY <1>1, <1>2, <1>3, <1>6, <2>1, <2>2, <2>3, <2>4 DEF ReplyStep
  <2>. HIDE DEF k
  <2>. QED BY <1>1, <1>4, <2>5, ReplyKeepsInv
<1>7. agreement = [agreement EXCEPT ![n][s] = @] /\ status = [status EXCEPT ![n][s] = "open"]
  BY <1>1 DEF TypeOK
<1>8. CASE DecideAccept(n, m)
  <2>1. PICK v \in Common(n, m) :
          /\ Reply(n, s, "ACCEPT", k, {v}, 0)
          /\ agreement' = [agreement EXCEPT ![n][s] = {v}]
    BY <1>8 DEF DecideAccept
  <2>2. {v} \in SUBSET Value
    BY <1>4 DEF Common
  <2>3. status' = [status EXCEPT ![n][s] = StatusAfter("ACCEPT")] /\ UNCHANGED pending
    BY <1>8 DEF DecideAccept, StatusAfter
  <2>. HIDE DEF m, s, k
  <2>. QED BY <1>6, <2>1, <2>2, <2>3
<1>9. CASE DecideReject(n, m)
  <2>1. Reply(n, s, "REJECT", k, {}, 0) /\ UNCHANGED <<pending, agreement>>
    BY <1>9 DEF DecideReject
  <2>2. status' = [status EXCEPT ![n][s] = StatusAfter("REJECT")]
    BY <1>9 DEF DecideReject, StatusAfter
  <2>. HIDE DEF m, s, k
  <2>. QED BY <1>4, <1>6, <1>7, <2>1, <2>2
<1>10. CASE DecideCounter(n, m)
  <2>1. PICK offer \in Offers[n] : Reply(n, s, "COUNTER", k, offer, 0)
    BY <1>10 DEF DecideCounter
  <2>2. offer \in SUBSET Value
    BY OffersType
  <2>3. StatusAfter("COUNTER") = "open"
    BY DEF StatusAfter
  <2>4. UNCHANGED <<status, pending, agreement>>
    BY <1>10 DEF DecideCounter
  <2>. HIDE DEF m, s, k
  <2>. QED BY <1>6, <1>7, <2>1, <2>2, <2>3, <2>4
<1>11. CASE DecideExhausted(n, m)
  <2>1. Reply(n, s, "ERROR", k, {}, 0) /\ UNCHANGED <<pending, agreement>>
    BY <1>11 DEF DecideExhausted
  <2>2. status' = [status EXCEPT ![n][s] = StatusAfter("ERROR")]
    BY <1>11 DEF DecideExhausted, StatusAfter
  <2>. HIDE DEF m, s, k
  <2>. QED BY <1>4, <1>6, <1>7, <2>1, <2>2
<1>. QED BY <1>5, <1>8, <1>9, <1>10, <1>11 DEF Decide

LEMMA CommitKeepsInv ==
  ASSUME TypeOK, ProtocolInv, NEW n \in Node, NEW r \in resolving[n], CommitResolve(n, r)
  PROVE  ProtocolInv' /\ SmallStep
<1>1. r \in Resolution
  BY DEF TypeOK
<1>2. r.sid \in Session /\ r.seq \in Nat /\ r.last \in Nat
  BY <1>1 DEF Resolution
<1>3. /\ resolving' = [resolving EXCEPT ![n] = @ \ {r}]
      /\ UNCHANGED <<mailbox, work>>
  BY DEF CommitResolve
<1>4. \A q \in Node : resolving'[q] \subseteq resolving[q]
  BY <1>3 DEF TypeOK
<1>5. CASE UNCHANGED <<store, approvals, outbox>>
  <2>1. UNCHANGED <<messages, lastSequence, status, pending, agreement, outbox, mailbox, work>>
    BY <1>3, <1>5 DEF store
  <2>2. LogInv' /\ RowsAreStored'
    BY <2>1, LogsUnchanged DEF ProtocolInv
  <2>3. StatusFollowsLog'
    BY <2>1 DEF ProtocolInv, StatusFollowsLog, StatusFollowsItsLog
  <2>4. DecidesTheLast'
    BY <2>1, DecidesStays DEF ProtocolInv
  <2>5. ResolvesThePending'
    BY <1>4, <2>1 DEF ProtocolInv, ResolvesThePending, Answered
  <2>. QED BY <2>1, <2>2, <2>3, <2>4, <2>5 DEF ProtocolInv, SmallStep
<1>6. CASE ~Answered(n, r.sid, r.seq)
  <2>1. status[n][r.sid] = "waiting_approval" /\ r.seq = pending[n][r.sid] /\ r.last = r.seq
    BY <1>6 DEF ProtocolInv, ResolvesThePending
  <2>2. /\ Len(messages[n][r.sid]) >= 2 /\ r.last = Len(messages[n][r.sid])
        /\ messages[n][r.sid][Len(messages[n][r.sid])].from = Peer(n)
    BY <1>2, <2>1, WaitingTurn DEF ProtocolInv
  <2>3. ASSUME NEW a \in approvals[n], NEW type \in {"ACCEPT", "COUNTER", "REJECT"},
               NEW offer \in SUBSET Value, Resolve(n, r, a, type, offer)
        PROVE  ProtocolInv' /\ SmallStep
    <3>1. Reply(n, r.sid, type, r.last + 1, offer, r.seq)
      BY <2>3 DEF Resolve
    <3>2. status' = [status EXCEPT ![n][r.sid] = StatusAfter(type)]
      <4>1. StatusAfter(type) = CASE type = "ACCEPT"  -> "agreed"
                                  [] type = "COUNTER" -> "open"
                                  [] OTHER            -> "failed"
        BY DEF StatusAfter
      <4>. QED BY <2>3, <4>1 DEF Resolve
    <3>3. agreement' = [agreement EXCEPT ![n][r.sid] = IF type = "ACCEPT" THEN offer ELSE @]
      BY <2>3 DEF Resolve
    <3>4. \A q \in Node, z \in Session : q # n \/ z # r.sid => pending'[q][z] = pending[q][z]
      BY <2>3 DEF Resolve, TypeOK
    <3>5. \A u \in Thread : work'[n][u].stage = "decide" =>
            work'[n][u] = work[n][u] /\ work[n][u].msg.sid # r.sid
      BY <1>3, <2>1, DecidingTurn DEF ProtocolInv
    <3>6. r.last + 1 \in Nat /\ status[n][r.sid] \notin Terminal
      BY <1>2, <2>1 DEF Terminal
    <3>7. \A x \in resolving[n] :
            x.sid = r.sid /\ status[n][r.sid] = "waiting_approval" /\ x.seq = pending[n][r.sid]
              => x.seq = r.seq
      BY <2>1
    <3>8. type \in {"COUNTER", "ACCEPT", "REJECT", "ERROR"}
      OBVIOUS
    <3>9. \A q \in Node : q # n => work'[q] = work[q]
      BY <1>3
    <3>10. ReplyStep(n, r.sid, type, r.last + 1, offer, r.seq)
      BY <1>3, <1>4, <2>1, <2>2, <3>1, <3>2, <3>3, <3>4, <3>5, <3>6, <3>7, <3>9 DEF ReplyStep
    <3>. QED BY <1>2, <3>6, <3>8, <3>10, ReplyKeepsInv
  <2>4. CASE \E a \in approvals[n] : \E reply \in ApprovedReplies(a) :
               Resolve(n, r, a, reply.type, reply.offer)
    <3>1. PICK a \in approvals[n] : \E reply \in ApprovedReplies(a) :
            Resolve(n, r, a, reply.type, reply.offer)
      BY <2>4
    <3>2. PICK reply \in ApprovedReplies(a) : Resolve(n, r, a, reply.type, reply.offer)
      BY <3>1
    <3>3. a \in Approval
      BY DEF TypeOK
    <3>4. reply.type \in {"ACCEPT", "COUNTER", "REJECT"} /\ reply.offer \in SUBSET Value
      BY <3>3, ApprovedRepliesType
    <3>. QED BY <2>3, <3>2, <3>4
  <2>5. CASE \E a \in approvals[n] : Resolve(n, r, a, "REJECT", {})
    BY <2>3, <2>5
  <2>. QED BY <1>6, <2>4, <2>5 DEF CommitResolve
<1>. QED BY <1>5, <1>6 DEF CommitResolve

--------------------------------------------------------------------------------
(* The actions that leave the sessions alone *)

LEMMA QuietKeepsInv ==
  ASSUME TypeOK, ProtocolInv, UNCHANGED store,
         \A q \in Node, u \in Thread : work'[q][u].stage = "decide" => work'[q][u] = work[q][u]
  PROVE  /\ LogInv' /\ StatusFollowsLog' /\ DecidesTheLast'
         /\ UNCHANGED <<outbox, mailbox>> => RowsAreStored'
         /\ UNCHANGED outbox /\ (\A q \in Node : resolving'[q] \subseteq resolving[q])
              => ResolvesThePending'
<1>1. UNCHANGED <<status, lastSequence, pending, messages, agreement>>
  BY DEF store
<1>2. LogInv' /\ (UNCHANGED <<outbox, mailbox>> => RowsAreStored')
  BY <1>1, LogsUnchanged DEF ProtocolInv
<1>3. StatusFollowsLog'
  BY <1>1 DEF ProtocolInv, StatusFollowsLog, StatusFollowsItsLog
<1>4. DecidesTheLast'
  BY <1>1, DecidesStays DEF ProtocolInv
<1>5. ASSUME UNCHANGED outbox, \A q \in Node : resolving'[q] \subseteq resolving[q]
      PROVE  ResolvesThePending'
  BY <1>1, <1>5 DEF ProtocolInv, ResolvesThePending, Answered
<1>. QED BY <1>2, <1>3, <1>4, <1>5

LEMMA FlushKeepsInv ==
  ASSUME TypeOK, ProtocolInv, NEW n \in Node, Flush(n) \/ FlushDuplicate(n)
  PROVE  ProtocolInv'
<1>1. PICK i \in DOMAIN outbox[n] :
        /\ Deliver(n, outbox[n][i].msg)
        /\ outbox' = outbox \/ outbox' = [outbox EXCEPT ![n][i].status = "sent"]
  BY DEF Flush, FlushDuplicate
<1>2. UNCHANGED <<store, work, resolving>>
  BY DEF Flush, FlushDuplicate
<1>. DEFINE p == Peer(n)
            m == outbox[n][i].msg
<1>3. m \in Message /\ m.from = n /\ Stored(m) /\ p \in Node /\ Peer(p) = n
  BY RowType, PeerNode DEF ProtocolInv, RowsAreStored
<1>4. UNCHANGED messages
  BY <1>2 DEF store
<1>5. \A q \in Node : /\ DOMAIN outbox'[q] = DOMAIN outbox[q]
                      /\ \A j \in DOMAIN outbox[q] : /\ outbox'[q][j].msg = outbox[q][j].msg
                                                     /\ outbox'[q][j].approval = outbox[q][j].approval
  <2>1. CASE outbox' = outbox
    BY <2>1
  <2>2. CASE outbox' = [outbox EXCEPT ![n][i].status = "sent"]
    <3>. SUFFICES ASSUME NEW q \in Node
                  PROVE  /\ DOMAIN outbox'[q] = DOMAIN outbox[q]
                         /\ \A j \in DOMAIN outbox[q] :
                              /\ outbox'[q][j].msg = outbox[q][j].msg
                              /\ outbox'[q][j].approval = outbox[q][j].approval
      OBVIOUS
    <3>1. outbox'[q] = IF q = n THEN [outbox[n] EXCEPT ![i].status = "sent"] ELSE outbox[q]
      BY <2>2 DEF TypeOK
    <3>2. DOMAIN outbox'[q] = DOMAIN outbox[q]
      BY <3>1
    <3>3. ASSUME NEW j \in DOMAIN outbox[q]
          PROVE  outbox'[q][j].msg = outbox[q][j].msg /\ outbox'[q][j].approval = outbox[q][j].approval
      <4>1. outbox[q][j] \in OutboxRow
        BY RowType
      <4>2. CASE q = n /\ j = i
        <5>1. outbox'[q][j] = [outbox[q][j] EXCEPT !.status = "sent"]
          BY <3>1, <4>2
        <5>. QED BY <4>1, <5>1 DEF OutboxRow
      <4>3. CASE q # n \/ j # i
        BY <3>1, <4>3
      <4>. QED BY <4>2, <4>3
    <3>. QED BY <3>2, <3>3
  <2>. QED BY <1>1, <2>1, <2>2
<1>. HIDE DEF m
<1>6. mailbox[p] \in Seq(Message) /\ mailbox'[p] = Append(mailbox[p], m)
      /\ \A q \in Node : q # p => mailbox'[q] = mailbox[q]
  BY <1>1, <1>3 DEF Deliver, TypeOK, m
<1>7. ASSUME NEW q \in Node, NEW j \in DOMAIN mailbox'[q], NEW x, x = mailbox'[q][j]
      PROVE  x.from = Peer(q) /\ Stored(x)
  <2>1. CASE j \in DOMAIN mailbox[q] /\ mailbox'[q][j] = mailbox[q][j]
    BY <1>7, <2>1 DEF ProtocolInv, RowsAreStored
  <2>2. CASE q = p /\ x = m
    BY <1>3, <2>2
  <2>3. CASE q = p
    <3>1. /\ DOMAIN mailbox[p] = 1..Len(mailbox[p]) /\ Len(mailbox[p]) \in Nat
          /\ DOMAIN mailbox'[p] = 1..Len(mailbox[p]) + 1
          /\ \A w \in 1..Len(mailbox[p]) : mailbox'[p][w] = mailbox[p][w]
          /\ mailbox'[p][Len(mailbox[p]) + 1] = m
      BY <1>3, <1>6, AppendProperties, LenProperties
    <3>2. j \in 1..Len(mailbox[p]) \/ j = Len(mailbox[p]) + 1
      BY <2>3, <3>1
    <3>. QED BY <1>7, <2>1, <2>2, <2>3, <3>1, <3>2
  <2>4. CASE q # p
    BY <1>6, <2>1, <2>4
  <2>. QED BY <2>3, <2>4
<1>8. RowsAreStored'
  <2>1. ASSUME NEW q \in Node, NEW j \in DOMAIN mailbox'[q]
        PROVE  (mailbox[q][j].from = Peer(q) /\ Stored(mailbox[q][j]))'
    BY <1>4, <1>7 DEF Stored
  <2>2. ASSUME NEW q \in Node, NEW j \in DOMAIN outbox'[q]
        PROVE  (outbox[q][j].msg.from = q /\ Stored(outbox[q][j].msg))'
    <3>1. j \in DOMAIN outbox[q] /\ outbox'[q][j].msg = outbox[q][j].msg
      BY <1>5, <2>2
    <3>2. outbox[q][j].msg.from = q /\ Stored(outbox[q][j].msg)
      BY <3>1, RowStored DEF ProtocolInv
    <3>. QED BY <1>4, <3>1, <3>2 DEF Stored
  <2>. QED BY <2>1, <2>2 DEF RowsAreStored
<1>9. UNCHANGED <<status, pending, work, resolving>>
  BY <1>2 DEF store
<1>10. ResolvesThePending'
  BY <1>5, <1>9 DEF ProtocolInv, ResolvesThePending, Answered
<1>11. LogInv' /\ StatusFollowsLog' /\ DecidesTheLast'
  BY <1>2, <1>9, QuietKeepsInv
<1>. QED BY <1>8, <1>10, <1>11 DEF ProtocolInv

\* Acknowledging, failing, refusing, ageing.
LEMMA QuietActionsKeepInv ==
  ASSUME TypeOK, ProtocolInv, NEW n \in Node, UNCHANGED <<store, outbox>>,
         \/ \E t \in Thread : work' = [work EXCEPT ![n][t] = Idle]
         \/ \E t \in Thread : work' = [work EXCEPT ![n][t] = [stage |-> "ack", msg |-> work[n][t].msg]]
         \/ \E t \in Thread, m \in Message : Acks(n, t, m)
         \/ work' = [work EXCEPT ![n] = [t \in Thread |-> Idle]]
         \/ UNCHANGED work,
         \/ UNCHANGED mailbox
         \/ \E i \in DOMAIN mailbox[n] : mailbox' = [mailbox EXCEPT ![n] = Without(@, i)],
         \A q \in Node : resolving'[q] \subseteq resolving[q]
  PROVE  ProtocolInv'
<1>1. \A q \in Node, u \in Thread : work'[q][u].stage = "decide" => work'[q][u] = work[q][u]
  <2>1. ASSUME NEW t \in Thread, NEW w, w.stage # "decide", work' = [work EXCEPT ![n][t] = w]
        PROVE  \A q \in Node, u \in Thread :
                 work'[q][u].stage = "decide" => work'[q][u] = work[q][u]
    BY <2>1 DEF TypeOK
  <2>2. Idle.stage # "decide"
    BY DEF Idle
  <2>3. \A x : [stage |-> "ack", msg |-> x].stage # "decide"
    OBVIOUS
  <2>4. CASE \E t \in Thread : work' = [work EXCEPT ![n][t] = Idle]
    BY <2>1, <2>2, <2>4
  <2>5. CASE \E t \in Thread : work' = [work EXCEPT ![n][t] = [stage |-> "ack", msg |-> work[n][t].msg]]
    BY <2>1, <2>3, <2>5
  <2>6. CASE \E t \in Thread, m \in Message : Acks(n, t, m)
    BY <2>1, <2>3, <2>6 DEF Acks
  <2>7. CASE work' = [work EXCEPT ![n] = [t \in Thread |-> Idle]]
    BY <2>2, <2>7 DEF TypeOK
  <2>8. CASE UNCHANGED work
    BY <2>8
  <2>. QED BY <2>4, <2>5, <2>6, <2>7, <2>8
<1>2. UNCHANGED <<messages, lastSequence>>
  BY DEF store
<1>3. RowsAreStored'
  <2>1. ASSUME NEW q \in Node, NEW j \in DOMAIN mailbox'[q]
        PROVE  \E w \in DOMAIN mailbox[q] : mailbox'[q][j] = mailbox[q][w]
    <3>1. CASE mailbox'[q] = mailbox[q]
      BY <3>1
    <3>2. CASE mailbox'[q] # mailbox[q]
      <4>1. PICK i \in DOMAIN mailbox[n] : mailbox' = [mailbox EXCEPT ![n] = Without(@, i)]
        BY <3>2
      <4>2. q = n /\ mailbox'[q] = Without(mailbox[q], i)
        BY <3>2, <4>1 DEF TypeOK
      <4>3. mailbox[q] \in Seq(Message)
        BY DEF TypeOK
      <4>. QED BY <4>1, <4>2, <4>3, WithoutSeq
    <3>. QED BY <3>1, <3>2
  <2>2. ASSUME NEW q \in Node, NEW j \in DOMAIN mailbox'[q]
        PROVE  (mailbox[q][j].from = Peer(q) /\ Stored(mailbox[q][j]))'
    <3>1. PICK w \in DOMAIN mailbox[q] : mailbox'[q][j] = mailbox[q][w]
      BY <2>1, <2>2
    <3>2. mailbox[q][w].from = Peer(q) /\ Stored(mailbox[q][w])
      BY RowStored DEF ProtocolInv
    <3>. QED BY <1>2, <3>1, <3>2 DEF Stored
  <2>3. outbox' = outbox /\ messages' = messages
    BY <1>2
  <2>4. ASSUME NEW q \in Node, NEW j \in DOMAIN outbox'[q]
        PROVE  (outbox[q][j].msg.from = q /\ Stored(outbox[q][j].msg))'
    <3>1. outbox[q][j].msg.from = q /\ Stored(outbox[q][j].msg)
      BY <2>3 DEF ProtocolInv, RowsAreStored
    <3>2. outbox'[q][j] = outbox[q][j]
      BY <2>3
    <3> QED BY <2>3, <3>1, <3>2 DEF Stored
  <2>. QED BY <2>2, <2>4 DEF RowsAreStored
<1>. QED BY <1>1, <1>3, QuietKeepsInv DEF ProtocolInv

LEMMA BeginResolveKeepsInv ==
  ASSUME TypeOK, ProtocolInv, NEW n \in Node, NEW target \in {"approved", "rejected", "expired"},
         BeginResolve(n, target)
  PROVE  ProtocolInv'
<1>1. PICK a \in approvals[n] :
        /\ status[n][a.sid] = "waiting_approval"
        /\ pending[n][a.sid] = a.seq
        /\ resolving' = [resolving EXCEPT ![n] = @ \cup
             {[sid |-> a.sid, seq |-> a.seq, target |-> target, last |-> lastSequence[n][a.sid]]}]
  BY DEF BeginResolve
<1>2. UNCHANGED <<store, outbox, mailbox, work>>
  BY DEF BeginResolve
<1>3. a \in Approval
  BY DEF TypeOK
<1>4. a.sid \in Session
  BY <1>3 DEF Approval
<1>5. lastSequence[n][a.sid] = a.seq
  BY <1>1, <1>4, WaitingTurn DEF ProtocolInv, LogInv, LogIsDense
<1>6. ASSUME NEW q \in Node, NEW r \in resolving'[q]
      PROVE  \/ Answered(q, r.sid, r.seq)
             \/ /\ status[q][r.sid] = "waiting_approval"
                /\ r.seq = pending[q][r.sid] /\ r.last = r.seq
  <2>1. CASE r \in resolving[q]
    BY <2>1 DEF ProtocolInv, ResolvesThePending
  <2>2. CASE r \notin resolving[q]
    <3>1. q = n /\ r = [sid |-> a.sid, seq |-> a.seq, target |-> target, last |-> lastSequence[n][a.sid]]
      BY <1>1, <2>2 DEF TypeOK
    <3>2. r.sid = a.sid /\ r.seq = a.seq /\ r.last = lastSequence[n][a.sid]
      BY <3>1
    <3>. QED BY <1>1, <1>5, <3>1, <3>2
  <2>. QED BY <2>1, <2>2
<1>7. UNCHANGED <<status, pending>>
  BY <1>2 DEF store
<1>8. ResolvesThePending'
  BY <1>2, <1>6, <1>7 DEF ProtocolInv, ResolvesThePending, Answered
<1>. QED BY <1>2, <1>8, QuietKeepsInv DEF ProtocolInv

--------------------------------------------------------------------------------
(* Starting *)

LEMMA StartKeepsInv ==
  ASSUME TypeOK, ProtocolInv, NEW n \in Node, NEW s \in Session, Start(n, s)
  PROVE  ProtocolInv' /\ SmallStep
<1>. DEFINE p == Peer(n)
            request == Envelope(s, n, "REQUEST", 1, {})
            Row(m) == [msg |-> m, status |-> "pending", approval |-> 0]
<1>1. PICK offer \in Offers[n] :
        LET propose == Envelope(s, n, "PROPOSE", 2, offer)
        IN  /\ messages' = [messages EXCEPT ![n][s] = <<request, propose>>]
            /\ outbox' = [outbox EXCEPT ![n] = @ \o <<Row(request), Row(propose)>>]
  BY DEF Start
<1>. DEFINE propose == Envelope(s, n, "PROPOSE", 2, offer)
<1>2. /\ InitiatorOf[s] = n /\ status[n][s] = "none"
      /\ status' = [status EXCEPT ![n][s] = "open"]
      /\ lastSequence' = [lastSequence EXCEPT ![n][s] = 2]
      /\ UNCHANGED <<pending, agreement, mailbox, work, resolving>>
  BY DEF Start
<1>3. p \in Node /\ Peer(p) = n /\ p # n
  BY PeerNode
<1>4. /\ request \in Message /\ request.from = n /\ request.sid = s /\ request.seq = 1
      /\ request.type = "REQUEST"
      /\ propose \in Message /\ propose.from = n /\ propose.sid = s /\ propose.seq = 2
      /\ propose.type = "PROPOSE"
  <2>1. {} \in SUBSET Value /\ offer \in SUBSET Value
    BY OffersType
  <2>2. request \in Message /\ propose \in Message
    BY <2>1, EnvelopeType DEF MessageTypes
  <2>. QED BY <2>2 DEF Envelope
<1>. HIDE DEF request, propose
<1>5. messages[n][s] = <<>>
  BY <1>2 DEF ProtocolInv, StatusFollowsLog, StatusFollowsItsLog
<1>6. /\ status'[n][s] = "open" /\ lastSequence'[n][s] = 2
      /\ \A q \in Node, z \in Session :
           q # n \/ z # s => /\ status'[q][z] = status[q][z]
                             /\ lastSequence'[q][z] = lastSequence[q][z]
                             /\ messages'[q][z] = messages[q][z]
  BY <1>1, <1>2 DEF TypeOK, propose
<1>7. /\ messages'[n][s] = <<request, propose>>
      /\ Len(messages'[n][s]) = 2 /\ DOMAIN messages'[n][s] = 1..2
      /\ messages'[n][s][1] = request /\ messages'[n][s][2] = propose
      /\ \A i \in 1..2 : i = 1 \/ i = 2
  <2>1. messages'[n][s] = <<request, propose>>
    BY <1>1 DEF TypeOK, propose
  <2>. QED BY <2>1
\* Nothing of this session is anywhere yet: its first message would be n's.
<1>8. messages[p][s] = <<>>
  <2>. SUFFICES ASSUME messages[p][s] # <<>> PROVE FALSE
    OBVIOUS
  <2>. DEFINE x == messages[p][s][1]
  <2>1. 1 \in DOMAIN messages[p][s]
    BY <1>3, LogType, EmptySeq
  <2>2. Stored(x) /\ x.seq = 1 /\ x.sid = s
    BY <1>3, <2>1 DEF ProtocolInv, LogInv, LogIsDense, LogsAreStored
  <2>3. x.from = IF 1 <= 2 THEN InitiatorOf[s] ELSE Peer(messages[p][s][1 - 1].from)
    BY <1>3, <2>1 DEF ProtocolInv, LogInv, TurnsAlternate
  <2>4. x.from = n
    BY <1>2, <2>3
  <2>5. 1 \in DOMAIN messages[n][s]
    BY <2>2, <2>4 DEF Stored
  <2>. QED BY <1>5, <2>5
<1>9. \A q \in Node : messages[q][s] = <<>>
  BY <1>5, <1>8, <1>3 DEF Node, Peer
<1>10. ASSUME NEW x \in Message, Stored(x) PROVE x.sid # s /\ Stored(x)'
  <2>1. x.from \in Node /\ x.sid \in Session
    BY DEF Message
  <2>2. x.sid # s
    BY <1>9, <1>10, <2>1 DEF Stored
  <2>. QED BY <1>6, <1>10, <2>1, <2>2 DEF Stored
<1>11. Stored(request)' /\ Stored(propose)'
  <2>1. \A x : x = request \/ x = propose => Stored(x)'
    BY <1>4, <1>7 DEF Stored
  <2>. QED BY <2>1
<1>12. \A i \in DOMAIN messages'[n][s] :
         /\ i = 1 \/ i = 2
         /\ messages'[n][s][i].seq = i /\ messages'[n][s][i].sid = s /\ messages'[n][s][i].from = n
         /\ messages'[n][s][i].type = "REQUEST" <=> i = 1
         /\ messages'[n][s][i].type \notin Final
         /\ Stored(messages[n][s][i])'
  BY <1>4, <1>7, <1>11 DEF Final
<1>13. LogInv'
  <2>1. LogIsDense'
    <3>. SUFFICES ASSUME NEW q \in Node, NEW z \in Session
                  PROVE  /\ lastSequence'[q][z] = Len(messages'[q][z])
                         /\ \A i \in DOMAIN messages'[q][z] :
                              messages'[q][z][i].seq = i /\ messages'[q][z][i].sid = z
      BY DEF LogIsDense
    <3>1. CASE q = n /\ z = s
      BY <1>6, <1>7, <1>12, <3>1
    <3>2. CASE q # n \/ z # s
      <4>1. messages'[q][z] = messages[q][z] /\ lastSequence'[q][z] = lastSequence[q][z]
        BY <1>6, <3>2
      <4>. QED BY <4>1 DEF ProtocolInv, LogInv, LogIsDense
    <3>. QED BY <3>1, <3>2
  <2>2. LogsAreStored'
    <3>. SUFFICES ASSUME NEW q \in Node, NEW z \in Session, NEW i \in DOMAIN messages'[q][z]
                  PROVE  Stored(messages[q][z][i])'
      BY DEF LogsAreStored
    <3>1. CASE q = n /\ z = s
      BY <1>12, <3>1
    <3>2. CASE q # n \/ z # s
      <4>1. messages'[q][z] = messages[q][z]
        BY <1>6, <3>2
      <4>2. messages[q][z][i] \in Message /\ Stored(messages[q][z][i])
        BY <4>1, LogType DEF ProtocolInv, LogInv, LogsAreStored
      <4>3. \A x \in Message : Stored(x) => Stored(x)'
        BY <1>10
      <4>. QED BY <4>1, <4>2, <4>3
    <3>. QED BY <3>1, <3>2
  <2>3. TurnsAlternate'
    <3>. SUFFICES ASSUME NEW q \in Node, NEW z \in Session, NEW i \in DOMAIN messages'[q][z]
                  PROVE  /\ messages'[q][z][i].type = "REQUEST" <=> i = 1
                         /\ messages'[q][z][i].from =
                              IF i <= 2 THEN InitiatorOf[z] ELSE Peer(messages'[q][z][i - 1].from)
      BY DEF TurnsAlternate
    <3>1. CASE q = n /\ z = s
      BY <1>2, <1>12, <3>1
    <3>2. CASE q # n \/ z # s
      <4>1. messages'[q][z] = messages[q][z]
        BY <1>6, <3>2
      <4>. QED BY <4>1 DEF ProtocolInv, LogInv, TurnsAlternate
    <3>. QED BY <3>1, <3>2
  <2>4. HistoriesAgree'
    <3>. SUFFICES ASSUME NEW z \in Session, NEW i \in DOMAIN messages'["a"][z] \cap DOMAIN messages'["b"][z]
                  PROVE  messages'["a"][z][i] = messages'["b"][z][i]
      BY DEF HistoriesAgree
    <3>1. CASE z = s
      <4>1. messages'[p][s] = <<>>
        BY <1>3, <1>6, <1>8
      <4>2. {n, p} = {"a", "b"}
        BY DEF Node, Peer
      <4>3. DOMAIN messages'[p][s] = {}
        BY <4>1
      <4>. QED BY <3>1, <4>2, <4>3
    <3>2. CASE z # s
      <4>1. messages'["a"][z] = messages["a"][z] /\ messages'["b"][z] = messages["b"][z]
        BY <1>6, <3>2 DEF Node
      <4>. QED BY <4>1 DEF ProtocolInv, LogInv, HistoriesAgree
    <3>. QED BY <3>1, <3>2
  <2>. QED BY <2>1, <2>2, <2>3, <2>4 DEF LogInv
<1>14. /\ \A q \in Node : q # n => outbox'[q] = outbox[q]
       /\ \A i \in DOMAIN outbox'[n] :
            \/ i \in DOMAIN outbox[n] /\ outbox'[n][i] = outbox[n][i]
            \/ outbox'[n][i] = Row(request) \/ outbox'[n][i] = Row(propose)
       /\ \A i \in DOMAIN outbox[n] : i \in DOMAIN outbox'[n] /\ outbox'[n][i] = outbox[n][i]
  <2>1. outbox'[n] = outbox[n] \o <<Row(request), Row(propose)>>
        /\ \A q \in Node : q # n => outbox'[q] = outbox[q]
    BY <1>1 DEF TypeOK, propose
  <2>2. outbox[n] \in Seq(OutboxRow)
    BY DEF TypeOK
  <2>. DEFINE two == <<Row(request), Row(propose)>>
              k == Len(outbox[n])
  <2>3. Row(request) \in OutboxRow /\ Row(propose) \in OutboxRow
    BY <1>4 DEF OutboxRow
  <2>4. two \in Seq(OutboxRow) /\ Len(two) = 2 /\ two[1] = Row(request) /\ two[2] = Row(propose)
    BY <2>3
  <2>. HIDE DEF two
  <2>5. k \in Nat /\ DOMAIN outbox[n] = 1..k
    BY <2>2, LenProperties
  <2>. HIDE DEF k, Row
  <2>6. /\ outbox'[n] = outbox[n] \o two
        /\ Len(outbox[n] \o two) = k + 2
        /\ DOMAIN (outbox[n] \o two) = 1..k + 2
        /\ \A i \in 1..k + 2 :
             (outbox[n] \o two)[i] = IF i <= k THEN outbox[n][i] ELSE two[i - k]
    BY <2>1, <2>2, <2>4, <2>5, ConcatProperties, LenProperties DEF two, k
  <2>7. \A i \in 1..k + 2 : i \in 1..k \/ (~(i <= k) /\ i - k \in {1, 2})
    BY <2>5
  <2>8. \A i \in 1..k : i \in 1..k + 2 /\ i <= k
    BY <2>5
  <2>9. /\ DOMAIN outbox'[n] = 1..k + 2
        /\ \A i \in 1..k + 2 : outbox'[n][i] = IF i <= k THEN outbox[n][i] ELSE two[i - k]
    BY <2>6
  <2>10. ASSUME NEW i \in DOMAIN outbox'[n]
         PROVE  \/ i \in DOMAIN outbox[n] /\ outbox'[n][i] = outbox[n][i]
                \/ outbox'[n][i] = Row(request) \/ outbox'[n][i] = Row(propose)
    <3>1. CASE i \in 1..k
      BY <2>5, <2>8, <2>9, <3>1
    <3>2. CASE ~(i <= k) /\ i - k \in {1, 2}
      BY <2>4, <2>9, <2>10, <3>2
    <3>. QED BY <2>7, <2>9, <2>10, <3>1, <3>2
  <2>11. \A i \in DOMAIN outbox[n] : i \in DOMAIN outbox'[n] /\ outbox'[n][i] = outbox[n][i]
    BY <2>5, <2>8, <2>9
  <2>. QED BY <2>1, <2>10, <2>11
<1>15. RowsAreStored'
  <2>0. \A x \in Message : Stored(x) => Stored(x)'
    BY <1>10
  <2>1. ASSUME NEW q \in Node, NEW j \in DOMAIN mailbox'[q]
        PROVE  (mailbox[q][j].from = Peer(q) /\ Stored(mailbox[q][j]))'
    BY <1>2, <2>0, RowType DEF ProtocolInv, RowsAreStored
  <2>2. ASSUME NEW q \in Node, NEW j \in DOMAIN outbox'[q], NEW x, x = outbox'[q][j].msg
        PROVE  x.from = q /\ Stored(x)'
    <3>1. CASE j \in DOMAIN outbox[q] /\ outbox'[q][j] = outbox[q][j]
      BY <2>0, <2>2, <3>1, RowType DEF ProtocolInv, RowsAreStored
    <3>2. CASE q = n /\ (outbox'[q][j] = Row(request) \/ outbox'[q][j] = Row(propose))
      BY <1>4, <1>11, <2>2, <3>2
    <3>. QED BY <1>14, <3>1, <3>2
  <2>3. ASSUME NEW q \in Node, NEW j \in DOMAIN outbox'[q]
        PROVE  (outbox[q][j].msg.from = q /\ Stored(outbox[q][j].msg))'
    <3>1. PICK x : x = outbox'[q][j].msg
      OBVIOUS
    <3>2. x.from = q /\ Stored(x)'
      BY <2>2, <2>3, <3>1
    <3>3. /\ x.from = q /\ x.seq \in DOMAIN messages'[x.from][x.sid]
          /\ messages'[x.from][x.sid][x.seq] = x
      BY <3>2 DEF Stored
    <3>. QED BY <3>1, <3>3 DEF Stored
  <2>. QED BY <2>1, <2>3 DEF RowsAreStored
<1>16. StatusFollowsLog'
  <2>. SUFFICES ASSUME NEW q \in Node, NEW z \in Session PROVE StatusFollowsItsLog(q, z)'
    BY DEF StatusFollowsLog, StatusFollowsItsLog
  <2>0. StatusFollowsItsLog(q, z)
    BY DEF ProtocolInv, StatusFollowsLog, StatusFollowsItsLog
  <2>1. CASE q = n /\ z = s
    <3>1. agreement'[q][z] = {} /\ messages'[q][z] # <<>> /\ status'[q][z] = "open"
      BY <1>2, <1>6, <1>7, <2>0, <2>1 DEF StatusFollowsItsLog
    <3>. QED BY <1>12, <2>1, <3>1 DEF StatusFollowsItsLog, Terminal
  <2>2. CASE q # n \/ z # s
    BY <1>2, <1>6, <2>0, <2>2 DEF StatusFollowsItsLog
  <2>. QED BY <2>1, <2>2
<1>17. DecidesTheLast'
  <2>. SUFFICES ASSUME NEW q \in Node, NEW u \in Thread, work'[q][u].stage = "decide"
                PROVE  LET x == work'[q][u].msg
                       IN  /\ status'[q][x.sid] = "open"
                           /\ x.from = Peer(q) /\ x.type \in OfferTypes
                           /\ x.seq = Len(messages'[q][x.sid]) /\ messages'[q][x.sid][x.seq] = x
                           /\ \A v \in Thread : v # u /\ work'[q][v].stage = "decide" =>
                                work'[q][v].msg.sid # x.sid
    BY DEF DecidesTheLast
  <2>. DEFINE x == work[q][u].msg
  <2>1. x.sid \in Session
    BY <1>2, WorkMessage DEF Message
  <2>2. /\ status[q][x.sid] = "open" /\ x.from = Peer(q) /\ x.type \in OfferTypes
        /\ x.seq = Len(messages[q][x.sid]) /\ messages[q][x.sid][x.seq] = x
        /\ \A v \in Thread : v # u /\ work[q][v].stage = "decide" => work[q][v].msg.sid # x.sid
    BY <1>2 DEF ProtocolInv, DecidesTheLast
  <2>3. q # n \/ x.sid # s
    BY <1>2, <2>2
  <2>4. status'[q][x.sid] = status[q][x.sid] /\ messages'[q][x.sid] = messages[q][x.sid]
    BY <1>6, <2>1, <2>3
  <2>. QED BY <1>2, <2>2, <2>4
<1>18. ResolvesThePending'
  <2>1. ASSUME NEW q \in Node, NEW i \in DOMAIN outbox'[q], outbox'[q][i].approval # 0
        PROVE  outbox'[q][i].msg.seq = outbox'[q][i].approval + 1
    <3>1. i \in DOMAIN outbox[q] /\ outbox'[q][i] = outbox[q][i]
      BY <1>14, <2>1
    <3>. QED BY <2>1, <3>1 DEF ProtocolInv, ResolvesThePending
  <2>2. ASSUME NEW q \in Node, NEW r \in resolving[q]
        PROVE  \/ Answered(q, r.sid, r.seq)'
               \/ /\ status'[q][r.sid] = "waiting_approval"
                  /\ r.seq = pending'[q][r.sid] /\ r.last = r.seq
    <3>1. r \in Resolution
      BY DEF TypeOK
    <3>2. r.sid \in Session
      BY <3>1 DEF Resolution
    <3>3. Answered(q, r.sid, r.seq) => Answered(q, r.sid, r.seq)'
      BY <1>14 DEF Answered
    <3>. QED BY <1>2, <1>6, <3>2, <3>3 DEF ProtocolInv, ResolvesThePending
  <2>. QED BY <1>2, <2>1, <2>2 DEF ResolvesThePending
<1>19. SmallStep
  <2>1. OneSession(n, s)
    BY <1>2, <1>6 DEF OneSession, Terminal
  <2>. QED BY <2>1 DEF SmallStep
<1>. QED BY <1>13, <1>15, <1>16, <1>17, <1>18, <1>19 DEF ProtocolInv

--------------------------------------------------------------------------------
(* Every step *)

LEMMA ReceiveKeepsInv ==
  ASSUME TypeOK, ProtocolInv, NEW n \in Node, NEW t \in Thread, Receive(n, t)
  PROVE  ProtocolInv' /\ SmallStep
<1>1. UNCHANGED <<approvals, outbox, mailbox, resolving, crashes, duplicates>>
  BY DEF Receive
<1>2. PICK i \in DOMAIN mailbox[n] :
        \/ Discard(n, t, mailbox[n][i])
        \/ Duplicate(n, t, mailbox[n][i])
        \/ Refuse(n, t, mailbox[n][i])
        \/ HandleRequest(n, t, mailbox[n][i])
        \/ HandleFinal(n, t, mailbox[n][i])
        \/ HandleOffer(n, t, mailbox[n][i])
  BY DEF Receive
<1>3. CASE Discard(n, t, mailbox[n][i]) \/ Duplicate(n, t, mailbox[n][i]) \/ Refuse(n, t, mailbox[n][i])
  <2>1. Acks(n, t, mailbox[n][i]) /\ UNCHANGED store
    BY <1>3 DEF Discard, Duplicate, Refuse
  <2>2. mailbox[n][i] \in Message
    BY RowType
  <2>3. ProtocolInv'
    BY <1>1, <2>1, <2>2, QuietActionsKeepInv
  <2>. QED BY <2>1, <2>3 DEF SmallStep, store
<1>4. CASE \/ HandleRequest(n, t, mailbox[n][i])
           \/ HandleFinal(n, t, mailbox[n][i])
           \/ HandleOffer(n, t, mailbox[n][i])
  BY <1>1, <1>4, RecordKeepsInv
<1>. QED BY <1>2, <1>3, <1>4

\* The actions that leave the rows of every session alone.
LEMMA OtherActionsKeepInv ==
  ASSUME TypeOK, ProtocolInv, NEW n \in Node,
         \/ \E t \in Thread : DecideFails(n, t) \/ Ack(n, t) \/ AckLost(n, t)
         \/ Overdue(n) \/ Crash(n) \/ Purge(n)
         \/ UNCHANGED vars
  PROVE  ProtocolInv' /\ SmallStep
<1>1. UNCHANGED <<store, outbox>>
  BY DEF DecideFails, Ack, AckLost, Overdue, Crash, Purge, vars
<1>2. \A q \in Node : resolving'[q] \subseteq resolving[q]
  BY DEF DecideFails, Ack, AckLost, Overdue, Crash, Purge, vars, TypeOK
<1>3. \/ \E t \in Thread : work' = [work EXCEPT ![n][t] = Idle]
      \/ \E t \in Thread : work' = [work EXCEPT ![n][t] = [stage |-> "ack", msg |-> work[n][t].msg]]
      \/ work' = [work EXCEPT ![n] = [t \in Thread |-> Idle]]
      \/ UNCHANGED work
  BY DEF DecideFails, Acks, Ack, AckLost, Overdue, Crash, Purge, vars
<1>4. \/ UNCHANGED mailbox
      \/ \E i \in DOMAIN mailbox[n] : mailbox' = [mailbox EXCEPT ![n] = Without(@, i)]
  BY DEF DecideFails, Ack, AckLost, Overdue, Crash, Purge, vars
<1>5. ProtocolInv'
  BY <1>1, <1>2, <1>3, <1>4, QuietActionsKeepInv
<1>. QED BY <1>1, <1>5 DEF SmallStep, store

LEMMA StepKeepsInv ==
  ASSUME TypeOK, ProtocolInv, [Next]_vars
  PROVE  ProtocolInv' /\ SmallStep
<1>1. CASE UNCHANGED vars
  <2>1. "a" \in Node
    BY DEF Node
  <2>. QED BY <1>1, <2>1, OtherActionsKeepInv
<1>2. CASE Next
  <2>1. PICK n \in Node :
          \/ \E s \in Session : Start(n, s)
          \/ Flush(n) \/ FlushDuplicate(n)
          \/ \E t \in Thread : Receive(n, t) \/ Decide(n, t)
          \/ \E t \in Thread : DecideFails(n, t) \/ Ack(n, t) \/ AckLost(n, t)
          \/ Overdue(n) \/ Crash(n) \/ Purge(n)
          \/ \E target \in {"approved", "rejected", "expired"} : BeginResolve(n, target)
          \/ \E r \in resolving[n] : CommitResolve(n, r)
    BY <1>2 DEF Next
  <2>2. CASE \E s \in Session : Start(n, s)
    BY <2>2, StartKeepsInv
  <2>3. CASE Flush(n) \/ FlushDuplicate(n)
    <3>1. UNCHANGED store
      BY <2>3 DEF Flush, FlushDuplicate
    <3>. QED BY <2>3, <3>1, FlushKeepsInv DEF SmallStep, store
  <2>4. CASE \E t \in Thread : Receive(n, t) \/ Decide(n, t)
    BY <2>4, ReceiveKeepsInv, DecideKeepsInv
  <2>5. CASE \/ \E t \in Thread : DecideFails(n, t) \/ Ack(n, t) \/ AckLost(n, t)
             \/ Overdue(n) \/ Crash(n) \/ Purge(n)
    BY <2>5, OtherActionsKeepInv
  <2>6. CASE \E target \in {"approved", "rejected", "expired"} : BeginResolve(n, target)
    <3>1. UNCHANGED store
      BY <2>6 DEF BeginResolve
    <3>. QED BY <2>6, <3>1, BeginResolveKeepsInv DEF SmallStep, store
  <2>7. CASE \E r \in resolving[n] : CommitResolve(n, r)
    BY <2>7, CommitKeepsInv
  <2>. QED BY <2>1, <2>2, <2>3, <2>4, <2>5, <2>6, <2>7
<1>. QED BY <1>1, <1>2

LEMMA InitProtocolInv == Init => ProtocolInv
<1>. SUFFICES ASSUME Init PROVE ProtocolInv
  OBVIOUS
<1>1. \A n \in Node, s \in Session :
        /\ messages[n][s] = <<>> /\ Len(messages[n][s]) = 0 /\ DOMAIN messages[n][s] = {}
        /\ status[n][s] = "none" /\ agreement[n][s] = {} /\ lastSequence[n][s] = 0
  BY DEF Init
<1>2. \A n \in Node : DOMAIN outbox[n] = {} /\ DOMAIN mailbox[n] = {} /\ resolving[n] = {}
  BY DEF Init
<1>3. LogInv
  BY <1>1 DEF LogInv, LogIsDense, LogsAreStored, TurnsAlternate, HistoriesAgree, Node
<1>4. RowsAreStored /\ ResolvesThePending
  BY <1>2 DEF RowsAreStored, ResolvesThePending
<1>5. StatusFollowsLog
  BY <1>1 DEF StatusFollowsLog, StatusFollowsItsLog, Terminal
<1>6. DecidesTheLast
  BY DEF Init, DecidesTheLast, Idle
<1>. QED BY <1>3, <1>4, <1>5, <1>6 DEF ProtocolInv

\* In every reachable state the logs are dense and agree, what is under way is
\* stored by its sender, the status of a session follows its log, and deciding
\* and resolving callers still find the session as they read it.  This is the
\* inductive invariant of process_inbox, resolve_remote_approval and
\* flush_outbox together.
THEOREM ProtocolInvariant == Spec => []ProtocolInv
<1>1. ProtocolInv /\ TypeOK /\ [Next]_vars => ProtocolInv'
  BY StepKeepsInv
<1>. QED BY <1>1, InitProtocolInv, TypeCorrect, PTL DEF Spec

\* The message histories that validate_incoming lets the two nodes save never
\* differ at a position both have reached, with any number of sessions, inbox
\* callers, crashes, duplicates and losses.
THEOREM HistoriesTheorem == Spec => []HistoriesAgree
<1>1. ProtocolInv => HistoriesAgree
  BY DEF ProtocolInv, LogInv
<1>. QED BY <1>1, ProtocolInvariant, PTL

\* The last message of a session that has ended is final, at the same place
\* on every node where it has ended.
LEMMA OutcomesFollow ==
  ASSUME TypeOK, ProtocolInv, NEW n \in Node, NEW p \in Node, NEW s \in Session,
         status[n][s] \in Terminal, status[p][s] \in Terminal
  PROVE  status[n][s] = status[p][s] /\ agreement[n][s] = agreement[p][s]
<1>. DEFINE k == Len(messages[n][s])
            j == Len(messages[p][s])
<1>1. k \in Nat /\ j \in Nat /\ DOMAIN messages[n][s] = 1..k /\ DOMAIN messages[p][s] = 1..j
  BY LogType
<1>2. messages[n][s] # <<>> /\ messages[p][s] # <<>>
  BY DEF ProtocolInv, StatusFollowsLog, StatusFollowsItsLog, Terminal
<1>3. k \in DOMAIN messages[n][s] /\ j \in DOMAIN messages[p][s]
  BY <1>1, <1>2, LogType, EmptySeq
<1>4. messages[n][s][k].type \in Final /\ messages[p][s][j].type \in Final
  BY DEF ProtocolInv, StatusFollowsLog, StatusFollowsItsLog, Last
<1>5. k = j
  <2>1. k \in DOMAIN messages[p][s] \/ j \in DOMAIN messages[n][s]
    BY <1>1, <1>3
  <2>2. CASE k \in DOMAIN messages[p][s]
    <3>1. messages[p][s][k] = messages[n][s][k]
      BY <1>3, <2>2, LogsAgree DEF ProtocolInv, LogInv
    <3>. QED BY <1>4, <2>2, <3>1 DEF ProtocolInv, StatusFollowsLog, StatusFollowsItsLog
  <2>3. CASE j \in DOMAIN messages[n][s]
    <3>1. messages[p][s][j] = messages[n][s][j]
      BY <1>3, <2>3, LogsAgree DEF ProtocolInv, LogInv
    <3>. QED BY <1>4, <2>3, <3>1 DEF ProtocolInv, StatusFollowsLog, StatusFollowsItsLog
  <2>. QED BY <2>1, <2>2, <2>3
<1>6. messages[n][s][k] = messages[p][s][k]
  BY <1>3, <1>5, LogsAgree DEF ProtocolInv, LogInv
<1>7. status[n][s] = status[p][s]
  BY <1>3, <1>4, <1>5, <1>6 DEF ProtocolInv, StatusFollowsLog, StatusFollowsItsLog
<1>. QED BY <1>5, <1>6, <1>7 DEF ProtocolInv, StatusFollowsLog, StatusFollowsItsLog, Last

\* Both owners are told the same outcome and the same agreement
\* (_create_remote_agreement on either side), whoever sent the last message.
THEOREM OutcomesTheorem == Spec => []OutcomesAgree
<1>1. TypeOK /\ ProtocolInv => OutcomesAgree
  BY OutcomesFollow DEF OutcomesAgree, Node
<1>. QED BY <1>1, TypeCorrect, ProtocolInvariant, PTL

\* No handler and no resolution touches a session that is agreed or failed.
THEOREM TerminalTheorem == Spec => TerminalIsFinal
<1>1. SmallStep =>
        \A n \in Node, s \in Session :
          status[n][s] \in Terminal =>
            /\ status'[n][s] = status[n][s]
            /\ agreement'[n][s] = agreement[n][s]
            /\ messages'[n][s] = messages[n][s]
  BY DEF SmallStep, OneSession
<1>2. TypeOK /\ ProtocolInv /\ [Next]_vars =>
        [\A n \in Node, s \in Session :
           status[n][s] \in Terminal =>
             /\ status'[n][s] = status[n][s]
             /\ agreement'[n][s] = agreement[n][s]
             /\ messages'[n][s] = messages[n][s]]_vars
  BY <1>1, StepKeepsInv
<1>. QED BY <1>2, TypeCorrect, ProtocolInvariant, PTL DEF Spec, TerminalIsFinal

--------------------------------------------------------------------------------
(* The rows of one node: what its owner is asked and what it has answered *)

\* An approval that a log can hold.
LEMMA ApprovalType ==
  ASSUME TypeOK, NEW n \in Node, NEW a \in approvals[n]
  PROVE  /\ a \in Approval /\ a.sid \in Session /\ a.seq \in Nat
         /\ a.selected \in SUBSET Value /\ a.candidates \in SUBSET Value
<1>1. a \in Approval
  BY DEF TypeOK
<1>. QED BY <1>1 DEF Approval

\* A step changes the rows of one node only.
LEMMA RowsOfOthers ==
  ASSUME TypeOK, NEW n \in Node, NEW q \in Node, q # n,
         \/ \E s \in Session : Start(n, s)
         \/ Flush(n) \/ FlushDuplicate(n)
         \/ \E t \in Thread : Receive(n, t) \/ Decide(n, t)
         \/ \E t \in Thread : DecideFails(n, t) \/ Ack(n, t) \/ AckLost(n, t)
         \/ Overdue(n) \/ Crash(n) \/ Purge(n)
         \/ \E target \in {"approved", "rejected", "expired"} : BeginResolve(n, target)
         \/ \E r \in resolving[n] : CommitResolve(n, r)
  PROVE  UNCHANGED <<status[q], pending[q], messages[q], approvals[q], outbox[q]>>
<1>1. CASE \E s \in Session : Start(n, s)
  BY <1>1 DEF Start, TypeOK
<1>2. CASE Flush(n) \/ FlushDuplicate(n)
  BY <1>2 DEF Flush, FlushDuplicate, store, TypeOK
<1>3. CASE \E t \in Thread : Receive(n, t)
  BY <1>3 DEF Receive, Discard, Duplicate, Refuse, HandleRequest, HandleFinal, HandleOffer,
              Record, store, TypeOK
<1>0. ASSUME NEW s, NEW type, NEW seq, NEW offer, NEW ap, Reply(n, s, type, seq, offer, ap)
      PROVE  messages'[q] = messages[q] /\ outbox'[q] = outbox[q]
  BY <1>0 DEF Reply, TypeOK
<1>4. CASE \E t \in Thread : Decide(n, t)
  <2>1. PICK m : \/ DecideApproval(n, m) \/ DecideAccept(n, m) \/ DecideReject(n, m)
                 \/ DecideCounter(n, m) \/ DecideExhausted(n, m)
    BY <1>4 DEF Decide
  <2>2. CASE DecideApproval(n, m)
    BY <2>2 DEF DecideApproval, TypeOK
  <2>3. CASE \/ DecideAccept(n, m) \/ DecideReject(n, m)
             \/ DecideCounter(n, m) \/ DecideExhausted(n, m)
    <3>1. messages'[q] = messages[q] /\ outbox'[q] = outbox[q]
      BY <1>0, <2>3 DEF DecideAccept, DecideReject, DecideCounter, DecideExhausted
    <3>2. UNCHANGED <<status[q], pending[q], approvals[q]>>
      BY <2>3 DEF DecideAccept, DecideReject, DecideCounter, DecideExhausted, TypeOK
    <3>. QED BY <3>1, <3>2
  <2>. QED BY <2>1, <2>2, <2>3
<1>5. CASE \/ \E t \in Thread : DecideFails(n, t) \/ Ack(n, t) \/ AckLost(n, t)
           \/ Overdue(n) \/ Crash(n) \/ Purge(n)
           \/ \E target \in {"approved", "rejected", "expired"} : BeginResolve(n, target)
  BY <1>5 DEF DecideFails, Ack, AckLost, Overdue, Crash, Purge, BeginResolve, store, TypeOK
<1>6. CASE \E r \in resolving[n] : CommitResolve(n, r)
  <2>1. ASSUME NEW r, NEW a, NEW type, NEW offer, Resolve(n, r, a, type, offer)
        PROVE  UNCHANGED <<status[q], pending[q], messages[q], approvals[q], outbox[q]>>
    <3>1. messages'[q] = messages[q] /\ outbox'[q] = outbox[q]
      BY <1>0, <2>1 DEF Resolve
    <3>2. UNCHANGED <<status[q], pending[q], approvals[q]>>
      BY <2>1 DEF Resolve, TypeOK
    <3>. QED BY <3>1, <3>2
  <2>. QED BY <1>6, <2>1 DEF CommitResolve, store
<1>. QED BY <1>1, <1>2, <1>3, <1>4, <1>5, <1>6

\* Nothing a node's owner is asked or has answered depends on whether a row of
\* the outbox has been sent.
SameRows(q) ==
  /\ UNCHANGED <<status[q], pending[q], messages[q], approvals[q]>>
  /\ DOMAIN outbox'[q] = DOMAIN outbox[q]
  /\ \A i \in DOMAIN outbox[q] :
       outbox'[q][i].msg = outbox[q][i].msg /\ outbox'[q][i].approval = outbox[q][i].approval

LEMMA SameRowsKeep ==
  ASSUME NEW q \in Node, SameRows(q)
  PROVE  /\ AsksOnce(q) => AsksOnce(q)'
         /\ KeepsPosition(q) => KeepsPosition(q)'
<1>1. ApprovalsAreDistinct(q) => ApprovalsAreDistinct(q)'
  BY DEF SameRows, ApprovalsAreDistinct
<1>2. WaitsIffPending(q) => WaitsIffPending(q)'
  BY DEF SameRows, WaitsIffPending
<1>3. RepliesFollowApprovals(q) => RepliesFollowApprovals(q)'
  BY DEF SameRows, RepliesFollowApprovals, Answered
<1>4. ReviewedAccepts(q) => ReviewedAccepts(q)'
  BY DEF SameRows, ReviewedAccepts
<1>5. KeepsPosition(q) => KeepsPosition(q)'
  BY DEF SameRows, KeepsPosition
<1>. QED BY <1>1, <1>2, <1>3, <1>4, <1>5 DEF AsksOnce

\* The actions of a node that change none of these rows.
LEMMA QuietRows ==
  ASSUME TypeOK, NEW n \in Node,
         \/ Flush(n) \/ FlushDuplicate(n) \/ Crash(n) \/ Purge(n)
         \/ \E t \in Thread : DecideFails(n, t) \/ Ack(n, t) \/ AckLost(n, t)
         \/ \E target \in {"approved", "rejected", "expired"} : BeginResolve(n, target)
         \/ UNCHANGED <<store, approvals, outbox>>
  PROVE  SameRows(n)
<1>1. CASE Flush(n)
  <2>1. PICK i \in DOMAIN outbox[n] : outbox' = [outbox EXCEPT ![n][i].status = "sent"]
    BY <1>1 DEF Flush
  <2>2. outbox[n][i] \in OutboxRow /\ outbox[n] \in Seq(OutboxRow)
    BY RowType DEF TypeOK
  <2>3. outbox'[n] = [outbox[n] EXCEPT ![i].status = "sent"]
    BY <2>1 DEF TypeOK
  <2>4. \A j \in DOMAIN outbox[n] : outbox[n][j] \in OutboxRow
    BY RowType
  <2>5. /\ DOMAIN outbox'[n] = DOMAIN outbox[n]
        /\ \A j \in DOMAIN outbox[n] : /\ outbox'[n][j].msg = outbox[n][j].msg
                                       /\ outbox'[n][j].approval = outbox[n][j].approval
    BY <2>3, <2>4 DEF OutboxRow
  <2>. QED BY <1>1, <2>5 DEF Flush, SameRows, store
<1>2. CASE UNCHANGED <<store, approvals, outbox>>
  BY <1>2 DEF SameRows, store
<1>3. CASE \/ FlushDuplicate(n) \/ Crash(n) \/ Purge(n)
           \/ \E t \in Thread : DecideFails(n, t) \/ Ack(n, t) \/ AckLost(n, t)
           \/ \E target \in {"approved", "rejected", "expired"} : BeginResolve(n, target)
  BY <1>2, <1>3 DEF FlushDuplicate, Crash, Purge, DecideFails, Ack, AckLost, BeginResolve
<1>. QED BY <1>1, <1>2, <1>3

\* The log of a session grows by a message that answers no approval.
LEMMA GrowthKeepsAsking ==
  ASSUME TypeOK, NEW n \in Node, NEW s \in Session, NEW m \in Message, AsksOnce(n),
         Appended(n, s, m), UNCHANGED <<approvals[n], pending[n]>>,
         status[n][s] # "waiting_approval", status'[n][s] # "waiting_approval",
         \A z \in Session : z # s => status'[n][z] = status[n][z],
         \/ outbox'[n] = outbox[n]
         \/ Queued(n, m, 0) /\ (HumanReview[n] = {TRUE} => m.type # "ACCEPT")
  PROVE  AsksOnce(n)'
<1>1. ApprovalsAreDistinct(n)'
  <2>1. ASSUME NEW a \in approvals[n]
        PROVE  /\ a.seq \in DOMAIN messages'[n][a.sid]
               /\ a.status \notin Pending => a.seq < Len(messages'[n][a.sid])
    <3>1. a.sid \in Session /\ a.seq \in Nat
      BY ApprovalType
    <3>2. /\ a.seq \in DOMAIN messages[n][a.sid]
          /\ a.status \notin Pending => a.seq < Len(messages[n][a.sid])
      BY DEF AsksOnce, ApprovalsAreDistinct
    <3>3. CASE a.sid # s
      BY <3>1, <3>2, <3>3, AppendedLog
    <3>4. CASE a.sid = s
      <4>1. /\ Len(messages'[n][s]) = Len(messages[n][s]) + 1 /\ Len(messages[n][s]) \in Nat
            /\ DOMAIN messages'[n][s] = 1..Len(messages[n][s]) + 1
            /\ DOMAIN messages[n][s] = 1..Len(messages[n][s])
        BY AppendedLog, LogType
      <4>. QED BY <3>1, <3>2, <3>4, <4>1
    <3>. QED BY <3>3, <3>4
  <2>. QED BY <2>1 DEF AsksOnce, ApprovalsAreDistinct
<1>2. WaitsIffPending(n)'
  <2>1. \A a \in approvals[n] : a.status \in Pending => a.sid # s
    BY DEF AsksOnce, WaitsIffPending
  <2>2. \A a \in approvals[n] : a.sid \in Session
    BY ApprovalType
  <2>3. ASSUME NEW z \in Session
        PROVE  status'[n][z] = "waiting_approval" <=>
                 \E a \in approvals[n] : a.sid = z /\ a.seq = pending[n][z] /\ a.status \in Pending
    BY <2>1 DEF AsksOnce, WaitsIffPending
  <2>4. ASSUME NEW a \in approvals[n], a.status \in Pending
        PROVE  status'[n][a.sid] = "waiting_approval" /\ pending[n][a.sid] = a.seq
    BY <2>1, <2>2, <2>4 DEF AsksOnce, WaitsIffPending
  <2>. QED BY <2>3, <2>4 DEF WaitsIffPending
<1>3. CASE outbox'[n] = outbox[n]
  <2>1. RepliesFollowApprovals(n)'
    BY <1>3 DEF AsksOnce, RepliesFollowApprovals, Answered
  <2>2. ReviewedAccepts(n)'
    BY <1>3 DEF AsksOnce, ReviewedAccepts
  <2>. QED BY <1>1, <1>2, <2>1, <2>2 DEF AsksOnce
<1>4. CASE Queued(n, m, 0) /\ (HumanReview[n] = {TRUE} => m.type # "ACCEPT")
  <2>1. /\ \A i \in DOMAIN outbox'[n] :
             \/ i \in DOMAIN outbox[n] /\ outbox'[n][i] = outbox[n][i]
             \/ outbox'[n][i].approval = 0 /\ outbox'[n][i].msg = m
        /\ \A i \in DOMAIN outbox[n] : i \in DOMAIN outbox'[n] /\ outbox'[n][i] = outbox[n][i]
    <3>1. /\ DOMAIN outbox[n] = 1..Len(outbox[n]) /\ Len(outbox[n]) \in Nat
          /\ DOMAIN outbox'[n] = 1..Len(outbox[n]) + 1
          /\ \A i \in DOMAIN outbox[n] : outbox'[n][i] = outbox[n][i]
          /\ outbox'[n][Len(outbox[n]) + 1] = [msg |-> m, status |-> "pending", approval |-> 0]
      BY <1>4, QueuedRow, 0 \in Nat
    <3>2. \A i \in DOMAIN outbox'[n] : i \in DOMAIN outbox[n] \/ i = Len(outbox[n]) + 1
      BY <3>1
    <3>. QED BY <3>1, <3>2
  <2>2. RepliesFollowApprovals(n)'
    <3>1. \A i, j \in DOMAIN outbox'[n] :
            /\ outbox'[n][i].approval # 0 /\ outbox'[n][i].approval = outbox'[n][j].approval
            /\ outbox'[n][i].msg.sid = outbox'[n][j].msg.sid
            => i = j
      BY <2>1 DEF AsksOnce, RepliesFollowApprovals
    <3>2. \A i \in DOMAIN outbox'[n] :
            outbox'[n][i].approval # 0 =>
              \E a \in approvals[n] :
                /\ a.sid = outbox'[n][i].msg.sid /\ a.seq = outbox'[n][i].approval
                /\ a.status \notin Pending /\ outbox'[n][i].msg.type \in CalledFor(a)
      BY <2>1 DEF AsksOnce, RepliesFollowApprovals
    <3>3. ASSUME NEW a \in approvals[n], a.status \notin Pending
          PROVE  Answered(n, a.sid, a.seq)'
      BY <2>1, <3>3 DEF AsksOnce, RepliesFollowApprovals, Answered
    <3>. QED BY <3>1, <3>2, <3>3 DEF RepliesFollowApprovals
  <2>3. ReviewedAccepts(n)'
    BY <1>4, <2>1 DEF AsksOnce, ReviewedAccepts
  <2>. QED BY <1>1, <1>2, <2>2, <2>3 DEF AsksOnce
<1>. QED BY <1>3, <1>4

\* Asking the owner: the session has no pending approval, and none about its
\* last message.
LEMMA AskingKeepsAsking ==
  ASSUME TypeOK, ProtocolInv, NEW n \in Node, NEW t \in Thread, AsksOnce(n),
         Decide(n, t), DecideApproval(n, work[n][t].msg)
  PROVE  AsksOnce(n)'
<1>. DEFINE m == work[n][t].msg
            s == m.sid
<1>1. /\ s \in Session /\ Len(messages[n][s]) >= 2 /\ m.seq = Len(messages[n][s])
      /\ status[n][s] = "open"
  BY DecidingTurn DEF Decide, ProtocolInv
<1>2. PICK a : /\ a.sid = s /\ a.seq = m.seq /\ a.status = "pending"
               /\ approvals' = [approvals EXCEPT ![n] = @ \cup {a}]
  BY DEF DecideApproval
<1>3. /\ status' = [status EXCEPT ![n][s] = "waiting_approval"]
      /\ pending' = [pending EXCEPT ![n][s] = m.seq]
      /\ UNCHANGED <<messages, outbox>>
  BY DEF DecideApproval
<1>. HIDE DEF m, s
<1>4. /\ approvals'[n] = approvals[n] \cup {a}
      /\ status'[n][s] = "waiting_approval" /\ pending'[n][s] = m.seq
      /\ \A z \in Session : z # s => status'[n][z] = status[n][z] /\ pending'[n][z] = pending[n][z]
  BY <1>1, <1>2, <1>3 DEF TypeOK
<1>5. \A b \in approvals[n] : b.status \in Pending => b.sid # s
  BY <1>1 DEF AsksOnce, WaitsIffPending
<1>6. \A b \in approvals[n] : b.sid = s => b.seq # m.seq
  <2>. SUFFICES ASSUME NEW b \in approvals[n], b.sid = s, b.seq = m.seq PROVE FALSE
    OBVIOUS
  <2>1. b.seq < Len(messages[n][s])
    BY <1>5 DEF AsksOnce, ApprovalsAreDistinct
  <2>. QED BY <1>1, <2>1, LogType
<1>7. ApprovalsAreDistinct(n)'
  <2>1. a.seq \in DOMAIN messages[n][s] /\ a.status \in Pending
    BY <1>1, <1>2, LogType DEF Pending
  <2>. QED BY <1>2, <1>3, <1>4, <1>6, <2>1 DEF AsksOnce, ApprovalsAreDistinct
<1>8. WaitsIffPending(n)'
  <2>0. a.status \in Pending
    BY <1>2 DEF Pending
  <2>1. \A b \in approvals[n] : b.sid \in Session
    BY ApprovalType
  <2>2. ASSUME NEW z \in Session
        PROVE  status'[n][z] = "waiting_approval" <=>
                 \E b \in approvals'[n] : b.sid = z /\ b.seq = pending'[n][z] /\ b.status \in Pending
    <3>1. CASE z = s
      BY <1>2, <1>4, <2>0, <3>1
    <3>2. CASE z # s
      BY <1>2, <1>4, <3>2 DEF AsksOnce, WaitsIffPending
    <3>. QED BY <3>1, <3>2
  <2>3. ASSUME NEW b \in approvals'[n], b.status \in Pending
        PROVE  status'[n][b.sid] = "waiting_approval" /\ pending'[n][b.sid] = b.seq
    <3>1. CASE b = a
      BY <1>2, <1>4, <3>1
    <3>2. CASE b \in approvals[n]
      BY <1>4, <1>5, <2>1, <2>3, <3>2 DEF AsksOnce, WaitsIffPending
    <3>. QED BY <1>4, <3>1, <3>2
  <2>. QED BY <2>2, <2>3 DEF WaitsIffPending
<1>9. RepliesFollowApprovals(n)'
  <2>1. a.status \in Pending
    BY <1>2 DEF Pending
  <2>. QED BY <1>3, <1>4, <2>1 DEF AsksOnce, RepliesFollowApprovals, Answered
<1>10. ReviewedAccepts(n)'
  BY <1>3 DEF AsksOnce, ReviewedAccepts
<1>. QED BY <1>7, <1>8, <1>9, <1>10 DEF AsksOnce

\* A resolution that is not answered yet finds its approval pending, and
\* answers it.
LEMMA ResolvingKeepsAsking ==
  ASSUME TypeOK, ProtocolInv, NEW n \in Node, NEW r \in resolving[n], AsksOnce(n),
         ~Answered(n, r.sid, r.seq), NEW a \in approvals[n], a.sid = r.sid, a.seq = r.seq,
         NEW type, NEW offer \in SUBSET Value, Resolve(n, r, a, type, offer),
         type \in IF r.target = "approved" THEN {"ACCEPT", "COUNTER"} ELSE {"REJECT"}
  PROVE  AsksOnce(n)'
<1>. DEFINE s == r.sid
            k == Len(messages[n][s])
            m == Envelope(s, n, type, r.last + 1, offer)
            b == [a EXCEPT !.status = r.target]
<1>1. /\ r \in Resolution /\ s \in Session /\ r.seq \in Nat /\ r.last \in Nat
      /\ r.target \in {"approved", "rejected", "expired"}
  <2>1. r \in Resolution
    BY DEF TypeOK
  <2>. QED BY <2>1 DEF Resolution
<1>2. /\ status[n][s] = "waiting_approval" /\ r.seq = pending[n][s] /\ r.last = r.seq
      /\ k >= 2 /\ k \in Nat /\ r.last = k
  <2>1. status[n][s] = "waiting_approval" /\ r.seq = pending[n][s] /\ r.last = r.seq
    BY DEF ProtocolInv, ResolvesThePending
  <2>. QED BY <1>1, <2>1, WaitingTurn, LogType DEF ProtocolInv
<1>3. m \in Message /\ m.sid = s /\ m.type = type
  <2>1. type \in MessageTypes
    BY DEF MessageTypes
  <2>2. m \in Message
    BY <1>1, <2>1, EnvelopeType
  <2>. QED BY <2>2 DEF Envelope
<1>4. /\ b.sid = s /\ b.seq = k /\ b.status = r.target /\ b.status \notin Pending
      /\ type \in CalledFor(b)
  <2>1. a \in Approval
    BY ApprovalType
  <2>2. b.sid = a.sid /\ b.seq = a.seq /\ b.status = r.target
    BY <2>1 DEF Approval
  <2>. QED BY <1>1, <1>2, <2>2 DEF Pending, CalledFor
<1>5. Appended(n, s, m) /\ Queued(n, m, r.seq) /\ approvals'[n] = (approvals[n] \ {a}) \cup {b}
  BY DEF Resolve, Reply, Appended, Queued, TypeOK
<1>6. /\ status'[n][s] # "waiting_approval"
      /\ \A z \in Session : z # s => status'[n][z] = status[n][z] /\ pending'[n][z] = pending[n][z]
  <2>1. status'[n] = [status[n] EXCEPT ![s] = CASE type = "ACCEPT"  -> "agreed"
                                                [] type = "COUNTER" -> "open"
                                                [] OTHER            -> "failed"]
    BY <1>1 DEF Resolve, TypeOK
  <2>2. status'[n][s] = CASE type = "ACCEPT"  -> "agreed"
                          [] type = "COUNTER" -> "open"
                          [] OTHER            -> "failed"
    BY <1>1, <2>1 DEF TypeOK
  <2>3. status'[n][s] # "waiting_approval"
    BY <2>2
  <2>4. \A z \in Session : z # s => status'[n][z] = status[n][z]
    BY <2>1 DEF TypeOK
  <2>5. \A z \in Session : z # s => pending'[n][z] = pending[n][z]
    BY DEF Resolve, TypeOK
  <2>. QED BY <2>3, <2>4, <2>5
<1>7. a.status \in Pending
  BY DEF AsksOnce, RepliesFollowApprovals
<1>. HIDE DEF m, b, k, s
<1>8. /\ \A x \in approvals[n] : x.sid = s /\ x.seq = k => x = a
      /\ \A x \in approvals[n] : x.sid = s /\ x.status \in Pending => x = a
  <2>1. a.sid = s /\ a.seq = k
    BY <1>2 DEF s
  <2>2. \A x, y \in approvals[n] : x.sid = y.sid /\ x.seq = y.seq => x = y
    BY DEF AsksOnce, ApprovalsAreDistinct
  <2>3. \A x \in approvals[n] : x.status \in Pending => pending[n][x.sid] = x.seq
    BY DEF AsksOnce, WaitsIffPending
  <2>4. pending[n][s] = k
    BY <1>2
  <2>. QED BY <2>1, <2>2, <2>3, <2>4
<1>9. /\ \A z \in Session : z # s => messages'[n][z] = messages[n][z]
      /\ Len(messages'[n][s]) = k + 1 /\ DOMAIN messages'[n][s] = 1..k + 1
      /\ DOMAIN messages[n][s] = 1..k
  BY <1>1, <1>3, <1>5, AppendedLog, LogType DEF k
<1>10. ApprovalsAreDistinct(n)'
  <2>1. \A x, y \in approvals'[n] : x.sid = y.sid /\ x.seq = y.seq => x = y
    BY <1>4, <1>5, <1>8 DEF AsksOnce, ApprovalsAreDistinct
  <2>2. ASSUME NEW x \in approvals[n]
        PROVE  /\ x.seq \in DOMAIN messages'[n][x.sid]
               /\ x.status \notin Pending => x.seq < Len(messages'[n][x.sid])
    <3>1. x.sid \in Session /\ x.seq \in Nat
      BY ApprovalType
    <3>2. /\ x.seq \in DOMAIN messages[n][x.sid]
          /\ x.status \notin Pending => x.seq < Len(messages[n][x.sid])
      BY DEF AsksOnce, ApprovalsAreDistinct
    <3>3. CASE x.sid # s
      BY <1>9, <3>1, <3>2, <3>3
    <3>4. CASE x.sid = s
      BY <1>2, <1>9, <3>1, <3>2, <3>4 DEF k
    <3>. QED BY <3>3, <3>4
  <2>3. b.seq \in DOMAIN messages'[n][b.sid] /\ b.seq < Len(messages'[n][b.sid])
    BY <1>2, <1>4, <1>9
  <2>. QED BY <1>5, <2>1, <2>2, <2>3 DEF ApprovalsAreDistinct
<1>11. WaitsIffPending(n)'
  <2>1. \A x \in approvals'[n] : x.status \in Pending => x \in approvals[n] /\ x # a /\ x.sid # s
    BY <1>4, <1>5, <1>8
  <2>2. \A x \in approvals[n] : x.sid \in Session
    BY ApprovalType
  <2>3. \A x \in approvals[n] : x.sid # s => x \in approvals'[n]
    BY <1>5 DEF s
  <2>. QED BY <1>6, <2>1, <2>2, <2>3 DEF AsksOnce, WaitsIffPending
<1>12. /\ DOMAIN outbox[n] = 1..Len(outbox[n]) /\ Len(outbox[n]) \in Nat
       /\ DOMAIN outbox'[n] = 1..Len(outbox[n]) + 1
       /\ \A i \in DOMAIN outbox[n] : outbox'[n][i] = outbox[n][i]
       /\ outbox'[n][Len(outbox[n]) + 1] = [msg |-> m, status |-> "pending", approval |-> k]
  BY <1>1, <1>2, <1>3, <1>5, QueuedRow
<1>13. /\ \A i \in DOMAIN outbox'[n] : i \in DOMAIN outbox[n] \/ i = Len(outbox[n]) + 1
       /\ \A i \in DOMAIN outbox[n] : i \in DOMAIN outbox'[n]
       /\ Len(outbox[n]) + 1 \in DOMAIN outbox'[n] /\ Len(outbox[n]) + 1 \notin DOMAIN outbox[n]
  BY <1>12
<1>. DEFINE last == Len(outbox[n]) + 1
<1>14. outbox'[n][last].msg = m /\ outbox'[n][last].approval = k
  BY <1>12
<1>. HIDE DEF last
<1>15. \A i \in DOMAIN outbox[n] : ~(outbox[n][i].msg.sid = s /\ outbox[n][i].approval = k)
  BY <1>2 DEF Answered, s
<1>16. RepliesFollowApprovals(n)'
  <2>1. \A i, j \in DOMAIN outbox'[n] :
          /\ outbox'[n][i].approval # 0 /\ outbox'[n][i].approval = outbox'[n][j].approval
          /\ outbox'[n][i].msg.sid = outbox'[n][j].msg.sid
          => i = j
    <3>1. \A i, j \in DOMAIN outbox[n] :
            /\ outbox[n][i].approval # 0 /\ outbox[n][i].approval = outbox[n][j].approval
            /\ outbox[n][i].msg.sid = outbox[n][j].msg.sid
            => i = j
      BY DEF AsksOnce, RepliesFollowApprovals
    <3>2. \A i \in DOMAIN outbox'[n] : i \in DOMAIN outbox[n] \/ i = last
      BY <1>13 DEF last
    <3>3. \A i \in DOMAIN outbox[n] :
            ~(outbox'[n][i].msg.sid = m.sid /\ outbox'[n][i].approval = k)
      BY <1>3, <1>12, <1>15
    <3>. QED BY <1>12, <1>14, <3>1, <3>2, <3>3
  <2>2. ASSUME NEW i \in DOMAIN outbox'[n], outbox'[n][i].approval # 0
        PROVE  \E x \in approvals'[n] :
                 /\ x.sid = outbox'[n][i].msg.sid /\ x.seq = outbox'[n][i].approval
                 /\ x.status \notin Pending /\ outbox'[n][i].msg.type \in CalledFor(x)
    <3>1. CASE i = last
      BY <1>3, <1>4, <1>5, <1>14, <3>1
    <3>2. CASE i \in DOMAIN outbox[n]
      <4>1. PICK x \in approvals[n] :
              /\ x.sid = outbox[n][i].msg.sid /\ x.seq = outbox[n][i].approval
              /\ x.status \notin Pending /\ outbox[n][i].msg.type \in CalledFor(x)
        BY <1>12, <2>2, <3>2 DEF AsksOnce, RepliesFollowApprovals
      <4>2. x \in approvals'[n]
        BY <1>5, <1>7, <4>1
      <4>. QED BY <1>12, <3>2, <4>1, <4>2
    <3>. QED BY <1>13, <3>1, <3>2 DEF last
  <2>3. ASSUME NEW x \in approvals'[n], x.status \notin Pending
        PROVE  \E i \in DOMAIN outbox'[n] :
                 outbox'[n][i].msg.sid = x.sid /\ outbox'[n][i].approval = x.seq
    <3>1. CASE x = b
      BY <1>3, <1>4, <1>13, <1>14, <3>1 DEF last
    <3>2. CASE x \in approvals[n]
      BY <1>12, <1>13, <2>3, <3>2 DEF AsksOnce, RepliesFollowApprovals, Answered
    <3>. QED BY <1>5, <3>1, <3>2
  <2>. QED BY <2>1, <2>2, <2>3 DEF RepliesFollowApprovals, Answered
<1>17. ReviewedAccepts(n)'
  <2>1. k # 0
    BY <1>2
  <2>. QED BY <1>12, <1>13, <1>14, <2>1 DEF AsksOnce, ReviewedAccepts, last
<1>. QED BY <1>10, <1>11, <1>16, <1>17 DEF AsksOnce

\* An approval that becomes overdue is pending before and after.
LEMMA OverdueKeeps ==
  ASSUME TypeOK, NEW n \in Node, Overdue(n), AsksOnce(n), KeepsPosition(n)
  PROVE  AsksOnce(n)' /\ KeepsPosition(n)'
<1>1. PICK a \in approvals[n] :
        /\ a.status = "pending"
        /\ approvals' = [approvals EXCEPT ![n] = (@ \ {a}) \cup {[a EXCEPT !.status = "overdue"]}]
  BY DEF Overdue
<1>. DEFINE b == [a EXCEPT !.status = "overdue"]
<1>2. approvals'[n] = (approvals[n] \ {a}) \cup {b}
  BY <1>1 DEF TypeOK
<1>3. /\ b.sid = a.sid /\ b.seq = a.seq /\ b.selected = a.selected /\ b.candidates = a.candidates
      /\ b.status \in Pending /\ a.status \in Pending
  <2>1. a \in Approval
    BY ApprovalType
  <2>. QED BY <1>1, <2>1 DEF Approval, Pending
<1>. HIDE DEF b
<1>4. UNCHANGED <<status, pending, messages, outbox>>
  BY DEF Overdue, store
<1>5. ApprovalsAreDistinct(n)'
  BY <1>2, <1>3, <1>4 DEF AsksOnce, ApprovalsAreDistinct
<1>6. WaitsIffPending(n)'
  BY <1>2, <1>3, <1>4 DEF AsksOnce, WaitsIffPending
<1>7. RepliesFollowApprovals(n)'
  <2>1. \A x \in approvals[n] : x.status \notin Pending => x \in approvals'[n]
    BY <1>2, <1>3
  <2>2. \A x \in approvals'[n] : x.status \notin Pending => x \in approvals[n]
    BY <1>2, <1>3
  <2>. QED BY <1>4, <2>1, <2>2 DEF AsksOnce, RepliesFollowApprovals, Answered
<1>8. ReviewedAccepts(n)'
  BY <1>4 DEF AsksOnce, ReviewedAccepts
<1>9. KeepsPosition(n)'
  BY <1>2, <1>3, <1>4 DEF KeepsPosition
<1>. QED BY <1>5, <1>6, <1>7, <1>8, <1>9 DEF AsksOnce

\* The opening of a session has no approval behind it, and offers what its
\* node accepts.
LEMMA StartKeeps ==
  ASSUME TypeOK, ProtocolInv, NEW n \in Node, NEW s \in Session, Start(n, s),
         AsksOnce(n), KeepsPosition(n)
  PROVE  AsksOnce(n)' /\ KeepsPosition(n)'
<1>. DEFINE request == Envelope(s, n, "REQUEST", 1, {})
            Row(m) == [msg |-> m, status |-> "pending", approval |-> 0]
<1>1. PICK offer \in Offers[n] :
        LET propose == Envelope(s, n, "PROPOSE", 2, offer)
        IN  /\ messages' = [messages EXCEPT ![n][s] = <<request, propose>>]
            /\ outbox' = [outbox EXCEPT ![n] = @ \o <<Row(request), Row(propose)>>]
  BY DEF Start
<1>. DEFINE propose == Envelope(s, n, "PROPOSE", 2, offer)
<1>2. /\ status[n][s] = "none"
      /\ status' = [status EXCEPT ![n][s] = "open"]
      /\ UNCHANGED <<pending, approvals>>
  BY DEF Start
<1>3. messages[n][s] = <<>>
  BY <1>2 DEF ProtocolInv, StatusFollowsLog, StatusFollowsItsLog
<1>4. /\ request \in Message /\ request.type = "REQUEST" /\ request.offer = {}
      /\ propose \in Message /\ propose.type = "PROPOSE" /\ propose.offer = offer
  <2>1. {} \in SUBSET Value /\ offer \in SUBSET Value
    BY OffersType
  <2>2. request \in Message /\ propose \in Message
    BY <2>1, EnvelopeType DEF MessageTypes
  <2>. QED BY <2>2 DEF Envelope
<1>. HIDE DEF request, propose
<1>5. /\ status'[n][s] = "open" /\ messages'[n][s] = <<request, propose>>
      /\ \A z \in Session :
           z # s => status'[n][z] = status[n][z] /\ messages'[n][z] = messages[n][z]
  BY <1>1, <1>2 DEF TypeOK, propose
<1>6. \A a \in approvals[n] : a.sid # s /\ a.sid \in Session
  BY <1>3, ApprovalType DEF AsksOnce, ApprovalsAreDistinct
<1>7. /\ \A i \in DOMAIN outbox'[n] :
           \/ i \in DOMAIN outbox[n] /\ outbox'[n][i] = outbox[n][i]
           \/ outbox'[n][i].approval = 0 /\ outbox'[n][i].msg.type # "ACCEPT"
      /\ \A i \in DOMAIN outbox[n] : i \in DOMAIN outbox'[n] /\ outbox'[n][i] = outbox[n][i]
  <2>. DEFINE q == outbox[n]
              x == Row(request)
              y == Row(propose)
  <2>1. q \in Seq(OutboxRow) /\ Len(q) \in Nat /\ DOMAIN q = 1..Len(q)
    BY LenProperties DEF TypeOK
  <2>2. x \in OutboxRow /\ y \in OutboxRow
    BY <1>4 DEF OutboxRow
  <2>3. x.approval = 0 /\ y.approval = 0 /\ x.msg.type # "ACCEPT" /\ y.msg.type # "ACCEPT"
    BY <1>4
  <2>4. outbox'[n] = q \o <<x, y>>
    BY <1>1 DEF TypeOK, propose
  <2>. HIDE DEF q, x, y, Row
  <2>5. <<x, y>> \in Seq(OutboxRow) /\ Len(<<x, y>>) = 2 /\ <<x, y>>[1] = x /\ <<x, y>>[2] = y
    BY <2>2
  <2>6. /\ DOMAIN (q \o <<x, y>>) = 1..Len(q) + 2
        /\ \A i \in 1..Len(q) : (q \o <<x, y>>)[i] = q[i]
        /\ (q \o <<x, y>>)[Len(q) + 1] = x /\ (q \o <<x, y>>)[Len(q) + 2] = y
    BY <2>1, <2>5
  <2>7. \A i \in 1..Len(q) + 2 : i \in 1..Len(q) \/ i = Len(q) + 1 \/ i = Len(q) + 2
    BY <2>1
  <2>8. \A i \in 1..Len(q) : i \in 1..Len(q) + 2
    BY <2>1
  <2>. QED BY <2>1, <2>3, <2>4, <2>6, <2>7, <2>8 DEF q
<1>8. ApprovalsAreDistinct(n)'
  BY <1>2, <1>5, <1>6 DEF AsksOnce, ApprovalsAreDistinct
<1>9. WaitsIffPending(n)'
  BY <1>2, <1>5, <1>6 DEF AsksOnce, WaitsIffPending
<1>10. RepliesFollowApprovals(n)'
  <2>1. \A i, j \in DOMAIN outbox'[n] :
          /\ outbox'[n][i].approval # 0 /\ outbox'[n][i].approval = outbox'[n][j].approval
          /\ outbox'[n][i].msg.sid = outbox'[n][j].msg.sid
          => i = j
    BY <1>7 DEF AsksOnce, RepliesFollowApprovals
  <2>2. \A i \in DOMAIN outbox'[n] :
          outbox'[n][i].approval # 0 =>
            \E a \in approvals[n] :
              /\ a.sid = outbox'[n][i].msg.sid /\ a.seq = outbox'[n][i].approval
              /\ a.status \notin Pending /\ outbox'[n][i].msg.type \in CalledFor(a)
    BY <1>7 DEF AsksOnce, RepliesFollowApprovals
  <2>3. ASSUME NEW a \in approvals[n], a.status \notin Pending
        PROVE  Answered(n, a.sid, a.seq)'
    BY <1>7, <2>3 DEF AsksOnce, RepliesFollowApprovals, Answered
  <2>. QED BY <1>2, <2>1, <2>2, <2>3 DEF RepliesFollowApprovals
<1>11. ReviewedAccepts(n)'
  BY <1>7 DEF AsksOnce, ReviewedAccepts
<1>12. KeepsPosition(n)'
  <2>1. offer \subseteq Acceptable[n]
    BY ConstantsAssumption
  <2>2. ASSUME NEW z \in Session, IntentOf[z] = "meeting.schedule",
               NEW i \in DOMAIN messages'[n][z], messages'[n][z][i].from = n
        PROVE  /\ messages'[n][z][i].offer \subseteq Acceptable[n]
               /\ messages'[n][z][i].type = "ACCEPT" =>
                    i > 2 /\ messages'[n][z][i].offer \subseteq messages'[n][z][i - 1].offer
    <3>1. CASE z = s
      <4>1. i = 1 \/ i = 2
        BY <1>5, <2>2, <3>1
      <4>2. messages'[n][z][i] = request \/ messages'[n][z][i] = propose
        BY <1>5, <3>1, <4>1
      <4>. QED BY <1>4, <2>1, <4>2
    <3>2. CASE z # s
      BY <1>5, <2>2, <3>2 DEF KeepsPosition
    <3>. QED BY <3>1, <3>2
  <2>3. ASSUME NEW z \in Session, IntentOf[z] = "meeting.schedule",
               NEW a \in approvals[n], a.sid = z
        PROVE  /\ a.selected \subseteq Acceptable[n] \cap messages'[n][z][a.seq].offer
               /\ a.candidates \subseteq Acceptable[n]
    BY <1>5, <1>6, <2>3 DEF KeepsPosition
  <2>. QED BY <1>2, <2>2, <2>3 DEF KeepsPosition
<1>. QED BY <1>8, <1>9, <1>10, <1>11, <1>12 DEF AsksOnce

\* The log of a session grows by a message of the peer, or by one that keeps to
\* the position of its sender.  Approvals keep what they are about.
LEMMA GrowthKeepsPosition ==
  ASSUME TypeOK, NEW n \in Node, NEW s \in Session, NEW m \in Message,
         ApprovalsAreDistinct(n), KeepsPosition(n), Appended(n, s, m),
         \A b \in approvals'[n] : \E a \in approvals[n] :
           /\ a.sid = b.sid /\ a.seq = b.seq
           /\ a.selected = b.selected /\ a.candidates = b.candidates,
         m.from = n /\ IntentOf[s] = "meeting.schedule" =>
           /\ m.offer \subseteq Acceptable[n]
           /\ m.type = "ACCEPT" => /\ Len(messages[n][s]) >= 2
                                  /\ m.offer \subseteq messages[n][s][Len(messages[n][s])].offer
  PROVE  KeepsPosition(n)'
<1>. DEFINE k == Len(messages[n][s])
<1>1. k \in Nat /\ DOMAIN messages[n][s] = 1..k
  BY LogType
<1>2. \A z \in Session : z # s => messages'[n][z] = messages[n][z]
  BY AppendedLog
<1>3. /\ DOMAIN messages'[n][s] = 1..k + 1 /\ messages'[n][s][k + 1] = m
      /\ \A i \in 1..k : messages'[n][s][i] = messages[n][s][i]
  BY <1>1, AppendedLog
<1>4. m.from = n /\ IntentOf[s] = "meeting.schedule" =>
        /\ m.offer \subseteq Acceptable[n]
        /\ m.type = "ACCEPT" => k >= 2 /\ m.offer \subseteq messages[n][s][k].offer
  OBVIOUS
<1>. HIDE DEF k
<1>5. ASSUME NEW z \in Session, IntentOf[z] = "meeting.schedule",
             NEW i \in DOMAIN messages'[n][z], messages'[n][z][i].from = n
      PROVE  /\ messages'[n][z][i].offer \subseteq Acceptable[n]
             /\ messages'[n][z][i].type = "ACCEPT" =>
                  i > 2 /\ messages'[n][z][i].offer \subseteq messages'[n][z][i - 1].offer
  <2>1. CASE z # s
    BY <1>2, <1>5, <2>1 DEF KeepsPosition
  <2>2. CASE z = s /\ i \in 1..k
    <3>1. /\ messages[n][s][i].offer \subseteq Acceptable[n]
          /\ messages[n][s][i].type = "ACCEPT" =>
               i > 2 /\ messages[n][s][i].offer \subseteq messages[n][s][i - 1].offer
      BY <1>1, <1>3, <1>5, <2>2 DEF KeepsPosition
    <3>2. i > 2 => i - 1 \in 1..k
      BY <1>1, <2>2
    <3>. QED BY <1>3, <2>2, <3>1, <3>2
  <2>3. CASE z = s /\ i = k + 1
    <3>1. k >= 2 => i > 2 /\ i - 1 = k /\ k \in 1..k
      BY <1>1, <2>3
    <3>. QED BY <1>3, <1>4, <1>5, <2>3, <3>1
  <2>4. z = s => i \in 1..k \/ i = k + 1
    BY <1>1, <1>3, <1>5
  <2>. QED BY <2>1, <2>2, <2>3, <2>4
<1>6. ASSUME NEW z \in Session, IntentOf[z] = "meeting.schedule",
             NEW b \in approvals'[n], b.sid = z
      PROVE  /\ b.selected \subseteq Acceptable[n] \cap messages'[n][z][b.seq].offer
             /\ b.candidates \subseteq Acceptable[n]
  <2>1. PICK a \in approvals[n] : /\ a.sid = b.sid /\ a.seq = b.seq
                                 /\ a.selected = b.selected /\ a.candidates = b.candidates
    OBVIOUS
  <2>2. a.seq \in DOMAIN messages[n][z]
    BY <1>6, <2>1 DEF ApprovalsAreDistinct
  <2>3. messages'[n][z][b.seq] = messages[n][z][a.seq]
    BY <1>1, <1>2, <1>3, <2>1, <2>2
  <2>. QED BY <1>6, <2>1, <2>3 DEF KeepsPosition
<1>. QED BY <1>5, <1>6 DEF KeepsPosition

\* process_inbox: the session that takes a message does not wait for its owner.
LEMMA ReceiveKeeps ==
  ASSUME TypeOK, ProtocolInv, NEW n \in Node, NEW t \in Thread, Receive(n, t),
         AsksOnce(n), KeepsPosition(n)
  PROVE  AsksOnce(n)' /\ KeepsPosition(n)'
<1>1. UNCHANGED <<approvals, outbox>>
  BY DEF Receive
<1>2. PICK i \in DOMAIN mailbox[n] :
        \/ Discard(n, t, mailbox[n][i])
        \/ Duplicate(n, t, mailbox[n][i])
        \/ Refuse(n, t, mailbox[n][i])
        \/ HandleRequest(n, t, mailbox[n][i])
        \/ HandleFinal(n, t, mailbox[n][i])
        \/ HandleOffer(n, t, mailbox[n][i])
  BY DEF Receive
<1>. DEFINE m == mailbox[n][i]
            s == m.sid
<1>3. CASE Discard(n, t, m) \/ Duplicate(n, t, m) \/ Refuse(n, t, m)
  <2>1. UNCHANGED <<store, approvals, outbox>>
    BY <1>1, <1>3 DEF Discard, Duplicate, Refuse
  <2>. QED BY <2>1, QuietRows, SameRowsKeep
<1>4. CASE HandleRequest(n, t, m) \/ HandleFinal(n, t, m) \/ HandleOffer(n, t, m)
  <2>1. Record(n, m)
    BY <1>4 DEF HandleRequest, HandleFinal, HandleOffer
  <2>2. /\ m \in Message /\ s \in Session /\ m.from = Peer(n)
        /\ status[n][s] \in {"none", "open"}
    BY <2>1, AcceptedIsNext DEF Record, Receives
  <2>. HIDE DEF m, s
  <2>3. Appended(n, s, m) /\ UNCHANGED pending
    BY <1>4, <2>1 DEF Record, Appended, HandleRequest, HandleFinal, HandleOffer, s
  <2>4. /\ status'[n][s] # "waiting_approval"
        /\ \A z \in Session : z # s => status'[n][z] = status[n][z]
    <3>1. CASE HandleRequest(n, t, m)
      BY <2>2, <3>1 DEF HandleRequest, TypeOK, s
    <3>2. CASE HandleFinal(n, t, m)
      <4>1. status' = [status EXCEPT ![n][s] = IF m.type = "ACCEPT" THEN "agreed" ELSE "failed"]
        BY <3>2 DEF HandleFinal, s
      <4>2. /\ status'[n][s] = IF m.type = "ACCEPT" THEN "agreed" ELSE "failed"
            /\ \A z \in Session : z # s => status'[n][z] = status[n][z]
        BY <2>2, <4>1 DEF TypeOK
      <4>. QED BY <4>2
    <3>3. CASE HandleOffer(n, t, m)
      BY <2>2, <3>3 DEF HandleOffer
    <3>. QED BY <1>4, <3>1, <3>2, <3>3
  <2>5. AsksOnce(n)'
    BY <1>1, <2>2, <2>3, <2>4, GrowthKeepsAsking
  <2>6. m.from # n
    BY <2>2, PeerNode
  <2>7. \A b \in approvals'[n] : \E a \in approvals[n] :
          /\ a.sid = b.sid /\ a.seq = b.seq
          /\ a.selected = b.selected /\ a.candidates = b.candidates
    BY <1>1
  <2>8. KeepsPosition(n)'
    BY <2>2, <2>3, <2>6, <2>7, GrowthKeepsPosition DEF AsksOnce
  <2>. QED BY <2>5, <2>8
<1>. QED BY <1>2, <1>3, <1>4

\* What asking the owner puts into the approval comes from the offer it is about.
LEMMA AskingKeepsPosition ==
  ASSUME TypeOK, ProtocolInv, NEW n \in Node, NEW t \in Thread, KeepsPosition(n),
         Decide(n, t), DecideApproval(n, work[n][t].msg)
  PROVE  KeepsPosition(n)'
<1>. DEFINE m == work[n][t].msg
            s == m.sid
<1>0. work[n][t].stage = "decide"
  BY DEF Decide
<1>1. /\ m \in Message /\ s \in Session /\ messages[n][s][m.seq] = m
  <2>1. m \in Message /\ s \in Session
    BY <1>0, DecidingTurn DEF ProtocolInv
  <2>2. messages[n][s][m.seq] = m
    BY <1>0, DecidesAt DEF ProtocolInv
  <2>. QED BY <2>1, <2>2
<1>2. PICK selected \in Selections(n, m), candidates \in Offers[n] :
        approvals' = [approvals EXCEPT ![n] = @ \cup
          {[sid |-> m.sid, seq |-> m.seq, selected |-> selected, candidates |-> candidates,
            status |-> "pending"]}]
  BY DEF DecideApproval
<1>3. UNCHANGED messages
  BY DEF DecideApproval
<1>. HIDE DEF m
<1>. DEFINE a == [sid |-> m.sid, seq |-> m.seq, selected |-> selected, candidates |-> candidates,
                  status |-> "pending"]
<1>4. approvals'[n] = approvals[n] \cup {a}
  BY <1>2 DEF TypeOK
<1>5. a.sid = s /\ a.seq = m.seq /\ a.selected = selected /\ a.candidates = candidates
  OBVIOUS
<1>. HIDE DEF a
<1>6. candidates \subseteq Acceptable[n]
  BY ConstantsAssumption
<1>7. IntentOf[s] = "meeting.schedule" => selected \subseteq Acceptable[n] \cap m.offer
  BY DEF Selections, Common
<1>. QED BY <1>1, <1>3, <1>4, <1>5, <1>6, <1>7 DEF KeepsPosition

\* The automatic replies: an ACCEPT takes a common value, and only where the
\* guards may find no reason to ask.
LEMMA DecideKeeps ==
  ASSUME TypeOK, ProtocolInv, NEW n \in Node, NEW t \in Thread, Decide(n, t),
         AsksOnce(n), KeepsPosition(n)
  PROVE  AsksOnce(n)' /\ KeepsPosition(n)'
<1>. DEFINE m == work[n][t].msg
            s == m.sid
            k == m.seq + 1
<1>1. /\ m \in Message /\ s \in Session
      /\ Len(messages[n][s]) >= 2 /\ m.seq = Len(messages[n][s])
      /\ status[n][s] = "open"
  BY DecidingTurn DEF Decide, ProtocolInv
<1>2. messages[n][s][Len(messages[n][s])] = m
  <2>1. work[n][t].stage = "decide"
    BY DEF Decide
  <2>2. messages[n][s][m.seq] = m
    BY <2>1, DecidesAt DEF ProtocolInv
  <2>. QED BY <1>1, <2>2
<1>3. m.offer \in SUBSET Value /\ {} \in SUBSET Value /\ k \in Nat
  <2>. HIDE DEF m
  <2>. QED BY <1>1 DEF Message
<1>4. CASE DecideApproval(n, m)
  BY <1>4, AskingKeepsAsking, AskingKeepsPosition
<1>5. ASSUME NEW type \in {"COUNTER", "ACCEPT", "REJECT", "ERROR"}, NEW offer \in SUBSET Value,
             Reply(n, s, type, k, offer, 0), UNCHANGED <<pending, approvals>>,
             status'[n][s] # "waiting_approval",
             \A z \in Session : z # s => status'[n][z] = status[n][z],
             offer \subseteq Acceptable[n],
             type = "ACCEPT" => FALSE \in HumanReview[n] /\ offer \subseteq m.offer
      PROVE  AsksOnce(n)' /\ KeepsPosition(n)'
  <2>. DEFINE x == Envelope(s, n, type, k, offer)
  <2>1. type \in MessageTypes
    BY DEF MessageTypes
  <2>2. x \in Message /\ x.type = type /\ x.offer = offer
    <3>1. x \in Message
      BY <1>1, <1>3, <2>1, EnvelopeType
    <3>. QED BY <3>1 DEF Envelope
  <2>3. Appended(n, s, x) /\ Queued(n, x, 0)
    BY <1>5 DEF Reply, Appended, Queued
  <2>. HIDE DEF x, m, s, k
  <2>4. AsksOnce(n)'
    BY <1>1, <1>5, <2>2, <2>3, GrowthKeepsAsking
  <2>5. \A b \in approvals'[n] : \E a \in approvals[n] :
          /\ a.sid = b.sid /\ a.seq = b.seq
          /\ a.selected = b.selected /\ a.candidates = b.candidates
    BY <1>5
  <2>6. KeepsPosition(n)'
    BY <1>1, <1>2, <1>5, <2>2, <2>3, <2>5, GrowthKeepsPosition DEF AsksOnce
  <2>. QED BY <2>4, <2>6
<1>6. ASSUME NEW x, x # "waiting_approval", status' = [status EXCEPT ![n][s] = x]
      PROVE  /\ status'[n][s] # "waiting_approval"
             /\ \A z \in Session : z # s => status'[n][z] = status[n][z]
  <2>. HIDE DEF m, s
  <2>. QED BY <1>1, <1>6 DEF TypeOK
<1>7. CASE DecideAccept(n, m)
  <2>1. PICK v \in Common(n, m) : Reply(n, s, "ACCEPT", k, {v}, 0)
    BY <1>7 DEF DecideAccept
  <2>2. {v} \in SUBSET Value /\ {v} \subseteq Acceptable[n] /\ {v} \subseteq m.offer
    BY <1>3 DEF Common
  <2>3. /\ status' = [status EXCEPT ![n][s] = "agreed"] /\ UNCHANGED <<pending, approvals>>
        /\ FALSE \in HumanReview[n]
    BY <1>7 DEF DecideAccept
  <2>. HIDE DEF m, s, k
  <2>. QED BY <1>5, <1>6, <2>1, <2>2, <2>3
<1>8. CASE DecideReject(n, m)
  <2>1. /\ Reply(n, s, "REJECT", k, {}, 0) /\ UNCHANGED <<pending, approvals>>
        /\ status' = [status EXCEPT ![n][s] = "failed"]
    BY <1>8 DEF DecideReject
  <2>. HIDE DEF m, s, k
  <2>. QED BY <1>3, <1>5, <1>6, <2>1
<1>9. CASE DecideCounter(n, m)
  <2>1. PICK offer \in Offers[n] : Reply(n, s, "COUNTER", k, offer, 0)
    BY <1>9 DEF DecideCounter
  <2>2. offer \in SUBSET Value /\ offer \subseteq Acceptable[n]
    BY OffersType, ConstantsAssumption
  <2>3. UNCHANGED <<status, pending, approvals>>
    BY <1>9 DEF DecideCounter
  <2>4. status'[n][s] # "waiting_approval" /\ \A z \in Session : status'[n][z] = status[n][z]
    BY <1>1, <2>3
  <2>. HIDE DEF m, s, k
  <2>. QED BY <1>5, <2>1, <2>2, <2>3, <2>4
<1>10. CASE DecideExhausted(n, m)
  <2>1. /\ Reply(n, s, "ERROR", k, {}, 0) /\ UNCHANGED <<pending, approvals>>
        /\ status' = [status EXCEPT ![n][s] = "failed"]
    BY <1>10 DEF DecideExhausted
  <2>. HIDE DEF m, s, k
  <2>. QED BY <1>3, <1>5, <1>6, <2>1
<1>. QED BY <1>4, <1>7, <1>8, <1>9, <1>10 DEF Decide

\* resolve_remote_approval: what the owner approves of a meeting was common, or
\* is one of the node's own slots.
LEMMA CommitKeeps ==
  ASSUME TypeOK, ProtocolInv, NEW n \in Node, NEW r \in resolving[n], CommitResolve(n, r),
         AsksOnce(n), KeepsPosition(n)
  PROVE  AsksOnce(n)' /\ KeepsPosition(n)'
<1>1. CASE UNCHANGED <<store, approvals, outbox>>
  BY <1>1, QuietRows, SameRowsKeep
<1>2. ASSUME ~Answered(n, r.sid, r.seq), NEW a \in approvals[n], a.sid = r.sid, a.seq = r.seq,
             NEW type, NEW offer \in SUBSET Value, Resolve(n, r, a, type, offer),
             type \in IF r.target = "approved" THEN {"ACCEPT", "COUNTER"} ELSE {"REJECT"},
             IntentOf[r.sid] = "meeting.schedule" =>
               /\ offer \subseteq Acceptable[n]
               /\ type = "ACCEPT" => offer \subseteq messages[n][r.sid][a.seq].offer
      PROVE  AsksOnce(n)' /\ KeepsPosition(n)'
  <2>1. AsksOnce(n)'
    BY <1>2, ResolvingKeepsAsking
  <2>. DEFINE s == r.sid
              x == Envelope(s, n, type, r.last + 1, offer)
              b == [a EXCEPT !.status = r.target]
  <2>2. r \in Resolution
    BY DEF TypeOK
  <2>3. s \in Session /\ r.last \in Nat
    BY <2>2 DEF Resolution
  <2>4. status[n][s] = "waiting_approval" /\ r.seq = pending[n][s] /\ r.last = r.seq
    BY <1>2 DEF ProtocolInv, ResolvesThePending
  <2>5. Len(messages[n][s]) >= 2 /\ a.seq = Len(messages[n][s])
    BY <1>2, <2>3, <2>4, WaitingTurn DEF ProtocolInv
  <2>6. type \in MessageTypes /\ r.last + 1 \in Nat
    BY <1>2, <2>3 DEF MessageTypes
  <2>7. x \in Message /\ x.type = type /\ x.offer = offer
    <3>1. x \in Message
      BY <2>3, <2>6, EnvelopeType
    <3>. QED BY <3>1 DEF Envelope
  <2>8. Appended(n, s, x) /\ approvals'[n] = (approvals[n] \ {a}) \cup {b}
    BY <1>2 DEF Resolve, Reply, Appended, TypeOK
  <2>9. b.sid = a.sid /\ b.seq = a.seq /\ b.selected = a.selected /\ b.candidates = a.candidates
    <3>1. a \in Approval
      BY ApprovalType
    <3>. QED BY <3>1 DEF Approval
  <2>. HIDE DEF x, b, s
  <2>10. \A y \in approvals'[n] : \E z \in approvals[n] :
           /\ z.sid = y.sid /\ z.seq = y.seq
           /\ z.selected = y.selected /\ z.candidates = y.candidates
    BY <2>8, <2>9
  <2>11. IntentOf[s] = "meeting.schedule" =>
           /\ offer \subseteq Acceptable[n]
           /\ type = "ACCEPT" => offer \subseteq messages[n][s][Len(messages[n][s])].offer
    BY <1>2, <2>5 DEF s
  <2>12. KeepsPosition(n)'
    BY <2>3, <2>5, <2>7, <2>8, <2>10, <2>11, GrowthKeepsPosition DEF AsksOnce
  <2>. QED BY <2>1, <2>12
<1>3. ASSUME ~Answered(n, r.sid, r.seq), NEW a \in approvals[n], a.sid = r.sid, a.seq = r.seq,
             r.target = "approved",
             NEW reply \in ApprovedReplies(a), Resolve(n, r, a, reply.type, reply.offer)
      PROVE  AsksOnce(n)' /\ KeepsPosition(n)'
  <2>1. a \in Approval /\ a.sid \in Session
    BY ApprovalType
  <2>2. reply.type \in {"ACCEPT", "COUNTER"} /\ reply.offer \in SUBSET Value
    <3>1. reply.offer \in SUBSET Value
      BY <2>1, ApprovedRepliesType
    <3>2. reply.type \in {"ACCEPT", "COUNTER"}
      BY <1>3 DEF ApprovedReplies
    <3>. QED BY <3>1, <3>2
  <2>3. ASSUME IntentOf[r.sid] = "meeting.schedule"
        PROVE  /\ reply.offer \subseteq Acceptable[n]
               /\ reply.type = "ACCEPT" => reply.offer \subseteq messages[n][r.sid][a.seq].offer
    <3>1. /\ a.selected \subseteq Acceptable[n] \cap messages[n][r.sid][a.seq].offer
          /\ a.candidates \subseteq Acceptable[n]
      BY <1>3, <2>1, <2>3 DEF KeepsPosition
    <3>2. \/ reply.type = "COUNTER" /\ reply.offer = a.candidates
          \/ reply.type = "ACCEPT" /\ reply.offer = a.selected
          \/ reply.type = "COUNTER" /\ \E v \in a.candidates : reply.offer = {v}
      BY <1>3, <2>3 DEF ApprovedReplies
    <3>. QED BY <3>1, <3>2
  <2>. QED BY <1>2, <1>3, <2>2, <2>3
<1>4. ASSUME ~Answered(n, r.sid, r.seq), NEW a \in approvals[n], a.sid = r.sid, a.seq = r.seq,
             r.target # "approved", Resolve(n, r, a, "REJECT", {})
      PROVE  AsksOnce(n)' /\ KeepsPosition(n)'
  BY <1>2, <1>4
<1>. QED BY <1>1, <1>3, <1>4 DEF CommitResolve

LEMMA StepKeepsAsking ==
  ASSUME TypeOK, ProtocolInv, ApprovalInv, PositionInv, [Next]_vars
  PROVE  ApprovalInv' /\ PositionInv'
<1>1. CASE UNCHANGED vars
  <2>1. \A n \in Node : SameRows(n)
    BY <1>1 DEF vars, store, SameRows
  <2>. QED BY <2>1, SameRowsKeep DEF ApprovalInv, PositionInv
<1>2. CASE Next
  <2>1. PICK n \in Node :
          \/ \E s \in Session : Start(n, s)
          \/ Flush(n) \/ FlushDuplicate(n)
          \/ \E t \in Thread : Receive(n, t) \/ Decide(n, t)
          \/ \E t \in Thread : DecideFails(n, t) \/ Ack(n, t) \/ AckLost(n, t)
          \/ Overdue(n) \/ Crash(n) \/ Purge(n)
          \/ \E target \in {"approved", "rejected", "expired"} : BeginResolve(n, target)
          \/ \E r \in resolving[n] : CommitResolve(n, r)
    BY <1>2 DEF Next
  <2>2. ASSUME NEW q \in Node, q # n
        PROVE  AsksOnce(q)' /\ KeepsPosition(q)'
    <3>1. SameRows(q)
      BY <2>1, <2>2, RowsOfOthers DEF SameRows
    <3>. QED BY <3>1, SameRowsKeep DEF ApprovalInv, PositionInv
  <2>3. AsksOnce(n) /\ KeepsPosition(n)
    BY DEF ApprovalInv, PositionInv
  <2>4. AsksOnce(n)' /\ KeepsPosition(n)'
    <3>1. CASE \E s \in Session : Start(n, s)
      BY <2>3, <3>1, StartKeeps
    <3>2. CASE \E t \in Thread : Receive(n, t) \/ Decide(n, t)
      BY <2>3, <3>2, ReceiveKeeps, DecideKeeps
    <3>3. CASE Overdue(n)
      BY <2>3, <3>3, OverdueKeeps
    <3>4. CASE \E r \in resolving[n] : CommitResolve(n, r)
      BY <2>3, <3>4, CommitKeeps
    <3>5. CASE \/ Flush(n) \/ FlushDuplicate(n) \/ Crash(n) \/ Purge(n)
               \/ \E t \in Thread : DecideFails(n, t) \/ Ack(n, t) \/ AckLost(n, t)
               \/ \E target \in {"approved", "rejected", "expired"} : BeginResolve(n, target)
      BY <2>3, <3>5, QuietRows, SameRowsKeep
    <3>. QED BY <2>1, <3>1, <3>2, <3>3, <3>4, <3>5
  <2>. QED BY <2>2, <2>4 DEF ApprovalInv, PositionInv
<1>. QED BY <1>1, <1>2

LEMMA InitAsking == Init => ApprovalInv /\ PositionInv
<1>. SUFFICES ASSUME Init, NEW n \in Node PROVE AsksOnce(n) /\ KeepsPosition(n)
  BY DEF ApprovalInv, PositionInv
<1>1. /\ approvals[n] = {} /\ DOMAIN outbox[n] = {}
      /\ \A s \in Session : status[n][s] = "none" /\ DOMAIN messages[n][s] = {}
  BY DEF Init
<1>2. ApprovalsAreDistinct(n) /\ WaitsIffPending(n)
  BY <1>1 DEF ApprovalsAreDistinct, WaitsIffPending
<1>3. RepliesFollowApprovals(n) /\ ReviewedAccepts(n)
  BY <1>1 DEF RepliesFollowApprovals, ReviewedAccepts
<1>4. KeepsPosition(n)
  BY <1>1 DEF KeepsPosition
<1>. QED BY <1>2, <1>3, <1>4 DEF AsksOnce

\* In every reachable state the approvals of a node, the statuses of its
\* sessions and the replies in its outbox belong together: this is the
\* inductive invariant of _request_human_decision, resolve_remote_approval and
\* expire_if_needed, under crashes and resolutions that race each other.
THEOREM ApprovalInvariant == Spec => [](ApprovalInv /\ PositionInv)
<1>1. TypeOK /\ ProtocolInv /\ ApprovalInv /\ PositionInv /\ [Next]_vars
        => ApprovalInv' /\ PositionInv'
  BY StepKeepsAsking
<1>. QED BY <1>1, InitAsking, TypeCorrect, ProtocolInvariant, PTL DEF Spec

\* A session waits for its owner exactly while its approval is pending, however
\* the owner, the relay worker and the inbox callers interleave.
THEOREM WaitingTheorem == Spec => []WaitingIffPending
<1>1. ApprovalInv => WaitingIffPending
  BY DEF ApprovalInv, AsksOnce, WaitingIffPending
<1>. QED BY <1>1, ApprovalInvariant, PTL

\* The rows that answer an approval: one when it is resolved, else none.
LEMMA RepliesCounted ==
  ASSUME TypeOK, ApprovalInv, NEW n \in Node, NEW a \in approvals[n],
         NEW replies, replies = {i \in DOMAIN outbox[n] : outbox[n][i].msg.sid = a.sid
                                                          /\ outbox[n][i].approval = a.seq}
  PROVE  /\ Cardinality(replies) = IF a.status \in Pending THEN 0 ELSE 1
         /\ \A i \in replies : outbox[n][i].msg.type \in CalledFor(a)
<1>1. ApprovalsAreDistinct(n) /\ RepliesFollowApprovals(n)
  BY DEF ApprovalInv, AsksOnce
<1>2. a.seq # 0
  <2>1. a.seq \in DOMAIN messages[n][a.sid] /\ a.sid \in Session
    BY <1>1, ApprovalType DEF ApprovalsAreDistinct
  <2>. QED BY <2>1, LogType
<1>3. \A i \in replies : a.status \notin Pending /\ outbox[n][i].msg.type \in CalledFor(a)
  <2>. SUFFICES ASSUME NEW i \in replies
                PROVE  a.status \notin Pending /\ outbox[n][i].msg.type \in CalledFor(a)
    OBVIOUS
  <2>1. PICK x \in approvals[n] :
          /\ x.sid = outbox[n][i].msg.sid /\ x.seq = outbox[n][i].approval
          /\ x.status \notin Pending /\ outbox[n][i].msg.type \in CalledFor(x)
    BY <1>1, <1>2 DEF RepliesFollowApprovals
  <2>2. x = a
    BY <1>1, <2>1 DEF ApprovalsAreDistinct
  <2>. QED BY <2>1, <2>2
<1>4. CASE a.status \in Pending
  <2>1. replies = {}
    BY <1>3, <1>4
  <2>. QED BY <1>3, <1>4, <2>1, FS_EmptySet
<1>5. CASE a.status \notin Pending
  <2>1. PICK i \in DOMAIN outbox[n] : outbox[n][i].msg.sid = a.sid /\ outbox[n][i].approval = a.seq
    BY <1>1, <1>5 DEF RepliesFollowApprovals, Answered
  <2>2. replies = {i}
    BY <1>1, <1>2, <2>1 DEF RepliesFollowApprovals
  <2>. QED BY <1>3, <1>5, <2>2, FS_Singleton
<1>. QED BY <1>4, <1>5

\* An owner's decision is answered exactly once, with what it calls for,
\* although nothing but RelayOutbox.approval_id keeps two resolutions apart.
THEOREM ResolvedOnceTheorem == Spec => []ResolvedOnce
<1>1. TypeOK /\ ApprovalInv => ResolvedOnce
  <2>. SUFFICES ASSUME TypeOK, ApprovalInv PROVE ResolvedOnce
    OBVIOUS
  <2>. QED BY RepliesCounted DEF ResolvedOnce, CalledFor
<1>. QED BY <1>1, TypeCorrect, ApprovalInvariant, PTL

\* Where the guards always ask, no ACCEPT reaches the outbox without an
\* approved approval, and nothing is said after it.
THEOREM OwnerDecidesTheorem == Spec => []OwnerDecides
<1>1. ASSUME TypeOK, ProtocolInv, ApprovalInv, NEW n \in Node, NEW i \in DOMAIN outbox[n],
             HumanReview[n] = {TRUE}, outbox[n][i].msg.type = "ACCEPT"
      PROVE  /\ \E a \in approvals[n] :
                  /\ a.sid = outbox[n][i].msg.sid /\ a.seq = outbox[n][i].msg.seq - 1
                  /\ a.status = "approved"
             /\ Last(messages[n][outbox[n][i].msg.sid]) = outbox[n][i].msg
  <2>. DEFINE m == outbox[n][i].msg
  <2>1. outbox[n][i].approval # 0 /\ outbox[n][i].approval \in Nat
    <3>1. outbox[n][i] \in OutboxRow
      BY <1>1, RowType
    <3>. QED BY <1>1, <3>1 DEF OutboxRow, ApprovalInv, AsksOnce, ReviewedAccepts
  <2>2. PICK a \in approvals[n] :
          /\ a.sid = m.sid /\ a.seq = outbox[n][i].approval
          /\ a.status \notin Pending /\ m.type \in CalledFor(a)
    BY <1>1, <2>1 DEF ApprovalInv, AsksOnce, RepliesFollowApprovals
  <2>3. a.status = "approved"
    BY <1>1, <2>2 DEF CalledFor
  <2>4. m.seq = outbox[n][i].approval + 1
    BY <1>1, <2>1 DEF ProtocolInv, ResolvesThePending
  <2>5. a.seq = m.seq - 1
    BY <1>1, <2>1, <2>2, <2>4
  <2>6. m \in Message /\ m.from = n /\ Stored(m)
    BY <1>1, RowStored, RowType DEF ProtocolInv
  <2>7. m.sid \in Session
    BY <1>1, <2>6 DEF Message
  <2>8. m.seq \in DOMAIN messages[n][m.sid] /\ messages[n][m.sid][m.seq] = m
    BY <1>1, <2>6 DEF Stored
  <2>9. m.seq = Len(messages[n][m.sid])
    BY <1>1, <2>7, <2>8 DEF ProtocolInv, StatusFollowsLog, StatusFollowsItsLog, Final
  <2>. QED BY <1>1, <2>2, <2>3, <2>5, <2>8, <2>9 DEF Last
<1>2. TypeOK /\ ProtocolInv /\ ApprovalInv => OwnerDecides
  BY <1>1 DEF OwnerDecides
<1>. QED BY <1>2, TypeCorrect, ProtocolInvariant, ApprovalInvariant, PTL

\* Both owners are bound to a meeting inside their own position, although the
\* receiver of an ACCEPT does not compare it with what it offered.
THEOREM LimitsTheorem == Spec => []AgreementWithinLimits
<1>1. TypeOK /\ ProtocolInv /\ PositionInv => AgreementWithinLimits
  <2>. SUFFICES ASSUME TypeOK, ProtocolInv, PositionInv, NEW n \in Node, NEW s \in Session,
                       status[n][s] = "agreed", IntentOf[s] = "meeting.schedule"
                PROVE  agreement[n][s] \subseteq Acceptable[n]
    BY DEF AgreementWithinLimits
  <2>. DEFINE k == Len(messages[n][s])
              m == messages[n][s][k]
              p == Peer(n)
  <2>1. messages[n][s] # <<>> /\ agreement[n][s] = m.offer /\ m.type \in Final
    BY DEF ProtocolInv, StatusFollowsLog, StatusFollowsItsLog, Last, Terminal
  <2>2. k \in Nat /\ k \in DOMAIN messages[n][s] /\ DOMAIN messages[n][s] = 1..k
    BY <2>1, LogType, EmptySeq
  <2>3. m.type = "ACCEPT"
    BY <2>1, <2>2 DEF ProtocolInv, StatusFollowsLog, StatusFollowsItsLog
  <2>4. m \in Message /\ m.seq = k /\ m.sid = s /\ Stored(m)
    BY <2>2, LogType DEF ProtocolInv, LogInv, LogIsDense, LogsAreStored
  <2>5. m.from \in Node
    BY <2>4 DEF Message
  <2>6. CASE m.from = n
    BY <2>1, <2>2, <2>6 DEF PositionInv, KeepsPosition
  <2>7. CASE m.from = p
    <3>1. p \in Node /\ Peer(p) = n
      BY PeerNode
    <3>2. k \in DOMAIN messages[p][s] /\ messages[p][s][k] = m
      BY <2>4, <2>7 DEF Stored
    <3>3. k > 2 /\ m.offer \subseteq messages[p][s][k - 1].offer
      BY <2>3, <2>7, <3>1, <3>2 DEF PositionInv, KeepsPosition
    <3>4. k - 1 \in DOMAIN messages[p][s] /\ k - 1 \in DOMAIN messages[n][s]
      BY <2>2, <3>1, <3>2, <3>3, LogType
    <3>5. messages[p][s][k - 1] = messages[n][s][k - 1]
      BY <3>1, <3>4, LogsAgree DEF ProtocolInv, LogInv
    <3>6. messages[n][s][k - 1].from = n
      <4>1. messages[n][s][k].from = Peer(messages[n][s][k - 1].from)
        BY <2>2, <3>3 DEF ProtocolInv, LogInv, TurnsAlternate
      <4>2. messages[n][s][k - 1].from \in Node
        BY <3>4, LogType DEF Message
      <4>. QED BY <2>7, <3>1, <4>1, <4>2, PeerNode
    <3>7. messages[n][s][k - 1].offer \subseteq Acceptable[n]
      BY <3>4, <3>6 DEF PositionInv, KeepsPosition
    <3>. QED BY <2>1, <3>3, <3>5, <3>7
  <2>8. m.from = n \/ m.from = p
    BY <2>5 DEF Node, Peer
  <2>. QED BY <2>6, <2>7, <2>8
<1>. QED BY <1>1, TypeCorrect, ProtocolInvariant, ApprovalInvariant, PTL

--------------------------------------------------------------------------------
(* The rounds: who can send a COUNTER too many *)

LEMMA SameRowsKeepRounds ==
  ASSUME NEW q \in Node, SameRows(q)
  PROVE  /\ RoundsAreCounted(q) => RoundsAreCounted(q)'
         /\ OverrunsAreAnswers(q) => OverrunsAreAnswers(q)'
<1>1. RoundsAreCounted(q) => RoundsAreCounted(q)'
  BY DEF SameRows, RoundsAreCounted
<1>2. OverrunsAreAnswers(q) => OverrunsAreAnswers(q)'
  BY DEF SameRows, OverrunsAreAnswers
<1>. QED BY <1>1, <1>2

\* The COUNTERs of a log are among its messages from the third on.
LEMMA CountersAreLate ==
  ASSUME TypeOK, TurnsAlternate, NEW n \in Node, NEW s \in Session, RoundsAreCounted(n),
         NEW i \in DOMAIN messages[n][s], messages[n][s][i].type = "COUNTER"
  PROVE  i \in 3..Len(messages[n][s])
<1>1. i \in 1..Len(messages[n][s]) /\ Len(messages[n][s]) \in Nat
  BY LogType
<1>2. messages[n][s][i].type = "REQUEST" <=> i = 1
  BY DEF TurnsAlternate
<1>3. messages[n][s][i].type = "PROPOSE" <=> i = 2
  BY DEF RoundsAreCounted
<1>4. i # 1 /\ i # 2
  BY <1>2, <1>3
<1>. QED BY <1>1, <1>4

\* The places where a log of length k can have COUNTERs.
LEMMA PlacesOfCounters ==
  ASSUME NEW k \in Nat, k >= 2
  PROVE  IsFiniteSet(3..k) /\ Cardinality(3..k) = k - 2
BY FS_Interval

\* A log that ends in an offer has nothing but COUNTERs after the PROPOSE.
LEMMA RoundsOfAnOffer ==
  ASSUME TypeOK, ProtocolInv, NEW n \in Node, NEW s \in Session, RoundsAreCounted(n),
         Len(messages[n][s]) >= 2, messages[n][s][Len(messages[n][s])].type \in OfferTypes
  PROVE  CounterRounds(messages[n][s]) = Len(messages[n][s]) - 2
<1>. DEFINE log == messages[n][s]
            k == Len(log)
            C == {i \in DOMAIN log : log[i].type = "COUNTER"}
<1>1. k \in Nat /\ DOMAIN log = 1..k /\ \A i \in DOMAIN log : log[i] \in Message
  BY LogType
<1>2. k >= 2 /\ log[k].type \in OfferTypes
  OBVIOUS
<1>3. \A i \in DOMAIN log : log[i].type \in Final => i = k
  BY DEF ProtocolInv, StatusFollowsLog, StatusFollowsItsLog
<1>4. ASSUME NEW i \in DOMAIN log, i \in 3..k PROVE log[i].type = "COUNTER"
  <2>1. log[i].type \notin Final
    BY <1>2, <1>3 DEF OfferTypes, Final
  <2>2. log[i].type = "REQUEST" <=> i = 1
    BY DEF ProtocolInv, LogInv, TurnsAlternate
  <2>3. log[i].type = "PROPOSE" <=> i = 2
    BY DEF RoundsAreCounted
  <2>4. i # 1 /\ i # 2
    BY <1>1, <1>4
  <2>5. log[i].type \in MessageTypes
    BY <1>1 DEF Message
  <2>. QED BY <2>1, <2>2, <2>3, <2>4, <2>5 DEF MessageTypes, Final
<1>5. \A i \in C : i \in 3..k
  BY CountersAreLate DEF ProtocolInv, LogInv
<1>. HIDE DEF log, k
<1>6. \A i \in 3..k : i \in DOMAIN log
  BY <1>1
<1>7. C = 3..k
  BY <1>4, <1>5, <1>6
<1>8. Cardinality(3..k) = k - 2
  BY <1>1, <1>2, PlacesOfCounters
<1>. QED BY <1>7, <1>8 DEF CounterRounds, log, k

\* A message that n adds to a log, and queues if it is its own.
LEMMA GrowthKeepsRounds ==
  ASSUME TypeOK, NEW n \in Node, NEW s \in Session, NEW m \in Message,
         RoundsAreCounted(n), OverrunsAreAnswers(n), Appended(n, s, m),
         Len(messages[n][s]) + 1 <= MaxCounterRounds + 3,
         m.type = "PROPOSE" <=> Len(messages[n][s]) + 1 = 2,
         m.type = "COUNTER" /\ m.from # n => Len(messages[n][s]) + 1 <= MaxCounterRounds + 2,
         \/ m.from # n /\ outbox'[n] = outbox[n]
         \/ \E ap \in Nat :
              /\ Queued(n, m, ap)
              /\ m.type = "COUNTER" /\ m.seq > MaxCounterRounds + 2 => ap # 0
  PROVE  RoundsAreCounted(n)' /\ OverrunsAreAnswers(n)'
<1>1. RoundsAreCounted(n)'
  <2>. SUFFICES ASSUME NEW z \in Session, NEW i \in DOMAIN messages'[n][z]
                PROVE  LET x == messages'[n][z][i]
                       IN  /\ i <= MaxCounterRounds + 3
                           /\ x.type = "PROPOSE" <=> i = 2
                           /\ x.type = "COUNTER" /\ x.from # n => i <= MaxCounterRounds + 2
    BY DEF RoundsAreCounted
  <2>1. CASE i \in DOMAIN messages[n][z] /\ messages'[n][z][i] = messages[n][z][i]
    BY <2>1 DEF RoundsAreCounted
  <2>2. CASE i = Len(messages[n][s]) + 1 /\ messages'[n][z][i] = m
    BY <2>2
  <2>. QED BY <2>1, <2>2, AppendedAt
<1>2. /\ \A j \in DOMAIN outbox[n] : j \in DOMAIN outbox'[n] /\ outbox'[n][j] = outbox[n][j]
      /\ m.from = n => \E j \in DOMAIN outbox'[n] : outbox'[n][j].msg = m
      /\ \A j \in DOMAIN outbox'[n] :
           \/ j \in DOMAIN outbox[n] /\ outbox'[n][j] = outbox[n][j]
           \/ /\ outbox'[n][j].msg = m
              /\ m.type = "COUNTER" /\ m.seq > MaxCounterRounds + 2 => outbox'[n][j].approval # 0
  <2>1. CASE m.from # n /\ outbox'[n] = outbox[n]
    BY <2>1
  <2>2. CASE \E ap \in Nat :
               /\ Queued(n, m, ap)
               /\ m.type = "COUNTER" /\ m.seq > MaxCounterRounds + 2 => ap # 0
    <3>1. PICK ap \in Nat : /\ Queued(n, m, ap)
                            /\ m.type = "COUNTER" /\ m.seq > MaxCounterRounds + 2 => ap # 0
      BY <2>2
    <3>. DEFINE c == Len(outbox[n])
    <3>2. /\ DOMAIN outbox[n] = 1..c /\ c \in Nat /\ DOMAIN outbox'[n] = 1..c + 1
          /\ \A j \in DOMAIN outbox[n] : outbox'[n][j] = outbox[n][j]
          /\ outbox'[n][c + 1] = [msg |-> m, status |-> "pending", approval |-> ap]
      BY <3>1, QueuedRow
    <3>. HIDE DEF c
    <3>3. outbox'[n][c + 1].msg = m /\ outbox'[n][c + 1].approval = ap
      BY <3>2
    <3>4. \A j \in 1..c + 1 : j \in 1..c \/ j = c + 1
      BY <3>2
    <3>5. c + 1 \in 1..c + 1 /\ \A j \in 1..c : j \in 1..c + 1
      BY <3>2
    <3>. QED BY <3>1, <3>2, <3>3, <3>4, <3>5
  <2>. QED BY <2>1, <2>2
<1>3. ASSUME NEW z \in Session, NEW i \in DOMAIN messages'[n][z], messages'[n][z][i].from = n
      PROVE  \E j \in DOMAIN outbox'[n] : outbox'[n][j].msg = messages'[n][z][i]
  <2>1. CASE i \in DOMAIN messages[n][z] /\ messages'[n][z][i] = messages[n][z][i]
    BY <1>2, <1>3, <2>1 DEF OverrunsAreAnswers
  <2>2. CASE messages'[n][z][i] = m
    BY <1>2, <1>3, <2>2
  <2>. QED BY <2>1, <2>2, AppendedAt
<1>4. \A j \in DOMAIN outbox'[n] :
        outbox'[n][j].msg.type = "COUNTER" /\ outbox'[n][j].msg.seq > MaxCounterRounds + 2 =>
          outbox'[n][j].approval # 0
  BY <1>2 DEF OverrunsAreAnswers
<1>5. OverrunsAreAnswers(n)'
  BY <1>3, <1>4 DEF OverrunsAreAnswers
<1>. QED BY <1>1, <1>5

\* Whoever answers an offer has received it within the rounds.
LEMMA ReplyKeepsRounds ==
  ASSUME TypeOK, ProtocolInv, NEW n \in Node, NEW s \in Session,
         RoundsAreCounted(n), OverrunsAreAnswers(n),
         NEW type \in {"COUNTER", "ACCEPT", "REJECT", "ERROR"}, NEW seq \in Nat,
         NEW offer \in SUBSET Value, NEW ap \in Nat, Reply(n, s, type, seq, offer, ap),
         Len(messages[n][s]) >= 2,
         messages[n][s][Len(messages[n][s])].from = Peer(n),
         messages[n][s][Len(messages[n][s])].type \in OfferTypes,
         type = "COUNTER" /\ seq > MaxCounterRounds + 2 => ap # 0
  PROVE  RoundsAreCounted(n)' /\ OverrunsAreAnswers(n)'
<1>. DEFINE m == Envelope(s, n, type, seq, offer)
            k == Len(messages[n][s])
<1>1. m \in Message /\ m.type = type /\ m.from = n /\ m.seq = seq
  <2>1. m \in Message
    BY EnvelopeType DEF MessageTypes
  <2>. QED BY <2>1 DEF Envelope
<1>2. Appended(n, s, m) /\ Queued(n, m, ap)
  BY DEF Reply, Appended, Queued
<1>3. k \in Nat /\ k \in DOMAIN messages[n][s] /\ k >= 2
  BY LogType
<1>4. k + 1 <= MaxCounterRounds + 3
  <2>1. messages[n][s][k].from # n
    BY PeerNode
  <2>2. messages[n][s][k].type = "COUNTER" => k <= MaxCounterRounds + 2
    BY <1>3, <2>1 DEF RoundsAreCounted
  <2>3. messages[n][s][k].type = "PROPOSE" => k = 2
    BY <1>3 DEF RoundsAreCounted
  <2>. QED BY <1>3, <2>2, <2>3 DEF OfferTypes, MaxCounterRounds
<1>5. m.type # "PROPOSE" /\ k + 1 # 2
  BY <1>1, <1>3
<1>. HIDE DEF m
<1>. QED BY <1>1, <1>2, <1>4, <1>5, GrowthKeepsRounds

\* validate_incoming counts the rounds before a COUNTER is saved.
LEMMA ReceiveKeepsRounds ==
  ASSUME TypeOK, ProtocolInv, RoundsInv, NEW n \in Node, NEW t \in Thread, Receive(n, t)
  PROVE  RoundsAreCounted(n)' /\ OverrunsAreAnswers(n)'
<1>1. UNCHANGED <<approvals, outbox>>
  BY DEF Receive
<1>2. PICK i \in DOMAIN mailbox[n] :
        \/ Discard(n, t, mailbox[n][i])
        \/ Duplicate(n, t, mailbox[n][i])
        \/ Refuse(n, t, mailbox[n][i])
        \/ HandleRequest(n, t, mailbox[n][i])
        \/ HandleFinal(n, t, mailbox[n][i])
        \/ HandleOffer(n, t, mailbox[n][i])
  BY DEF Receive
<1>3. RoundsAreCounted(n) /\ OverrunsAreAnswers(n)
  BY DEF RoundsInv
<1>. DEFINE m == mailbox[n][i]
            s == m.sid
            p == Peer(n)
            k == Len(messages[n][s])
<1>4. CASE Discard(n, t, m) \/ Duplicate(n, t, m) \/ Refuse(n, t, m)
  <2>1. UNCHANGED <<store, approvals, outbox>>
    BY <1>1, <1>4 DEF Discard, Duplicate, Refuse
  <2>. QED BY <1>3, <2>1, QuietRows, SameRowsKeepRounds
<1>5. CASE HandleRequest(n, t, m) \/ HandleFinal(n, t, m) \/ HandleOffer(n, t, m)
  <2>1. Record(n, m)
    BY <1>5 DEF HandleRequest, HandleFinal, HandleOffer
  <2>2. /\ m \in Message /\ s \in Session /\ m.from = p /\ Stored(m) /\ m.seq = k + 1
        /\ Accepts(n, m)
    BY <2>1, AcceptedIsNext DEF Record, Receives
  <2>. HIDE DEF m
  <2>3. p \in Node /\ p # n
    BY PeerNode
  <2>4. k \in Nat
    BY <2>2, LogType
  <2>5. k + 1 \in DOMAIN messages[p][s] /\ messages[p][s][k + 1] = m
    BY <2>2 DEF Stored
  <2>6. /\ k + 1 <= MaxCounterRounds + 3
        /\ m.type = "PROPOSE" <=> k + 1 = 2
    BY <2>2, <2>3, <2>5 DEF RoundsInv, RoundsAreCounted
  <2>7. ASSUME m.type = "COUNTER" PROVE k + 1 <= MaxCounterRounds + 2
    <3>1. /\ m.type \in AllowedAfter(LastType(messages[n][s]))
          /\ CounterRounds(messages[n][s]) < MaxCounterRounds
      BY <2>2, <2>7 DEF Accepts, ValidateIncoming
    <3>2. LastType(messages[n][s]) \in OfferTypes
      BY <2>7, <3>1 DEF AllowedAfter, OfferTypes
    <3>3. messages[n][s] # <<>> /\ messages[n][s][k].type \in OfferTypes
      BY <3>2 DEF LastType, OfferTypes
    <3>4. k >= 1
      BY <2>2, <2>4, <3>3, LogType, EmptySeq
    <3>5. k >= 2
      BY <2>2, <3>3, <3>4, OfferIsNotFirst DEF ProtocolInv, LogInv
    <3>6. CounterRounds(messages[n][s]) = k - 2
      BY <1>3, <2>2, <3>3, <3>5, RoundsOfAnOffer
    <3>. QED BY <2>4, <3>1, <3>6 DEF MaxCounterRounds
  <2>8. Appended(n, s, m)
    BY <2>1 DEF Record, Appended
  <2>9. m.from # n /\ outbox'[n] = outbox[n]
    BY <1>1, <2>2, <2>3
  <2>. HIDE DEF s, p, k
  <2>10. s \in Session
    BY <2>2
  <2>. QED BY <1>3, <2>2, <2>6, <2>7, <2>8, <2>9, <2>10, GrowthKeepsRounds DEF k
<1>. QED BY <1>2, <1>4, <1>5

\* The clone stops countering one round before the receiver would refuse.
LEMMA DecideKeepsRounds ==
  ASSUME TypeOK, ProtocolInv, RoundsInv, NEW n \in Node, NEW t \in Thread, Decide(n, t)
  PROVE  RoundsAreCounted(n)' /\ OverrunsAreAnswers(n)'
<1>. DEFINE m == work[n][t].msg
            s == m.sid
            k == Len(messages[n][s])
<1>1. /\ m \in Message /\ s \in Session /\ k >= 2 /\ m.seq = k
      /\ messages[n][s][k].from = Peer(n)
  BY DecidingTurn DEF Decide, ProtocolInv
<1>2. messages[n][s][k] = m /\ m.type \in OfferTypes
  <2>1. work[n][t].stage = "decide"
    BY DEF Decide
  <2>2. messages[n][s][m.seq] = m /\ m.type \in OfferTypes
    BY <2>1, DecidesAt DEF ProtocolInv
  <2>. QED BY <1>1, <2>2
<1>3. k \in Nat /\ {} \in SUBSET Value
  BY <1>1, LogType
<1>4. RoundsAreCounted(n) /\ OverrunsAreAnswers(n)
  BY DEF RoundsInv
<1>5. ASSUME NEW type \in {"COUNTER", "ACCEPT", "REJECT", "ERROR"}, NEW offer \in SUBSET Value,
             Reply(n, s, type, m.seq + 1, offer, 0),
             type = "COUNTER" => Rounds(n, s) < MaxCounterRounds
      PROVE  RoundsAreCounted(n)' /\ OverrunsAreAnswers(n)'
  <2>1. Rounds(n, s) = k - 2 + 1
    BY <1>1, <1>2, <1>4, RoundsOfAnOffer DEF Rounds
  <2>2. ~(type = "COUNTER" /\ k + 1 > MaxCounterRounds + 2)
    BY <1>3, <1>5, <2>1 DEF MaxCounterRounds
  <2>3. Reply(n, s, type, k + 1, offer, 0) /\ k + 1 \in Nat
    <3>1. m.seq = k /\ k \in Nat
      BY <1>1, <1>3
    <3>. HIDE DEF k
    <3>. QED BY <1>5, <3>1
  <2>4. messages[n][s][k].type \in OfferTypes
    BY <1>2
  <2>5. s \in Session /\ 0 \in Nat
    BY <1>1
  <2>. HIDE DEF m, s
  <2>. QED BY <1>1, <1>4, <2>2, <2>3, <2>4, <2>5, ReplyKeepsRounds
<1>6. CASE DecideApproval(n, m)
  <2>1. UNCHANGED <<messages, outbox>>
    BY <1>6 DEF DecideApproval
  <2>. QED BY <1>4, <2>1 DEF RoundsAreCounted, OverrunsAreAnswers
<1>7. CASE DecideAccept(n, m)
  <2>1. PICK v \in Common(n, m) : Reply(n, s, "ACCEPT", m.seq + 1, {v}, 0)
    BY <1>7 DEF DecideAccept
  <2>2. m.offer \in SUBSET Value
    <3>. HIDE DEF m
    <3>. QED BY <1>1 DEF Message
  <2>3. {v} \in SUBSET Value
    BY <2>2 DEF Common
  <2>. HIDE DEF m, s
  <2>. QED BY <1>5, <2>1, <2>3
<1>8. CASE DecideReject(n, m)
  <2>1. Reply(n, s, "REJECT", m.seq + 1, {}, 0)
    BY <1>8 DEF DecideReject
  <2>. HIDE DEF m, s
  <2>. QED BY <1>3, <1>5, <2>1
<1>9. CASE DecideCounter(n, m)
  <2>1. PICK offer \in Offers[n] : Reply(n, s, "COUNTER", m.seq + 1, offer, 0)
    BY <1>9 DEF DecideCounter
  <2>2. offer \in SUBSET Value /\ Rounds(n, s) < MaxCounterRounds
    BY <1>9, OffersType DEF DecideCounter
  <2>. HIDE DEF m, s
  <2>. QED BY <1>5, <2>1, <2>2
<1>10. CASE DecideExhausted(n, m)
  <2>1. Reply(n, s, "ERROR", m.seq + 1, {}, 0)
    BY <1>10 DEF DecideExhausted
  <2>. HIDE DEF m, s
  <2>. QED BY <1>3, <1>5, <2>1
<1>. QED BY <1>6, <1>7, <1>8, <1>9, <1>10 DEF Decide

\* resolve_remote_approval looks at no rounds: its reply carries the approval.
LEMMA CommitKeepsRounds ==
  ASSUME TypeOK, ProtocolInv, RoundsInv, NEW n \in Node, NEW r \in resolving[n],
         CommitResolve(n, r)
  PROVE  RoundsAreCounted(n)' /\ OverrunsAreAnswers(n)'
<1>1. RoundsAreCounted(n) /\ OverrunsAreAnswers(n)
  BY DEF RoundsInv
<1>2. CASE UNCHANGED <<store, approvals, outbox>>
  BY <1>1, <1>2, QuietRows, SameRowsKeepRounds
<1>3. ASSUME ~Answered(n, r.sid, r.seq),
             NEW type \in {"COUNTER", "ACCEPT", "REJECT", "ERROR"}, NEW offer \in SUBSET Value,
             Reply(n, r.sid, type, r.last + 1, offer, r.seq)
      PROVE  RoundsAreCounted(n)' /\ OverrunsAreAnswers(n)'
  <2>. DEFINE s == r.sid
              k == Len(messages[n][s])
  <2>1. r \in Resolution
    BY DEF TypeOK
  <2>2. s \in Session /\ r.seq \in Nat /\ r.last + 1 \in Nat
    BY <2>1 DEF Resolution
  <2>3. status[n][s] = "waiting_approval" /\ r.seq = pending[n][s]
    BY <1>3 DEF ProtocolInv, ResolvesThePending
  <2>4. /\ k >= 2 /\ messages[n][s][k].from = Peer(n) /\ messages[n][s][k].type \in OfferTypes
        /\ pending[n][s] = k
    BY <2>2, <2>3, WaitingTurn DEF ProtocolInv
  <2>5. r.seq # 0
    BY <2>2, <2>3, <2>4
  <2>. QED BY <1>1, <1>3, <2>2, <2>4, <2>5, ReplyKeepsRounds
<1>4. ASSUME ~Answered(n, r.sid, r.seq), NEW a \in approvals[n],
             NEW reply \in ApprovedReplies(a), Resolve(n, r, a, reply.type, reply.offer)
      PROVE  RoundsAreCounted(n)' /\ OverrunsAreAnswers(n)'
  <2>1. a \in Approval
    BY ApprovalType
  <2>2. reply.offer \in SUBSET Value
    BY <2>1, ApprovedRepliesType
  <2>3. reply.type \in {"COUNTER", "ACCEPT", "REJECT", "ERROR"}
    BY <1>4 DEF ApprovedReplies
  <2>4. Reply(n, r.sid, reply.type, r.last + 1, reply.offer, r.seq)
    BY <1>4 DEF Resolve
  <2>. QED BY <1>3, <1>4, <2>2, <2>3, <2>4
<1>5. ASSUME ~Answered(n, r.sid, r.seq), NEW a \in approvals[n], Resolve(n, r, a, "REJECT", {})
      PROVE  RoundsAreCounted(n)' /\ OverrunsAreAnswers(n)'
  <2>1. Reply(n, r.sid, "REJECT", r.last + 1, {}, r.seq) /\ {} \in SUBSET Value
    BY <1>5 DEF Resolve
  <2>. QED BY <1>3, <1>5, <2>1
<1>. QED BY <1>2, <1>4, <1>5 DEF CommitResolve

\* A negotiation opens with its REQUEST and its PROPOSE.
LEMMA StartKeepsRounds ==
  ASSUME TypeOK, ProtocolInv, RoundsInv, NEW n \in Node, NEW s \in Session, Start(n, s)
  PROVE  RoundsAreCounted(n)' /\ OverrunsAreAnswers(n)'
<1>. DEFINE request == Envelope(s, n, "REQUEST", 1, {})
            Row(m) == [msg |-> m, status |-> "pending", approval |-> 0]
<1>0. RoundsAreCounted(n) /\ OverrunsAreAnswers(n)
  BY DEF RoundsInv
<1>1. PICK offer \in Offers[n] :
        LET propose == Envelope(s, n, "PROPOSE", 2, offer)
        IN  /\ messages' = [messages EXCEPT ![n][s] = <<request, propose>>]
            /\ outbox' = [outbox EXCEPT ![n] = @ \o <<Row(request), Row(propose)>>]
  BY DEF Start
<1>. DEFINE propose == Envelope(s, n, "PROPOSE", 2, offer)
<1>2. /\ request \in Message /\ request.type = "REQUEST"
      /\ propose \in Message /\ propose.type = "PROPOSE"
  <2>1. {} \in SUBSET Value /\ offer \in SUBSET Value
    BY OffersType
  <2>2. request \in Message /\ propose \in Message
    BY <2>1, EnvelopeType DEF MessageTypes
  <2>. QED BY <2>2 DEF Envelope
<1>. HIDE DEF request, propose
<1>3. /\ messages'[n][s] = <<request, propose>>
      /\ \A z \in Session : z # s => messages'[n][z] = messages[n][z]
  BY <1>1 DEF TypeOK, propose
<1>4. /\ DOMAIN messages'[n][s] = 1..2
      /\ messages'[n][s][1] = request /\ messages'[n][s][2] = propose
  BY <1>3
<1>5. /\ \A j \in DOMAIN outbox[n] : j \in DOMAIN outbox'[n] /\ outbox'[n][j] = outbox[n][j]
      /\ \E j \in DOMAIN outbox'[n] : outbox'[n][j].msg = request
      /\ \E j \in DOMAIN outbox'[n] : outbox'[n][j].msg = propose
      /\ \A j \in DOMAIN outbox'[n] :
           \/ j \in DOMAIN outbox[n] /\ outbox'[n][j] = outbox[n][j]
           \/ outbox'[n][j].msg.type # "COUNTER"
  <2>. DEFINE q == outbox[n]
              x == Row(request)
              y == Row(propose)
  <2>1. q \in Seq(OutboxRow) /\ Len(q) \in Nat /\ DOMAIN q = 1..Len(q)
    BY LenProperties DEF TypeOK
  <2>2. x \in OutboxRow /\ y \in OutboxRow
    BY <1>2 DEF OutboxRow
  <2>3. /\ x.msg = request /\ y.msg = propose
        /\ x.msg.type # "COUNTER" /\ y.msg.type # "COUNTER"
    BY <1>2
  <2>4. outbox'[n] = q \o <<x, y>>
    BY <1>1 DEF TypeOK, propose
  <2>. HIDE DEF q, x, y, Row
  <2>5. <<x, y>> \in Seq(OutboxRow) /\ Len(<<x, y>>) = 2 /\ <<x, y>>[1] = x /\ <<x, y>>[2] = y
    BY <2>2
  <2>6. /\ DOMAIN (q \o <<x, y>>) = 1..Len(q) + 2
        /\ \A i \in 1..Len(q) : (q \o <<x, y>>)[i] = q[i]
        /\ (q \o <<x, y>>)[Len(q) + 1] = x /\ (q \o <<x, y>>)[Len(q) + 2] = y
    BY <2>1, <2>5
  <2>7. \A i \in 1..Len(q) + 2 : i \in 1..Len(q) \/ i = Len(q) + 1 \/ i = Len(q) + 2
    BY <2>1
  <2>8. /\ \A i \in 1..Len(q) : i \in 1..Len(q) + 2
        /\ Len(q) + 1 \in 1..Len(q) + 2 /\ Len(q) + 2 \in 1..Len(q) + 2
    BY <2>1
  <2>9. \A j \in DOMAIN q : j \in DOMAIN outbox'[n] /\ outbox'[n][j] = q[j]
    BY <2>1, <2>4, <2>6, <2>8
  <2>10. /\ \E j \in DOMAIN outbox'[n] : outbox'[n][j].msg = request
         /\ \E j \in DOMAIN outbox'[n] : outbox'[n][j].msg = propose
    BY <2>3, <2>4, <2>6, <2>8
  <2>11. \A j \in DOMAIN outbox'[n] :
           \/ j \in DOMAIN q /\ outbox'[n][j] = q[j]
           \/ outbox'[n][j].msg.type # "COUNTER"
    BY <2>1, <2>3, <2>4, <2>6, <2>7
  <2>. QED BY <2>9, <2>10, <2>11 DEF q
<1>6. ASSUME NEW z \in Session, NEW i \in DOMAIN messages'[n][z]
      PROVE  LET m == messages'[n][z][i]
             IN  /\ i <= MaxCounterRounds + 3
                 /\ m.type = "PROPOSE" <=> i = 2
                 /\ m.type = "COUNTER" /\ m.from # n => i <= MaxCounterRounds + 2
                 /\ m.from = n => \E j \in DOMAIN outbox'[n] : outbox'[n][j].msg = m
  <2>1. CASE z = s
    <3>1. \/ i = 1 /\ messages'[n][z][i] = request
          \/ i = 2 /\ messages'[n][z][i] = propose
      BY <1>4, <1>6, <2>1
    <3>. QED BY <1>2, <1>5, <3>1 DEF MaxCounterRounds
  <2>2. CASE z # s
    BY <1>0, <1>3, <1>5, <2>2 DEF RoundsAreCounted, OverrunsAreAnswers
  <2>. QED BY <2>1, <2>2
<1>7. RoundsAreCounted(n)'
  BY <1>6 DEF RoundsAreCounted
<1>8. OverrunsAreAnswers(n)'
  BY <1>0, <1>5, <1>6 DEF OverrunsAreAnswers
<1>. QED BY <1>7, <1>8

LEMMA StepKeepsRounds ==
  ASSUME TypeOK, ProtocolInv, RoundsInv, [Next]_vars
  PROVE  RoundsInv'
<1>1. CASE UNCHANGED vars
  <2>1. \A n \in Node : SameRows(n)
    BY <1>1 DEF vars, store, SameRows
  <2>. QED BY <2>1, SameRowsKeepRounds DEF RoundsInv
<1>2. CASE Next
  <2>1. PICK n \in Node :
          \/ \E s \in Session : Start(n, s)
          \/ Flush(n) \/ FlushDuplicate(n)
          \/ \E t \in Thread : Receive(n, t) \/ Decide(n, t)
          \/ \E t \in Thread : DecideFails(n, t) \/ Ack(n, t) \/ AckLost(n, t)
          \/ Overdue(n) \/ Crash(n) \/ Purge(n)
          \/ \E target \in {"approved", "rejected", "expired"} : BeginResolve(n, target)
          \/ \E r \in resolving[n] : CommitResolve(n, r)
    BY <1>2 DEF Next
  <2>2. ASSUME NEW q \in Node, q # n
        PROVE  RoundsAreCounted(q)' /\ OverrunsAreAnswers(q)'
    <3>1. SameRows(q)
      BY <2>1, <2>2, RowsOfOthers DEF SameRows
    <3>. QED BY <3>1, SameRowsKeepRounds DEF RoundsInv
  <2>3. RoundsAreCounted(n) /\ OverrunsAreAnswers(n)
    BY DEF RoundsInv
  <2>4. RoundsAreCounted(n)' /\ OverrunsAreAnswers(n)'
    <3>1. CASE \E s \in Session : Start(n, s)
      BY <3>1, StartKeepsRounds
    <3>2. CASE \E t \in Thread : Receive(n, t) \/ Decide(n, t)
      BY <3>2, ReceiveKeepsRounds, DecideKeepsRounds
    <3>3. CASE Overdue(n)
      <4>1. UNCHANGED <<messages, outbox>>
        BY <3>3 DEF Overdue, store
      <4>. QED BY <2>3, <4>1 DEF RoundsAreCounted, OverrunsAreAnswers
    <3>4. CASE \E r \in resolving[n] : CommitResolve(n, r)
      BY <3>4, CommitKeepsRounds
    <3>5. CASE \/ Flush(n) \/ FlushDuplicate(n) \/ Crash(n) \/ Purge(n)
               \/ \E t \in Thread : DecideFails(n, t) \/ Ack(n, t) \/ AckLost(n, t)
               \/ \E target \in {"approved", "rejected", "expired"} : BeginResolve(n, target)
      BY <2>3, <3>5, QuietRows, SameRowsKeepRounds
    <3>. QED BY <2>1, <3>1, <3>2, <3>3, <3>4, <3>5
  <2>. QED BY <2>2, <2>4 DEF RoundsInv
<1>. QED BY <1>1, <1>2

\* What the invariant says of a log with a COUNTER too many.
LEMMA OverrunFollows ==
  ASSUME TypeOK, ProtocolInv, ApprovalInv, RoundsInv, NEW n \in Node, NEW s \in Session,
         CounterRounds(messages[n][s]) > MaxCounterRounds
  PROVE  LET log == messages[n][s]
         IN  /\ CounterRounds(log) = MaxCounterRounds + 1
             /\ Last(log).type = "COUNTER" /\ Last(log).from = n
             /\ \E a \in approvals[n] :
                  a.sid = s /\ a.seq = Len(log) - 1 /\ a.status = "approved"
             /\ Len(messages[Peer(n)][s]) < Len(log)
<1>. DEFINE log == messages[n][s]
            k == Len(log)
            p == Peer(n)
            C == {i \in DOMAIN log : log[i].type = "COUNTER"}
<1>1. /\ k \in Nat /\ DOMAIN log = 1..k
      /\ \A i \in DOMAIN log : log[i] \in Message
  BY LogType
<1>2. Cardinality(C) > 3
  BY DEF CounterRounds, MaxCounterRounds
<1>3. \A i \in C : i \in 3..k
  BY CountersAreLate DEF ProtocolInv, LogInv, RoundsInv
<1>4. \A i \in 1..k : i <= 6
  BY <1>1 DEF RoundsInv, RoundsAreCounted, MaxCounterRounds
<1>5. k = 6
  <2>. HIDE DEF C, k
  <2>0. k >= 2
    <3>. SUFFICES ASSUME ~(k >= 2) PROVE FALSE
      OBVIOUS
    <3>1. C = {}
      BY <1>1, <1>3
    <3>. QED BY <1>2, <3>1, FS_EmptySet
  <2>1. IsFiniteSet(3..k) /\ Cardinality(3..k) = k - 2
    BY <1>1, <2>0, PlacesOfCounters
  <2>2. Cardinality(C) <= Cardinality(3..k) /\ Cardinality(C) \in Nat
    BY <1>3, <2>1, FS_Subset, FS_CardinalityType
  <2>3. k > 5
    BY <1>1, <1>2, <2>1, <2>2
  <2>4. k <= 6
    BY <1>1, <1>4, <2>3
  <2>. QED BY <1>1, <2>3, <2>4
<1>6. k \in C
  <2>. SUFFICES ASSUME k \notin C PROVE FALSE
    OBVIOUS
  <2>. HIDE DEF C, k
  <2>1. \A i \in C : i \in 3..(k - 1)
    BY <1>1, <1>3
  <2>2. IsFiniteSet(3..(k - 1)) /\ Cardinality(3..(k - 1)) = (k - 1) - 2
    <3>1. k - 1 \in Nat /\ k - 1 >= 2
      BY <1>5
    <3>. QED BY <3>1, PlacesOfCounters
  <2>3. Cardinality(C) <= Cardinality(3..(k - 1)) /\ Cardinality(C) \in Nat
    BY <2>1, <2>2, FS_Subset, FS_CardinalityType
  <2>. QED BY <1>2, <1>5, <2>2, <2>3
<1>7. 6 \in DOMAIN log /\ log[6].type = "COUNTER"
  BY <1>5, <1>6
<1>8. Cardinality(C) = 4
  <2>. HIDE DEF C, k
  <2>0. k >= 2
    BY <1>5
  <2>1. IsFiniteSet(3..k) /\ Cardinality(3..k) = k - 2
    BY <1>1, <2>0, PlacesOfCounters
  <2>2. Cardinality(C) <= Cardinality(3..k) /\ Cardinality(C) \in Nat
    BY <1>3, <2>1, FS_Subset, FS_CardinalityType
  <2>. QED BY <1>2, <1>5, <2>1, <2>2
<1>9. log[6].from = n
  BY <1>7 DEF RoundsInv, RoundsAreCounted, MaxCounterRounds
<1>10. log[6].seq = 6 /\ log[6].sid = s
  BY <1>7 DEF ProtocolInv, LogInv, LogIsDense
<1>11. \E a \in approvals[n] : a.sid = s /\ a.seq = k - 1 /\ a.status = "approved"
  <2>1. PICK j \in DOMAIN outbox[n] : outbox[n][j].msg = log[6]
    BY <1>7, <1>9 DEF RoundsInv, OverrunsAreAnswers
  <2>2. outbox[n][j].approval # 0 /\ outbox[n][j].approval \in Nat
    <3>1. outbox[n][j] \in OutboxRow
      BY RowType
    <3>2. outbox[n][j].approval # 0
      BY <1>7, <1>10, <2>1 DEF RoundsInv, OverrunsAreAnswers, MaxCounterRounds
    <3>. QED BY <3>1, <3>2 DEF OutboxRow
  <2>3. PICK a \in approvals[n] :
          /\ a.sid = outbox[n][j].msg.sid /\ a.seq = outbox[n][j].approval
          /\ outbox[n][j].msg.type \in CalledFor(a)
    BY <2>2 DEF ApprovalInv, AsksOnce, RepliesFollowApprovals
  <2>4. a.status = "approved"
    BY <1>7, <2>1, <2>3 DEF CalledFor
  <2>5. outbox[n][j].msg.seq = outbox[n][j].approval + 1
    BY <2>2 DEF ProtocolInv, ResolvesThePending
  <2>6. a.sid = s /\ a.seq = 5
    BY <1>10, <2>1, <2>2, <2>3, <2>5
  <2>. QED BY <1>5, <2>4, <2>6
<1>12. Len(messages[p][s]) < 6
  <2>1. p \in Node /\ p # n
    BY PeerNode
  <2>2. Len(messages[p][s]) \in Nat /\ DOMAIN messages[p][s] = 1..Len(messages[p][s])
    BY <2>1, LogType
  <2>3. ASSUME 6 \in DOMAIN messages[p][s] PROVE FALSE
    <3>1. messages[p][s][6] = log[6]
      BY <1>7, <2>1, <2>3, LogsAgree DEF ProtocolInv, LogInv
    <3>. QED BY <1>7, <1>9, <2>1, <2>3, <3>1 DEF RoundsInv, RoundsAreCounted, MaxCounterRounds
  <2>. QED BY <2>2, <2>3
<1>. QED BY <1>5, <1>7, <1>8, <1>9, <1>11, <1>12 DEF Last, CounterRounds, MaxCounterRounds

\* Every log keeps to the rounds its receiver counts, and what goes beyond them
\* answers an approval.
THEOREM RoundsInvariant == Spec => []RoundsInv
<1>1. Init => RoundsInv
  <2>. SUFFICES ASSUME Init, NEW n \in Node PROVE RoundsAreCounted(n) /\ OverrunsAreAnswers(n)
    BY DEF RoundsInv
  <2>1. DOMAIN outbox[n] = {} /\ \A s \in Session : DOMAIN messages[n][s] = {}
    BY DEF Init
  <2>. QED BY <2>1 DEF RoundsAreCounted, OverrunsAreAnswers
<1>2. TypeOK /\ ProtocolInv /\ RoundsInv /\ [Next]_vars => RoundsInv'
  BY StepKeepsRounds
<1>. QED BY <1>1, <1>2, TypeCorrect, ProtocolInvariant, PTL DEF Spec

\* A fourth COUNTER is an owner's answer, the last word of its sender, and
\* never saved by the peer.
THEOREM OverrunTheorem == Spec => []OverrunIsTheOwners
<1>1. TypeOK /\ ProtocolInv /\ ApprovalInv /\ RoundsInv => OverrunIsTheOwners
  BY OverrunFollows DEF OverrunIsTheOwners
<1>. QED BY <1>1, TypeCorrect, ProtocolInvariant, ApprovalInvariant, RoundsInvariant, PTL
================================================================================
