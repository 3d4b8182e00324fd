------------------------ MODULE EnvelopeDelivery_proofs ------------------------
(***************************************************************************)
(* Type correctness of the path of an envelope, and that it is handled at  *)
(* most once, in order, and lost only when it is too old, for any nodes,   *)
(* threads, envelopes, limits and clocks that differ by up to MaxSkew.     *)
(***************************************************************************)
EXTENDS EnvelopeDelivery, FiniteSetTheorems, WellFoundedInduction, TLAPS

Stages == {"send", "allowed", "stored"}
InboxStages == {"handle", "ack"}

--------------------------------------------------------------------------------
(* The loops: a flush and a batch always have a next element *)

LEMMA HasLeast ==
  ASSUME NEW S \in SUBSET Nat, S # {}
  PROVE  \E i \in S : \A j \in S : i <= j
<1> DEFINE R == OpToRel(<, Nat)
<1>1. PICK i \in S : \A j \in S : ~ (<<j, i>> \in R)
  BY NatLessThanWellFounded, WFMin
<1>2. \A j \in S : ~ (j < i)
  BY <1>1 DEF OpToRel
<1> QED BY <1>2

LEMMA CurrentRowIn ==
  ASSUME NEW n, NEW t, task[n][t].rows \in SUBSET Nat, task[n][t].rows # {}
  PROVE  CurrentRow(n, t) \in task[n][t].rows
BY HasLeast DEF CurrentRow

LEMMA CurrentDeliveryIn ==
  ASSUME NEW n, NEW t, task[n][t].page \in SUBSET Delivery, task[n][t].page # {}
  PROVE  CurrentDelivery(n, t) \in task[n][t].page
<1> DEFINE page == task[n][t].page
           S    == {d.id : d \in page}
<1>1. S \in SUBSET Nat /\ S # {}
  BY DEF Delivery
<1>2. PICK i \in S : \A j \in S : i <= j
  BY <1>1, HasLeast
<1>3. \E d \in page : \A e \in page : d.id <= e.id
  BY <1>2
<1> QED BY <1>3 DEF CurrentDelivery

\* What a thread is in the middle of.
Held ==
  \A n \in Node : \A t \in Caller[n] :
    /\ task[n][t].stage \in Stages =>
         task[n][t].rows # {} /\ task[n][t].rows \subseteq DOMAIN outbox[n]
    /\ task[n][t].stage \in InboxStages => task[n][t].page # {}

Tasks == {Idle} \cup Flushing \cup Receiving

LEMMA TaskKinds ==
  ASSUME NEW w \in Tasks
  PROVE  /\ w.stage \in Stages => w \in Flushing /\ w.rows \in SUBSET Nat
         /\ w.stage \in InboxStages => w \in Receiving /\ w.page \in SUBSET Delivery
         /\ w.stage \in Stages \cup InboxStages \cup {"idle"}
         /\ w.stage = "idle" <=> w = Idle
BY DEF Tasks, Idle, Flushing, Receiving, Stages, InboxStages

LEMMA DoesTyped ==
  ASSUME TypeOK, NEW n \in Node, NEW t \in Caller[n], NEW what \in Tasks, Does(n, t, what)
  PROVE  /\ DOMAIN task' = Node
         /\ \A p \in Node : task'[p] \in [Caller[p] -> {Idle} \cup Flushing \cup Receiving]
BY DEF TypeOK, Does, Tasks

LEMMA DoesOnly ==
  ASSUME TypeOK, NEW n \in Node, NEW t \in Caller[n], NEW what, Does(n, t, what)
  PROVE  /\ task'[n][t] = what
         /\ \A p \in Node : \A u \in Caller[p] : <<p, u>> # <<n, t>> => task'[p][u] = task[p][u]
BY DEF TypeOK, Does

LEMMA RowIn ==
  ASSUME TypeOK, Held, NEW n \in Node, NEW t \in Caller[n], task[n][t].stage \in Stages
  PROVE  /\ CurrentRow(n, t) \in DOMAIN outbox[n]
         /\ CurrentRow(n, t) \in task[n][t].rows
         /\ Sending(n, t) \in Message
<1>1. task[n][t] \in Tasks
  BY DEF TypeOK, Tasks
<1>2. task[n][t].rows \in SUBSET Nat /\ task[n][t].rows # {}
  BY <1>1, TaskKinds DEF Held
<1>3. CurrentRow(n, t) \in task[n][t].rows
  BY <1>2, CurrentRowIn
<1>4. CurrentRow(n, t) \in DOMAIN outbox[n]
  BY <1>3 DEF Held
<1>5. outbox[n][CurrentRow(n, t)] \in OutboxRow
  BY <1>4 DEF TypeOK
<1> QED BY <1>3, <1>4, <1>5 DEF Sending, OutboxRow

LEMMA DeliveryIn ==
  ASSUME TypeOK, Held, NEW n \in Node, NEW t \in Caller[n], task[n][t].stage \in InboxStages
  PROVE  /\ CurrentDelivery(n, t) \in task[n][t].page
         /\ CurrentDelivery(n, t) \in Delivery
         /\ CurrentDelivery(n, t).msg \in Message
<1>1. task[n][t] \in Tasks
  BY DEF TypeOK, Tasks
<1>2. task[n][t].page \in SUBSET Delivery /\ task[n][t].page # {}
  BY <1>1, TaskKinds DEF Held
<1> QED BY <1>2, CurrentDeliveryIn DEF Delivery

\* What a thread may go on with.
LEMMA GoesOn ==
  ASSUME TypeOK, Held, NEW n \in Node, NEW t \in Caller[n]
  PROVE  /\ Idle \in Tasks
         /\ task[n][t].stage \in Stages =>
              \A s \in Stages :
                /\ [task[n][t] EXCEPT !.stage = s] \in Tasks
                /\ [task[n][t] EXCEPT !.stage = s].stage = s
                /\ [task[n][t] EXCEPT !.stage = s].rows = task[n][t].rows
         /\ task[n][t].stage \in InboxStages =>
              \A s \in InboxStages :
                /\ [task[n][t] EXCEPT !.stage = s] \in Tasks
                /\ [task[n][t] EXCEPT !.stage = s].stage = s
                /\ [task[n][t] EXCEPT !.stage = s].page = task[n][t].page
<1>1. task[n][t] \in Tasks
  BY DEF TypeOK, Tasks
<1> QED BY <1>1, TaskKinds DEF Tasks, Flushing, Receiving, Stages, InboxStages

--------------------------------------------------------------------------------
(* Type correctness *)

LEMMA NextRowTyped ==
  ASSUME TypeOK, Held, NEW n \in Node, NEW t \in Caller[n], task[n][t].stage \in Stages,
         NextRow(n, t)
  PROVE  \E what \in Tasks :
           /\ Does(n, t, what)
           /\ what.stage \in Stages =>
                what.stage = "send" /\ what.rows # {} /\ what.rows \subseteq DOMAIN outbox[n]
           /\ what.stage \notin InboxStages
<1> DEFINE rest == task[n][t].rows \ {CurrentRow(n, t)}
           what == IF rest = {} THEN Idle ELSE [stage |-> "send", rows |-> rest]
<1>1. task[n][t].rows \in SUBSET Nat /\ task[n][t].rows \subseteq DOMAIN outbox[n]
  BY TaskKinds DEF TypeOK, Tasks, Held
<1>2. what \in Tasks
  BY <1>1 DEF Tasks, Flushing
<1>3. what.stage \in Stages =>
        what.stage = "send" /\ what.rows # {} /\ what.rows \subseteq DOMAIN outbox[n]
  BY <1>1 DEF Idle, Stages
<1>4. what.stage \notin InboxStages
  BY DEF Idle, InboxStages
<1>5. Does(n, t, what)
  BY DEF NextRow
<1> HIDE DEF what
<1> QED BY <1>2, <1>3, <1>4, <1>5

\* A step of one thread that goes on with a well-typed task it can hold.
LEMMA HeldStays ==
  ASSUME TypeOK, Held, NEW n \in Node, NEW t \in Caller[n], NEW what \in Tasks,
         Does(n, t, what),
         \A p \in Node : DOMAIN outbox[p] \subseteq DOMAIN outbox'[p],
         what.stage \in Stages => what.rows # {} /\ what.rows \subseteq DOMAIN outbox[n],
         what.stage \in InboxStages => what.page # {}
  PROVE  /\ Held'
         /\ DOMAIN task' = Node
         /\ \A p \in Node : task'[p] \in [Caller[p] -> {Idle} \cup Flushing \cup Receiving]
<1>1. Held'
  <2> SUFFICES ASSUME NEW p \in Node, NEW u \in Caller[p]
               PROVE  /\ task'[p][u].stage \in Stages =>
                           task'[p][u].rows # {} /\ task'[p][u].rows \subseteq DOMAIN outbox'[p]
                      /\ task'[p][u].stage \in InboxStages => task'[p][u].page # {}
    BY DEF Held
  <2>1. CASE p = n /\ u = t
    BY <2>1, DoesOnly
  <2>2. CASE ~(p = n /\ u = t)
    <3>1. task'[p][u] = task[p][u]
      BY <2>2, DoesOnly
    <3> QED BY <3>1 DEF Held
  <2> QED BY <2>1, <2>2
<1> QED BY <1>1, DoesTyped

LEMMA LiveTyped == TypeOK => Live \in SUBSET Delivery
BY DEF TypeOK, Live

LEMMA ClockTyped == ASSUME TypeOK, NEW n \in Node PROVE Clock(n) \in Int /\ offset[n] \in -MaxSkew..MaxSkew
BY TimesAssumption DEF TypeOK, Clock

LEMMA TickTyped == TypeOK /\ Held /\ Tick => TypeOK' /\ Held'
<1> SUFFICES ASSUME TypeOK, Held, Tick PROVE TypeOK' /\ Held'
  OBVIOUS
<1>1. rate' \in [Node -> 0..RateLimit]
  BY LimitsAssumption DEF Tick, TypeOK
<1>2. now' \in Nat
  BY DEF Tick, TypeOK
<1> QED BY <1>1, <1>2 DEF Tick, TypeOK, Held, inbox

LEMMA EnqueueTyped ==
  ASSUME TypeOK, Held, NEW m \in Message, Enqueue(m)
  PROVE  TypeOK' /\ Held' /\ \A n \in Node : DOMAIN outbox[n] \subseteq DOMAIN outbox'[n]
<1>1. From[m] \in Node
  BY RoutesAssumption
<1>2. created' \in [Message -> Int]
  BY <1>1, ClockTyped DEF Enqueue, TypeOK
<1>3. outbox' \in [Node -> Seq(OutboxRow)]
  BY <1>1 DEF Enqueue, TypeOK, OutboxRow
<1>4. \A n \in Node : DOMAIN outbox[n] \subseteq DOMAIN outbox'[n]
  BY <1>1 DEF Enqueue, TypeOK
<1>5. UNCHANGED <<now, offset, relay, task, inbox>>
  BY DEF Enqueue
<1> QED BY <1>2, <1>3, <1>4, <1>5 DEF TypeOK, Held, relay, inbox

LEMMA FlushStartTyped ==
  ASSUME TypeOK, Held, NEW n \in Node, NEW t \in Caller[n], FlushStart(n, t)
  PROVE  TypeOK' /\ Held'
<1> DEFINE what == [stage |-> "send", rows |-> PendingRows(n)]
<1>1. PendingRows(n) \in SUBSET Nat /\ PendingRows(n) \subseteq DOMAIN outbox[n] /\ PendingRows(n) # {}
  BY DEF FlushStart, PendingRows, TypeOK
<1>2. what \in Tasks /\ what.stage \notin InboxStages /\ what.rows = PendingRows(n)
  BY <1>1 DEF Tasks, Flushing, InboxStages
<1>3. Does(n, t, what) /\ UNCHANGED <<now, offset, created, outbox, relay, inbox>>
  BY DEF FlushStart
<1> HIDE DEF what
<1>4. Held' /\ DOMAIN task' = Node
      /\ \A p \in Node : task'[p] \in [Caller[p] -> {Idle} \cup Flushing \cup Receiving]
  BY <1>1, <1>2, <1>3, HeldStays
<1> QED BY <1>3, <1>4 DEF TypeOK, relay, inbox

LEMMA IdleHeld ==
  ASSUME TypeOK, Held, NEW n \in Node, NEW t \in Caller[n], Does(n, t, Idle),
         \A p \in Node : DOMAIN outbox[p] \subseteq DOMAIN outbox'[p]
  PROVE  /\ Held'
         /\ DOMAIN task' = Node
         /\ \A p \in Node : task'[p] \in [Caller[p] -> {Idle} \cup Flushing \cup Receiving]
<1>1. Idle \in Tasks /\ Idle.stage \notin Stages /\ Idle.stage \notin InboxStages
  BY DEF Tasks, Idle, Stages, InboxStages
<1> HIDE DEF Idle
<1> QED BY <1>1, HeldStays

LEMMA FlushSentTyped ==
  ASSUME TypeOK, Held, NEW n \in Node, NEW t \in Caller[n], FlushSent(n, t)
  PROVE  TypeOK' /\ Held' /\ \A p \in Node : DOMAIN outbox[p] = DOMAIN outbox'[p]
<1>1. task[n][t].stage \in Stages
  BY DEF FlushSent, Stages
<1>2. outbox' \in [Node -> Seq(OutboxRow)] /\ \A p \in Node : DOMAIN outbox[p] = DOMAIN outbox'[p]
  <2> DEFINE i == CurrentRow(n, t)
  <2>1. i \in DOMAIN outbox[n] /\ outbox[n][i] \in OutboxRow
    BY <1>1, RowIn DEF TypeOK
  <2>2. [outbox[n][i] EXCEPT !.status = "sent"] \in OutboxRow
    BY <2>1 DEF OutboxRow
  <2>3. [outbox[n] EXCEPT ![i].status = "sent"] \in Seq(OutboxRow)
    BY <2>1, <2>2 DEF TypeOK
  <2> QED BY <2>3 DEF FlushSent, TypeOK
<1>3. PICK what \in Tasks :
           /\ Does(n, t, what)
           /\ what.stage \in Stages =>
                what.stage = "send" /\ what.rows # {} /\ what.rows \subseteq DOMAIN outbox[n]
           /\ what.stage \notin InboxStages
  BY <1>1, NextRowTyped DEF FlushSent
<1>4. Held' /\ DOMAIN task' = Node
      /\ \A p \in Node : task'[p] \in [Caller[p] -> {Idle} \cup Flushing \cup Receiving]
  BY <1>2, <1>3, HeldStays
<1> QED BY <1>2, <1>4 DEF FlushSent, TypeOK, relay, inbox

LEMMA FlushLostTyped ==
  ASSUME TypeOK, Held, NEW n \in Node, NEW t \in Caller[n], FlushLost(n, t)
  PROVE  TypeOK' /\ Held'
<1>1. Held' /\ DOMAIN task' = Node
      /\ \A p \in Node : task'[p] \in [Caller[p] -> {Idle} \cup Flushing \cup Receiving]
  BY IdleHeld DEF FlushLost, SendFails
<1> QED BY <1>1 DEF FlushLost, TypeOK, relay, inbox

LEMMA RelayAllowTyped ==
  ASSUME TypeOK, Held, NEW n \in Node, NEW t \in Caller[n], RelayAllow(n, t)
  PROVE  TypeOK' /\ Held'
<1>0. task[n][t].stage \in Stages
  BY DEF RelayAllow, Stages
<1>1. CASE MaySend(n)
  <2> DEFINE what == [task[n][t] EXCEPT !.stage = "allowed"]
  <2>1. what \in Tasks /\ what.stage = "allowed" /\ what.rows = task[n][t].rows
    <3>1. "allowed" \in Stages
      BY DEF Stages
    <3> QED BY <1>0, <3>1, GoesOn
  <2>2. Does(n, t, what) /\ UNCHANGED outbox
    BY <1>1 DEF RelayAllow
  <2> HIDE DEF what
  <2>3. Held' /\ DOMAIN task' = Node
        /\ \A p \in Node : task'[p] \in [Caller[p] -> {Idle} \cup Flushing \cup Receiving]
    <3>1. what.rows # {} /\ what.rows \subseteq DOMAIN outbox[n] /\ what.stage \notin InboxStages
      BY <1>0, <2>1 DEF Held, InboxStages
    <3> QED BY <2>1, <2>2, <3>1, HeldStays
  <2>4. rate' \in [Node -> 0..RateLimit]
    <3>1. rate[n] + 1 \in 0..RateLimit
      BY <1>1, LimitsAssumption DEF MaySend, TypeOK
    <3>2. rate' = [rate EXCEPT ![n] = rate[n] + 1]
      BY <1>1 DEF RelayAllow
    <3> QED BY <3>1, <3>2 DEF TypeOK
  <2> QED BY <2>3, <2>4 DEF RelayAllow, TypeOK, inbox
<1>2. CASE ~MaySend(n)
  <2>1. Held' /\ DOMAIN task' = Node
        /\ \A p \in Node : task'[p] \in [Caller[p] -> {Idle} \cup Flushing \cup Receiving]
    BY <1>2, IdleHeld DEF RelayAllow, SendFails
  <2> QED BY <1>2, <2>1 DEF RelayAllow, TypeOK, inbox
<1> QED BY <1>1, <1>2

LEMMA RelayPutTyped ==
  ASSUME TypeOK, Held, NEW n \in Node, NEW t \in Caller[n], RelayPut(n, t)
  PROVE  TypeOK' /\ Held'
<1>0. task[n][t].stage \in Stages
  BY DEF RelayPut, Stages
<1>1. CASE HasRoom(Sending(n, t))
  <2> DEFINE what == [task[n][t] EXCEPT !.stage = "stored"]
  <2>1. what \in Tasks /\ what.stage = "stored" /\ what.rows = task[n][t].rows
    <3>1. "stored" \in Stages
      BY DEF Stages
    <3> QED BY <1>0, <3>1, GoesOn
  <2>2. Does(n, t, what) /\ UNCHANGED outbox
    BY <1>1 DEF RelayPut
  <2> HIDE DEF what
  <2>3. Held' /\ DOMAIN task' = Node
        /\ \A p \in Node : task'[p] \in [Caller[p] -> {Idle} \cup Flushing \cup Receiving]
    <3>1. what.rows # {} /\ what.rows \subseteq DOMAIN outbox[n] /\ what.stage \notin InboxStages
      BY <1>0, <2>1 DEF Held, InboxStages
    <3> QED BY <2>1, <2>2, <3>1, HeldStays
  <2>4. mailbox' \in SUBSET Delivery /\ stored' \in Nat
    <3>1. [id |-> stored + 1, msg |-> Sending(n, t), at |-> now] \in Delivery
      BY <1>0, RowIn DEF Delivery, TypeOK
    <3> QED BY <1>1, <3>1, LiveTyped DEF RelayPut, TypeOK
  <2> QED BY <2>3, <2>4 DEF RelayPut, TypeOK, inbox
<1>2. CASE ~HasRoom(Sending(n, t))
  <2>1. Held' /\ DOMAIN task' = Node
        /\ \A p \in Node : task'[p] \in [Caller[p] -> {Idle} \cup Flushing \cup Receiving]
    BY <1>2, IdleHeld DEF RelayPut, SendFails
  <2> QED BY <1>2, <2>1 DEF RelayPut, TypeOK, inbox
<1> QED BY <1>1, <1>2

LEMMA RelayStatsTyped == TypeOK /\ Held /\ RelayStats => TypeOK' /\ Held'
BY LiveTyped DEF RelayStats, TypeOK, Held, inbox

LEMMA InboxFetchTyped ==
  ASSUME TypeOK, Held, NEW n \in Node, NEW t \in Caller[n], InboxFetch(n, t)
  PROVE  TypeOK' /\ Held'
<1> DEFINE what == [stage |-> "handle", page |-> Page(n)]
<1>1. Page(n) \in SUBSET Delivery /\ Page(n) # {}
  BY LiveTyped DEF InboxFetch, Page, MailboxOf
<1>2. what \in Tasks /\ what.stage = "handle" /\ what.page # {}
  BY <1>1 DEF Tasks, Receiving
<1>3. Does(n, t, what) /\ UNCHANGED outbox
  BY DEF InboxFetch
<1> HIDE DEF what
<1>4. Held' /\ DOMAIN task' = Node
      /\ \A p \in Node : task'[p] \in [Caller[p] -> {Idle} \cup Flushing \cup Receiving]
  BY <1>2, <1>3, HeldStays DEF Stages
<1> QED BY <1>4, LiveTyped DEF InboxFetch, TypeOK, inbox

LEMMA InboxStepTyped ==
  ASSUME TypeOK, Held, NEW n \in Node, NEW t \in Caller[n], InboxStep(n, t)
  PROVE  TypeOK' /\ Held'
<1> DEFINE m == CurrentDelivery(n, t).msg
           what == [task[n][t] EXCEPT !.stage = "ack"]
<1>0. task[n][t].stage \in InboxStages
  BY DEF InboxStep, InboxStages
<1>1. m \in Message
  BY <1>0, DeliveryIn
<1>2. what \in Tasks /\ what.stage = "ack" /\ what.page # {}
  <2>1. what \in Tasks /\ what.stage = "ack" /\ what.page = task[n][t].page
    BY <1>0, GoesOn DEF InboxStages
  <2> HIDE DEF what
  <2> QED BY <1>0, <2>1 DEF Held
<1>3. Does(n, t, what) /\ UNCHANGED outbox
  BY DEF InboxStep
<1> HIDE DEF what
<1>4. Held' /\ DOMAIN task' = Node
      /\ \A p \in Node : task'[p] \in [Caller[p] -> {Idle} \cup Flushing \cup Receiving]
  BY <1>2, <1>3, HeldStays DEF Stages
<1>5. seen' \in [Node -> SUBSET SeenRow] /\ handled' \in [Message -> Nat] /\ refused' \in SUBSET Message
  <2>0. Remembered(n) \in SUBSET SeenRow
    BY DEF TypeOK, Remembered
  <2>1. CASE InboxStale(n, m)
    BY <2>1 DEF InboxStale, inbox, TypeOK
  <2>2. CASE InboxDuplicate(n, m)
    BY <2>0, <2>2 DEF InboxDuplicate, TypeOK
  <2>3. CASE InboxRefuse(n, m)
    BY <1>1, <2>3 DEF InboxRefuse, TypeOK
  <2>4. CASE InboxHandle(n, m)
    <3>1. [msg |-> m, expires |-> Clock(n) + SeenTTL] \in SeenRow
      BY <1>1, ClockTyped, TimesAssumption DEF SeenRow
    <3> QED BY <1>1, <2>0, <2>4, <3>1 DEF InboxHandle, TypeOK
  <2> QED BY <2>1, <2>2, <2>3, <2>4 DEF InboxStep
<1> QED BY <1>4, <1>5 DEF InboxStep, TypeOK, relay

LEMMA InboxAckTyped ==
  ASSUME TypeOK, Held, NEW n \in Node, NEW t \in Caller[n], InboxAck(n, t)
  PROVE  TypeOK' /\ Held'
<1> DEFINE d    == CurrentDelivery(n, t)
           rest == task[n][t].page \ {d}
           what == IF rest = {} \/ d \notin mailbox THEN Idle
                   ELSE [stage |-> "handle", page |-> rest]
<1>0. task[n][t].stage \in InboxStages
  BY DEF InboxAck, InboxStages
<1>1. task[n][t].page \in SUBSET Delivery
  BY <1>0, TaskKinds DEF TypeOK, Tasks
<1>2. what \in Tasks /\ what.stage \notin Stages /\ (what.stage \in InboxStages => what.page # {})
  BY <1>1 DEF Tasks, Receiving, Idle, Stages, InboxStages
<1>3. Does(n, t, what) /\ UNCHANGED outbox
  BY DEF InboxAck
<1> HIDE DEF what
<1>4. Held' /\ DOMAIN task' = Node
      /\ \A p \in Node : task'[p] \in [Caller[p] -> {Idle} \cup Flushing \cup Receiving]
  BY <1>2, <1>3, HeldStays
<1> QED BY <1>4 DEF InboxAck, TypeOK, inbox

LEMMA InboxAckLostTyped ==
  ASSUME TypeOK, Held, NEW n \in Node, NEW t \in Caller[n], InboxAckLost(n, t)
  PROVE  TypeOK' /\ Held'
<1>1. Held' /\ DOMAIN task' = Node
      /\ \A p \in Node : task'[p] \in [Caller[p] -> {Idle} \cup Flushing \cup Receiving]
  BY IdleHeld DEF InboxAckLost
<1> QED BY <1>1 DEF InboxAckLost, TypeOK, relay, inbox

LEMMA CrashTyped ==
  ASSUME TypeOK, Held, NEW n \in Node, Crash(n)
  PROVE  TypeOK' /\ Held'
<1>1. /\ task'[n] = [t \in Caller[n] |-> Idle]
      /\ DOMAIN task' = Node /\ \A p \in Node \ {n} : task'[p] = task[p]
  BY DEF Crash, TypeOK
<1>2. Held'
  BY <1>1 DEF Crash, Held, Idle, Stages, InboxStages
<1>3. ASSUME NEW p \in Node
      PROVE  task'[p] \in [Caller[p] -> {Idle} \cup Flushing \cup Receiving]
  <2>1. CASE p = n
    BY <1>1, <2>1
  <2>2. CASE p # n
    BY <1>1, <2>2 DEF TypeOK
  <2> QED BY <2>1, <2>2
<1> QED BY <1>1, <1>2, <1>3 DEF Crash, TypeOK, relay, inbox

LEMMA TypeStep == TypeOK /\ Held /\ [Next]_vars => TypeOK' /\ Held'
<1> SUFFICES ASSUME TypeOK, Held, [Next]_vars PROVE TypeOK' /\ Held'
  OBVIOUS
<1>1. CASE UNCHANGED vars
  BY <1>1 DEF vars, relay, inbox, TypeOK, Held
<1>2. ASSUME NEW m \in Message, Enqueue(m) PROVE TypeOK' /\ Held'
  BY <1>2, EnqueueTyped
<1>3. ASSUME NEW n \in Node, NEW t \in Caller[n],
             \/ FlushStart(n, t) \/ RelayAllow(n, t) \/ RelayPut(n, t)
             \/ FlushSent(n, t) \/ FlushLost(n, t)
      PROVE  TypeOK' /\ Held'
  BY <1>3, FlushStartTyped, RelayAllowTyped, RelayPutTyped, FlushSentTyped, FlushLostTyped
<1>4. ASSUME NEW n \in Node, NEW t \in Caller[n],
             InboxFetch(n, t) \/ InboxStep(n, t) \/ InboxAck(n, t) \/ InboxAckLost(n, t)
      PROVE  TypeOK' /\ Held'
  BY <1>4, InboxFetchTyped, InboxStepTyped, InboxAckTyped, InboxAckLostTyped
<1>5. ASSUME NEW n \in Node, Crash(n) PROVE TypeOK' /\ Held'
  BY <1>5, CrashTyped
<1> QED BY <1>1, <1>2, <1>3, <1>4, <1>5, TickTyped, RelayStatsTyped DEF Next

LEMMA TypeInit == Init => TypeOK /\ Held
BY RoutesAssumption, TimesAssumption, LimitsAssumption
   DEF Init, TypeOK, Held, Idle, Stages, InboxStages

\* The tables of the nodes and of the Relay keep their types, and a thread never
\* runs out of the rows or deliveries it works on.
THEOREM TypeCorrect == Spec => []TypeOK
BY TypeInit, TypeStep, PTL DEF Spec

--------------------------------------------------------------------------------
(* What only grows *)

OwnRows == \A n \in Node : \A i \in DOMAIN outbox[n] : From[outbox[n][i].msg] = n

LEMMA FlushFrame ==
  ASSUME NEW n \in Node, NEW t \in Caller[n],
         FlushStart(n, t) \/ RelayAllow(n, t) \/ RelayPut(n, t) \/ FlushLost(n, t)
  PROVE  UNCHANGED <<now, offset, created, outbox, inbox>>
<1>1. CASE FlushStart(n, t) BY <1>1 DEF FlushStart
<1>2. CASE RelayAllow(n, t) BY <1>2 DEF RelayAllow
<1>3. CASE RelayPut(n, t) BY <1>3 DEF RelayPut
<1>4. CASE FlushLost(n, t) BY <1>4 DEF FlushLost
<1> QED BY <1>1, <1>2, <1>3, <1>4

LEMMA InboxFrame ==
  ASSUME NEW n \in Node, NEW t \in Caller[n],
         InboxFetch(n, t) \/ InboxStep(n, t) \/ InboxAck(n, t) \/ InboxAckLost(n, t)
  PROVE  /\ UNCHANGED <<now, offset, created, outbox>>
         /\ InboxStep(n, t) \/ UNCHANGED inbox
<1>1. CASE InboxFetch(n, t) BY <1>1 DEF InboxFetch
<1>2. CASE InboxStep(n, t) BY <1>2 DEF InboxStep
<1>3. CASE InboxAck(n, t) BY <1>3 DEF InboxAck
<1>4. CASE InboxAckLost(n, t) BY <1>4 DEF InboxAckLost
<1> QED BY <1>1, <1>2, <1>3, <1>4

\* Which steps change more than the tasks and the Relay.
LEMMA Frame ==
  ASSUME [Next]_vars
  PROVE  \/ UNCHANGED <<now, offset, created, outbox, inbox>>
         \/ Tick
         \/ \E m \in Message : Enqueue(m)
         \/ \E n \in Node : \E t \in Caller[n] : FlushSent(n, t)
         \/ /\ \E n \in Node : \E t \in Caller[n] : InboxStep(n, t)
            /\ UNCHANGED <<now, offset, created, outbox>>
<1> DEFINE Calm == UNCHANGED <<now, offset, created, outbox, inbox>>
<1>1. ASSUME NEW n \in Node, Crash(n) PROVE Calm
  BY <1>1 DEF Crash
<1>2. RelayStats => Calm
  BY DEF RelayStats
<1>3. UNCHANGED vars => Calm
  BY DEF vars
<1> HIDE DEF Calm
<1>4. Calm \/ Tick \/ (\E m \in Message : Enqueue(m))
        \/ (\E n \in Node : \E t \in Caller[n] :
              \/ FlushStart(n, t) \/ RelayAllow(n, t) \/ RelayPut(n, t)
              \/ FlushSent(n, t) \/ FlushLost(n, t)
              \/ InboxFetch(n, t) \/ InboxStep(n, t) \/ InboxAck(n, t) \/ InboxAckLost(n, t))
  BY <1>1, <1>2, <1>3 DEF Next
<1>5. ASSUME NEW n \in Node, NEW t \in Caller[n],
             FlushStart(n, t) \/ RelayAllow(n, t) \/ RelayPut(n, t) \/ FlushLost(n, t)
      PROVE  Calm
  BY <1>5, FlushFrame DEF Calm
<1>6. ASSUME NEW n \in Node, NEW t \in Caller[n],
             InboxFetch(n, t) \/ InboxStep(n, t) \/ InboxAck(n, t) \/ InboxAckLost(n, t)
      PROVE  Calm \/ (InboxStep(n, t) /\ UNCHANGED <<now, offset, created, outbox>>)
  BY <1>6, InboxFrame DEF Calm
<1> QED BY <1>4, <1>5, <1>6 DEF Calm

LEMMA OutboxStep ==
  ASSUME [Next]_vars
  PROVE  \/ outbox' = outbox /\ created' = created
         \/ \E m \in Message : Enqueue(m)
         \/ \E n \in Node : \E t \in Caller[n] : FlushSent(n, t)
BY Frame DEF Tick

\* No row of an outbox changes its envelope, and a queued envelope keeps its time.
LEMMA RowsStay ==
  ASSUME TypeOK, Held, [Next]_vars
  PROVE  \A n \in Node : \A i \in DOMAIN outbox[n] :
           i \in DOMAIN outbox'[n] /\ outbox'[n][i].msg = outbox[n][i].msg
<1>1. CASE outbox' = outbox
  BY <1>1
<1>2. ASSUME NEW m \in Message, Enqueue(m)
      PROVE  \A n \in Node : \A i \in DOMAIN outbox[n] :
               i \in DOMAIN outbox'[n] /\ outbox'[n][i].msg = outbox[n][i].msg
  <2> SUFFICES ASSUME NEW n \in Node, NEW i \in DOMAIN outbox[n]
               PROVE  i \in DOMAIN outbox'[n] /\ outbox'[n][i] = outbox[n][i]
    OBVIOUS
  <2>1. outbox[n] \in Seq(OutboxRow)
    BY DEF TypeOK
  <2> DEFINE row == [msg |-> m, status |-> "pending"]
  <2>2. outbox'[n] = outbox[n] \/ outbox'[n] = Append(outbox[n], row)
    BY <1>2, RoutesAssumption DEF Enqueue, TypeOK
  <2> HIDE DEF row
  <2> QED BY <2>1, <2>2
<1>3. ASSUME NEW n \in Node, NEW t \in Caller[n], FlushSent(n, t)
      PROVE  \A p \in Node : \A i \in DOMAIN outbox[p] :
               i \in DOMAIN outbox'[p] /\ outbox'[p][i].msg = outbox[p][i].msg
  <2> DEFINE c == CurrentRow(n, t)
  <2>1. c \in DOMAIN outbox[n] /\ outbox[n][c] \in OutboxRow
    BY <1>3, RowIn DEF FlushSent, Stages, TypeOK
  <2>2. [outbox[n][c] EXCEPT !.status = "sent"].msg = outbox[n][c].msg
    BY <2>1 DEF OutboxRow
  <2> QED BY <1>3, <2>1, <2>2 DEF FlushSent, TypeOK
<1> QED BY <1>1, <1>2, <1>3, OutboxStep

LEMMA QueuedStays ==
  ASSUME TypeOK, Held, [Next]_vars, NEW m \in Message, Queued(m)
  PROVE  Queued(m)' /\ created'[m] = created[m]
<1>1. From[m] \in Node
  BY RoutesAssumption
<1>2. Queued(m)'
  BY <1>1, RowsStay DEF Queued
<1>3. created'[m] = created[m]
  BY OutboxStep DEF Enqueue, FlushSent, TypeOK
<1> QED BY <1>2, <1>3

LEMMA OwnRowsStay ==
  ASSUME TypeOK, Held, OwnRows, [Next]_vars
  PROVE  OwnRows'
<1>1. CASE outbox' = outbox
  BY <1>1 DEF OwnRows
<1>2. ASSUME NEW m \in Message, Enqueue(m) PROVE OwnRows'
  <2> DEFINE n == From[m]
             row == [msg |-> m, status |-> "pending"]
  <2>1. n \in Node /\ outbox[n] \in Seq(OutboxRow)
    BY RoutesAssumption DEF TypeOK
  <2>2. outbox' = [outbox EXCEPT ![n] = Append(outbox[n], row)]
    BY <1>2 DEF Enqueue
  <2>3. \A i \in DOMAIN outbox'[n] : From[outbox'[n][i].msg] = n
    <3>1. outbox'[n] = Append(outbox[n], row)
      BY <2>1, <2>2 DEF TypeOK
    <3>2. \A i \in DOMAIN Append(outbox[n], row) :
            \/ i \in DOMAIN outbox[n] /\ Append(outbox[n], row)[i] = outbox[n][i]
            \/ Append(outbox[n], row)[i] = row
      BY <2>1
    <3> QED BY <2>1, <3>1, <3>2 DEF OwnRows
  <2>4. \A p \in Node \ {n} : outbox'[p] = outbox[p]
    BY <2>2 DEF TypeOK
  <2> QED BY <2>3, <2>4 DEF OwnRows
<1>3. ASSUME NEW n \in Node, NEW t \in Caller[n], FlushSent(n, t) PROVE OwnRows'
  <2>1. \A p \in Node : DOMAIN outbox'[p] = DOMAIN outbox[p]
    BY <1>3, FlushSentTyped
  <2> QED BY <2>1, RowsStay DEF OwnRows
<1> QED BY <1>1, <1>2, <1>3, OutboxStep

LEMMA ClockGrows ==
  ASSUME TypeOK, Held, [Next]_vars
  PROVE  /\ offset' = offset /\ now' >= now /\ now' \in Nat
         /\ \A n \in Node : Clock(n)' \in Int /\ Clock(n)' >= Clock(n)
<1>1. offset' = offset /\ now' >= now
  <2>0. now \in Nat
    BY DEF TypeOK
  <2>1. Tick => offset' = offset /\ now' = now + 1
    BY DEF Tick
  <2>2. ASSUME NEW m \in Message, Enqueue(m) PROVE UNCHANGED <<now, offset>>
    BY <2>2 DEF Enqueue
  <2>3. ASSUME NEW n \in Node, NEW t \in Caller[n], FlushSent(n, t) PROVE UNCHANGED <<now, offset>>
    BY <2>3 DEF FlushSent
  <2> QED BY <2>0, <2>1, <2>2, <2>3, Frame
<1>2. now' \in Nat
  BY TypeStep DEF TypeOK
<1>3. \A n \in Node : offset[n] \in Int
  BY TimesAssumption DEF TypeOK
<1> QED BY <1>1, <1>2, <1>3 DEF Clock, TypeOK

LEMMA StaleStays ==
  ASSUME TypeOK, Held, [Next]_vars, NEW m \in Message, Queued(m), Stale(m)
  PROVE  Stale(m)'
<1>1. To[m] \in Node /\ created[m] \in Int /\ created'[m] = created[m]
  BY RoutesAssumption, QueuedStays DEF TypeOK
<1> QED BY <1>1, ClockGrows, ClockTyped, TimesAssumption DEF Stale

\* The replay table and the history change in one action only.
LEMMA InboxOnly ==
  ASSUME [Next]_vars
  PROVE  \/ UNCHANGED inbox
         \/ \E n \in Node : \E t \in Caller[n] : InboxStep(n, t)
BY Frame DEF Tick, Enqueue, FlushSent

LEMMA SettledStays ==
  ASSUME TypeOK, Held, [Next]_vars, NEW m \in Message, Settled(m)
  PROVE  Settled(m)'
<1>1. CASE UNCHANGED inbox
  BY <1>1 DEF inbox, Settled
<1>2. ASSUME NEW n \in Node, NEW t \in Caller[n], InboxStep(n, t) PROVE Settled(m)'
  <2> DEFINE c == CurrentDelivery(n, t).msg
  <2>0. handled[m] \in Nat
    BY DEF TypeOK
  <2>1. CASE InboxStale(n, c) BY <2>1 DEF InboxStale, inbox, Settled
  <2>2. CASE InboxDuplicate(n, c) BY <2>2 DEF InboxDuplicate, Settled
  <2>3. CASE InboxRefuse(n, c) BY <2>3 DEF InboxRefuse, Settled
  <2>4. CASE InboxHandle(n, c)
    <3>1. handled'[m] >= handled[m] /\ refused' = refused
      BY <2>0, <2>4 DEF InboxHandle, TypeOK
    <3>2. handled'[m] \in Nat
      BY <2>4, <2>0 DEF InboxHandle, TypeOK
    <3> QED BY <2>0, <3>1, <3>2 DEF Settled
  <2> QED BY <1>2, <2>1, <2>2, <2>3, <2>4 DEF InboxStep
<1> QED BY <1>1, <1>2, InboxOnly

--------------------------------------------------------------------------------
(* What is carried: deliveries and pages *)

Carried ==
  /\ \A d \in mailbox : Queued(d.msg)
  /\ \A n \in Node : \A t \in Caller[n] :
       task[n][t].stage \in InboxStages =>
         \A d \in task[n][t].page : To[d.msg] = n /\ Queued(d.msg)

LEMMA MailboxStep ==
  ASSUME TypeOK, Held, OwnRows, [Next]_vars
  PROVE  \/ mailbox' \subseteq mailbox /\ stored' = stored
         \/ \E n \in Node : \E t \in Caller[n] : RelayPut(n, t)
<1> DEFINE Less == mailbox' \subseteq mailbox /\ stored' = stored
<1>1. Tick \/ RelayStats \/ UNCHANGED vars => Less
  BY DEF Tick, RelayStats, Live, vars, relay
<1>2. ASSUME NEW m \in Message, Enqueue(m) PROVE Less
  BY <1>2 DEF Enqueue, relay
<1>3. ASSUME NEW n \in Node, Crash(n) PROVE Less
  BY <1>3 DEF Crash, relay
<1>4. ASSUME NEW n \in Node, NEW t \in Caller[n],
             FlushStart(n, t) \/ RelayAllow(n, t) \/ FlushSent(n, t) \/ FlushLost(n, t)
      PROVE  Less
  BY <1>4 DEF FlushStart, RelayAllow, FlushSent, FlushLost, relay
<1>5. ASSUME NEW n \in Node, NEW t \in Caller[n],
             InboxFetch(n, t) \/ InboxStep(n, t) \/ InboxAck(n, t) \/ InboxAckLost(n, t)
      PROVE  Less
  BY <1>5 DEF InboxFetch, InboxStep, InboxAck, InboxAckLost, Live, relay
<1> HIDE DEF Less
<1>6. Less \/ \E n \in Node : \E t \in Caller[n] : RelayPut(n, t)
  BY <1>1, <1>2, <1>3, <1>4, <1>5 DEF Next
<1> QED BY <1>6 DEF Less

\* A page comes from a fetch and only loses deliveries.
LEMMA PageStep ==
  ASSUME TypeOK, Held, [Next]_vars, NEW p \in Node, NEW u \in Caller[p],
         task'[p][u].stage \in InboxStages
  PROVE  \/ InboxFetch(p, u) /\ task'[p][u].page = Page(p)
         \/ /\ task[p][u].stage \in InboxStages
            /\ \/ task'[p][u].page = task[p][u].page
               \/ /\ task[p][u].stage = "ack"
                  /\ task'[p][u].page = task[p][u].page \ {CurrentDelivery(p, u)}
<1> DEFINE Goal == \/ InboxFetch(p, u) /\ task'[p][u].page = Page(p)
                   \/ /\ task[p][u].stage \in InboxStages
                      /\ \/ task'[p][u].page = task[p][u].page
                         \/ /\ task[p][u].stage = "ack"
                            /\ task'[p][u].page = task[p][u].page \ {CurrentDelivery(p, u)}
<1>0. CASE task'[p][u] = task[p][u]
  BY <1>0
<1>i. Idle.stage \notin InboxStages
  BY DEF Idle, InboxStages
<1>1. CASE UNCHANGED task
  BY <1>0, <1>1
<1>2. ASSUME NEW n \in Node, Crash(n) PROVE Goal
  <2>1. p # n
    BY <1>2, <1>i DEF Crash, TypeOK
  <2> QED BY <1>0, <1>2, <2>1 DEF Crash, TypeOK
<1>3. ASSUME NEW n \in Node, NEW t \in Caller[n], NEW what, Does(n, t, what),
             what.stage \notin InboxStages
      PROVE  Goal
  BY <1>0, <1>3, DoesOnly
<1>4. ASSUME NEW n \in Node, NEW t \in Caller[n],
             FlushStart(n, t) \/ RelayAllow(n, t) \/ RelayPut(n, t) \/ FlushSent(n, t) \/ FlushLost(n, t)
      PROVE  Goal
  <2>1. \E what : Does(n, t, what) /\ what.stage \notin InboxStages
    <3>1. CASE FlushStart(n, t)
      BY <3>1 DEF FlushStart, InboxStages
    <3>2. CASE RelayAllow(n, t)
      <4>1. [task[n][t] EXCEPT !.stage = "allowed"].stage = "allowed"
        BY <3>2, GoesOn DEF RelayAllow, Stages
      <4> QED BY <1>i, <3>2, <4>1 DEF RelayAllow, SendFails, InboxStages
    <3>3. CASE RelayPut(n, t)
      <4>1. [task[n][t] EXCEPT !.stage = "stored"].stage = "stored"
        BY <3>3, GoesOn DEF RelayPut, Stages
      <4> QED BY <1>i, <3>3, <4>1 DEF RelayPut, SendFails, InboxStages
    <3>4. CASE FlushSent(n, t)
      BY <3>4, NextRowTyped DEF FlushSent, Stages
    <3>5. CASE FlushLost(n, t)
      BY <1>i, <3>5 DEF FlushLost, SendFails
    <3> QED BY <1>4, <3>1, <3>2, <3>3, <3>4, <3>5
  <2> QED BY <1>3, <2>1
<1>5. ASSUME NEW n \in Node, NEW t \in Caller[n], InboxFetch(n, t) PROVE Goal
  <2>1. Does(n, t, [stage |-> "handle", page |-> Page(n)])
    BY <1>5 DEF InboxFetch
  <2> QED BY <1>0, <1>5, <2>1, DoesOnly
<1>6. ASSUME NEW n \in Node, NEW t \in Caller[n], InboxStep(n, t) PROVE Goal
  <2>0. task[n][t].stage \in InboxStages
    BY <1>6 DEF InboxStep, InboxStages
  <2>1. Does(n, t, [task[n][t] EXCEPT !.stage = "ack"])
    BY <1>6 DEF InboxStep
  <2>2. [task[n][t] EXCEPT !.stage = "ack"].page = task[n][t].page
    BY <2>0, GoesOn DEF InboxStages
  <2>3. CASE p = n /\ u = t
    <3>1. task'[n][t] = [task[n][t] EXCEPT !.stage = "ack"]
      BY <2>1, DoesOnly
    <3> QED BY <2>0, <2>2, <2>3, <3>1
  <2>4. CASE ~(p = n /\ u = t)
    BY <1>0, <2>1, <2>4, DoesOnly
  <2> QED BY <2>3, <2>4
<1>7. ASSUME NEW n \in Node, NEW t \in Caller[n], InboxAck(n, t) PROVE Goal
  <2> DEFINE rest == task[n][t].page \ {CurrentDelivery(n, t)}
  <2>0. task[n][t].stage \in InboxStages /\ task[n][t].stage = "ack"
    BY <1>7 DEF InboxAck, InboxStages
  <2>1. Does(n, t, Idle) \/ Does(n, t, [stage |-> "handle", page |-> rest])
    BY <1>7 DEF InboxAck
  <2> QED BY <1>0, <1>3, <1>i, <2>0, <2>1, DoesOnly
<1>8. ASSUME NEW n \in Node, NEW t \in Caller[n], InboxAckLost(n, t) PROVE Goal
  BY <1>3, <1>8, <1>i DEF InboxAckLost
<1>9. CASE Tick \/ RelayStats \/ UNCHANGED vars \/ \E m \in Message : Enqueue(m)
  BY <1>1, <1>9 DEF Tick, RelayStats, vars, Enqueue
<1> QED BY <1>2, <1>4, <1>5, <1>6, <1>7, <1>8, <1>9 DEF Next

LEMMA SendingQueued ==
  ASSUME TypeOK, Held, OwnRows, NEW n \in Node, NEW t \in Caller[n], task[n][t].stage \in Stages
  PROVE  Queued(Sending(n, t)) /\ From[Sending(n, t)] = n
BY RowIn DEF OwnRows, Sending, Queued

LEMMA CarriedStays ==
  ASSUME TypeOK, Held, OwnRows, Carried, [Next]_vars
  PROVE  Carried'
<1>1. ASSUME NEW d \in mailbox' PROVE Queued(d.msg)'
  <2>0. \A e \in mailbox : Queued(e.msg)'
    BY QueuedStays DEF Carried, TypeOK, Delivery
  <2>1. CASE mailbox' \subseteq mailbox
    BY <2>0, <2>1
  <2>2. ASSUME NEW n \in Node, NEW t \in Caller[n], RelayPut(n, t) PROVE Queued(d.msg)'
    <3>1. task[n][t].stage \in Stages
      BY <2>2 DEF RelayPut, Stages
    <3>2. \A m \in Message : Queued(m) => Queued(m)'
      BY QueuedStays
    <3>3. d \in mailbox \/ d.msg = Sending(n, t)
      BY <2>2 DEF RelayPut, Live
    <3>4. Queued(Sending(n, t)) /\ Sending(n, t) \in Message
      BY <3>1, SendingQueued, RowIn
    <3> QED BY <2>0, <3>2, <3>3, <3>4
  <2> QED BY <2>1, <2>2, MailboxStep
<1>2. ASSUME NEW p \in Node, NEW u \in Caller[p], task'[p][u].stage \in InboxStages,
             NEW d \in task'[p][u].page
      PROVE  To[d.msg] = p /\ Queued(d.msg)'
  <2>1. CASE InboxFetch(p, u) /\ task'[p][u].page = Page(p)
    <3>1. d \in mailbox /\ To[d.msg] = p
      BY <2>1 DEF Page, MailboxOf, Live
    <3> QED BY <3>1, QueuedStays DEF Carried, TypeOK, Delivery
  <2>2. CASE d \in task[p][u].page /\ task[p][u].stage \in InboxStages
    <3>1. d \in Delivery
      BY <2>2, TaskKinds DEF TypeOK, Tasks
    <3> QED BY <2>2, <3>1, QueuedStays DEF Carried, Delivery
  <2> QED BY <1>2, <2>1, <2>2, PageStep
<1> QED BY <1>1, <1>2 DEF Carried

--------------------------------------------------------------------------------
(* Handled at most once *)

\* A row of the replay table that covers the time window of m.
Covers(r, m) == r.msg = m /\ r.expires >= created[m] + Window

\* What was handled is remembered until it is too old to be handled again.
Remembers ==
  \A m \in Message :
    /\ handled[m] \in {0, 1}
    /\ handled[m] = 1 => Queued(m) /\ (Stale(m) \/ \E r \in seen[To[m]] : Covers(r, m))

LEMMA Forgotten ==
  ASSUME TypeOK, NEW m \in Message, NEW r \in seen[To[m]], Covers(r, m), r \notin Remembered(To[m])
  PROVE  Stale(m)
<1>1. To[m] \in Node /\ created[m] \in Int /\ Clock(To[m]) \in Int /\ r.expires \in Int
  <2>1. To[m] \in Node
    BY RoutesAssumption
  <2>2. seen[To[m]] \in SUBSET SeenRow /\ created[m] \in Int
    BY <2>1 DEF TypeOK
  <2> QED BY <2>1, <2>2, ClockTyped DEF SeenRow
<1>2. ~(r.expires >= Clock(To[m]))
  BY DEF Remembered
<1> QED BY <1>1, <1>2, TimesAssumption DEF Covers, Stale

LEMMA RemembersStays ==
  ASSUME TypeOK, Held, OwnRows, Carried, Remembers, [Next]_vars
  PROVE  Remembers'
<1> SUFFICES ASSUME NEW m \in Message
             PROVE  /\ handled'[m] \in {0, 1}
                    /\ handled'[m] = 1 =>
                         Queued(m)' /\ (Stale(m)' \/ \E r \in seen'[To[m]] : Covers(r, m)')
  BY DEF Remembers
<1>t. To[m] \in Node /\ created[m] \in Int /\ Clock(To[m]) \in Int
  BY RoutesAssumption, ClockTyped DEF TypeOK
<1>m. /\ Queued(m) => Queued(m)' /\ \A r : Covers(r, m) => Covers(r, m)'
      /\ Queued(m) /\ Stale(m) => Stale(m)'
  BY QueuedStays, StaleStays DEF Covers
<1>1. CASE UNCHANGED inbox
  <2>1. handled' = handled /\ seen' = seen
    BY <1>1 DEF inbox
  <2> QED BY <1>m, <2>1 DEF Remembers
<1>2. ASSUME NEW n \in Node, NEW t \in Caller[n], InboxStep(n, t)
      PROVE  /\ handled'[m] \in {0, 1}
             /\ handled'[m] = 1 =>
                  Queued(m)' /\ (Stale(m)' \/ \E r \in seen'[To[m]] : Covers(r, m)')
  <2> DEFINE c == CurrentDelivery(n, t).msg
  <2>0. task[n][t].stage \in InboxStages
    BY <1>2 DEF InboxStep, InboxStages
  <2>1. c \in Message /\ To[c] = n /\ Queued(c)
    BY <2>0, DeliveryIn DEF Carried
  <2>2. CASE InboxStale(n, c) \/ InboxRefuse(n, c)
    <3>1. handled' = handled /\ seen' = seen
      BY <2>2 DEF InboxStale, InboxRefuse, inbox
    <3> QED BY <1>m, <3>1 DEF Remembers
  <2>k. \A r \in seen[To[m]] : Covers(r, m) => r \in Remembered(To[m]) \/ Stale(m)
    BY Forgotten
  <2>3. CASE InboxDuplicate(n, c)
    <3>1. handled' = handled
      BY <2>3 DEF InboxDuplicate
    <3>2. seen'[To[m]] = seen[To[m]] \/ seen'[To[m]] = Remembered(To[m])
      BY <1>t, <2>3 DEF InboxDuplicate, TypeOK
    <3> QED BY <1>m, <2>k, <3>1, <3>2 DEF Remembers
  <2>4. CASE InboxHandle(n, c)
    <3> DEFINE row == [msg |-> c, expires |-> Clock(n) + SeenTTL]
    <3>1. \/ seen'[To[m]] = seen[To[m]] /\ To[m] # n
          \/ seen'[To[m]] = Remembered(To[m]) \cup {row}
      BY <1>t, <2>4 DEF InboxHandle, TypeOK
    <3>2. CASE m # c
      <4>1. handled'[m] = handled[m]
        BY <2>1, <2>4, <3>2 DEF InboxHandle, TypeOK
      <4> QED BY <1>m, <2>k, <3>1, <4>1 DEF Remembers
    <3>3. CASE m = c
      <4>1. handled[m] = 0
        <5> SUFFICES ASSUME handled[m] = 1 PROVE FALSE
          BY DEF Remembers
        <5>1. ~Stale(m)
          BY <1>t, <2>1, <2>4, <3>3, TimesAssumption DEF InboxHandle, Fresh, Stale
        <5>2. PICK r \in seen[To[m]] : Covers(r, m)
          BY <5>1 DEF Remembers
        <5>3. r \in Remembered(n)
          BY <2>1, <2>k, <3>3, <5>1, <5>2
        <5> QED BY <2>4, <3>3, <5>2, <5>3 DEF InboxHandle, Knows, Covers
      <4>2. handled'[m] = 1
        BY <2>1, <2>4, <3>3, <4>1 DEF InboxHandle, TypeOK
      <4>3. Covers(row, m)
        <5>1. Clock(n) - created[m] >= -Window
          BY <1>t, <2>1, <2>4, <3>3, TimesAssumption DEF InboxHandle, Fresh
        <5>2. row.expires >= created[m] + Window
          BY <1>t, <2>1, <3>3, <5>1, TimesAssumption
        <5> QED BY <3>3, <5>2 DEF Covers
      <4>4. row \in seen'[To[m]]
        BY <2>1, <3>1, <3>3
      <4> QED BY <1>m, <2>1, <3>3, <4>2, <4>3, <4>4
    <3> QED BY <3>2, <3>3
  <2> QED BY <1>2, <2>2, <2>3, <2>4 DEF InboxStep
<1> QED BY <1>1, <1>2, InboxOnly

OnceInv == TypeOK /\ Held /\ OwnRows /\ Carried /\ Remembers

LEMMA OnceInit == Init => OnceInv
BY TypeInit, RoutesAssumption DEF Init, OnceInv, OwnRows, Carried, Remembers, Idle, InboxStages

LEMMA OnceStep == OnceInv /\ [Next]_vars => OnceInv'
BY TypeStep, OwnRowsStay, CarriedStays, RemembersStays DEF OnceInv

\* Replay protection for any window and any clocks: however often an envelope is
\* sent, delivered and fetched, it is handled at most once, because the table
\* keeps a row for two time windows at least.
THEOREM OnceTheorem == Spec => []HandledOnce
<1>1. OnceInv => HandledOnce
  BY DEF OnceInv, Remembers, HandledOnce
<1> QED BY <1>1, OnceInit, OnceStep, PTL DEF Spec

--------------------------------------------------------------------------------
(* Lost only when it is too old *)

Accounted(m) == InMailbox(m) \/ Settled(m) \/ Stale(m)

\* An envelope is not signed in the future of its sender, nor stored before.
Timely ==
  /\ \A m \in Message : Queued(m) => created[m] <= Clock(From[m])
  /\ \A d \in mailbox : created[d.msg] <= d.at + offset[From[d.msg]]

\* The replay table knows only what was handled.
KnownIsHandled == \A n \in Node : \A r \in seen[n] : handled[r.msg] > 0

\* A delivery about to be acked is done with.
AckedIsDone ==
  \A n \in Node : \A t \in Caller[n] :
    task[n][t].stage = "ack" =>
      LET m == CurrentDelivery(n, t).msg IN Settled(m) \/ Stale(m)

\* A row about to be marked sent is at the Relay, or done with.
StoredIsAccounted ==
  \A n \in Node : \A t \in Caller[n] :
    task[n][t].stage = "stored" => Accounted(Sending(n, t))

LossInv ==
  Timely /\ KnownIsHandled /\ AckedIsDone /\ StoredIsAccounted /\ LostOnlyWhenStale

\* Clocks that differ by MaxSkew at most: what is in the window of nobody is old.
LEMMA NotFreshIsStale ==
  ASSUME TypeOK, Timely, NEW m \in Message, Queued(m), ~Fresh(To[m], m)
  PROVE  Stale(m)
<1>1. /\ To[m] \in Node /\ From[m] \in Node /\ created[m] \in Int /\ now \in Nat
      /\ offset[To[m]] \in -MaxSkew..MaxSkew /\ offset[From[m]] \in -MaxSkew..MaxSkew
  BY RoutesAssumption DEF TypeOK
<1>2. created[m] <= now + offset[From[m]]
  BY DEF Timely, Clock
<1>3. ~(now + offset[To[m]] - created[m] \in -Window..Window)
  <2> SUFFICES ASSUME now + offset[To[m]] - created[m] \in -Window..Window PROVE FALSE
    OBVIOUS
  <2>1. Clock(To[m]) - created[m] \in -Window..Window
    <3>1. Clock(To[m]) = now + offset[To[m]]
      BY Zenon DEF Clock
    <3> QED BY <1>1, <3>1, TimesAssumption
  <2>2. Fresh(To[m], m)
    BY <2>1 DEF Fresh
  <2> QED BY <2>2
<1>4. now + offset[To[m]] - created[m] >= -Window
  BY <1>1, <1>2, TimesAssumption
<1> QED BY <1>1, <1>3, <1>4, TimesAssumption DEF Stale, Clock

\* The Relay purges only what its receiver would no longer handle.
LEMMA PurgedIsStale ==
  ASSUME TypeOK, Timely, NEW d \in mailbox, d \notin Live
  PROVE  Stale(d.msg)
<1> SUFFICES ASSUME NEW m \in Message, m = d.msg PROVE Stale(m)
  BY DEF TypeOK, Delivery
<1>2. d.at \in Nat
  BY DEF TypeOK, Delivery
<1>3. /\ To[m] \in Node /\ From[m] \in Node /\ created[m] \in Int /\ now \in Nat
      /\ offset[To[m]] \in -MaxSkew..MaxSkew /\ offset[From[m]] \in -MaxSkew..MaxSkew
  BY RoutesAssumption DEF TypeOK
<1>4. now - d.at >= RelayTTL
  BY <1>2, <1>3, TimesAssumption DEF Live, Kept
<1>5. created[m] <= d.at + offset[From[m]]
  BY DEF Timely
<1>6. now + offset[To[m]] - created[m] > Window
  BY <1>2, <1>3, <1>4, <1>5, TimesAssumption
<1>7. Clock(To[m]) - created[m] > Window
  <2>1. Clock(To[m]) = now + offset[To[m]]
    BY Zenon DEF Clock
  <2> QED BY <1>3, <1>6, <2>1, TimesAssumption
<1> QED BY <1>7 DEF Stale

LEMMA MailboxLoss ==
  ASSUME [Next]_vars
  PROVE  \/ mailbox \subseteq mailbox'
         \/ Live \subseteq mailbox'
         \/ \E n \in Node : \E t \in Caller[n] : InboxAck(n, t)
<1> DEFINE Goal == \/ mailbox \subseteq mailbox'
                   \/ Live \subseteq mailbox'
                   \/ \E n \in Node : \E t \in Caller[n] : InboxAck(n, t)
<1>1. Tick \/ RelayStats \/ UNCHANGED vars \/ (\E m \in Message : Enqueue(m)) => Goal
  BY DEF Tick, RelayStats, vars, relay, Enqueue
<1>2. ASSUME NEW n \in Node, NEW t \in Caller[n],
             FlushStart(n, t) \/ RelayAllow(n, t) \/ RelayPut(n, t) \/ FlushSent(n, t) \/ FlushLost(n, t)
      PROVE  Goal
  <2>1. CASE FlushStart(n, t) BY <2>1 DEF FlushStart, relay
  <2>2. CASE RelayAllow(n, t) BY <2>2 DEF RelayAllow
  <2>3. CASE RelayPut(n, t) BY <2>3 DEF RelayPut
  <2>4. CASE FlushSent(n, t) BY <2>4 DEF FlushSent, relay
  <2>5. CASE FlushLost(n, t) BY <2>5 DEF FlushLost, relay
  <2> QED BY <1>2, <2>1, <2>2, <2>3, <2>4, <2>5
<1>3. ASSUME NEW n \in Node, NEW t \in Caller[n],
             InboxFetch(n, t) \/ InboxStep(n, t) \/ InboxAck(n, t) \/ InboxAckLost(n, t)
      PROVE  Goal
  <2>1. CASE InboxFetch(n, t) BY <2>1 DEF InboxFetch
  <2>2. CASE InboxStep(n, t) BY <2>2 DEF InboxStep, relay
  <2>3. CASE InboxAck(n, t) BY <2>3
  <2>4. CASE InboxAckLost(n, t) BY <2>4 DEF InboxAckLost, relay
  <2> QED BY <1>3, <2>1, <2>2, <2>3, <2>4
<1>4. ASSUME NEW n \in Node, Crash(n) PROVE Goal
  BY <1>4 DEF Crash, relay
<1> HIDE DEF Goal
<1>5. Goal
  BY <1>1, <1>2, <1>3, <1>4 DEF Next
<1> QED BY <1>5 DEF Goal

LEMMA AccountedStays ==
  ASSUME OnceInv, LossInv, [Next]_vars, NEW m \in Message, Queued(m), Accounted(m)
  PROVE  Accounted(m)'
<1> USE DEF OnceInv, LossInv
<1>1. Settled(m) \/ Stale(m) => Accounted(m)'
  BY SettledStays, StaleStays DEF Accounted
<1>2. ASSUME NEW d \in mailbox, d.msg = m PROVE Accounted(m)'
  <2>1. CASE d \in mailbox'
    BY <1>2, <2>1 DEF Accounted, InMailbox
  <2>2. CASE d \notin mailbox' /\ d \notin Live
    BY <1>1, <1>2, <2>2, PurgedIsStale
  <2>3. ASSUME d \notin mailbox', NEW n \in Node, NEW t \in Caller[n], InboxAck(n, t)
        PROVE  Accounted(m)'
    <3>1. CurrentDelivery(n, t) = d
      BY <2>3 DEF InboxAck
    <3>2. task[n][t].stage = "ack"
      BY <2>3 DEF InboxAck
    <3> QED BY <1>1, <1>2, <3>1, <3>2 DEF AckedIsDone
  <2> QED BY <2>1, <2>2, <2>3, MailboxLoss
<1> QED BY <1>1, <1>2 DEF Accounted, InMailbox

LEMMA TimelyStays ==
  ASSUME OnceInv, LossInv, [Next]_vars
  PROVE  Timely'
<1> USE DEF OnceInv
<1>0. Timely
  BY DEF LossInv
<1>1. ASSUME NEW m \in Message, Queued(m)' PROVE created'[m] <= Clock(From[m])'
  <2>0. From[m] \in Node /\ created[m] \in Int /\ Clock(From[m]) \in Int
    BY RoutesAssumption, ClockTyped DEF TypeOK
  <2>1. CASE Queued(m)
    BY <1>0, <2>0, <2>1, QueuedStays, ClockGrows DEF Timely
  <2>2. CASE ~Queued(m)
    <3>1. ASSUME NEW k \in Message, Enqueue(k) PROVE created'[m] <= Clock(From[m])'
      <4>1. k = m
        <5> SUFFICES ASSUME k # m PROVE FALSE
          OBVIOUS
        <5>1. PICK i \in DOMAIN outbox'[From[m]] : outbox'[From[m]][i].msg = m
          BY <1>1 DEF Queued
        <5>2. outbox'[From[m]] = outbox[From[m]]
              \/ outbox'[From[m]] = Append(outbox[From[m]], [msg |-> k, status |-> "pending"])
          BY <2>0, <3>1, RoutesAssumption DEF Enqueue, TypeOK
        <5>3. outbox[From[m]] \in Seq(OutboxRow)
          BY <2>0 DEF TypeOK
        <5>4. \E j \in DOMAIN outbox[From[m]] : outbox[From[m]][j].msg = m
          <6> DEFINE q == outbox[From[m]]
                     row == [msg |-> k, status |-> "pending"]
          <6>1. CASE outbox'[From[m]] = q
            BY <5>1, <6>1
          <6>2. CASE outbox'[From[m]] = Append(q, row)
            <7>1. (i \in DOMAIN q /\ Append(q, row)[i] = q[i]) \/ Append(q, row)[i] = row
              BY <5>1, <5>3, <6>2
            <7>2. row.msg # m
              OBVIOUS
            <7> QED BY <5>1, <6>2, <7>1, <7>2
          <6> QED BY <5>2, <6>1, <6>2
        <5> QED BY <2>2, <5>4 DEF Queued
      <4>2. created'[m] = Clock(From[m]) /\ UNCHANGED <<now, offset>>
        BY <3>1, <4>1 DEF Enqueue, TypeOK
      <4> QED BY <2>0, <4>2 DEF Clock
    <3>2. CASE outbox' = outbox
      BY <1>1, <2>2, <3>2 DEF Queued
    <3>3. ASSUME NEW n \in Node, NEW t \in Caller[n], FlushSent(n, t) PROVE FALSE
      <4>1. \A p \in Node : DOMAIN outbox'[p] = DOMAIN outbox[p]
        BY <3>3, FlushSentTyped
      <4> QED BY <1>1, <2>0, <2>2, <4>1, RowsStay DEF Queued
    <3> QED BY <3>1, <3>2, <3>3, OutboxStep
  <2> QED BY <2>1, <2>2
<1>2. ASSUME NEW d \in mailbox' PROVE created'[d.msg] <= d.at + offset'[From[d.msg]]
  <2>0. \A e \in mailbox : created'[e.msg] <= e.at + offset'[From[e.msg]]
    BY <1>0, QueuedStays, ClockGrows DEF Timely, Carried, TypeOK, Delivery
  <2>1. CASE mailbox' \subseteq mailbox
    BY <2>0, <2>1
  <2>2. ASSUME NEW n \in Node, NEW t \in Caller[n], RelayPut(n, t), d \notin mailbox
        PROVE  created'[d.msg] <= d.at + offset'[From[d.msg]]
    <3>1. task[n][t].stage \in Stages
      BY <2>2 DEF RelayPut, Stages
    <3>2. Queued(Sending(n, t)) /\ Sending(n, t) \in Message
      BY <3>1, SendingQueued, RowIn
    <3>3. d.msg = Sending(n, t) /\ d.at = now
      BY <2>2 DEF RelayPut, Live
    <3>4. created[d.msg] <= now + offset[From[d.msg]]
      BY <1>0, <3>2, <3>3 DEF Timely, Clock
    <3> QED BY <2>2, <3>3, <3>4 DEF RelayPut
  <2> QED BY <2>0, <2>1, <2>2, MailboxStep
<1> QED BY <1>1, <1>2 DEF Timely

LEMMA KnownStays ==
  ASSUME OnceInv, LossInv, [Next]_vars
  PROVE  KnownIsHandled'
<1> USE DEF OnceInv
<1>0. KnownIsHandled
  BY DEF LossInv
<1>1. CASE UNCHANGED inbox
  BY <1>0, <1>1 DEF inbox, KnownIsHandled
<1>2. ASSUME NEW n \in Node, NEW t \in Caller[n], InboxStep(n, t) PROVE KnownIsHandled'
  <2> DEFINE c == CurrentDelivery(n, t).msg
  <2>0. c \in Message
    BY <1>2, DeliveryIn DEF InboxStep, InboxStages
  <2>r. Remembered(n) \subseteq seen[n] /\ \A p \in Node : seen[p] \subseteq SeenRow
    BY DEF Remembered, TypeOK
  <2>1. CASE InboxStale(n, c) \/ InboxRefuse(n, c)
    BY <1>0, <2>1 DEF InboxStale, InboxRefuse, inbox, KnownIsHandled
  <2>2. CASE InboxDuplicate(n, c)
    <3>1. \A p \in Node : seen'[p] \subseteq seen[p]
      BY <2>2, <2>r DEF InboxDuplicate, TypeOK
    <3> QED BY <1>0, <2>2, <3>1 DEF InboxDuplicate, KnownIsHandled
  <2>3. CASE InboxHandle(n, c)
    <3> DEFINE row == [msg |-> c, expires |-> Clock(n) + SeenTTL]
    <3>1. \A p \in Node : seen'[p] \subseteq seen[p] \cup {row}
      BY <2>3, <2>r DEF InboxHandle, TypeOK
    <3>2. \A m \in Message : handled[m] > 0 \/ m = c => handled'[m] > 0
      BY <2>0, <2>3 DEF InboxHandle, TypeOK
    <3>3. \A p \in Node : \A r \in seen[p] : r.msg \in Message /\ handled[r.msg] > 0
      BY <1>0, <2>r DEF KnownIsHandled, SeenRow
    <3>4. row.msg = c
      OBVIOUS
    <3> QED BY <2>0, <3>1, <3>2, <3>3, <3>4 DEF KnownIsHandled
  <2> QED BY <1>2, <2>1, <2>2, <2>3 DEF InboxStep
<1> QED BY <1>1, <1>2, InboxOnly

\* What becomes of a thread that acks or has just stored.
Oldest(page) == CHOOSE d \in page : \A e \in page : d.id <= e.id
First(rows) == CHOOSE i \in rows : \A j \in rows : i <= j

LEMMA Currents ==
  /\ \A n, t : CurrentDelivery(n, t) = Oldest(task[n][t].page)
  /\ \A n, t : CurrentRow(n, t) = First(task[n][t].rows)
BY DEF CurrentDelivery, CurrentRow, Oldest, First

LEMMA CurrentsNext ==
  /\ \A n, t : CurrentDelivery(n, t)' = Oldest(task'[n][t].page)
  /\ \A n, t : CurrentRow(n, t)' = First(task'[n][t].rows)
BY DEF CurrentDelivery, CurrentRow, Oldest, First

\* A thread reaches the stages ack and stored by one step each, and leaves its
\* task alone until the next one.
LEMMA TaskStep ==
  ASSUME TypeOK, Held, [Next]_vars, NEW p \in Node, NEW u \in Caller[p]
  PROVE  \/ task'[p][u] = task[p][u]
         \/ task'[p][u].stage \notin {"ack", "stored"}
         \/ InboxStep(p, u)
         \/ RelayPut(p, u)
<1> DEFINE Goal == \/ task'[p][u] = task[p][u]
                   \/ task'[p][u].stage \notin {"ack", "stored"}
                   \/ InboxStep(p, u)
                   \/ RelayPut(p, u)
<1>i. Idle.stage \notin {"ack", "stored"}
  BY DEF Idle
<1>1. ASSUME NEW n \in Node, NEW t \in Caller[n], NEW what, Does(n, t, what),
             what.stage \notin {"ack", "stored"} \/ InboxStep(n, t) \/ RelayPut(n, t)
      PROVE  Goal
  <2>1. CASE p = n /\ u = t
    BY <1>1, <2>1, DoesOnly
  <2>2. CASE ~(p = n /\ u = t)
    BY <1>1, <2>2, DoesOnly
  <2> QED BY <2>1, <2>2
<1>2. Tick \/ RelayStats \/ UNCHANGED vars \/ (\E m \in Message : Enqueue(m)) => Goal
  BY DEF Tick, RelayStats, vars, Enqueue
<1>3. ASSUME NEW n \in Node, Crash(n) PROVE Goal
  <2>1. CASE p = n
    BY <1>3, <1>i, <2>1 DEF Crash, TypeOK
  <2>2. CASE p # n
    BY <1>3, <2>2 DEF Crash, TypeOK
  <2> QED BY <2>1, <2>2
<1>4. ASSUME NEW n \in Node, NEW t \in Caller[n],
             FlushStart(n, t) \/ RelayAllow(n, t) \/ RelayPut(n, t) \/ FlushSent(n, t) \/ FlushLost(n, t)
      PROVE  \E what : /\ Does(n, t, what)
                       /\ what.stage \notin {"ack", "stored"} \/ RelayPut(n, t)
  <2>1. CASE FlushStart(n, t)
    BY <2>1 DEF FlushStart
  <2>2. CASE RelayAllow(n, t)
    <3>1. [task[n][t] EXCEPT !.stage = "allowed"].stage = "allowed"
      BY <2>2, GoesOn DEF RelayAllow, Stages
    <3> QED BY <1>i, <2>2, <3>1 DEF RelayAllow, SendFails
  <2>3. CASE RelayPut(n, t)
    BY <2>3 DEF RelayPut, SendFails
  <2>4. CASE FlushSent(n, t)
    <3>1. PICK what \in Tasks : /\ Does(n, t, what)
                                /\ what.stage \in Stages => what.stage = "send"
                                /\ what.stage \notin InboxStages
      BY <2>4, NextRowTyped DEF FlushSent, Stages
    <3> QED BY <3>1 DEF Stages, InboxStages
  <2>5. CASE FlushLost(n, t)
    BY <1>i, <2>5 DEF FlushLost, SendFails
  <2> QED BY <1>4, <2>1, <2>2, <2>3, <2>4, <2>5
<1>5. ASSUME NEW n \in Node, NEW t \in Caller[n],
             InboxFetch(n, t) \/ InboxStep(n, t) \/ InboxAck(n, t) \/ InboxAckLost(n, t)
      PROVE  \E what : /\ Does(n, t, what)
                       /\ what.stage \notin {"ack", "stored"} \/ InboxStep(n, t)
  <2>1. CASE InboxFetch(n, t) BY <2>1 DEF InboxFetch
  <2>2. CASE InboxStep(n, t) BY <2>2 DEF InboxStep
  <2>3. CASE InboxAck(n, t)
    <3> DEFINE rest == task[n][t].page \ {CurrentDelivery(n, t)}
    <3>1. Does(n, t, Idle) \/ Does(n, t, [stage |-> "handle", page |-> rest])
      BY <2>3 DEF InboxAck
    <3>2. [stage |-> "handle", page |-> rest].stage = "handle"
      OBVIOUS
    <3> HIDE DEF rest
    <3> QED BY <1>i, <3>1, <3>2
  <2>4. CASE InboxAckLost(n, t) BY <1>i, <2>4 DEF InboxAckLost
  <2> QED BY <1>5, <2>1, <2>2, <2>3, <2>4
<1>6. ASSUME NEW n \in Node, NEW t \in Caller[n],
             \/ FlushStart(n, t) \/ RelayAllow(n, t) \/ RelayPut(n, t)
             \/ FlushSent(n, t) \/ FlushLost(n, t)
             \/ InboxFetch(n, t) \/ InboxStep(n, t) \/ InboxAck(n, t) \/ InboxAckLost(n, t)
      PROVE  Goal
  <2> HIDE DEF Goal
  <2> QED BY <1>1, <1>4, <1>5, <1>6
<1> HIDE DEF Goal
<1>7. Goal
  BY <1>2, <1>3, <1>6 DEF Next
<1> QED BY <1>7 DEF Goal

LEMMA AckedStays ==
  ASSUME OnceInv, LossInv, [Next]_vars
  PROVE  AckedIsDone'
<1> USE DEF OnceInv
<1> SUFFICES ASSUME NEW p \in Node, NEW u \in Caller[p], task'[p][u].stage = "ack",
                    NEW m, m = CurrentDelivery(p, u).msg'
             PROVE  Settled(m)' \/ Stale(m)'
  BY DEF AckedIsDone
<1>0. ASSUME task'[p][u].page = task[p][u].page, task[p][u].stage \in InboxStages
      PROVE  m = CurrentDelivery(p, u).msg /\ m \in Message /\ Queued(m) /\ To[m] = p
  <2>1. CurrentDelivery(p, u)' = CurrentDelivery(p, u)
    BY <1>0, Currents, CurrentsNext
  <2> QED BY <1>0, <2>1, DeliveryIn DEF Carried
<1>1. CASE task'[p][u] = task[p][u]
  <2>1. m = CurrentDelivery(p, u).msg /\ m \in Message /\ Queued(m)
    BY <1>0, <1>1 DEF InboxStages
  <2> QED BY <1>1, <2>1, SettledStays, StaleStays DEF LossInv, AckedIsDone
<1>2. CASE InboxStep(p, u)
  <2>0. task[p][u].stage \in InboxStages
    BY <1>2 DEF InboxStep, InboxStages
  <2>1. task'[p][u] = [task[p][u] EXCEPT !.stage = "ack"]
    BY <1>2, DoesOnly DEF InboxStep
  <2>2. task'[p][u].page = task[p][u].page
    BY <2>0, <2>1, GoesOn DEF InboxStages
  <2>3. m = CurrentDelivery(p, u).msg /\ m \in Message /\ Queued(m) /\ To[m] = p
    BY <1>0, <2>0, <2>2
  <2>4. CASE InboxStale(p, m)
    <3>1. Stale(m)
      BY <2>3, <2>4, NotFreshIsStale DEF InboxStale, LossInv
    <3> QED BY <2>3, <3>1, StaleStays
  <2>5. CASE InboxDuplicate(p, m)
    <3>1. handled[m] > 0
      BY <2>5 DEF InboxDuplicate, Knows, Remembered, LossInv, KnownIsHandled
    <3> QED BY <2>3, <3>1, SettledStays DEF Settled
  <2>6. CASE InboxRefuse(p, m)
    BY <2>6 DEF InboxRefuse, Settled
  <2>7. CASE InboxHandle(p, m)
    BY <2>3, <2>7 DEF InboxHandle, Settled, TypeOK
  <2> QED BY <1>2, <2>3, <2>4, <2>5, <2>6, <2>7 DEF InboxStep
<1>3. CASE RelayPut(p, u)
  <2>1. Does(p, u, Idle) \/ Does(p, u, [task[p][u] EXCEPT !.stage = "stored"])
    BY <1>3 DEF RelayPut, SendFails
  <2>2. [task[p][u] EXCEPT !.stage = "stored"].stage = "stored" /\ Idle.stage = "idle"
    BY <1>3, GoesOn DEF RelayPut, Stages, Idle
  <2>3. CASE Does(p, u, Idle)
    <3>1. task'[p][u] = Idle
      BY <2>3, DoesOnly
    <3> QED BY <2>2, <3>1
  <2>4. CASE Does(p, u, [task[p][u] EXCEPT !.stage = "stored"])
    <3> DEFINE next == [task[p][u] EXCEPT !.stage = "stored"]
    <3>1. task'[p][u] = next
      <4> HIDE DEF next
      <4> QED BY <2>4, DoesOnly DEF next
    <3> QED BY <2>2, <3>1
  <2> QED BY <2>1, <2>3, <2>4
<1> QED BY <1>1, <1>2, <1>3, TaskStep

LEMMA StoredStays ==
  ASSUME OnceInv, LossInv, [Next]_vars
  PROVE  StoredIsAccounted'
<1> USE DEF OnceInv
<1> SUFFICES ASSUME NEW p \in Node, NEW u \in Caller[p], task'[p][u].stage = "stored"
             PROVE  Accounted(Sending(p, u))'
  BY DEF StoredIsAccounted
<1>0. ASSUME task'[p][u].rows = task[p][u].rows, task[p][u].stage \in Stages
      PROVE  /\ Sending(p, u)' = Sending(p, u)
             /\ Sending(p, u) \in Message /\ Queued(Sending(p, u))
  <2>1. CurrentRow(p, u)' = CurrentRow(p, u)
    BY <1>0, Currents, CurrentsNext
  <2>2. CurrentRow(p, u) \in DOMAIN outbox[p]
    BY <1>0, RowIn
  <2>3. outbox'[p][CurrentRow(p, u)].msg = outbox[p][CurrentRow(p, u)].msg
    BY <2>2, RowsStay
  <2>4. Sending(p, u)' = outbox'[p][CurrentRow(p, u)'].msg
    BY DEF Sending
  <2>5. Sending(p, u)' = Sending(p, u)
    BY <2>1, <2>3, <2>4 DEF Sending
  <2> QED BY <1>0, <2>5, RowIn, SendingQueued
<1>s. ASSUME NEW m \in Message, m = Sending(p, u), Sending(p, u)' = m, Accounted(m)'
      PROVE  Accounted(Sending(p, u))'
  BY <1>s DEF Accounted, InMailbox, Settled, Stale, Clock
<1>1. CASE task'[p][u] = task[p][u]
  <2>1. /\ Sending(p, u)' = Sending(p, u)
        /\ Sending(p, u) \in Message /\ Queued(Sending(p, u))
    BY <1>0, <1>1 DEF Stages
  <2>2. Accounted(Sending(p, u))
    BY <1>1 DEF LossInv, StoredIsAccounted
  <2>3. PICK m \in Message : m = Sending(p, u)
    BY <2>1
  <2>4. Accounted(m)'
    BY <2>1, <2>2, <2>3, AccountedStays
  <2> QED BY <1>s, <2>1, <2>3, <2>4
<1>2. CASE RelayPut(p, u)
  <2>0. task[p][u].stage \in Stages
    BY <1>2 DEF RelayPut, Stages
  <2>1. CASE ~HasRoom(Sending(p, u))
    <3>1. task'[p][u] = Idle
      BY <1>2, <2>1, DoesOnly DEF RelayPut, SendFails
    <3> QED BY <3>1 DEF Idle
  <2>2. CASE HasRoom(Sending(p, u))
    <3>1. task'[p][u] = [task[p][u] EXCEPT !.stage = "stored"]
      BY <1>2, <2>2, DoesOnly DEF RelayPut
    <3>2. task'[p][u].rows = task[p][u].rows
      BY <2>0, <3>1, GoesOn DEF Stages
    <3>3. PICK m \in Message : m = Sending(p, u)
      BY <1>0, <2>0, <3>2
    <3>4. [id |-> stored + 1, msg |-> m, at |-> now] \in mailbox'
      BY <1>2, <2>2, <3>3 DEF RelayPut
    <3>5. Accounted(m)'
      BY <3>4 DEF Accounted, InMailbox
    <3> QED BY <1>0, <1>s, <2>0, <3>2, <3>3, <3>5
  <2> QED BY <2>1, <2>2
<1>3. CASE InboxStep(p, u)
  <2>1. task'[p][u] = [task[p][u] EXCEPT !.stage = "ack"]
    BY <1>3, DoesOnly DEF InboxStep
  <2>2. [task[p][u] EXCEPT !.stage = "ack"].stage = "ack"
    BY <1>3, GoesOn DEF InboxStep, InboxStages
  <2> QED BY <2>1, <2>2
<1> QED BY <1>1, <1>2, <1>3, TaskStep

LEMMA LostStays ==
  ASSUME OnceInv, LossInv, [Next]_vars
  PROVE  LostOnlyWhenStale'
<1> USE DEF OnceInv
<1> SUFFICES ASSUME NEW n \in Node, NEW i \in DOMAIN outbox'[n], outbox'[n][i].status = "sent",
                    NEW m, m = outbox'[n][i].msg
             PROVE  Accounted(m)'
  BY DEF LostOnlyWhenStale, Accounted
<1>1. ASSUME i \in DOMAIN outbox[n], Accounted(outbox[n][i].msg)
      PROVE  Accounted(m)'
  <2>1. m = outbox[n][i].msg
    BY <1>1, RowsStay
  <2>2. m \in Message
    <3>1. outbox[n] \in Seq(OutboxRow)
      BY DEF TypeOK
    <3>2. outbox[n][i] \in OutboxRow
      BY <1>1, <3>1
    <3> QED BY <2>1, <3>2 DEF OutboxRow
  <2>3. Queued(m)
    BY <1>1, <2>1 DEF OwnRows, Queued
  <2> QED BY <1>1, <2>1, <2>2, <2>3, AccountedStays
<1>2. ASSUME i \in DOMAIN outbox[n], outbox[n][i].status = "sent"
      PROVE  Accounted(m)'
  BY <1>1, <1>2 DEF LossInv, LostOnlyWhenStale, Accounted
<1>3. CASE outbox' = outbox
  BY <1>2, <1>3
<1>4. ASSUME NEW k \in Message, Enqueue(k) PROVE Accounted(m)'
  <2> DEFINE q == outbox[n]
             row == [msg |-> k, status |-> "pending"]
  <2>1. q \in Seq(OutboxRow)
    BY DEF TypeOK
  <2>2. outbox'[n] = q \/ outbox'[n] = Append(q, row)
    BY <1>4, RoutesAssumption DEF Enqueue, TypeOK
  <2>3. CASE outbox'[n] = q
    BY <1>2, <2>3
  <2>4. CASE outbox'[n] = Append(q, row)
    <3>1. (i \in DOMAIN q /\ Append(q, row)[i] = q[i]) \/ Append(q, row)[i] = row
      BY <2>1, <2>4
    <3>2. row.status # "sent"
      OBVIOUS
    <3> QED BY <1>2, <2>4, <3>1, <3>2
  <2> QED BY <2>2, <2>3, <2>4
<1>5. ASSUME NEW o \in Node, NEW t \in Caller[o], FlushSent(o, t) PROVE Accounted(m)'
  <2>1. i \in DOMAIN outbox[n]
    BY <1>5, FlushSentTyped
  <2>2. CASE o = n /\ i = CurrentRow(o, t)
    <3>1. Accounted(Sending(o, t))
      BY <1>5 DEF FlushSent, LossInv, StoredIsAccounted
    <3>2. Sending(o, t) = outbox[n][i].msg
      BY <2>2 DEF Sending
    <3> QED BY <1>1, <2>1, <3>1, <3>2
  <2>3. CASE ~(o = n /\ i = CurrentRow(o, t))
    <3>1. outbox'[n][i] = outbox[n][i]
      BY <1>5, <2>1, <2>3 DEF FlushSent, TypeOK
    <3> QED BY <1>2, <2>1, <3>1
  <2> QED BY <2>2, <2>3
<1> QED BY <1>3, <1>4, <1>5, OutboxStep

LEMMA LossInit == Init => LossInv
BY RoutesAssumption DEF Init, LossInv, Timely, Queued, KnownIsHandled, AckedIsDone,
   StoredIsAccounted, LostOnlyWhenStale, Idle

\* An envelope that its sender has marked sent is in the mailbox, settled, or
\* too old for its receiver, for any limits of the Relay and clocks that differ by
\* up to MaxSkew: the Relay keeps an envelope longer than its receiver would
\* handle it.
THEOREM LossTheorem == Spec => []LostOnlyWhenStale
<1>1. OnceInv /\ LossInv /\ [Next]_vars => LossInv'
  BY TimelyStays, KnownStays, AckedStays, StoredStays, LostStays DEF LossInv
<1>2. LossInv => LostOnlyWhenStale
  BY DEF LossInv
<1> QED BY <1>1, <1>2, OnceInit, OnceStep, LossInit, PTL DEF Spec

--------------------------------------------------------------------------------
(* Handled in order *)

Done(m) == Settled(m) \/ Stale(m)

\* e was queued before l, for the same receiver.
Before(e, l) ==
  /\ To[e] = To[l]
  /\ \E n \in Node : \E j \in DOMAIN outbox[n] : \E i \in 1..j - 1 :
       outbox[n][i].msg = e /\ outbox[n][j].msg = l

QueuedOnce ==
  \A n \in Node : \A i, j \in DOMAIN outbox[n] : outbox[n][i].msg = outbox[n][j].msg => i = j

SettledWasQueued == \A m \in Message : Settled(m) => Queued(m)

Stamped == IsFiniteSet(mailbox) /\ stored \in Nat /\ \A d \in mailbox : d.id <= stored

\* e is done with, or comes before d among the deliveries D.
Ahead(D, e, d) == Done(e) \/ \E c \in D : c.msg = e /\ c.id < d.id

MailboxInOrder ==
  \A d \in mailbox : \A e \in Message : Before(e, d.msg) => Ahead(mailbox, e, d)

PagesInOrder ==
  \A n \in Node : \A t \in Caller[n] :
    task[n][t].stage \in InboxStages =>
      \A d \in task[n][t].page : \A e \in Message :
        Before(e, d.msg) => Ahead(task[n][t].page, e, d)

\* A thread that is about to send a row still has the ones before it, or they
\* are at the Relay or done with.
FlushedInOrder ==
  \A n \in Node : \A t \in Caller[n] :
    task[n][t].stage \in Stages =>
      \A j \in task[n][t].rows : \A i \in 1..j - 1 :
        i \in task[n][t].rows \/ Accounted(outbox[n][i].msg)

OrderInv ==
  /\ QueuedOnce /\ SettledWasQueued /\ Stamped
  /\ MailboxInOrder /\ PagesInOrder /\ FlushedInOrder /\ HandledInOrder

LEMMA DoneStays ==
  ASSUME TypeOK, Held, [Next]_vars, NEW m \in Message, Queued(m), Done(m)
  PROVE  Done(m)'
BY SettledStays, StaleStays DEF Done

\* The rows of an outbox are typed, and an index names one row.
LEMMA RowTyped ==
  ASSUME TypeOK, NEW n \in Node
  PROVE  /\ outbox[n] \in Seq(OutboxRow) /\ DOMAIN outbox[n] \subseteq Nat \ {0}
         /\ \A j \in DOMAIN outbox[n] : 1..j \subseteq DOMAIN outbox[n]
         /\ \A j \in DOMAIN outbox[n] : outbox[n][j] \in OutboxRow /\ outbox[n][j].msg \in Message
<1>1. outbox[n] \in Seq(OutboxRow)
  BY DEF TypeOK
<1>2. \A j \in DOMAIN outbox[n] : outbox[n][j] \in OutboxRow
  BY <1>1
<1> QED BY <1>1, <1>2 DEF OutboxRow

\* What is before a queued envelope is queued, and the same two stay in order.
LEMMA BeforeQueued ==
  ASSUME TypeOK, OwnRows, NEW e, NEW l, Before(e, l)
  PROVE  e \in Message /\ Queued(e) /\ Queued(l)
<1>1. PICK n \in Node : \E j \in DOMAIN outbox[n] : \E i \in 1..j - 1 :
         outbox[n][i].msg = e /\ outbox[n][j].msg = l
  BY DEF Before
<1>p. PICK j \in DOMAIN outbox[n] : \E i \in 1..j - 1 :
         outbox[n][i].msg = e /\ outbox[n][j].msg = l
  BY <1>1
<1>2. PICK i \in 1..j - 1 : outbox[n][i].msg = e /\ outbox[n][j].msg = l
  BY <1>p
<1>3. i \in DOMAIN outbox[n]
  BY <1>2, RowTyped
<1> QED BY <1>2, <1>3, RowTyped DEF OwnRows, Queued

LEMMA BeforeStep ==
  ASSUME TypeOK, Held, OwnRows, [Next]_vars, NEW e, NEW l, Queued(l), Before(e, l)'
  PROVE  Before(e, l)
<1>0. To[e] = To[l]
  BY DEF Before
<1>1. PICK n \in Node : \E j \in DOMAIN outbox'[n] : \E i \in 1..j - 1 :
         outbox'[n][i].msg = e /\ outbox'[n][j].msg = l
  BY DEF Before
<1>p. PICK j \in DOMAIN outbox'[n] : \E i \in 1..j - 1 :
         outbox'[n][i].msg = e /\ outbox'[n][j].msg = l
  BY <1>1
<1>2. PICK i \in 1..j - 1 : outbox'[n][i].msg = e /\ outbox'[n][j].msg = l
  BY <1>p
<1>3. ASSUME j \in DOMAIN outbox[n] PROVE Before(e, l)
  <2>1. i \in DOMAIN outbox[n]
    BY <1>2, <1>3, RowTyped
  <2>2. outbox[n][i].msg = e /\ outbox[n][j].msg = l
    BY <1>2, <1>3, <2>1, RowsStay
  <2> QED BY <1>0, <1>2, <1>3, <2>2 DEF Before
<1>4. CASE outbox' = outbox
  BY <1>2, <1>3, <1>4
<1>5. ASSUME NEW o \in Node, NEW t \in Caller[o], FlushSent(o, t) PROVE j \in DOMAIN outbox[n]
  BY <1>2, <1>5, FlushSentTyped
<1>6. ASSUME NEW m \in Message, Enqueue(m), j \notin DOMAIN outbox[n] PROVE FALSE
  <2> DEFINE q == outbox[n]
             row == [msg |-> m, status |-> "pending"]
  <2>1. q \in Seq(OutboxRow)
    BY RowTyped
  <2>2. outbox'[n] = q \/ outbox'[n] = Append(q, row)
    BY <1>6, RoutesAssumption DEF Enqueue, TypeOK
  <2>3. outbox'[n][j] = row
    BY <1>2, <1>6, <2>1, <2>2
  <2>4. l = m
    BY <1>2, <2>3
  <2> QED BY <1>6, <2>4 DEF Enqueue
<1> QED BY <1>3, <1>4, <1>5, <1>6, OutboxStep

LEMMA QueuedOnceStays ==
  ASSUME TypeOK, Held, OwnRows, QueuedOnce, [Next]_vars
  PROVE  QueuedOnce'
<1>1. CASE outbox' = outbox
  BY <1>1 DEF QueuedOnce
<1>2. ASSUME NEW o \in Node, NEW t \in Caller[o], FlushSent(o, t) PROVE QueuedOnce'
  <2>1. \A p \in Node : DOMAIN outbox'[p] = DOMAIN outbox[p]
    BY <1>2, FlushSentTyped
  <2> QED BY <2>1, RowsStay DEF QueuedOnce
<1>3. ASSUME NEW m \in Message, Enqueue(m) PROVE QueuedOnce'
  <2> SUFFICES ASSUME NEW n \in Node, NEW i \in DOMAIN outbox'[n], NEW j \in DOMAIN outbox'[n],
                      outbox'[n][i].msg = outbox'[n][j].msg
               PROVE  i = j
    BY DEF QueuedOnce
  <2> DEFINE q == outbox[n]
             row == [msg |-> m, status |-> "pending"]
  <2>1. q \in Seq(OutboxRow)
    BY RowTyped
  <2>2. outbox'[n] = q \/ (n = From[m] /\ outbox'[n] = Append(q, row))
    BY <1>3, RoutesAssumption DEF Enqueue, TypeOK
  <2>3. CASE outbox'[n] = q
    BY <2>3 DEF QueuedOnce
  <2>4. CASE n = From[m] /\ outbox'[n] = Append(q, row)
    <3>1. \A k \in DOMAIN q : q[k].msg # m
      BY <1>3, <2>4 DEF Enqueue, Queued
    <3>2. row.msg = m
      OBVIOUS
    <3> HIDE DEF row
    <3>3. \A k \in DOMAIN Append(q, row) :
            \/ k \in DOMAIN q /\ Append(q, row)[k] = q[k]
            \/ k = Len(q) + 1 /\ Append(q, row)[k] = row
      BY <2>1
    <3>4. \A k1, k2 \in DOMAIN q : q[k1].msg = q[k2].msg => k1 = k2
      BY DEF QueuedOnce
    <3> HIDE DEF q
    <3>5. CASE i \in DOMAIN q /\ j \in DOMAIN q
      BY <2>4, <3>1, <3>2, <3>3, <3>4, <3>5
    <3>6. CASE i \notin DOMAIN q \/ j \notin DOMAIN q
      BY <2>4, <3>1, <3>2, <3>3, <3>6
    <3> QED BY <3>5, <3>6
  <2> QED BY <2>2, <2>3, <2>4
<1> QED BY <1>1, <1>2, <1>3, OutboxStep

\* A step that settles an envelope handles or refuses the oldest of a page.
LEMMA SettledStep ==
  ASSUME TypeOK, Held, [Next]_vars, NEW m \in Message, Settled(m)', ~Settled(m)
  PROVE  \E n \in Node : \E t \in Caller[n] : InboxStep(n, t) /\ CurrentDelivery(n, t).msg = m
<1>1. CASE UNCHANGED inbox
  BY <1>1 DEF inbox, Settled
<1>2. ASSUME NEW n \in Node, NEW t \in Caller[n], InboxStep(n, t)
      PROVE  CurrentDelivery(n, t).msg = m
  <2> DEFINE c == CurrentDelivery(n, t).msg
  <2>1. CASE InboxStale(n, c) BY <2>1 DEF InboxStale, inbox, Settled
  <2>2. CASE InboxDuplicate(n, c) BY <2>2 DEF InboxDuplicate, Settled
  <2>3. CASE InboxRefuse(n, c) BY <2>3 DEF InboxRefuse, Settled
  <2>4. CASE InboxHandle(n, c)
    BY <2>4 DEF InboxHandle, Settled, TypeOK
  <2> QED BY <1>2, <2>1, <2>2, <2>3, <2>4 DEF InboxStep
<1> QED BY <1>1, <1>2, InboxOnly

LEMMA SettledQueuedStays ==
  ASSUME TypeOK, Held, Carried, SettledWasQueued, [Next]_vars
  PROVE  SettledWasQueued'
<1> SUFFICES ASSUME NEW m \in Message, Settled(m)' PROVE Queued(m)
  BY QueuedStays DEF SettledWasQueued
<1>1. CASE Settled(m)
  BY <1>1 DEF SettledWasQueued
<1>2. CASE ~Settled(m)
  <2>1. PICK n \in Node : \E t \in Caller[n] : InboxStep(n, t) /\ CurrentDelivery(n, t).msg = m
    BY <1>2, SettledStep
  <2>t. PICK t \in Caller[n] : InboxStep(n, t) /\ CurrentDelivery(n, t).msg = m
    BY <2>1
  <2>2. task[n][t].stage \in InboxStages
    BY <2>t DEF InboxStep, InboxStages
  <2> QED BY <2>t, <2>2, DeliveryIn DEF Carried
<1> QED BY <1>1, <1>2

LEMMA StampedStays ==
  ASSUME TypeOK, Held, OwnRows, Stamped, [Next]_vars
  PROVE  Stamped'
<1>1. CASE mailbox' \subseteq mailbox /\ stored' = stored
  BY <1>1, FS_Subset DEF Stamped
<1>2. ASSUME NEW n \in Node, NEW t \in Caller[n], RelayPut(n, t) PROVE Stamped'
  <2>1. CASE mailbox' = mailbox /\ stored' = stored
    BY <2>1 DEF Stamped
  <2>2. CASE /\ mailbox' = Live \cup {[id |-> stored + 1, msg |-> Sending(n, t), at |-> now]}
             /\ stored' = stored + 1
    <3> DEFINE d == [id |-> stored + 1, msg |-> Sending(n, t), at |-> now]
    <3>1. IsFiniteSet(Live) /\ Live \subseteq mailbox
      BY FS_Subset DEF Stamped, Live
    <3>2. d.id = stored + 1
      OBVIOUS
    <3> HIDE DEF d
    <3>3. mailbox' = Live \cup {d}
      BY <2>2 DEF d
    <3>4. IsFiniteSet(mailbox')
      BY <3>1, <3>3, FS_AddElement
    <3>5. \A c \in mailbox' : c.id <= stored'
      <4>1. \A c \in mailbox : c.id \in Nat
        BY DEF TypeOK, Delivery
      <4> QED BY <2>2, <3>1, <3>2, <3>3, <4>1 DEF Stamped
    <3> QED BY <2>2, <3>4, <3>5 DEF Stamped
  <2> QED BY <1>2, <2>1, <2>2 DEF RelayPut
<1> QED BY <1>1, <1>2, MailboxStep

\* A delivery leaves the mailbox when it is purged or acked, and is done with then.
LEMMA GoneIsDone ==
  ASSUME OnceInv, LossInv, [Next]_vars, NEW d \in mailbox, d \notin mailbox'
  PROVE  Done(d.msg)'
<1> USE DEF OnceInv, LossInv
<1>0. d.msg \in Message /\ Queued(d.msg)
  BY DEF TypeOK, Delivery, Carried
<1>1. CASE d \notin Live
  <2>1. Stale(d.msg)
    BY <1>1, PurgedIsStale
  <2> QED BY <1>0, <2>1, StaleStays DEF Done
<1>2. ASSUME NEW n \in Node, NEW t \in Caller[n], InboxAck(n, t) PROVE Done(d.msg)'
  <2>1. CurrentDelivery(n, t) = d /\ task[n][t].stage = "ack"
    BY <1>2 DEF InboxAck
  <2>2. Done(d.msg)
    BY <2>1 DEF AckedIsDone, Done
  <2> QED BY <1>0, <2>2, DoneStays
<1> QED BY <1>1, <1>2, MailboxLoss

LEMMA CurrentRowLeast ==
  ASSUME TypeOK, Held, NEW n \in Node, NEW t \in Caller[n], task[n][t].stage \in Stages
  PROVE  \A j \in task[n][t].rows : CurrentRow(n, t) <= j
<1>1. task[n][t].rows \in SUBSET Nat /\ task[n][t].rows # {}
  BY TaskKinds DEF TypeOK, Tasks, Held
<1> QED BY <1>1, HasLeast DEF CurrentRow

LEMMA CurrentDeliveryLeast ==
  ASSUME TypeOK, Held, NEW n \in Node, NEW t \in Caller[n], task[n][t].stage \in InboxStages
  PROVE  \A d \in task[n][t].page : CurrentDelivery(n, t).id <= d.id
<1> DEFINE page == task[n][t].page
           S    == {d.id : d \in page}
<1>0. page \in SUBSET Delivery /\ page # {}
  BY TaskKinds DEF TypeOK, Tasks, Held
<1>1. S \in SUBSET Nat /\ S # {}
  BY <1>0 DEF Delivery
<1>2. PICK i \in S : \A j \in S : i <= j
  BY <1>1, HasLeast
<1>3. \E d \in page : \A e \in page : d.id <= e.id
  BY <1>2
<1> QED BY <1>3 DEF CurrentDelivery

LEMMA MailboxOrderStays ==
  ASSUME OnceInv, LossInv, OrderInv, [Next]_vars
  PROVE  MailboxInOrder'
<1> USE DEF OnceInv, OrderInv
<1> SUFFICES ASSUME NEW d \in mailbox', NEW e \in Message, Before(e, d.msg)'
             PROVE  Done(e)' \/ \E c \in mailbox' : c.msg = e /\ c.id < d.id
  BY DEF MailboxInOrder, Ahead
<1>0. mailbox \in SUBSET Delivery
  BY DEF TypeOK
<1>a. ASSUME Queued(e), Ahead(mailbox, e, d)
      PROVE  Done(e)' \/ \E c \in mailbox' : c.msg = e /\ c.id < d.id
  <2>1. \A c \in mailbox \ mailbox' : Done(c.msg)'
    BY GoneIsDone
  <2>2. CASE Done(e)
    BY <1>a, <2>2, DoneStays
  <2>3. ASSUME NEW c \in mailbox, c.msg = e, c.id < d.id
        PROVE  Done(e)' \/ c \in mailbox'
    BY <2>1, <2>3
  <2> QED BY <1>a, <2>2, <2>3 DEF Ahead
<1>1. CASE d \in mailbox
  <2>1. Queued(d.msg) /\ d.msg \in Message
    BY <1>0, <1>1 DEF Carried, Delivery
  <2>2. Before(e, d.msg)
    BY <2>1, BeforeStep
  <2>3. Queued(e) /\ Ahead(mailbox, e, d)
    BY <1>1, <2>2, BeforeQueued DEF MailboxInOrder
  <2> QED BY <1>a, <2>3
<1>2. CASE d \notin mailbox
  <2>1. PICK n \in Node : \E t \in Caller[n] : RelayPut(n, t)
    BY <1>2, MailboxStep
  <2>2. PICK t \in Caller[n] : RelayPut(n, t)
    BY <2>1
  <2>3. task[n][t].stage \in Stages
    BY <2>2 DEF RelayPut, Stages
  <2> DEFINE l == Sending(n, t)
  <2>4. d = [id |-> stored + 1, msg |-> l, at |-> now]
    BY <1>2, <2>2 DEF RelayPut, Live
  <2>5. l \in Message /\ Queued(l) /\ From[l] = n /\ d.msg = l /\ d.id = stored + 1
    BY <2>3, <2>4, RowIn, SendingQueued
  <2>6. Before(e, l)
    BY <2>5, BeforeStep
  <2>7. PICK p \in Node : \E j \in DOMAIN outbox[p] : \E i \in 1..j - 1 :
           outbox[p][i].msg = e /\ outbox[p][j].msg = l
    BY <2>6 DEF Before
  <2>8. p = n
    BY <2>5, <2>7 DEF OwnRows
  <2>9. PICK j \in DOMAIN outbox[n] : \E i \in 1..j - 1 :
           outbox[n][i].msg = e /\ outbox[n][j].msg = l
    BY <2>7, <2>8
  <2>10. PICK i \in 1..j - 1 : outbox[n][i].msg = e /\ outbox[n][j].msg = l
    BY <2>9
  <2>11. j = CurrentRow(n, t)
    BY <2>3, <2>10, RowIn DEF Sending, QueuedOnce
  <2>12. i \notin task[n][t].rows
    <3>1. j \in Nat /\ task[n][t].rows \in SUBSET Nat
      BY <2>3, RowTyped, TaskKinds DEF TypeOK, Tasks
    <3> QED BY <2>3, <2>11, <3>1, CurrentRowLeast
  <2>13. Accounted(e)
    BY <2>3, <2>10, <2>11, <2>12, RowIn DEF FlushedInOrder
  <2>14. Ahead(mailbox, e, d)
    <3>1. ASSUME NEW c \in mailbox, c.msg = e PROVE c.id < d.id
      <4>1. c.id \in Nat /\ c.id <= stored /\ stored \in Nat
        BY <1>0 DEF Stamped, Delivery
      <4> QED BY <2>5, <4>1
    <3> QED BY <2>13, <3>1 DEF Accounted, InMailbox, Ahead, Done
  <2> QED BY <1>a, <2>6, <2>14, BeforeQueued
<1> QED BY <1>1, <1>2

\* A fetch takes an older delivery whenever it takes a younger one.
LEMMA PageIsOldest ==
  ASSUME TypeOK, Stamped, NEW n \in Node, NEW d \in Page(n), NEW c \in Live,
         To[c.msg] = n, c.id < d.id
  PROVE  c \in Page(n)
<1> DEFINE box == MailboxOf(n, Live)
           C == {e \in box : e.id < c.id}
           D == {e \in box : e.id < d.id}
<1>1. IsFiniteSet(D)
  BY FS_Subset DEF Stamped, MailboxOf, Live
<1>2. d \in mailbox /\ c \in box /\ \A e \in box : e.id \in Nat
  BY DEF Page, MailboxOf, Live, TypeOK, Delivery
<1>3. C \subseteq D
  <2>1. c.id \in Nat /\ d.id \in Nat
    BY <1>2 DEF TypeOK, Delivery
  <2>2. \A e \in box : e.id < c.id => e.id < d.id
    <3> HIDE DEF box
    <3> QED BY <1>2, <2>1
  <2> QED BY <2>2
<1>4. Cardinality(C) <= Cardinality(D) /\ Cardinality(C) \in Nat /\ Cardinality(D) \in Nat
  BY <1>1, <1>3, FS_Subset, FS_CardinalityType
<1>5. Cardinality(D) < PageLimit
  BY DEF Page
<1>6. Cardinality(C) < PageLimit
  BY <1>4, <1>5, LimitsAssumption
<1> QED BY <1>2, <1>6 DEF Page

LEMMA PagesOrderStays ==
  ASSUME OnceInv, LossInv, OrderInv, [Next]_vars
  PROVE  PagesInOrder'
<1> USE DEF OnceInv, OrderInv
<1> SUFFICES ASSUME NEW p \in Node, NEW u \in Caller[p], task'[p][u].stage \in InboxStages,
                    NEW d \in task'[p][u].page, NEW e \in Message, Before(e, d.msg)'
             PROVE  Done(e)' \/ \E c \in task'[p][u].page : c.msg = e /\ c.id < d.id
  BY DEF PagesInOrder, Ahead
<1>1. CASE InboxFetch(p, u) /\ task'[p][u].page = Page(p)
  <2>1. d \in mailbox /\ To[d.msg] = p /\ d.msg \in Message /\ Queued(d.msg)
    BY <1>1 DEF Page, MailboxOf, Live, TypeOK, Delivery, Carried
  <2>2. Before(e, d.msg)
    BY <2>1, BeforeStep
  <2>3. Queued(e) /\ To[e] = p /\ Ahead(mailbox, e, d)
    BY <2>1, <2>2, BeforeQueued DEF MailboxInOrder, Before
  <2>4. CASE Done(e)
    BY <2>3, <2>4, DoneStays
  <2>5. ASSUME NEW c \in mailbox, c.msg = e, c.id < d.id
        PROVE  c \in task'[p][u].page \/ Done(e)'
    <3>1. CASE c \in Live
      BY <1>1, <2>3, <2>5, <3>1, PageIsOldest
    <3>2. CASE c \notin Live
      <4>1. Done(e)
        BY <2>5, <3>2, PurgedIsStale DEF Done, LossInv
      <4> QED BY <2>3, <4>1, DoneStays
    <3> QED BY <3>1, <3>2
  <2> QED BY <2>3, <2>4, <2>5 DEF Ahead
<1>2. CASE /\ task[p][u].stage \in InboxStages
           /\ \/ task'[p][u].page = task[p][u].page
              \/ /\ task[p][u].stage = "ack"
                 /\ task'[p][u].page = task[p][u].page \ {CurrentDelivery(p, u)}
  <2>0. d \in task[p][u].page
    BY <1>2
  <2>1. d.msg \in Message /\ Queued(d.msg)
    <3>0. task[p][u] \in Tasks
      BY DEF TypeOK, Tasks
    <3>1. task[p][u].page \in SUBSET Delivery
      BY <1>2, <3>0, TaskKinds
    <3> QED BY <1>2, <2>0, <3>1 DEF Delivery, Carried
  <2>2. Before(e, d.msg)
    BY <2>1, BeforeStep
  <2>3. Queued(e) /\ Ahead(task[p][u].page, e, d)
    BY <1>2, <2>0, <2>2, BeforeQueued DEF PagesInOrder
  <2>4. CASE Done(e)
    BY <2>3, <2>4, DoneStays
  <2>5. ASSUME NEW c \in task[p][u].page, c.msg = e, c.id < d.id
        PROVE  c \in task'[p][u].page \/ Done(e)'
    <3>1. CASE task[p][u].stage = "ack" /\ c = CurrentDelivery(p, u)
      <4>1. Done(e)
        BY <2>5, <3>1 DEF LossInv, AckedIsDone, Done
      <4> QED BY <2>3, <4>1, DoneStays
    <3>2. CASE ~(task[p][u].stage = "ack" /\ c = CurrentDelivery(p, u))
      BY <1>2, <2>5, <3>2
    <3> QED BY <3>1, <3>2
  <2> QED BY <2>3, <2>4, <2>5 DEF Ahead
<1> QED BY <1>1, <1>2, PageStep

\* The rows of a thread come from the start of a flush, and it drops one when the
\* Relay has taken it.
LEMMA FlushStep ==
  ASSUME TypeOK, Held, [Next]_vars, NEW p \in Node, NEW u \in Caller[p],
         task'[p][u].stage \in Stages
  PROVE  \/ FlushStart(p, u) /\ task'[p][u].rows = PendingRows(p)
         \/ /\ task[p][u].stage \in Stages
            /\ \/ task'[p][u].rows = task[p][u].rows
               \/ /\ task[p][u].stage = "stored"
                  /\ task'[p][u].rows = task[p][u].rows \ {CurrentRow(p, u)}
<1> DEFINE Goal == \/ FlushStart(p, u) /\ task'[p][u].rows = PendingRows(p)
                   \/ /\ task[p][u].stage \in Stages
                      /\ \/ task'[p][u].rows = task[p][u].rows
                         \/ /\ task[p][u].stage = "stored"
                            /\ task'[p][u].rows = task[p][u].rows \ {CurrentRow(p, u)}
<1>0. CASE task'[p][u] = task[p][u]
  BY <1>0
<1>i. Idle.stage \notin Stages
  BY DEF Idle, Stages
<1>1. CASE UNCHANGED task
  BY <1>0, <1>1
<1>2. ASSUME NEW n \in Node, Crash(n) PROVE Goal
  <2>1. p # n
    BY <1>2, <1>i DEF Crash, TypeOK
  <2> QED BY <1>0, <1>2, <2>1 DEF Crash, TypeOK
<1>3. ASSUME NEW n \in Node, NEW t \in Caller[n], NEW what, Does(n, t, what),
             what.stage \notin Stages
      PROVE  Goal
  BY <1>0, <1>3, DoesOnly
<1>d. ASSUME NEW n \in Node, NEW t \in Caller[n], NEW what, Does(n, t, what),
             task[n][t].stage \in Stages, what.rows = task[n][t].rows
      PROVE  Goal
  <2>1. CASE p = n /\ u = t
    BY <1>d, <2>1, DoesOnly
  <2>2. CASE ~(p = n /\ u = t)
    BY <1>0, <1>d, <2>2, DoesOnly
  <2> QED BY <2>1, <2>2
<1>4. ASSUME NEW n \in Node, NEW t \in Caller[n],
             InboxFetch(n, t) \/ InboxStep(n, t) \/ InboxAck(n, t) \/ InboxAckLost(n, t)
      PROVE  Goal
  <2>1. \E what : Does(n, t, what) /\ what.stage \notin Stages
    <3>1. CASE InboxFetch(n, t)
      BY <3>1 DEF InboxFetch, Stages
    <3>2. CASE InboxStep(n, t)
      <4>1. [task[n][t] EXCEPT !.stage = "ack"].stage = "ack"
        BY <3>2, GoesOn DEF InboxStep, InboxStages
      <4> QED BY <3>2, <4>1 DEF InboxStep, Stages
    <3>3. CASE InboxAck(n, t)
      <4> DEFINE rest == task[n][t].page \ {CurrentDelivery(n, t)}
      <4>1. Does(n, t, Idle) \/ Does(n, t, [stage |-> "handle", page |-> rest])
        BY <3>3 DEF InboxAck
      <4>2. [stage |-> "handle", page |-> rest].stage = "handle"
        OBVIOUS
      <4> HIDE DEF rest
      <4> QED BY <1>i, <4>1, <4>2 DEF Stages
    <3>4. CASE InboxAckLost(n, t)
      BY <1>i, <3>4 DEF InboxAckLost
    <3> QED BY <1>4, <3>1, <3>2, <3>3, <3>4
  <2> HIDE DEF Goal
  <2> QED BY <1>3, <2>1
<1>5. ASSUME NEW n \in Node, NEW t \in Caller[n], FlushStart(n, t) PROVE Goal
  <2>1. Does(n, t, [stage |-> "send", rows |-> PendingRows(n)])
    BY <1>5 DEF FlushStart
  <2> QED BY <1>0, <1>5, <2>1, DoesOnly
<1>6. ASSUME NEW n \in Node, NEW t \in Caller[n], RelayAllow(n, t) PROVE Goal
  <2>0. task[n][t].stage \in Stages
    BY <1>6 DEF RelayAllow, Stages
  <2>1. [task[n][t] EXCEPT !.stage = "allowed"].rows = task[n][t].rows
    BY <2>0, GoesOn DEF Stages
  <2> HIDE DEF Goal
  <2> QED BY <1>3, <1>6, <1>d, <1>i, <2>0, <2>1 DEF RelayAllow, SendFails
<1>7. ASSUME NEW n \in Node, NEW t \in Caller[n], RelayPut(n, t) PROVE Goal
  <2>0. task[n][t].stage \in Stages
    BY <1>7 DEF RelayPut, Stages
  <2>1. [task[n][t] EXCEPT !.stage = "stored"].rows = task[n][t].rows
    BY <2>0, GoesOn DEF Stages
  <2> HIDE DEF Goal
  <2> QED BY <1>3, <1>7, <1>d, <1>i, <2>0, <2>1 DEF RelayPut, SendFails
<1>8. ASSUME NEW n \in Node, NEW t \in Caller[n], FlushLost(n, t) PROVE Goal
  BY <1>3, <1>8, <1>i DEF FlushLost, SendFails
<1>9. ASSUME NEW n \in Node, NEW t \in Caller[n], FlushSent(n, t) PROVE Goal
  <2> DEFINE rest == task[n][t].rows \ {CurrentRow(n, t)}
  <2>0. task[n][t].stage = "stored" /\ task[n][t].stage \in Stages
    BY <1>9 DEF FlushSent, Stages
  <2>1. Does(n, t, Idle) \/ Does(n, t, [stage |-> "send", rows |-> rest])
    BY <1>9 DEF FlushSent, NextRow
  <2> QED BY <1>0, <1>3, <1>i, <2>0, <2>1, DoesOnly
<1>10. ASSUME Tick \/ RelayStats \/ UNCHANGED vars \/ \E m \in Message : Enqueue(m)
       PROVE  Goal
  BY <1>1, <1>10 DEF Tick, RelayStats, vars, Enqueue
<1> HIDE DEF Goal
<1>11. ASSUME NEW n \in Node, NEW t \in Caller[n],
              \/ FlushStart(n, t) \/ RelayAllow(n, t) \/ RelayPut(n, t)
              \/ FlushSent(n, t) \/ FlushLost(n, t)
              \/ InboxFetch(n, t) \/ InboxStep(n, t) \/ InboxAck(n, t) \/ InboxAckLost(n, t)
       PROVE  Goal
  BY <1>4, <1>5, <1>6, <1>7, <1>8, <1>9, <1>11
<1>12. Goal
  BY <1>2, <1>10, <1>11 DEF Next
<1> QED BY <1>12 DEF Goal

LEMMA FlushOrderStays ==
  ASSUME OnceInv, LossInv, OrderInv, [Next]_vars
  PROVE  FlushedInOrder'
<1> USE DEF OnceInv, OrderInv
<1> SUFFICES ASSUME NEW p \in Node, NEW u \in Caller[p], task'[p][u].stage \in Stages,
                    NEW j \in task'[p][u].rows, NEW i \in 1..j - 1, i \notin task'[p][u].rows,
                    NEW m, m = outbox'[p][i].msg
             PROVE  Accounted(m)'
  BY DEF FlushedInOrder
<1>1. ASSUME j \in DOMAIN outbox[p], Accounted(outbox[p][i].msg)
      PROVE  Accounted(m)'
  <2>1. i \in DOMAIN outbox[p]
    BY <1>1, RowTyped
  <2>2. m = outbox[p][i].msg /\ m \in Message /\ Queued(m)
    BY <2>1, RowsStay, RowTyped DEF OwnRows, Queued
  <2> QED BY <1>1, <2>2, AccountedStays
<1>2. CASE FlushStart(p, u) /\ task'[p][u].rows = PendingRows(p)
  <2>1. j \in DOMAIN outbox[p] /\ i \notin PendingRows(p)
    BY <1>2 DEF PendingRows
  <2>2. i \in DOMAIN outbox[p]
    BY <2>1, RowTyped
  <2>3. outbox[p][i].status = "sent"
    BY <2>1, <2>2, RowTyped DEF PendingRows, OutboxRow
  <2> QED BY <1>1, <2>1, <2>2, <2>3 DEF LossInv, LostOnlyWhenStale, Accounted
<1>3. CASE /\ task[p][u].stage \in Stages
           /\ \/ task'[p][u].rows = task[p][u].rows
              \/ /\ task[p][u].stage = "stored"
                 /\ task'[p][u].rows = task[p][u].rows \ {CurrentRow(p, u)}
  <2>1. j \in task[p][u].rows /\ j \in DOMAIN outbox[p]
    BY <1>3 DEF Held
  <2>2. CASE i \notin task[p][u].rows
    BY <1>1, <1>3, <2>1, <2>2 DEF FlushedInOrder
  <2>3. CASE i \in task[p][u].rows
    <3>1. task[p][u].stage = "stored" /\ i = CurrentRow(p, u)
      BY <1>3, <2>3
    <3> QED BY <1>1, <2>1, <3>1 DEF LossInv, StoredIsAccounted, Sending
  <2> QED BY <2>2, <2>3
<1> QED BY <1>2, <1>3, FlushStep

LEMMA OrderStays ==
  ASSUME OnceInv, LossInv, OrderInv, [Next]_vars
  PROVE  HandledInOrder'
<1> USE DEF OnceInv, OrderInv
<1>1. ASSUME NEW e \in Message, NEW l \in Message, Before(e, l)', Settled(l)'
      PROVE  Done(e)'
  <2>1. CASE Settled(l)
    <3>1. Before(e, l)
      BY <1>1, <2>1, BeforeStep DEF SettledWasQueued
    <3>2. Done(e)
      BY <2>1, <3>1 DEF Before, HandledInOrder, Done
    <3> QED BY <3>1, <3>2, BeforeQueued, DoneStays
  <2>2. CASE ~Settled(l)
    <3>1. PICK n \in Node : \E t \in Caller[n] : InboxStep(n, t) /\ CurrentDelivery(n, t).msg = l
      BY <1>1, <2>2, SettledStep
    <3>2. PICK t \in Caller[n] : InboxStep(n, t) /\ CurrentDelivery(n, t).msg = l
      BY <3>1
    <3>3. task[n][t].stage \in InboxStages
      BY <3>2 DEF InboxStep, InboxStages
    <3> DEFINE d == CurrentDelivery(n, t)
    <3>4. d \in task[n][t].page /\ d \in Delivery /\ Queued(l)
      BY <3>2, <3>3, DeliveryIn DEF Carried
    <3>5. Before(e, l)
      BY <1>1, <3>4, BeforeStep
    <3>6. Ahead(task[n][t].page, e, d)
      BY <3>2, <3>3, <3>4, <3>5 DEF PagesInOrder
    <3>7. \A c \in task[n][t].page : ~(c.id < d.id)
      <4>0. task[n][t].page \in SUBSET Delivery
        BY <3>3, TaskKinds DEF TypeOK, Tasks
      <4>1. \A c \in task[n][t].page : c.id \in Nat /\ d.id <= c.id
        BY <3>3, <4>0, CurrentDeliveryLeast DEF Delivery
      <4>2. d.id \in Nat
        BY <3>4 DEF Delivery
      <4> HIDE DEF d
      <4> QED BY <4>1, <4>2
    <3>8. Done(e)
      BY <3>6, <3>7 DEF Ahead
    <3> QED BY <3>5, <3>8, BeforeQueued, DoneStays
  <2> QED BY <2>1, <2>2
<1> SUFFICES ASSUME NEW n \in Node, NEW j \in DOMAIN outbox'[n], NEW i \in 1..j - 1,
                    NEW e, e = outbox'[n][i].msg, NEW l, l = outbox'[n][j].msg,
                    To[e] = To[l], Settled(l)'
             PROVE  Settled(e)' \/ Stale(e)'
  BY DEF HandledInOrder
<1>2. outbox'[n] \in Seq(OutboxRow)
  BY TypeStep DEF TypeOK
<1>3. i \in DOMAIN outbox'[n]
  BY <1>2
<1>4. e \in Message /\ l \in Message
  <2>1. outbox'[n][i] \in OutboxRow /\ outbox'[n][j] \in OutboxRow
    BY <1>2, <1>3
  <2> QED BY <2>1 DEF OutboxRow
<1>5. Before(e, l)'
  BY DEF Before
<1>6. Done(e)'
  BY <1>1, <1>4, <1>5
<1> QED BY <1>6 DEF Done

LEMMA OrderInit == Init => OrderInv
<1> SUFFICES ASSUME Init PROVE OrderInv
  OBVIOUS
<1>1. IsFiniteSet(mailbox)
  BY FS_EmptySet DEF Init
<1>2. \A n \in Node : \A t \in Caller[n] : task[n][t].stage = "idle"
  BY RoutesAssumption DEF Init, Idle
<1>3. \A n \in Node : DOMAIN outbox[n] = {}
  BY DEF Init
<1>4. QueuedOnce /\ HandledInOrder
  BY <1>3 DEF QueuedOnce, HandledInOrder
<1>5. SettledWasQueued
  BY DEF Init, SettledWasQueued, Settled
<1>6. Stamped /\ MailboxInOrder
  BY <1>1 DEF Init, Stamped, MailboxInOrder
<1>7. PagesInOrder /\ FlushedInOrder
  BY <1>2 DEF PagesInOrder, FlushedInOrder, Stages, InboxStages
<1> QED BY <1>4, <1>5, <1>6, <1>7 DEF OrderInv

\* Envelopes between two nodes are handled in the order they were queued, with
\* any number of threads that flush and poll, for any limits of the Relay and
\* clocks that differ by up to MaxSkew: a flush stops at the row that fails, a
\* fetch takes the oldest deliveries, and a batch is worked off from the front
\* (flush_outbox, fetch, process_inbox).
THEOREM OrderTheorem == Spec => []HandledInOrder
<1>1. OnceInv /\ LossInv /\ [Next]_vars => LossInv'
  BY TimelyStays, KnownStays, AckedStays, StoredStays, LostStays DEF LossInv
<1>2. OnceInv /\ LossInv /\ OrderInv /\ [Next]_vars => OrderInv'
  BY QueuedOnceStays, SettledQueuedStays, StampedStays, MailboxOrderStays, PagesOrderStays,
     FlushOrderStays, OrderStays DEF OnceInv, OrderInv
<1>3. OrderInv => HandledInOrder
  BY DEF OrderInv
<1> QED BY <1>1, <1>2, <1>3, OnceInit, OnceStep, LossInit, OrderInit, PTL DEF Spec

================================================================================
