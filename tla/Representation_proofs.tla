------------------------- MODULE Representation_proofs -------------------------
(***************************************************************************)
(* Theorems about Representation, for every set of memories, peers,        *)
(* sessions and threads and every bound.                                   *)
(***************************************************************************)
EXTENDS Representation, SequenceTheorems, WellFoundedInduction, TLAPS

\* A set of clone numbers that is not empty has a largest one.
LEMMA LargestNumber ==
  ASSUME NEW n \in Nat, NEW S, S \subseteq 1..n, S # {}
  PROVE  Max(S) \in S
<1>. DEFINE T == {n - s : s \in S}
<1>1. T \subseteq Nat /\ T # {}
  <2>1. \A s \in S : s \in Int /\ n - s \in Nat
    OBVIOUS
  <2>2. PICK s \in S : TRUE
    OBVIOUS
  <2>3. n - s \in T
    BY <2>2
  <2>. QED BY <2>1, <2>3
<1>2. PICK x \in T : \A y \in T : <<y, x>> \notin OpToRel(<, Nat)
  <2>. HIDE DEF T
  <2>. QED BY <1>1, WFMin, NatLessThanWellFounded
<1>3. \A y \in T : ~(y < x)
  BY <1>1, <1>2 DEF OpToRel
<1>4. PICK s \in S : x = n - s
  BY <1>2
<1>5. \A y \in S : s >= y
  <2>. SUFFICES ASSUME NEW y \in S PROVE s >= y
    OBVIOUS
  <2>1. n - y \in T
    OBVIOUS
  <2>2. ~(n - y < n - s)
    BY <1>3, <1>4, <2>1
  <2>3. s \in Int /\ y \in Int
    OBVIOUS
  <2>. QED BY <2>2, <2>3
<1>. QED BY <1>5 DEF Max

\* The newest active clone is active.
LEMMA NewestIsActive ==
  ASSUME clones \in Seq(Clone)
  PROVE  /\ NewestActive \in 0..Len(clones)
         /\ NewestActive # 0 => Is(NewestActive, "active")
<1>. DEFINE active == {c \in DOMAIN clones : clones[c].status = "active"}
<1>1. Len(clones) \in Nat /\ DOMAIN clones = 1..Len(clones)
  BY LenProperties
<1>2. CASE active = {}
  BY <1>1, <1>2 DEF NewestActive
<1>3. CASE active # {}
  <2>1. active \subseteq 1..Len(clones)
    BY <1>1
  <2>2. Max(active) \in active
    <3>. HIDE DEF active
    <3>. QED BY <1>1, <1>3, <2>1, LargestNumber
  <2>3. NewestActive = Max(active)
    BY <1>3 DEF NewestActive
  <2>. QED BY <1>1, <2>2, <2>3 DEF Is
<1>. QED BY <1>2, <1>3

--------------------------------------------------------------------------------
(* Types *)

LEMMA RequestTypes ==
  ASSUME TypeOK, NEW t \in Thread
  PROVE  /\ req[t] \in Request
         /\ req[t].clone \in 0..Len(clones) /\ req[t].delegate \in 0..Len(clones)
         /\ req[t].about \subseteq Session \X Peer \X Intent /\ req[t].peer \subseteq Peer
         /\ req[t].known \subseteq Memory
BY DEF TypeOK, Request

LEMMA IdleType ==
  /\ Idle \in Request /\ Idle.pc = "idle" /\ Idle.clone = 0 /\ Idle.delegate = 0
  /\ Idle.peer = {} /\ Idle.about = {}
BY DEF Idle, Request

\* Requests about a clone, requests about a negotiation, and a poll between two
\* messages.
LEMMA RequestForClone ==
  ASSUME NEW pc \in {"draft", "retire", "activate", "point"}, NEW c \in Nat
  PROVE  /\ ForClone(pc, c) \in Request
         /\ ForClone(pc, c).pc = pc /\ ForClone(pc, c).clone = c /\ ForClone(pc, c).delegate = 0
         /\ ForClone(pc, c).about = {} /\ ForClone(pc, c).peer = {}
BY DEF ForClone, Idle, Request

LEMMA RequestForSession ==
  ASSUME NEW pc \in {"start", "inbox"}, NEW s \in Session, NEW p \in Peer, NEW i \in Intent
  PROVE  /\ ForSession(pc, s, p, i) \in Request
         /\ ForSession(pc, s, p, i).pc = pc /\ ForSession(pc, s, p, i).clone = 0
         /\ ForSession(pc, s, p, i).delegate = 0
         /\ ForSession(pc, s, p, i).about = {<<s, p, i>>} /\ ForSession(pc, s, p, i).peer = {p}
<1>1. {<<s, p, i>>} \in SUBSET (Session \X Peer \X Intent) /\ {p} \in SUBSET Peer
  OBVIOUS
<1>. QED BY <1>1 DEF ForSession, Idle, Request

LEMMA AtThePage ==
  ASSUME TypeOK, NEW t \in Thread, NEW P \in SUBSET req[t].peer, NextMessage(t, P)
  PROVE  \E r \in Request :
           /\ Continue(t, r) /\ r.pc = "page" /\ r.clone = 0 /\ r.about = {}
           /\ r.peer = P /\ r.delegate = req[t].delegate
<1>1. PICK r : r = [req[t] EXCEPT !.pc = "page", !.clone = 0, !.about = {}, !.peer = P]
  OBVIOUS
<1>2. req[t] \in Request
  BY RequestTypes
<1>3. /\ r \in Request /\ r.pc = "page" /\ r.clone = 0 /\ r.about = {}
      /\ r.peer = P /\ r.delegate = req[t].delegate
  BY <1>1, <1>2 DEF Request
<1>. QED BY <1>1, <1>3 DEF NextMessage

LEMMA NoSessionType ==
  /\ NoSession \in SessionRow
  /\ NoSession.bound = 0 /\ NoSession.decider = 0 /\ NoSession.side = "none"
<1>1. (CHOOSE p \in Peer : TRUE) \in Peer
  BY ConstantsAssumption
<1>. QED BY <1>1, ConstantsAssumption DEF NoSession, SessionRow

LEMMA NumberOfClones ==
  ASSUME clones \in Seq(Clone)
  PROVE  /\ Len(clones) \in Nat /\ DOMAIN clones = 1..Len(clones)
         /\ \A c \in DOMAIN clones : clones[c] \in Clone
BY LenProperties, ElementOfSeq

\* A request that begins, changes or ends keeps the types of the table.
LEMMA RequestWritten ==
  ASSUME TypeOK, NEW t \in Thread, NEW r \in Request, r.clone \in 0..Len(clones),
         r.delegate \in 0..Len(clones), Continue(t, r),
         clones' \in Seq(Clone), Len(clones') >= Len(clones)
  PROVE  /\ req' \in [Thread -> Request]
         /\ \A u \in Thread : /\ req'[u].clone \in 0..Len(clones')
                               /\ req'[u].delegate \in 0..Len(clones')
<1>1. Len(clones) \in Nat /\ Len(clones') \in Nat
  BY LenProperties DEF TypeOK
<1>2. 0..Len(clones) \subseteq 0..Len(clones')
  BY <1>1
<1>. QED BY <1>1, <1>2 DEF TypeOK, Continue

\* What a step does to the clones: rows are appended, statuses change.
LEMMA ClonesType ==
  ASSUME TypeOK, [Next]_vars
  PROVE  clones' \in Seq(Clone) /\ Len(clones') >= Len(clones)
<1>0. /\ clones \in Seq(Clone) /\ Len(clones) \in Nat /\ DOMAIN clones = 1..Len(clones)
      /\ \A c \in DOMAIN clones : clones[c] \in Clone
  BY NumberOfClones DEF TypeOK
<1>1. CASE UNCHANGED clones
  BY <1>0, <1>1
<1>2. CASE \E m \in Memory : DeleteMemory(m)
  <2>1. PICK m \in Memory : DeleteMemory(m)
    BY <1>2
  <2>2. clones' = [c \in 1..Len(clones) |->
                  IF c \in Marked(m) THEN [clones[c] EXCEPT !.status = "outdated"] ELSE clones[c]]
    BY <1>0, <2>1 DEF DeleteMemory
  <2>3. \A c \in 1..Len(clones) : clones'[c] \in Clone
    BY <1>0, <2>2 DEF Clone
  <2>4. clones' \in [1..Len(clones) -> Clone]
    BY <2>2, <2>3
  <2>5. clones' \in Seq(Clone)
    BY <1>0, <2>4
  <2>6. Len(clones') = Len(clones)
    BY <1>0, <2>2, <2>5, LenProperties
  <2>. QED BY <1>0, <2>5, <2>6
<1>3. CASE \E t \in Thread : StoreDraft(t)
  <2>1. PICK t \in Thread : StoreDraft(t)
    BY <1>3
  <2>2. NewClone(req[t].known) \in Clone
    BY RequestTypes DEF NewClone, Clone
  <2>3. clones' = Append(clones, NewClone(req[t].known))
    BY <2>1 DEF StoreDraft
  <2>. QED BY <1>0, <2>2, <2>3, AppendProperties
<1>4. CASE \E t \in Thread : RetireOld(t) \/ StoreActivation(t)
  <2>1. PICK t \in Thread, s \in {"outdated", "active"} :
          clones' = [clones EXCEPT ![req[t].clone].status = s]
    BY <1>4 DEF RetireOld, StoreActivation
  <2>2. PICK c : c = req[t].clone
    OBVIOUS
  <2>3. CASE c \in DOMAIN clones
    <3>1. [clones[c] EXCEPT !.status = s] \in Clone
      BY <1>0, <2>3 DEF Clone
    <3>2. clones' = [clones EXCEPT ![c] = [clones[c] EXCEPT !.status = s]]
      BY <2>1, <2>2
    <3>. QED BY <1>0, <2>3, <3>1, <3>2, ExceptSeq
  <2>4. CASE c \notin DOMAIN clones
    <3>1. clones \in [1..Len(clones) -> Clone]
      BY <1>0
    <3>2. clones' = [clones EXCEPT ![c] = [clones[c] EXCEPT !.status = s]]
      BY <2>1, <2>2
    <3>3. clones' = clones
      BY <1>0, <2>4, <3>1, <3>2
    <3>. QED BY <1>0, <3>3
  <2>. QED BY <2>3, <2>4
<1>. QED BY <1>1, <1>2, <1>3, <1>4 DEF Next, OwnerActs, Step, vars, owner, CreateMemory, RegisterPeer,
       BlockPeer, EnsureClone, RebuildClone, ReadMemories, ActivateClone, ReadActive, Delegate,
       TrustPeer, StoreTrust, CheckPeer, FindDelegate, RefuseStart, StartAsNewDelegate,
       StartAsDelegate, OpenSession, CheckSender, HandleRequest, TakeOffer,
       AnswerOffer, RefuseSender, SkipMessage, DropRows, Crash

\* The rows other than the clones.
LEMMA RowsType ==
  ASSUME TypeOK, [Next]_vars
  PROVE  /\ memories' \in [Memory -> {"none", "active", "deleted"}]
         /\ peers' \in [Peer -> PeerRow]
<1>0. /\ memories \in [Memory -> {"none", "active", "deleted"}]
      /\ peers \in [Peer -> PeerRow]
  BY DEF TypeOK
<1>1. memories' \in [Memory -> {"none", "active", "deleted"}]
  BY <1>0 DEF Next, OwnerActs, Step, vars, owner, CreateMemory, DeleteMemory, RegisterPeer,
       BlockPeer, EnsureClone, RebuildClone, ReadMemories, StoreDraft, RetireOld, ActivateClone,
       StoreActivation, ReadActive, Delegate,
       TrustPeer, StoreTrust, CheckPeer, FindDelegate, RefuseStart, StartAsNewDelegate,
       StartAsDelegate, OpenSession, CheckSender, HandleRequest, TakeOffer,
       AnswerOffer, RefuseSender, SkipMessage, DropRows, Crash
<1>2. CASE UNCHANGED peers
  BY <1>0, <1>1, <1>2
<1>3. CASE \E p \in Peer : RegisterPeer(p)
  <2>1. PICK p \in Peer, card \in Card : peers' = [peers EXCEPT ![p] = Registered(card)]
    BY <1>3 DEF RegisterPeer
  <2>2. Registered(card) \in PeerRow
    BY ConstantsAssumption DEF Registered, PeerRow
  <2>. QED BY <1>0, <1>1, <2>1, <2>2
<1>4. CASE \E p \in Peer : BlockPeer(p)
  BY <1>0, <1>1, <1>4 DEF BlockPeer, PeerRow
<1>5. CASE \E t \in Thread : StoreTrust(t)
  <2>1. \A p \in Peer : [peers[p] EXCEPT !.status = "trusted"] \in PeerRow
    BY <1>0 DEF PeerRow
  <2>. QED BY <1>0, <1>1, <1>5, <2>1 DEF StoreTrust
<1>. QED BY <1>2, <1>3, <1>4, <1>5 DEF Next, OwnerActs, Step, vars, CreateMemory, DeleteMemory,
       EnsureClone, RebuildClone, ReadMemories, StoreDraft, RetireOld, ActivateClone,
       StoreActivation, ReadActive, Delegate, TrustPeer, CheckPeer, FindDelegate, RefuseStart,
       StartAsNewDelegate, StartAsDelegate, OpenSession, CheckSender, HandleRequest, TakeOffer,
       AnswerOffer, RefuseSender, SkipMessage, DropRows, Crash

\* The clones that may act are clones.
LEMMA DelegateTypes ==
  ASSUME TypeOK
  PROVE  /\ personal \in 0..Len(clones)
         /\ \A t \in Thread : StartsAs(t) \in 0..Len(clones)
         /\ \A t \in Thread, p \in Peer :
              Responder(t, p) \in 0..Len(clones) /\ DelegateRead(t, p) \in 0..Len(clones)
         /\ \A t \in Thread, s \in Session : ActingClone(t, s) \in 0..Len(clones)
<1>1. /\ clones \in Seq(Clone) /\ Len(clones) \in Nat
      /\ personal \in 0..Len(clones) /\ NewestActive \in 0..Len(clones)
      /\ \A t \in Thread : req[t].clone \in 0..Len(clones) /\ req[t].delegate \in 0..Len(clones)
      /\ 0 \in 0..Len(clones)
  BY NumberOfClones, NewestIsActive DEF TypeOK
<1>. QED BY <1>1 DEF StartsAs, Responder, DelegateRead, ActingClone

--------------------------------------------------------------------------------
(* What a request has read *)

\* A request that begins, goes on or ends as r; what it has read is what is there.
Moves(t, r) ==
  /\ r.delegate \in {0, req[t].delegate, personal}
  /\ \/ r = Idle
     \/ r.pc = "page" /\ r.clone = 0 /\ r.about = {} /\ r.peer \subseteq req[t].peer
     \/ r.pc \in {"draft", "retire"} /\ r.about = {} /\ r.peer = {}
     \/ /\ r.pc = "activate" /\ r.about = {} /\ r.peer = {}
        /\ Activatable(r.clone) /\ r.clone \in DOMAIN clones
     \/ /\ r.pc = "point" /\ r.about = {} /\ r.peer = {}
        /\ r.clone = NewestActive /\ UNCHANGED clones
     \/ /\ r.pc = "trust" /\ r.about = {}
        /\ \E p \in Peer : r.peer = {p} /\ peers[p].status = "pending"
     \/ /\ r.pc \in {"start", "inbox"} /\ r.clone = 0
        /\ \E s \in Session, p \in Peer, i \in Intent :
             /\ r.about = {<<s, p, i>>} /\ r.peer = {p}
             /\ p \in req[t].peer \/ Trusted(p)
             /\ \/ Fresh(s)
                \/ r.pc = "inbox" /\ sessions[s].side # "none" /\ sessions[s].peer = p
     \/ /\ req[t].pc = "start" /\ r.pc = "bind" /\ r.clone = NewestActive /\ UNCHANGED clones
        /\ r.about = req[t].about /\ r.peer = req[t].peer
     \/ /\ req[t].pc = "bind" /\ StartsAs(t) = personal /\ StartsAs(t) # 0
        /\ r.pc = "open" /\ r.clone = personal /\ UNCHANGED clones
        /\ r.about = req[t].about /\ r.peer = req[t].peer
     \/ /\ req[t].pc = "inbox" /\ r.pc = "decide" /\ Is(r.clone, "active") /\ UNCHANGED clones
        /\ r.about = req[t].about /\ r.peer = req[t].peer
        /\ \E a \in r.about : sessions[a[1]].side # "none"

\* One request moves at a time, unless the process dies.
LEMMA OneMoves ==
  ASSUME TypeOK, [Next]_vars, ~UNCHANGED req, ~Crash
  PROVE  \E t \in Thread, r \in Request :
           Continue(t, r) /\ r.clone \in 0..Len(clones) /\ Moves(t, r)
<1>0. /\ clones \in Seq(Clone) /\ Len(clones) \in Nat /\ DOMAIN clones = 1..Len(clones)
      /\ 0 \in 0..Len(clones)
      /\ req \in [Thread -> Request]
      /\ \A u \in Thread : req[u].clone \in 0..Len(clones) /\ req[u].delegate \in 0..Len(clones)
      /\ personal \in 0..Len(clones) /\ NewestActive \in 0..Len(clones)
  BY NumberOfClones, NewestIsActive DEF TypeOK
<1>1. \A c \in 0..Len(clones) : c \in Nat
  BY <1>0
<1>2. ASSUME NEW t \in Thread
      PROVE  req[t] \in Request
  BY <1>0
<1>3. CASE \E t \in Thread : Done(t)
  BY <1>0, <1>3, IdleType DEF Done, Moves
<1>4. CASE \E t \in Thread : NextMessage(t, req[t].peer) \/ NextMessage(t, {})
  <2>0. PICK t \in Thread : NextMessage(t, req[t].peer) \/ NextMessage(t, {})
    BY <1>4
  <2>1. PICK P \in SUBSET req[t].peer : NextMessage(t, P)
    BY <2>0
  <2>2. PICK r \in Request :
          /\ Continue(t, r) /\ r.pc = "page" /\ r.clone = 0 /\ r.about = {}
          /\ r.peer = P /\ r.delegate = req[t].delegate
    BY <2>1, AtThePage
  <2>3. Moves(t, r)
    BY <2>2 DEF Moves
  <2>. QED BY <1>0, <2>2, <2>3
<1>5. CASE \E t \in Thread : EnsureClone(t) \/ RebuildClone(t)
  <2>1. PICK t \in Thread, old \in 0..Len(clones) : ReadMemories(t, old)
    BY <1>0, <1>5 DEF EnsureClone, RebuildClone
  <2>2. PICK T \in Deduplicated(Exportable) : Continue(t, [ForClone("draft", old) EXCEPT !.known = T])
    BY <2>1 DEF ReadMemories, Begin
  <2>3. T \subseteq Memory
    BY DEF Deduplicated, Exportable
  <2>4. /\ ForClone("draft", old) \in Request
        /\ ForClone("draft", old).pc = "draft"
        /\ ForClone("draft", old).clone = old /\ ForClone("draft", old).delegate = 0
        /\ ForClone("draft", old).about = {} /\ ForClone("draft", old).peer = {}
    BY <1>1, RequestForClone
  <2>5. PICK r : r = [ForClone("draft", old) EXCEPT !.known = T]
    OBVIOUS
  <2>6. /\ r \in Request /\ r.pc = "draft" /\ r.clone = old /\ r.delegate = 0
        /\ r.about = {} /\ r.peer = {}
    BY <2>3, <2>4, <2>5 DEF Request
  <2>8. Moves(t, r)
    BY <1>0, <2>2, <2>5, <2>6 DEF Moves
  <2>. QED BY <1>0, <2>2, <2>5, <2>6, <2>8
<1>6. CASE \E t \in Thread : StoreDraft(t) /\ ~Done(t)
  <2>1. PICK t \in Thread : StoreDraft(t) /\ ~Done(t)
    BY <1>6
  <2>2. Continue(t, ForClone("retire", req[t].clone))
    BY <2>1 DEF StoreDraft
  <2>3. PICK r : r = ForClone("retire", req[t].clone)
    OBVIOUS
  <2>4. /\ r \in Request /\ r.pc = "retire" /\ r.clone = req[t].clone /\ r.delegate = 0
        /\ r.about = {} /\ r.peer = {}
    BY <1>0, <1>1, <2>3, RequestForClone
  <2>8. Moves(t, r)
    BY <1>0, <2>2, <2>3, <2>4 DEF Moves
  <2>. QED BY <1>0, <2>2, <2>3, <2>4, <2>8
<1>7. CASE \E t \in Thread : ActivateClone(t)
  <2>1. PICK t \in Thread, c \in DOMAIN clones : Activatable(c) /\ Continue(t, ForClone("activate", c))
    BY <1>7 DEF ActivateClone, Begin
  <2>2. c \in 0..Len(clones)
    BY <1>0
  <2>3. PICK r : r = ForClone("activate", c)
    OBVIOUS
  <2>4. /\ r \in Request /\ r.pc = "activate" /\ r.clone = c /\ r.delegate = 0
        /\ r.about = {} /\ r.peer = {}
    BY <1>1, <2>2, <2>3, RequestForClone
  <2>8. Moves(t, r)
    BY <1>0, <2>1, <2>2, <2>3, <2>4 DEF Moves
  <2>. QED BY <1>0, <2>1, <2>2, <2>3, <2>4, <2>8
<1>8. CASE \E t \in Thread : ReadActive(t)
  <2>1. PICK t \in Thread : Continue(t, ForClone("point", NewestActive)) /\ UNCHANGED clones
    BY <1>8 DEF ReadActive, Begin, owner
  <2>2. PICK r : r = ForClone("point", NewestActive)
    OBVIOUS
  <2>3. /\ r \in Request /\ r.pc = "point" /\ r.clone = NewestActive /\ r.delegate = 0
        /\ r.about = {} /\ r.peer = {}
    BY <1>0, <1>1, <2>2, RequestForClone
  <2>8. Moves(t, r)
    BY <1>0, <2>1, <2>2, <2>3 DEF Moves
  <2>. QED BY <1>0, <2>1, <2>2, <2>3, <2>8
<1>9. CASE \E t \in Thread : TrustPeer(t)
  <2>1. PICK t \in Thread, p \in Peer :
          MayBeTrusted(p) /\ Continue(t, [Idle EXCEPT !.pc = "trust", !.peer = {p}])
    BY <1>9 DEF TrustPeer, Begin
  <2>2. PICK r : r = [Idle EXCEPT !.pc = "trust", !.peer = {p}]
    OBVIOUS
  <2>3. /\ r \in Request /\ r.pc = "trust" /\ r.clone = 0 /\ r.delegate = 0
        /\ r.about = {} /\ r.peer = {p}
    BY <2>2 DEF Idle, Request
  <2>8. Moves(t, r)
    BY <1>0, <2>1, <2>2, <2>3 DEF Moves, MayBeTrusted
  <2>. QED BY <1>0, <2>1, <2>2, <2>3, <2>8
<1>10. CASE \E t \in Thread : CheckPeer(t)
  <2>1. PICK t \in Thread, s \in Session, p \in Peer, i \in Intent :
          Fresh(s) /\ Trusted(p) /\ Continue(t, ForSession("start", s, p, i))
    BY <1>10 DEF CheckPeer, Begin
  <2>2. PICK r : r = ForSession("start", s, p, i)
    OBVIOUS
  <2>3. /\ r \in Request /\ r.pc = "start" /\ r.clone = 0 /\ r.delegate = 0
        /\ r.about = {<<s, p, i>>} /\ r.peer = {p}
    BY <2>2, RequestForSession
  <2>8. Moves(t, r)
    BY <1>0, <2>1, <2>2, <2>3 DEF Moves
  <2>. QED BY <1>0, <2>1, <2>2, <2>3, <2>8
<1>11. CASE \E t \in Thread : CheckSender(t)
  <2>1. PICK t \in Thread, s \in Session, p \in Peer, i \in Intent :
          /\ p \in req[t].peer \/ Trusted(p)
          /\ Fresh(s) \/ (sessions[s].side # "none" /\ sessions[s].peer = p)
          /\ Continue(t, [ForSession("inbox", s, p, i) EXCEPT !.held = peers[p].ownerId,
                                                               !.delegate = DelegateRead(t, p)])
    BY <1>11 DEF CheckSender
  <2>2. /\ ForSession("inbox", s, p, i) \in Request
        /\ ForSession("inbox", s, p, i).pc = "inbox" /\ ForSession("inbox", s, p, i).clone = 0
        /\ ForSession("inbox", s, p, i).about = {<<s, p, i>>}
        /\ ForSession("inbox", s, p, i).peer = {p}
    BY RequestForSession
  <2>3. PICK r : r = [ForSession("inbox", s, p, i) EXCEPT !.held = peers[p].ownerId,
                                                          !.delegate = DelegateRead(t, p)]
    OBVIOUS
  <2>4. DelegateRead(t, p) \in Nat /\ DelegateRead(t, p) \in {0, req[t].delegate, personal}
    BY <1>0 DEF DelegateRead
  <2>6. peers[p].ownerId \in BOOLEAN
    BY DEF TypeOK, PeerRow
  <2>5. /\ r \in Request /\ r.pc = "inbox" /\ r.clone = 0 /\ r.delegate = DelegateRead(t, p)
        /\ r.about = {<<s, p, i>>} /\ r.peer = {p}
    BY <2>2, <2>3, <2>4, <2>6 DEF Request
  <2>8. Moves(t, r)
    BY <1>0, <2>1, <2>3, <2>4, <2>5 DEF Moves
  <2>. QED BY <1>0, <2>1, <2>3, <2>4, <2>5, <2>8
<1>12. CASE \E t \in Thread : FindDelegate(t)
  <2>1. PICK t \in Thread :
          /\ req[t].pc = "start" /\ UNCHANGED clones
          /\ Continue(t, [req[t] EXCEPT !.pc = "bind", !.clone = NewestActive])
    BY <1>12 DEF FindDelegate, At, owner
  <2>2. PICK r : r = [req[t] EXCEPT !.pc = "bind", !.clone = NewestActive]
    OBVIOUS
  <2>3. /\ r \in Request /\ r.pc = "bind" /\ r.clone = NewestActive /\ r.delegate = req[t].delegate
        /\ r.about = req[t].about /\ r.peer = req[t].peer
    BY <1>0, <1>1, <1>2, <2>2 DEF Request
  <2>8. Moves(t, r)
    BY <1>0, <2>1, <2>2, <2>3 DEF Moves
  <2>. QED BY <1>0, <2>1, <2>2, <2>3, <2>8
<1>13. CASE \E t \in Thread : StartAsDelegate(t)
  <2>1. PICK t \in Thread :
          /\ req[t].pc = "bind" /\ StartsAs(t) = personal /\ StartsAs(t) # 0 /\ UNCHANGED clones
          /\ Continue(t, [req[t] EXCEPT !.pc = "open", !.clone = personal])
    BY <1>13 DEF StartAsDelegate, At, owner
  <2>2. PICK r : r = [req[t] EXCEPT !.pc = "open", !.clone = personal]
    OBVIOUS
  <2>3. /\ r \in Request /\ r.pc = "open" /\ r.clone = personal /\ r.delegate = req[t].delegate
        /\ r.about = req[t].about /\ r.peer = req[t].peer
    BY <1>0, <1>1, <1>2, <2>2 DEF Request
  <2>8. Moves(t, r)
    BY <1>0, <2>1, <2>2, <2>3 DEF Moves
  <2>. QED BY <1>0, <2>1, <2>2, <2>3, <2>8
<1>14. CASE \E t \in Thread : TakeOffer(t)
  <2>0. PICK t \in Thread : TakeOffer(t)
    BY <1>14
  <2>1. PICK a \in req[t].about :
          /\ req[t].pc = "inbox" /\ UNCHANGED clones
          /\ sessions[a[1]].side # "none" /\ ActingClone(t, a[1]) # 0
          /\ Continue(t, [req[t] EXCEPT !.pc = "decide", !.clone = ActingClone(t, a[1])])
    BY <2>0 DEF TakeOffer, At, owner
  <2>2. PICK c : c = ActingClone(t, a[1])
    OBVIOUS
  <2>3. c \in 0..Len(clones) /\ Is(c, "active")
    BY <1>0, <2>1, <2>2, NewestIsActive DEF ActingClone
  <2>4. PICK r : r = [req[t] EXCEPT !.pc = "decide", !.clone = c]
    OBVIOUS
  <2>5. /\ r \in Request /\ r.pc = "decide" /\ r.clone = c /\ r.delegate = req[t].delegate
        /\ r.about = req[t].about /\ r.peer = req[t].peer
    BY <1>1, <1>2, <2>3, <2>4 DEF Request
  <2>8. Moves(t, r)
    BY <2>1, <2>2, <2>3, <2>4, <2>5 DEF Moves
  <2>. QED BY <2>1, <2>2, <2>3, <2>4, <2>5, <2>8
<1>. QED BY <1>3, <1>4, <1>5, <1>6, <1>7, <1>8, <1>9, <1>10, <1>11, <1>12, <1>13, <1>14
     DEF Next, OwnerActs, Step, vars, CreateMemory, DeleteMemory, RegisterPeer, BlockPeer, StoreDraft,
         RetireOld, StoreActivation, Delegate, StoreTrust, RefuseStart, StartAsNewDelegate, Open,
         OpenSession, HandleRequest, AnswerOffer, RefuseSender, SkipMessage, DropRows

LEMMA RequestStep ==
  ASSUME TypeOK, [Next]_vars, NEW u \in Thread
  PROVE  req'[u] = req[u] \/ Moves(u, req'[u])
<1>1. CASE UNCHANGED req
  BY <1>1
<1>2. CASE Crash
  BY <1>2, IdleType DEF Crash, Moves
<1>3. CASE ~UNCHANGED req /\ ~Crash
  <2>1. PICK t \in Thread, r \in Request : Continue(t, r) /\ Moves(t, r)
    BY <1>3, OneMoves
  <2>2. req'[u] = IF u = t THEN r ELSE req[u]
    BY <2>1 DEF Continue, TypeOK
  <2>. QED BY <2>1, <2>2
<1>. QED BY <1>1, <1>2, <1>3

\* The table of requests.
LEMMA RequestsType ==
  ASSUME TypeOK, [Next]_vars
  PROVE  /\ req' \in [Thread -> Request]
         /\ \A u \in Thread : /\ req'[u].clone \in 0..Len(clones')
                               /\ req'[u].delegate \in 0..Len(clones')
<1>0. /\ clones \in Seq(Clone) /\ Len(clones) \in Nat
      /\ req \in [Thread -> Request]
      /\ \A u \in Thread : req[u].clone \in 0..Len(clones) /\ req[u].delegate \in 0..Len(clones)
      /\ personal \in 0..Len(clones) /\ 0 \in 0..Len(clones)
  BY NumberOfClones DEF TypeOK
<1>1. /\ clones' \in Seq(Clone) /\ Len(clones') \in Nat /\ Len(clones') >= Len(clones)
      /\ 0..Len(clones) \subseteq 0..Len(clones')
  BY <1>0, ClonesType, LenProperties
<1>2. CASE UNCHANGED req
  BY <1>0, <1>1, <1>2
<1>3. CASE Crash
  BY <1>0, <1>1, <1>3, IdleType DEF Crash
<1>4. CASE ~UNCHANGED req /\ ~Crash
  <2>1. PICK t \in Thread, r \in Request :
          Continue(t, r) /\ r.clone \in 0..Len(clones) /\ r.delegate \in {0, req[t].delegate, personal}
    BY <1>4, OneMoves DEF Moves
  <2>2. r.delegate \in 0..Len(clones)
    BY <1>0, <2>1
  <2>. QED BY <1>1, <2>1, <2>2, RequestWritten
<1>. QED BY <1>2, <1>3, <1>4

\* The sessions.
LEMMA SessionsType ==
  ASSUME TypeOK, [Next]_vars
  PROVE  /\ sessions' \in [Session -> SessionRow]
         /\ \A s \in Session : /\ sessions'[s].bound \in 0..Len(clones')
                               /\ sessions'[s].decider \in 0..Len(clones')
<1>0. /\ clones \in Seq(Clone) /\ Len(clones) \in Nat
      /\ sessions \in [Session -> SessionRow]
      /\ \A s \in Session : sessions[s].bound \in 0..Len(clones) /\ sessions[s].decider \in 0..Len(clones)
  BY NumberOfClones DEF TypeOK
<1>1. Len(clones') \in Nat /\ Len(clones') >= Len(clones)
  BY ClonesType, LenProperties
<1>. SUFFICES /\ sessions' \in [Session -> SessionRow]
              /\ \A s \in Session : /\ sessions'[s].bound \in 0..Len(clones)
                                    /\ sessions'[s].decider \in 0..Len(clones)
  BY <1>0, <1>1
<1>2. CASE UNCHANGED sessions
  BY <1>0, <1>2
<1>3. ASSUME NEW t \in Thread, NEW c \in 0..Len(clones), Open(t, c)
      PROVE  /\ sessions' \in [Session -> SessionRow]
             /\ \A s \in Session : /\ sessions'[s].bound \in 0..Len(clones)
                                   /\ sessions'[s].decider \in 0..Len(clones)
  <2>1. PICK a \in req[t].about : sessions' = [sessions EXCEPT ![a[1]] =
         [NoSession EXCEPT !.side = "initiator", !.peer = a[2], !.intent = a[3],
                           !.bound = c, !.decider = c]]
    BY <1>3 DEF Open
  <2>2. a \in Session \X Peer \X Intent
    BY RequestTypes
  <2>3. PICK r : r = [NoSession EXCEPT !.side = "initiator", !.peer = a[2], !.intent = a[3],
                                       !.bound = c, !.decider = c]
    OBVIOUS
  <2>4. c \in Nat
    BY <1>0
  <2>5. r \in SessionRow /\ r.bound = c /\ r.decider = c
    BY <2>2, <2>3, <2>4, NoSessionType DEF SessionRow
  <2>6. sessions' = [sessions EXCEPT ![a[1]] = r]
    BY <2>1, <2>3
  <2>. QED BY <1>0, <2>2, <2>5, <2>6
<1>4. CASE \E t \in Thread : StartAsNewDelegate(t) \/ OpenSession(t)
  BY <1>3, <1>4, DelegateTypes, RequestTypes DEF StartAsNewDelegate, OpenSession
<1>5. CASE \E t \in Thread : HandleRequest(t)
  <2>1. PICK t \in Thread : HandleRequest(t)
    BY <1>5
  <2>2. PICK a \in req[t].about : sessions' = [sessions EXCEPT ![a[1]] =
            [NoSession EXCEPT !.side = "responder", !.peer = a[2], !.intent = a[3],
                              !.bound = Responder(t, a[2])]]
    BY <2>1 DEF HandleRequest
  <2>3. a \in Session \X Peer \X Intent
    BY RequestTypes
  <2>4. PICK r : r = [NoSession EXCEPT !.side = "responder", !.peer = a[2], !.intent = a[3],
                                       !.bound = Responder(t, a[2])]
    OBVIOUS
  <2>5. Responder(t, a[2]) \in 0..Len(clones)
    BY <2>3, DelegateTypes
  <2>6. Responder(t, a[2]) \in Nat
    BY <1>0, <2>5
  <2>7. r \in SessionRow /\ r.bound = Responder(t, a[2]) /\ r.decider = 0
    BY <2>3, <2>4, <2>6, NoSessionType DEF SessionRow
  <2>8. sessions' = [sessions EXCEPT ![a[1]] = r]
    BY <2>2, <2>4
  <2>. QED BY <1>0, <2>3, <2>5, <2>7, <2>8
<1>6. CASE \E t \in Thread : AnswerOffer(t)
  <2>1. PICK t \in Thread : AnswerOffer(t)
    BY <1>6
  <2>2. PICK s, c :
          /\ s \in Session
          /\ c = req[t].clone
          /\ sessions' = [sessions EXCEPT ![s].decider = c, ![s].turns = @ + 1,
                                          ![s].roles = @ \cup {RoleOf(s, c)}]
    <3>1. PICK a \in req[t].about : sessions' = [sessions EXCEPT ![a[1]].decider = req[t].clone,
             ![a[1]].turns = @ + 1, ![a[1]].roles = @ \cup {RoleOf(a[1], req[t].clone)}]
      BY <2>1 DEF AnswerOffer
    <3>2. a[1] \in Session
      BY RequestTypes
    <3>. QED BY <3>1, <3>2
  <2>3. PICK r : r = [sessions[s] EXCEPT !.decider = c, !.turns = @ + 1, !.roles = @ \cup {RoleOf(s, c)}]
    OBVIOUS
  <2>4. c \in 0..Len(clones)
    BY <2>2, RequestTypes
  <2>5. c \in Nat /\ RoleOf(s, c) \in {"initiator", "responder"} /\ sessions[s] \in SessionRow
    BY <1>0, <2>2, <2>4 DEF RoleOf
  <2>6. r \in SessionRow /\ r.bound = sessions[s].bound /\ r.decider = c
    <3>1. PICK n, R : n = sessions[s].turns + 1 /\ R = sessions[s].roles \cup {RoleOf(s, c)}
      OBVIOUS
    <3>2. n \in Nat /\ R \in SUBSET {"initiator", "responder"}
      BY <2>5, <3>1 DEF SessionRow
    <3>3. r = [sessions[s] EXCEPT !.decider = c, !.turns = n, !.roles = R]
      BY <2>3, <3>1
    <3>. QED BY <2>5, <3>2, <3>3 DEF SessionRow
  <2>7. sessions' = [sessions EXCEPT ![s] = r]
    BY <1>0, <2>2, <2>3
  <2>. QED BY <1>0, <2>4, <2>6, <2>7
<1>. QED BY <1>2, <1>4, <1>5, <1>6 DEF Next, OwnerActs, Step, vars, CreateMemory, DeleteMemory,
       RegisterPeer, BlockPeer, EnsureClone, RebuildClone, ReadMemories, StoreDraft, RetireOld,
       ActivateClone, StoreActivation, ReadActive, Delegate, TrustPeer, StoreTrust, CheckPeer,
       FindDelegate, RefuseStart, StartAsDelegate, CheckSender, TakeOffer, RefuseSender, SkipMessage,
       DropRows, Crash

LEMMA TypeInit == Init => TypeOK
<1>. SUFFICES ASSUME Init PROVE TypeOK
  OBVIOUS
<1>1. clones \in Seq(Clone) /\ Len(clones) = 0 /\ DOMAIN clones = {}
  BY DEF Init
<1>2. NoPeer \in PeerRow
  BY DEF NoPeer, PeerRow
<1>. QED BY <1>1, <1>2, IdleType, NoSessionType DEF Init, TypeOK

LEMMA TypeStep == TypeOK /\ [Next]_vars => TypeOK'
<1>. SUFFICES ASSUME TypeOK, [Next]_vars PROVE TypeOK'
  OBVIOUS
<1>0. /\ clones \in Seq(Clone) /\ Len(clones) \in Nat /\ DOMAIN clones = 1..Len(clones)
      /\ personal \in 0..Len(clones) /\ NewestActive \in 0..Len(clones)
      /\ \A t \in Thread : req[t].clone \in 0..Len(clones)
      /\ spoiled \subseteq DOMAIN clones
  BY NumberOfClones, NewestIsActive DEF TypeOK
<1>1. /\ clones' \in Seq(Clone) /\ Len(clones') \in Nat /\ Len(clones') >= Len(clones)
      /\ DOMAIN clones' = 1..Len(clones')
  BY ClonesType, LenProperties
<1>2. personal' \in 0..Len(clones)
  BY <1>0, DelegateTypes
  DEF Next, OwnerActs, Step, vars, CreateMemory, DeleteMemory, RegisterPeer, BlockPeer,
      EnsureClone, RebuildClone, ReadMemories, StoreDraft, RetireOld, ActivateClone,
      StoreActivation, ReadActive, Delegate, TrustPeer, StoreTrust, CheckPeer, FindDelegate,
      RefuseStart, StartAsNewDelegate, StartAsDelegate, OpenSession, CheckSender, HandleRequest,
      TakeOffer, AnswerOffer, RefuseSender, SkipMessage, DropRows, Crash
<1>3. spoiled' \subseteq DOMAIN clones
  BY <1>0 DEF Next, OwnerActs, Step, vars, owner, CreateMemory, DeleteMemory, SpeakFrom,
      RegisterPeer, BlockPeer,
      EnsureClone, RebuildClone, ReadMemories, StoreDraft, RetireOld, ActivateClone,
      StoreActivation, ReadActive, Delegate, TrustPeer, StoreTrust, CheckPeer, FindDelegate,
      RefuseStart, StartAsNewDelegate, StartAsDelegate, OpenSession, CheckSender, HandleRequest,
      TakeOffer, AnswerOffer, RefuseSender, SkipMessage, DropRows, Crash
<1>4. DOMAIN clones \subseteq DOMAIN clones' /\ 0..Len(clones) \subseteq 0..Len(clones')
  BY <1>0, <1>1
<1>. QED BY <1>1, <1>2, <1>3, <1>4, RowsType, RequestsType, SessionsType DEF TypeOK

\* Every row has its type: whatever requests overlap, what refers to a clone
\* refers to one that is there.
THEOREM TypeCorrect == Spec => []TypeOK
<1>. QED BY TypeInit, TypeStep, PTL DEF Spec

--------------------------------------------------------------------------------
(* What happens to the status of a clone *)

LEMMA StatusStep ==
  ASSUME TypeOK, [Next]_vars, NEW c \in DOMAIN clones
  PROVE  /\ c \in DOMAIN clones'
         /\ \/ clones'[c].status = clones[c].status
            \/ clones'[c].status = "outdated"
            \/ /\ clones'[c].status = "active" /\ c \notin spoiled'
               /\ \E t \in Thread : /\ req[t].pc = "activate" /\ req[t].clone = c
                                    /\ req'[t] # req[t]
<1>0. /\ clones \in Seq(Clone) /\ Len(clones) \in Nat /\ DOMAIN clones = 1..Len(clones)
      /\ \A d \in DOMAIN clones : clones[d] \in Clone
  BY NumberOfClones DEF TypeOK
<1>1. /\ Len(clones') \in Nat /\ Len(clones') >= Len(clones) /\ DOMAIN clones' = 1..Len(clones')
  BY ClonesType, LenProperties
<1>2. c \in DOMAIN clones'
  BY <1>0, <1>1
<1>3. CASE UNCHANGED clones
  BY <1>2, <1>3
<1>4. CASE \E m \in Memory : DeleteMemory(m)
  BY <1>0, <1>2, <1>4 DEF DeleteMemory, Clone
<1>5. CASE \E t \in Thread : StoreDraft(t)
  <2>1. PICK t \in Thread : StoreDraft(t)
    BY <1>5
  <2>2. NewClone(req[t].known) \in Clone
    BY RequestTypes DEF NewClone, Clone
  <2>3. clones' = Append(clones, NewClone(req[t].known))
    BY <2>1 DEF StoreDraft
  <2>4. clones'[c] = clones[c]
    BY <1>0, <2>2, <2>3, AppendProperties
  <2>. QED BY <1>2, <2>4
<1>6. CASE \E t \in Thread : RetireOld(t)
  <2>1. PICK t \in Thread : RetireOld(t)
    BY <1>6
  <2>2. clones' = [clones EXCEPT ![req[t].clone].status = "outdated"]
    BY <2>1 DEF RetireOld
  <2>. QED BY <1>0, <1>2, <2>2 DEF Clone
<1>7. CASE \E t \in Thread : StoreActivation(t)
  <2>1. PICK t \in Thread : StoreActivation(t)
    BY <1>7
  <2>2. /\ clones' = [clones EXCEPT ![req[t].clone].status = "active"] /\ req[t].pc = "activate"
        /\ req[t].clone \notin spoiled' /\ req'[t] # req[t]
    BY <2>1, IdleType DEF StoreActivation, At, Done, Continue, TypeOK
  <2>3. clones'[c].status = IF c = req[t].clone THEN "active" ELSE clones[c].status
    BY <1>0, <2>2 DEF Clone
  <2>. QED BY <1>2, <2>2, <2>3
<1>. QED BY <1>3, <1>4, <1>5, <1>6, <1>7 DEF Next, OwnerActs, Step, vars, owner, CreateMemory, RegisterPeer,
       BlockPeer, EnsureClone, RebuildClone, ReadMemories, ActivateClone, ReadActive, Delegate,
       TrustPeer, StoreTrust, CheckPeer, FindDelegate, RefuseStart, StartAsNewDelegate,
       StartAsDelegate, OpenSession, CheckSender, HandleRequest, TakeOffer,
       AnswerOffer, RefuseSender, SkipMessage, DropRows, Crash

--------------------------------------------------------------------------------
(* Drafts *)

\* c is no draft that waits for its review.
Reviewed(c) == ~Is(c, "review_required")

\* Neither the delegate nor a clone that a session or a request acts as is a
\* draft.
OnlyReviewedAct ==
  /\ Reviewed(personal)
  /\ \A s \in Session : Reviewed(sessions[s].bound) /\ Reviewed(sessions[s].decider)
  /\ \A t \in Thread : /\ Reviewed(req[t].delegate)
                       /\ req[t].pc \in {"point", "bind", "open", "decide"} => Reviewed(req[t].clone)

\* A review is not undone: what is no draft, or no clone, does not become one.
LEMMA ReviewKept ==
  ASSUME TypeOK, [Next]_vars, NEW c \in 0..Len(clones), Reviewed(c)
  PROVE  Reviewed(c)'
<1>0. /\ clones \in Seq(Clone) /\ Len(clones) \in Nat /\ DOMAIN clones = 1..Len(clones)
  BY NumberOfClones DEF TypeOK
<1>1. DOMAIN clones' = 1..Len(clones')
  BY ClonesType, LenProperties
<1>2. CASE c \in DOMAIN clones
  BY <1>2, StatusStep DEF Reviewed, Is
<1>3. CASE c = 0
  BY <1>1, <1>3, ClonesType, LenProperties DEF Reviewed, Is
<1>. QED BY <1>0, <1>2, <1>3

\* Who may act is reviewed.
LEMMA MayActReviewed ==
  ASSUME TypeOK, OnlyReviewedAct
  PROVE  /\ Reviewed(NewestActive)
         /\ \A t \in Thread : req[t].pc = "bind" => Reviewed(StartsAs(t))
         /\ \A t \in Thread, p \in Peer : Reviewed(Responder(t, p))
         /\ Reviewed(0)
<1>1. Reviewed(NewestActive) /\ Reviewed(0)
  BY NewestIsActive, NumberOfClones DEF TypeOK, Reviewed, Is
<1>. QED BY <1>1 DEF OnlyReviewedAct, StartsAs, Responder

LEMMA DraftsStep == TypeOK /\ OnlyReviewedAct /\ [Next]_vars => OnlyReviewedAct'
<1>. SUFFICES ASSUME TypeOK, OnlyReviewedAct, [Next]_vars PROVE OnlyReviewedAct'
  OBVIOUS
<1>0. TypeOK'
  BY TypeStep
<1>1. \A c \in 0..Len(clones) : Reviewed(c) => Reviewed(c)'
  BY ReviewKept
<1>2. Reviewed(personal)'
  <2>1. CASE UNCHANGED personal
    BY <1>1, <2>1 DEF TypeOK, OnlyReviewedAct, Reviewed, Is
  <2>2. CASE \E t \in Thread : StoreActivation(t)
    <3>1. PICK t \in Thread : StoreActivation(t)
      BY <2>2
    <3>2. /\ clones' = [clones EXCEPT ![req[t].clone].status = "active"]
          /\ personal' = req[t].clone
      BY <3>1 DEF StoreActivation
    <3>3. clones \in Seq(Clone) /\ DOMAIN clones' = DOMAIN clones
      BY <3>2 DEF TypeOK
    <3>4. req[t].clone \in DOMAIN clones => clones'[req[t].clone].status = "active"
      BY <3>2, <3>3, NumberOfClones DEF Clone
    <3>. QED BY <3>2, <3>3, <3>4 DEF Reviewed, Is
  <2>3. CASE \E t \in Thread : Delegate(t) \/ StartAsNewDelegate(t)
    <3>1. personal' \in 0..Len(clones) /\ Reviewed(personal') /\ UNCHANGED clones
      BY <2>3, MayActReviewed, DelegateTypes, RequestTypes
      DEF OnlyReviewedAct, Delegate, StartAsNewDelegate, At, owner
    <3>. QED BY <3>1 DEF Reviewed, Is
  <2>. QED BY <2>1, <2>2, <2>3 DEF Next, OwnerActs, Step, vars, CreateMemory, DeleteMemory, RegisterPeer,
         BlockPeer, EnsureClone, RebuildClone, ReadMemories, StoreDraft, RetireOld, ActivateClone,
         ReadActive, TrustPeer, StoreTrust, CheckPeer, FindDelegate, RefuseStart,
         StartAsDelegate, OpenSession, CheckSender, HandleRequest, TakeOffer,
       AnswerOffer, RefuseSender, SkipMessage, DropRows, Crash
<1>3. ASSUME NEW s \in Session PROVE Reviewed(sessions[s].bound)' /\ Reviewed(sessions[s].decider)'
  <2>0. /\ sessions[s].bound \in 0..Len(clones) /\ sessions[s].decider \in 0..Len(clones)
        /\ Reviewed(sessions[s].bound) /\ Reviewed(sessions[s].decider)
    BY DEF TypeOK, OnlyReviewedAct
  <2>1. CASE sessions'[s].bound = sessions[s].bound /\ sessions'[s].decider = sessions[s].decider
    BY <1>1, <2>0, <2>1 DEF Reviewed, Is
  <2>2. ASSUME NEW t \in Thread, NEW c \in 0..Len(clones), Open(t, c), Reviewed(c), UNCHANGED clones
        PROVE  Reviewed(sessions[s].bound)' /\ Reviewed(sessions[s].decider)'
    <3>1. PICK a \in req[t].about : sessions' = [sessions EXCEPT ![a[1]] =
            [NoSession EXCEPT !.side = "initiator", !.peer = a[2], !.intent = a[3],
                              !.bound = c, !.decider = c]]
      BY <2>2 DEF Open
    <3>2. PICK r : r = [NoSession EXCEPT !.side = "initiator", !.peer = a[2], !.intent = a[3],
                                         !.bound = c, !.decider = c]
      OBVIOUS
    <3>3. r.bound = c /\ r.decider = c
      BY <3>2, NoSessionType DEF SessionRow
    <3>4. sessions'[s] = r \/ sessions'[s] = sessions[s]
      BY <3>1, <3>2 DEF TypeOK
    <3>. QED BY <2>0, <2>2, <3>3, <3>4 DEF Reviewed, Is
  <2>3. CASE \E t \in Thread : StartAsNewDelegate(t) \/ OpenSession(t)
    BY <2>2, <2>3, MayActReviewed, DelegateTypes, RequestTypes
    DEF OnlyReviewedAct, StartAsNewDelegate, OpenSession, At, owner
  <2>4. CASE \E t \in Thread : HandleRequest(t)
    <3>1. PICK t \in Thread : HandleRequest(t)
      BY <2>4
    <3>2. PICK a \in req[t].about :
            /\ Responder(t, a[2]) # 0
            /\ sessions' = [sessions EXCEPT ![a[1]] =
                 [NoSession EXCEPT !.side = "responder", !.peer = a[2], !.intent = a[3],
                                   !.bound = Responder(t, a[2])]]
            /\ UNCHANGED clones
      BY <3>1 DEF HandleRequest, owner
    <3>3. a[2] \in Peer
      BY RequestTypes
    <3>4. PICK r : r = [NoSession EXCEPT !.side = "responder", !.peer = a[2], !.intent = a[3],
                                         !.bound = Responder(t, a[2])]
      OBVIOUS
    <3>5. r.bound = Responder(t, a[2]) /\ r.decider = 0
      BY <3>4, NoSessionType DEF SessionRow
    <3>6. sessions'[s] = r \/ sessions'[s] = sessions[s]
      BY <3>2, <3>4 DEF TypeOK
    <3>7. Reviewed(Responder(t, a[2])) /\ Reviewed(0)
      BY <3>2, <3>3, MayActReviewed
    <3>. QED BY <2>0, <3>2, <3>5, <3>6, <3>7 DEF Reviewed, Is
  <2>5. CASE \E t \in Thread : AnswerOffer(t)
    <3>1. PICK t \in Thread : AnswerOffer(t)
      BY <2>5
    <3>2. PICK a \in req[t].about :
            /\ sessions' = [sessions EXCEPT ![a[1]].decider = req[t].clone, ![a[1]].turns = @ + 1,
                                            ![a[1]].roles = @ \cup {RoleOf(a[1], req[t].clone)}]
            /\ UNCHANGED clones
      BY <3>1 DEF AnswerOffer, owner
    <3>3. a[1] \in Session
      BY RequestTypes
    <3>4. /\ sessions'[s].bound = sessions[s].bound
          /\ sessions'[s].decider = sessions[s].decider \/ sessions'[s].decider = req[t].clone
      BY <3>2, <3>3 DEF TypeOK, SessionRow
    <3>5. Reviewed(req[t].clone)
      BY <3>1 DEF OnlyReviewedAct, AnswerOffer, At
    <3>. QED BY <2>0, <3>2, <3>4, <3>5 DEF Reviewed, Is
  <2>. QED BY <2>1, <2>3, <2>4, <2>5 DEF Next, OwnerActs, Step, vars, CreateMemory, DeleteMemory,
         RegisterPeer, BlockPeer, EnsureClone, RebuildClone, ReadMemories, StoreDraft, RetireOld,
         ActivateClone, StoreActivation, ReadActive, Delegate, TrustPeer, StoreTrust, CheckPeer,
         FindDelegate, RefuseStart, StartAsDelegate, CheckSender, TakeOffer, RefuseSender, SkipMessage,
       DropRows, Crash
<1>4. ASSUME NEW t \in Thread
      PROVE  /\ Reviewed(req[t].delegate)'
             /\ req'[t].pc \in {"point", "bind", "open", "decide"} => Reviewed(req[t].clone)'
  <2>1. CASE req'[t] = req[t]
    BY <1>1, <2>1, RequestTypes DEF OnlyReviewedAct, Reviewed, Is
  <2>2. CASE Moves(t, req'[t])
    <3>1. Reviewed(req[t].delegate)'
      <4>1. /\ req'[t].delegate \in {0, req[t].delegate, personal}
            /\ 0 \in 0..Len(clones) /\ personal \in 0..Len(clones)
        BY <2>2, NumberOfClones DEF Moves, TypeOK
      <4>2. PICK d \in 0..Len(clones) : d = req'[t].delegate /\ Reviewed(d)
        BY <4>1, MayActReviewed, RequestTypes DEF OnlyReviewedAct
      <4>3. Reviewed(d)'
        BY <1>1, <4>2
      <4>. QED BY <4>2, <4>3 DEF Reviewed, Is
    <3>2. ASSUME req'[t].pc \in {"point", "bind", "open", "decide"} PROVE Reviewed(req[t].clone)'
      <4>1. /\ UNCHANGED clones
            /\ req'[t].clone \in {NewestActive, personal} \/ Is(req'[t].clone, "active")
        BY <2>2, <3>2, IdleType DEF Moves
      <4>. QED BY <4>1, MayActReviewed DEF OnlyReviewedAct, Reviewed, Is
    <3>. QED BY <3>1, <3>2
  <2>. QED BY <2>1, <2>2, RequestStep
<1>. QED BY <1>2, <1>3, <1>4 DEF OnlyReviewedAct, Reviewed, Is

LEMMA DraftsInit == Init => OnlyReviewedAct
BY IdleType, NoSessionType DEF Init, OnlyReviewedAct, Reviewed, Is

\* A draft acts for nobody: whatever drafts, activations and requests overlap,
\* it is not the delegate, no session is bound to it and it decides no offer.
THEOREM DraftsNeverAct == Spec => []DraftsActForNobody
<1>1. OnlyReviewedAct => DraftsActForNobody
  BY DEF OnlyReviewedAct, DraftsActForNobody, Reviewed
<1>2. Spec => []OnlyReviewedAct
  BY DraftsInit, DraftsStep, TypeCorrect, PTL DEF Spec
<1>. QED BY <1>1, <1>2, PTL

--------------------------------------------------------------------------------
(* Deleted memories *)

\* A clone that lost a memory while it was active is outdated until it is
\* activated again.
SpoiledAreOut == \A c \in spoiled : Is(c, "outdated")

\* Who may be activated, or is active, is not spoiled, and neither is nobody.
LEMMA MayActUnspoiled ==
  ASSUME TypeOK, SpoiledAreOut
  PROVE  /\ NewestActive \notin spoiled
         /\ 0 \notin spoiled
         /\ \A c \in DOMAIN clones : Activatable(c) => c \notin spoiled
         /\ \A c : Is(c, "active") => c \notin spoiled
<1>0. clones \in Seq(Clone) /\ 0 \notin DOMAIN clones
  BY NumberOfClones DEF TypeOK
<1>1. \A c : Is(c, "active") => c \notin spoiled
  BY DEF SpoiledAreOut, Is
<1>2. 0 \notin spoiled
  BY <1>0 DEF SpoiledAreOut, Is
<1>3. NewestActive \notin spoiled
  BY <1>1, <1>2, NewestIsActive DEF TypeOK
<1>. QED BY <1>1, <1>2, <1>3 DEF SpoiledAreOut, Is, Activatable

LEMMA SpoiledStep == TypeOK /\ SpoiledAreOut /\ [Next]_vars => SpoiledAreOut'
<1>. SUFFICES ASSUME TypeOK, SpoiledAreOut, [Next]_vars, NEW c \in spoiled'
              PROVE  Is(c, "outdated")'
  BY DEF SpoiledAreOut
<1>1. CASE c \in spoiled
  BY <1>1, StatusStep DEF SpoiledAreOut, Is
<1>2. CASE c \notin spoiled
  <2>1. PICK m \in Memory : DeleteMemory(m)
    BY <1>2 DEF Next, OwnerActs, Step, vars, owner, CreateMemory, RegisterPeer, BlockPeer,
      EnsureClone, RebuildClone, ReadMemories, StoreDraft, RetireOld, ActivateClone,
      StoreActivation, ReadActive, Delegate, TrustPeer, StoreTrust, CheckPeer, FindDelegate,
      RefuseStart, StartAsNewDelegate, StartAsDelegate, OpenSession, CheckSender, HandleRequest,
      TakeOffer, AnswerOffer, RefuseSender, SkipMessage, DropRows, Crash
  <2>2. c \in DOMAIN clones /\ c \in Marked(m)
    BY <1>2, <2>1 DEF DeleteMemory, SpeakFrom, Marked
  <2>3. DOMAIN clones' = DOMAIN clones /\ clones'[c].status = "outdated"
    BY <2>1, <2>2, NumberOfClones DEF DeleteMemory, TypeOK, Clone
  <2>. QED BY <2>2, <2>3 DEF Is
<1>. QED BY <1>1, <1>2

LEMMA SpoiledInit == Init => SpoiledAreOut
BY DEF Init, SpoiledAreOut

\* No request takes a spoiled clone up.
LEMMA NotTakenUp ==
  ASSUME TypeOK, SpoiledAreOut, [Next]_vars, NEW c \in spoiled, NEW t \in Thread, c \in Checked(t)'
  PROVE  c \in Checked(t)
<1>1. req'[t].pc \in {"activate", "bind", "open", "decide"} /\ req'[t].clone = c
  BY DEF Checked
<1>2. CASE req'[t] = req[t]
  BY <1>1, <1>2 DEF Checked
<1>3. CASE Moves(t, req'[t])
  <2>1. ~Is(c, "active") /\ c # NewestActive /\ c # 0
    BY MayActUnspoiled
  <2>2. ~(Activatable(c) /\ c \in DOMAIN clones)
    BY MayActUnspoiled
  <2>3. req[t].pc = "bind" /\ c = personal /\ c = StartsAs(t)
    BY <1>1, <1>3, <2>1, <2>2, IdleType DEF Moves
  <2>4. c = req[t].clone
    BY <2>1, <2>3 DEF StartsAs
  <2>. QED BY <2>3, <2>4 DEF Checked
<1>. QED BY <1>2, <1>3, RequestStep

\* A clone that begins a session or answers an offer of one, and is spoiled, had
\* been checked by the request that does it.
LEMMA SpoiledActs ==
  ASSUME TypeOK, SpoiledAreOut, Next, NEW s \in Session, Acts(s), sessions'[s].decider \in spoiled
  PROVE  \E t \in Thread : sessions'[s].decider \in Checked(t) /\ req'[t] # req[t]
<1>0. sessions \in [Session -> SessionRow] /\ req \in [Thread -> Request]
  BY DEF TypeOK
<1>1. sessions'[s] # sessions[s]
  BY DEF Acts
<1>2. ASSUME NEW t \in Thread, NEW c, Open(t, c) PROVE sessions'[s].decider = c /\ req'[t] = Idle
  <2>1. PICK a \in req[t].about : sessions' = [sessions EXCEPT ![a[1]] =
          [NoSession EXCEPT !.side = "initiator", !.peer = a[2], !.intent = a[3],
                            !.bound = c, !.decider = c]]
    BY <1>2 DEF Open
  <2>2. PICK r : r = [NoSession EXCEPT !.side = "initiator", !.peer = a[2], !.intent = a[3],
                                       !.bound = c, !.decider = c]
    OBVIOUS
  <2>3. r.decider = c
    BY <2>2, NoSessionType DEF SessionRow
  <2>4. sessions'[s] = r
    BY <1>0, <1>1, <2>1, <2>2
  <2>. QED BY <1>0, <1>2, <2>3, <2>4 DEF Open, Done, Continue
<1>3. CASE \E t \in Thread : OpenSession(t)
  BY <1>2, <1>3, IdleType DEF OpenSession, At, Checked
<1>4. CASE \E t \in Thread : StartAsNewDelegate(t)
  <2>1. PICK t \in Thread : StartAsNewDelegate(t)
    BY <1>4
  <2>2. /\ req[t].pc = "bind" /\ StartsAs(t) # 0
        /\ sessions'[s].decider = StartsAs(t) /\ req'[t] = Idle
    BY <1>2, <2>1 DEF StartAsNewDelegate, At
  <2>3. StartsAs(t) = req[t].clone
    BY <2>2, MayActUnspoiled DEF StartsAs
  <2>. QED BY <2>2, <2>3, IdleType DEF Checked
<1>5. CASE \E t \in Thread : HandleRequest(t)
  <2>1. PICK t \in Thread : HandleRequest(t)
    BY <1>5
  <2>2. PICK a \in req[t].about :
          /\ sessions[a[1]] = NoSession
          /\ sessions' = [sessions EXCEPT ![a[1]] =
               [NoSession EXCEPT !.side = "responder", !.peer = a[2], !.intent = a[3],
                                 !.bound = Responder(t, a[2])]]
    BY <2>1 DEF HandleRequest
  <2>3. PICK r : r = [NoSession EXCEPT !.side = "responder", !.peer = a[2], !.intent = a[3],
                                       !.bound = Responder(t, a[2])]
    OBVIOUS
  <2>4. r.side = "responder" /\ r.turns = NoSession.turns
    BY <2>3, NoSessionType DEF SessionRow
  <2>5. sessions'[s] = r /\ sessions[s] = NoSession
    BY <1>0, <1>1, <2>2, <2>3
  <2>6. ~Acts(s)
    BY <2>4, <2>5 DEF Acts
  <2>. QED BY <2>6
<1>6. CASE \E t \in Thread : AnswerOffer(t)
  <2>1. PICK t \in Thread : AnswerOffer(t)
    BY <1>6
  <2>2. PICK a \in req[t].about :
          sessions' = [sessions EXCEPT ![a[1]].decider = req[t].clone, ![a[1]].turns = @ + 1,
                                       ![a[1]].roles = @ \cup {RoleOf(a[1], req[t].clone)}]
    BY <2>1 DEF AnswerOffer
  <2>3. sessions'[s].decider = req[t].clone
    BY <1>0, <1>1, <2>2 DEF SessionRow
  <2>4. req[t].pc = "decide" /\ req'[t].pc = "page"
    BY <1>0, <2>1, AtThePage DEF AnswerOffer, At, Continue
  <2>. QED BY <2>3, <2>4 DEF Checked
<1>. QED BY <1>1, <1>3, <1>4, <1>5, <1>6 DEF Next, OwnerActs, Step, CreateMemory, DeleteMemory,
       RegisterPeer, BlockPeer, EnsureClone, RebuildClone, ReadMemories, StoreDraft, RetireOld,
       ActivateClone, StoreActivation, ReadActive, Delegate, TrustPeer, StoreTrust, CheckPeer,
       FindDelegate, RefuseStart, StartAsDelegate, CheckSender, TakeOffer, RefuseSender, SkipMessage,
       DropRows, Crash

\* Deleting a memory reaches every clone that speaks from it: until it is
\* activated again, no request and no message takes it up, and it acts only in
\* those that had checked it before.
THEOREM DeletionHeeded == Spec => DeletionIsHeeded
<1>1. Spec => [](TypeOK /\ SpoiledAreOut)
  BY SpoiledInit, SpoiledStep, TypeInit, TypeStep, PTL DEF Spec
<1>2. (TypeOK /\ SpoiledAreOut) /\ (TypeOK /\ SpoiledAreOut)' /\ [Next]_vars =>
      [\A c \in spoiled :
         /\ \A t \in Thread : c \in Checked(t)' => c \in Checked(t)
         /\ \/ clones'[c].status # "outdated"
            \/ \E s \in Session : Acts(s) /\ sessions'[s].decider = c
            => \E t \in Thread : c \in Checked(t) /\ req'[t] # req[t]]_vars
  <2>. SUFFICES ASSUME TypeOK, SpoiledAreOut, Next, NEW c \in spoiled
                PROVE  /\ \A t \in Thread : c \in Checked(t)' => c \in Checked(t)
                       /\ \/ clones'[c].status # "outdated"
                          \/ \E s \in Session : Acts(s) /\ sessions'[s].decider = c
                          => \E t \in Thread : c \in Checked(t) /\ req'[t] # req[t]
    OBVIOUS
  <2>1. \A t \in Thread : c \in Checked(t)' => c \in Checked(t)
    BY NotTakenUp
  <2>2. ASSUME clones'[c].status # "outdated"
        PROVE  \E t \in Thread : c \in Checked(t) /\ req'[t] # req[t]
    <3>1. c \in DOMAIN clones /\ clones[c].status = "outdated"
      BY DEF SpoiledAreOut, Is
    <3>2. PICK t \in Thread : req[t].pc = "activate" /\ req[t].clone = c /\ req'[t] # req[t]
      BY <2>2, <3>1, StatusStep
    <3>. QED BY <3>2 DEF Checked
  <2>3. ASSUME NEW s \in Session, Acts(s), sessions'[s].decider = c
        PROVE  \E t \in Thread : c \in Checked(t) /\ req'[t] # req[t]
    BY <2>3, SpoiledActs
  <2>. QED BY <2>1, <2>2, <2>3
<1>. QED BY <1>1, <1>2, PTL DEF Spec, DeletionIsHeeded

--------------------------------------------------------------------------------
(* Blocked peers *)

\* What a request has read of its session still holds: it is the only one
\* about a session that is not there, and the session's peer is its peer.
Accords(t) ==
  \A a \in req[t].about :
    /\ a[2] \in req[t].peer
    /\ \A b \in req[t].about : b = a
    /\ req[t].pc \in {"start", "bind", "open", "inbox", "decide"}
    /\ req[t].pc \in {"start", "bind", "open"} => sessions[a[1]].side = "none"
    /\ req[t].pc = "decide" => sessions[a[1]].side # "none"
    /\ sessions[a[1]].side = "none" \/ sessions[a[1]].peer = a[2]
    /\ \A u \in Thread : \A b \in req[u].about :
         u # t /\ a[1] = b[1] => sessions[a[1]].side # "none"

RequestsAccord == \A t \in Thread : Accords(t)

\* A session that changes was opened, or had an offer answered, by a request.
LEMMA SessionStep ==
  ASSUME TypeOK, [Next]_vars, NEW s \in Session, sessions'[s] # sessions[s]
  PROVE  \E t \in Thread : \E a \in req[t].about :
           /\ a[1] = s /\ req'[t].about = {}
           /\ \A u \in Thread : u # t => req'[u] = req[u]
           /\ \A z \in Session : z # s => sessions'[z] = sessions[z]
           /\ \/ /\ sessions'[s].side # "none" /\ sessions'[s].peer = a[2]
                 /\ sessions[s].side = "none" \/ req[t].pc \in {"bind", "open"}
              \/ /\ req[t].pc = "decide"
                 /\ sessions'[s].side = sessions[s].side /\ sessions'[s].peer = sessions[s].peer
<1>0. sessions \in [Session -> SessionRow]
  BY DEF TypeOK
<1>7. ASSUME NEW t \in Thread, Done(t) \/ NextMessage(t, req[t].peer) \/ NextMessage(t, {})
      PROVE  req'[t].about = {} /\ \A u \in Thread : u # t => req'[u] = req[u]
  BY <1>7, IdleType, AtThePage DEF TypeOK, Done, Continue
<1>1. ASSUME NEW t \in Thread, NEW c, Open(t, c), req[t].pc \in {"bind", "open"}
      PROVE  \E a \in req[t].about :
               /\ a[1] = s /\ Done(t)
               /\ \A z \in Session : z # s => sessions'[z] = sessions[z]
               /\ sessions'[s].side # "none" /\ sessions'[s].peer = a[2]
  <2>1. PICK a \in req[t].about : sessions' = [sessions EXCEPT ![a[1]] =
          [NoSession EXCEPT !.side = "initiator", !.peer = a[2], !.intent = a[3],
                            !.bound = c, !.decider = c]]
    BY <1>1 DEF Open
  <2>2. PICK r : r = [NoSession EXCEPT !.side = "initiator", !.peer = a[2], !.intent = a[3],
                                       !.bound = c, !.decider = c]
    OBVIOUS
  <2>3. r.side = "initiator" /\ r.peer = a[2]
    BY <2>2, NoSessionType DEF SessionRow
  <2>4. a[1] = s /\ sessions'[s] = r /\ \A z \in Session : z # s => sessions'[z] = sessions[z]
    BY <1>0, <2>1, <2>2
  <2>. QED BY <1>1, <2>3, <2>4 DEF Open
<1>2. CASE \E t \in Thread : StartAsNewDelegate(t) \/ OpenSession(t)
  <2>1. PICK t \in Thread : StartAsNewDelegate(t) \/ OpenSession(t)
    BY <1>2
  <2>2. PICK c : Open(t, c) /\ req[t].pc \in {"bind", "open"}
    BY <2>1 DEF StartAsNewDelegate, OpenSession, At
  <2>. QED BY <1>1, <1>7, <2>2
<1>3. CASE \E t \in Thread : HandleRequest(t)
  <2>1. PICK t \in Thread : HandleRequest(t)
    BY <1>3
  <2>2. PICK a \in req[t].about :
          /\ sessions[a[1]] = NoSession
          /\ sessions' = [sessions EXCEPT ![a[1]] =
               [NoSession EXCEPT !.side = "responder", !.peer = a[2], !.intent = a[3],
                                 !.bound = Responder(t, a[2])]]
    BY <2>1 DEF HandleRequest
  <2>3. PICK r : r = [NoSession EXCEPT !.side = "responder", !.peer = a[2], !.intent = a[3],
                                       !.bound = Responder(t, a[2])]
    OBVIOUS
  <2>4. r.side = "responder" /\ r.peer = a[2]
    BY <2>3, NoSessionType DEF SessionRow
  <2>5. /\ a[1] = s /\ sessions'[s] = r /\ sessions[s].side = "none"
        /\ \A z \in Session : z # s => sessions'[z] = sessions[z]
    BY <1>0, <2>2, <2>3, NoSessionType
  <2>. QED BY <1>7, <2>1, <2>4, <2>5 DEF HandleRequest
<1>4. CASE \E t \in Thread : AnswerOffer(t)
  <2>1. PICK t \in Thread : AnswerOffer(t)
    BY <1>4
  <2>2. PICK a \in req[t].about :
          sessions' = [sessions EXCEPT ![a[1]].decider = req[t].clone, ![a[1]].turns = @ + 1,
                                       ![a[1]].roles = @ \cup {RoleOf(a[1], req[t].clone)}]
    BY <2>1 DEF AnswerOffer
  <2>3. a[1] = s /\ \A z \in Session : z # s => sessions'[z] = sessions[z]
    BY <1>0, <2>2
  <2>4. sessions'[s].side = sessions[s].side /\ sessions'[s].peer = sessions[s].peer
    BY <1>0, <2>2 DEF SessionRow
  <2>. QED BY <1>7, <2>1, <2>3, <2>4 DEF AnswerOffer, At
<1>. QED BY <1>2, <1>3, <1>4 DEF Next, OwnerActs, Step, vars, CreateMemory, DeleteMemory,
       RegisterPeer, BlockPeer, EnsureClone, RebuildClone, ReadMemories, StoreDraft, RetireOld,
       ActivateClone, StoreActivation, ReadActive, Delegate, TrustPeer, StoreTrust, CheckPeer,
       FindDelegate, RefuseStart, StartAsDelegate, CheckSender, TakeOffer, RefuseSender, SkipMessage,
       DropRows, Crash

LEMMA AccordStep == TypeOK /\ RequestsAccord /\ [Next]_vars => RequestsAccord'
<1>. SUFFICES ASSUME TypeOK, RequestsAccord, [Next]_vars, NEW t \in Thread, NEW a \in req'[t].about
              PROVE  /\ a[2] \in req'[t].peer
                     /\ \A b \in req'[t].about : b = a
                     /\ req'[t].pc \in {"start", "bind", "open", "inbox", "decide"}
                     /\ req'[t].pc \in {"start", "bind", "open"} => sessions'[a[1]].side = "none"
                     /\ req'[t].pc = "decide" => sessions'[a[1]].side # "none"
                     /\ sessions'[a[1]].side = "none" \/ sessions'[a[1]].peer = a[2]
                     /\ \A u \in Thread : \A b \in req'[u].about :
                          u # t /\ a[1] = b[1] => sessions'[a[1]].side # "none"
  BY DEF RequestsAccord, Accords
<1>1. CASE UNCHANGED sessions
  <2>0. PICK t0 \in Thread :
          /\ \A u \in Thread : u # t0 => req'[u] = req[u] \/ req'[u] = Idle
          /\ req'[t0] = req[t0] \/ Moves(t0, req'[t0])
    <3>1. CASE UNCHANGED req \/ Crash
      BY <3>1, RequestStep DEF Crash
    <3>2. CASE ~UNCHANGED req /\ ~Crash
      <4>1. PICK t0 \in Thread, r \in Request : Continue(t0, r)
        BY <3>2, OneMoves
      <4>2. \A u \in Thread : u # t0 => req'[u] = req[u]
        BY <4>1 DEF Continue, TypeOK
      <4>. QED BY <4>2, RequestStep
    <3>. QED BY <3>1, <3>2
  <2>1. \A u \in Thread :
          \/ req'[u] = req[u]
          \/ req'[u].about = {}
          \/ /\ req'[u].about = req[u].about /\ req'[u].peer = req[u].peer
             /\ req[u].pc \in {"start", "bind"} /\ req'[u].pc \in {"bind", "open"}
          \/ /\ req'[u].about = req[u].about /\ req'[u].peer = req[u].peer
             /\ req[u].pc = "inbox" /\ req'[u].pc = "decide"
             /\ \E b \in req[u].about : sessions[b[1]].side # "none"
          \/ /\ u = t0 /\ req'[u].pc \in {"start", "inbox"}
             /\ \E s \in Session, p \in Peer, i \in Intent :
                  /\ req'[u].about = {<<s, p, i>>} /\ req'[u].peer = {p}
                  /\ \/ Fresh(s)
                     \/ req'[u].pc = "inbox" /\ sessions[s].side # "none" /\ sessions[s].peer = p
    BY <2>0, IdleType DEF Moves
  <2>2. \A s \in Session : Fresh(s) => /\ sessions[s].side = "none"
                                       /\ \A u \in Thread : \A b \in req[u].about : b[1] # s
    BY NoSessionType DEF Fresh
  <2>3. CASE a \in req[t].about /\ req'[t].peer = req[t].peer /\ req'[t].about = req[t].about
    <3>1. /\ a[2] \in req'[t].peer
          /\ \A b \in req'[t].about : b = a
          /\ sessions[a[1]].side = "none" \/ sessions[a[1]].peer = a[2]
      BY <2>3 DEF RequestsAccord, Accords
    <3>2. /\ req'[t].pc \in {"start", "bind", "open", "inbox", "decide"}
          /\ req'[t].pc \in {"start", "bind", "open"} => sessions[a[1]].side = "none"
          /\ req'[t].pc = "decide" => sessions[a[1]].side # "none"
      BY <2>1, <2>2, <2>3 DEF RequestsAccord, Accords
    <3>3. ASSUME NEW u \in Thread, NEW b \in req'[u].about, u # t, a[1] = b[1]
          PROVE  sessions[a[1]].side # "none"
      BY <2>1, <2>2, <2>3, <3>3 DEF RequestsAccord, Accords
    <3>. QED BY <1>1, <3>1, <3>2, <3>3
  <2>4. CASE /\ t = t0 /\ req'[t].pc \in {"start", "inbox"}
             /\ \E s \in Session, p \in Peer, i \in Intent :
                  /\ req'[t].about = {<<s, p, i>>} /\ req'[t].peer = {p}
                  /\ \/ Fresh(s)
                     \/ req'[t].pc = "inbox" /\ sessions[s].side # "none" /\ sessions[s].peer = p
    <3>1. PICK s \in Session, p \in Peer, i \in Intent :
            /\ req'[t].about = {<<s, p, i>>} /\ req'[t].peer = {p}
            /\ \/ Fresh(s)
               \/ req'[t].pc = "inbox" /\ sessions[s].side # "none" /\ sessions[s].peer = p
      BY <2>4
    <3>2. a[1] = s /\ a[2] = p /\ \A b \in req'[t].about : b = a
      BY <3>1
    <3>3. \A u \in Thread : u # t => req'[u].about \subseteq req[u].about
      BY <2>0, <2>4, IdleType
    <3>. QED BY <1>1, <2>2, <2>4, <3>1, <3>2, <3>3
  <2>. QED BY <2>1, <2>3, <2>4
<1>2. CASE ~UNCHANGED sessions
  <2>1. PICK s \in Session : sessions'[s] # sessions[s]
    <3>1. sessions \in [Session -> SessionRow] /\ sessions' \in [Session -> SessionRow]
      BY SessionsType DEF TypeOK
    <3>. QED BY <1>2, <3>1
  <2>2. PICK t0, a0 :
           /\ t0 \in Thread
           /\ a0 \in req[t0].about
           /\ a0[1] = s /\ req'[t0].about = {}
           /\ \A u \in Thread : u # t0 => req'[u] = req[u]
           /\ \A z \in Session : z # s => sessions'[z] = sessions[z]
           /\ \/ sessions[s].side = "none" \/ req[t0].pc \in {"bind", "open"}
              \/ sessions'[s].side = sessions[s].side /\ sessions'[s].peer = sessions[s].peer
    BY <2>1, SessionStep
  <2>4. t # t0 /\ a \in req[t].about /\ req'[t] = req[t] /\ a[1] \in Session
    BY <2>2, RequestTypes
  <2>5. /\ a[2] \in req[t].peer
        /\ \A b \in req[t].about : b = a
        /\ req[t].pc \in {"start", "bind", "open", "inbox", "decide"}
        /\ req[t].pc \in {"start", "bind", "open"} => sessions[a[1]].side = "none"
        /\ req[t].pc = "decide" => sessions[a[1]].side # "none"
        /\ sessions[a[1]].side = "none" \/ sessions[a[1]].peer = a[2]
        /\ \A u \in Thread : \A b \in req[u].about :
             u # t /\ a[1] = b[1] => sessions[a[1]].side # "none"
    BY <2>4 DEF RequestsAccord, Accords
  <2>6. a[1] = s => sessions'[s].side = sessions[s].side /\ sessions'[s].peer = sessions[s].peer
    <3>. SUFFICES ASSUME a[1] = s
                  PROVE  sessions'[s].side = sessions[s].side /\ sessions'[s].peer = sessions[s].peer
      OBVIOUS
    <3>1. sessions[s].side # "none"
      BY <2>2, <2>4, <2>5
    <3>2. req[t0].pc \notin {"bind", "open"}
      BY <2>2, <3>1 DEF RequestsAccord, Accords
    <3>. QED BY <2>2, <3>1, <3>2
  <2>7. sessions'[a[1]].side = sessions[a[1]].side /\ sessions'[a[1]].peer = sessions[a[1]].peer
    BY <2>2, <2>4, <2>6
  <2>8. ASSUME NEW u \in Thread, NEW b \in req'[u].about, u # t, a[1] = b[1]
        PROVE  sessions'[a[1]].side # "none"
    BY <2>2, <2>5, <2>7, <2>8
  <2>. QED BY <2>4, <2>5, <2>7, <2>8
<1>. QED BY <1>1, <1>2

LEMMA AccordInit == Init => RequestsAccord
BY IdleType DEF Init, RequestsAccord, Accords

\* What a step does to the status of a blocked peer.
LEMMA BlockedStep ==
  ASSUME TypeOK, Next, NEW p \in Peer, peers[p].status = "blocked", peers'[p].status # "blocked"
  PROVE  \E t \in Thread : p \in req[t].peer /\ req'[t] # req[t]
<1>0. peers \in [Peer -> PeerRow] /\ req \in [Thread -> Request]
  BY DEF TypeOK
<1>1. CASE \E q \in Peer : RegisterPeer(q)
  BY <1>0, <1>1 DEF RegisterPeer, NoPeer
<1>2. CASE \E q \in Peer : BlockPeer(q)
  BY <1>0, <1>2 DEF BlockPeer, PeerRow
<1>3. CASE \E t \in Thread : StoreTrust(t)
  <2>1. PICK t \in Thread : StoreTrust(t)
    BY <1>3
  <2>2. p \in req[t].peer
    BY <2>1 DEF StoreTrust
  <2>3. req[t].pc = "trust" /\ req'[t].pc = "idle"
    BY <1>0, <2>1, IdleType DEF StoreTrust, At, Done, Continue
  <2>. QED BY <2>2, <2>3
<1>. QED BY <1>1, <1>2, <1>3 DEF Next, OwnerActs, Step, CreateMemory, DeleteMemory,
       EnsureClone, RebuildClone, ReadMemories, StoreDraft, RetireOld, ActivateClone,
       StoreActivation, ReadActive, Delegate, TrustPeer, CheckPeer, FindDelegate, RefuseStart,
       StartAsNewDelegate, StartAsDelegate, OpenSession, CheckSender, HandleRequest, TakeOffer,
       AnswerOffer, RefuseSender, SkipMessage, DropRows, Crash

\* Blocking a peer reaches every request and every poll that does not hold it:
\* none takes it up, and it is trusted, opened a negotiation with or answered
\* only by those that had read it before.
THEOREM BlockHeeded == Spec => BlockIsHeeded
<1>1. Spec => [](TypeOK /\ RequestsAccord)
  BY AccordInit, AccordStep, TypeInit, TypeStep, PTL DEF Spec
<1>2. (TypeOK /\ RequestsAccord) /\ (TypeOK /\ RequestsAccord)' /\ [Next]_vars =>
      [\A p \in Peer : peers[p].status = "blocked" =>
         /\ \A t \in Thread : p \in req'[t].peer => p \in req[t].peer
         /\ \/ peers'[p].status # "blocked"
            \/ \E s \in Session : sessions'[s] # sessions[s] /\ sessions'[s].peer = p
            => \E t \in Thread : p \in req[t].peer /\ req'[t] # req[t]]_vars
  <2>. SUFFICES ASSUME TypeOK, RequestsAccord, Next, NEW p \in Peer, peers[p].status = "blocked"
                PROVE  /\ \A t \in Thread : p \in req'[t].peer => p \in req[t].peer
                       /\ \/ peers'[p].status # "blocked"
                          \/ \E s \in Session : sessions'[s] # sessions[s] /\ sessions'[s].peer = p
                          => \E t \in Thread : p \in req[t].peer /\ req'[t] # req[t]
    OBVIOUS
  <2>1. ASSUME NEW t \in Thread, p \in req'[t].peer PROVE p \in req[t].peer
    BY <2>1, RequestStep, IdleType DEF Moves, Trusted
  <2>2. peers'[p].status # "blocked" => \E t \in Thread : p \in req[t].peer /\ req'[t] # req[t]
    BY BlockedStep
  <2>3. ASSUME NEW s \in Session, sessions'[s] # sessions[s], sessions'[s].peer = p
        PROVE  \E t \in Thread : p \in req[t].peer /\ req'[t] # req[t]
    <3>1. PICK t, a :
            /\ t \in Thread
            /\ a \in req[t].about /\ a[1] = s /\ req'[t].about = {}
            /\ \/ sessions'[s].peer = a[2]
               \/ req[t].pc = "decide" /\ sessions'[s].peer = sessions[s].peer
      BY <2>3, SessionStep
    <3>2. a[2] = p /\ a[2] \in req[t].peer
      BY <2>3, <3>1 DEF RequestsAccord, Accords
    <3>. QED BY <3>1, <3>2
  <2>. QED BY <2>1, <2>2, <2>3
<1>. QED BY <1>1, <1>2, PTL DEF Spec, BlockIsHeeded
================================================================================
