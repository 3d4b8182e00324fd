--------------------------- MODULE LocalNegotiation ----------------------------
(***************************************************************************)
(* A negotiation between the clones of two owners on one node              *)
(* (run_cost_split_negotiation, run_negotiation and                        *)
(* run_task_request_negotiation under domains/), up to the owner's answer  *)
(* when a clone asks.                                                      *)
(*                                                                         *)
(* One request thread drives the whole negotiation.  A look at the         *)
(* delegation rules commits, so the rows of a negotiation become visible   *)
(* turn by turn, owners may act between two turns, and a process that dies *)
(* leaves what was committed.  The session factory does not expire what it *)
(* has loaded: the rules are read again at every turn, the two clones are  *)
(* those of the first.                                                     *)
(***************************************************************************)
EXTENDS CostSplitStrategy, MeetingSlots, FiniteSets

CONSTANTS
  CostRequest,     \* requests for a cost split, with the limits of the two clones
  MeetingRequest,  \* requests for a meeting, with calendars and preferences
  TaskRequest,     \* requests for a task, with the limits of the responder
  MaxChanges       \* bound on changes an owner makes to rules or clones

\* What the payload models let through.
ValidCost(r) ==
  /\ r.intent = "cost.split"
  /\ r.total \in Nat \ {0}
  /\ r.proposed \in 0..r.total
  /\ r.policy \in [Role -> CostPolicy]
  /\ r.highValue \in BOOLEAN

TimeRange == [start : 0..MinutesPerDay, end : 0..MinutesPerDay]
Entry == [start : Int, end : Int, aware : BOOLEAN]
Preferences == [autoAccept : BOOLEAN, preferred : SUBSET TimeRange, avoided : SUBSET TimeRange]

ValidMeeting(r) ==
  /\ r.intent = "meeting.schedule"
  /\ r.days \in Nat \ {0}
  /\ r.ranges \in Seq(TimeRange)
  /\ r.duration \in 1..480
  /\ \A role \in Role : /\ r.entries[role] \subseteq Entry
                        /\ r.offset[role] \in Int
                        /\ r.preferences[role] \in Preferences

\* dueIn is {} without a deadline, and the days to it otherwise.
ValidTask(r) ==
  /\ r.intent = "task.request"
  /\ r.hours \in Nat
  /\ r.dueIn \in SUBSET Int
  /\ r.maxAccept \in Nat
  /\ r.maxCounter \in Nat
  /\ r.margin \in Int

ASSUME RequestsAssumption ==
  /\ \A r \in CostRequest : ValidCost(r)
  /\ \A r \in MeetingRequest : ValidMeeting(r)
  /\ \A r \in TaskRequest : ValidTask(r)
  /\ MaxChanges \in Nat

Request == CostRequest \cup MeetingRequest \cup TaskRequest

MaxRounds == 3

VARIABLES
  request,    \* what is negotiated
  delegated,  \* the delegation rule of each owner for this intent
  content,    \* does each owner's active clone accept this peer unasked?
  loaded,     \* content, as of the clones the driver holds
  status,     \* NegotiationSession.status
  messages,   \* the NegotiationMessage rows, by sequence
  agreement,  \* the Agreement row: {} or {what was agreed}
  approval,   \* the approval a clone asked for
  stage,      \* where the driver is
  round,      \* its round
  standing,   \* the amount on the table
  candidates, \* the free slots of each side, computed before the session is opened
  own,        \* the amount each side offered last, or would open with
  changes     \* changes by owners so far

rules == <<request, delegated, content, changes>>
vars == <<rules, loaded, status, messages, agreement, approval, stage, round, standing, own,
          candidates>>

Other(role) == IF role = "initiator" THEN "responder" ELSE "initiator"

\* The responder has the odd rounds.
Acting == IF round % 2 = 1 THEN "responder" ELSE "initiator"

Said(from, type, amount, slots) == [from |-> from, type |-> type, amount |-> amount, slots |-> slots]

\* What can be agreed.
Terms == IF request.intent = "meeting.schedule" THEN Slot ELSE Int

NoApproval == [status |-> "none"]
Asked(decider, value) == [status |-> "pending", decider |-> decider, value |-> value]
Approval == [status : {"pending", "approved", "rejected", "expired"}, decider : Role, value : Terms]

TypeOK ==
  /\ request \in Request
  /\ delegated \in [Role -> BOOLEAN]
  /\ content \in [Role -> BOOLEAN]
  /\ loaded \in [Role -> BOOLEAN]
  /\ status \in {"none", "open", "waiting_approval", "agreed", "failed"}
  /\ messages \in Seq([from : Role,
                       type : {"REQUEST", "PROPOSE", "COUNTER", "ACCEPT", "REJECT", "ERROR", "REQUEST_APPROVAL"},
                       amount : Int, slots : Seq(Slot)])
  /\ agreement \subseteq Terms
  /\ approval \in {NoApproval} \cup Approval
  /\ stage \in {"idle", "precheck", "turn", "ask", "over", "dead"}
  /\ round \in 0..MaxRounds
  /\ standing \in Int
  /\ own \in [Role -> Int]
  /\ candidates \in [Role -> Seq(Slot)]
  /\ changes \in 0..MaxChanges

\* Delegation is on by default and a clone has no relationship rule at first.
Init ==
  /\ request \in Request
  /\ delegated = [role \in Role |-> TRUE]
  /\ content = [role \in Role |-> TRUE]
  /\ loaded = content
  /\ status = "none"
  /\ messages = <<>>
  /\ agreement = {}
  /\ approval = NoApproval
  /\ stage = "idle"
  /\ round = 0
  /\ standing = 0
  /\ own = [role \in Role |-> 0]
  /\ candidates = [role \in Role |-> <<>>]
  /\ changes = 0

--------------------------------------------------------------------------------
(* Common parts (domains/common.py) *)

Intent(intent) == request.intent = intent

\* Delegation is read at this turn, confidence and relationship are those of
\* the loaded clone.
Guarded(role) == ~delegated[role] \/ ~loaded[role]

\* require_active_clone for both, and the REQUEST; committed with the first look
\* at the rules.
Open(amount) ==
  /\ stage = "idle"
  /\ loaded' = content
  /\ status' = "open"
  /\ messages' = <<Said("initiator", "REQUEST", amount, <<>>)>>
  /\ UNCHANGED <<rules, agreement, approval>>

\* create_negotiation_approval commits the approval before the session waits
\* for it.
Ask(decider, value) ==
  /\ approval' = Asked(decider, value)
  /\ stage' = "ask"
  /\ UNCHANGED <<rules, loaded, status, messages, agreement, round, standing, own, candidates>>

Await ==
  /\ stage = "ask"
  /\ status' = "waiting_approval"
  /\ messages' = Append(messages, Said(approval.decider, "REQUEST_APPROVAL", 0, <<>>))
  /\ stage' = "over"
  /\ UNCHANGED <<rules, loaded, agreement, approval, round, standing, own, candidates>>

Agree(role, value) ==
  /\ status' = "agreed"
  /\ agreement' = IF agreement = {} THEN {value} ELSE agreement
  /\ messages' = Append(messages, Said(role, "ACCEPT", 0, <<>>))
  /\ stage' = "over"
  /\ UNCHANGED <<rules, loaded, approval, round, standing, own, candidates>>

Fail(role, type) ==
  /\ status' = "failed"
  /\ messages' = Append(messages, Said(role, type, 0, <<>>))
  /\ stage' = "over"
  /\ UNCHANGED <<rules, loaded, agreement, approval, round, standing, own, candidates>>

--------------------------------------------------------------------------------
(* cost.split *)

Policy(role) == request.policy[role]
Ceiling == Reservation(Policy("responder"), request.total)
Least == Floor(Policy("initiator"), request.total, request.proposed)

StartCostSplit ==
  /\ Intent("cost.split")
  /\ Open(request.proposed)
  /\ stage' = "precheck"
  /\ standing' = request.proposed
  /\ own' = [role \in Role |-> IF role = "initiator" THEN request.proposed
                              ELSE Opening(Policy("responder"), request.total)]
  /\ UNCHANGED <<round, candidates>>

\* Is there no amount both sides could take?  The driver holds both clones.
NoZone == Least > Ceiling

ShortcutMove == BeyondReservation(Policy("responder"), request.proposed, request.highValue)

\* The move that stands for round 1 when no agreement is possible.
Precheck ==
  /\ stage = "precheck"
  /\ \/ Guarded("responder") /\ Ask("responder", standing)
     \/ /\ ~Guarded("responder") /\ NoZone
        /\ \/ ShortcutMove = Escalate /\ Ask("responder", standing)
           \/ ShortcutMove = Reject /\ Fail("responder", "REJECT")
     \/ /\ ~Guarded("responder") /\ ~NoZone
        /\ stage' = "turn" /\ round' = 1
        /\ UNCHANGED <<rules, loaded, status, messages, agreement, approval, standing, own, candidates>>

Move == NextAction(Acting, Policy(Acting), request.total, request.proposed, standing, own[Acting],
                   request.highValue)

\* a plausible slip: the amount on the table stays that of the request
OfferCounterOffTable(amount) ==
  /\ own' = [own EXCEPT ![Acting] = amount]
  /\ messages' = Append(messages, Said(Acting, "COUNTER", amount, <<>>))
  /\ round' = round + 1
  /\ UNCHANGED <<rules, loaded, status, agreement, approval, stage, standing, candidates>>

OfferCounter(amount) ==
  /\ own' = [own EXCEPT ![Acting] = amount]
  /\ standing' = amount
  /\ messages' = Append(messages, Said(Acting, "COUNTER", amount, <<>>))
  /\ round' = round + 1
  /\ UNCHANGED <<rules, loaded, status, agreement, approval, stage, candidates>>

\* a plausible slip: the last round is one round too late
LastRoundGoesOn ==
  /\ Move.kind = "counter" /\ round = MaxRounds
  /\ OfferCounter(Move.amount)

\* a plausible slip: the COUNTER of the last round is sent like any other and
\* the loop ends
LastRoundCounters ==
  /\ Move.kind = "counter" /\ round = MaxRounds
  /\ messages' = Append(messages, Said(Acting, "COUNTER", Move.amount, <<>>))
  /\ stage' = "over"
  /\ UNCHANGED <<rules, loaded, status, agreement, approval, round, standing, own, candidates>>

\* A COUNTER in the last round becomes a question to the owner.
LastRound ==
  /\ Move.kind = "counter" /\ round = MaxRounds
  /\ Ask(Acting, standing)

CostSplitTurn ==
  /\ stage = "turn" /\ Intent("cost.split")
  /\ \/ Guarded(Acting) /\ Ask(Acting, standing)
     \/ /\ ~Guarded(Acting)
        /\ \/ Move.kind = "accept" /\ Agree(Acting, Move.amount)
           \/ Move.kind = "escalate" /\ Ask(Acting, standing)
           \/ Move.kind = "reject" /\ Fail(Acting, "REJECT")
           \/ Move.kind = "counter" /\ round < MaxRounds /\ OfferCounter(Move.amount)
           \/ LastRound

--------------------------------------------------------------------------------
(* meeting.schedule *)

FreeSlots(role) ==
  CandidateSlots(request.days, request.ranges, request.duration,
                 CollectBusy(request.entries[role], request.offset[role]), request.offset[role])

\* The session is committed before the REQUEST and the PROPOSE, which stay in
\* the transaction of the driver until a slot is found or the rounds are over.
StartMeeting ==
  /\ Intent("meeting.schedule")
  /\ stage = "idle"
  /\ loaded' = content
  /\ candidates' = [role \in Role |-> FreeSlots(role)]
  /\ status' = "open"
  /\ stage' = "turn"
  /\ round' = 1
  /\ UNCHANGED <<rules, messages, agreement, approval, standing, own>>

\* The offers are the first candidates of each side, whatever was answered.
OfferTo(role) == FirstOffer(candidates[Other(role)])

CommonSlots(role) == IntersectSlots(candidates[role], OfferTo(role))

\* The rounds that end without a common slot, written with the one that ends.
Offered(last) ==
  <<Said("initiator", "REQUEST", 0, <<>>), Said("initiator", "PROPOSE", 0, OfferTo("responder"))>>
  \o [k \in 1..last - 1 |->
        LET role == IF k % 2 = 1 THEN "responder" ELSE "initiator"
        IN  Said(role, "COUNTER", 0, OfferTo(Other(role)))]

MustAsk(role, slot) ==
  \/ Guarded(role)
  \/ PreferenceReasons(request.preferences[role], slot, request.offset[role]) # {}

MeetingTurn ==
  /\ stage = "turn" /\ Intent("meeting.schedule")
  /\ LET common == CommonSlots(Acting)
         told == messages \o Offered(round)
     IN  \/ /\ common # <<>> /\ MustAsk(Acting, Head(common))
            /\ approval' = Asked(Acting, Head(common))
            /\ messages' = told
            /\ stage' = "ask"
            /\ UNCHANGED <<rules, loaded, status, agreement, round, standing, own, candidates>>
         \/ /\ common # <<>> /\ ~MustAsk(Acting, Head(common))
            /\ status' = "agreed"
            /\ agreement' = {Head(common)}
            /\ messages' = Append(told, Said(Acting, "ACCEPT", 0, <<>>))
            /\ stage' = "over"
            /\ UNCHANGED <<rules, loaded, approval, round, standing, own, candidates>>
         \/ /\ common = <<>> /\ round = MaxRounds
            /\ status' = "failed"
            /\ messages' = Append(told, Said(Acting, "ERROR", 0, <<>>))
            /\ stage' = "over"
            /\ UNCHANGED <<rules, loaded, agreement, approval, round, standing, own, candidates>>
         \/ /\ common = <<>> /\ round < MaxRounds
            /\ round' = round + 1
            /\ UNCHANGED <<rules, loaded, status, messages, agreement, approval, stage, standing, own, candidates>>

--------------------------------------------------------------------------------
(* task.request *)

DeadlineMarginOk == \A days \in request.dueIn : days >= request.margin

\* One transaction: REQUEST and the answer to it.  Only delegation is looked at.
RunTaskRequest ==
  /\ Intent("task.request")
  /\ stage = "idle"
  /\ loaded' = content
  /\ LET asked == <<Said("initiator", "REQUEST", request.hours, <<>>)>>
     IN  \/ /\ \/ ~delegated["responder"]
               \/ request.hours > request.maxCounter
                  /\ ~(request.hours <= request.maxAccept /\ DeadlineMarginOk)
            /\ status' = "open"
            /\ messages' = asked
            /\ approval' = Asked("responder", request.hours)
            /\ stage' = "ask"
            /\ UNCHANGED agreement
         \/ /\ delegated["responder"]
            /\ request.hours <= request.maxAccept /\ DeadlineMarginOk
            /\ status' = "agreed"
            /\ agreement' = {request.hours}
            /\ messages' = Append(asked, Said("responder", "ACCEPT", 0, <<>>))
            /\ stage' = "over"
            /\ UNCHANGED approval
         \/ /\ delegated["responder"]
            /\ request.hours <= request.maxCounter
            /\ ~(request.hours <= request.maxAccept /\ DeadlineMarginOk)
            /\ status' = "open"
            /\ messages' = Append(asked, Said("responder", "COUNTER",
                                              Smaller(request.hours, request.maxAccept), <<>>))
            /\ stage' = "over"
            /\ UNCHANGED <<agreement, approval>>
  /\ UNCHANGED <<rules, round, standing, own, candidates>>

--------------------------------------------------------------------------------
(* The owners and the process *)

\* The owner of a pending approval answers it, or it expires: the approval, then
\* the session if it waits (TaskLifecycle has the two as separate commits).
Resolve(verdict) ==
  /\ approval.status = "pending"
  /\ approval' = [approval EXCEPT !.status = verdict]
  /\ IF status # "waiting_approval"
     THEN UNCHANGED <<status, agreement, messages>>
     ELSE IF verdict = "approved"
     THEN /\ status' = "agreed"
          /\ agreement' = IF agreement = {} THEN {approval.value} ELSE agreement
          /\ messages' = Append(messages, Said(approval.decider, "ACCEPT", 0, <<>>))
     ELSE /\ status' = "failed"
          /\ messages' = Append(messages, Said(approval.decider, "REJECT", 0, <<>>))
          /\ UNCHANGED agreement
  /\ UNCHANGED <<rules, loaded, stage, round, standing, own, candidates>>

\* An owner switches the delegation of this intent, or activates another clone
\* with another relationship rule.
ChangeRules(role) ==
  /\ changes < MaxChanges
  /\ \/ delegated' = [delegated EXCEPT ![role] = ~@] /\ UNCHANGED content
     \/ content' = [content EXCEPT ![role] = ~@] /\ UNCHANGED delegated
  /\ changes' = changes + 1
  /\ UNCHANGED <<request, loaded, status, messages, agreement, approval, stage, round, standing, own, candidates>>

\* The process dies between two commits; nothing takes the negotiation up again.
Die ==
  /\ stage \in {"precheck", "turn", "ask"}
  /\ stage' = "dead"
  /\ UNCHANGED <<rules, loaded, status, messages, agreement, approval, round, standing, own, candidates>>

Start == StartCostSplit \/ StartMeeting \/ RunTaskRequest

Drive == Precheck \/ CostSplitTurn \/ MeetingTurn \/ Await

Next ==
  \/ Start
  \/ Drive
  \/ \E verdict \in {"approved", "rejected", "expired"} : Resolve(verdict)
  \/ \E role \in Role : ChangeRules(role)
  \/ Die

\* Nobody has to make a request; one that is made is driven by its thread until
\* it returns, and owners need not act.
Spec == Init /\ [][Next]_vars /\ WF_vars(Drive)

--------------------------------------------------------------------------------
(* Properties *)

By(role, type) == {k \in DOMAIN messages : messages[k].from = role /\ messages[k].type = type}

\* What the clones say of an amount stays inside the limits of the owner they
\* speak for, in every round: the responder never offers more than its
\* reservation, the initiator never asks less than its own, and what they agree
\* without an owner lies between the two.
ReservationKept ==
  Intent("cost.split") =>
    /\ \A k \in By("responder", "COUNTER") : messages[k].amount <= Ceiling
    /\ \A k \in By("initiator", "COUNTER") : messages[k].amount >= Least
    /\ approval.status = "none" => \A share \in agreement : Least <= share /\ share <= Ceiling

\* The offers move towards each other and never cross: a side does not go back
\* behind its own earlier amount, the initiator not above what its owner asked
\* for, and neither offers more than the other side has already accepted to take.
OffersConverge ==
  Intent("cost.split") =>
    LET demands == By("initiator", "REQUEST") \cup By("initiator", "COUNTER")
        offers == By("responder", "COUNTER")
    IN  /\ \A j, k \in offers : j < k => messages[j].amount <= messages[k].amount
        /\ \A j, k \in demands : j < k => messages[j].amount >= messages[k].amount
        /\ \A j \in demands, k \in offers : messages[k].amount <= messages[j].amount

\* Does a slot fit between the entries of a calendar, read as wall clocks?
FitsCalendar(role, slot) ==
  \A e \in request.entries[role] :
    LET shift == IF e.aware THEN 0 ELSE request.offset[role]
    IN  slot.end + shift <= e.start \/ e.end <= slot.start + shift

WasOffered(slot) ==
  \E k \in DOMAIN messages :
    /\ messages[k].type \in {"PROPOSE", "COUNTER"}
    /\ \E i \in DOMAIN messages[k].slots : messages[k].slots[i] = slot

\* A slot that is agreed, by a clone or by the owner it asked, is free in both
\* calendars and was offered by the other side.  The calendars are read as wall
\* clocks here, entry by entry.
SlotFreeForBoth ==
  Intent("meeting.schedule") =>
    \A slot \in agreement : WasOffered(slot) /\ \A role \in Role : FitsCalendar(role, slot)

\* Whatever is agreed in a cost split is an amount the other side has put on the
\* table before: neither the round limit, nor an owner's answer, nor rounding
\* makes up another one.
AgreedWasOffered ==
  Intent("cost.split") =>
    \A share \in agreement : \A k \in {j \in DOMAIN messages : messages[j].type = "ACCEPT"} :
      \E j \in 1..k - 1 : /\ messages[j].from = Other(messages[k].from)
                          /\ messages[j].type \in {"REQUEST", "COUNTER"}
                          /\ messages[j].amount = share

Settled == status \in {"agreed", "failed", "waiting_approval"}

\* A request for a task that was answered by a COUNTER is left to its owner.
LeftToInitiator == Intent("task.request") /\ By("responder", "COUNTER") # {}

\* A negotiation does not stay open: it is agreed, failed or waits for an owner,
\* unless the process died or the answer was a COUNTER for a task.
LocalConcludes == status = "open" ~> (Settled \/ stage = "dead" \/ LeftToInitiator)

--------------------------------------------------------------------------------
(* Why the clones keep to their limits: an inductive invariant *)

\* The session, its approval and its agreement move with the driver.
DriverInv ==
  /\ stage = "idle" => status = "none" /\ messages = <<>>
  /\ stage \in {"precheck", "turn", "ask"} => status = "open"
  /\ stage \in {"idle", "precheck", "turn"} => approval = NoApproval
  /\ stage = "precheck" => Intent("cost.split")
  /\ stage = "turn" => round # 0
  /\ stage = "ask" \/ status = "waiting_approval" => approval # NoApproval
  /\ status # "agreed" => agreement = {} /\ \A k \in DOMAIN messages : messages[k].type # "ACCEPT"

Demands == By("initiator", "REQUEST") \cup By("initiator", "COUNTER")

\* The side whose turn it is not: what stands on the table is its amount.
Opposite == IF stage = "precheck" THEN "initiator" ELSE Other(Acting)

OnTable(from, amount) ==
  \E k \in DOMAIN messages : /\ messages[k].from = from /\ messages[k].amount = amount
                              /\ messages[k].type \in {"REQUEST", "COUNTER"}

\* The amount on the table is the last one of the side whose turn it is not, and
\* every earlier amount lies behind what its side stands for now.
TableInv ==
  Intent("cost.split") /\ stage \in {"precheck", "turn"} =>
    /\ standing = own[Opposite] /\ OnTable(Opposite, standing)
    /\ Least <= own["initiator"] /\ own["responder"] <= Ceiling
    /\ \A k \in Demands : own["initiator"] <= messages[k].amount
    /\ \A k \in By("responder", "COUNTER") : messages[k].amount <= own["responder"]

\* What an owner is asked about was put on the table by the other side.
AskedInv ==
  Intent("cost.split") /\ approval # NoApproval => OnTable(Other(approval.decider), approval.value)

CostSplitInv ==
  DriverInv /\ TableInv /\ AskedInv /\ ReservationKept /\ OffersConverge /\ AgreedWasOffered

\* The candidates of a side are free in its calendar, and what is agreed or an
\* owner is asked about is a candidate of both that one has offered.
SlotInv ==
  Intent("meeting.schedule") =>
    /\ \A role \in Role : \A i \in DOMAIN candidates[role] : FitsCalendar(role, candidates[role][i])
    /\ \A slot \in agreement \cup (IF approval = NoApproval THEN {} ELSE {approval.value}) :
         WasOffered(slot) /\ \A role \in Role : FitsCalendar(role, slot)
================================================================================
