----------------------------- MODULE ProtocolState -----------------------------
(***************************************************************************)
(* The protocol state machine of a negotiation session                     *)
(* (services/protocol_state.py): which message a session in a given status *)
(* may take next.  Pure operators, shared by every module that receives a  *)
(* message.                                                                *)
(***************************************************************************)
EXTENDS Naturals, Sequences, FiniteSets

\* Statuses of a NegotiationSession; "none" means that the node has no row.
Statuses == {"none", "open", "waiting_approval", "agreed", "failed"}

\* _TERMINAL_STATUSES
Terminal == {"agreed", "failed"}

\* The message types that ever reach the wire (docs/protocol.md, line 12).
MessageTypes == {"REQUEST", "PROPOSE", "COUNTER", "ACCEPT", "REJECT", "ERROR"}

\* The two types that carry an offer and ask the receiver for a decision.
OfferTypes == {"PROPOSE", "COUNTER"}

\* MAX_COUNTER_ROUNDS
MaxCounterRounds == 3

\* _ALLOWED_AFTER: the types accepted after a message of type last ("" at the
\* start of a session).  A last type that is no key accepts nothing.
AllowedAfter(last) ==
  CASE last = ""          -> {"REQUEST"}
    [] last = "REQUEST"   -> {"PROPOSE", "REJECT", "ERROR"}
    [] last \in OfferTypes -> {"ACCEPT", "COUNTER", "REJECT", "ERROR"}
    [] OTHER              -> {}

\* validate_incoming, in the order of its early returns.
ValidateIncoming(status, lastSequence, type, sequence, lastType, counterRounds) ==
  /\ status \notin Terminal
  /\ status = "waiting_approval" => type \in {"REJECT", "ERROR"}
  /\ sequence = lastSequence + 1
  /\ type \in AllowedAfter(lastType)
  /\ type = "COUNTER" => counterRounds < MaxCounterRounds

\* _last_message: the type of the last message saved for a session.
LastType(log) == IF log = <<>> THEN "" ELSE log[Len(log)].type

\* _counter_rounds: the COUNTERs saved for a session, from either side.
CounterRounds(log) == Cardinality({i \in DOMAIN log : log[i].type = "COUNTER"})
================================================================================
