--------------------------- MODULE CostSplitStrategy ---------------------------
(***************************************************************************)
(* The strategy of a cost split (domains/cost_split_strategy.py): a pure   *)
(* function from a clone's own limits and the public offers to its next    *)
(* move.  Amounts are in hundredths of the currency unit, ratios in        *)
(* percent.                                                                *)
(***************************************************************************)
EXTENDS Integers

Role == {"initiator", "responder"}

\* The limits of a clone that the strategy reads.  max_auto_accept_amount is
\* parsed with them and read by nothing.
CostPolicy == [reservation : 0..100, concession : 0..100, preferred : 0..100, negotiable : Nat]

\* n hundredths of an amount to the nearest amount (round(x, 2)).  How a tie is
\* broken depends on the binary value in the code; here it goes up.
Rounded(n) == (n + 50) \div 100

Smaller(a, b) == IF a <= b THEN a ELSE b
Larger(a, b) == IF a <= b THEN b ELSE a

\* U: the most the responder pays.
Reservation(p, total) == Rounded(total * p.reservation)

\* What the responder would offer first.
Opening(p, total) == Rounded(total * Smaller(p.preferred, p.reservation))

\* L: the least the initiator takes, never above what its owner asked for.
Floor(p, total, proposed) == Smaller(Rounded(total * (100 - p.reservation)), proposed)

Accept(amount) == [kind |-> "accept", amount |-> amount]
Counter(amount) == [kind |-> "counter", amount |-> amount]
Escalate == [kind |-> "escalate", amount |-> 0]
Reject == [kind |-> "reject", amount |-> 0]

\* An amount above the reservation is the owner's decision while it is
\* negotiable at all, or when the owner reserves high values.
BeyondReservation(p, standing, highValue) ==
  IF standing <= p.negotiable \/ highValue THEN Escalate ELSE Reject

\* a plausible slip: an impatient clone, and no cap at its owner's reservation
ResponderConcessionUncapped(p, total, standing, own) ==
  Rounded(100 * own + (standing - own) * (p.concession + 50))

\* own: the amount this clone offered last, or would open with.
ResponderConcession(p, total, standing, own) ==
  Rounded(Smaller(100 * Reservation(p, total), 100 * own + (standing - own) * p.concession))

ResponderAction(p, total, standing, own, highValue) ==
  IF standing <= own THEN Accept(standing)
  ELSE IF standing > Reservation(p, total) THEN BeyondReservation(p, standing, highValue)
  ELSE Counter(ResponderConcession(p, total, standing, own))

\* a plausible slip: the concession of the responder, with its sign
InitiatorConcessionUpwards(p, total, proposed, standing, own) ==
  Rounded(Larger(100 * Floor(p, total, proposed), 100 * own + (own - standing) * p.concession))

InitiatorConcession(p, total, proposed, standing, own) ==
  Rounded(Larger(100 * Floor(p, total, proposed), 100 * own - (own - standing) * p.concession))

InitiatorAction(p, total, proposed, standing, own) ==
  IF standing >= own THEN Accept(standing)
  ELSE IF own <= Floor(p, total, proposed) /\ standing < Floor(p, total, proposed) THEN Escalate
  ELSE LET candidate == InitiatorConcession(p, total, proposed, standing, own)
       IN  IF candidate <= standing THEN Accept(standing) ELSE Counter(candidate)

NextAction(role, p, total, proposed, standing, own, highValue) ==
  IF role = "responder" THEN ResponderAction(p, total, standing, own, highValue)
  ELSE InitiatorAction(p, total, proposed, standing, own)
================================================================================
