---------------------------- MODULE MCRepresentation ----------------------------
(***************************************************************************)
(* Instances of Representation for TLC.                                    *)
(***************************************************************************)
EXTENDS Representation, TLC

CONSTANTS m1, m2, p1, s1, t1, t2

MCIntent == {"meeting.schedule", "cost.split"}

\* m1 and m2 have one title.
MCTitleOf == [m \in Memory |-> "plan"]

\* A card of version 2 declares what its node can do and names the owner's
\* agent; one of version 1 does neither.
CardV2 == [declares |-> {"cost.split"}, ownerId |-> TRUE]
CardV1 == [declares |-> {}, ownerId |-> FALSE]
MCBothCards == {CardV2, CardV1}

MCSymmetry == Permutations(Thread)
================================================================================
