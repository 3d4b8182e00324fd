--------------------------- MODULE NegotiationOutcome ---------------------------
(***************************************************************************)
(* What a negotiation promises its two owners: each node decides once, for *)
(* good, and never differently from the other node.  Nothing is said of    *)
(* messages, rounds or approvals.                                          *)
(***************************************************************************)
CONSTANTS
  Node,
  Session,
  Outcome,    \* the ways a session can end
  Undecided   \* what a node has recorded before; not an Outcome

VARIABLE view   \* what each node has recorded of each session

Init == view = [n \in Node |-> [s \in Session |-> Undecided]]

\* Node n records the end of session s.  A node that already recorded one has
\* recorded the same.
Conclude(n, s) ==
  /\ view[n][s] = Undecided
  /\ \E o \in Outcome :
       /\ \A m \in Node : view[m][s] \in {Undecided, o}
       /\ view' = [view EXCEPT ![n][s] = o]

Next == \E n \in Node, s \in Session : Conclude(n, s)

Spec == Init /\ [][Next]_view
================================================================================
