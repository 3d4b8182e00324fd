---------------------- MODULE RemoteNegotiation_refinement ----------------------
(***************************************************************************)
(* The message exchange implements NegotiationOutcome: proofs.             *)
(***************************************************************************)
EXTENDS RemoteNegotiation_proofs

\* The value of the refinement mapping.
view == [n \in Node |-> [s \in Session |-> View(n, s)]]

LEMMA ViewType ==
  ASSUME TypeOK, NEW n \in Node, NEW s \in Session
  PROVE  /\ View(n, s) \in Outcomes \cup {NoOutcome}
         /\ View(n, s) = NoOutcome <=> status[n][s] \notin Terminal
<1>1. NoOutcome \notin Outcomes
  BY DEF NoOutcome, Outcomes, Terminal
<1>2. agreement[n][s] \in SUBSET Value
  BY DEF TypeOK
<1>3. CASE status[n][s] \in Terminal
  <2>1. View(n, s) \in Outcomes
    BY <1>2, <1>3 DEF View, Outcomes
  <2>. QED BY <1>1, <1>3, <2>1
<1>4. CASE status[n][s] \notin Terminal
  BY <1>4 DEF View
<1>. QED BY <1>3, <1>4

\* A step that disturbs one session is a step of NegotiationOutcome or none.
LEMMA StepRefines ==
  ASSUME TypeOK, ProtocolInv, TypeOK', OutcomesAgree', SmallStep
  PROVE  [Abstract!Next]_view
<1>1. CASE UNCHANGED <<status, agreement, messages>>
  BY <1>1 DEF view, View
<1>2. CASE \E n \in Node, s \in Session : OneSession(n, s)
  <2>1. PICK n \in Node, s \in Session : OneSession(n, s)
    BY <1>2
  <2>2. ASSUME NEW q \in Node, NEW z \in Session, q # n \/ z # s
        PROVE  View(q, z)' = View(q, z)
    BY <2>1, <2>2 DEF OneSession, View
  <2>3. CASE View(n, s)' = View(n, s)
    BY <2>2, <2>3 DEF view
  <2>4. CASE View(n, s)' # View(n, s)
    <3>. DEFINE o == View(n, s)'
    <3>1. status[n][s] \notin Terminal
      BY <2>1, <2>4 DEF OneSession, View
    <3>2. View(n, s) = NoOutcome
      BY <3>1 DEF View
    <3>3. status'[n][s] \in Terminal
      BY <2>4, <3>2 DEF View
    <3>4. o \in Outcomes
      <4>1. agreement'[n][s] \in SUBSET Value
        BY DEF TypeOK
      <4>. QED BY <3>3, <4>1 DEF View, Outcomes
    <3>5. ASSUME NEW q \in Node PROVE View(q, s) \in {NoOutcome, o}
      <4>1. CASE q = n
        BY <3>2, <4>1
      <4>2. CASE q # n /\ status[q][s] \notin Terminal
        BY <4>2 DEF View
      <4>3. CASE q # n /\ status[q][s] \in Terminal
        <5>1. View(q, s)' = View(q, s) /\ status'[q][s] \in Terminal
          BY <2>1, <2>2, <4>3 DEF OneSession
        <5>2. (status[n][s] = status[q][s] /\ agreement[n][s] = agreement[q][s])'
          BY <3>3, <5>1 DEF OutcomesAgree, Node
        <5>. QED BY <3>3, <5>1, <5>2 DEF View
      <4>. QED BY <4>1, <4>2, <4>3
    <3>6. view' = [view EXCEPT ![n][s] = o]
      BY <2>2 DEF view
    <3>7. view[n][s] = NoOutcome /\ \A q \in Node : view[q][s] \in {NoOutcome, o}
      BY <3>2, <3>5 DEF view
    <3>. HIDE DEF o
    <3>8. Abstract!Conclude(n, s)
      BY <3>4, <3>6, <3>7 DEF Abstract!Conclude, view
    <3>. QED BY <3>8 DEF Abstract!Next
  <2>. QED BY <2>3, <2>4
<1>. QED BY <1>1, <1>2 DEF SmallStep

\* Sessions start undecided on both nodes, and every step of the exchange
\* records at most one outcome on one node, which is its peer's if the peer has
\* one, and for good: the whole of remote_negotiation.py implements the promise
\* that a negotiation has one outcome.
THEOREM RefinementTheorem == Spec => ImplementsOutcome
<1>1. Init => Abstract!Init
  BY DEF Init, Abstract!Init, View, Terminal
<1>2. TypeOK /\ ProtocolInv /\ TypeOK' /\ OutcomesAgree' /\ [Next]_vars => [Abstract!Next]_view
  BY StepKeepsInv, StepRefines
<1>. QED BY <1>1, <1>2, TypeCorrect, ProtocolInvariant, OutcomesTheorem, PTL DEF Spec, ImplementsOutcome, Abstract!Spec, view

================================================================================
