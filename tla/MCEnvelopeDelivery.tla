-------------------------- MODULE MCEnvelopeDelivery ---------------------------
(***************************************************************************)
(* Instances of EnvelopeDelivery for TLC: node a queues two envelopes for  *)
(* node b.                                                                 *)
(***************************************************************************)
EXTENDS EnvelopeDelivery, TLC

CONSTANTS a, b, w, t1, t2, m1, m2

MCCaller == [n \in Node |-> IF n = a THEN {w} ELSE {t1, t2}]
MCFrom == [m \in Message |-> a]
MCTo == [m \in Message |-> b]
MCSize == [m \in Message |-> IF m = m1 THEN 1 ELSE 2]
MCSymmetry == Permutations({t1, t2})
================================================================================
