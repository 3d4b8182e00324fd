---------------------------- MODULE MCTaskLifecycle ----------------------------
(***************************************************************************)
(* Instances of TaskLifecycle for TLC: a task that needs its owner, one    *)
(* that does not, and a local negotiation, under two request threads.      *)
(***************************************************************************)
EXTENDS TaskLifecycle, TLC

CONSTANTS k1, k2, n1, r1, r2
================================================================================
