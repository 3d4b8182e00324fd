---------------------------- MODULE MCMemoryRouter -----------------------------
(***************************************************************************)
(* Instances of MemoryRouter for TLC: two texts of one title and one of    *)
(* another, under two request threads.                                     *)
(***************************************************************************)
EXTENDS MemoryRouter, TLC

CONSTANTS x1, x2, x3, t1, t2

\* x1 and x2 have one title; x3 never leaves the node.
MCTypeOf == [x \in Text |-> IF x = x3 THEN "episodic" ELSE "project"]
MCTitleOf == [x \in Text |-> IF x = x3 THEN "other" ELSE "plan"]

MCSymmetry == Permutations(Thread)
================================================================================
