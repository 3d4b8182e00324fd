-------------------------- MODULE MCRemoteNegotiation --------------------------
(***************************************************************************)
(* Instances of RemoteNegotiation for TLC.                                 *)
(***************************************************************************)
EXTENDS RemoteNegotiation

CONSTANTS s1, s2, v1, v2, v3, t1, t2

\* Every negotiation is started by a.
AStarts   == [s \in Session |-> "a"]

\* A meeting, or a cost to split; or one of each.
Meetings == [s \in Session |-> "meeting.schedule"]
OneOfEach == [s \in Session |-> IF s = s1 THEN "meeting.schedule" ELSE "cost.split"]

\* A slot (or share) that only a accepts, one that both accept and one that
\* only b accepts.
Overlap == [n \in Node |-> IF n = "a" THEN {v1, v2} ELSE {v2, v3}]

\* b accepts only what a also accepts.
Narrow == [n \in Node |-> IF n = "a" THEN {v1, v2} ELSE {v2}]

\* An offer is one acceptable value, or all of them (a meeting offers a list).
OneEach  == [n \in Node |-> {{v} : v \in Acceptable[n]}]
OneOrAll == [n \in Node |-> {{v} : v \in Acceptable[n]} \cup {Acceptable[n]}]

NoReview   == [n \in Node |-> {FALSE}]
BoundB     == [n \in Node |-> IF n = "a" THEN BOOLEAN ELSE {TRUE}]
SomeOfB    == [n \in Node |-> IF n = "a" THEN {FALSE} ELSE BOOLEAN]
SomeReview == [n \in Node |-> BOOLEAN]
================================================================================
