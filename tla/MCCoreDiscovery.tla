--------------------------- MODULE MCCoreDiscovery ---------------------------
(***************************************************************************)
(* Instances of CoreDiscovery for TLC: MCP clients that may each start a   *)
(* Core, and a desktop app with its own.                                   *)
(***************************************************************************)
EXTENDS CoreDiscovery, TLC

CONSTANTS h1, h2, d1, m1, m2, k1

MCSymmetry == Permutations(Headless) \cup Permutations(Client)
================================================================================
