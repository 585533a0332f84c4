------------------------------ MODULE MCAgent ------------------------------
(***************************************************************************)
(* Agent with the constants of its runs.                                   *)
(***************************************************************************)
EXTENDS Agent, TLC

CONSTANTS p1, p2

\* p1 runs a program with a name, p2 one without.
MCName == (p1 :> "app") @@ (p2 :> NoName)

============================================================================
