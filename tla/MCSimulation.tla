----------------------------- MODULE MCSimulation ------------------------------
(***************************************************************************)
(* Small instances of Simulation: starts and overlapping stop requests.    *)
(***************************************************************************)
EXTENDS Simulation

CONSTANTS h1, h2

TwoHandlers == {h1, h2}
=============================================================================
