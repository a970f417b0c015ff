------------------------------ MODULE MCAgents ------------------------------
(***************************************************************************)
(* Small instances of module AgentsService for TLC.                        *)
(***************************************************************************)
EXTENDS AgentsService, TLC

CONSTANTS h1, h2, h3, n1, n2

ThreeHandlers == {h1, h2, h3}
TwoNames == {n1, n2}
=============================================================================
