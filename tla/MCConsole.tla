----------------------------- MODULE MCConsole -----------------------------
(***************************************************************************)
(* A small instance of module Console for TLC: a handler for the terminal   *)
(* and one for the terminal before it.                                      *)
(***************************************************************************)
EXTENDS Console

CONSTANTS h1, h2, n1, n2

TwoHandlers == {h1, h2}
TwoNames == {n1, n2}
=============================================================================
