------------------------------ MODULE MCSignals ------------------------------
(***************************************************************************)
(* A small instance of module Signals for TLC.                             *)
(***************************************************************************)
EXTENDS Signals

CONSTANTS b1, b2

TwoBots == {b1, b2}
OneBot == {b1}
Rising == {"Up"}
=============================================================================
