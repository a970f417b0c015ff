------------------------------- MODULE MCBot -------------------------------
(***************************************************************************)
(* Small instances of module Bot for TLC.                                  *)
(***************************************************************************)
EXTENDS Bot, TLC

CONSTANTS b1, b2

OneBot == {b1}
TwoBots == {b1, b2}
Ids3 == 1..3
Ids4 == 1..4

NoLocks == {}
BaseLocks == {"base"}

BotSymmetry == Permutations(TwoBots)
=============================================================================
