------------------------------- MODULE MCFake -------------------------------
(***************************************************************************)
(* A small instance of module FakeExchange for TLC.                        *)
(***************************************************************************)
EXTENDS FakeExchange

CONSTANTS c1, c2

TwoClients == {c1, c2}
OneOrTwo == {1, 2}
One == {1}

ClientSymmetry == Permutations(TwoClients)
=============================================================================
