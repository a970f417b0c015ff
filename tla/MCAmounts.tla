----------------------------- MODULE MCAmounts -----------------------------
(***************************************************************************)
(* A small instance of module Amounts for TLC: prices of 0.09 to 11, ticks  *)
(* and steps of 0.01 to 1, ones that are no power of ten, and none.         *)
(***************************************************************************)
EXTENDS Amounts

Ticks == {0, 1, 2, 5, 10, 50}
Steps == {0, 1, 5, 10, 25, 100}

Book(bids, asks) == [bids |-> bids, asks |-> asks]

SomeBooks ==
  { Book({9}, {10}), Book({58, 60}, {61, 1090}), Book({9, 166}, {167}),
    Book({333}, {340, 350}), Book({1000, 1003}, {1004, 1010}), Book({1090}, {1099}),
    Book({}, {61}), Book({60}, {}) }

\* Just too little, just enough, and enough for two trades.
Quotes == {109999, 110000, 230000}
=============================================================================
