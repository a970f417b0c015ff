----------------------------- MODULE TradeCycle -----------------------------
(***************************************************************************)
(* What a trading bot promises its owner, after the diagram in              *)
(* service/bot.go:101-107: buy, watch the buy, sell, watch the sell, and    *)
(* start over.  "resting" is the set of sides on which the bot has an order *)
(* in the book that it knows of; it is never more than the one it watches.  *)
(***************************************************************************)
CONSTANT Bots

VARIABLES
  phase,    \* where a bot is in its cycle
  resting   \* sides of its confirmed orders in the book

cycleVars == <<phase, resting>>

Phases == {"idle", "buying", "bidding", "selling", "offering", "stopped"}

CycleInit ==
  /\ phase = [b \in Bots |-> "idle"]
  /\ resting = [b \in Bots |-> {}]

Turn(b, from, to) ==
  /\ phase[b] \in from
  /\ phase' = [phase EXCEPT ![b] = to]

\* An idle bot decides to buy.
OpenBuy(b) ==
  /\ Turn(b, {"idle"}, "buying")
  /\ UNCHANGED resting

\* The order is confirmed; nothing else of this bot was in the book.
Bid(b) ==
  /\ Turn(b, {"buying"}, "bidding")
  /\ resting[b] = {}
  /\ resting' = [resting EXCEPT ![b] = {"BUY"}]

Offer(b) ==
  /\ Turn(b, {"selling"}, "offering")
  /\ resting[b] = {}
  /\ resting' = [resting EXCEPT ![b] = {"SELL"}]

\* The order trades in full or is taken off the book.
LeaveBook(b) ==
  /\ resting[b] # {}
  /\ resting' = [resting EXCEPT ![b] = {}]
  /\ UNCHANGED phase

\* The bot goes on only when the order it was watching is gone.
TurnToSell(b) ==
  /\ Turn(b, {"bidding"}, "selling")
  /\ resting[b] = {}
  /\ UNCHANGED resting

Finish(b) ==
  /\ Turn(b, {"offering"}, "idle")
  /\ resting[b] = {}
  /\ UNCHANGED resting

\* A buy that takes too long is withdrawn and given up in one go.
Withdraw(b) ==
  /\ Turn(b, {"bidding"}, "idle")
  /\ resting[b] = {"BUY"}
  /\ resting' = [resting EXCEPT ![b] = {}]

\* No order was confirmed, or there was nothing to sell.
Abandon(b) ==
  /\ Turn(b, {"buying", "selling"}, "idle")
  /\ UNCHANGED resting

\* A bot ends only between two cycles, with nothing in the book.
End(b) ==
  /\ Turn(b, {"idle"}, "stopped")
  /\ resting[b] = {}
  /\ UNCHANGED resting

CycleNext ==
  \E b \in Bots :
    \/ OpenBuy(b) \/ Bid(b) \/ TurnToSell(b) \/ Offer(b) \/ Finish(b)
    \/ LeaveBook(b) \/ Withdraw(b) \/ Abandon(b) \/ End(b)

Spec == CycleInit /\ [][CycleNext]_cycleVars
=============================================================================
