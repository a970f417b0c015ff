------------------------------ MODULE Amounts ------------------------------
(***************************************************************************)
(* The numbers of a bot's trades: from the sizes in the exchange's filters  *)
(* (GetInformation, GetPrecision) and the best offers of the order book     *)
(* (GetRate, CalcRate) to the price and the amount of a buy order, and from *)
(* what was bought to those of the sell order (service/bot.go).  Module Bot *)
(* has the control around them and counts money in units; here one bot      *)
(* trades alone and nothing fails but for the sake of a number.             *)
(*                                                                         *)
(* Prices and amounts are integers, in units of 10^-Digits; their products, *)
(* sums of money, are in units of 10^-(2*Digits).  The code's float64 are   *)
(* taken for the rational numbers they stand for.                          *)
(***************************************************************************)
EXTENDS Integers, FiniteSetsExt

CONSTANTS
  Digits,       \* decimals of prices and amounts
  TickSizes,    \* sizes a PRICE_FILTER may give
  StepSizes,    \* sizes a LOT_SIZE filter may give
  Books,        \* order books the exchange may send
  InitQuotes,   \* sums of quote currency the account may start with
  MaxTrades     \* bound: signals followed

MinSum == 11

ASSUME AmountsAssumption ==
  /\ Digits \in Nat
  /\ TickSizes \subseteq Nat /\ StepSizes \subseteq Nat /\ InitQuotes \subseteq Nat
  /\ \A b \in Books : /\ b.asks \subseteq Nat \ {0} /\ b.bids \subseteq Nat \ {0}
                      /\ IsFiniteSet(b.asks) /\ IsFiniteSet(b.bids)
                      /\ \A bid \in b.bids, ask \in b.asks : bid < ask
  /\ MaxTrades \in Nat

VARIABLES
  pc,           \* the bot's state
  tick, step,   \* the filters of the pair
  info,         \* PricePrecision and BasePrecision, once they are known
  order,        \* currentOrder
  quote, base,  \* the account
  trades,       \* signals followed so far
  \* observation only
  book,         \* the order book the rate was last read from
  bought,       \* the price of the trade's buy order
  opened        \* the account when the trade began

pairVars == <<tick, step>>
accountVars == <<quote, base>>
observedVars == <<book, bought, opened>>
vars == <<pc, pairVars, info, order, accountVars, trades, observedVars>>

-----------------------------------------------------------------------------
(* Arithmetic.                                                             *)

\* Powers of ten.
Power[n \in 0..Digits] == IF n = 0 THEN 1 ELSE 10 * Power[n - 1]
One == Power[Digits]

\* What n decimals leave of a number: the multiples of this.
Grid(n) == Power[Digits - n]

\* round(a/b, n), halves away from zero; nothing rounded here is negative.
RoundUp(a, b, n) == Grid(n) * ((a + b * Grid(n) - 1) \div (b * Grid(n)))
Round(a, b, n) == Grid(n) * ((2 * a + b * Grid(n)) \div (2 * b * Grid(n)))

RoundDownNearest(a, n) == Round(a, 1, n)
RoundDown(a, n) == Grid(n) * (a \div Grid(n))

\* The fewest decimals that make the size one or, as math.Round has it, a half.
OneAfter(size, n) == size * Power[n] >= One
HalfAfter(size, n) == 2 * size * Power[n] >= One
GetPrecisionFloor(size) ==
  CHOOSE n \in 0..Digits : OneAfter(size, n) /\ \A m \in 0..(n - 1) : ~OneAfter(size, m)
GetPrecisionCountsFirst(size) == 1 + GetPrecisionFloor(size)
GetPrecision(size) ==
  CHOOSE n \in 0..Digits : HalfAfter(size, n) /\ \A m \in 0..(n - 1) : ~HalfAfter(size, m)

-----------------------------------------------------------------------------
(* What is bought and sold, and for how much.  A rate is the mean of two    *)
(* offers, so twice the rate is what is an integer.                         *)

TwiceRateWorst(b) == Max(b.bids) + Max(b.asks)
TwiceRate(b) == Max(b.bids) + Min(b.asks)

\* rate + eps, and MinSum / (rate + eps), with eps = 0.0005 * rate.
BuyPrice(rate2, n) == Round(2001 * rate2, 4000, n)
BuyAmountUp(rate2, n) == RoundUp(4000 * MinSum * One * One, 2001 * rate2, n)
BuyAmount(rate2, n) == Round(4000 * MinSum * One * One, 2001 * rate2, n)

\* The price paid and eps = 0.003 of it; 0.999 of what there is.
SellPriceThin(price, n) == Round(1001 * price, 1000, n)
SellPrice(price, n) == Round(1003 * price, 1000, n)
SellAmount(amount, n) == Round(999 * RoundDown(amount, n), 1000, n)

Sum(o) == o.price * o.amount

-----------------------------------------------------------------------------
States == {"Start", "hung", "GetSignal", "OpenPosition", "ClosePosition",
           "CreateOrder", "CheckOrder"}
Order == [side : {"none", "BUY", "SELL"}, price : Nat, amount : Nat]
NoBook == [asks |-> {}, bids |-> {}]

TypeOK ==
  /\ pc \in States
  /\ tick \in TickSizes /\ step \in StepSizes
  /\ info \in [price : 0..Digits, base : 0..Digits]
  /\ order \in Order
  /\ quote \in Nat /\ base \in Nat
  /\ trades \in 0..MaxTrades
  /\ book \in Books \cup {NoBook}
  /\ bought \in Nat
  /\ opened \in [quote : Nat, base : Nat]

Init ==
  /\ pc = "Start"
  /\ tick \in TickSizes /\ step \in StepSizes
  /\ info = [price |-> 0, base |-> 0]
  /\ order = [side |-> "none", price |-> 0, amount |-> 0]
  /\ quote \in InitQuotes /\ base = 0
  /\ trades = 0
  /\ book = NoBook /\ bought = 0 /\ opened = [quote |-> 0, base |-> 0]

\* A size of zero, which in a filter means that there is none, is multiplied by
\* ten for ever.
GetInformation ==
  /\ pc = "Start"
  /\ IF tick = 0 \/ step = 0
       THEN pc' = "hung" /\ UNCHANGED info
       ELSE /\ pc' = "GetSignal"
            /\ info' = [price |-> GetPrecision(tick), base |-> GetPrecision(step)]
  /\ UNCHANGED <<pairVars, order, accountVars, trades, observedVars>>

Signal ==
  /\ pc = "GetSignal"
  /\ trades < MaxTrades
  /\ trades' = trades + 1
  /\ opened' = [quote |-> quote, base |-> base]
  /\ pc' = "OpenPosition"
  /\ UNCHANGED <<pairVars, info, order, accountVars, book, bought>>

NotEnoughMoney ==
  /\ pc = "OpenPosition"
  /\ quote < MinSum * One * One
  /\ pc' = "GetSignal"
  /\ UNCHANGED <<pairVars, info, order, accountVars, trades, observedVars>>

\* A book that lacks a side is an error, and is asked for again.
OpenPosition(b) ==
  /\ pc = "OpenPosition"
  /\ quote >= MinSum * One * One
  /\ b.asks # {} /\ b.bids # {}
  /\ order' = [side |-> "BUY",
               price |-> BuyPrice(TwiceRate(b), info.price),
               amount |-> BuyAmount(TwiceRate(b), info.base)]
  /\ book' = b /\ bought' = order'.price
  /\ pc' = "CreateOrder"
  /\ UNCHANGED <<pairVars, info, accountVars, trades, opened>>

\* The exchange takes an order that fits the filters and is covered.
Fits(o) == o.amount > 0 /\ o.price % tick = 0 /\ o.amount % step = 0
Covered(o) == IF o.side = "BUY" THEN Sum(o) <= quote ELSE o.amount <= base

CreateOrder ==
  /\ pc = "CreateOrder"
  /\ pc' = IF Fits(order) /\ Covered(order) THEN "CheckOrder" ELSE "GetSignal"
  /\ UNCHANGED <<pairVars, info, order, accountVars, trades, observedVars>>

\* The order is filled at its price.  The exchange keeps a fee of 0.1% of what
\* it brings, unless the account pays its fees in another currency.
Fees(sum) == {0, sum \div 1000}

BuyFinished ==
  /\ pc = "CheckOrder" /\ order.side = "BUY"
  /\ quote' = quote - Sum(order)
  /\ \E fee \in Fees(order.amount) : base' = (base + order.amount) - fee
  /\ pc' = "ClosePosition"
  /\ UNCHANGED <<pairVars, info, order, trades, observedVars>>

BuyCancelled ==
  /\ pc = "CheckOrder" /\ order.side = "BUY"
  /\ pc' = "GetSignal"
  /\ UNCHANGED <<pairVars, info, order, accountVars, trades, observedVars>>

ClosePosition ==
  /\ pc = "ClosePosition"
  /\ order' = [side |-> "SELL",
               price |-> SellPrice(order.price, info.price),
               amount |-> SellAmount(base, info.base)]
  /\ pc' = "CreateOrder"
  /\ UNCHANGED <<pairVars, info, accountVars, trades, observedVars>>

SellFinished ==
  /\ pc = "CheckOrder" /\ order.side = "SELL"
  /\ base' = base - order.amount
  /\ \E fee \in Fees(Sum(order)) : quote' = (quote + Sum(order)) - fee
  /\ pc' = "GetSignal"
  /\ UNCHANGED <<pairVars, info, order, trades, observedVars>>

Next ==
  \/ GetInformation \/ Signal \/ NotEnoughMoney
  \/ \E b \in Books : OpenPosition(b)
  \/ CreateOrder \/ BuyFinished \/ BuyCancelled \/ ClosePosition \/ SellFinished

Spec == Init /\ [][Next]_vars

-----------------------------------------------------------------------------
Buying == pc = "CreateOrder" /\ order.side = "BUY"
Selling == pc = "CreateOrder" /\ order.side = "SELL"

\* A buy order is priced between the best offers, up to 0.05% and half of a
\* price step, whatever order the book lists them in (exchange.go:85-90,
\* bot.go:274-287): it is neither hopeless nor pays for offers far off.
BuyNearOffers ==
  Buying =>
    /\ \A bid \in book.bids : 2 * order.price + Grid(info.price) >= 2 * bid
    /\ \A ask \in book.asks :
         1000 * (2 * order.price - Grid(info.price)) <= 2001 * ask

\* "quote < MinSum": what was looked at covers the buy order up to the rounding
\* of its two numbers, by half of a step each, and no more (bot.go:142, 286-287).
BuySpendsMinSum ==
  LET lot == Grid(info.base)  mark == Grid(info.price)
      excess == Sum(order) - MinSum * One * One
      slack == 2 * lot * order.price + 2 * mark * order.amount + 3 * lot * mark
  IN Buying => 4 * excess <= slack /\ -slack <= 4 * excess

\* The sell order never offers more than there is, whatever was kept as a fee
\* and whatever earlier trades left, and leaves less than 0.1% and one and a
\* half lot steps (bot.go:166-168, 336; analytics.go:155-164).
SellsAllButDust ==
  Selling =>
    /\ order.amount <= base
    /\ 2000 * (base - order.amount) <= 2 * base + 3000 * Grid(info.base)

\* The sell order asks at least the price that was paid, and more unless 0.3% of
\* that price is less than half of a price step (bot.go:326-334).
SellsAboveBuy ==
  Selling =>
    /\ order.price >= bought
    /\ 3 * bought >= 500 * Grid(info.price) => order.price > bought

\* Sizes that are a power of ten, or half of one.
Handy(size) == \E n \in 0..Digits : size = Power[n] \/ 2 * size = Power[n]

\* Orders fit the exchange's filters when their sizes are powers of ten or half
\* of one, and at most 1: decimals say no more of a size (exchange.go:45-52,
\* api.go:369-386).
OrdersFitFilters ==
  Buying \/ Selling =>
    /\ Handy(tick) => order.price % tick = 0
    /\ Handy(step) => order.amount % step = 0

\* The trade has a price of at least 1000 price steps, and four lot steps.
Sizeable ==
  /\ bought >= 1000 * Grid(info.price)
  /\ opened.quote - quote >= 4 * bought * Grid(info.base)

\* A sizeable trade that is bought and sold leaves an account that is worth no
\* less than before, fees included: 0.3% is enough in spite of the rounding of
\* both orders.  Of fewer lots the fee may keep a third from being sold again
\* (bot.go:166-168, 273-290, 326-339).
TradesGain ==
  [][SellFinished /\ Sizeable
       => quote' + bought * base' >= opened.quote + bought * opened.base]_vars
=============================================================================
