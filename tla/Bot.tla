-------------------------------- MODULE Bot --------------------------------
(***************************************************************************)
(* The trading state machine of service/bot.go (StartSM), one per bot, with *)
(* the Autotrade goroutine that feeds it (service/analytics.go) and the     *)
(* exchange account all the bots share (module Exchange).                   *)
(*                                                                         *)
(* One action is one iteration of the switch, or one exchange call of it    *)
(* where the answer decides what happens next.  A call that fails and is    *)
(* simply made again (OpenedOrders in CheckOrder, GetBalance in             *)
(* ClosePosition, CancelOrder refused) leaves every variable as it was, so  *)
(* it is a stuttering step; GetInformation in Start is the exception.       *)
(* Sleeps are not steps either: any number of steps of others may come      *)
(* between two steps of a bot.                                             *)
(***************************************************************************)
EXTENDS Exchange

CONSTANTS
  AttemptsNumber,   \* tries at creating one order (3 in the code)
  MinSum,           \* what one position costs (11 in the code)
  MaxSignals        \* bound: signals computed per bot

ASSUME BotAssumption ==
  /\ AttemptsNumber \in Nat \ {0}
  /\ MinSum \in Nat \ {0}
  /\ MaxSignals \in Nat

VARIABLES
  \* struct Bot and the locals of StartSM
  state,          \* b.state
  currentOrder,   \* the order StartSM is working on, or NilOrder
  closed,         \* local flag choosing the kind of sell order
  attempts,       \* loop counter of the CreateOrder case
  info,           \* b.info is set
  running,        \* StartSM has not left its loop
  \* the goroutines around it
  signalCh,       \* channel of capacity one, Autotrade -> StartSM
  autotrade,      \* where Autotrade is in its loop
  tradeDone,      \* the context tradeCtx is cancelled
  sent,           \* signals computed so far
  \* observation only
  leftBy,         \* events after which bought currency may stay unsold
  openedAfterStop \* positions opened after tradeDone

smVars == <<state, currentOrder, closed, attempts, info, running>>
signalVars == <<signalCh, autotrade, tradeDone, sent>>
observedVars == <<leftBy, openedAfterStop>>
vars == <<exchangeVars, smVars, signalVars, observedVars>>

-----------------------------------------------------------------------------
\* WaitOrder and ClosePositionNow are declared in bot.go but never assigned.
States == {"Start", "GetSignal", "OpenPosition", "CreateOrder", "CheckOrder",
           "CancelOrder", "ClosePosition", "Nothing"}

\* id 0 is the empty string; overdue is time.Now().After(OrderTime).
NilOrder == [side |-> "nil", amount |-> 0, id |-> 0, overdue |-> FALSE]
BotOrder == [side: Sides, amount: Nat, id: OrderIds \cup {0}, overdue: BOOLEAN]
NewOrder(side, amount) ==
  [side |-> side, amount |-> amount, id |-> 0, overdue |-> FALSE]

Directions == {"Up", "Stay", "Down"}
NoSignal == [dir |-> "none", fresh |-> FALSE]
Signal == [dir: Directions, fresh: BOOLEAN]

Leftovers == {"sell_not_created", "sell_removed", "partial_buy_cancelled",
              "unconfirmed_order", "dust"}

TypeOK ==
  /\ ExchangeTypeOK
  /\ state \in [Bots -> States]
  /\ currentOrder \in [Bots -> BotOrder \cup {NilOrder}]
  /\ closed \in [Bots -> BOOLEAN]
  /\ attempts \in [Bots -> 0..(AttemptsNumber - 1)]
  /\ info \in [Bots -> BOOLEAN]
  /\ running \in [Bots -> BOOLEAN]
  /\ signalCh \in [Bots -> Signal \cup {NoSignal}]
  /\ autotrade \in [Bots -> {"poll", "compute", "returned"}]
  /\ tradeDone \in [Bots -> BOOLEAN]
  /\ sent \in [Bots -> 0..MaxSignals]
  /\ leftBy \subseteq Leftovers
  /\ openedAfterStop \in [Bots -> Nat]

Init ==
  /\ ExchangeInit
  /\ state = [b \in Bots |-> "Start"]
  /\ currentOrder = [b \in Bots |-> NilOrder]
  /\ closed = [b \in Bots |-> TRUE]
  /\ attempts = [b \in Bots |-> 0]
  /\ info = [b \in Bots |-> FALSE]
  /\ running = [b \in Bots |-> TRUE]
  /\ signalCh = [b \in Bots |-> NoSignal]
  /\ autotrade = [b \in Bots |-> "poll"]
  /\ tradeDone = [b \in Bots |-> FALSE]
  /\ sent = [b \in Bots |-> 0]
  /\ leftBy = {}
  /\ openedAfterStop = [b \in Bots |-> 0]

-----------------------------------------------------------------------------
(* Helpers.                                                                *)

At(b, s) == running[b] /\ state[b] = s
\* In state s and free to call the exchange.
Calls(b, s) == At(b, s) /\ ~mutexLeaked
GoTo(b, s) == state' = [state EXCEPT ![b] = s]
Work(b, order) == currentOrder' = [currentOrder EXCEPT ![b] = order]

\* ClosePosition offers round(0.999 * balance); balances are in lot steps and
\* math.Round rounds half up.
SellAmount(balance) == (999 * balance + 500) \div 1000

\* Where CheckOrder goes when the order is no longer in the list.
AfterFinishedForgetsBuy(side) == "GetSignal"
AfterFinishedResells(side) == "ClosePosition"
AfterFinished(side) == IF side = "BUY" THEN "ClosePosition" ELSE "GetSignal"

\* Where a CheckOrder that still finds the order goes: only a buy is given up.
AfterFoundLetsGo(order) ==
  IF order.side = "BUY" /\ order.overdue THEN "GetSignal" ELSE "CheckOrder"
AfterFoundTooEarly(order) ==
  IF order.side = "BUY" /\ ~order.overdue THEN "CancelOrder" ELSE "CheckOrder"
AfterFound(order) ==
  IF order.side = "BUY" /\ order.overdue THEN "CancelOrder" ELSE "CheckOrder"

\* The bounds of the loop over attempts, and where it ends without success.
LastAttemptOffByOne(n) == n = AttemptsNumber
LastAttempt(n) == n + 1 = AttemptsNumber
NextAttemptStays(n) == n
NextAttempt(n) == n + 1
AfterLastAttemptUnchecked == "CheckOrder"
AfterLastAttempt == "GetSignal"

\* Only an Up signal younger than five seconds opens a position.
Opens(signal) == signal.dir = "Up" /\ signal.fresh

-----------------------------------------------------------------------------
(* StartSM, case by case.                                                  *)

\* Start: GetInformation finds the pair in the exchange's list, and ends with the
\* quote balance, which has to be readable with the keys of b.  Nothing checks
\* the pair or the keys when the bot is created; one that names a wrong pair or
\* wrong keys asks again every minute, and never looks at its context.
StartSM(b) ==
  /\ Calls(b, "Start")
  /\ b \in served
  /\ ~BalanceBlocked("quote")
  /\ info' = [info EXCEPT ![b] = TRUE]
  /\ GoTo(b, "GetSignal")
  /\ UNCHANGED <<exchangeVars, currentOrder, closed, attempts, running,
                 signalVars, observedVars>>

\* GetInformation fails before its answer is there: the case will be run again
\* in a minute, but ExchangeMutex is not given back.
InformationFails(b) ==
  /\ At(b, "Start")
  /\ GetInformationFails
  /\ UNCHANGED <<smVars, signalVars, observedVars>>

\* GetSignal: the select takes a signal ...
ReceiveSignal(b) ==
  /\ At(b, "GetSignal")
  /\ signalCh[b] # NoSignal
  /\ signalCh' = [signalCh EXCEPT ![b] = NoSignal]
  /\ GoTo(b, IF Opens(signalCh[b]) THEN "OpenPosition" ELSE "GetSignal")
  /\ openedAfterStop' = [openedAfterStop EXCEPT ![b] =
       IF tradeDone[b] /\ Opens(signalCh[b]) THEN @ + 1 ELSE @]
  /\ UNCHANGED <<exchangeVars, currentOrder, closed, attempts, info, running,
                 autotrade, tradeDone, sent, leftBy>>

\* ... or sees that the context is cancelled and leaves the loop.
Deleted(b) ==
  /\ At(b, "GetSignal")
  /\ tradeDone[b]
  /\ running' = [running EXCEPT ![b] = FALSE]
  /\ UNCHANGED <<exchangeVars, state, currentOrder, closed, attempts, info,
                 signalVars, observedVars>>

\* OpenPosition: the quote balance reads below MinSum.  A failed GetBalance
\* reads -1 or 0, so this can happen whatever the balance is.
NotEnoughQuote(b) ==
  /\ Calls(b, "OpenPosition")
  /\ GoTo(b, "Nothing")
  /\ UNCHANGED <<exchangeVars, currentOrder, closed, attempts, info, running,
                 signalVars, observedVars>>

CanPayBuy ==
  /\ ~BalanceBlocked("quote")
  /\ free["quote"] >= MinSum

\* createBuyOrder fails at GetRate and returns nil; the case runs again.
BuyOrderFailsUnchecked(b) ==
  /\ Calls(b, "OpenPosition")
  /\ CanPayBuy
  /\ Work(b, NilOrder)
  /\ GoTo(b, "CreateOrder")
  /\ UNCHANGED <<exchangeVars, closed, attempts, info, running,
                 signalVars, observedVars>>

BuyOrderFails(b) ==
  /\ Calls(b, "OpenPosition")
  /\ CanPayBuy
  /\ Work(b, NilOrder)
  /\ UNCHANGED <<exchangeVars, state, closed, attempts, info, running,
                 signalVars, observedVars>>

PrepareBuy(b) ==
  /\ Calls(b, "OpenPosition")
  /\ CanPayBuy
  /\ Work(b, NewOrder("BUY", MinSum))
  /\ GoTo(b, "CreateOrder")
  /\ UNCHANGED <<exchangeVars, closed, attempts, info, running,
                 signalVars, observedVars>>

\* ClosePosition: nothing to sell.
NothingToSell(b) ==
  /\ Calls(b, "ClosePosition")
  /\ ~BalanceBlocked("base")
  /\ free["base"] = 0
  /\ GoTo(b, "Nothing")
  /\ UNCHANGED <<exchangeVars, currentOrder, closed, attempts, info, running,
                 signalVars, observedVars>>

\* ClosePosition: the whole free base balance is offered; a residue below one
\* lot makes an order for nothing.  With closed unset createMarketSellOrder may
\* fail and leave nil behind; the case runs again.
PrepareSell(b) ==
  /\ Calls(b, "ClosePosition")
  /\ ~BalanceBlocked("base")
  /\ \E rateOK \in (IF closed[b] THEN {TRUE} ELSE BOOLEAN) :
       LET amount == IF closed[b] THEN SellAmount(free["base"]) ELSE free["base"]
       IN /\ Work(b, IF rateOK THEN NewOrder("SELL", amount) ELSE NilOrder)
          /\ GoTo(b, IF rateOK THEN "CreateOrder" ELSE "ClosePosition")
          /\ leftBy' = IF amount < free["base"] THEN leftBy \cup {"dust"} ELSE leftBy
  /\ UNCHANGED <<exchangeVars, closed, attempts, info, running,
                 signalVars, openedAfterStop>>

\* CreateOrder: an attempt succeeds and the loop breaks.
CreateAccepted(b) ==
  LET order == currentOrder[b] IN
  /\ Calls(b, "CreateOrder")
  /\ \E i \in OrderIds :
       /\ Enter(b, order.side, order.amount, TRUE, i)
       /\ Work(b, [order EXCEPT !.id = i])
  /\ attempts' = [attempts EXCEPT ![b] = 0]
  /\ GoTo(b, "CheckOrder")
  /\ UNCHANGED <<lateCreates, lateCancels, timeouts, mutexLeaked, othersLocked,
                 served, closed, info, running, signalVars, observedVars>>

\* An attempt fails: the id is overwritten with the empty string, and after
\* the last attempt the order, buy or sell, is dropped.
AttemptFails(b) ==
  LET last == LastAttempt(attempts[b]) IN
  /\ Calls(b, "CreateOrder")
  /\ Work(b, [currentOrder[b] EXCEPT !.id = 0])
  /\ attempts' = [attempts EXCEPT ![b] = 
                   IF last THEN 0 ELSE NextAttempt(@)]
  /\ GoTo(b, IF last THEN AfterLastAttempt ELSE "CreateOrder")
  /\ leftBy' = IF last /\ currentOrder[b].side = "SELL"
                 THEN leftBy \cup {"sell_not_created"} ELSE leftBy
  /\ UNCHANGED <<closed, info, running, signalVars, openedAfterStop>>

CreateRefused(b) ==
  /\ AttemptFails(b)
  /\ UNCHANGED exchangeVars

CreateTimesOut(b) ==
  /\ AttemptFails(b)
  /\ SendLateCreate(b, currentOrder[b].side, currentOrder[b].amount)

\* CheckOrder: the list of open orders is answered.
OrderFinished(b) ==
  /\ Calls(b, "CheckOrder")
  /\ ~IsOpen(currentOrder[b].id)
  /\ GoTo(b, AfterFinished(currentOrder[b].side))
  /\ closed' = [closed EXCEPT ![b] = @ \/ currentOrder[b].side # "BUY"]
  /\ UNCHANGED <<exchangeVars, currentOrder, attempts, info, running,
                 signalVars, observedVars>>

OrderFound(b) ==
  /\ Calls(b, "CheckOrder")
  /\ IsOpen(currentOrder[b].id)
  /\ GoTo(b, AfterFound(currentOrder[b]))
  /\ UNCHANGED <<exchangeVars, currentOrder, closed, attempts, info, running,
                 signalVars, observedVars>>

\* CancelOrder: answered CANCELED.  A sell would come back to ClosePosition
\* with closed unset.  Any other answer is an error and the case runs again.
CancelAccepted(b) ==
  LET order == currentOrder[b] IN
  /\ Calls(b, "CancelOrder")
  /\ Remove(order.id)
  /\ GoTo(b, IF order.side = "SELL" THEN "ClosePosition" ELSE "GetSignal")
  /\ closed' = [closed EXCEPT ![b] = @ /\ order.side # "SELL"]
  /\ leftBy' = IF order.side = "BUY" /\ orders[order.id].filled > 0
                 THEN leftBy \cup {"partial_buy_cancelled"} ELSE leftBy
  /\ UNCHANGED <<lateCreates, lateCancels, timeouts, mutexLeaked, othersLocked,
                 served, currentOrder, attempts, info, running, signalVars,
                 openedAfterStop>>

CancelTimesOut(b) ==
  /\ Calls(b, "CancelOrder")
  /\ SendLateCancel(currentOrder[b].id)
  /\ UNCHANGED <<smVars, signalVars, observedVars>>

\* Nothing: after ten intervals the bot listens again.
WakeStays(b) ==
  /\ At(b, "Nothing")
  /\ UNCHANGED vars

Wake(b) ==
  /\ At(b, "Nothing")
  /\ GoTo(b, "GetSignal")
  /\ UNCHANGED <<exchangeVars, currentOrder, closed, attempts, info, running,
                 signalVars, observedVars>>

-----------------------------------------------------------------------------
(* Time, Autotrade and the goroutine that cancels tradeCtx.                *)

\* OrderTime of the current order passes; only a buy is ever asked about it.
OrderTimePasses(b) ==
  /\ currentOrder[b].side = "BUY"
  /\ ~currentOrder[b].overdue
  /\ Work(b, [currentOrder[b] EXCEPT !.overdue = TRUE])
  /\ UNCHANGED <<exchangeVars, state, closed, attempts, info, running,
                 signalVars, observedVars>>

\* The signal in the channel becomes five seconds old.
SignalAges(b) ==
  /\ signalCh[b] # NoSignal
  /\ signalCh[b].fresh
  /\ signalCh' = [signalCh EXCEPT ![b].fresh = FALSE]
  /\ UNCHANGED <<exchangeVars, smVars, autotrade, tradeDone, sent, observedVars>>

\* Autotrade: top of the loop, the context is looked at once per round.
AutotradePollsForever(b) ==
  /\ autotrade[b] = "poll"
  /\ sent[b] < MaxSignals
  /\ autotrade' = [autotrade EXCEPT ![b] = "compute"]
  /\ sent' = [sent EXCEPT ![b] = @ + 1]
  /\ UNCHANGED <<exchangeVars, smVars, signalCh, tradeDone, observedVars>>

AutotradePolls(b) ==
  /\ autotrade[b] = "poll"
  /\ \/ /\ tradeDone[b]
        /\ autotrade' = [autotrade EXCEPT ![b] = "returned"]
        /\ UNCHANGED sent
     \/ /\ ~tradeDone[b]
        /\ sent[b] < MaxSignals
        /\ autotrade' = [autotrade EXCEPT ![b] = "compute"]
        /\ sent' = [sent EXCEPT ![b] = @ + 1]
  /\ UNCHANGED <<exchangeVars, smVars, signalCh, tradeDone, observedVars>>

\* Autotrade: the script has answered; the send never blocks, a signal that
\* finds the channel full is dropped.
AutotradeSends(b) ==
  /\ autotrade[b] = "compute"
  /\ autotrade' = [autotrade EXCEPT ![b] = "poll"]
  /\ \E dir \in Directions :
       signalCh' = [signalCh EXCEPT ![b] =
         IF @ = NoSignal THEN [dir |-> dir, fresh |-> TRUE] ELSE @]
  /\ UNCHANGED <<exchangeVars, smVars, tradeDone, sent, observedVars>>

Stop(b) ==
  /\ ~tradeDone[b]
  /\ tradeDone' = [tradeDone EXCEPT ![b] = TRUE]
  /\ UNCHANGED <<exchangeVars, smVars, signalCh, autotrade, sent, observedVars>>

-----------------------------------------------------------------------------
(* The exchange.                                                           *)

OrderTrades(i) ==
  /\ Trade(i)
  /\ UNCHANGED <<smVars, signalVars, observedVars>>

\* The account's owner or the exchange takes an order off the book.
OrderRemoved(i) ==
  /\ Remove(i)
  /\ leftBy' = IF orders[i].side = "SELL" THEN leftBy \cup {"sell_removed"}
                                          ELSE leftBy
  /\ UNCHANGED <<lateCreates, lateCancels, timeouts, mutexLeaked, othersLocked,
                 served, smVars, signalVars, openedAfterStop>>

UnconfirmedEnters(r, i) ==
  /\ LateCreateEnters(r, i)
  /\ leftBy' = leftBy \cup {"unconfirmed_order"}
  /\ UNCHANGED <<smVars, signalVars, openedAfterStop>>

UnconfirmedLost(r) ==
  /\ LateCreateLost(r)
  /\ UNCHANGED <<smVars, signalVars, observedVars>>

LateCancel(i) ==
  /\ LateCancelArrives(i) \/ LateCancelLost(i)
  /\ UNCHANGED <<smVars, signalVars, observedVars>>

OthersAct ==
  /\ OthersTrade
  /\ UNCHANGED <<smVars, signalVars, observedVars>>

-----------------------------------------------------------------------------
StateMachine(b) ==
  \/ StartSM(b) \/ InformationFails(b) \/ ReceiveSignal(b) \/ Deleted(b)
  \/ NotEnoughQuote(b) \/ BuyOrderFails(b) \/ PrepareBuy(b)
  \/ NothingToSell(b) \/ PrepareSell(b)
  \/ CreateAccepted(b) \/ CreateRefused(b) \/ CreateTimesOut(b)
  \/ OrderFinished(b) \/ OrderFound(b)
  \/ CancelAccepted(b) \/ CancelTimesOut(b)
  \/ Wake(b)

Surroundings(b) ==
  \/ OrderTimePasses(b) \/ SignalAges(b)
  \/ AutotradePolls(b) \/ AutotradeSends(b) \/ Stop(b)

ExchangeActs ==
  \/ \E i \in OrderIds : OrderTrades(i) \/ OrderRemoved(i) \/ LateCancel(i)
  \/ \E r \in lateCreates : UnconfirmedLost(r)
  \/ \E r \in lateCreates, i \in OrderIds : UnconfirmedEnters(r, i)
  \/ OthersAct

Next ==
  \/ \E b \in Bots : StateMachine(b) \/ Surroundings(b)
  \/ ExchangeActs

Spec == Init /\ [][Next]_vars

(***************************************************************************)
(* Fairness.  StartSM is one goroutine that never blocks for good outside   *)
(* the select, and the calls it repeats eventually get an answer.           *)
(* ClosePosition repeats its call without a pause until it succeeds, so if  *)
(* there are, again and again, moments when no asset is locked, it meets    *)
(* one (SF).                                                               *)
(***************************************************************************)
Opening(b) == NotEnoughQuote(b) \/ PrepareBuy(b)
Creating(b) == CreateAccepted(b) \/ CreateRefused(b) \/ CreateTimesOut(b)
Checking(b) == OrderFinished(b) \/ OrderFound(b)
Closing(b) == NothingToSell(b) \/ PrepareSell(b)

BotFairness ==
  \A b \in Bots :
    /\ WF_vars(StartSM(b)) /\ WF_vars(ReceiveSignal(b)) /\ WF_vars(Deleted(b))
    /\ WF_vars(Opening(b)) /\ WF_vars(Creating(b)) /\ WF_vars(Checking(b))
    /\ WF_vars(CancelAccepted(b)) /\ SF_vars(Closing(b)) /\ WF_vars(Wake(b))
    /\ WF_vars(OrderTimePasses(b))

FairSpec == Spec /\ BotFairness

\* With a market that sooner or later trades every order left in the book.
MarketSpec == FairSpec /\ \A i \in OrderIds : WF_vars(OrderTrades(i))

-----------------------------------------------------------------------------
(* Safety.                                                                 *)

\* StartSM dereferences currentOrder and b.info without looking: in the four
\* cases that do, both are set, and the order ClosePosition takes its price
\* from, and the one CancelOrder cancels, is a buy (bot.go:168, 182, 204, 255).
NoNilDereference ==
  \A b \in Bots :
    /\ state[b] # "Start" => info[b]
    /\ state[b] \in {"CreateOrder", "CheckOrder"} => currentOrder[b] # NilOrder
    /\ state[b] \in {"CancelOrder", "ClosePosition"} => currentOrder[b].side = "BUY"

\* The open orders of b whose ids StartSM was given.
Resting(b) == {i \in OrderIds : IsOpen(i) /\ orders[i].acked /\ orders[i].owner = b}

\* An order that the bot knows of and that is still in the book is the one the
\* bot is watching: StartSM never goes back to trading, or ends, and leaves an
\* order behind whose creation was confirmed (bot.go:195-251).
ConfirmedOrderTracked ==
  \A b \in Bots : \A i \in Resting(b) :
    /\ running[b]
    /\ state[b] \in {"CheckOrder", "CancelOrder"}
    /\ currentOrder[b].id = i

\* Conversely the id a bot watches is one the exchange gave to this very bot
\* for an order of that side and amount, so "not in the list" is never read
\* off an id that failed attempts left empty (bot.go:182, 219, 255).
WatchedOrderConfirmed ==
  \A b \in Bots : state[b] \in {"CheckOrder", "CancelOrder"} =>
    LET id == currentOrder[b].id IN
    /\ id \in OrderIds
    /\ orders[id].status # "unused" /\ orders[id].acked
    /\ orders[id].owner = b
    /\ orders[id].side = currentOrder[b].side
    /\ orders[id].amount = currentOrder[b].amount

\* A bot that has bought, or may be buying, and whose states still lead to a sell
\* order, though it may wait on the way, for a balance that is locked or a lock.
Exposed(b) ==
  \/ state[b] = "ClosePosition"
  \/ state[b] = "CheckOrder" /\ currentOrder[b].side = "BUY"
  \/ state[b] = "CancelOrder" /\ IsOpen(currentOrder[b].id)
  \/ state[b] = "CreateOrder" /\ currentOrder[b].side = "SELL"

\* CancelOrder asks for an order that is no longer open: the exchange refuses
\* every time, and the case has no other way out (bot.go:254-259).
CancelStuck(b) == state[b] = "CancelOrder" /\ ~IsOpen(currentOrder[b].id)

\* The one way for a bot to keep what it bought without any event of leftBy: the
\* order traded while its cancel was on the way.
StuckOnABuy(b) == CancelStuck(b) /\ orders[currentOrder[b].id].filled > 0

\* On an account that starts without base currency, bought currency that lies on
\* the account with no bot on the way to a sell order was left there by one of
\* the events leftBy names, or by a bot stuck in CancelOrder on a buy that
\* traded.  Every other path through the cycle, for any number of bots that sell
\* each other's balance, ends in a sell order (bot.go:153-176, 224-233).
UnsoldBaseHasACause ==
  (InitBase = 0 /\ free["base"] > 0 /\ \A b \in Bots : ~Exposed(b))
    => leftBy # {} \/ \E b \in Bots : StuckOnABuy(b)

\* A cancelled context does not stop a bot at once: a signal in the channel and
\* one being computed may still be traded, the select being free to prefer
\* them, but never a third (bot.go:131-139, analytics.go's channel send).
AtMostTwoAfterStop == \A b \in Bots : openedAfterStop[b] <= 2

-----------------------------------------------------------------------------
(* The cycle the state machine promises, module TradeCycle.                *)

Phase(b) ==
  CASE ~running[b] -> "stopped"
    [] running[b] /\ state[b] = "CreateOrder" ->
         IF currentOrder[b].side = "BUY" THEN "buying" ELSE "selling"
    [] running[b] /\ state[b] \in {"CheckOrder", "CancelOrder"} ->
         IF currentOrder[b].side = "BUY" THEN "bidding" ELSE "offering"
    [] running[b] /\ state[b] = "ClosePosition" -> "selling"
    [] OTHER -> "idle"

RestingSides(b) == {orders[i].side : i \in Resting(b)}

Cycle == INSTANCE TradeCycle WITH
  phase <- [b \in Bots |-> Phase(b)],
  resting <- [b \in Bots |-> RestingSides(b)]

\* StartSM, with all its retries and races, is the cycle buy - watch - sell -
\* watch of the diagram at bot.go:101-107, one confirmed order at a time.
FollowsTheCycle == Cycle!Spec

-----------------------------------------------------------------------------
(* Liveness.                                                               *)

\* Watching a buy order ends, whatever the market does: with the position to
\* close, with the order cancelled, or with the bot asking for ever to cancel an
\* order that is no longer open (bot.go:224-243, 254-261).
BuyWatchEnds ==
  \A b \in Bots :
    (state[b] = "CheckOrder" /\ currentOrder[b].side = "BUY")
      ~> (state[b] \in {"ClosePosition", "GetSignal"} \/ CancelStuck(b) \/ mutexLeaked)

\* Creating an order ends, in a watched order or back at the signals
\* (bot.go:178-196).
CreatingEnds ==
  \A b \in Bots :
    (state[b] = "CreateOrder")
      ~> (state[b] \in {"CheckOrder", "GetSignal"} \/ mutexLeaked)

\* No bot's GetBalance would meet a locked asset.
NothingLocked == \A c \in Currencies : ~BalanceBlocked(c)

\* In a market that trades, and on an account that has moments with nothing
\* locked again and again, a bot whose context is cancelled leaves its loop,
\* unless its buy order was filled or removed while it was being cancelled, or no
\* call gets through to the exchange any more, or it is still in Start, where the
\* context is not looked at and GetInformation may fail for ever: a wrong pair,
\* wrong keys, a balance that is locked whenever it asks (bot.go:120-139,
\* 153-160, 254-259; api.go:248-251, 391-398).
StoppedOrStuck ==
  []<>NothingLocked =>
    \A b \in Bots :
      tradeDone[b] ~> (~running[b] \/ CancelStuck(b) \/ mutexLeaked \/ state[b] = "Start")

\* A bot whose pair and keys are good, and whose first GetInformation fails, waits
\* a minute and tries again until it succeeds (bot.go:120-125).
StartRetries ==
  \A b \in Bots : (state[b] = "Start" /\ b \in served) ~> (state[b] # "Start")

\* What the diagram at bot.go:101-107 draws: from CheckOrder the machine comes
\* back to GetSignal.
WatchReturnsToGetSignal ==
  \A b \in Bots : (state[b] = "CheckOrder") ~> (state[b] = "GetSignal")
=============================================================================
