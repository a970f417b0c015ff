----------------------------- MODULE BotProofs -----------------------------
(***************************************************************************)
(* Theorems of module Bot, for any set of bots on the account, any order    *)
(* ids, balances and bounds.  Each layer is an inductive invariant that     *)
(* uses the one before it.                                                  *)
(***************************************************************************)
EXTENDS Bot, TLAPS

-----------------------------------------------------------------------------
(* Layer 1: types, and the facts about currentOrder the types rest on.     *)

\* An order is never filled beyond its amount; an open one has something left
\* to trade and is one of the bots'.
OrdersWellFormed ==
  \A i \in OrderIds :
    /\ orders[i].filled <= orders[i].amount
    /\ IsOpen(i) => /\ orders[i].filled < orders[i].amount
                    /\ orders[i].owner \in Bots

\* An order being watched has an id of the exchange's.
WatchedHasId ==
  \A b \in Bots :
    state[b] \in {"CheckOrder", "CancelOrder"} => currentOrder[b].id \in OrderIds

\* The flag that would choose a market sell order stays set.
ClosedStays == \A b \in Bots : closed[b]

TypeInv == TypeOK /\ OrdersWellFormed /\ WatchedHasId /\ ClosedStays /\ NoNilDereference

LEMMA SellAmountNat ==
  ASSUME NEW n \in Nat
  PROVE  SellAmount(n) \in Nat
BY DEF SellAmount

\* What an order entering the book does to the account's state.
LEMMA EnterTypes ==
  ASSUME ExchangeTypeOK, OrdersWellFormed, NEW b \in Bots, NEW side \in Sides,
         NEW amount \in Nat, NEW acked \in BOOLEAN, NEW i \in OrderIds,
         Enter(b, side, amount, acked, i)
  PROVE  /\ orders' \in [OrderIds -> Order]
         /\ free' \in [Currencies -> Nat]
         /\ OrdersWellFormed'
<1>1. Pays(side) \in Currencies
  BY DEF Pays, Currencies
<1>2. free[Pays(side)] - amount \in Nat
  BY <1>1 DEF Enter, ExchangeTypeOK
<1>3. free' \in [Currencies -> Nat]
  BY <1>1, <1>2 DEF Enter, ExchangeTypeOK
<1>4. orders' \in [OrderIds -> Order]
  BY DEF Enter, ExchangeTypeOK, Order
<1>5. OrdersWellFormed'
  BY DEF OrdersWellFormed, IsOpen, Enter, ExchangeTypeOK, Order
<1> QED
  BY <1>3, <1>4, <1>5

\* What an order leaving the book does to it.
LEMMA RemoveTypes ==
  ASSUME ExchangeTypeOK, OrdersWellFormed, NEW i \in OrderIds, Remove(i)
  PROVE  /\ orders' \in [OrderIds -> Order]
         /\ free' \in [Currencies -> Nat]
         /\ OrdersWellFormed'
<1>1. Pays(orders[i].side) \in Currencies
  BY DEF Pays, Currencies
<1>2. orders[i].amount - orders[i].filled \in Nat
  BY DEF OrdersWellFormed, ExchangeTypeOK, Order
<1>3. free' \in [Currencies -> Nat]
  BY <1>1, <1>2 DEF Remove, ExchangeTypeOK
<1>4. orders' \in [OrderIds -> Order]
  BY DEF Remove, ExchangeTypeOK, Order
<1>5. OrdersWellFormed'
  BY DEF OrdersWellFormed, IsOpen, Remove, ExchangeTypeOK, Order
<1> QED
  BY <1>3, <1>4, <1>5

\* What one traded unit does to it.
LEMMA TradeTypes ==
  ASSUME ExchangeTypeOK, OrdersWellFormed, NEW i \in OrderIds, Trade(i)
  PROVE  /\ orders' \in [OrderIds -> Order]
         /\ free' \in [Currencies -> Nat]
         /\ OrdersWellFormed'
<1>1. Gets(orders[i].side) \in Currencies
  BY DEF Gets, Currencies
<1>2. free' \in [Currencies -> Nat]
  BY <1>1 DEF Trade, ExchangeTypeOK
<1>3. orders' \in [OrderIds -> Order]
  <2>1. orders[i] \in Order
    BY DEF ExchangeTypeOK
  <2>2. Traded(orders[i]) \in Order
    <3>1. \A st \in {"filled", "open"}, n \in Nat :
            [orders[i] EXCEPT !.filled = n, !.status = st] \in Order
      BY <2>1 DEF Order
    <3>2. orders[i].filled + 1 \in Nat
      BY <2>1 DEF Order
    <3> QED
      BY <3>1, <3>2 DEF Traded
  <2> QED
    BY <2>2 DEF Trade, ExchangeTypeOK
<1>4. OrdersWellFormed'
  BY DEF OrdersWellFormed, IsOpen, Trade, Traded, ExchangeTypeOK, Order
<1> QED
  BY <1>2, <1>3, <1>4

LEMMA TypeInvInit == Init => TypeInv
<1> SUFFICES ASSUME Init PROVE TypeInv
  OBVIOUS
<1> USE DEF Init, ExchangeInit
<1>1. TypeOK
  <2>1. orders \in [OrderIds -> Order]
    BY DEF Order, UnusedOrder, Sides
  <2>2. free \in [Currencies -> Nat]
    BY ExchangeAssumption DEF Currencies
  <2>3. lateCreates \subseteq LateCreate /\ lateCancels \subseteq OrderIds
    OBVIOUS
  <2>4. timeouts \in 0..MaxTimeouts
    BY ExchangeAssumption
  <2>5. mutexLeaked \in BOOLEAN
    BY Zenon
  <2>6. ExchangeTypeOK
    BY <2>1, <2>2, <2>3, <2>4, <2>5 DEF ExchangeTypeOK
  <2> QED
    BY <2>6, BotAssumption DEF TypeOK, States, NilOrder, NoSignal
<1>2. OrdersWellFormed
  BY DEF OrdersWellFormed, IsOpen, UnusedOrder
<1>3. WatchedHasId /\ ClosedStays /\ NoNilDereference
  BY DEF WatchedHasId, ClosedStays, NoNilDereference
<1> QED
  BY <1>1, <1>2, <1>3 DEF TypeInv

\* The steps of StartSM and its surroundings that leave the exchange alone.
LEMMA TypeInvLocal ==
  ASSUME TypeInv, UNCHANGED exchangeVars, NEW b \in Bots,
         \/ StartSM(b) \/ ReceiveSignal(b) \/ Deleted(b) \/ NotEnoughQuote(b)
         \/ BuyOrderFails(b) \/ PrepareBuy(b) \/ NothingToSell(b)
         \/ PrepareSell(b) \/ CreateRefused(b) \/ OrderFinished(b)
         \/ OrderFound(b) \/ Wake(b) \/ OrderTimePasses(b) \/ SignalAges(b)
         \/ AutotradePolls(b) \/ AutotradeSends(b) \/ Stop(b)
  PROVE  TypeInv'
<1> USE DEF TypeInv, TypeOK, exchangeVars, ExchangeTypeOK
<1>1. OrdersWellFormed'
  BY DEF OrdersWellFormed, IsOpen
<1>2. CASE StartSM(b)
  BY <1>1, <1>2 DEF StartSM, At, Calls, GoTo, smVars, signalVars, observedVars, States,
     WatchedHasId, ClosedStays, NoNilDereference
<1>3. CASE ReceiveSignal(b)
  BY <1>1, <1>3 DEF ReceiveSignal, At, Calls, GoTo, States, Signal, NoSignal,
     WatchedHasId, ClosedStays, NoNilDereference
<1>4. CASE Deleted(b)
  BY <1>1, <1>4 DEF Deleted, At, Calls, signalVars, observedVars,
     WatchedHasId, ClosedStays, NoNilDereference
<1>5. CASE NotEnoughQuote(b)
  BY <1>1, <1>5 DEF NotEnoughQuote, At, Calls, GoTo, signalVars, observedVars, States,
     WatchedHasId, ClosedStays, NoNilDereference
<1>6. CASE BuyOrderFails(b)
  BY <1>1, <1>6 DEF BuyOrderFails, At, Calls, Work, signalVars, observedVars,
     WatchedHasId, ClosedStays, NoNilDereference
<1>7. CASE PrepareBuy(b)
  BY <1>1, <1>7, BotAssumption
  DEF PrepareBuy, At, Calls, Work, GoTo, signalVars, observedVars, States, NewOrder,
     BotOrder, NilOrder, Sides, WatchedHasId, ClosedStays, NoNilDereference
<1>8. CASE NothingToSell(b)
  BY <1>1, <1>8 DEF NothingToSell, At, Calls, GoTo, signalVars, observedVars, States,
     WatchedHasId, ClosedStays, NoNilDereference
<1>9. CASE PrepareSell(b)
  <2>1. SellAmount(free["base"]) \in Nat
    BY SellAmountNat DEF Currencies
  <2>2. /\ currentOrder' = [currentOrder EXCEPT ![b] =
                              NewOrder("SELL", SellAmount(free["base"]))]
        /\ state' = [state EXCEPT ![b] = "CreateOrder"]
        /\ leftBy' \in {leftBy, leftBy \cup {"dust"}}
    BY <1>9 DEF PrepareSell, Work, GoTo, ClosedStays
  <2>3. NewOrder("SELL", SellAmount(free["base"])) \in BotOrder \ {NilOrder}
    BY <2>1 DEF NewOrder, BotOrder, NilOrder, Sides
  <2>4. state[b] = "ClosePosition"
    BY <1>9 DEF PrepareSell, At, Calls
  <2>5. TypeOK'
    BY <1>9, <2>2, <2>3 DEF PrepareSell, signalVars, States, Leftovers
  <2>6. WatchedHasId' /\ ClosedStays' /\ NoNilDereference'
    BY <1>9, <2>2, <2>3, <2>4
    DEF PrepareSell, WatchedHasId, ClosedStays, NoNilDereference
  <2> QED
    BY <1>1, <2>5, <2>6
<1>10. CASE CreateRefused(b)
  <2>1. state[b] = "CreateOrder" /\ currentOrder[b] \in BotOrder
    BY <1>10 DEF CreateRefused, AttemptFails, At, Calls, NoNilDereference
  <2>2. [currentOrder[b] EXCEPT !.id = 0] \in BotOrder \ {NilOrder}
    BY <2>1 DEF BotOrder, NilOrder, Sides
  <2>3. TypeOK'
    BY <1>10, <2>2, BotAssumption
    DEF CreateRefused, AttemptFails, LastAttempt, NextAttempt, AfterLastAttempt,
        Work, GoTo, signalVars, States, Leftovers
  <2>4. WatchedHasId' /\ ClosedStays' /\ NoNilDereference'
    BY <1>10, <2>1, <2>2
    DEF CreateRefused, AttemptFails, AfterLastAttempt, Work, GoTo,
        WatchedHasId, ClosedStays, NoNilDereference
  <2> QED
    BY <1>1, <2>3, <2>4
<1>11. CASE OrderFinished(b)
  BY <1>1, <1>11 DEF OrderFinished, AfterFinished, At, Calls, GoTo, signalVars,
     observedVars, States, BotOrder, Sides, NilOrder,
     WatchedHasId, ClosedStays, NoNilDereference
<1>12. CASE OrderFound(b)
  BY <1>1, <1>12 DEF OrderFound, AfterFound, At, Calls, GoTo, signalVars,
     observedVars, States, WatchedHasId, ClosedStays, NoNilDereference
<1>13. CASE Wake(b)
  BY <1>1, <1>13 DEF Wake, At, Calls, GoTo, signalVars, observedVars, States,
     WatchedHasId, ClosedStays, NoNilDereference
<1>14. CASE OrderTimePasses(b)
  <2>1. currentOrder[b] \in BotOrder /\ currentOrder[b].side = "BUY"
    BY <1>14 DEF OrderTimePasses, NilOrder
  <2>2. /\ [currentOrder[b] EXCEPT !.overdue = TRUE] \in BotOrder \ {NilOrder}
        /\ [currentOrder[b] EXCEPT !.overdue = TRUE].side = "BUY"
        /\ [currentOrder[b] EXCEPT !.overdue = TRUE].id = currentOrder[b].id
    BY <2>1 DEF BotOrder, NilOrder, Sides
  <2>3. TypeOK'
    BY <1>14, <2>2 DEF OrderTimePasses, Work, signalVars, observedVars
  <2>4. WatchedHasId' /\ ClosedStays' /\ NoNilDereference'
    BY <1>14, <2>2
    DEF OrderTimePasses, Work, WatchedHasId, ClosedStays, NoNilDereference
  <2> QED
    BY <1>1, <2>3, <2>4
<1>15. CASE SignalAges(b)
  <2>1. signalCh[b] \in Signal
    BY <1>15 DEF SignalAges
  <2>2. [signalCh[b] EXCEPT !.fresh = FALSE] \in Signal
    BY <2>1 DEF Signal
  <2> QED
    BY <1>1, <1>15, <2>2 DEF SignalAges, smVars, observedVars,
       WatchedHasId, ClosedStays, NoNilDereference
<1>16. CASE AutotradePolls(b)
  BY <1>1, <1>16, BotAssumption DEF AutotradePolls, smVars, observedVars,
     WatchedHasId, ClosedStays, NoNilDereference
<1>17. CASE AutotradeSends(b)
  BY <1>1, <1>17 DEF AutotradeSends, smVars, observedVars, Signal, NoSignal,
     WatchedHasId, ClosedStays, NoNilDereference
<1>18. CASE Stop(b)
  BY <1>1, <1>18 DEF Stop, smVars, observedVars,
     WatchedHasId, ClosedStays, NoNilDereference
<1> QED
  BY <1>2, <1>3, <1>4, <1>5, <1>6, <1>7, <1>8, <1>9, <1>10, <1>11, <1>12,
     <1>13, <1>14, <1>15, <1>16, <1>17, <1>18

\* The steps that do something to the exchange.
LEMMA TypeInvExchange ==
  ASSUME TypeInv, ExchangeActs
  PROVE  TypeInv'
<1> USE DEF TypeInv
<1>0. ExchangeTypeOK
  BY DEF TypeOK
<1>1. ASSUME UNCHANGED <<smVars, signalVars, openedAfterStop>>,
             ExchangeTypeOK', OrdersWellFormed', leftBy' \subseteq Leftovers
      PROVE  TypeInv'
  BY <1>1 DEF TypeOK, smVars, signalVars, WatchedHasId, ClosedStays, NoNilDereference
<1>2. ASSUME NEW i \in OrderIds, OrderTrades(i) PROVE TypeInv'
  BY <1>0, <1>1, <1>2, TradeTypes
  DEF OrderTrades, Trade, ExchangeTypeOK, observedVars, TypeOK
<1>3. ASSUME NEW i \in OrderIds, OrderRemoved(i) PROVE TypeInv'
  BY <1>0, <1>1, <1>3, RemoveTypes
  DEF OrderRemoved, ExchangeTypeOK, TypeOK, Leftovers
<1>4. ASSUME NEW i \in OrderIds, LateCancel(i) PROVE TypeInv'
  <2>1. CASE LateCancelArrives(i)
    BY <1>0, <1>1, <1>4, <2>1, RemoveTypes
    DEF LateCancel, LateCancelArrives, ExchangeTypeOK, observedVars, TypeOK
  <2>2. CASE LateCancelLost(i)
    BY <1>0, <1>1, <1>4, <2>2
    DEF LateCancel, LateCancelLost, ExchangeTypeOK, observedVars, TypeOK,
        OrdersWellFormed, IsOpen
  <2> QED
    BY <1>4, <2>1, <2>2 DEF LateCancel
<1>5. ASSUME NEW r \in lateCreates, UnconfirmedLost(r) PROVE TypeInv'
  BY <1>0, <1>1, <1>5
  DEF UnconfirmedLost, LateCreateLost, ExchangeTypeOK, observedVars, TypeOK,
      OrdersWellFormed, IsOpen
<1>6. ASSUME NEW r \in lateCreates, NEW i \in OrderIds, UnconfirmedEnters(r, i)
      PROVE  TypeInv'
  <2>1. r.owner \in Bots /\ r.side \in Sides /\ r.amount \in Nat
    BY <1>0 DEF ExchangeTypeOK, LateCreate
  <2>2. Enter(r.owner, r.side, r.amount, FALSE, i)
    BY <1>6 DEF UnconfirmedEnters, LateCreateEnters
  <2>3. ExchangeTypeOK' /\ OrdersWellFormed'
    BY <1>0, <1>6, <2>1, <2>2, EnterTypes
    DEF UnconfirmedEnters, LateCreateEnters, ExchangeTypeOK
  <2> QED
    BY <1>1, <1>6, <2>3 DEF UnconfirmedEnters, TypeOK, Leftovers
<1>7. ASSUME OthersAct PROVE TypeInv'
  BY <1>0, <1>1, <1>7, ExchangeAssumption
  DEF OthersAct, OthersTrade, ExchangeTypeOK, observedVars, TypeOK,
      OrdersWellFormed, IsOpen
<1> QED
  BY <1>2, <1>3, <1>4, <1>5, <1>6, <1>7 DEF ExchangeActs

\* The steps of StartSM that the exchange carries out, or may later.
LEMMA TypeInvCalls ==
  ASSUME TypeInv, NEW b \in Bots,
         \/ CreateAccepted(b) \/ CreateTimesOut(b)
         \/ CancelAccepted(b) \/ CancelTimesOut(b) \/ InformationFails(b)
  PROVE  TypeInv'
<1> USE DEF TypeInv
<1>0. ExchangeTypeOK
  BY DEF TypeOK
<1>1. CASE CreateAccepted(b)
  <2>1. state[b] = "CreateOrder" /\ currentOrder[b] \in BotOrder
    BY <1>1 DEF CreateAccepted, At, Calls, NoNilDereference, TypeOK
  <2>2. PICK i \in OrderIds :
          /\ Enter(b, currentOrder[b].side, currentOrder[b].amount, TRUE, i)
          /\ Work(b, [currentOrder[b] EXCEPT !.id = i])
    BY <1>1 DEF CreateAccepted
  <2>3. [currentOrder[b] EXCEPT !.id = i] \in BotOrder \ {NilOrder}
    BY <2>1 DEF BotOrder, NilOrder, Sides
  <2>4. ExchangeTypeOK' /\ OrdersWellFormed'
    BY <1>0, <1>1, <2>1, <2>2, EnterTypes
    DEF CreateAccepted, Enter, ExchangeTypeOK, BotOrder
  <2>5. TypeOK'
    BY <1>1, <2>2, <2>3, <2>4, BotAssumption
    DEF CreateAccepted, TypeOK, Work, GoTo, signalVars, observedVars, States
  <2>6. WatchedHasId' /\ ClosedStays' /\ NoNilDereference'
    BY <1>1, <2>1, <2>2, <2>3
    DEF CreateAccepted, Work, GoTo, TypeOK, WatchedHasId, ClosedStays,
        NoNilDereference
  <2> QED
    BY <2>4, <2>5, <2>6
<1>2. CASE CreateTimesOut(b)
  <2>1. state[b] = "CreateOrder" /\ currentOrder[b] \in BotOrder
    BY <1>2 DEF CreateTimesOut, AttemptFails, At, Calls, NoNilDereference, TypeOK
  <2>2. [currentOrder[b] EXCEPT !.id = 0] \in BotOrder \ {NilOrder}
    BY <2>1 DEF BotOrder, NilOrder, Sides
  <2>3. ExchangeTypeOK' /\ OrdersWellFormed'
    BY <1>0, <1>2, <2>1, ExchangeAssumption
    DEF CreateTimesOut, SendLateCreate, ExchangeTypeOK, LateCreate, BotOrder,
        OrdersWellFormed, IsOpen
  <2>4. TypeOK'
    BY <1>2, <2>2, <2>3, BotAssumption
    DEF CreateTimesOut, AttemptFails, LastAttempt, NextAttempt, AfterLastAttempt,
        TypeOK, Work, GoTo, signalVars, States, Leftovers
  <2>5. WatchedHasId' /\ ClosedStays' /\ NoNilDereference'
    BY <1>2, <2>1, <2>2
    DEF CreateTimesOut, AttemptFails, AfterLastAttempt, Work, GoTo, TypeOK,
        WatchedHasId, ClosedStays, NoNilDereference
  <2> QED
    BY <2>3, <2>4, <2>5
<1>3. CASE CancelAccepted(b)
  <2>1. state[b] = "CancelOrder" /\ currentOrder[b].side = "BUY"
    BY <1>3 DEF CancelAccepted, At, Calls, NoNilDereference
  <2>2. currentOrder[b].id \in OrderIds
    BY <2>1 DEF WatchedHasId
  <2>3. ExchangeTypeOK' /\ OrdersWellFormed'
    BY <1>0, <1>3, <2>2, RemoveTypes DEF CancelAccepted, ExchangeTypeOK
  <2>4. /\ state' = [state EXCEPT ![b] = "GetSignal"]
        /\ closed' = [closed EXCEPT ![b] = TRUE]
    BY <1>3, <2>1 DEF CancelAccepted, GoTo, ClosedStays
  <2>5. TypeOK'
    BY <1>3, <2>3, <2>4
    DEF CancelAccepted, TypeOK, signalVars, States, Leftovers
  <2>6. WatchedHasId' /\ ClosedStays' /\ NoNilDereference'
    BY <1>3, <2>1, <2>4
    DEF CancelAccepted, TypeOK, WatchedHasId, ClosedStays, NoNilDereference
  <2> QED
    BY <2>3, <2>5, <2>6
<1>4. CASE CancelTimesOut(b)
  <2>1. currentOrder[b].id \in OrderIds
    BY <1>4 DEF CancelTimesOut, At, Calls, WatchedHasId
  <2>2. ExchangeTypeOK' /\ OrdersWellFormed'
    <3>1. timeouts' \in 0..MaxTimeouts
      BY <1>0, <1>4, ExchangeAssumption
      DEF CancelTimesOut, SendLateCancel, ExchangeTypeOK
    <3>2. lateCancels' \subseteq OrderIds
      BY <1>0, <1>4, <2>1 DEF CancelTimesOut, SendLateCancel, ExchangeTypeOK
    <3> QED
      BY <1>0, <1>4, <3>1, <3>2
      DEF CancelTimesOut, SendLateCancel, ExchangeTypeOK, OrdersWellFormed, IsOpen
  <2> QED
    BY <1>4, <2>2 DEF CancelTimesOut, TypeOK, smVars, signalVars, observedVars,
       WatchedHasId, ClosedStays, NoNilDereference
<1>5. CASE InformationFails(b)
  <2>1. ExchangeTypeOK' /\ OrdersWellFormed'
    BY <1>0, <1>5 DEF InformationFails, GetInformationFails, ExchangeTypeOK,
       OrdersWellFormed, IsOpen
  <2> QED
    BY <1>5, <2>1 DEF InformationFails, TypeOK, smVars, signalVars, observedVars,
       WatchedHasId, ClosedStays, NoNilDereference
<1> QED
  BY <1>1, <1>2, <1>3, <1>4, <1>5

LEMMA TypeInvStep == TypeInv /\ [Next]_vars => TypeInv'
<1> SUFFICES ASSUME TypeInv, [Next]_vars PROVE TypeInv'
  OBVIOUS
<1>1. CASE ExchangeActs
  BY <1>1, TypeInvExchange
<1>2. ASSUME NEW b \in Bots, StateMachine(b) \/ Surroundings(b)
      PROVE  TypeInv'
  <2>1. CASE \/ CreateAccepted(b) \/ CreateTimesOut(b)
             \/ CancelAccepted(b) \/ CancelTimesOut(b) \/ InformationFails(b)
    BY <2>1, TypeInvCalls
  <2>2. CASE \/ StartSM(b) \/ ReceiveSignal(b) \/ Deleted(b) \/ NotEnoughQuote(b)
             \/ BuyOrderFails(b) \/ PrepareBuy(b) \/ NothingToSell(b)
             \/ PrepareSell(b) \/ CreateRefused(b) \/ OrderFinished(b)
             \/ OrderFound(b) \/ Wake(b) \/ OrderTimePasses(b) \/ SignalAges(b)
             \/ AutotradePolls(b) \/ AutotradeSends(b) \/ Stop(b)
    <3>1. UNCHANGED exchangeVars
      BY <2>2 DEF StartSM, ReceiveSignal, Deleted, NotEnoughQuote, BuyOrderFails,
         PrepareBuy, NothingToSell, PrepareSell, CreateRefused, OrderFinished,
         OrderFound, Wake, OrderTimePasses, SignalAges, AutotradePolls,
         AutotradeSends, Stop
    <3> QED
      BY <2>2, <3>1, TypeInvLocal
  <2> QED
    BY <1>2, <2>1, <2>2 DEF StateMachine, Surroundings
<1>3. CASE UNCHANGED vars
  BY <1>3 DEF TypeInv, TypeOK, ExchangeTypeOK, OrdersWellFormed, IsOpen, WatchedHasId,
     ClosedStays, NoNilDereference, vars, exchangeVars, smVars, signalVars,
     observedVars
<1> QED
  BY <1>1, <1>2, <1>3 DEF Next

\* The first layer: types, and what a balance needs to stay above zero (bot.go:57-271).
THEOREM TypeInvariant == Spec => []TypeInv
<1> QED
  BY TypeInvInit, TypeInvStep, PTL DEF Spec

\* Every variable keeps its type.
THEOREM TypeCorrect == Spec => []TypeOK
<1>1. TypeInv => TypeOK
  BY DEF TypeInv
<1> QED
  BY <1>1, TypeInvariant, PTL

\* StartSM never dereferences a nil order or missing pair information.
THEOREM NoNilDereferenceHolds == Spec => []NoNilDereference
<1>1. TypeInv => NoNilDereference
  BY DEF TypeInv
<1> QED
  BY <1>1, TypeInvariant, PTL

-----------------------------------------------------------------------------
(* Layer 2: the bot and the book agree on the bot's confirmed order.       *)

TrackInv == ConfirmedOrderTracked /\ WatchedOrderConfirmed

Watching(b) == state[b] \in {"CheckOrder", "CancelOrder"}

\* Orders do not change hands, only fill up or leave, and the bots stay put.
LEMMA TrackInvOrdersAge ==
  ASSUME TrackInv, UNCHANGED <<state, running>>,
         \A b \in Bots : /\ currentOrder'[b].id = currentOrder[b].id
                         /\ currentOrder'[b].side = currentOrder[b].side
                         /\ currentOrder'[b].amount = currentOrder[b].amount,
         \A i \in OrderIds : /\ orders'[i].owner = orders[i].owner
                             /\ orders'[i].side = orders[i].side
                             /\ orders'[i].amount = orders[i].amount
                             /\ orders'[i].acked = orders[i].acked
                             /\ IsOpen(i)' => IsOpen(i)
                             /\ orders[i].status # "unused" =>
                                  orders'[i].status # "unused"
  PROVE  TrackInv'
<1>1. ConfirmedOrderTracked'
  BY DEF TrackInv, ConfirmedOrderTracked, Resting
<1>2. WatchedOrderConfirmed'
  BY DEF TrackInv, WatchedOrderConfirmed
<1> QED
  BY <1>1, <1>2 DEF TrackInv

\* The book stays as it is and one bot, not watching, moves on without watching.
LEMMA TrackInvNotWatching ==
  ASSUME TrackInv, orders' = orders, NEW b \in Bots, ~Watching(b), ~Watching(b)',
         \A c \in Bots \ {b} : /\ state'[c] = state[c]
                               /\ running'[c] = running[c]
                               /\ currentOrder'[c] = currentOrder[c]
  PROVE  TrackInv'
<1>1. ConfirmedOrderTracked'
  BY DEF TrackInv, ConfirmedOrderTracked, Resting, IsOpen, Watching
<1>2. WatchedOrderConfirmed'
  BY DEF TrackInv, WatchedOrderConfirmed, Watching
<1> QED
  BY <1>1, <1>2 DEF TrackInv

LEMMA TrackInvExchange ==
  ASSUME TypeInv, TrackInv, ExchangeActs
  PROVE  TrackInv'
<1>0. orders \in [OrderIds -> Order]
  BY DEF TypeInv, TypeOK, ExchangeTypeOK
<1>1. ASSUME NEW i \in OrderIds, OrderTrades(i) PROVE TrackInv'
  <2>1. orders' = [orders EXCEPT ![i] = Traded(orders[i])] /\ IsOpen(i)
    BY <1>1 DEF OrderTrades, Trade
  <2>2. /\ Traded(orders[i]).owner = orders[i].owner
        /\ Traded(orders[i]).side = orders[i].side
        /\ Traded(orders[i]).amount = orders[i].amount
        /\ Traded(orders[i]).acked = orders[i].acked
        /\ Traded(orders[i]).status # "unused"
    BY <1>0 DEF Traded, Order
  <2> QED
    BY <1>0, <1>1, <2>1, <2>2, TrackInvOrdersAge DEF OrderTrades, smVars, IsOpen
<1>2. ASSUME NEW i \in OrderIds, Remove(i), UNCHANGED smVars PROVE TrackInv'
  BY <1>0, <1>2, TrackInvOrdersAge DEF Remove, smVars, IsOpen, Order
<1>3. ASSUME UNCHANGED <<orders, smVars>> PROVE TrackInv'
  BY <1>3, TrackInvOrdersAge DEF smVars, IsOpen
<1>4. ASSUME NEW r \in lateCreates, NEW i \in OrderIds, UnconfirmedEnters(r, i)
      PROVE  TrackInv'
  <2>1. Enter(r.owner, r.side, r.amount, FALSE, i) /\ UNCHANGED smVars
    BY <1>4 DEF UnconfirmedEnters, LateCreateEnters
  <2>2. /\ orders[i].status = "unused"
        /\ orders'[i].acked = FALSE
        /\ \A j \in OrderIds \ {i} : orders'[j] = orders[j]
    BY <1>0, <2>1 DEF Enter, FreshId
  <2>3. ConfirmedOrderTracked'
    BY <2>1, <2>2 DEF TrackInv, ConfirmedOrderTracked, Resting, IsOpen, smVars
  <2>4. WatchedOrderConfirmed'
    BY <2>1, <2>2 DEF TrackInv, WatchedOrderConfirmed, smVars
  <2> QED
    BY <2>3, <2>4 DEF TrackInv
<1>5. ASSUME NEW i \in OrderIds, OrderRemoved(i) \/ LateCancel(i) PROVE TrackInv'
  BY <1>2, <1>3, <1>5
  DEF OrderRemoved, LateCancel, LateCancelArrives, LateCancelLost
<1>6. ASSUME NEW r \in lateCreates, UnconfirmedLost(r) PROVE TrackInv'
  BY <1>3, <1>6 DEF UnconfirmedLost, LateCreateLost
<1>7. ASSUME OthersAct PROVE TrackInv'
  BY <1>3, <1>7 DEF OthersAct, OthersTrade
<1> QED
  BY <1>1, <1>4, <1>5, <1>6, <1>7 DEF ExchangeActs

LEMMA TrackInvBot ==
  ASSUME TypeInv, TrackInv, NEW b \in Bots, StateMachine(b) \/ Surroundings(b)
  PROVE  TrackInv'
<1>0. /\ orders \in [OrderIds -> Order]
      /\ state \in [Bots -> States]
      /\ running \in [Bots -> BOOLEAN]
      /\ currentOrder \in [Bots -> BotOrder \cup {NilOrder}]
  BY DEF TypeInv, TypeOK, ExchangeTypeOK
<1>1. CASE \/ StartSM(b) \/ ReceiveSignal(b) \/ Deleted(b) \/ NotEnoughQuote(b)
           \/ BuyOrderFails(b) \/ PrepareBuy(b) \/ NothingToSell(b)
           \/ PrepareSell(b) \/ CreateRefused(b) \/ CreateTimesOut(b) \/ Wake(b)
  <2>1. ~Watching(b) /\ orders' = orders
    BY <1>1 DEF StartSM, ReceiveSignal, Deleted, NotEnoughQuote, BuyOrderFails,
       PrepareBuy, NothingToSell, PrepareSell, CreateRefused, CreateTimesOut,
       SendLateCreate, AttemptFails, Wake, At, Calls, Watching, exchangeVars
  <2>2. \A c \in Bots \ {b} : /\ state'[c] = state[c]
                              /\ running'[c] = running[c]
                              /\ currentOrder'[c] = currentOrder[c]
    BY <1>0, <1>1 DEF StartSM, ReceiveSignal, Deleted, NotEnoughQuote,
       BuyOrderFails, PrepareBuy, NothingToSell, PrepareSell, CreateRefused,
       CreateTimesOut, AttemptFails, Wake, GoTo, Work
  <2>3. ~Watching(b)'
    BY <1>0, <1>1 DEF StartSM, ReceiveSignal, Deleted, NotEnoughQuote,
       BuyOrderFails, PrepareBuy, NothingToSell, PrepareSell, CreateRefused,
       CreateTimesOut, AttemptFails, AfterLastAttempt, Wake, GoTo, At, Calls, Watching
  <2> QED
    BY <2>1, <2>2, <2>3, TrackInvNotWatching
<1>2. CASE \/ SignalAges(b) \/ AutotradePolls(b) \/ AutotradeSends(b) \/ Stop(b)
           \/ CancelTimesOut(b) \/ InformationFails(b)
  BY <1>2, TrackInvOrdersAge
  DEF SignalAges, AutotradePolls, AutotradeSends, Stop, CancelTimesOut,
      InformationFails, GetInformationFails, SendLateCancel, exchangeVars, smVars, IsOpen
<1>3. CASE OrderTimePasses(b)
  BY <1>0, <1>3, TrackInvOrdersAge
  DEF OrderTimePasses, Work, exchangeVars, BotOrder, NilOrder, IsOpen
<1>4. CASE OrderFinished(b)
  <2>1. ConfirmedOrderTracked'
    BY <1>0, <1>4 DEF TrackInv, ConfirmedOrderTracked, OrderFinished, At, Calls, GoTo,
       Resting, IsOpen, exchangeVars
  <2>2. WatchedOrderConfirmed'
    BY <1>0, <1>4 DEF TrackInv, WatchedOrderConfirmed, OrderFinished,
       AfterFinished, GoTo, exchangeVars
  <2> QED
    BY <2>1, <2>2 DEF TrackInv
<1>5. CASE OrderFound(b)
  <2>1. ConfirmedOrderTracked'
    BY <1>0, <1>5 DEF TrackInv, ConfirmedOrderTracked, OrderFound, AfterFound,
       At, Calls, GoTo, Resting, IsOpen, exchangeVars
  <2>2. WatchedOrderConfirmed'
    BY <1>0, <1>5 DEF TrackInv, WatchedOrderConfirmed, OrderFound, AfterFound,
       At, Calls, GoTo, exchangeVars
  <2> QED
    BY <2>1, <2>2 DEF TrackInv
<1>6. CASE CreateAccepted(b)
  <2>1. /\ state[b] = "CreateOrder" /\ running[b]
        /\ state' = [state EXCEPT ![b] = "CheckOrder"]
        /\ UNCHANGED running
    BY <1>6 DEF CreateAccepted, At, Calls, GoTo
  <2>2. PICK i \in OrderIds :
          /\ Enter(b, currentOrder[b].side, currentOrder[b].amount, TRUE, i)
          /\ currentOrder' = [currentOrder EXCEPT ![b] =
                                [currentOrder[b] EXCEPT !.id = i]]
    BY <1>6 DEF CreateAccepted, Work
  <2>3. /\ orders[i].status = "unused"
        /\ orders'[i] = [owner |-> b, side |-> currentOrder[b].side,
             amount |-> currentOrder[b].amount, filled |-> 0,
             status |-> "open", acked |-> TRUE]
        /\ \A j \in OrderIds \ {i} : orders'[j] = orders[j]
    BY <1>0, <2>2 DEF Enter, FreshId
  <2>4. currentOrder[b] \in BotOrder
    BY <2>1 DEF TypeInv, TypeOK, NoNilDereference
  <2>5. /\ currentOrder'[b].id = i
        /\ currentOrder'[b].side = currentOrder[b].side
        /\ currentOrder'[b].amount = currentOrder[b].amount
    BY <1>0, <2>2, <2>4 DEF BotOrder
  <2>6. \A c \in Bots \ {b} : /\ state'[c] = state[c]
                              /\ currentOrder'[c] = currentOrder[c]
    BY <1>0, <2>1, <2>2
  <2>7. ConfirmedOrderTracked'
    BY <1>0, <2>1, <2>3, <2>5, <2>6
    DEF TrackInv, ConfirmedOrderTracked, Resting, IsOpen
  <2>8. WatchedOrderConfirmed'
    BY <1>0, <2>1, <2>3, <2>5, <2>6 DEF TrackInv, WatchedOrderConfirmed
  <2> QED
    BY <2>7, <2>8 DEF TrackInv
<1>7. CASE CancelAccepted(b)
  <2>1. /\ state[b] = "CancelOrder"
        /\ state' = [state EXCEPT ![b] = "GetSignal"]
        /\ UNCHANGED <<running, currentOrder>>
    BY <1>7 DEF CancelAccepted, At, Calls, GoTo, TypeInv, NoNilDereference
  <2> DEFINE i == currentOrder[b].id
  <2>2. /\ i \in OrderIds
        /\ orders' = [orders EXCEPT ![i].status = "removed"]
    BY <1>7, <2>1 DEF CancelAccepted, Remove, TrackInv, WatchedOrderConfirmed
  <2>3. ConfirmedOrderTracked'
    BY <1>0, <2>1, <2>2
    DEF TrackInv, ConfirmedOrderTracked, Resting, IsOpen, Order
  <2>4. WatchedOrderConfirmed'
    BY <1>0, <2>1, <2>2 DEF TrackInv, WatchedOrderConfirmed, Order
  <2> QED
    BY <2>3, <2>4 DEF TrackInv
<1> QED
  BY <1>1, <1>2, <1>3, <1>4, <1>5, <1>6, <1>7 DEF StateMachine, Surroundings

LEMMA TrackInvInit == Init => TrackInv
BY DEF Init, ExchangeInit, UnusedOrder, TrackInv, ConfirmedOrderTracked, Resting,
   IsOpen, WatchedOrderConfirmed

LEMMA TrackInvStep == TypeInv /\ TrackInv /\ [Next]_vars => TrackInv'
<1> SUFFICES ASSUME TypeInv, TrackInv, [Next]_vars PROVE TrackInv'
  OBVIOUS
<1>1. CASE UNCHANGED vars
  BY <1>1, TrackInvOrdersAge DEF vars, exchangeVars, smVars, IsOpen
<1> QED
  BY <1>1, TrackInvExchange, TrackInvBot DEF Next

\* The second layer: what a bot watches, and what the exchange confirmed to it
\* (bot.go:178-260).
THEOREM TrackInvariant == Spec => []TrackInv
<1> QED
  BY TrackInvInit, TrackInvStep, TypeInvariant, PTL DEF Spec

\* A confirmed order in the book is always the one its bot is watching.
THEOREM ConfirmedOrderTrackedHolds == Spec => []ConfirmedOrderTracked
<1>1. TrackInv => ConfirmedOrderTracked
  BY DEF TrackInv
<1> QED
  BY <1>1, TrackInvariant, PTL

\* A watched id is a confirmed order of this bot, of that side and amount.
THEOREM WatchedOrderConfirmedHolds == Spec => []WatchedOrderConfirmed
<1>1. TrackInv => WatchedOrderConfirmed
  BY DEF TrackInv
<1> QED
  BY <1>1, TrackInvariant, PTL

-----------------------------------------------------------------------------
(* Layer 3: base currency that lies on the account has a bot about to sell  *)
(* all of it, a bot still buying, or a named cause.                         *)

\* A bot that will get round to selling whatever base is free now.
Holds(b) ==
  \/ state[b] = "ClosePosition"
  \/ /\ state[b] = "CreateOrder"
     /\ currentOrder[b].side = "SELL"
     /\ currentOrder[b].amount >= free["base"]
  \/ /\ Watching(b)
     /\ currentOrder[b].side = "BUY"
     /\ orders[currentOrder[b].id].filled > 0

\* Only buy orders are ever cancelled, so no late cancel gives base back.
LateCancelsAreBuys ==
  \A i \in lateCancels : orders[i].status # "unused" /\ orders[i].side = "BUY"

NoCauseYet == InitBase = 0 /\ leftBy = {}

CauseInv ==
  /\ LateCancelsAreBuys
  /\ NoCauseYet => \A i \in OrderIds : IsOpen(i) => orders[i].acked
  /\ NoCauseYet => (free["base"] > 0 => \E b \in Bots : Holds(b))

\* One bot moves, the exchange does not.
LEMMA CauseInvLocal ==
  ASSUME CauseInv, UNCHANGED <<orders, free>>, lateCancels' = lateCancels,
         NEW b \in Bots, leftBy' = {} => leftBy = {},
         \A c \in Bots \ {b} : /\ state'[c] = state[c]
                               /\ currentOrder'[c] = currentOrder[c],
         leftBy' = {} /\ free["base"] > 0 /\ Holds(b) => Holds(b)'
  PROVE  CauseInv'
<1>1. LateCancelsAreBuys'
  BY DEF CauseInv, LateCancelsAreBuys
<1>2. NoCauseYet' => \A i \in OrderIds : IsOpen(i)' => orders'[i].acked
  BY DEF CauseInv, NoCauseYet, IsOpen
<1>3. NoCauseYet' => (free'["base"] > 0 => \E c \in Bots : Holds(c)')
  <2> SUFFICES ASSUME NoCauseYet', free["base"] > 0 PROVE \E c \in Bots : Holds(c)'
    OBVIOUS
  <2>1. PICK c \in Bots : Holds(c)
    BY DEF CauseInv, NoCauseYet
  <2>2. CASE c = b
    BY <2>1, <2>2 DEF NoCauseYet
  <2>3. CASE c # b
    BY <2>1, <2>3 DEF Holds, Watching
  <2> QED
    BY <2>2, <2>3
<1> QED
  BY <1>1, <1>2, <1>3 DEF CauseInv

\* The book changes, the bots do not, and no base arrives.
LEMMA CauseInvBook ==
  ASSUME TypeInv, TrackInv, CauseInv, UNCHANGED <<state, currentOrder>>,
         lateCancels' \subseteq lateCancels, leftBy' = {} => leftBy = {},
         free'["base"] \in Nat, free'["base"] <= free["base"],
         NoCauseYet' => \A i \in OrderIds : IsOpen(i)' => orders'[i].acked,
         \A i \in OrderIds : orders[i].status # "unused" =>
           /\ orders'[i].status # "unused"
           /\ orders'[i].side = orders[i].side
           /\ orders'[i].filled = orders[i].filled
  PROVE  CauseInv'
<1>1. LateCancelsAreBuys'
  BY DEF CauseInv, LateCancelsAreBuys, TypeInv, TypeOK, ExchangeTypeOK
<1>2. NoCauseYet' => (free'["base"] > 0 => \E c \in Bots : Holds(c)')
  <2> SUFFICES ASSUME NoCauseYet', free'["base"] > 0 PROVE \E c \in Bots : Holds(c)'
    OBVIOUS
  <2>1. free["base"] \in Nat
    BY DEF TypeInv, TypeOK, ExchangeTypeOK, Currencies
  <2>2. PICK c \in Bots : Holds(c)
    BY <2>1 DEF CauseInv, NoCauseYet
  <2>3. CASE state[c] = "CreateOrder"
    <3>1. currentOrder[c] \in BotOrder
      BY <2>3 DEF TypeInv, TypeOK, NoNilDereference
    <3> QED
      BY <2>1, <2>2, <2>3, <3>1 DEF Holds, Watching, BotOrder
  <2>4. CASE state[c] # "CreateOrder"
    BY <2>2, <2>4 DEF Holds, Watching, TrackInv, WatchedOrderConfirmed
  <2> QED
    BY <2>3, <2>4
<1> QED
  BY <1>1, <1>2 DEF CauseInv

LEMMA CauseInvExchange ==
  ASSUME TypeInv, TypeInv', TrackInv, CauseInv, ExchangeActs
  PROVE  CauseInv'
<1>0. /\ orders \in [OrderIds -> Order]
      /\ free \in [Currencies -> Nat]
      /\ lateCancels \subseteq OrderIds
      /\ free["base"] \in Nat /\ free'["base"] \in Nat
      /\ leftBy' = {} => leftBy = {}
  BY DEF TypeInv, TypeOK, ExchangeTypeOK, Currencies, ExchangeActs, OrderTrades,
     OrderRemoved, LateCancel, UnconfirmedLost, UnconfirmedEnters, OthersAct,
     observedVars
\* A trade of a buy brings base to a bot that watches it.
<1>1. ASSUME NEW i \in OrderIds, OrderTrades(i) PROVE CauseInv'
  <2>1. /\ orders' = [orders EXCEPT ![i] = Traded(orders[i])] /\ IsOpen(i)
        /\ UNCHANGED <<state, currentOrder, lateCancels, leftBy>>
    BY <1>1 DEF OrderTrades, Trade, smVars, observedVars
  <2>2. /\ orders'[i].owner = orders[i].owner
        /\ orders'[i].side = orders[i].side
        /\ orders'[i].acked = orders[i].acked
        /\ orders'[i].filled = orders[i].filled + 1
        /\ orders'[i].status # "unused"
        /\ \A j \in OrderIds \ {i} : orders'[j] = orders[j]
    BY <1>0, <2>1 DEF Traded, Order
  <2>3. LateCancelsAreBuys'
    BY <1>0, <2>1, <2>2 DEF CauseInv, LateCancelsAreBuys
  <2>4. NoCauseYet' => \A j \in OrderIds : IsOpen(j)' => orders'[j].acked
    BY <2>1, <2>2 DEF CauseInv, NoCauseYet, IsOpen
  <2>5. CASE orders[i].side = "BUY"
    <3> SUFFICES ASSUME NoCauseYet' PROVE \E c \in Bots : Holds(c)'
      BY <2>3, <2>4 DEF CauseInv
    <3>1. orders[i].acked
      BY <2>1 DEF CauseInv, NoCauseYet
    <3>3. PICK c \in Bots : orders[i].owner = c
      BY <2>1 DEF TypeInv, OrdersWellFormed
    <3>4. Watching(c) /\ currentOrder[c].id = i
      BY <2>1, <3>1, <3>3 DEF TrackInv, ConfirmedOrderTracked, Resting, Watching
    <3>5. currentOrder[c].side = "BUY"
      BY <2>5, <3>4 DEF TrackInv, WatchedOrderConfirmed, Watching
    <3>6. orders'[i].filled > 0
      BY <1>0, <2>2 DEF Order
    <3> QED
      BY <2>1, <3>4, <3>5, <3>6 DEF Holds, Watching
  <2>6. CASE orders[i].side = "SELL"
    <3>1. free'["base"] = free["base"]
      BY <1>0, <1>1, <2>6 DEF OrderTrades, Trade, Gets, Currencies
    <3> SUFFICES ASSUME NoCauseYet', free["base"] > 0
                 PROVE  \E c \in Bots : Holds(c)'
      BY <2>3, <2>4, <3>1 DEF CauseInv
    <3>2. PICK c \in Bots : Holds(c)
      BY <2>1 DEF CauseInv, NoCauseYet
    <3>3. Watching(c) => /\ currentOrder[c].id \in OrderIds
                         /\ orders[currentOrder[c].id].filled \in Nat
      BY <1>0 DEF TrackInv, WatchedOrderConfirmed, Watching, Order
    <3> QED
      BY <1>0, <2>1, <2>2, <3>1, <3>2, <3>3 DEF Holds, Watching
  <2> QED
    BY <1>0, <2>5, <2>6 DEF Order, Sides
<1>2. ASSUME NEW i \in OrderIds, Remove(i), UNCHANGED <<state, currentOrder>>,
             lateCancels' \subseteq lateCancels,
             orders[i].side = "SELL" => leftBy' # {}
      PROVE  CauseInv'
  <2>1. /\ \A j \in OrderIds : /\ orders'[j].side = orders[j].side
                               /\ orders'[j].filled = orders[j].filled
                               /\ orders'[j].acked = orders[j].acked
                               /\ IsOpen(j)' => IsOpen(j)
                               /\ orders[j].status # "unused" =>
                                    orders'[j].status # "unused"
    BY <1>0, <1>2 DEF Remove, IsOpen, Order
  <2>2. CASE orders[i].side = "BUY"
    <3>1. free'["base"] = free["base"]
      BY <1>0, <1>2, <2>2 DEF Remove, Pays, Currencies
    <3> QED
      BY <1>0, <1>2, <2>1, <3>1, CauseInvBook DEF CauseInv, NoCauseYet
  <2>3. CASE orders[i].side = "SELL"
    BY <1>0, <1>2, <2>1, <2>3 DEF CauseInv, LateCancelsAreBuys, NoCauseYet
  <2> QED
    BY <1>0, <2>2, <2>3 DEF Order, Sides
<1>3. ASSUME UNCHANGED <<orders, free, state, currentOrder, leftBy>>,
             lateCancels' \subseteq lateCancels
      PROVE  CauseInv'
  BY <1>0, <1>3, CauseInvBook DEF CauseInv, NoCauseYet, IsOpen
<1>4. ASSUME NEW i \in OrderIds, OrderRemoved(i) PROVE CauseInv'
  BY <1>2, <1>4 DEF OrderRemoved, smVars
<1>5. ASSUME NEW i \in OrderIds, LateCancel(i) PROVE CauseInv'
  <2>1. CASE LateCancelArrives(i)
    BY <1>2, <1>5, <2>1
    DEF LateCancel, LateCancelArrives, smVars, CauseInv, LateCancelsAreBuys
  <2>2. CASE LateCancelLost(i)
    BY <1>3, <1>5, <2>2 DEF LateCancel, LateCancelLost, smVars, observedVars
  <2> QED
    BY <1>5, <2>1, <2>2 DEF LateCancel
<1>6. ASSUME NEW r \in lateCreates, UnconfirmedLost(r) PROVE CauseInv'
  BY <1>3, <1>6 DEF UnconfirmedLost, LateCreateLost, smVars, observedVars
<1>7. ASSUME NEW r \in lateCreates, NEW i \in OrderIds, UnconfirmedEnters(r, i)
      PROVE  CauseInv'
  <2>1. orders[i].status = "unused" /\ \A j \in OrderIds \ {i} : orders'[j] = orders[j]
    BY <1>0, <1>7 DEF UnconfirmedEnters, LateCreateEnters, Enter, FreshId
  <2>2. leftBy' # {} /\ lateCancels' = lateCancels
    BY <1>7 DEF UnconfirmedEnters, LateCreateEnters
  <2> QED
    BY <1>0, <2>1, <2>2 DEF CauseInv, LateCancelsAreBuys, NoCauseYet
<1>8. ASSUME OthersAct PROVE CauseInv'
  BY <1>3, <1>8 DEF OthersAct, OthersTrade, smVars, observedVars
<1> QED
  BY <1>1, <1>4, <1>5, <1>6, <1>7, <1>8 DEF ExchangeActs

\* The moves of a bot that leave the book and the balances as they are.
LEMMA CauseInvMoves ==
  ASSUME TypeInv, TypeInv', TrackInv, CauseInv, NEW b \in Bots,
         UNCHANGED <<orders, free, lateCancels>>,
         \/ StartSM(b) \/ ReceiveSignal(b) \/ Deleted(b) \/ NotEnoughQuote(b)
         \/ BuyOrderFails(b) \/ PrepareBuy(b) \/ NothingToSell(b) \/ PrepareSell(b)
         \/ AttemptFails(b) \/ OrderFinished(b) \/ OrderFound(b) \/ Wake(b)
         \/ OrderTimePasses(b)
  PROVE  CauseInv'
<1>0. /\ state \in [Bots -> States]
      /\ currentOrder \in [Bots -> BotOrder \cup {NilOrder}]
      /\ orders \in [OrderIds -> Order]
      /\ free["base"] \in Nat
  BY DEF TypeInv, TypeOK, ExchangeTypeOK, Currencies
<1>1. \A c \in Bots \ {b} : /\ state'[c] = state[c]
                            /\ currentOrder'[c] = currentOrder[c]
  BY <1>0 DEF StartSM, ReceiveSignal, Deleted, NotEnoughQuote, BuyOrderFails,
     PrepareBuy, NothingToSell, PrepareSell, AttemptFails, OrderFinished,
     OrderFound, Wake, OrderTimePasses, GoTo, Work
<1>2. leftBy' = {} => leftBy = {}
  BY DEF StartSM, ReceiveSignal, Deleted, NotEnoughQuote, BuyOrderFails,
     PrepareBuy, NothingToSell, PrepareSell, AttemptFails, OrderFinished,
     OrderFound, Wake, OrderTimePasses, observedVars
<1>3. ASSUME leftBy' = {}, free["base"] > 0, Holds(b) PROVE Holds(b)'
  <2>1. CASE \/ StartSM(b) \/ ReceiveSignal(b) \/ Deleted(b) \/ NotEnoughQuote(b)
             \/ BuyOrderFails(b) \/ PrepareBuy(b) \/ Wake(b)
    BY <1>3, <2>1 DEF StartSM, ReceiveSignal, Deleted, NotEnoughQuote,
       BuyOrderFails, PrepareBuy, Wake, At, Calls, Holds, Watching
  <2>2. CASE NothingToSell(b)
    BY <1>0, <1>3, <2>2 DEF NothingToSell
  <2>3. CASE PrepareSell(b)
    <3>1. /\ currentOrder'[b] = NewOrder("SELL", SellAmount(free["base"]))
          /\ state'[b] = "CreateOrder"
          /\ ~(SellAmount(free["base"]) < free["base"])
      BY <1>0, <1>3, <2>3
      DEF PrepareSell, Work, GoTo, TypeInv, ClosedStays
    <3>2. SellAmount(free["base"]) \in Nat
      BY <1>0, SellAmountNat
    <3> QED
      BY <1>0, <3>1, <3>2 DEF Holds, NewOrder
  <2>4. CASE AttemptFails(b)
    <3>1. state[b] = "CreateOrder" /\ currentOrder[b].side = "SELL"
      BY <1>3, <2>4 DEF AttemptFails, At, Calls, Holds, Watching
    <3>2. ~LastAttempt(attempts[b])
      BY <1>3, <2>4, <3>1 DEF AttemptFails
    <3>3. currentOrder[b] \in BotOrder
      BY <1>0, <3>1 DEF TypeInv, NoNilDereference
    <3>4. /\ state'[b] = "CreateOrder"
          /\ currentOrder'[b].side = "SELL"
          /\ currentOrder'[b].amount = currentOrder[b].amount
      BY <1>0, <2>4, <3>1, <3>2, <3>3 DEF AttemptFails, GoTo, Work, BotOrder
    <3> QED
      BY <1>3, <3>1, <3>4 DEF Holds, Watching
  <2>5. CASE OrderFinished(b)
    BY <1>0, <1>3, <2>5
    DEF OrderFinished, AfterFinished, At, Calls, GoTo, Holds, Watching
  <2>6. CASE OrderFound(b)
    BY <1>0, <1>3, <2>6
    DEF OrderFound, AfterFound, At, Calls, GoTo, Holds, Watching
  <2>7. CASE OrderTimePasses(b)
    <3>1. currentOrder[b] \in BotOrder /\ currentOrder[b].side = "BUY"
      BY <1>0, <2>7 DEF OrderTimePasses, NilOrder
    <3>2. /\ currentOrder'[b].side = "BUY"
          /\ currentOrder'[b].id = currentOrder[b].id
      BY <1>0, <2>7, <3>1 DEF OrderTimePasses, Work, BotOrder
    <3> QED
      BY <1>3, <2>7, <3>1, <3>2 DEF OrderTimePasses, Holds, Watching
  <2> QED
    BY <2>1, <2>2, <2>3, <2>4, <2>5, <2>6, <2>7
<1> QED
  BY <1>1, <1>2, <1>3, CauseInvLocal

LEMMA CauseInvBot ==
  ASSUME TypeInv, TypeInv', TrackInv, CauseInv, NEW b \in Bots,
         StateMachine(b) \/ Surroundings(b)
  PROVE  CauseInv'
<1>0. /\ state \in [Bots -> States]
      /\ currentOrder \in [Bots -> BotOrder \cup {NilOrder}]
      /\ orders \in [OrderIds -> Order]
      /\ free \in [Currencies -> Nat]
      /\ free["base"] \in Nat /\ free'["base"] \in Nat
  BY DEF TypeInv, TypeOK, ExchangeTypeOK, Currencies
<1>1. CASE \/ StartSM(b) \/ ReceiveSignal(b) \/ Deleted(b) \/ NotEnoughQuote(b)
           \/ BuyOrderFails(b) \/ PrepareBuy(b) \/ NothingToSell(b) \/ PrepareSell(b)
           \/ OrderFinished(b) \/ OrderFound(b) \/ Wake(b) \/ OrderTimePasses(b)
  <2>1. UNCHANGED <<orders, free, lateCancels>>
    BY <1>1 DEF StartSM, ReceiveSignal, Deleted, NotEnoughQuote, BuyOrderFails,
       PrepareBuy, NothingToSell, PrepareSell, OrderFinished, OrderFound, Wake,
       OrderTimePasses, exchangeVars
  <2> QED
    BY <1>1, <2>1, CauseInvMoves
<1>2. CASE CreateRefused(b) \/ CreateTimesOut(b)
  <2>1. UNCHANGED <<orders, free, lateCancels>> /\ AttemptFails(b)
    BY <1>2 DEF CreateRefused, CreateTimesOut, SendLateCreate, exchangeVars
  <2> QED
    BY <2>1, CauseInvMoves
<1>3. CASE \/ SignalAges(b) \/ AutotradePolls(b) \/ AutotradeSends(b) \/ Stop(b)
           \/ InformationFails(b)
  <2>1. UNCHANGED <<orders, free, lateCancels, state, currentOrder, leftBy>>
    BY <1>3 DEF InformationFails, GetInformationFails, SignalAges, AutotradePolls, AutotradeSends, Stop, smVars,
       observedVars, exchangeVars
  <2> QED
    BY <1>0, <2>1, CauseInvBook DEF CauseInv, NoCauseYet, IsOpen
<1>4. CASE CancelTimesOut(b)
  <2>1. state[b] = "CancelOrder" /\ currentOrder[b].side = "BUY"
    BY <1>4 DEF CancelTimesOut, At, Calls, TypeInv, NoNilDereference
  <2>2. /\ orders[currentOrder[b].id].side = "BUY"
        /\ orders[currentOrder[b].id].status # "unused"
    BY <2>1 DEF TrackInv, WatchedOrderConfirmed
  <2>3. /\ UNCHANGED <<orders, free, state, currentOrder, leftBy>>
        /\ lateCancels' = lateCancels \cup {currentOrder[b].id}
    BY <1>4 DEF CancelTimesOut, SendLateCancel, smVars, observedVars
  <2> QED
    BY <2>2, <2>3
    DEF CauseInv, LateCancelsAreBuys, NoCauseYet, IsOpen, Holds, Watching
<1>5. CASE CreateAccepted(b)
  <2>1. PICK i \in OrderIds :
          /\ Enter(b, currentOrder[b].side, currentOrder[b].amount, TRUE, i)
          /\ Work(b, [currentOrder[b] EXCEPT !.id = i])
    BY <1>5 DEF CreateAccepted
  <2>2. /\ state[b] = "CreateOrder" /\ leftBy' = leftBy
        /\ lateCancels' = lateCancels
        /\ state' = [state EXCEPT ![b] = "CheckOrder"]
        /\ currentOrder[b] \in BotOrder
    BY <1>0, <1>5
    DEF CreateAccepted, At, Calls, GoTo, observedVars, TypeInv, NoNilDereference
  <2>3. /\ orders[i].status = "unused" /\ orders'[i].acked
        /\ \A j \in OrderIds \ {i} : orders'[j] = orders[j]
    BY <1>0, <2>1 DEF Enter, FreshId
  <2>4. LateCancelsAreBuys' /\ (NoCauseYet' =>
          \A j \in OrderIds : IsOpen(j)' => orders'[j].acked)
    BY <2>2, <2>3, <1>0
    DEF CauseInv, LateCancelsAreBuys, NoCauseYet, IsOpen, TypeInv, TypeOK,
        ExchangeTypeOK
  <2>5. ASSUME NoCauseYet', free'["base"] > 0 PROVE \E c \in Bots : Holds(c)'
    <3>1. /\ currentOrder[b].side = "BUY" => free'["base"] = free["base"]
          /\ currentOrder[b].side = "SELL" =>
               /\ free'["base"] = free["base"] - currentOrder[b].amount
               /\ currentOrder[b].amount \in Nat \ {0}
          /\ currentOrder[b].side \in Sides
      BY <1>0, <2>1, <2>2 DEF Enter, Pays, Currencies, BotOrder
    <3>2. PICK c \in Bots : Holds(c)
      BY <1>0, <2>2, <2>5, <3>1 DEF CauseInv, NoCauseYet, Sides
    <3>3. c # b
      BY <1>0, <2>2, <2>5, <3>1, <3>2 DEF Holds, Watching
    <3>4. state'[c] = state[c] /\ currentOrder'[c] = currentOrder[c]
      BY <1>0, <2>1, <2>2, <3>3 DEF Work
    <3>5. Watching(c) => orders'[currentOrder[c].id] = orders[currentOrder[c].id]
      BY <2>3 DEF TrackInv, WatchedOrderConfirmed, Watching
    <3>6. state[c] = "CreateOrder" => currentOrder[c] \in BotOrder
      BY <1>0 DEF TypeInv, NoNilDereference
    <3>7. free'["base"] <= free["base"]
      BY <1>0, <3>1 DEF Sides
    <3> QED
      BY <1>0, <3>2, <3>4, <3>5, <3>6, <3>7 DEF Holds, Watching, BotOrder
  <2> QED
    BY <2>4, <2>5 DEF CauseInv
<1>6. CASE CancelAccepted(b)
  <2> DEFINE i == currentOrder[b].id
  <2>1. /\ state[b] = "CancelOrder" /\ currentOrder[b].side = "BUY"
        /\ i \in OrderIds /\ orders[i].side = "BUY"
    BY <1>6
    DEF CancelAccepted, At, Calls, TypeInv, NoNilDereference, TrackInv, WatchedOrderConfirmed
  <2>2. /\ Remove(i) /\ lateCancels' = lateCancels
        /\ currentOrder' = currentOrder
        /\ state' = [state EXCEPT ![b] = "GetSignal"]
        /\ leftBy' = {} => leftBy = {} /\ ~(orders[i].filled > 0)
    BY <1>6, <2>1 DEF CancelAccepted, GoTo
  <2>3. /\ free'["base"] = free["base"]
        /\ \A j \in OrderIds : /\ orders'[j].side = orders[j].side
                               /\ orders'[j].filled = orders[j].filled
                               /\ orders'[j].acked = orders[j].acked
                               /\ IsOpen(j)' => IsOpen(j)
                               /\ orders[j].status # "unused" =>
                                    orders'[j].status # "unused"
    BY <1>0, <2>1, <2>2 DEF Remove, Pays, Currencies, IsOpen, Order
  <2>4. LateCancelsAreBuys' /\ (NoCauseYet' =>
          \A j \in OrderIds : IsOpen(j)' => orders'[j].acked)
    BY <2>2, <2>3
    DEF CauseInv, LateCancelsAreBuys, NoCauseYet, TypeInv, TypeOK, ExchangeTypeOK
  <2>5. ASSUME NoCauseYet', free'["base"] > 0 PROVE \E c \in Bots : Holds(c)'
    <3>1. PICK c \in Bots : Holds(c)
      BY <2>2, <2>3, <2>5 DEF CauseInv, NoCauseYet
    <3>2. c # b
      BY <2>1, <2>2, <2>5, <3>1 DEF Holds, NoCauseYet
    <3>3. Watching(c) => currentOrder[c].id \in OrderIds
      BY DEF TrackInv, WatchedOrderConfirmed, Watching
    <3> QED
      BY <1>0, <2>2, <2>3, <3>1, <3>2, <3>3 DEF Holds, Watching
  <2> QED
    BY <2>4, <2>5 DEF CauseInv
<1> QED
  BY <1>1, <1>2, <1>3, <1>4, <1>5, <1>6 DEF StateMachine, Surroundings

LEMMA CauseInvInit == Init => CauseInv
BY DEF Init, ExchangeInit, UnusedOrder, CauseInv, LateCancelsAreBuys, NoCauseYet,
   IsOpen, Currencies

LEMMA CauseInvStep ==
  TypeInv /\ TypeInv' /\ TrackInv /\ CauseInv /\ [Next]_vars => CauseInv'
<1> SUFFICES ASSUME TypeInv, TypeInv', TrackInv, CauseInv, [Next]_vars
             PROVE  CauseInv'
  OBVIOUS
<1>1. CASE UNCHANGED vars
  BY <1>1 DEF vars, exchangeVars, smVars, observedVars, CauseInv,
     LateCancelsAreBuys, NoCauseYet, IsOpen, Holds, Watching
<1> QED
  BY <1>1, CauseInvExchange, CauseInvBot DEF Next

\* On an account that starts without base currency, bought currency that lies
\* there with no bot on the way to a sell order was left by one of the events
\* leftBy names, or by a bot stuck in CancelOrder on a buy that traded.
THEOREM UnsoldBaseHasACauseHolds == Spec => []UnsoldBaseHasACause
<1>1. Spec => []CauseInv
  BY TypeInvariant, TrackInvariant, CauseInvInit, CauseInvStep, PTL DEF Spec
<1>2. TypeInv /\ CauseInv => UnsoldBaseHasACause
  <2> SUFFICES ASSUME TypeInv, CauseInv, NoCauseYet, free["base"] > 0,
                      \A b \in Bots : ~Exposed(b)
               PROVE  \E b \in Bots : StuckOnABuy(b)
    BY DEF UnsoldBaseHasACause, NoCauseYet
  <2>1. PICK b \in Bots : Holds(b)
    BY DEF CauseInv
  <2>2. /\ Watching(b) /\ currentOrder[b].side = "BUY"
        /\ orders[currentOrder[b].id].filled > 0
    BY <2>1 DEF Holds, Exposed
  <2>3. state[b] = "CancelOrder" /\ ~IsOpen(currentOrder[b].id)
    BY <2>2 DEF Watching, Exposed
  <2> QED
    BY <2>2, <2>3 DEF StuckOnABuy, CancelStuck
<1> QED
  BY <1>1, <1>2, TypeInvariant, PTL

-----------------------------------------------------------------------------
(* Layer 4: how many positions a stopped bot may still open.               *)

\* Signals that can still reach the state machine once the context is done.
OnTheirWay(b) ==
  (IF signalCh[b] # NoSignal THEN 1 ELSE 0)
    + (IF autotrade[b] = "compute" THEN 1 ELSE 0)

StopInv ==
  \A b \in Bots : IF tradeDone[b] THEN openedAfterStop[b] + OnTheirWay(b) <= 2
                                  ELSE openedAfterStop[b] = 0

LEMMA StopInvUnchanged ==
  ASSUME StopInv, UNCHANGED <<signalCh, autotrade, tradeDone, openedAfterStop>>
  PROVE  StopInv'
BY DEF StopInv, OnTheirWay

LEMMA StopInvStep == TypeInv /\ StopInv /\ [Next]_vars => StopInv'
<1> SUFFICES ASSUME TypeInv, StopInv, [Next]_vars PROVE StopInv'
  OBVIOUS
<1>0. /\ signalCh \in [Bots -> Signal \cup {NoSignal}]
      /\ autotrade \in [Bots -> {"poll", "compute", "returned"}]
      /\ tradeDone \in [Bots -> BOOLEAN]
      /\ openedAfterStop \in [Bots -> Nat]
  BY DEF TypeInv, TypeOK
<1>1. ASSUME NEW b \in Bots, ReceiveSignal(b) PROVE StopInv'
  BY <1>0, <1>1 DEF ReceiveSignal, StopInv, OnTheirWay
<1>2. ASSUME NEW b \in Bots, SignalAges(b) PROVE StopInv'
  <2>1. signalCh[b] \in Signal /\ signalCh[b] # NoSignal
    BY <1>0, <1>2 DEF SignalAges
  <2>2. [signalCh[b] EXCEPT !.fresh = FALSE] # NoSignal
    BY <2>1 DEF Signal, NoSignal, Directions
  <2> QED
    BY <1>0, <1>2, <2>1, <2>2 DEF SignalAges, observedVars, StopInv, OnTheirWay
<1>3. ASSUME NEW b \in Bots, AutotradePolls(b) PROVE StopInv'
  BY <1>0, <1>3 DEF AutotradePolls, observedVars, StopInv, OnTheirWay
<1>4. ASSUME NEW b \in Bots, AutotradeSends(b) PROVE StopInv'
  BY <1>0, <1>4 DEF AutotradeSends, observedVars, StopInv, OnTheirWay
<1>5. ASSUME NEW b \in Bots, Stop(b) PROVE StopInv'
  BY <1>0, <1>5 DEF Stop, observedVars, StopInv, OnTheirWay
<1>6. ASSUME NEW b \in Bots,
             \/ StartSM(b) \/ Deleted(b) \/ NotEnoughQuote(b) \/ BuyOrderFails(b)
             \/ PrepareBuy(b) \/ NothingToSell(b) \/ PrepareSell(b)
             \/ CreateAccepted(b) \/ CreateRefused(b) \/ CreateTimesOut(b)
             \/ OrderFinished(b) \/ OrderFound(b) \/ CancelAccepted(b)
             \/ CancelTimesOut(b) \/ Wake(b) \/ OrderTimePasses(b)
             \/ InformationFails(b)
      PROVE  StopInv'
  BY <1>6, StopInvUnchanged
  DEF StartSM, InformationFails, Deleted, NotEnoughQuote, BuyOrderFails,
      PrepareBuy, NothingToSell, PrepareSell, CreateAccepted, CreateRefused, CreateTimesOut, AttemptFails,
      OrderFinished, OrderFound, CancelAccepted, CancelTimesOut, Wake,
      OrderTimePasses, signalVars, observedVars
<1>7. CASE ExchangeActs
  BY <1>7, StopInvUnchanged
  DEF ExchangeActs, OrderTrades, OrderRemoved, LateCancel, UnconfirmedLost,
      UnconfirmedEnters, OthersAct, signalVars, observedVars
<1>8. CASE UNCHANGED vars
  BY <1>8, StopInvUnchanged DEF vars, signalVars, observedVars
<1> QED
  BY <1>1, <1>2, <1>3, <1>4, <1>5, <1>6, <1>7, <1>8
  DEF Next, StateMachine, Surroundings

\* At most two positions are opened after the context is cancelled.
THEOREM AtMostTwoAfterStopHolds == Spec => []AtMostTwoAfterStop
<1>1. Init => StopInv
  BY DEF Init, StopInv
<1>2. Spec => []StopInv
  BY <1>1, TypeInvariant, StopInvStep, PTL DEF Spec
<1>3. TypeInv /\ StopInv => AtMostTwoAfterStop
  <2> SUFFICES ASSUME TypeInv, StopInv, NEW b \in Bots
               PROVE  openedAfterStop[b] <= 2
    BY DEF AtMostTwoAfterStop
  <2>1. openedAfterStop[b] \in Nat /\ OnTheirWay(b) \in Nat
    BY DEF TypeInv, TypeOK, OnTheirWay
  <2> QED
    BY <2>1 DEF StopInv
<1> QED
  BY <1>2, <1>3, TypeInvariant, PTL

-----------------------------------------------------------------------------
(* Layer 5: StartSM implements the cycle of module TradeCycle.             *)

phases == [b \in Bots |-> Phase(b)]
restings == [b \in Bots |-> RestingSides(b)]

\* What a bot has in the book, read off the state machine.
RestingsWatched ==
  \A b \in Bots :
    /\ Watching(b) /\ IsOpen(currentOrder[b].id) =>
         RestingSides(b) = {currentOrder[b].side} /\ running[b]
    /\ ~(Watching(b) /\ IsOpen(currentOrder[b].id)) => RestingSides(b) = {}

LEMMA RestingIsWatched == TrackInv => RestingsWatched
<1> SUFFICES ASSUME TrackInv, NEW b \in Bots
    PROVE  /\ Watching(b) /\ IsOpen(currentOrder[b].id) =>
                RestingSides(b) = {currentOrder[b].side} /\ running[b]
           /\ ~(Watching(b) /\ IsOpen(currentOrder[b].id)) => RestingSides(b) = {}
  BY DEF RestingsWatched
<1>1. CASE Watching(b) /\ IsOpen(currentOrder[b].id)
  <2>1. currentOrder[b].id \in Resting(b)
    BY <1>1 DEF Watching, TrackInv, WatchedOrderConfirmed, Resting
  <2>2. Resting(b) = {currentOrder[b].id} /\ running[b]
    BY <2>1 DEF TrackInv, ConfirmedOrderTracked, Resting
  <2>3. orders[currentOrder[b].id].side = currentOrder[b].side
    BY <1>1 DEF Watching, TrackInv, WatchedOrderConfirmed
  <2> QED
    BY <1>1, <2>2, <2>3 DEF RestingSides
<1>2. CASE ~(Watching(b) /\ IsOpen(currentOrder[b].id))
  <2>1. Resting(b) = {}
    BY <1>2 DEF TrackInv, ConfirmedOrderTracked, Resting, Watching
  <2> QED
    BY <1>2, <2>1 DEF RestingSides
<1> QED
  BY <1>1, <1>2

\* Bots other than the one that moves keep their phase.
LEMMA OneBotTurns ==
  ASSUME NEW b \in Bots,
         \A c \in Bots \ {b} : /\ state'[c] = state[c]
                               /\ running'[c] = running[c]
                               /\ currentOrder'[c] = currentOrder[c]
  PROVE  phases' = [phases EXCEPT ![b] = Phase(b)']
<1>1. ASSUME NEW c \in Bots \ {b} PROVE Phase(c)' = Phase(c)
  <2>1. state'[c] = state[c] /\ running'[c] = running[c] /\ currentOrder'[c] = currentOrder[c]
    OBVIOUS
  <2> QED
    BY <2>1, Zenon DEF Phase
<1> QED
  BY <1>1 DEF phases

LEMMA SameBookSameRestings ==
  ASSUME orders' = orders
  PROVE  restings' = restings
BY DEF restings, RestingSides, Resting, IsOpen

\* The cycle's actions in terms of the two mapped variables.
LEMMA CycleTurn ==
  ASSUME NEW b \in Bots, restings' = restings,
         phases' = [phases EXCEPT ![b] = Phase(b)'],
         \/ Phase(b)' = Phase(b)
         \/ Phase(b) = "idle" /\ Phase(b)' = "buying"
         \/ Phase(b) \in {"buying", "selling"} /\ Phase(b)' = "idle"
         \/ /\ RestingSides(b) = {}
            /\ \/ Phase(b) = "bidding" /\ Phase(b)' = "selling"
               \/ Phase(b) = "offering" /\ Phase(b)' = "idle"
               \/ Phase(b) = "idle" /\ Phase(b)' = "stopped"
  PROVE  [Cycle!CycleNext]_(Cycle!cycleVars)
<1> USE DEF phases, restings, Cycle!Turn
<1>1. CASE Phase(b)' = Phase(b)
  BY <1>1 DEF Cycle!cycleVars
<1>2. CASE Phase(b) = "idle" /\ Phase(b)' = "buying"
  BY <1>2 DEF Cycle!CycleNext, Cycle!OpenBuy
<1>3. CASE Phase(b) \in {"buying", "selling"} /\ Phase(b)' = "idle"
  BY <1>3 DEF Cycle!CycleNext, Cycle!Abandon
<1>4. CASE RestingSides(b) = {} /\ Phase(b) = "bidding" /\ Phase(b)' = "selling"
  BY <1>4 DEF Cycle!CycleNext, Cycle!TurnToSell
<1>5. CASE RestingSides(b) = {} /\ Phase(b) = "offering" /\ Phase(b)' = "idle"
  BY <1>5 DEF Cycle!CycleNext, Cycle!Finish
<1>6. CASE RestingSides(b) = {} /\ Phase(b) = "idle" /\ Phase(b)' = "stopped"
  BY <1>6 DEF Cycle!CycleNext, Cycle!End
<1> QED
  BY <1>1, <1>2, <1>3, <1>4, <1>5, <1>6

LEMMA CycleMoves ==
  ASSUME TypeInv, TypeInv', TrackInv, NEW b \in Bots, orders' = orders,
         \/ StartSM(b) \/ ReceiveSignal(b) \/ Deleted(b) \/ NotEnoughQuote(b)
         \/ BuyOrderFails(b) \/ PrepareBuy(b) \/ NothingToSell(b) \/ PrepareSell(b)
         \/ AttemptFails(b) \/ OrderFinished(b) \/ OrderFound(b) \/ Wake(b)
         \/ OrderTimePasses(b)
  PROVE  [Cycle!CycleNext]_(Cycle!cycleVars)
<1>0. /\ state \in [Bots -> States]
      /\ running \in [Bots -> BOOLEAN]
      /\ currentOrder \in [Bots -> BotOrder \cup {NilOrder}]
  BY DEF TypeInv, TypeOK
<1>1. restings' = restings
  BY SameBookSameRestings
<1>2. phases' = [phases EXCEPT ![b] = Phase(b)']
  <2>1. \A c \in Bots \ {b} : /\ state'[c] = state[c]
                              /\ running'[c] = running[c]
                              /\ currentOrder'[c] = currentOrder[c]
    BY <1>0 DEF StartSM, ReceiveSignal, Deleted, NotEnoughQuote, BuyOrderFails,
       PrepareBuy, NothingToSell, PrepareSell, AttemptFails, OrderFinished,
       OrderFound, Wake, OrderTimePasses, GoTo, Work
  <2> QED
    BY <2>1, OneBotTurns
<1>3. CASE \/ StartSM(b) \/ ReceiveSignal(b) \/ NotEnoughQuote(b)
           \/ BuyOrderFails(b) \/ Wake(b)
  <2>1. Phase(b) = "idle" /\ Phase(b)' = "idle"
    BY <1>0, <1>3 DEF StartSM, ReceiveSignal, NotEnoughQuote, BuyOrderFails, Wake,
       At, Calls, GoTo, Phase
  <2> QED
    BY <1>1, <1>2, <2>1, CycleTurn
<1>4. CASE Deleted(b)
  <2>1. Phase(b) = "idle" /\ Phase(b)' = "stopped" /\ ~Watching(b)
    BY <1>0, <1>4 DEF Deleted, At, Calls, Phase, Watching
  <2> QED
    BY <1>1, <1>2, <2>1, RestingIsWatched, CycleTurn DEF RestingsWatched
<1>5. CASE PrepareBuy(b)
  <2>1. Phase(b) = "idle" /\ Phase(b)' = "buying"
    BY <1>0, <1>5 DEF PrepareBuy, At, Calls, GoTo, Work, NewOrder, Phase
  <2> QED
    BY <1>1, <1>2, <2>1, CycleTurn
<1>6. CASE NothingToSell(b)
  <2>1. Phase(b) = "selling" /\ Phase(b)' = "idle"
    BY <1>0, <1>6 DEF NothingToSell, At, Calls, GoTo, Phase
  <2> QED
    BY <1>1, <1>2, <2>1, CycleTurn
<1>7. CASE PrepareSell(b)
  <2>1. Phase(b) = "selling" /\ Phase(b)' = "selling"
    BY <1>0, <1>7
    DEF PrepareSell, At, Calls, GoTo, Work, NewOrder, Phase, TypeInv, ClosedStays
  <2> QED
    BY <1>1, <1>2, <2>1, CycleTurn
<1>8. CASE AttemptFails(b)
  <2>1. state[b] = "CreateOrder" /\ running[b] /\ running' = running
    BY <1>8 DEF AttemptFails, At, Calls
  <2>2. currentOrder[b] \in BotOrder
    BY <1>0, <2>1 DEF TypeInv, NoNilDereference
  <2>3. currentOrder'[b].side = currentOrder[b].side
    BY <1>0, <1>8, <2>2 DEF AttemptFails, Work, BotOrder
  <2>4. state'[b] \in {"CreateOrder", "GetSignal"}
    BY <1>0, <1>8 DEF AttemptFails, GoTo, AfterLastAttempt
  <2>5. /\ Phase(b) \in {"buying", "selling"}
        /\ Phase(b)' = Phase(b) \/ Phase(b)' = "idle"
    BY <2>1, <2>3, <2>4 DEF Phase
  <2> QED
    BY <1>1, <1>2, <2>5, CycleTurn
<1>9. CASE OrderFinished(b)
  <2>1. /\ state[b] = "CheckOrder" /\ running[b] /\ UNCHANGED <<running, currentOrder>>
        /\ ~IsOpen(currentOrder[b].id)
        /\ state'[b] = AfterFinished(currentOrder[b].side)
    BY <1>0, <1>9 DEF OrderFinished, At, Calls, GoTo
  <2>2. RestingSides(b) = {}
    BY <2>1, RestingIsWatched DEF RestingsWatched, Watching
  <2>3. \/ Phase(b) = "bidding" /\ Phase(b)' = "selling"
        \/ Phase(b) = "offering" /\ Phase(b)' = "idle"
    BY <2>1 DEF Phase, AfterFinished
  <2> QED
    BY <1>1, <1>2, <2>2, <2>3, CycleTurn
<1>10. CASE OrderFound(b)
  <2>1. /\ state[b] = "CheckOrder" /\ running[b] /\ UNCHANGED <<running, currentOrder>>
        /\ state'[b] \in {"CheckOrder", "CancelOrder"}
    BY <1>0, <1>10 DEF OrderFound, At, Calls, GoTo, AfterFound
  <2>2. Phase(b)' = Phase(b)
    BY <2>1 DEF Phase
  <2> QED
    BY <1>1, <1>2, <2>2, CycleTurn
<1>11. CASE OrderTimePasses(b)
  <2>1. currentOrder[b] \in BotOrder /\ currentOrder[b].side = "BUY"
    BY <1>0, <1>11 DEF OrderTimePasses, NilOrder
  <2>2. /\ currentOrder'[b].side = currentOrder[b].side
        /\ UNCHANGED <<state, running>>
    BY <1>0, <1>11, <2>1 DEF OrderTimePasses, Work, BotOrder
  <2>3. Phase(b)' = Phase(b)
    BY <2>2 DEF Phase
  <2> QED
    BY <1>1, <1>2, <2>3, CycleTurn
<1> QED
  BY <1>3, <1>4, <1>5, <1>6, <1>7, <1>8, <1>9, <1>10, <1>11

\* An order that leaves the book takes its bot's resting order away, or was
\* not known to any bot.
LEMMA CycleLeaves ==
  ASSUME TypeInv, TrackInv, TrackInv', UNCHANGED smVars, NEW i \in OrderIds,
         \A j \in OrderIds \ {i} : orders'[j] = orders[j],
         IsOpen(i)' => IsOpen(i) \/ orders[i].status = "unused"
  PROVE  [Cycle!CycleNext]_(Cycle!cycleVars)
<1>1. phases' = phases /\ currentOrder' = currentOrder
  BY DEF phases, Phase, smVars
<1>2. RestingsWatched /\ RestingsWatched'
  BY RestingIsWatched, PTL
<1>3. \A c \in Bots : Watching(c)' = Watching(c)
  BY DEF Watching, smVars
<1>4. \A c \in Bots : RestingSides(c)' \in {RestingSides(c), {}}
  <2> SUFFICES ASSUME NEW c \in Bots PROVE RestingSides(c)' \in {RestingSides(c), {}}
    OBVIOUS
  <2>1. Watching(c) /\ IsOpen(currentOrder[c].id)' => IsOpen(currentOrder[c].id)
    BY <1>1 DEF IsOpen, TrackInv, WatchedOrderConfirmed, Watching
  <2> QED
    BY <1>1, <1>2, <1>3, <2>1 DEF RestingsWatched
<1>5. \A c \in Bots : RestingSides(c)' # RestingSides(c) =>
                        Watching(c) /\ currentOrder[c].id = i
  <2> SUFFICES ASSUME NEW c \in Bots, currentOrder[c].id # i \/ ~Watching(c)
               PROVE  RestingSides(c)' = RestingSides(c)
    OBVIOUS
  <2>1. Watching(c) => (IsOpen(currentOrder[c].id)' <=> IsOpen(currentOrder[c].id))
    BY <1>1 DEF IsOpen, TrackInv, WatchedOrderConfirmed, Watching
  <2> QED
    BY <1>1, <1>2, <1>3, <2>1 DEF RestingsWatched
<1>6. CASE \A c \in Bots : RestingSides(c)' = RestingSides(c)
  BY <1>1, <1>6 DEF phases, Cycle!cycleVars
<1>7. ASSUME NEW b \in Bots, RestingSides(b)' # RestingSides(b)
      PROVE  [Cycle!CycleNext]_(Cycle!cycleVars)
  <2>1. \A c \in Bots \ {b} : RestingSides(c)' = RestingSides(c)
    BY <1>5, <1>7 DEF TrackInv, WatchedOrderConfirmed, Watching
  <2>2. RestingSides(b)' = {} /\ RestingSides(b) # {}
    BY <1>4, <1>7
  <2>3. restings' = [restings EXCEPT ![b] = {}]
    BY <2>1, <2>2 DEF restings
  <2> QED
    BY <1>1, <2>2, <2>3 DEF phases, restings, Cycle!CycleNext, Cycle!LeaveBook
<1> QED
  BY <1>6, <1>7

\* A confirmed creation and an accepted cancel.
LEMMA CycleCalls ==
  ASSUME TypeInv, TypeInv', TrackInv, TrackInv', NEW b \in Bots,
         CreateAccepted(b) \/ CancelAccepted(b)
  PROVE  [Cycle!CycleNext]_(Cycle!cycleVars)
<1>0. /\ state \in [Bots -> States]
      /\ currentOrder \in [Bots -> BotOrder \cup {NilOrder}]
      /\ orders \in [OrderIds -> Order]
  BY DEF TypeInv, TypeOK, ExchangeTypeOK
<1>1. RestingsWatched /\ RestingsWatched'
  BY RestingIsWatched, PTL
<1>2. CASE CreateAccepted(b)
  <2>1. PICK i \in OrderIds :
          /\ Enter(b, currentOrder[b].side, currentOrder[b].amount, TRUE, i)
          /\ currentOrder' = [currentOrder EXCEPT ![b] =
                                [currentOrder[b] EXCEPT !.id = i]]
    BY <1>2 DEF CreateAccepted, Work
  <2>2. /\ running[b] /\ running' = running
        /\ state[b] = "CreateOrder"
        /\ state' = [state EXCEPT ![b] = "CheckOrder"]
    BY <1>2 DEF CreateAccepted, At, Calls, GoTo
  <2>3. currentOrder[b] \in BotOrder
    BY <1>0, <2>2 DEF TypeInv, NoNilDereference
  <2>4. /\ currentOrder'[b].side = currentOrder[b].side
        /\ currentOrder'[b].id = i
        /\ currentOrder[b].side \in Sides
    BY <1>0, <2>1, <2>3 DEF BotOrder
  <2>5. /\ IsOpen(i)'
        /\ \A j \in OrderIds \ {i} : orders'[j] = orders[j]
        /\ orders[i].status = "unused"
    BY <1>0, <2>1 DEF Enter, FreshId, IsOpen
  <2>6. \A c \in Bots \ {b} : /\ state'[c] = state[c]
                              /\ running'[c] = running[c]
                              /\ currentOrder'[c] = currentOrder[c]
    BY <1>0, <2>1, <2>2
  <2>7. phases' = [phases EXCEPT ![b] = Phase(b)']
    BY <2>6, OneBotTurns
  <2>8. RestingSides(b) = {} /\ RestingSides(b)' = {currentOrder[b].side}
    <3>1. ~Watching(b) /\ Watching(b)'
      BY <1>0, <2>2 DEF Watching
    <3>2. IsOpen(currentOrder[b].id)'
      BY <2>4, <2>5 DEF IsOpen
    <3> QED
      BY <1>1, <2>4, <3>1, <3>2 DEF RestingsWatched
  <2>9. \A c \in Bots \ {b} : RestingSides(c)' = RestingSides(c)
    <3> SUFFICES ASSUME NEW c \in Bots \ {b}
                 PROVE  RestingSides(c)' = RestingSides(c)
      OBVIOUS
    <3>1. Watching(c)' = Watching(c)
      BY <2>6 DEF Watching
    <3>2. Watching(c) => (IsOpen(currentOrder[c].id)' <=> IsOpen(currentOrder[c].id))
      BY <2>5, <2>6 DEF IsOpen, TrackInv, WatchedOrderConfirmed, Watching
    <3> QED
      BY <1>1, <2>6, <3>1, <3>2 DEF RestingsWatched
  <2>10. restings' = [restings EXCEPT ![b] = {currentOrder[b].side}]
    BY <2>8, <2>9 DEF restings
  <2>11. CASE currentOrder[b].side = "BUY"
    <3>1. Phase(b) = "buying" /\ Phase(b)' = "bidding"
      BY <1>0, <2>2, <2>4, <2>11 DEF Phase
    <3> QED
      BY <2>7, <2>8, <2>10, <2>11, <3>1
      DEF phases, restings, Cycle!CycleNext, Cycle!Bid, Cycle!Turn
  <2>12. CASE currentOrder[b].side = "SELL"
    <3>1. Phase(b) = "selling" /\ Phase(b)' = "offering"
      BY <1>0, <2>2, <2>4, <2>12 DEF Phase
    <3> QED
      BY <2>7, <2>8, <2>10, <2>12, <3>1
      DEF phases, restings, Cycle!CycleNext, Cycle!Offer, Cycle!Turn
  <2> QED
    BY <2>4, <2>11, <2>12 DEF Sides
<1>3. CASE CancelAccepted(b)
  <2> DEFINE i == currentOrder[b].id
  <2>1. /\ running[b] /\ UNCHANGED <<running, currentOrder>>
        /\ state[b] = "CancelOrder" /\ currentOrder[b].side = "BUY"
        /\ state' = [state EXCEPT ![b] = "GetSignal"]
        /\ i \in OrderIds /\ Remove(i)
    BY <1>3
    DEF CancelAccepted, At, Calls, GoTo, TypeInv, NoNilDereference, WatchedHasId
  <2>2. IsOpen(i) /\ \A j \in OrderIds \ {i} : orders'[j] = orders[j]
    BY <1>0, <2>1 DEF Remove
  <2>3. \A c \in Bots \ {b} : state'[c] = state[c]
    BY <1>0, <2>1
  <2>4. phases' = [phases EXCEPT ![b] = Phase(b)']
    BY <2>1, <2>3, OneBotTurns
  <2>5. RestingSides(b) = {"BUY"} /\ RestingSides(b)' = {}
    <3>1. Watching(b) /\ ~Watching(b)'
      BY <1>0, <2>1 DEF Watching
    <3> QED
      BY <1>1, <2>1, <2>2, <3>1 DEF RestingsWatched
  <2>6. \A c \in Bots \ {b} : RestingSides(c)' = RestingSides(c)
    <3> SUFFICES ASSUME NEW c \in Bots \ {b}
                 PROVE  RestingSides(c)' = RestingSides(c)
      OBVIOUS
    <3>1. Watching(c)' = Watching(c)
      BY <2>3 DEF Watching
    <3>2. Watching(c) => currentOrder[c].id \in OrderIds \ {i}
      BY <2>1 DEF TrackInv, WatchedOrderConfirmed, Watching
    <3>3. Watching(c) => (IsOpen(currentOrder[c].id)' <=> IsOpen(currentOrder[c].id))
      BY <2>1, <2>2, <3>2 DEF IsOpen
    <3> QED
      BY <1>1, <2>1, <3>1, <3>3 DEF RestingsWatched
  <2>7. restings' = [restings EXCEPT ![b] = {}]
    BY <2>5, <2>6 DEF restings
  <2>8. Phase(b) = "bidding" /\ Phase(b)' = "idle"
    BY <1>0, <2>1 DEF Phase
  <2> QED
    BY <2>4, <2>5, <2>7, <2>8
    DEF phases, restings, Cycle!CycleNext, Cycle!Withdraw, Cycle!Turn
<1> QED
  BY <1>2, <1>3

LEMMA CycleStep ==
  TypeInv /\ TypeInv' /\ TrackInv /\ TrackInv' /\ [Next]_vars
    => [Cycle!CycleNext]_(Cycle!cycleVars)
<1> SUFFICES ASSUME TypeInv, TypeInv', TrackInv, TrackInv', [Next]_vars
             PROVE  [Cycle!CycleNext]_(Cycle!cycleVars)
  OBVIOUS
<1>0. orders \in [OrderIds -> Order]
  BY DEF TypeInv, TypeOK, ExchangeTypeOK
<1>1. ASSUME UNCHANGED <<orders, smVars>>
      PROVE  [Cycle!CycleNext]_(Cycle!cycleVars)
  <2>1. phases' = phases
    BY <1>1 DEF phases, Phase, smVars
  <2>2. restings' = restings
    BY <1>1, SameBookSameRestings
  <2> QED
    BY <2>1, <2>2 DEF phases, restings, Cycle!cycleVars
<1>2. ASSUME NEW b \in Bots, StateMachine(b) \/ Surroundings(b)
      PROVE  [Cycle!CycleNext]_(Cycle!cycleVars)
  <2>1. CASE CreateAccepted(b) \/ CancelAccepted(b)
    BY <2>1, CycleCalls
  <2>2. CASE CreateRefused(b) \/ CreateTimesOut(b)
    <3>1. orders' = orders /\ AttemptFails(b)
      BY <2>2 DEF CreateRefused, CreateTimesOut, SendLateCreate, exchangeVars
    <3> QED
      BY <3>1, CycleMoves
  <2>3. CASE \/ SignalAges(b) \/ AutotradePolls(b) \/ AutotradeSends(b) \/ Stop(b)
             \/ CancelTimesOut(b) \/ InformationFails(b)
    BY <1>1, <2>3 DEF InformationFails, GetInformationFails, SignalAges, AutotradePolls, AutotradeSends, Stop,
       CancelTimesOut, SendLateCancel, exchangeVars
  <2>4. CASE \/ StartSM(b) \/ ReceiveSignal(b) \/ Deleted(b) \/ NotEnoughQuote(b)
             \/ BuyOrderFails(b) \/ PrepareBuy(b) \/ NothingToSell(b)
             \/ PrepareSell(b) \/ OrderFinished(b) \/ OrderFound(b) \/ Wake(b)
             \/ OrderTimePasses(b)
    <3>1. orders' = orders
      BY <2>4 DEF StartSM, ReceiveSignal, Deleted, NotEnoughQuote, BuyOrderFails,
         PrepareBuy, NothingToSell, PrepareSell, OrderFinished, OrderFound, Wake,
         OrderTimePasses, exchangeVars
    <3> QED
      BY <2>4, <3>1, CycleMoves
  <2> QED
    BY <1>2, <2>1, <2>2, <2>3, <2>4 DEF StateMachine, Surroundings
<1>3. ASSUME NEW i \in OrderIds, OrderTrades(i) \/ OrderRemoved(i)
      PROVE  [Cycle!CycleNext]_(Cycle!cycleVars)
  <2>1. /\ UNCHANGED smVars /\ IsOpen(i)
        /\ \A j \in OrderIds \ {i} : orders'[j] = orders[j]
    BY <1>0, <1>3 DEF OrderTrades, Trade, OrderRemoved, Remove
  <2> QED
    BY <2>1, CycleLeaves
<1>4. ASSUME NEW i \in OrderIds, LateCancel(i)
      PROVE  [Cycle!CycleNext]_(Cycle!cycleVars)
  <2>1. CASE LateCancelArrives(i)
    <3>1. /\ UNCHANGED smVars /\ IsOpen(i)
          /\ \A j \in OrderIds \ {i} : orders'[j] = orders[j]
      BY <1>0, <1>4, <2>1 DEF LateCancel, LateCancelArrives, Remove
    <3> QED
      BY <3>1, CycleLeaves
  <2>2. CASE LateCancelLost(i)
    BY <1>1, <1>4, <2>2 DEF LateCancel, LateCancelLost
  <2> QED
    BY <1>4, <2>1, <2>2 DEF LateCancel
<1>5. ASSUME NEW r \in lateCreates, UnconfirmedLost(r)
      PROVE  [Cycle!CycleNext]_(Cycle!cycleVars)
  BY <1>1, <1>5 DEF UnconfirmedLost, LateCreateLost
<1>6. ASSUME NEW r \in lateCreates, NEW i \in OrderIds, UnconfirmedEnters(r, i)
      PROVE  [Cycle!CycleNext]_(Cycle!cycleVars)
  <2>1. /\ UNCHANGED smVars /\ orders[i].status = "unused"
        /\ \A j \in OrderIds \ {i} : orders'[j] = orders[j]
    BY <1>0, <1>6 DEF UnconfirmedEnters, LateCreateEnters, Enter, FreshId
  <2> QED
    BY <2>1, CycleLeaves
<1>7. CASE OthersAct
  BY <1>1, <1>7 DEF OthersAct, OthersTrade
<1>8. CASE UNCHANGED vars
  BY <1>1, <1>8 DEF vars, exchangeVars
<1> QED
  BY <1>2, <1>3, <1>4, <1>5, <1>6, <1>7, <1>8 DEF Next, ExchangeActs

LEMMA CycleStart == Init => Cycle!CycleInit
<1> SUFFICES ASSUME Init PROVE Cycle!CycleInit
  OBVIOUS
<1>1. \A b \in Bots : Phase(b) = "idle" /\ RestingSides(b) = {}
  BY DEF Init, ExchangeInit, UnusedOrder, Phase, RestingSides, Resting, IsOpen
<1> QED
  BY <1>1 DEF Cycle!CycleInit

\* StartSM, for any number of bots on one account and whatever is refused,
\* lost or late, implements the trading cycle.
THEOREM BotImplementsCycle == Spec => FollowsTheCycle
<1> QED
  BY CycleStart, CycleStep, TypeInvariant, TrackInvariant, PTL
  DEF Spec, FollowsTheCycle, Cycle!Spec
=============================================================================
