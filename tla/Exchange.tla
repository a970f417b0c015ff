------------------------------ MODULE Exchange ------------------------------
(***************************************************************************)
(* One spot account on the exchange, as the adapter exchange/binance/api.go *)
(* sees it: free balances, the order book entries of the account, and the   *)
(* requests that reach the exchange after the HTTP client has given up on   *)
(* them (utils/httpf gives up after three seconds).  The exchange itself is *)
(* external; its behaviour is what the adapter relies on.                   *)
(*                                                                         *)
(* Amounts are whole multiples of the pair's lot step (10^-BasePrecision);  *)
(* a residue below one lot may be there besides.  One lot costs one unit of *)
(* the quote currency: no property here is about prices or commissions.     *)
(***************************************************************************)
EXTENDS Integers

CONSTANTS
  Bots,             \* the bots that trade on this account
  OrderIds,         \* client order ids the exchange can hand out
  InitQuote,        \* quote balance of the account at the start
  InitBase,         \* base balance of the account at the start
  QuoteListedFirst, \* does the account listing name quote before base?
  OtherLocks,       \* bound: where in the listing others may lock an asset
  MaxTimeouts       \* bound: requests whose answer is lost

Sides == {"BUY", "SELL"}
Currencies == {"base", "quote"}

ASSUME ExchangeAssumption ==
  /\ OrderIds \subseteq Nat \ {0}
  /\ InitQuote \in Nat
  /\ InitBase \in Nat
  /\ QuoteListedFirst \in BOOLEAN
  /\ OtherLocks \subseteq Currencies
  /\ MaxTimeouts \in Nat
  /\ "nobody" \notin Bots

VARIABLES
  orders,       \* the account's orders, by client order id
  free,         \* free balance per currency
  lateCreates,  \* create requests still travelling after their timeout
  lateCancels,  \* ids of cancel requests still travelling after their timeout
  timeouts,     \* number of requests whose answer was lost so far
  mutexLeaked,  \* the adapter's ExchangeMutex stays locked for good
  othersLocked, \* currencies of the pair with a locked asset of others just
                \* before them in the listing
  served        \* bots whose pair the exchange lists and whose keys it takes

exchangeVars == <<orders, free, lateCreates, lateCancels, timeouts, mutexLeaked,
                  othersLocked, served>>

-----------------------------------------------------------------------------
\* What an order of either side takes from the account, and what it brings.
Pays(side) == IF side = "BUY" THEN "quote" ELSE "base"
Gets(side) == IF side = "BUY" THEN "base" ELSE "quote"

\* "acked" says that the id was returned to the bot by a successful call.
Order ==
  [owner: Bots \cup {"nobody"}, side: Sides, amount: Nat, filled: Nat,
   status: {"unused", "open", "filled", "removed"}, acked: BOOLEAN]

UnusedOrder ==
  [owner |-> "nobody", side |-> "BUY", amount |-> 0, filled |-> 0,
   status |-> "unused", acked |-> FALSE]

LateCreate == [owner: Bots, side: Sides, amount: Nat, tag: Nat]

ExchangeTypeOK ==
  /\ orders \in [OrderIds -> Order]
  /\ free \in [Currencies -> Nat]
  /\ lateCreates \subseteq LateCreate
  /\ lateCancels \subseteq OrderIds
  /\ timeouts \in 0..MaxTimeouts
  /\ mutexLeaked \in BOOLEAN
  /\ othersLocked \subseteq Currencies
  /\ served \subseteq Bots

ExchangeInit ==
  /\ orders = [i \in OrderIds |-> UnusedOrder]
  /\ free = [c \in Currencies |-> IF c = "base" THEN InitBase ELSE InitQuote]
  /\ lateCreates = {}
  /\ lateCancels = {}
  /\ timeouts = 0
  /\ mutexLeaked = FALSE
  /\ othersLocked = {}
  /\ served \in SUBSET Bots

-----------------------------------------------------------------------------
(* The adapter.  Every call holds ExchangeMutex, one lock for all the bots, *)
(* until it returns; only GetInformation can return without giving it back. *)

GetInformationFails ==
  /\ ~mutexLeaked
  /\ mutexLeaked' = TRUE
  /\ UNCHANGED <<orders, free, lateCreates, lateCancels, timeouts, othersLocked,
                 served>>

-----------------------------------------------------------------------------
(* What the adapter reads.                                                 *)

IsOpen(i) == orders[i].status = "open"

\* A currency is locked while an open order has set part of it aside.
Locked(c) == \E i \in OrderIds : IsOpen(i) /\ Pays(orders[i].side) = c

\* The currencies of the pair that GetBalance(c) comes across.
UpTo(c) == IF (c = "quote") = QuoteListedFirst THEN {c} ELSE Currencies

\* GetBalance walks the listing in order and returns ErrBalanceLocked at the
\* first asset that is locked, the one asked for included.
BalanceBlocked(c) == \E d \in UpTo(c) : Locked(d) \/ d \in othersLocked

\* The account's owner, or bots on other pairs, place orders and lose them.
OthersTrade ==
  /\ othersLocked' \in SUBSET OtherLocks
  /\ UNCHANGED <<orders, free, lateCreates, lateCancels, timeouts, mutexLeaked,
                 served>>

-----------------------------------------------------------------------------
(* What the exchange does with a request.                                  *)

FreshId(i) ==
  /\ orders[i].status = "unused"
  /\ \A j \in OrderIds : orders[j].status = "unused" => i <= j

\* A covered order enters the book under id i; its cover is set aside.
Enter(b, side, amount, acked, i) ==
  /\ FreshId(i)
  /\ amount > 0
  /\ amount <= free[Pays(side)]
  /\ orders' = [orders EXCEPT ![i] =
                  [owner |-> b, side |-> side, amount |-> amount, filled |-> 0,
                   status |-> "open", acked |-> acked]]
  /\ free' = [free EXCEPT ![Pays(side)] = @ - amount]

\* An open order leaves the book; what was not traded is given back.
Remove(i) ==
  /\ IsOpen(i)
  /\ orders' = [orders EXCEPT ![i].status = "removed"]
  /\ free' = [free EXCEPT ![Pays(orders[i].side)] =
                @ + (orders[i].amount - orders[i].filled)]

\* One unit of an open order trades; the last one takes it off the book.
Traded(order) ==
  [order EXCEPT
     !.filled = @ + 1,
     !.status = IF order.filled + 1 = order.amount THEN "filled" ELSE "open"]

Trade(i) ==
  /\ IsOpen(i)
  /\ orders' = [orders EXCEPT ![i] = Traded(@)]
  /\ free' = [free EXCEPT ![Gets(orders[i].side)] = @ + 1]
  /\ UNCHANGED <<lateCreates, lateCancels, timeouts, mutexLeaked, othersLocked,
                 served>>

-----------------------------------------------------------------------------
(* Requests that time out at the client and may still arrive.              *)

SendLateCreate(b, side, amount) ==
  /\ timeouts < MaxTimeouts
  /\ timeouts' = timeouts + 1
  /\ lateCreates' = lateCreates \cup
       {[owner |-> b, side |-> side, amount |-> amount, tag |-> timeouts]}
  /\ UNCHANGED <<orders, free, lateCancels, mutexLeaked, othersLocked,
                 served>>

SendLateCancel(i) ==
  /\ timeouts < MaxTimeouts
  /\ timeouts' = timeouts + 1
  /\ lateCancels' = lateCancels \cup {i}
  /\ UNCHANGED <<orders, free, lateCreates, mutexLeaked, othersLocked,
                 served>>

\* A late create is entered without the bot ever learning its id ...
LateCreateEnters(r, i) ==
  /\ r \in lateCreates
  /\ Enter(r.owner, r.side, r.amount, FALSE, i)
  /\ lateCreates' = lateCreates \ {r}
  /\ UNCHANGED <<lateCancels, timeouts, mutexLeaked, othersLocked,
                 served>>

\* ... or is lost or refused.
LateCreateLost(r) ==
  /\ r \in lateCreates
  /\ lateCreates' = lateCreates \ {r}
  /\ UNCHANGED <<orders, free, lateCancels, timeouts, mutexLeaked, othersLocked,
                 served>>

LateCancelArrives(i) ==
  /\ i \in lateCancels
  /\ Remove(i)
  /\ lateCancels' = lateCancels \ {i}
  /\ UNCHANGED <<lateCreates, timeouts, mutexLeaked, othersLocked,
                 served>>

LateCancelLost(i) ==
  /\ i \in lateCancels
  /\ lateCancels' = lateCancels \ {i}
  /\ UNCHANGED <<orders, free, lateCreates, timeouts, mutexLeaked, othersLocked,
                 served>>
=============================================================================
