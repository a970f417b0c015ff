---------------------------- MODULE FakeExchange ----------------------------
(***************************************************************************)
(* The fake exchange of exchange/fake/api.go, with clients that use its     *)
(* interface as StartSM does: create an order, look for it in the list of   *)
(* open orders, and if it takes too long cancel it.                         *)
(*                                                                         *)
(* The account's orders are a Go slice, a window on an array, and           *)
(* OpenedOrders hands that very window out: a client goes through it while  *)
(* others change the array below it.  An array nobody refers to is garbage  *)
(* and may be allocated again.  Every method holds the account's lock and   *)
(* is one step; going through the list is one step per element.             *)
(*                                                                         *)
(* Prices and amounts are small integers; the maker's commission, which     *)
(* only lowers what a trade brings, is left out.                            *)
(***************************************************************************)
EXTENDS SequencesExt

CONSTANTS
  Clients,      \* bots on this account
  MaxOrders,    \* bound: orders created
  Prices,       \* rates the real exchange may report
  Amounts,      \* amounts a client may order
  InitQuote,    \* quotedFree at the start
  LeastSum      \* what an order must be worth (10 in the code)

ASSUME FakeAssumption ==
  /\ IsFiniteSet(Clients)
  /\ MaxOrders \in Nat
  /\ Prices \subseteq Nat \ {0} /\ Amounts \subseteq Nat \ {0}
  /\ InitQuote \in Nat /\ LeastSum \in Nat

VARIABLES
  heap,         \* arrays of order ids; 0 is an element never written
  orders,       \* account.orders: the array it looks at, and its length
  book,         \* side, price and amount of the orders created so far
  baseFree,     \* account.baseFree
  quotedFree,   \* account.quotedFree
  price,        \* rate of the pair, 0 before the first update
  pc,           \* where a client is
  mine,         \* the order it works on, or 0
  view,         \* the slice OpenedOrders gave it
  pos,          \* the next element it looks at
  exist,        \* it has seen its order
  \* observation only
  disturbed,    \* clients in the middle of a list when another cancelled
  overlapped    \* two orders of one side have been open at once

accountVars == <<heap, orders, book, baseFree, quotedFree>>
clientVars == <<pc, mine, view, pos, exist>>
vars == <<accountVars, price, clientVars, disturbed, overlapped>>

-----------------------------------------------------------------------------
OrderIds == 1..MaxOrders
FakeOrder == [side: {"BUY", "SELL"}, price: Prices, amount: Amounts]

\* One array for the account, one for each client, and one to allocate.
Arrays == 0..(Cardinality(Clients) + 1)
Slice == [arr: Arrays, len: 0..MaxOrders]
NilSlice == [arr |-> 0, len |-> 0]

Elements(slice) == SubSeq(heap[slice.arr], 1, slice.len)
Opened == ToSet(Elements(orders))

TypeOK ==
  /\ heap \in [Arrays -> Seq(OrderIds \cup {0})]
  /\ orders \in Slice /\ orders.len <= Len(heap[orders.arr])
  /\ book \in Seq(FakeOrder) /\ Len(book) <= MaxOrders
  /\ baseFree \in Int /\ quotedFree \in Int
  /\ price \in Prices \cup {0}
  /\ pc \in [Clients -> {"idle", "check", "range", "cancel"}]
  /\ mine \in [Clients -> OrderIds \cup {0}]
  /\ view \in [Clients -> Slice]
  /\ pos \in [Clients -> 1..(MaxOrders + 1)]
  /\ exist \in [Clients -> BOOLEAN]
  /\ disturbed \subseteq Clients
  /\ overlapped \in BOOLEAN

Init ==
  /\ heap = [a \in Arrays |-> <<>>]
  /\ orders = NilSlice
  /\ book = <<>>
  /\ baseFree = 0 /\ quotedFree = InitQuote
  /\ price = 0
  /\ pc = [c \in Clients |-> "idle"]
  /\ mine = [c \in Clients |-> 0]
  /\ view = [c \in Clients |-> NilSlice]
  /\ pos = [c \in Clients |-> 1]
  /\ exist = [c \in Clients |-> FALSE]
  /\ disturbed = {}
  /\ overlapped = FALSE

-----------------------------------------------------------------------------
(* Memory.                                                                 *)

Zeros(n) == [k \in 1..n |-> 0]

Refers(slice, views, a) == a = slice.arr \/ \E c \in Clients : views[c].arr = a

NewArray == CHOOSE a \in Arrays : ~Refers(orders, view, a)

\* Garbage is cleared as soon as the last slice on it is gone.
Collected(arrays, slice, views) ==
  [a \in Arrays |-> IF Refers(slice, views, a) THEN arrays[a] ELSE <<>>]

\* append: in place while the capacity lasts, else into an array twice as long.
HasRoomAlways(slice) == TRUE
HasRoom(slice) == slice.len < Len(heap[slice.arr])

Append1(id) ==
  LET n == orders.len IN
  IF HasRoom(orders)
    THEN /\ heap' = [heap EXCEPT ![orders.arr][n + 1] = id]
         /\ orders' = [orders EXCEPT !.len = n + 1]
    ELSE LET grown == (Elements(orders) \o <<id>>) \o Zeros(IF n = 0 THEN 0 ELSE n - 1)
         IN /\ orders' = [arr |-> NewArray, len |-> n + 1]
            /\ heap' = Collected([heap EXCEPT ![NewArray] = grown], orders', view)

\* The array updateActiveOrders collects the remaining orders in.
KeptInPlace(kept) ==
  [arr |-> orders.arr, array |-> kept \o Zeros(Len(heap[orders.arr]) - Len(kept))]
NewOrders(kept) ==
  [arr |-> NewArray, array |-> kept \o Zeros(orders.len - Len(kept))]

\* The cancelled element and the last one change places, then the slice is cut.
CutOnly(array, k, n) == array
SwapToEnd(array, k, n) == [array EXCEPT ![k] = array[n], ![n] = array[k]]

-----------------------------------------------------------------------------
(* The exchange.                                                           *)

SumOf(order) == order.price * order.amount

\* Is there enough money in the balance?  Nothing is set aside for open orders.
CoveredAlways(order) == TRUE
Covered(order) ==
  IF order.side = "BUY" THEN quotedFree >= SumOf(order)
                        ELSE baseFree - order.amount >= 0

CreateOrder(c, order) ==
  /\ pc[c] = "idle"
  /\ Len(book) < MaxOrders
  /\ Covered(order)
  /\ SumOf(order) >= LeastSum
  /\ book' = Append(book, order)
  /\ Append1(Len(book) + 1)
  /\ mine' = [mine EXCEPT ![c] = Len(book) + 1]
  /\ pc' = [pc EXCEPT ![c] = "check"]
  /\ overlapped' = (overlapped \/ \E i \in Opened : book[i].side = order.side)
  /\ UNCHANGED <<baseFree, quotedFree, price, view, pos, exist, disturbed>>

OpenedOrders(c) ==
  /\ pc[c] = "check"
  /\ view' = [view EXCEPT ![c] = orders]
  /\ pc' = [pc EXCEPT ![c] = "range"]
  /\ UNCHANGED <<accountVars, price, mine, pos, exist, disturbed, overlapped>>

\* An order that is not in the list is an error; the client asks again, in vain.
CancelOrder(c) ==
  /\ pc[c] = "cancel"
  /\ \E k \in 1..orders.len :
       /\ heap[orders.arr][k] = mine[c]
       /\ heap' = [heap EXCEPT ![orders.arr] = SwapToEnd(@, k, orders.len)]
  /\ orders' = [orders EXCEPT !.len = @ - 1]
  /\ pc' = [pc EXCEPT ![c] = "idle"]
  /\ mine' = [mine EXCEPT ![c] = 0]
  /\ disturbed' = disturbed \cup {d \in Clients : pc[d] = "range"}
  /\ UNCHANGED <<book, baseFree, quotedFree, price, view, pos, exist, overlapped>>

UpdatePrice ==
  /\ price' \in Prices
  /\ UNCHANGED <<accountVars, clientVars, disturbed, overlapped>>

Completes(i) ==
  IF book[i].side = "BUY" THEN book[i].price > price ELSE book[i].price < price

\* A round of the loop over the orders, for the order i.
Settled(account, i) ==
  LET order == book[i] IN
  IF ~Completes(i) THEN [account EXCEPT !.kept = Append(@, i)]
  ELSE IF order.side = "BUY"
    THEN [account EXCEPT !.base = @ + order.amount, !.quoted = @ - SumOf(order)]
    ELSE [account EXCEPT !.base = @ - order.amount, !.quoted = @ + SumOf(order)]

\* The orders kept and the balances after n rounds.
Settling[n \in 0..orders.len] ==
  IF n = 0 THEN [kept |-> <<>>, base |-> baseFree, quoted |-> quotedFree]
           ELSE Settled(Settling[n - 1], heap[orders.arr][n])

UpdateActiveOrders ==
  LET account == Settling[orders.len]
      new == NewOrders(account.kept)
  IN /\ orders' = [arr |-> new.arr, len |-> Len(account.kept)]
     /\ heap' = Collected([heap EXCEPT ![new.arr] = new.array], orders', view)
     /\ baseFree' = account.base
     /\ quotedFree' = account.quoted
     /\ UNCHANGED <<book, price, clientVars, disturbed, overlapped>>

-----------------------------------------------------------------------------
(* A client goes through the list.                                         *)

Looks(c) ==
  /\ pc[c] = "range" /\ pos[c] <= view[c].len
  /\ exist' = [exist EXCEPT ![c] = @ \/ heap[view[c].arr][pos[c]] = mine[c]]
  /\ pos' = [pos EXCEPT ![c] = @ + 1]
  /\ UNCHANGED <<accountVars, price, pc, mine, view, disturbed, overlapped>>

Ranged(c) == pc[c] = "range" /\ pos[c] > view[c].len

\* The list goes out of scope.
DropsList(c) ==
  /\ view' = [view EXCEPT ![c] = NilSlice]
  /\ heap' = Collected(heap, orders, view')
  /\ pos' = [pos EXCEPT ![c] = 1]
  /\ exist' = [exist EXCEPT ![c] = FALSE]
  /\ disturbed' = disturbed \ {c}

\* The order is there: look again later, or give a buy up when it is overdue.
Exists(c) ==
  /\ Ranged(c) /\ exist[c]
  /\ \E next \in {"check", "cancel"} :
       /\ next = "cancel" => book[mine[c]].side = "BUY"
       /\ pc' = [pc EXCEPT ![c] = next]
  /\ DropsList(c)
  /\ UNCHANGED <<orders, book, baseFree, quotedFree, price, mine, overlapped>>

\* The order is not there: "order finished".
Finished(c) ==
  /\ Ranged(c) /\ ~exist[c]
  /\ pc' = [pc EXCEPT ![c] = "idle"]
  /\ mine' = [mine EXCEPT ![c] = 0]
  /\ DropsList(c)
  /\ UNCHANGED <<orders, book, baseFree, quotedFree, price, overlapped>>

-----------------------------------------------------------------------------
Next ==
  \/ \E c \in Clients :
       \/ \E order \in FakeOrder : CreateOrder(c, order)
       \/ OpenedOrders(c) \/ Looks(c) \/ Exists(c) \/ Finished(c) \/ CancelOrder(c)
  \/ UpdatePrice \/ UpdateActiveOrders

Spec == Init /\ [][Next]_vars

-----------------------------------------------------------------------------
\* A client that has gone through its list and has not seen its order, although
\* the order is open, had its array changed under it by another's cancel; a
\* creation or an update at the same time never hides an order from anybody
\* (fake/api.go:91-122, 161, 184, 194; bot.go:217-233).
MissedOnlyBehindACancel ==
  \A c \in Clients :
    (Ranged(c) /\ ~exist[c] /\ mine[c] \in Opened) => c \in disturbed

\* "not enough money in balance": an account that never had two orders of the
\* same side open at once is never overdrawn, although the cover is only looked
\* at when an order is created (fake/api.go:149-153, 103-114).
OverdraftNeedsOverlap == (baseFree < 0 \/ quotedFree < 0) => overlapped

\* An order leaves the list only by completing at the current price or by its
\* own client's cancel: the order that is moved to its place is not lost
\* (fake/api.go:102-120, 191-199).
OrdersLeaveForAReason ==
  [][\A i \in Opened \ Opened' :
       Completes(i) \/ \E c \in Clients : mine[c] = i /\ pc[c] = "cancel"]_vars
=============================================================================
