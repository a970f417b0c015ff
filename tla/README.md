# Verification of lcongra

lcongra runs trading bots against a spot account on an exchange. An HTTP server
creates, lists, runs and deletes bots; each running bot buys on a signal, watches
its order, sells what it bought and starts over. This directory holds TLA+ models
of that program, TLC configurations that check them on small instances, and
TLAPS proofs of the results that matter most for any instance.

    tlc -config bot_pair.cfg MCBot.tla        one run
    tlapm BotProofs.tla                       the proofs of one module

## Inventory of the system

| Part | State it keeps | Operations | Talks to |
|---|---|---|---|
| Bot state machine, `service/bot.go` | `b.state`, `b.info`, `b.lastSignal`, the local `currentOrder` and `closed` | `StartSM` and its eight live cases, `GetCache`, three constructors of orders | adapter (calls), Autotrade (channel of one), agent (context) |
| Autotrade, `service/analytics.go` | the loop and a batch of signals; the file `signals.csv`, one for all bots | one round: look at the context, run the R script, flush a full batch, send without blocking | bot (channel), script (process), file |
| Binance adapter, `exchange/binance/api.go` | `ExchangeMutex`, held during a call, one for all bots | `GetInformation`, `GetBalance`, `GetRate`, `CreateOrder`, `OpenedOrders`, `CancelOrder` | exchange through `utils/httpf`, which gives up after three seconds |
| Account on the exchange (external) | balances, order book | enter, trade, remove; requests may arrive after their timeout | adapter |
| Agents registry, `service/agent_service.go`, `service/agent.go` | map of agents under a mutex; per agent `ctx`, `cancel` and an RWMutex | `Create`, `GetListInfo`, `RunAgent`, `stopAndDeleteAgent`, `Delete` | handlers, bots (goroutines, contexts) |
| HTTP handlers, `service/server.go` | none | `/create`, `/list`, `/run`, `/delete` (`/stop` is empty) | registry |
| Terminal client, `client/term` | the last command, the current bot | one request per command, and waiting for its answer or an error | server |
| Observer and reporter, `service/observer.go`, `service/reporter.go` | an unbuffered channel | send a rate; post it (never started by `main`) | fake exchange, client |
| Message queue and order queue, `service/mq.go`, `service/queue.go` | lists | push, pop, front | nothing in the program calls them |
| Fake exchange, `exchange/fake/api.go` | balances, orders | the adapter's interface | observer |
| Signal script, `scripts/la1_rf.R` | none | print a forecast, or quit | Autotrade |
| Test server, configuration | none that matters | | |

### What is hard here, and what makes each part correct

**Bot.** A create or cancel may time out at the client and still take effect; the
create is simply sent again. A buy may fill while it is being cancelled. All the
bots of a key pair trade on one balance, and one open order makes balance reads
fail for everybody. The context that stops a bot is looked at in one state only.
Correct means: an order whose creation was confirmed is never lost sight of;
"absent from the list" is never concluded from an id the exchange did not give;
bought currency is sold, or there is a known reason; a bot that is told to stop does,
soon, unless it is in one of the places that have no way out.

**Registry.** Handlers run concurrently; names and "is running" are checked under
one hold of a lock and acted on under another; `ctx` and `cancel` are read
without a lock. Correct means: one agent per name, one machine per bot, no
machine that nobody can stop, every request answered, as far as the adapter lets it.

**Numbers.** Prices and amounts are rounded to the decimals of the exchange's
filters, the sell after the buy was. Correct means: an order is near the market and
within the balance it was checked against, it never sells more than there is, and a
trade that is bought and sold does not lose its fees.

**Signals.** A batch grows while the file cannot be opened, rows may fail one by one,
two bots write to one file, and the process may die in the middle. Correct means:
every signal is in the file, or pending, or lost to something that can be named; none
is there twice or out of order; what the script says is what the bot is told.

**Terminal.** It types one command at a time, but an empty line repeats the last one; a
request may be lost on its way, or its answer; and closing the terminal, or a connection
that breaks, leaves a request at work that nobody waits for. Correct means: what it does
alone is serial, repeating does no harm, the prompt comes back.

**Fake exchange.** It hands its own slice of orders to its clients, and sets nothing
aside for an open order. Correct means: an open order is found, and no order is lost.

**Adapter.** One lock serialises all bots; a return without unlocking stops all
of them.

`PROJECT.json` lists every hazard with its line and the properties that watch it.

## The modules

| Module | Models | Shape |
|---|---|---|
| `Exchange` | account and adapter | operators for what one call or one event does; no behaviour of its own |
| `Bot` | `StartSM`, Autotrade, the agent's stop, on top of `Exchange` | one action per case of the switch, split where an answer decides |
| `TradeCycle` | the diagram at bot.go:101-107 | abstract specification that `Bot` implements |
| `MCBot` | instances of `Bot` | |
| `BotProofs` | theorems about `Bot` | |
| `FakeExchange` | the fake exchange and its clients | one action per method; going through a list is one per element |
| `MCFake` | an instance of `FakeExchange` | |
| `FakeProofs` | theorems about `FakeExchange` | |
| `AgentsService` | registry and handlers | one action per lock hold or unlocked access |
| `MCAgents` | an instance of `AgentsService` | |
| `AgentsProofs` | theorems about `AgentsService` | |
| `Console` | the terminal, in front of `AgentsService` | composition: one action per command, the server's actions between them |
| `MCConsole` | an instance of `Console` | |
| `ConsoleProofs` | theorems about `Console`, on top of those of `AgentsProofs` | |
| `Signals` | reading the script's answer, and `signals.csv` | one action per file operation |
| `MCSignals` | instances of `Signals` | |
| `SignalsProofs` | theorems about `Signals` | |
| `Amounts` | precision, rate, price and amount of every order | the functions as operators, and one trading bot that feeds one into the next |
| `MCAmounts` | an instance of `Amounts` | |
| `AmountsProofs` | theorems about `Amounts` | |
| `Loops` | induction over the rounds of a loop, for the proofs of the two above | |

### Exchange

`orders` maps client order ids, handed out in increasing order, to what the
exchange knows of them. `acked` marks the ids a bot was given by a successful
call. `free` holds the free balances in whole lots of the pair. `BalanceBlocked`
is the loop in `GetBalance` that returns `ErrBalanceLocked` at the *first* locked
asset of the listing, so the order of the listing matters (`QuoteListedFirst`), and so do
the assets of other pairs: `othersLocked` says before which currency of the pair one of
them is locked, and `OthersTrade` changes it at any time, for good if it likes.
`served` is chosen at the start: the bots whose pair the exchange lists and whose keys it
takes. Nothing checks either when a bot is created, and for any other bot `GetInformation`
fails every time (api.go:391-398).
A request that times out becomes a late create or cancel that arrives or is lost
later. `mutexLeaked` is `ExchangeMutex` left locked by `GetInformation`'s return at
api.go:356; from then on no call of any bot returns.

Left out: prices, commissions, signing, decoding and `GetRate`'s arithmetic (module
`Amounts` has the numbers). A lot costs one unit of quote, so an order has an amount and
no price.

### Bot

`state`, `currentOrder`, `closed` and `info` are the code's variables; `attempts`
is the loop counter of CreateOrder, which needs a variable because other bots and
the market act between two attempts. `overdue` in an order is
`time.Now().After(OrderTime)`, `fresh` in a signal is the five second test; both
change by an action of their own. `leftBy` and `openedAfterStop` are observation
only: nothing reads them but properties.

Reading the source, a few consequences that the actions carry:

- `StartSM` needs a pair and keys that are good (`served`) and a readable quote balance,
  since `GetInformation` ends with it. Start does not look at the context, so a bot that
  never gets through it is not stopped by a delete.
- `NotEnoughQuote` has no guard on the balance: a failed `GetBalance` reads as -1.
- `AttemptFails` overwrites the id with the empty string (0), as `currentOrder.ID = id`
  does before `err` is looked at.
- `PrepareSell` may offer nothing: a residue below one lot is above the code's
  `1e-12` and rounds down to zero.
- `CancelAccepted` of a sell, the branch `closed = false` and the market sell order
  are modelled although `BotProofs` shows that they are never reached.
- A call that fails and is made again with nothing changed (OpenedOrders in
  CheckOrder, GetBalance in ClosePosition, a refused cancel) is a stuttering step.

### TradeCycle

Per bot a phase and the sides of its confirmed orders in the book. `Bot` maps to
it with `Phase(b)` and `RestingSides(b)`: CreateOrder is buying or selling by the
side of the current order, CheckOrder and CancelOrder are bidding or offering.

### AgentsService

A *run* is a context made by `RunAgent` with the goroutines started for it.
`readers` counts how often an agent's RWMutex is read locked, the locks that
`RunAgent` forgets on its "is running" return included. Its write lock is held
from `RunSetsCtx` to `RunSetsCancel`, and one that is asked for keeps new readers
out, as sync.RWMutex does. `DeleteReadsCtx` and `DeleteCancels` read fields that
`RunAgent` writes, without the lock. A nil `cancel` panics; `ServeHTTP` recovers and
the request ends there. `/list` iterates over the map under the message queue's
lock, not under the one that guards the map: while it does, a write may be noticed by
the runtime, which ends the process (`crashed`). What a run does once it is started
is module `Bot`; here it stops, after its context is cancelled, and may leave the
adapter's lock behind (`MachineLeaks`, `leaked`). That matters to `/list`, which asks the
exchange three times for every bot (`GetCache`) before it answers: `ListEnds` waits for
the lock, and behind a leaked one for ever. A handler forgets what it knew when it has
answered.

Overlapping requests break most promises one would make of the registry: two creates
of a name, two runs, a delete in the middle of a run, a run behind a read lock that
"is running" forgot. So the promises name the one excuse there is: `overlapped` is
observation only and holds the names that two requests were worked on at once, and
`NamesAreNotReused`, `OneMachinePerBot`, `DeletedMachinesStop` and `RequestsEnd` say that
nothing goes wrong with any *other* name, whatever else is going on. A list is about no
name; it is answered unless the adapter's lock was leaked.

The model lets the process die at any write of the map while a list is under way, also
while that list hangs in `GetCache`; the runtime's check is made when the iteration goes
on. That is more than the program can do, never less, and the properties that speak of
`crashed` either excuse it or claim it needs an overlap.

Left out: request decoding and validation, which refuse before any state changes,
and what the exchange calls of `/list` return.

### Console

A terminal is at its prompt or waits in `Do` for the answer of `handler`. `Line` is
`Scanf`: an empty line is an error that is logged, and leaves `line` as it was, so the
last command is executed again. A command puts a request on the `wire` (`Sends`), and a
handler takes it from there (`Arrives`), so that what `Do` returns an error for can be told
apart: a request that never arrived (`RequestLost`), an answer that was lost or a server that
is dead (`Answer`), and a connection that breaks while the request still arrives or is being
handled (`ConnectionBreaks`). In the last case the terminal is back at its prompt and the
handler goes on. `Reopen` ends the terminal at any moment, also while it waits, and starts
another. `/stop` reaches the server and does nothing there. The actions of
`AgentsService` are used as they are, for the handler's first step (`Serves`) and for what
the server does between two commands (`Works`).

Observation only: `abandoned` says that a terminal has stopped waiting for a request that
went on; `reached` that the line has arrived at the server at least once, and `repeating`
that it had when it was typed or repeated again. Only a repetition of a line that arrived
must change nothing: one of a line that was lost is its first execution.

Left out: decoding and printing, and two terminals at once, of which the second is an
overlap like those `agents` explores.

### Signals

`signals` is the batch of `Autotrade`, `row` the loop variable of `Flush`, and `file`
the lines of `signals.csv`, which `O_APPEND` makes one write at a time. Opening, `Stat`
and `Seek` may fail and keep the batch; a write may fail unnoticed and loses its row.
`Kill` loses all batches and keeps the file. A row also says whose signal it is and
which, so that order and loss can be spoken of; `lost` and `misread` are observation
only. `Output` is what the script's `cat(paste(...))` prints, with the spaces `paste` puts
between its arguments, and `Direction` is the switch over the second line. `getDirection`
indexes that line after asking only whether there is a first; the repository's script
prints both in one `cat` or quits with status 1, so the index is in range in the model.

### Amounts

Prices and amounts are integers in units of 10^-`Digits`, sums of money in units of
the square of that, and every formula of the code is kept in exact integers:
`2001 * rate2 / 4000` is `rate + 0.0005 * rate` for a rate that is the mean of two
offers. The error of `float64`, about 10^-16 of a value, is below anything the
properties speak of. `Round` is halves away from zero, `RoundDown` truncation,
`GetPrecision` counts the decimals until the size rounds to at least one. A filter of
size zero makes `GetPrecision` loop for ever (`hung`). `Power` is `math.Pow10`, as a
recursive function over the decimals there are, so that the proofs may unfold it. The bot of this module trades alone;
what may happen around it is module `Bot`. The market sell order is left out, since
`BotProofs` shows that it is never reached.

### FakeExchange

`OpenedOrders` of the fake exchange returns `account.orders` itself. So this module has a
small heap: a slice is an array and a length, `append` writes in place while the capacity
lasts, `CancelOrder` swaps inside the array, and `updateActiveOrders` collects what
remains in a new one. A client goes through its list as CheckOrder does, one element
per step and without the account's lock. `disturbed` and `overlapped` are observation
only. `Settled` is one round of the loop over the orders, and `Settling` the orders kept
and the balances after each round. The commission is left out; prices and amounts are
small integers.
`main` gives this exchange to the observer only, and nothing calls `Update`, which is the
loop around `UpdatePrice` and `UpdateActiveOrders`: the module is about the interface
used as intended, by the clients it was written for.

## The runs

All bounds are CONSTANTS of the configurations.

| Run | Instance | Asks |
|---|---|---|
| `bot_pair` | two bots (symmetric), 3 order ids, 2 lots of quote, 1 timeout, 1 signal each | TypeOK, NoNilDereference, ConfirmedOrderTracked, WatchedOrderConfirmed, UnsoldBaseHasACause |
| `bot_single` | one bot, 4 ids, 3 signals, orders of 2 lots, 1 timeout | AtMostTwoAfterStop, FollowsTheCycle |
| `bot_live` | one bot, 3 ids, quote listed last, 2 signals, 1 timeout | BuyWatchEnds, CreatingEnds |
| `bot_stop` | two bots, 3 ids, 1 signal and 1 attempt each, quote listed last, no timeout, a market that trades, an asset of others that is locked and freed | StoppedOrStuck |
| `bot_watch` | one bot, 3 ids, 1 signal | WatchReturnsToGetSignal, violated |
| `bot_start` | one bot | StartRetries, violated |
| `fake_pair` | two clients (symmetric), 3 orders, prices 1 and 2 | TypeOK, MissedOnlyBehindACancel, OverdraftNeedsOverlap, OrdersLeaveForAReason |
| `agents` | three handlers, 2 names, 5 requests | TypeOK, CancelMatchesContext, StoppedIsBeingDeleted, OneMachinePerBot, DeletedMachinesStop, NamesAreNotReused, RequestsEnd |
| `console` | a terminal and two handlers, 2 names, 4 requests | ConsoleTypeOK, OverlapNeedsAbandoning, RepeatsChangeNothing, PromptReturns |
| `signals_pair` | two bots, batches of 2, 4 signals each, 1 failed file operation, 1 death | TypeOK, RowsInOrder, SignalsAccounted, BatchBounded, HeaderOnTop, BatchesAreFlushed |
| `signals_up` | one bot, all three forecasts | UpIsUp, violated |
| `amounts` | 6 tick sizes, 6 step sizes, 8 order books, 3 balances, 2 trades | TypeOK, BuyNearOffers, BuySpendsMinSum, SellsAllButDust, SellsAboveBuy, OrdersFitFilters, TradesGain |

Why these bounds are enough to be interesting:

- Two lots per order give partially filled orders, three signals give a stop with
  one signal in the channel and one being computed, and one more after them that
  must not be traded. Two attempts instead of three have a first, a next and a last
  one. One timeout gives a create, or a cancel, that takes effect behind the bot's
  back after it was retried. `bot_stop` makes do with one attempt: what is tried again does
  not decide whether a bot stops.
- With two bots, quote listed first and then last, a bot meets the other's locked
  balance and sells what the other bought. In `bot_stop` quote is listed last, and the third
  id lets one bot sell while the other has a buy in the book: Start and ClosePosition both
  meet a locked asset, of the other bot or (`BaseLocks`) of somebody else. The first three ids cover one cycle of one
  bot with an order of the other beside it.
- Three orders are two that are open at once and a third that is appended where a
  cancelled one was. An order is in fact missed, and either balance in fact goes
  below zero, in this instance; the two invariants say when.
- Five requests with three handlers reach a create, a delete and a run in the
  middle of another run; the second name is there to stay unharmed. The bounds on
  agents and contexts equal the bound on requests, so they never stop a handler by
  themselves.
- Four requests that reach the server are a create, a run and their repetitions, or a delete
  after them; two handlers are the one a terminal waits for and one that nobody waits for
  any more. Once something is abandoned, three requests are let in before the last
  (`MaxLate`), which is still enough for every pair of them to overlap. Lost requests do not
  count.
- Batches of two have a first and a last row between which the process may die, and
  four signals make a second batch behind one that could not be flushed. Two bots are
  enough to write two headers, and to mix rows.
- Ticks and steps of `amounts` are powers of ten, halves and quarters of them, and zero;
  its books have prices from below one tick's 0.3% to a hundred times that, several
  offers a side, or none. Its balances are just short of MinSum, MinSum itself, and
  enough for two trades, the second of which finds the dust of the first.
- `CHECK_DEADLOCK FALSE` everywhere, because every one of these systems may
  really stop: all bots deleted, or the requests used up.

What the violated properties show:

- **bot_watch.** CheckOrder finds an overdue buy in the list; it fills; CancelOrder is
  refused, and is the only thing the bot ever does again. It holds what it bought
  and does not see that it is deleted. `StoppedOrStuck` says that this,
  Start and the leaked lock are the only ways not to stop, `BuyWatchEnds` that this is the
  only bad way for a watch to end, and `UnsoldBaseHasACause` lists it among the ways to keep
  what was bought.
- **bot_start.** After `GetInformation` failed once, the retry a minute later waits
  for a lock nobody will give back.
- **signals_up.** The script prints `" 1"` on its second line, for it is
  `paste(..., "\n", "1")`, and `getDirection` compares with `"1"`. Every forecast is Stay,
  and no bot ever opens a position. `Bot` nevertheless takes any direction: it models
  what the state machine does with a signal, whichever script made it.

### Fairness

`BotFairness` is weak fairness of every step of `StartSM` that the goroutine takes
by itself: it never blocks outside the select, and a call repeated for ever is
answered in the end. A signal and a cancelled context are cases of one select; signals run
out once the context is cancelled, so weak fairness of each is enough. `Closing` alone has
strong fairness: ClosePosition repeats `GetBalance` without a pause, so that if there are
moments again and again at which no asset is locked, it meets one. That there are such
moments is not assumed of the account: it is the hypothesis `[]<>NothingLocked` of
`StoppedOrStuck`, since the owner's orders may lock an asset for good. `StartSM` has weak
fairness only, a bot in Start sleeping a minute between two looks. Nothing is assumed of
signals or of the exchange, except in `MarketSpec`, where an order left in the book
trades in the end: a sell is never given up, so without this no bot has to stop.
A leaked lock disables the calls, so no fairness can hide it.

`FairSpec` of `AgentsService` is weak fairness of a handler that is inside a request; an
exchange call that has the lock ends, after three seconds at the latest.
Nothing is assumed of `MachineStops`, which the cancel loop may prevent. `ConsoleSpec` has
weak fairness of `GoesOn`: a handler goes on, and a request on the wire arrives or is given
up, as TCP does; and of `Answer`: `Do` returns when the answer, or the end of the connection,
is there. Nobody has to type anything, and no connection has to break.

`FairSpec` of `Signals` is weak fairness of `Flush`, which runs on the goroutine of its bot
and waits for nobody. Failures are bounded, not excluded.

## The proofs

`BotProofs` proves, for any set of bots and order ids, any balances, and any bounds
on signals, timeouts and attempts (`ExchangeAssumption`, `BotAssumption`):

| Theorem | Property |
|---|---|
| `TypeCorrect` | TypeOK; free balances never go below zero |
| `NoNilDereferenceHolds` | NoNilDereference |
| `ConfirmedOrderTrackedHolds` | ConfirmedOrderTracked |
| `WatchedOrderConfirmedHolds` | WatchedOrderConfirmed |
| `UnsoldBaseHasACauseHolds` | UnsoldBaseHasACause |
| `AtMostTwoAfterStopHolds` | AtMostTwoAfterStop |
| `BotImplementsCycle` | FollowsTheCycle, that is `Spec => Cycle!Spec` |

The invariants come in layers, each inductive with the help of the one before.

1. `TypeInv` adds to the types that no order is filled beyond its amount
   (otherwise giving back the rest could make a balance negative), that a watched
   order has an id, and that `closed` stays TRUE (otherwise the market
   sell order could leave a nil order behind). `NoNilDereference` needs the last two
   facts and is part of it.
2. The tracking invariant says that confirmed open orders are exactly what their
   owner watches and that the watched id was confirmed to this bot; neither is
   inductive alone, since the first needs to know that an id is fresh and the
   second that an id never changes hands.
3. `CauseInv` says that as long as `leftBy` names no cause and base currency is free,
   some bot *holds* it: it is in ClosePosition, or creates a sell of at least the whole
   free balance, or watches a buy that has begun to fill, in CheckOrder or in CancelOrder. In the latter it
   is `Exposed` while the buy is open and `StuckOnABuy` once it is not. `UnsoldBaseHasACause` alone
   is not inductive: a bot about to create a sell could be offering less than is
   there. It also needs that only cancels of buys are ever under way late, so that none
   of them gives base currency back.
4. `AtMostTwoAfterStop` counts what can still be opened: positions opened so far, plus
   a signal in the channel, plus one being computed, plus one already taken.
5. The refinement takes each action of `Bot` to one of `TradeCycle` or a stutter, using
   layer 2 to know what `RestingSides` is before and after.

### The registry

`AgentsProofs` proves, for any set of handlers and names and any bounds
(`AgentsAssumption`):

| Theorem | Property |
|---|---|
| `AgentsTypeCorrect` | TypeOK |
| `CancelMatchesContextHolds` | CancelMatchesContext |
| `StoppedIsBeingDeletedHolds` | StoppedIsBeingDeleted |
| `OneMachinePerBotHolds` | OneMachinePerBot |
| `DeletedMachinesStopHolds` | DeletedMachinesStop |
| `NamesAreNotReusedHolds` | NamesAreNotReused |

The argument again has layers. `OwnInv` says whom things belong to: a context to the one
agent and the one handler it was made for, a write lock to one writer, an agent to its
name; `CancelMatchesContext` and `StoppedIsBeingDeleted` follow from it.
`AloneInv` is about names that are not in `overlapped`: on such a name at most one
handler is at work, every run of its agent that trades is the agent's context or is about
to become it, and an agent with such a run is registered. It is inductive because a
step of a handler that works on another name leaves everything it speaks of alone
(`LeavesOthers`), and a handler that works on this name is the only one (`OnlyWorker`).

`ConsoleProofs` proves of the composition:

| Theorem | States |
|---|---|
| `ConsoleTypeCorrect` | ConsoleTypeOK |
| `ConsoleImplementsAgents` | every behaviour of `ConsoleSpec` is one of `AgentsService`'s `Spec` |
| `TakesTurnsAlways` | while nothing is abandoned, only the handler the terminal waits for is at work |
| `OverlapNeedsAbandoningHolds` | OverlapNeedsAbandoning |
| `ConsoleBotsAreWell` | while nothing is abandoned, names are not reused, one machine per bot, and none of a deleted bot: the theorems above without their excuse |
| `RepeatsChangeNothingHolds` | RepeatsChangeNothing |

`TakesTurns` has to keep lost requests apart from abandoned ones: a request that is lost
brings the prompt back with nothing left behind.

`RepeatsChangeNothingHolds` rests on `RepeatInv`: what the handler of a `run` or a
`delete` knows at each of its steps, and what it leaves behind when it is idle again (`RunDone`, `DeleteDone`), which
nobody can undo before the same line is repeated. A delete that finds a context also
finds the function that cancels it, because nobody is between the two assignments
(`CancelMatchesContext`, from `AgentsInv`).

### The record of signals

`SignalsProofs` proves, for any set of bots, any batch size and any bounds on failures and
deaths (`SignalsAssumption`), the invariants of `signals_pair`:

| Theorem | Property |
|---|---|
| `SignalsTypeCorrect` | TypeOK |
| `RowsInOrderHolds` | RowsInOrder |
| `SignalsAccountedHolds` | SignalsAccounted |
| `BatchBoundedHolds` | BatchBounded |
| `HeaderOnTopHolds` | HeaderOnTop |

`BatchInv` says that a batch is the last signals computed, without a gap, and where in it
`Flush` is. Then `Bound(b)`, the last signal of `b` that may have a row, never
decreases (`BoundGrows`), and a row is only ever written for the signal after it: that
keeps rows in order, also across a death in the middle of a flush, after which
`Flush` never meets that batch again. `PassedInv` says that what the loop has gone past is in
the file or lost, so that emptying the batch forgets nothing. `HeaderInv` remembers that
a bot about to write a header has found an empty file.

### The numbers

`AmountsProofs` proves, for any number of decimals, any tick and step sizes, any finite
order books whose bids are below their asks, any balances and number of trades
(`AmountsAssumption`), every property of the run `amounts`:

| Theorem | Property |
|---|---|
| `AmountsTypeCorrect` | TypeOK; no balance becomes negative |
| `BuyNearOffersHolds` | BuyNearOffers |
| `BuySpendsMinSumHolds` | BuySpendsMinSum |
| `SellsAllButDustHolds` | SellsAllButDust |
| `SellsAboveBuyHolds` | SellsAboveBuy |
| `OrdersFitFiltersHolds` | OrdersFitFilters |
| `TradesGainHolds` | TradesGain |

First come lemmas about the operators, each once and for all decimals: `PowerSum`,
`RoundIs` (a rounded quotient is the multiple of the grid within half of it),
`RoundDownIs`, `GetPrecisionIs` (the least number of decimals, and there is one), and from
them what a buy's and a sell's price and amount are. The invariant `AmountsInv` then says
what was computed from what: the decimals from the filters (`FiltersKnown`), a buy from the
book the rate was read from (`BuyMade`), the account after it from the one before and a
fee (`NothingSpent`, `Bought`), a sell from what was bought and what there is (`SellMade`).
None of the properties is inductive without it: at the moment an order is sent, the numbers
it was made of are gone from the code's variables.

`TradesGain` once asked for a price of a thousand steps only, and TLC agreed. Its proof did
not go through: of a position of less than four lots, the fee can keep a whole lot from
being sold, which is worth more than the 0.3% gained. The instance cannot show it: with two
decimals a price of a thousand steps is at least 10, `MinSum` buys about one at that price,
and 0.1% of one is below two decimals; and more decimals exceed TLC's integers of 32 bits.
The property, and the theorem, now name the four lots (`Sizeable`).

### The fake exchange

`FakeProofs` proves, for any finite set of clients and any prices, amounts, balance and
number of orders (`FakeAssumption`), every property of the run `fake_pair`:

| Theorem | Property |
|---|---|
| `FakeTypeCorrect` | TypeOK; the slice stays within its array |
| `MissedOnlyBehindACancelHolds` | MissedOnlyBehindACancel |
| `OverdraftNeedsOverlapHolds` | OverdraftNeedsOverlap |
| `OrdersLeaveForAReasonHolds` | OrdersLeaveForAReason |

`FakeInv` is what makes them inductive. `OrdersListed`: the account lists orders that were
created, each once (an append adds an id that is new, the swap moves one, a new array copies
them). `ViewsHeld`: a slice somebody holds lies in its array, and is dropped with the
loop that goes through it. `WritesBehind`: as long as nobody cancels, what is written to an
array that a client still reads is behind the client's slice; and an array that is
allocated is nobody's, because there is one more array than there are holders
(`NewArrayIs`, by counting). From these, `SeenOrAhead`: an open order has been seen, or is
still ahead in the client's slice. `OnePerSide`: without an overlap there is one open order
of each side, and each is covered. That a settlement keeps this is `BalancesAre`, an
invariant of the loop of `updateActiveOrders`: after n rounds at most one order of each
side has been paid.

### Loops

The loop of `updateActiveOrders` and the powers of ten are recursive functions, and what they
compute is an induction over the rounds. The induction theorems of the library take an
operator as a parameter, which no prover here can instantiate. `Loops` states induction for
a *set* of rounds instead (`LoopInduction`) and derives it from the well-founded order of the
natural numbers; `RoundsDefined` derives from it that a recursive function over the rounds
exists and satisfies its equation. `FakeProofs` and `AmountsProofs` use these two.

### What is only model-checked

Liveness: BuyWatchEnds, CreatingEnds, StoppedOrStuck, RequestsEnd, BatchesAreFlushed and
PromptReturns, since TLAPS 1.4.5 does not prove liveness under fairness or
reason about ENABLED. Every invariant and action property that a passing run checks is also
proved. The assumptions on the constants are their types, that the clients of the fake exchange and the
offers of a book are finite sets, that some numbers are not zero (prices, amounts, a batch, a
number of attempts), that "nobody" and "none" name nobody, and that books are not crossed;
TLC evaluates them in every run.

## What is not modelled

- **Observer and reporter.** `main` starts the observer alone, the reporter is commented
  out. The observer blocks for good at its first send on an unbuffered channel that
  nobody reads: there is nothing for a model to explore. It uses the fake exchange,
  whose price nobody updates.
- **Message queue and order queue.** Sequential lists that nothing in the program uses;
  the former's lock appears in `AgentsService`.
- **HTTP client and decoding.** `utils/httpf` is a timeout and an error to the models, and
  the responses of the exchange are what the code reads from them.
- **The rate limit of the adapter** is only logged (api.go:47).
- **Keys that are revoked, or a pair that is delisted, while a bot runs**: `served` does not
  change. **Cancels that are refused although the order is open** are refused for a while
  only. **The owner's trades in the currencies of the pair itself**: others lock assets, and
  the balances belong to the bots.
- **Test server, web page, configuration, signatures.** No state.

A process restart loses the registry and every order id and runs no recovery code; only
`signals.csv` survives it, and there it is modelled. Two state machines on one `Bot`, which
overlapping requests can cause, are not followed further: module `Bot` assumes one
machine per bot.

## Plan

Done: `Exchange`, `Bot`, `TradeCycle`, `FakeExchange`, `AgentsService`, `Console`, `Signals`,
`Amounts`, and the proofs of all of their safety properties. Next:

- `Service`: a composition of the registry with machines that behave as
  `TradeCycle`, so that "no order is left in the book of a deleted bot" can be asked.
- The link between the two halves of the adapter: that the fake exchange's open orders and
  those of `Exchange` promise the same to a bot that polls them.
