------------------------------ MODULE Console ------------------------------
(***************************************************************************)
(* The terminal of client/term and the server it talks to (AgentsService).  *)
(* Somebody types commands, one at a time: each is a request, and the       *)
(* terminal waits for its answer, for as long as that takes, or for an      *)
(* error of the connection.  A request may be lost before it arrives, and   *)
(* an answer, or the hope of one, afterwards.  The terminal may be closed    *)
(* at any time and another one be opened.  What is on its way, or being      *)
(* handled, goes on when nobody waits for it any more.                      *)
(***************************************************************************)
EXTENDS AgentsService

CONSTANTS
  Unknown,   \* the name a terminal starts with: "unknown"
  MaxLate    \* bound: requests served before the last that follows an abandoned one

ASSUME ConsoleAssumption == Unknown \in Names /\ MaxLate \in Nat

VARIABLES
  prompt,       \* the terminal waits for a command, and not for an answer
  line,         \* the last command, "" before the first
  currentBot,   \* the bot that run, stop and delete name
  handler,      \* the handler that the last request is for
  wire,         \* the request on its way to a handler
  \* observation only
  reached,      \* line has been sent, and has arrived, at least once
  repeating,    \* line had arrived before it was typed, or repeated, again
  abandoned     \* a terminal has stopped waiting for a request that went on

observedVars == <<reached, repeating, abandoned>>
terminalVars == <<prompt, line, currentBot, handler, wire, observedVars>>
consoleVars == <<vars, terminalVars>>

Commands == {"create", "list", "chbot", "run", "stop", "delete"}

\* A request is its path and the id in its body.
Requests == [command : Commands \cup {""}, id : Names]
Nothing == [command |-> "", id |-> Unknown]

ConsoleTypeOK ==
  /\ TypeOK
  /\ prompt \in BOOLEAN
  /\ line \in Commands \cup {""}
  /\ currentBot \in Names
  /\ handler \in Handlers
  /\ wire \in [Handlers -> Requests]
  /\ reached \in BOOLEAN /\ repeating \in BOOLEAN /\ abandoned \in BOOLEAN

ConsoleInit ==
  /\ Init
  /\ prompt = TRUE
  /\ line = "" /\ currentBot = Unknown
  /\ handler \in Handlers
  /\ wire = [h \in Handlers |-> Nothing]
  /\ reached = FALSE /\ repeating = FALSE /\ abandoned = FALSE

-----------------------------------------------------------------------------
(* Commands.                                                               *)

\* A request for h is on its way, or being handled.
InFlight(h) == wire[h].command # "" \/ pc[h] # "idle"

\* An empty line is an error of Scanf that is logged and leaves line as it was,
\* so that the last command is executed again.
Line(cmd) ==
  /\ prompt
  /\ line' = cmd
  /\ repeating' = (line = cmd /\ reached)
  /\ reached' = (line = cmd /\ reached)
  /\ UNCHANGED abandoned

\* http.Client.Do does not return before the answer, or an error, is there.
DoWaitsNot == FALSE
DoWaits == TRUE

\* The server has a goroutine for every connection; h has nothing else to do.
Sends(h, cmd, n) ==
  /\ Line(cmd)
  /\ ~InFlight(h)
  /\ abandoned => requests < MaxLate
  /\ handler' = h
  /\ wire' = [wire EXCEPT ![h] = [command |-> cmd, id |-> n]]
  /\ prompt' = ~DoWaits
  /\ UNCHANGED <<currentBot, vars>>

\* An id, a pair, an interval and the keys are asked for first ...
CreateBot(h, n) == Sends(h, "create", n)

\* ... and after an empty answer to one of them nothing is sent.
CreateBotFails == Line("create") /\ UNCHANGED <<prompt, currentBot, handler, wire, vars>>

GetAllBots(h) == Sends(h, "list", Unknown)
RunBot(h) == Sends(h, "run", currentBot)
StopBot(h) == Sends(h, "stop", currentBot)
DeleteBot(h) == Sends(h, "delete", currentBot)

ChangeBot(n) ==
  /\ Line("chbot")
  /\ currentBot' = n
  /\ UNCHANGED <<prompt, handler, wire, vars>>

-----------------------------------------------------------------------------
(* The connection.                                                         *)

\* The handler's first step; the server has nothing to do for /stop.
Serves(h, request) ==
  \/ request.command = "create" /\ CreateChecks(h, request.id)
  \/ request.command = "list" /\ ListBegins(h)
  \/ request.command = "run" /\ RunGets(h, request.id)
  \/ request.command = "stop" /\ At(h, "idle") /\ UNCHANGED vars
  \/ request.command = "delete" /\ DeleteGets(h, request.id)

Arrives(h) ==
  /\ Serves(h, wire[h])
  /\ wire' = [wire EXCEPT ![h] = Nothing]
  /\ reached' = (reached \/ h = handler)
  /\ UNCHANGED <<prompt, line, currentBot, handler, repeating, abandoned>>

\* The server cannot be reached, or the connection breaks before the whole request
\* has arrived: Do returns that error.
RequestLost(h) ==
  /\ wire[h].command # ""
  /\ wire' = [wire EXCEPT ![h] = Nothing]
  /\ prompt' = (prompt \/ h = handler)
  /\ UNCHANGED <<line, currentBot, handler, observedVars, vars>>

\* Do returns with the answer, or with an error since the answer got lost or the
\* server is dead.
Answer ==
  /\ ~prompt
  /\ ~InFlight(handler) \/ crashed
  /\ prompt' = TRUE
  /\ UNCHANGED <<line, currentBot, handler, wire, observedVars, vars>>

\* The connection breaks earlier than that: Do returns an error, and what was sent
\* goes on.
ConnectionBreaks ==
  /\ ~prompt
  /\ InFlight(handler)
  /\ prompt' = TRUE
  /\ abandoned' = TRUE
  /\ UNCHANGED <<line, currentBot, handler, wire, reached, repeating, vars>>

\* The terminal ends, at its prompt or while it waits, and another one begins.
Reopen ==
  /\ abandoned' = (abandoned \/ (~prompt /\ InFlight(handler)))
  /\ prompt' = TRUE
  /\ line' = "" /\ currentBot' = Unknown
  /\ reached' = FALSE /\ repeating' = FALSE
  /\ UNCHANGED <<handler, wire, vars>>

-----------------------------------------------------------------------------
Works ==
  /\ \/ \E h \in Handlers : Handles(h)
     \/ \E k \in Runs : MachineStops(k)
     \/ MachineLeaks
  /\ UNCHANGED terminalVars

ConsoleNext ==
  \/ \E h \in Handlers :
       \/ \E n \in Names : CreateBot(h, n)
       \/ GetAllBots(h) \/ RunBot(h) \/ StopBot(h) \/ DeleteBot(h)
       \/ Arrives(h) \/ RequestLost(h)
  \/ \E n \in Names : ChangeBot(n)
  \/ CreateBotFails \/ Answer \/ ConnectionBreaks \/ Reopen
  \/ Works

\* What is on its way arrives, or is given up by the transport, and the goroutine
\* that has it goes on.
GoesOn(h) ==
  \/ Handles(h) /\ UNCHANGED terminalVars
  \/ Arrives(h) \/ RequestLost(h)

\* A terminal whose answer is there goes on as well.
ConsoleSpec ==
  /\ ConsoleInit /\ [][ConsoleNext]_consoleVars
  /\ \A h \in Handlers : WF_consoleVars(GoesOn(h))
  /\ WF_consoleVars(Answer)

-----------------------------------------------------------------------------
\* What a terminal does at its prompt is done alone: no two requests overlap, and
\* the map of bots is not written while it is listed, unless a terminal stopped
\* waiting for one that went on: it was closed, or its connection broke
\* (handlers.go:24-191; agent_service.go:118).
OverlapNeedsAbandoning == (overlapped # {} \/ crashed) => abandoned

\* The server's state that a request may change for good.
Effects == <<agents, ctx, cancel, cancelled, contexts>>

\* An empty line after a run or a delete that arrived changes nothing any more, as
\* long as no terminal stopped waiting for a request that went on.  One that got
\* lost is really executed by the empty line, and by that one only (main.go:41-77,
\* handlers.go:130-134, 182-186, agent_service.go:143-168).
RepeatsChangeNothing ==
  [][repeating /\ line \in {"run", "delete"} /\ ~abandoned
       => UNCHANGED Effects]_consoleVars

\* The prompt comes back, lost requests and answers included, although a run that
\* is refused keeps its lock: nobody needs that lock any more.  Only a list may be
\* waited for in vain, behind the adapter's lock, since the client has no timeout
\* (main.go:41-77, handlers.go:30, agent_service.go:117-127, 161-176).
PromptReturns == ~prompt ~> (prompt \/ abandoned \/ (line = "list" /\ leaked))
=============================================================================
