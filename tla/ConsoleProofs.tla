--------------------------- MODULE ConsoleProofs ---------------------------
(***************************************************************************)
(* Theorems about module Console: it is the registry of AgentsService with  *)
(* a client that takes turns with it, and for such a client the registry's  *)
(* promises hold without exception.                                        *)
(***************************************************************************)
EXTENDS Console, AgentsProofs

-----------------------------------------------------------------------------
(* Types of the terminal's own variables.                                  *)

TerminalTypeOK ==
  /\ prompt \in BOOLEAN /\ line \in Commands \cup {""} /\ currentBot \in Names
  /\ handler \in Handlers /\ wire \in [Handlers -> Requests]
  /\ reached \in BOOLEAN /\ repeating \in BOOLEAN /\ abandoned \in BOOLEAN

LEMMA CommandTypes ==
  ASSUME TerminalTypeOK, NEW cmd \in Commands, Line(cmd)
  PROVE  line' \in Commands \cup {""} /\ reached' \in BOOLEAN /\ repeating' \in BOOLEAN
BY DEF Line, TerminalTypeOK

LEMMA SendTypes ==
  ASSUME TerminalTypeOK, NEW h \in Handlers, NEW cmd \in Commands, NEW n \in Names,
         Sends(h, cmd, n)
  PROVE  TerminalTypeOK'
<1>1. line' \in Commands \cup {""} /\ reached' \in BOOLEAN /\ repeating' \in BOOLEAN
  BY CommandTypes DEF Sends
<1>2. [command |-> cmd, id |-> n] \in Requests
  BY DEF Requests
<1>3. wire' \in [Handlers -> Requests]
  BY <1>2 DEF Sends, TerminalTypeOK
<1>4. abandoned' \in BOOLEAN
  BY Zenon DEF Sends, Line, TerminalTypeOK
<1> QED
  BY <1>1, <1>3, <1>4 DEF Sends, DoWaits, TerminalTypeOK

LEMMA TakenOff ==
  ASSUME TerminalTypeOK, NEW h \in Handlers, wire' = [wire EXCEPT ![h] = Nothing]
  PROVE  wire' \in [Handlers -> Requests]
<1>1. Nothing \in Requests
  BY ConsoleAssumption DEF Nothing, Requests
<1> QED
  BY <1>1 DEF TerminalTypeOK

\* Every step keeps the types of the terminal's own variables.
LEMMA TerminalTypeStep ==
  TerminalTypeOK /\ [ConsoleNext]_consoleVars => TerminalTypeOK'
<1> SUFFICES ASSUME TerminalTypeOK, [ConsoleNext]_consoleVars PROVE TerminalTypeOK'
  OBVIOUS
<1>1. ASSUME NEW h \in Handlers,
             \/ \E n \in Names : CreateBot(h, n)
             \/ GetAllBots(h) \/ RunBot(h) \/ StopBot(h) \/ DeleteBot(h)
      PROVE  TerminalTypeOK'
  <2>1. \E cmd \in Commands, n \in Names : Sends(h, cmd, n)
    BY <1>1, ConsoleAssumption
       DEF CreateBot, GetAllBots, RunBot, StopBot, DeleteBot, Commands, TerminalTypeOK
  <2> QED
    BY <2>1, SendTypes
<1>2. ASSUME NEW n \in Names, ChangeBot(n) PROVE TerminalTypeOK'
  <2>1. line' \in Commands \cup {""} /\ reached' \in BOOLEAN /\ repeating' \in BOOLEAN
    BY <1>2, CommandTypes DEF ChangeBot, Commands
  <2> QED
    BY <1>2, <2>1 DEF ChangeBot, Line, TerminalTypeOK
<1>3. CASE CreateBotFails
  <2>1. line' \in Commands \cup {""} /\ reached' \in BOOLEAN /\ repeating' \in BOOLEAN
    BY <1>3, CommandTypes DEF CreateBotFails, Commands
  <2> QED
    BY <1>3, <2>1 DEF CreateBotFails, Line, TerminalTypeOK
<1>4. ASSUME NEW h \in Handlers, Arrives(h) PROVE TerminalTypeOK'
  <2>1. wire' \in [Handlers -> Requests]
    BY <1>4, TakenOff DEF Arrives
  <2>2. reached' \in BOOLEAN
    BY <1>4, Zenon DEF Arrives, TerminalTypeOK
  <2> QED
    BY <1>4, <2>1, <2>2 DEF Arrives, TerminalTypeOK
<1>5. ASSUME NEW h \in Handlers, RequestLost(h) PROVE TerminalTypeOK'
  <2>1. wire' \in [Handlers -> Requests]
    BY <1>5, TakenOff DEF RequestLost
  <2>2. prompt' \in BOOLEAN
    BY <1>5, Zenon DEF RequestLost, TerminalTypeOK
  <2> QED
    BY <1>5, <2>1, <2>2 DEF RequestLost, observedVars, TerminalTypeOK
<1>6. CASE Answer \/ ConnectionBreaks
  BY <1>6 DEF Answer, ConnectionBreaks, observedVars, TerminalTypeOK
<1>7. CASE Reopen
  <2>1. abandoned' \in BOOLEAN
    BY <1>7, Zenon DEF Reopen, TerminalTypeOK
  <2> QED
    BY <1>7, <2>1, ConsoleAssumption DEF Reopen, TerminalTypeOK
<1>8. CASE Works \/ UNCHANGED consoleVars
  BY <1>8 DEF Works, consoleVars, terminalVars, observedVars, TerminalTypeOK
<1> QED
  BY <1>1, <1>2, <1>3, <1>4, <1>5, <1>6, <1>7, <1>8 DEF ConsoleNext

LEMMA TerminalTypes == ConsoleSpec => []TerminalTypeOK
<1>1. ConsoleInit => TerminalTypeOK
  <2> SUFFICES ASSUME ConsoleInit PROVE TerminalTypeOK
    OBVIOUS
  <2>1. Nothing \in Requests
    BY ConsoleAssumption DEF Nothing, Requests
  <2> QED
    BY <2>1, ConsoleAssumption DEF ConsoleInit, TerminalTypeOK
<1> QED
  BY <1>1, TerminalTypeStep, PTL DEF ConsoleSpec

-----------------------------------------------------------------------------
(* The console is a client of the registry.                                *)

\* A request that arrives is one of a client of the registry, or does nothing.
LEMMA ArrivesAsRequest ==
  ASSUME TerminalTypeOK, NEW h \in Handlers, Arrives(h)
  PROVE  /\ pc[h] = "idle"
         /\ \/ ListBegins(h)
            \/ UNCHANGED vars
            \/ \E n \in Names :
                 /\ CreateChecks(h, n) \/ RunGets(h, n) \/ DeleteGets(h, n)
                 /\ \E step \in Steps : Request(h, n, step)
<1>1. wire[h].id \in Names
  BY DEF TerminalTypeOK, Requests
<1> QED
  BY <1>1 DEF Arrives, Serves, CreateChecks, RunGets, DeleteGets, ListBegins, Request, At,
     Steps

LEMMA ConsoleStep == TerminalTypeOK /\ [ConsoleNext]_consoleVars => [Next]_vars
<1> SUFFICES ASSUME TerminalTypeOK, ConsoleNext PROVE [Next]_vars
  BY DEF consoleVars
<1>1. ASSUME NEW h \in Handlers, Arrives(h) PROVE [Next]_vars
  BY <1>1, ArrivesAsRequest DEF Next
<1>2. ASSUME NEW h \in Handlers,
             \/ \E n \in Names : CreateBot(h, n)
             \/ GetAllBots(h) \/ RunBot(h) \/ StopBot(h) \/ DeleteBot(h)
      PROVE  UNCHANGED vars
  BY <1>2 DEF CreateBot, GetAllBots, RunBot, StopBot, DeleteBot, Sends
<1>3. ASSUME NEW n \in Names, ChangeBot(n) PROVE UNCHANGED vars
  BY <1>3 DEF ChangeBot
<1>4. ASSUME NEW h \in Handlers, RequestLost(h) PROVE UNCHANGED vars
  BY <1>4 DEF RequestLost
<1>5. CASE CreateBotFails \/ Answer \/ ConnectionBreaks \/ Reopen
  BY <1>5 DEF CreateBotFails, Answer, ConnectionBreaks, Reopen
<1>6. CASE Works
  BY <1>6 DEF Works, Next
<1> QED
  BY <1>1, <1>2, <1>3, <1>4, <1>5, <1>6 DEF ConsoleNext

\* Every step of a terminal or of its connection is one of a client of the registry,
\* or none.
THEOREM ConsoleImplementsAgents == ConsoleSpec => Spec
<1>1. ConsoleInit => Init
  BY DEF ConsoleInit
<1> QED
  BY <1>1, ConsoleStep, TerminalTypes, PTL DEF ConsoleSpec, Spec

\* Every variable keeps its type, the registry's under a terminal's requests
\* included: a terminal never names a bot that no request could (main.go:26-77).
THEOREM ConsoleTypeCorrect == ConsoleSpec => []ConsoleTypeOK
<1>1. TypeOK /\ TerminalTypeOK => ConsoleTypeOK
  BY DEF ConsoleTypeOK, TerminalTypeOK
<1> QED
  BY <1>1, TerminalTypes, ConsoleImplementsAgents, AgentsTypeCorrect, PTL

-----------------------------------------------------------------------------
(* It takes turns with it.                                                 *)

\* While no terminal stopped waiting too early, only the request that is being
\* waited for is on its way or at work.
TakesTurns ==
  ~abandoned =>
    /\ overlapped = {} /\ ~crashed
    /\ \A h \in Handlers : InFlight(h) => h = handler /\ ~prompt
    /\ \A h \in Handlers : wire[h].command # "" => pc[h] = "idle"

\* An abandoned request is never forgotten again, and what abandons one says so.
LEMMA StillWaiting ==
  ASSUME TerminalTypeOK, [ConsoleNext]_consoleVars, ~abandoned'
  PROVE  ~abandoned /\ ~ConnectionBreaks /\ (Reopen => prompt \/ ~InFlight(handler))
<1>1. CASE Reopen
  BY <1>1, Zenon DEF Reopen, ConnectionBreaks
<1>2. CASE ConnectionBreaks
  BY <1>2, Zenon DEF ConnectionBreaks
<1>3. CASE ~Reopen /\ ~ConnectionBreaks
  <2>1. abandoned' = abandoned
    BY <1>3 DEF ConsoleNext, consoleVars, terminalVars, observedVars, CreateBot, GetAllBots,
       RunBot, StopBot, DeleteBot, CreateBotFails, ChangeBot, Arrives, RequestLost, Answer,
       Works, Line, Sends
  <2> QED
    BY <1>3, <2>1
<1> QED
  BY <1>1, <1>2, <1>3

LEMMA TakesTurnsStep ==
  TypeOK /\ TerminalTypeOK /\ TakesTurns /\ [ConsoleNext]_consoleVars => TakesTurns'
<1> DEFINE Turn == /\ overlapped' = {} /\ ~crashed'
                   /\ \A h \in Handlers : InFlight(h)' => h = handler' /\ ~prompt'
                   /\ \A h \in Handlers : wire'[h].command # "" => pc'[h] = "idle"
<1> SUFFICES ASSUME TypeOK, TerminalTypeOK, TakesTurns, [ConsoleNext]_consoleVars, ~abandoned'
             PROVE  Turn
  BY DEF TakesTurns
<1>a. ~abandoned /\ ~ConnectionBreaks /\ (Reopen => prompt \/ ~InFlight(handler))
  BY StillWaiting
<1>b. /\ overlapped = {} /\ ~crashed
      /\ \A h \in Handlers : InFlight(h) => h = handler /\ ~prompt
      /\ \A h \in Handlers : wire[h].command # "" => pc[h] = "idle"
  BY <1>a DEF TakesTurns
<1>c. ASSUME UNCHANGED vars
      PROVE  /\ overlapped' = {} /\ ~crashed'
             /\ \A h \in Handlers : pc'[h] = pc[h]
  BY <1>b, <1>c DEF vars, handlerVars
<1>1. CASE UNCHANGED consoleVars
  BY <1>1, <1>b, <1>c DEF consoleVars, terminalVars, InFlight
<1>2. ASSUME NEW h \in Handlers, NEW cmd, NEW n, Sends(h, cmd, n) PROVE Turn
  <2>1. \A g \in Handlers : ~InFlight(g)
    BY <1>2, <1>b DEF Sends, Line
  <2>2. \A g \in Handlers : g # h => wire'[g] = wire[g]
    BY <1>2 DEF Sends, TerminalTypeOK
  <2>3. handler' = h /\ ~prompt' /\ UNCHANGED vars
    BY <1>2 DEF Sends, DoWaits
  <2> QED
    BY <1>c, <2>1, <2>2, <2>3 DEF InFlight
<1>3. CASE CreateBotFails \/ \E n \in Names : ChangeBot(n)
  <2>1. prompt /\ UNCHANGED <<wire, vars>>
    BY <1>3 DEF CreateBotFails, ChangeBot, Line
  <2>2. \A g \in Handlers : ~InFlight(g)
    BY <2>1, <1>b
  <2> QED
    BY <1>c, <2>1, <2>2 DEF InFlight
<1>4. ASSUME NEW h \in Handlers, Arrives(h) PROVE Turn
  <2>1. h = handler /\ ~prompt /\ wire[h].command # ""
    BY <1>4, <1>b DEF Arrives, Serves, InFlight
  <2>2. /\ UNCHANGED <<prompt, handler>> /\ wire'[h].command = ""
        /\ \A g \in Handlers : g # h => wire'[g] = wire[g]
    BY <1>4 DEF Arrives, TerminalTypeOK, Nothing
  <2>3. overlapped' = {} /\ ~crashed' /\ \A g \in Handlers : g # h => pc'[g] = pc[g]
    <3>1. CASE ListBegins(h)
      BY <3>1, <1>b DEF ListBegins, GoTo, TypeOK
    <3>2. CASE UNCHANGED vars
      BY <3>2, <1>c
    <3>3. ASSUME NEW n \in Names, NEW step \in Steps, Request(h, n, step)
          PROVE  overlapped' = {} /\ ~crashed' /\ \A g \in Handlers : g # h => pc'[g] = pc[g]
      <4>1. \A g \in Handlers : ~Working(g, n)
        BY <3>3, <1>b, <2>1 DEF Request, At, Working, InFlight
      <4> QED
        BY <3>3, <4>1, <1>b DEF Request, TypeOK
    <3> QED
      BY <1>4, <3>1, <3>2, <3>3, ArrivesAsRequest
  <2> QED
    BY <1>b, <2>1, <2>2, <2>3 DEF InFlight
<1>5. ASSUME NEW h \in Handlers, RequestLost(h) PROVE Turn
  <2>1. h = handler /\ ~prompt
    BY <1>5, <1>b DEF RequestLost, InFlight
  <2>2. \A g \in Handlers : g # h => wire'[g] = wire[g]
    BY <1>5 DEF RequestLost, TerminalTypeOK
  <2>3. pc[h] = "idle" /\ wire'[h].command = ""
    BY <1>5, <1>b DEF RequestLost, TerminalTypeOK, Nothing
  <2> QED
    BY <1>5, <1>b, <1>c, <2>1, <2>2, <2>3 DEF RequestLost, InFlight
<1>6. CASE Answer
  BY <1>6, <1>b, <1>c DEF Answer, InFlight
<1>7. CASE Reopen
  <2>1. \A g \in Handlers : ~InFlight(g)
    BY <1>7, <1>a, <1>b
  <2> QED
    BY <1>7, <1>c, <2>1 DEF Reopen, InFlight
<1>8. ASSUME NEW h \in Handlers, Handles(h), UNCHANGED terminalVars PROVE Turn
  <2>1. pc[h] # "idle"
    BY <1>8 DEF Handles, CreatePuts, ListEnds, RunChecks, RunAsksForLock, RunSetsCtx,
       RunSetsCancel, RunGoes, DeleteReadsCtx, DeleteCancels, DeleteRemoves, At
  <2>2. h = handler /\ ~prompt
    BY <2>1, <1>b DEF InFlight
  <2>3. overlapped' = overlapped /\ \A g \in Handlers : g # h => pc'[g] = pc[g]
    BY <1>8 DEF Handles, CreatePuts, ListEnds, RunChecks, RunAsksForLock, RunSetsCtx,
       RunSetsCancel, RunGoes, DeleteReadsCtx, DeleteCancels, DeleteRemoves, GoTo, TypeOK
  <2>4. ~crashed'
    <3>1. pc[h] # "list" => MapWritten = {FALSE}
      BY <2>2, <1>b DEF MapWritten, InFlight
    <3>2. CASE CreatePuts(h) \/ DeleteRemoves(h)
      BY <3>1, <3>2 DEF CreatePuts, DeleteRemoves, At
    <3>3. CASE ~(CreatePuts(h) \/ DeleteRemoves(h))
      <4>1. crashed' = crashed
        BY <1>8, <3>3 DEF Handles, ListEnds, RunChecks, RunAsksForLock, RunSetsCtx,
           RunSetsCancel, RunGoes, DeleteReadsCtx, DeleteCancels
      <4> QED
        BY <1>b, <4>1
    <3> QED
      BY <3>2, <3>3
  <2>5. wire[h].command = "" /\ UNCHANGED <<prompt, handler, wire>>
    BY <1>8, <1>b, <2>1 DEF terminalVars
  <2> QED
    BY <1>b, <2>2, <2>3, <2>4, <2>5 DEF InFlight
<1>9. ASSUME (\E k \in Runs : MachineStops(k)) \/ MachineLeaks, UNCHANGED terminalVars
      PROVE  Turn
  <2>1. UNCHANGED <<overlapped, crashed, pc>>
    BY <1>9 DEF MachineStops, MachineLeaks, handlerVars
  <2>2. UNCHANGED <<prompt, handler, wire>>
    BY <1>9 DEF terminalVars
  <2> QED
    BY <1>b, <2>1, <2>2 DEF InFlight
<1> HIDE DEF Turn
<1>10. ASSUME NEW h \in Handlers,
              \/ \E n \in Names : CreateBot(h, n)
              \/ GetAllBots(h) \/ RunBot(h) \/ StopBot(h) \/ DeleteBot(h)
       PROVE  Turn
  BY <1>10, <1>2 DEF CreateBot, GetAllBots, RunBot, StopBot, DeleteBot
<1>11. CASE Works
  BY <1>11, <1>8, <1>9 DEF Works
<1> QED
  BY <1>a, <1>1, <1>3, <1>4, <1>5, <1>6, <1>7, <1>10, <1>11 DEF ConsoleNext

\* While no terminal stops waiting too early, the terminal and the server take turns
\* (main.go:41-77).
THEOREM TakesTurnsAlways == ConsoleSpec => []TakesTurns
<1>1. ConsoleInit => TakesTurns
  <2> SUFFICES ASSUME ConsoleInit PROVE TakesTurns
    OBVIOUS
  <2>1. \A h \in Handlers : wire[h].command = "" /\ pc[h] = "idle"
    BY DEF ConsoleInit, Init, Nothing
  <2> QED
    BY <2>1, Zenon DEF ConsoleInit, Init, TakesTurns, InFlight
<1>2. ConsoleSpec => []TypeOK
  BY ConsoleImplementsAgents, AgentsTypeCorrect
<1> QED
  BY <1>1, <1>2, TakesTurnsStep, TerminalTypes, PTL DEF ConsoleSpec

\* No two requests overlap, and the list is never read while it is written, unless
\* a terminal stopped waiting for a request that went on, because it was closed or
\* because its connection broke.
THEOREM OverlapNeedsAbandoningHolds == ConsoleSpec => []OverlapNeedsAbandoning
<1>1. TakesTurns => OverlapNeedsAbandoning
  BY DEF TakesTurns, OverlapNeedsAbandoning
<1> QED
  BY <1>1, TakesTurnsAlways, PTL

\* Every bot of terminals that waited has one state machine at most, and one that
\* was deleted has none, however many requests got lost on their way.
THEOREM ConsoleBotsAreWell ==
  ConsoleSpec => [](~abandoned =>
    /\ \A j, k \in Loose : agentOf[j] = agentOf[k] => j = k
    /\ \A k \in Loose : Registered(agentOf[k]))
<1>1. TakesTurns /\ OneMachinePerBot /\ DeletedMachinesStop =>
        (~abandoned =>
          /\ \A j, k \in Loose : agentOf[j] = agentOf[k] => j = k
          /\ \A k \in Loose : Registered(agentOf[k]))
  BY DEF TakesTurns, OneMachinePerBot, DeletedMachinesStop
<1>2. ConsoleSpec => []OneMachinePerBot /\ []DeletedMachinesStop
  BY ConsoleImplementsAgents, OneMachinePerBotHolds, DeletedMachinesStopHolds
<1> QED
  BY <1>1, <1>2, TakesTurnsAlways, PTL

-----------------------------------------------------------------------------
(* A command that is repeated finds its work done.                         *)

RunDone == agents[currentBot] = 0 \/ ctx[agents[currentBot]] # 0
DeleteDone == agents[currentBot] = 0

\* A run that arrived is in progress, or done.
RunKnows ==
  /\ pc[handler] \in {"idle", "run_check", "run_start", "run_lock", "run_cancel", "run_go"}
  /\ pc[handler] = "idle" => RunDone
  /\ pc[handler] # "idle" =>
       agent[handler] \in AgentIds /\ agents[currentBot] = agent[handler]
  /\ pc[handler] \in {"run_cancel", "run_go"} => ctx[agent[handler]] # 0
  /\ repeating => pc[handler] \in {"idle", "run_check"} /\ RunDone

\* A delete that arrived is in progress, or done.
DeleteKnows ==
  /\ pc[handler] \in {"idle", "del_ctx", "del_cancel", "del_map"}
  /\ pc[handler] = "idle" => DeleteDone
  /\ pc[handler] # "idle" => agent[handler] \in AgentIds /\ name[handler] = currentBot
  /\ pc[handler] = "del_cancel" => ctx[agent[handler]] # 0
  /\ repeating => pc[handler] = "idle"

\* What is on its way is the last command.
WireKnows ==
  wire[handler].command # "" =>
    /\ wire[handler].command = line /\ pc[handler] = "idle"
    /\ line \in {"run", "delete"} => wire[handler].id = currentBot

RepeatInv ==
  ~abandoned =>
    /\ WireKnows
    /\ repeating => reached
    /\ ~reached => pc[handler] = "idle"
    /\ reached /\ line = "run" => RunKnows
    /\ reached /\ line = "delete" => DeleteKnows

\* Only the handler that is being waited for takes a step of its own.
LEMMA HandlerAlone ==
  ASSUME TakesTurns, ~abandoned, NEW h \in Handlers, Handles(h)
  PROVE  pc[h] # "idle" /\ h = handler /\ ~prompt
BY DEF TakesTurns, InFlight, Handles, CreatePuts, ListEnds, RunChecks, RunAsksForLock,
       RunSetsCtx, RunSetsCancel, RunGoes, DeleteReadsCtx, DeleteCancels, DeleteRemoves, At

\* The steps of a run, and what its handler knows after each.
LEMMA RunKnowsStep ==
  ASSUME TypeOK, OwnInv, NEW h \in Handlers, h = handler, TerminalTypeOK, RunKnows, Handles(h),
         UNCHANGED terminalVars
  PROVE  RunKnows'
<1>0. currentBot \in Names
  BY DEF TerminalTypeOK
<1> USE <1>0 DEF TypeOK, At, GoTo, RunDone, terminalVars, observedVars
<1>1. CASE RunChecks(h)
  <2>1. /\ pc[h] = "run_check" /\ agent[h] \in AgentIds /\ agents[currentBot] = agent[h]
        /\ repeating => RunDone
    BY <1>1 DEF RunChecks, RunKnows
  <2>2. agent[h] # 0
    BY <2>1, AgentsAssumption DEF AgentIds
  <2>3. /\ agents' = agents /\ ctx' = ctx /\ (pc'[h] # "idle" => agent'[h] = agent[h])
        /\ currentBot' = currentBot /\ handler' = h /\ repeating' = repeating
        /\ pc'[h] = IF ctx[agent[h]] = 0 THEN "run_start" ELSE "idle"
    BY <1>1 DEF RunChecks, MayStart, registryVars
  <2> QED
    BY <2>1, <2>2, <2>3 DEF RunKnows
<1>2. CASE RunAsksForLock(h)
  BY <1>2 DEF RunAsksForLock, RunKnows, registryVars, fieldVars
<1>3. CASE RunSetsCtx(h)
  <2>1. run[h] # 0
    BY <1>3 DEF RunSetsCtx, OwnInv, RunsOwned, Holds
  <2> QED
    BY <1>3, <2>1 DEF RunSetsCtx, RunKnows, registryVars
<1>4. CASE RunSetsCancel(h)
  BY <1>4 DEF RunSetsCancel, RunKnows, registryVars
<1>5. CASE RunGoes(h)
  BY <1>5 DEF RunGoes, RunKnows, registryVars, fieldVars
<1> QED
  BY <1>1, <1>2, <1>3, <1>4, <1>5
     DEF RunKnows, Handles, CreatePuts, ListEnds, DeleteReadsCtx, DeleteCancels, DeleteRemoves

\* The steps of a delete: cancel is set when ctx is, since nobody is between the
\* two.
LEMMA DeleteKnowsStep ==
  ASSUME TypeOK, OwnInv, TakesTurns, ~abandoned, NEW h \in Handlers, h = handler,
         TerminalTypeOK, DeleteKnows, Handles(h), UNCHANGED terminalVars
  PROVE  DeleteKnows'
<1>0. currentBot \in Names
  BY DEF TerminalTypeOK
<1> USE <1>0 DEF TypeOK, At, GoTo, DeleteDone, terminalVars, observedVars
<1>1. CASE DeleteReadsCtx(h)
  BY <1>1 DEF DeleteReadsCtx, DeleteKnows, Cancels, registryVars, fieldVars
<1>2. CASE DeleteCancels(h)
  <2>1. pc[h] = "del_cancel" /\ agent[h] \in AgentIds /\ ctx[agent[h]] # 0
    BY <1>2 DEF DeleteCancels, DeleteKnows
  <2>2. ~WriteLocked(agent[h])
    BY <2>1 DEF TakesTurns, InFlight, WriteLocked
  <2>3. cancel[agent[h]] # 0
    BY <2>1, <2>2 DEF OwnInv, CancelMatchesContext
  <2> QED
    BY <1>2, <2>3 DEF DeleteCancels, DeleteKnows, AfterCancel, registryVars, fieldVars
<1>3. CASE DeleteRemoves(h)
  BY <1>3 DEF DeleteRemoves, DeleteKnows, fieldVars
<1> QED
  BY <1>1, <1>2, <1>3
     DEF DeleteKnows, Handles, CreatePuts, ListEnds, RunChecks, RunAsksForLock, RunSetsCtx,
         RunSetsCancel, RunGoes

LEMMA RepeatStep ==
  TypeOK /\ OwnInv /\ TerminalTypeOK /\ TakesTurns /\ RepeatInv /\ [ConsoleNext]_consoleVars
    => RepeatInv'
<1> SUFFICES ASSUME TypeOK, OwnInv, TerminalTypeOK, TakesTurns, RepeatInv,
                    [ConsoleNext]_consoleVars, ~abandoned'
             PROVE  RepeatInv'
  BY DEF RepeatInv
<1>a. ~abandoned /\ ~ConnectionBreaks /\ (Reopen => prompt \/ ~InFlight(handler))
  BY StillWaiting
<1>b. \A h \in Handlers : InFlight(h) => h = handler /\ ~prompt
  BY <1>a DEF TakesTurns
<1>c. /\ WireKnows /\ (repeating => reached) /\ (~reached => pc[handler] = "idle")
      /\ (reached /\ line = "run" => RunKnows) /\ (reached /\ line = "delete" => DeleteKnows)
  BY <1>a DEF RepeatInv
<1>d. handler \in Handlers
  BY DEF TerminalTypeOK
\* A command that is typed finds the terminal's last handler idle.
<1>e. ASSUME NEW cmd, Line(cmd), UNCHANGED <<currentBot, vars>>, pc[handler'] = "idle", WireKnows'
      PROVE  RepeatInv'
  <2>1. prompt /\ line' = cmd /\ reached' = (line = cmd /\ reached)
        /\ repeating' = (line = cmd /\ reached)
    BY <1>e DEF Line
  <2>2. UNCHANGED <<agents, ctx, pc>>
    BY <1>e DEF vars, registryVars, fieldVars, handlerVars
  <2>3. pc[handler] = "idle"
    BY <1>b, <1>d, <2>1 DEF InFlight
  <2>4. reached' => reached /\ line' = line
    BY <2>1
  <2>5. reached' /\ line' = "run" => RunKnows'
    BY <1>c, <1>e, <2>2, <2>3, <2>4 DEF RunKnows, RunDone
  <2>6. reached' /\ line' = "delete" => DeleteKnows'
    BY <1>c, <1>e, <2>2, <2>3, <2>4 DEF DeleteKnows, DeleteDone
  <2>7. (repeating' => reached') /\ pc'[handler'] = "idle"
    BY <1>e, <2>1, <2>2
  <2> QED
    BY <1>e, <2>5, <2>6, <2>7 DEF RepeatInv
<1>1. ASSUME NEW h \in Handlers, NEW cmd, NEW n, Sends(h, cmd, n),
             cmd \in {"run", "delete"} => n = currentBot
      PROVE  RepeatInv'
  <2>1. /\ handler' = h /\ wire'[h] = [command |-> cmd, id |-> n]
        /\ line' = cmd /\ currentBot' = currentBot /\ pc' = pc /\ pc[h] = "idle"
    BY <1>1 DEF Sends, Line, InFlight, TerminalTypeOK, vars, handlerVars
  <2>2. WireKnows'
    <3>1. wire'[handler'].command = cmd /\ wire'[handler'].id = n
      BY <2>1
    <3> QED
      BY <1>1, <2>1, <3>1 DEF WireKnows
  <2>3. Line(cmd) /\ UNCHANGED <<currentBot, vars>>
    BY <1>1 DEF Sends
  <2> QED
    BY <1>e, <2>1, <2>2, <2>3
<1>2. CASE CreateBotFails
  <2>1. prompt /\ UNCHANGED <<handler, wire>>
    BY <1>2 DEF CreateBotFails, Line
  <2>2. ~InFlight(handler)
    BY <2>1, <1>b, <1>d
  <2>3. WireKnows'
    BY <2>1, <2>2 DEF WireKnows, InFlight
  <2>4. Line("create") /\ UNCHANGED <<currentBot, vars>>
    BY <1>2 DEF CreateBotFails
  <2> QED
    BY <1>e, <2>1, <2>2, <2>3, <2>4 DEF InFlight
<1>3. ASSUME NEW n \in Names, ChangeBot(n) PROVE RepeatInv'
  <2>1. prompt /\ line' = "chbot" /\ UNCHANGED <<handler, wire, vars>>
        /\ (repeating' => reached')
    BY <1>3 DEF ChangeBot, Line
  <2>2. ~InFlight(handler)
    BY <2>1, <1>b, <1>d
  <2> QED
    BY <2>1, <2>2 DEF RepeatInv, WireKnows, InFlight, vars, handlerVars
<1>4. ASSUME NEW h \in Handlers, Arrives(h) PROVE RepeatInv'
  <2>1. h = handler /\ wire[h].command # "" /\ ~prompt
    BY <1>4, <1>b DEF Arrives, Serves, InFlight
  <2>2. /\ wire[h].command = line /\ pc[h] = "idle"
        /\ line \in {"run", "delete"} => wire[h].id = currentBot
    BY <1>c, <2>1 DEF WireKnows
  <2>3. /\ UNCHANGED <<line, currentBot, handler, repeating>> /\ reached'
        /\ wire'[h].command = ""
    BY <1>4, <2>1 DEF Arrives, TerminalTypeOK, Nothing
  <2>4. WireKnows'
    BY <2>1, <2>3 DEF WireKnows
  <2>5. agents[currentBot] \in AgentIds \cup {0}
    BY DEF TypeOK, TerminalTypeOK
  <2>6. ASSUME line = "run" PROVE RunKnows'
    <3>1. RunGets(h, currentBot)
      <4>1. RunGets(h, wire[h].id)
        BY <1>4, <2>2, <2>6 DEF Arrives, Serves
      <4> QED
        BY <2>2, <2>6, <4>1, Zenon
    <3>2. /\ UNCHANGED <<agents, ctx>>
          /\ pc'[h] = IF agents[currentBot] = 0 THEN "idle" ELSE "run_check"
          /\ agents[currentBot] # 0 => agent'[h] = agents[currentBot]
      BY <3>1 DEF RunGets, Request, TypeOK, registryVars, fieldVars
    <3>3. repeating => RunDone
      BY <1>c, <2>6 DEF RunKnows
    <3> QED
      BY <2>1, <2>3, <2>5, <3>2, <3>3 DEF RunKnows, RunDone
  <2>7. ASSUME line = "delete" PROVE DeleteKnows'
    <3>1. DeleteGets(h, currentBot)
      <4>1. DeleteGets(h, wire[h].id)
        BY <1>4, <2>2, <2>7 DEF Arrives, Serves
      <4> QED
        BY <2>2, <2>7, <4>1, Zenon
    <3>2. /\ UNCHANGED agents
          /\ pc'[h] = IF agents[currentBot] = 0 THEN "idle" ELSE "del_ctx"
          /\ agents[currentBot] # 0 => agent'[h] = agents[currentBot] /\ name'[h] = currentBot
      BY <3>1 DEF DeleteGets, Request, TypeOK, registryVars
    <3>3. repeating => DeleteDone
      BY <1>c, <2>1, <2>2, <2>7 DEF DeleteKnows
    <3> QED
      BY <2>1, <2>3, <2>5, <3>2, <3>3 DEF DeleteKnows, DeleteDone
  <2> QED
    BY <2>3, <2>4, <2>6, <2>7 DEF RepeatInv
<1>5. ASSUME UNCHANGED <<line, currentBot, handler, reached, repeating, vars>>,
             wire'[handler] \in {wire[handler], Nothing}
      PROVE  RepeatInv'
  <2>1. UNCHANGED <<agents, ctx, pc, agent, name>>
    BY <1>5 DEF vars, registryVars, fieldVars, handlerVars
  <2>2. WireKnows'
    <3>1. CASE wire'[handler] = wire[handler]
      BY <1>c, <1>5, <2>1, <3>1 DEF WireKnows
    <3>2. CASE wire'[handler] = Nothing
      <4>1. handler' = handler /\ Nothing.command = ""
        BY <1>5 DEF Nothing
      <4>2. wire'[handler'].command = ""
        BY <3>2, <4>1, Zenon
      <4> QED
        BY <4>2 DEF WireKnows
    <3> QED
      BY <1>5, <3>1, <3>2
  <2>3. (RunKnows => RunKnows') /\ (DeleteKnows => DeleteKnows')
    BY <1>5, <2>1 DEF RunKnows, DeleteKnows, RunDone, DeleteDone
  <2> QED
    BY <1>c, <1>5, <2>1, <2>2, <2>3 DEF RepeatInv
<1>6. ASSUME NEW h \in Handlers, RequestLost(h) PROVE RepeatInv'
  BY <1>5, <1>6 DEF RequestLost, observedVars, TerminalTypeOK
<1>7. CASE Answer \/ UNCHANGED consoleVars
  BY <1>5, <1>7 DEF Answer, consoleVars, terminalVars, observedVars
<1>8. CASE Reopen
  <2>1. ~InFlight(handler)
    BY <1>8, <1>a, <1>b, <1>d
  <2> QED
    BY <1>8, <2>1 DEF Reopen, RepeatInv, WireKnows, InFlight, vars, handlerVars
<1>9. ASSUME NEW h \in Handlers, Handles(h), UNCHANGED terminalVars PROVE RepeatInv'
  <2>1. h = handler /\ pc[h] # "idle"
    BY <1>9, <1>a, HandlerAlone
  <2>2. UNCHANGED <<line, currentBot, handler, wire, reached, repeating>>
    BY <1>9 DEF terminalVars, observedVars
  <2>3. reached /\ wire[handler].command = ""
    BY <1>c, <2>1 DEF WireKnows
  <2>4. line = "run" => RunKnows'
    BY <1>9, <1>c, <2>1, <2>3, RunKnowsStep
  <2>5. line = "delete" => DeleteKnows'
    BY <1>9, <1>a, <1>c, <2>1, <2>3, DeleteKnowsStep
  <2> QED
    BY <2>2, <2>3, <2>4, <2>5 DEF RepeatInv, WireKnows
<1>10. ASSUME (\E k \in Runs : MachineStops(k)) \/ MachineLeaks, UNCHANGED terminalVars
       PROVE  RepeatInv'
  <2>1. UNCHANGED <<agents, ctx, pc, agent, name>>
    BY <1>10 DEF MachineStops, MachineLeaks, registryVars, fieldVars, handlerVars
  <2>2. UNCHANGED <<line, currentBot, handler, wire, reached, repeating>>
    BY <1>10 DEF terminalVars, observedVars
  <2>3. (RunKnows => RunKnows') /\ (DeleteKnows => DeleteKnows') /\ (WireKnows => WireKnows')
    BY <2>1, <2>2 DEF RunKnows, DeleteKnows, RunDone, DeleteDone, WireKnows
  <2> QED
    BY <1>c, <2>1, <2>2, <2>3 DEF RepeatInv
<1>11. ASSUME NEW h \in Handlers,
              \/ \E n \in Names : CreateBot(h, n)
              \/ GetAllBots(h) \/ RunBot(h) \/ StopBot(h) \/ DeleteBot(h)
       PROVE  RepeatInv'
  BY <1>1, <1>11 DEF CreateBot, GetAllBots, RunBot, StopBot, DeleteBot
<1>12. CASE Works
  BY <1>9, <1>10, <1>12 DEF Works
<1> QED
  BY <1>a, <1>2, <1>3, <1>4, <1>6, <1>7, <1>8, <1>11, <1>12 DEF ConsoleNext

\* A run or a delete that has arrived and is repeated never runs, cancels, registers
\* or removes anything: it is refused, or finds nothing.
THEOREM RepeatsChangeNothingHolds == ConsoleSpec => RepeatsChangeNothing
<1>1. ConsoleInit => RepeatInv
  <2> SUFFICES ASSUME ConsoleInit PROVE RepeatInv
    OBVIOUS
  <2>1. wire[handler].command = "" /\ pc[handler] = "idle"
    BY DEF ConsoleInit, Init, Nothing
  <2> QED
    BY <2>1, Zenon DEF ConsoleInit, RepeatInv, WireKnows
<1>2. ConsoleSpec => []OwnInv
  <2>1. AgentsInv => OwnInv
    BY DEF AgentsInv
  <2> QED
    BY <2>1, ConsoleImplementsAgents, AgentsInvariant, PTL
<1>3. OwnInv => TypeOK
  BY DEF OwnInv
<1>4. TypeOK /\ TerminalTypeOK /\ TakesTurns /\ RepeatInv /\ [ConsoleNext]_consoleVars =>
        [repeating /\ line \in {"run", "delete"} /\ ~abandoned
           => UNCHANGED Effects]_consoleVars
  <2> SUFFICES ASSUME TypeOK, TerminalTypeOK, TakesTurns, RepeatInv, ConsoleNext, repeating,
                      line \in {"run", "delete"}, ~abandoned
               PROVE  UNCHANGED Effects
    OBVIOUS
  <2>1. ASSUME NEW h \in Handlers, Handles(h) PROVE UNCHANGED Effects
    <3>1. pc[h] # "idle" /\ h = handler /\ ~prompt
      BY <2>1, HandlerAlone
    <3>2. line = "run" /\ pc[h] = "run_check" /\ ~MayStart(agent[h])
      <4>1. RunKnows /\ line = "run" /\ pc[h] = "run_check" /\ RunDone
        BY <3>1 DEF RepeatInv, RunKnows, DeleteKnows
      <4>2. agent[h] \in AgentIds /\ agents[currentBot] = agent[h]
        BY <3>1, <4>1 DEF RunKnows
      <4>3. agent[h] # 0
        BY <4>2, AgentsAssumption DEF AgentIds
      <4> QED
        BY <4>1, <4>2, <4>3 DEF RunDone, MayStart
    <3>3. RunChecks(h)
      BY <2>1, <3>2 DEF Handles, CreatePuts, ListEnds, RunAsksForLock, RunSetsCtx,
         RunSetsCancel, RunGoes, DeleteReadsCtx, DeleteCancels, DeleteRemoves, At
    <3> QED
      BY <3>3 DEF RunChecks, Effects, registryVars, runVars
  <2>2. CASE (\E k \in Runs : MachineStops(k)) \/ MachineLeaks
    BY <2>2 DEF MachineStops, MachineLeaks, Effects, registryVars, fieldVars
  <2>3. ASSUME NEW h \in Handlers, Arrives(h) PROVE UNCHANGED Effects
    <3>1. ListBegins(h) \/ (UNCHANGED vars) \/ \E n \in Names, step \in Steps : Request(h, n, step)
      BY <2>3, ArrivesAsRequest
    <3> QED
      BY <3>1 DEF ListBegins, Request, Effects, vars, registryVars, fieldVars, runVars
  <2>4. CASE UNCHANGED vars
    BY <2>4 DEF Effects, vars, registryVars, fieldVars, runVars
  <2>5. ASSUME ~Works, \A h \in Handlers : ~Arrives(h) PROVE UNCHANGED vars
    BY <2>5 DEF ConsoleNext, CreateBot, GetAllBots, RunBot, StopBot, DeleteBot, Sends,
       RequestLost, ChangeBot, CreateBotFails, Answer, ConnectionBreaks, Reopen
  <2> QED
    BY <2>1, <2>2, <2>3, <2>4, <2>5 DEF Works
<1> QED
  BY <1>1, <1>2, <1>3, <1>4, RepeatStep, TakesTurnsAlways, TerminalTypes, PTL
     DEF ConsoleSpec, RepeatsChangeNothing
=============================================================================
