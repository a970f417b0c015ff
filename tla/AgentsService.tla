--------------------------- MODULE AgentsService ---------------------------
(***************************************************************************)
(* The registry of bots in service/agent_service.go and the HTTP handlers   *)
(* of service/server.go that change it.  net/http serves every request on a *)
(* goroutine of its own, so any number of handlers are between two of their *)
(* steps at once.  A step is what happens under one lock, or one access to  *)
(* an agent's fields made without one.                                      *)
(*                                                                         *)
(* A run is a context made by RunAgent together with the StartSM and        *)
(* Autotrade goroutines started for it; what those do is module Bot.        *)
(***************************************************************************)
EXTENDS Integers

CONSTANTS
  Handlers,     \* goroutines that serve requests
  Names,        \* bot ids a client may name
  MaxAgents,    \* bound: Agent values registered
  MaxRuns,      \* bound: contexts made by RunAgent
  MaxRequests   \* bound: requests served

ASSUME AgentsAssumption ==
  /\ MaxAgents \in Nat /\ MaxRuns \in Nat /\ MaxRequests \in Nat
  /\ "none" \notin Names

VARIABLES
  agents,     \* s.agents: the agent registered under a name, or 0
  made,       \* Agent values registered so far
  id,         \* Agent.ID, or "none" for an agent not made yet
  ctx,        \* Agent.ctx: the run whose context it is, or 0 for nil
  cancel,     \* Agent.cancel: the run it cancels, or 0 for nil
  readers,    \* how often Agent.mu is read locked
  contexts,   \* contexts made so far; they are the runs 1..contexts
  agentOf,    \* the agent a run was made for, whose bot it drives, or 0
  trading,    \* runs whose StartSM is in its loop
  cancelled,  \* runs whose context is cancelled
  leaked,     \* a machine has left the adapter's ExchangeMutex locked
  pc,         \* where a handler is
  name,       \* the id in its request
  agent,      \* the agent GetAgent gave it
  run,        \* the context it made
  requests,   \* requests served so far
  crashed,    \* the process has died
  overlapped  \* observation only: names two requests worked on at once

registryVars == <<agents, made, id>>
fieldVars == <<ctx, cancel, readers>>
runVars == <<contexts, agentOf, trading, cancelled, leaked>>
handlerVars == <<pc, name, agent, run, requests>>
vars == <<registryVars, fieldVars, runVars, handlerVars, crashed, overlapped>>

-----------------------------------------------------------------------------
AgentIds == 1..MaxAgents
Runs == 1..MaxRuns
Steps == {"idle", "create_put", "list", "run_check", "run_start", "run_lock",
          "run_cancel", "run_go", "del_ctx", "del_cancel", "del_map"}

TypeOK ==
  /\ agents \in [Names -> AgentIds \cup {0}]
  /\ made \in 0..MaxAgents
  /\ id \in [AgentIds -> Names \cup {"none"}]
  /\ ctx \in [AgentIds -> Runs \cup {0}]
  /\ cancel \in [AgentIds -> Runs \cup {0}]
  /\ readers \in [AgentIds -> Nat]
  /\ contexts \in 0..MaxRuns
  /\ agentOf \in [Runs -> AgentIds \cup {0}]
  /\ trading \subseteq Runs
  /\ cancelled \subseteq Runs
  /\ leaked \in BOOLEAN
  /\ pc \in [Handlers -> Steps]
  /\ name \in [Handlers -> Names \cup {"none"}]
  /\ agent \in [Handlers -> AgentIds \cup {0}]
  /\ run \in [Handlers -> Runs \cup {0}]
  /\ requests \in 0..MaxRequests
  /\ crashed \in BOOLEAN
  /\ overlapped \subseteq Names

Init ==
  /\ agents = [n \in Names |-> 0]
  /\ made = 0
  /\ id = [a \in AgentIds |-> "none"]
  /\ ctx = [a \in AgentIds |-> 0]
  /\ cancel = [a \in AgentIds |-> 0]
  /\ readers = [a \in AgentIds |-> 0]
  /\ contexts = 0
  /\ agentOf = [k \in Runs |-> 0]
  /\ trading = {}
  /\ cancelled = {}
  /\ leaked = FALSE
  /\ pc = [h \in Handlers |-> "idle"]
  /\ name = [h \in Handlers |-> "none"]
  /\ agent = [h \in Handlers |-> 0]
  /\ run = [h \in Handlers |-> 0]
  /\ requests = 0
  /\ crashed = FALSE
  /\ overlapped = {}

-----------------------------------------------------------------------------
At(h, step) == ~crashed /\ pc[h] = step

\* The handler goes on at step; one that answers is done with what it knew.
GoTo(h, step) ==
  /\ pc' = [pc EXCEPT ![h] = step]
  /\ name' = [name EXCEPT ![h] = IF step = "idle" THEN "none" ELSE @]
  /\ agent' = [agent EXCEPT ![h] = IF step = "idle" THEN 0 ELSE @]

\* A request about n is being worked on.
Working(h, n) == pc[h] \notin {"idle", "list"} /\ name[h] = n

\* An idle handler takes a request about n and does GetAgent(n), under the
\* service's mutex; the request goes on at step, or is refused and over.
Request(h, n, step) ==
  /\ At(h, "idle")
  /\ requests < MaxRequests
  /\ requests' = requests + 1
  /\ pc' = [pc EXCEPT ![h] = step]
  /\ name' = [name EXCEPT ![h] = IF step = "idle" THEN "none" ELSE n]
  /\ agent' = [agent EXCEPT ![h] = IF step = "idle" THEN 0 ELSE agents[n]]
  /\ overlapped' = overlapped \cup
       {m \in {n} : step # "idle" /\ \E g \in Handlers : Working(g, n)}
  /\ UNCHANGED <<registryVars, fieldVars, runVars, run, crashed>>

\* GetListInfo iterates over the map under the message queue's lock, not under
\* the one that guards the map.  The runtime may notice a write to a map that is
\* being iterated over, and then ends the process.
MapWritten == IF \E h \in Handlers : pc[h] = "list" THEN BOOLEAN ELSE {FALSE}

\* Agent.mu: a writer holds it until cancel is set; one that waits for it keeps
\* new readers out.
WriteLocked(a) == \E h \in Handlers : agent[h] = a /\ pc[h] = "run_cancel"
WriterWaits(a) == \E h \in Handlers : agent[h] = a /\ pc[h] = "run_lock"

-----------------------------------------------------------------------------
(* /create.                                                                *)

\* Create looks the name up and refuses one that is registered ...
CreateChecksBlindly(h, n) == Request(h, n, "create_put")

CreateChecks(h, n) ==
  Request(h, n, IF agents[n] = 0 THEN "create_put" ELSE "idle")

\* ... and then, under the mutex again, registers a new agent.
CreatePuts(h) ==
  /\ At(h, "create_put")
  /\ made < MaxAgents
  /\ made' = made + 1
  /\ agents' = [agents EXCEPT ![name[h]] = made + 1]
  /\ id' = [id EXCEPT ![made + 1] = name[h]]
  /\ crashed' \in MapWritten
  /\ GoTo(h, "idle")
  /\ UNCHANGED <<fieldVars, runVars, run, requests, overlapped>>

-----------------------------------------------------------------------------
(* /list.                                                                  *)

\* GetListInfo of a service without bots is empty.
ListBegins(h) ==
  /\ At(h, "idle")
  /\ requests < MaxRequests
  /\ requests' = requests + 1
  /\ GoTo(h, IF \E n \in Names : agents[n] # 0 THEN "list" ELSE "idle")
  /\ UNCHANGED <<registryVars, fieldVars, runVars, run, crashed,
                 overlapped>>

\* Otherwise it asks every bot's GetCache in turn, whether the bot runs or not: two
\* balances and a rate, which are calls to the exchange and need ExchangeMutex.
ListEnds(h) ==
  /\ At(h, "list")
  /\ ~leaked
  /\ GoTo(h, "idle")
  /\ UNCHANGED <<registryVars, fieldVars, runVars, run, requests,
                 crashed, overlapped>>

-----------------------------------------------------------------------------
(* /run.                                                                   *)

RunGets(h, n) == Request(h, n, IF agents[n] = 0 THEN "idle" ELSE "run_check")

\* A context has no deadline, so one that is set means "is running" ...
MayStartAlways(a) == TRUE
MayStart(a) == ctx[a] = 0

\* ... and on that return RUnlock is forgotten.
ReadersLeftForgotten(a) == 1
ReadersLeftUnlockedTwice(a) == IF MayStart(a) THEN -1 ELSE 0
ReadersLeft(a) == IF MayStart(a) THEN 0 ELSE 1

\* RLock, look at ctx, and RUnlock.
RunChecks(h) ==
  LET a == agent[h] IN
  /\ At(h, "run_check")
  /\ ~WriteLocked(a) /\ ~WriterWaits(a)
  /\ readers' = [readers EXCEPT ![a] = @ + ReadersLeft(a)]
  /\ GoTo(h, IF MayStart(a) THEN "run_start" ELSE "idle")
  /\ UNCHANGED <<registryVars, ctx, cancel, runVars, run, requests,
                 crashed, overlapped>>

\* A context is made, and Lock is called.
RunAsksForLock(h) ==
  /\ At(h, "run_start")
  /\ contexts < MaxRuns
  /\ contexts' = contexts + 1
  /\ run' = [run EXCEPT ![h] = contexts + 1]
  /\ agentOf' = [agentOf EXCEPT ![contexts + 1] = agent[h]]
  /\ GoTo(h, "run_lock")
  /\ UNCHANGED <<registryVars, fieldVars, trading, cancelled, leaked, requests, crashed, overlapped>>

\* Lock is granted and ag.ctx is set, then ag.cancel, and Unlock.
LockIgnored(a) == TRUE
LockFree(a) == readers[a] = 0 /\ ~WriteLocked(a)

RunSetsCtx(h) ==
  /\ At(h, "run_lock")
  /\ LockFree(agent[h])
  /\ ctx' = [ctx EXCEPT ![agent[h]] = run[h]]
  /\ GoTo(h, "run_cancel")
  /\ UNCHANGED <<registryVars, cancel, readers, runVars, run, requests, crashed, overlapped>>

RunSetsCancel(h) ==
  /\ At(h, "run_cancel")
  /\ cancel' = [cancel EXCEPT ![agent[h]] = run[h]]
  /\ GoTo(h, "run_go")
  /\ UNCHANGED <<registryVars, ctx, readers, runVars, run, requests,
                 crashed, overlapped>>

\* The goroutines of the run are started.
RunGoes(h) ==
  /\ At(h, "run_go")
  /\ trading' = trading \cup {run[h]}
  /\ run' = [run EXCEPT ![h] = 0]
  /\ GoTo(h, "idle")
  /\ UNCHANGED <<registryVars, fieldVars, contexts, agentOf, cancelled, leaked,
                 requests, crashed, overlapped>>

\* The context is done: the trade context is cancelled in turn, and StartSM
\* leaves its loop when it sees it (module Bot: Stop, Deleted).
MachineStops(k) ==
  /\ ~crashed
  /\ k \in trading \cap cancelled
  /\ trading' = trading \ {k}
  /\ UNCHANGED <<registryVars, fieldVars, contexts, agentOf, cancelled, leaked,
                 handlerVars, crashed, overlapped>>

\* GetInformation of a machine in Start fails: ExchangeMutex, one lock for all the
\* bots, is not given back (module Bot: InformationFails).
MachineLeaks ==
  /\ ~crashed
  /\ trading # {}
  /\ ~leaked
  /\ leaked' = TRUE
  /\ UNCHANGED <<registryVars, fieldVars, contexts, agentOf, trading, cancelled,
                 handlerVars, crashed, overlapped>>

-----------------------------------------------------------------------------
(* /delete.                                                                *)

DeleteGets(h, n) == Request(h, n, IF agents[n] = 0 THEN "idle" ELSE "del_ctx")

\* ag.ctx is read without Agent.mu ...
CancelsNever(a) == FALSE
Cancels(a) == ctx[a] # 0

DeleteReadsCtx(h) ==
  /\ At(h, "del_ctx")
  /\ GoTo(h, IF Cancels(agent[h]) THEN "del_cancel" ELSE "del_map")
  /\ UNCHANGED <<registryVars, fieldVars, runVars, run, requests,
                 crashed, overlapped>>

\* ... and so is ag.cancel.  A nil one panics; ServeHTTP recovers, and the
\* request ends there.
AfterCancelForgets == "idle"
AfterCancel == "del_map"

DeleteCancels(h) ==
  LET k == cancel[agent[h]] IN
  /\ At(h, "del_cancel")
  /\ cancelled' = IF k = 0 THEN cancelled ELSE cancelled \cup {k}
  /\ GoTo(h, IF k = 0 THEN "idle" ELSE AfterCancel)
  /\ UNCHANGED <<registryVars, fieldVars, contexts, agentOf, trading, leaked,
                 run, requests, crashed, overlapped>>

\* Delete takes whatever is registered under the name off the map.
DeleteRemoves(h) ==
  /\ At(h, "del_map")
  /\ agents' = [agents EXCEPT ![name[h]] = 0]
  /\ crashed' \in (IF agents[name[h]] = 0 THEN {FALSE} ELSE MapWritten)
  /\ GoTo(h, "idle")
  /\ UNCHANGED <<made, id, fieldVars, runVars, run, requests,
                 overlapped>>

-----------------------------------------------------------------------------
Handles(h) ==
  \/ CreatePuts(h) \/ ListEnds(h)
  \/ RunChecks(h) \/ RunAsksForLock(h) \/ RunSetsCtx(h) \/ RunSetsCancel(h)
  \/ RunGoes(h)
  \/ DeleteReadsCtx(h) \/ DeleteCancels(h) \/ DeleteRemoves(h)

Next ==
  \/ \E h \in Handlers :
       \/ Handles(h)
       \/ ListBegins(h)
       \/ \E n \in Names : CreateChecks(h, n) \/ RunGets(h, n) \/ DeleteGets(h, n)
  \/ \E k \in Runs : MachineStops(k)
  \/ MachineLeaks

Spec == Init /\ [][Next]_vars

\* A goroutine that is not blocked by a lock goes on; an exchange call that has the
\* lock ends, with an answer or after three seconds.
FairSpec ==
  /\ Spec
  /\ \A h \in Handlers : WF_vars(Handles(h))

-----------------------------------------------------------------------------
Registered(a) == \E n \in Names : agents[n] = a

\* Runs that trade and have not been told to stop.
Loose == trading \ cancelled

\* ag.cancel belongs to ag.ctx whenever nobody is writing them, also after two
\* requests to run the same bot: one lock covers both (agent_service.go:173-176).
CancelMatchesContext ==
  \A a \in AgentIds : ~WriteLocked(a) => cancel[a] = ctx[a]

\* An agent whose context is cancelled stays registered only as long as a
\* request is about to delete it: otherwise it would be listed, refuse to run as
\* "is running", and never trade again (agent_service.go:143-153, 162-167).
StoppedIsBeingDeleted ==
  \A n \in Names :
    (agents[n] # 0 /\ ctx[agents[n]] \in cancelled)
      => \E h \in Handlers : pc[h] = "del_map" /\ name[h] = n

\* "bot exist with id": a name that is taken stays with its agent until it is
\* deleted, unless two requests about it overlap, such as two that create it
\* (agent_service.go:83-91).
NamesAreNotReused ==
  [][\A n \in Names :
       agents[n] \in {0, agents'[n]} \/ agents'[n] = 0 \/ n \in overlapped]_vars

\* "is running": two state machines drive one bot, and share b.state without
\* knowing of each other, only if two requests about it overlapped
\* (agent_service.go:161-176, bot.go:119).
OneMachinePerBot ==
  \A j, k \in Loose :
    agentOf[j] = agentOf[k] => (j = k \/ id[agentOf[j]] \in overlapped)

\* "deleted bot": an agent that is not registered any more trades on, and cannot
\* be named to stop it, only if two requests about it overlapped, such as a
\* delete and a run (agent_service.go:139-152).
DeletedMachinesStop ==
  \A k \in Loose : Registered(agentOf[k]) \/ id[agentOf[k]] \in overlapped

\* Every request is answered, the ones about other names included, unless two
\* about its own name overlapped.  A request for the list names no bot: it is kept
\* waiting only by the adapter's lock (agent_service.go:42-176, api.go:352-358).
RequestsEnd ==
  \A h \in Handlers :
    (pc[h] # "idle") ~>
      \/ pc[h] = "idle" \/ crashed
      \/ IF pc[h] = "list" THEN leaked ELSE name[h] \in overlapped
=============================================================================
