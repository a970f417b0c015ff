---------------------------- MODULE AgentsProofs ----------------------------
(***************************************************************************)
(* Theorems about module AgentsService, for any handlers and names and any  *)
(* bounds: what the locks of the registry still guarantee when requests     *)
(* overlap, and that its promises hold for the names no two requests worked *)
(* on at once.                                                             *)
(***************************************************************************)
EXTENDS AgentsService, TLAPS

-----------------------------------------------------------------------------
(* The first layer: which agent a context belongs to, and who may set it.   *)

\* The handler has made a context and not started its goroutines yet.
Holds(h) == pc[h] \in {"run_lock", "run_cancel", "run_go"}

FieldsOwned ==
  \A a \in AgentIds :
    /\ ctx[a] # 0 => ctx[a] \in 1..contexts /\ agentOf[ctx[a]] = a /\ a \in 1..made
    /\ cancel[a] # 0 => cancel[a] \in 1..contexts /\ agentOf[cancel[a]] = a

RunsOwned ==
  \A h \in Handlers : Holds(h) =>
    run[h] \in 1..contexts /\ agentOf[run[h]] = agent[h] /\ run[h] \notin trading

RunsDiffer ==
  \A g, h \in Handlers : Holds(g) /\ Holds(h) /\ run[g] = run[h] => g = h

\* Nobody can have cancelled a context whose cancel function is not set.
NotYetSet ==
  \A h \in Handlers :
    /\ pc[h] = "run_lock" => ctx[agent[h]] # run[h]
    /\ pc[h] = "run_cancel" => ctx[agent[h]] = run[h]
    /\ pc[h] \in {"run_lock", "run_cancel"} =>
         cancel[agent[h]] # run[h] /\ run[h] \notin cancelled

LockExclusive ==
  \A g, h \in Handlers :
    pc[g] = "run_cancel" /\ pc[h] = "run_cancel" /\ agent[g] = agent[h] => g = h

RunsMade ==
  /\ trading \subseteq 1..contexts /\ cancelled \subseteq 1..contexts
  /\ \A k \in 1..contexts : agentOf[k] \in 1..made

\* What a name and a request refer to.
NamesOwned ==
  /\ \A a \in 1..made : id[a] \in Names
  /\ \A n \in Names : agents[n] # 0 => agents[n] \in 1..made /\ id[agents[n]] = n
  /\ \A h \in Handlers : pc[h] \notin {"idle", "list"} => name[h] \in Names
  /\ \A h \in Handlers : pc[h] \notin {"idle", "list", "create_put"} =>
       agent[h] \in 1..made /\ id[agent[h]] = name[h]

OwnInv ==
  /\ TypeOK
  /\ FieldsOwned /\ RunsOwned /\ RunsDiffer /\ NotYetSet /\ LockExclusive
  /\ RunsMade /\ NamesOwned
  /\ CancelMatchesContext

-----------------------------------------------------------------------------
(* The second layer: names no two requests worked on at once.              *)

OneWorker(n) ==
  \A g, h \in Handlers : Working(g, n) /\ Working(h, n) => g = h

\* What the only request about n knows at each of its steps.
Knows(h, n) ==
  /\ pc[h] = "create_put" => agents[n] = 0
  /\ pc[h] \notin {"create_put", "del_map"} => agents[n] = agent[h]
  /\ pc[h] \in {"run_start", "run_lock"} => ctx[agent[h]] = 0
  /\ pc[h] = "run_go" => ctx[agent[h]] = run[h]
  /\ pc[h] = "del_cancel" => ctx[agent[h]] # 0
  /\ pc[h] = "del_map" => \A k \in Loose : id[agentOf[k]] # n

WorkerKnows(n) == \A h \in Handlers : Working(h, n) => Knows(h, n)

\* A run of n that trades is the one its registered agent would cancel.
LooseIsCurrent(n) ==
  \A k \in Loose : id[agentOf[k]] = n => ctx[agentOf[k]] = k /\ agents[n] = agentOf[k]

Alone(n) == OneWorker(n) /\ WorkerKnows(n) /\ LooseIsCurrent(n)

AloneInv == \A n \in Names \ overlapped : Alone(n)

-----------------------------------------------------------------------------
(* Types.                                                                  *)

LEMMA TypeInit == Init => TypeOK
<1> SUFFICES ASSUME Init PROVE TypeOK
  OBVIOUS
<1> USE AgentsAssumption DEF Init
<1>1. agents \in [Names -> AgentIds \cup {0}] /\ id \in [AgentIds -> Names \cup {"none"}]
  OBVIOUS
<1>2. /\ ctx \in [AgentIds -> Runs \cup {0}] /\ cancel \in [AgentIds -> Runs \cup {0}]
      /\ readers \in [AgentIds -> Nat] /\ agentOf \in [Runs -> AgentIds \cup {0}]
  OBVIOUS
<1>3. pc \in [Handlers -> Steps] /\ name \in [Handlers -> Names \cup {"none"}]
  BY DEF Steps
<1>4. agent \in [Handlers -> AgentIds \cup {0}] /\ run \in [Handlers -> Runs \cup {0}]
  OBVIOUS
<1>5. made \in 0..MaxAgents /\ contexts \in 0..MaxRuns /\ requests \in 0..MaxRequests
  OBVIOUS
<1>6. crashed \in BOOLEAN /\ leaked \in BOOLEAN
  BY Zenon
<1> QED
  BY <1>1, <1>2, <1>3, <1>4, <1>5, <1>6 DEF TypeOK

\* A handler that is past GetAgent works on an agent that was made.
LEMMA AgentKnown ==
  ASSUME TypeOK, NamesOwned, NEW h \in Handlers,
         pc[h] \notin {"idle", "list", "create_put"}
  PROVE  agent[h] \in AgentIds
BY AgentsAssumption DEF TypeOK, NamesOwned, AgentIds

\* A request that is taken names a bot and goes on at a step of the program.
LEMMA RequestTypes ==
  ASSUME TypeOK, NEW h \in Handlers, NEW n \in Names, NEW step \in Steps,
         Request(h, n, step)
  PROVE  TypeOK'
<1> USE DEF TypeOK, Request, At, GoTo, registryVars, fieldVars, runVars
<1>1. requests' \in 0..MaxRequests
  BY AgentsAssumption
<1>2. /\ name' \in [Handlers -> Names \cup {"none"}] /\ pc' \in [Handlers -> Steps]
      /\ agent' \in [Handlers -> AgentIds \cup {0}]
  OBVIOUS
<1>3. overlapped' \subseteq Names
  OBVIOUS
<1> QED
  BY <1>1, <1>2, <1>3

LEMMA TypeNext == TypeOK /\ RunsOwned /\ NamesOwned /\ [Next]_vars => TypeOK'
<1> SUFFICES ASSUME TypeOK, RunsOwned, NamesOwned, [Next]_vars PROVE TypeOK'
  OBVIOUS
<1> USE AgentsAssumption DEF TypeOK, At, GoTo
<1>1. CASE UNCHANGED vars
  BY <1>1 DEF vars, registryVars, fieldVars, runVars, handlerVars
<1>2. ASSUME NEW h \in Handlers, CreatePuts(h) PROVE TypeOK'
  <2> USE <1>2 DEF CreatePuts, fieldVars, runVars
  <2>1. made + 1 \in AgentIds /\ made' \in 0..MaxAgents
    BY DEF AgentIds
  <2>2. agents' \in [Names -> AgentIds \cup {0}] /\ id' \in [AgentIds -> Names \cup {"none"}]
    BY <2>1
  <2>3. pc' \in [Handlers -> Steps]
    BY DEF Steps
  <2>4. crashed' \in BOOLEAN
    BY Zenon DEF MapWritten
  <2> QED
    BY <2>1, <2>2, <2>3, <2>4
<1>3. ASSUME NEW h \in Handlers, ListEnds(h) PROVE TypeOK'
  BY <1>3 DEF ListEnds, Steps, registryVars, fieldVars, runVars
<1>4. ASSUME NEW h \in Handlers, RunChecks(h) PROVE TypeOK'
  <2> USE <1>4 DEF RunChecks, registryVars, runVars
  <2>1. ReadersLeft(agent[h]) \in Nat
    BY DEF ReadersLeft
  <2>2. readers' \in [AgentIds -> Nat]
    <3>1. agent[h] \in AgentIds
      BY AgentKnown
    <3> QED
      BY <2>1, <3>1
  <2>3. pc' \in [Handlers -> Steps]
    BY DEF Steps
  <2> QED
    BY <2>2, <2>3
<1>5. ASSUME NEW h \in Handlers, RunAsksForLock(h) PROVE TypeOK'
  <2> USE <1>5 DEF RunAsksForLock, registryVars, fieldVars
  <2>1. contexts + 1 \in Runs /\ contexts' \in 0..MaxRuns
    BY DEF Runs
  <2>2. run' \in [Handlers -> Runs \cup {0}] /\ agentOf' \in [Runs -> AgentIds \cup {0}]
    BY <2>1
  <2>3. pc' \in [Handlers -> Steps]
    BY DEF Steps
  <2> QED
    BY <2>1, <2>2, <2>3
<1>6. ASSUME NEW h \in Handlers, RunSetsCtx(h) PROVE TypeOK'
  BY <1>6 DEF RunSetsCtx, Steps, registryVars, runVars
<1>7. ASSUME NEW h \in Handlers, RunSetsCancel(h) PROVE TypeOK'
  BY <1>7 DEF RunSetsCancel, Steps, registryVars, runVars
<1>8. ASSUME NEW h \in Handlers, RunGoes(h) PROVE TypeOK'
  <2>1. run[h] \in Runs
    BY <1>8 DEF RunGoes, RunsOwned, Holds, Runs
  <2> QED
    BY <1>8, <2>1 DEF RunGoes, Steps, registryVars, fieldVars
<1>9. ASSUME NEW h \in Handlers, DeleteReadsCtx(h) PROVE TypeOK'
  BY <1>9 DEF DeleteReadsCtx, Steps, registryVars, fieldVars, runVars
<1>10. ASSUME NEW h \in Handlers, DeleteCancels(h) PROVE TypeOK'
  <2>1. pc' \in [Handlers -> Steps]
    BY <1>10 DEF DeleteCancels, AfterCancel, Steps
  <2>2. cancelled' \subseteq Runs
    <3>1. pc[h] = "del_cancel"
      BY <1>10 DEF DeleteCancels
    <3>2. agent[h] \in AgentIds
      BY <3>1, AgentKnown
    <3> QED
      BY <1>10, <3>2 DEF DeleteCancels
  <2> QED
    BY <1>10, <2>1, <2>2 DEF DeleteCancels, registryVars, fieldVars
<1>11. ASSUME NEW h \in Handlers, DeleteRemoves(h) PROVE TypeOK'
  <2> USE <1>11 DEF DeleteRemoves, fieldVars, runVars
  <2>1. agents' \in [Names -> AgentIds \cup {0}] /\ pc' \in [Handlers -> Steps]
    BY DEF Steps
  <2>2. crashed' \in BOOLEAN
    BY Zenon DEF MapWritten
  <2> QED
    BY <2>1, <2>2
<1>12. ASSUME NEW h \in Handlers, ListBegins(h) PROVE TypeOK'
  BY <1>12 DEF ListBegins, Steps, registryVars, fieldVars, runVars
<1>13. ASSUME NEW h \in Handlers, NEW n \in Names,
              CreateChecks(h, n) \/ RunGets(h, n) \/ DeleteGets(h, n)
       PROVE  TypeOK'
  <2>1. PICK step \in Steps : Request(h, n, step)
    BY <1>13 DEF CreateChecks, RunGets, DeleteGets, Steps
  <2> QED
    BY <2>1, RequestTypes
<1>14. ASSUME NEW k \in Runs, MachineStops(k) PROVE TypeOK'
  BY <1>14 DEF MachineStops, registryVars, fieldVars, handlerVars
<1>15. CASE MachineLeaks
  <2>1. leaked' \in BOOLEAN
    BY <1>15, Zenon DEF MachineLeaks
  <2> QED
    BY <1>15, <2>1 DEF MachineLeaks, registryVars, fieldVars, handlerVars
<1> QED
  BY <1>1, <1>2, <1>3, <1>4, <1>5, <1>6, <1>7, <1>8, <1>9, <1>10, <1>11, <1>12,
     <1>13, <1>14, <1>15 DEF Next, Handles

-----------------------------------------------------------------------------
(* The locks and the contexts, whatever requests overlap.                  *)

LEMMA OwnInit == Init => OwnInv
<1> SUFFICES ASSUME Init PROVE OwnInv
  OBVIOUS
<1>1. TypeOK
  BY TypeInit
<1>2. FieldsOwned /\ RunsOwned /\ RunsDiffer
  BY DEF Init, FieldsOwned, RunsOwned, RunsDiffer, Holds
<1>3. NotYetSet /\ LockExclusive /\ CancelMatchesContext
  BY DEF Init, NotYetSet, LockExclusive, CancelMatchesContext
<1>4. RunsMade /\ NamesOwned
  BY DEF Init, RunsMade, NamesOwned
<1> QED
  BY <1>1, <1>2, <1>3, <1>4 DEF OwnInv

LEMMA OwnNext == OwnInv /\ [Next]_vars => OwnInv'
<1> SUFFICES ASSUME OwnInv, [Next]_vars PROVE OwnInv'
  OBVIOUS
<1>0. TypeOK'
  BY TypeNext DEF OwnInv
<1> USE <1>0, AgentsAssumption DEF OwnInv, TypeOK, At, GoTo, Runs, AgentIds
<1>1. CASE UNCHANGED vars
  BY <1>1 DEF vars, registryVars, fieldVars, runVars, handlerVars, FieldsOwned,
     RunsOwned, Holds, RunsDiffer, NotYetSet, LockExclusive, RunsMade, NamesOwned,
     CancelMatchesContext, WriteLocked
<1>2. ASSUME NEW h \in Handlers, ListEnds(h) PROVE OwnInv'
  <2> USE <1>2 DEF ListEnds, registryVars, fieldVars, runVars
  <2>1. FieldsOwned'
    BY DEF FieldsOwned
  <2>2. RunsOwned'
    BY DEF RunsOwned, Holds
  <2>3. RunsDiffer'
    BY DEF RunsDiffer, RunsOwned, Holds
  <2>4. NotYetSet'
    BY DEF NotYetSet, Holds
  <2>5. LockExclusive'
    BY DEF LockExclusive
  <2>6. RunsMade'
    BY DEF RunsMade
  <2>7. NamesOwned'
    BY DEF NamesOwned
  <2>8. CancelMatchesContext'
    BY DEF CancelMatchesContext, WriteLocked
  <2> QED
    BY <2>1, <2>2, <2>3, <2>4, <2>5, <2>6, <2>7, <2>8
<1>3. ASSUME NEW h \in Handlers, RunChecks(h) PROVE OwnInv'
  <2> USE <1>3 DEF RunChecks, registryVars, fieldVars, runVars
  <2>1. FieldsOwned'
    BY DEF FieldsOwned
  <2>2. RunsOwned'
    BY DEF RunsOwned, Holds
  <2>3. RunsDiffer'
    BY DEF RunsDiffer, RunsOwned, Holds
  <2>4. NotYetSet'
    BY DEF NotYetSet, Holds
  <2>5. LockExclusive'
    BY DEF LockExclusive
  <2>6. RunsMade'
    BY DEF RunsMade
  <2>7. NamesOwned'
    BY DEF NamesOwned
  <2>8. CancelMatchesContext'
    BY DEF CancelMatchesContext, WriteLocked
  <2> QED
    BY <2>1, <2>2, <2>3, <2>4, <2>5, <2>6, <2>7, <2>8
<1>4. ASSUME NEW h \in Handlers, RunAsksForLock(h) PROVE OwnInv'
  <2> USE <1>4 DEF RunAsksForLock, registryVars, fieldVars, runVars
  <2>0. agent[h] \in 1..made /\ id[agent[h]] = name[h]
    BY DEF NamesOwned
  <2>1. FieldsOwned'
    BY DEF FieldsOwned
  <2>2. RunsOwned'
    BY <2>0 DEF RunsOwned, Holds, RunsMade
  <2>3. RunsDiffer'
    BY DEF RunsDiffer, RunsOwned, Holds
  <2>4. NotYetSet'
    <3>1. contexts + 1 \notin cancelled
      BY DEF RunsMade
    <3>2. ctx[agent[h]] # contexts + 1 /\ cancel[agent[h]] # contexts + 1
      <4>1. ctx[agent[h]] # 0 => ctx[agent[h]] \in 1..contexts
        BY <2>0 DEF FieldsOwned
      <4>2. cancel[agent[h]] # 0 => cancel[agent[h]] \in 1..contexts
        BY <2>0 DEF FieldsOwned
      <4>3. contexts + 1 \notin 1..contexts /\ contexts + 1 # 0
        OBVIOUS
      <4> QED
        BY <4>1, <4>2, <4>3
    <3>3. run'[h] = contexts + 1 /\ pc'[h] = "run_lock"
      OBVIOUS
    <3> QED
      BY <3>1, <3>2, <3>3 DEF NotYetSet
  <2>5. LockExclusive'
    BY DEF LockExclusive
  <2>6. RunsMade'
    BY <2>0 DEF RunsMade
  <2>7. NamesOwned'
    BY DEF NamesOwned
  <2>8. CancelMatchesContext'
    BY DEF CancelMatchesContext, WriteLocked
  <2> QED
    BY <2>1, <2>2, <2>3, <2>4, <2>5, <2>6, <2>7, <2>8
<1>5. ASSUME NEW h \in Handlers, RunSetsCtx(h) PROVE OwnInv'
  <2> USE <1>5 DEF RunSetsCtx, registryVars, fieldVars, runVars
  <2>0. agent[h] \in 1..made /\ id[agent[h]] = name[h]
    BY DEF NamesOwned
  <2>1. FieldsOwned'
    BY <2>0 DEF FieldsOwned, RunsOwned, Holds
  <2>2. RunsOwned'
    BY DEF RunsOwned, Holds
  <2>3. RunsDiffer'
    BY DEF RunsDiffer, RunsOwned, Holds
  <2>4. NotYetSet'
    BY <2>0 DEF NotYetSet, RunsDiffer, Holds, LockFree, WriteLocked
  <2>5. LockExclusive'
    BY DEF LockExclusive, LockFree, WriteLocked
  <2>6. RunsMade'
    BY DEF RunsMade
  <2>7. NamesOwned'
    BY DEF NamesOwned
  <2>8. CancelMatchesContext'
    BY DEF CancelMatchesContext, WriteLocked
  <2> QED
    BY <2>1, <2>2, <2>3, <2>4, <2>5, <2>6, <2>7, <2>8
<1>6. ASSUME NEW h \in Handlers, RunSetsCancel(h) PROVE OwnInv'
  <2> USE <1>6 DEF RunSetsCancel, registryVars, fieldVars, runVars
  <2>0. agent[h] \in 1..made /\ id[agent[h]] = name[h]
    BY DEF NamesOwned
  <2>1. FieldsOwned'
    BY <2>0 DEF FieldsOwned, RunsOwned, Holds
  <2>2. RunsOwned'
    BY DEF RunsOwned, Holds
  <2>3. RunsDiffer'
    BY DEF RunsDiffer, RunsOwned, Holds
  <2>4. NotYetSet'
    BY <2>0 DEF NotYetSet, RunsDiffer, Holds, LockExclusive
  <2>5. LockExclusive'
    BY DEF LockExclusive
  <2>6. RunsMade'
    BY DEF RunsMade
  <2>7. NamesOwned'
    BY DEF NamesOwned
  <2>8. CancelMatchesContext'
    BY <2>0 DEF CancelMatchesContext, WriteLocked, NotYetSet
  <2> QED
    BY <2>1, <2>2, <2>3, <2>4, <2>5, <2>6, <2>7, <2>8
<1>7. ASSUME NEW h \in Handlers, RunGoes(h) PROVE OwnInv'
  <2> USE <1>7 DEF RunGoes, registryVars, fieldVars, runVars
  <2>1. FieldsOwned'
    BY DEF FieldsOwned
  <2>2. RunsOwned'
    BY DEF RunsOwned, RunsDiffer, Holds
  <2>3. RunsDiffer'
    BY DEF RunsDiffer, RunsOwned, Holds
  <2>4. NotYetSet'
    BY DEF NotYetSet, Holds
  <2>5. LockExclusive'
    BY DEF LockExclusive
  <2>6. RunsMade'
    BY DEF RunsMade, RunsOwned, Holds
  <2>7. NamesOwned'
    BY DEF NamesOwned
  <2>8. CancelMatchesContext'
    BY DEF CancelMatchesContext, WriteLocked
  <2> QED
    BY <2>1, <2>2, <2>3, <2>4, <2>5, <2>6, <2>7, <2>8
<1>8. ASSUME NEW h \in Handlers, DeleteReadsCtx(h) PROVE OwnInv'
  <2> USE <1>8 DEF DeleteReadsCtx, registryVars, fieldVars, runVars
  <2>1. FieldsOwned'
    BY DEF FieldsOwned
  <2>2. RunsOwned'
    BY DEF RunsOwned, Holds
  <2>3. RunsDiffer'
    BY DEF RunsDiffer, RunsOwned, Holds
  <2>4. NotYetSet'
    BY DEF NotYetSet, Holds
  <2>5. LockExclusive'
    BY DEF LockExclusive
  <2>6. RunsMade'
    BY DEF RunsMade
  <2>7. NamesOwned'
    BY DEF NamesOwned
  <2>8. CancelMatchesContext'
    BY DEF CancelMatchesContext, WriteLocked
  <2> QED
    BY <2>1, <2>2, <2>3, <2>4, <2>5, <2>6, <2>7, <2>8
<1>9. ASSUME NEW h \in Handlers, DeleteCancels(h) PROVE OwnInv'
  <2> USE <1>9 DEF DeleteCancels, AfterCancel, registryVars, fieldVars, runVars
  <2>0. agent[h] \in 1..made /\ id[agent[h]] = name[h]
    BY DEF NamesOwned
  <2>9. /\ cancelled' \subseteq cancelled \cup {cancel[agent[h]]}
        /\ cancelled' # cancelled => cancel[agent[h]] # 0
    OBVIOUS
  <2>1. FieldsOwned'
    BY DEF FieldsOwned
  <2>2. RunsOwned'
    BY DEF RunsOwned, Holds
  <2>3. RunsDiffer'
    BY DEF RunsDiffer, RunsOwned, Holds
  <2>4. NotYetSet'
    BY <2>0, <2>9 DEF NotYetSet, Holds, FieldsOwned, RunsOwned
  <2>5. LockExclusive'
    BY DEF LockExclusive
  <2>6. RunsMade'
    BY <2>0, <2>9 DEF RunsMade, FieldsOwned
  <2>7. NamesOwned'
    BY DEF NamesOwned
  <2>8. CancelMatchesContext'
    BY DEF CancelMatchesContext, WriteLocked
  <2> QED
    BY <2>1, <2>2, <2>3, <2>4, <2>5, <2>6, <2>7, <2>8
<1>10. ASSUME NEW h \in Handlers, DeleteRemoves(h) PROVE OwnInv'
  <2> USE <1>10 DEF DeleteRemoves, registryVars, fieldVars, runVars
  <2>1. FieldsOwned'
    BY DEF FieldsOwned
  <2>2. RunsOwned'
    BY DEF RunsOwned, Holds
  <2>3. RunsDiffer'
    BY DEF RunsDiffer, RunsOwned, Holds
  <2>4. NotYetSet'
    BY DEF NotYetSet, Holds
  <2>5. LockExclusive'
    BY DEF LockExclusive
  <2>6. RunsMade'
    BY DEF RunsMade
  <2>7. NamesOwned'
    BY DEF NamesOwned
  <2>8. CancelMatchesContext'
    BY DEF CancelMatchesContext, WriteLocked
  <2> QED
    BY <2>1, <2>2, <2>3, <2>4, <2>5, <2>6, <2>7, <2>8
<1>11. ASSUME NEW h \in Handlers, CreatePuts(h) PROVE OwnInv'
  <2> USE <1>11 DEF CreatePuts, registryVars, fieldVars, runVars
  <2>1. FieldsOwned'
    BY DEF FieldsOwned
  <2>2. RunsOwned'
    BY DEF RunsOwned, Holds
  <2>3. RunsDiffer'
    BY DEF RunsDiffer, RunsOwned, Holds
  <2>4. NotYetSet'
    BY DEF NotYetSet, Holds
  <2>5. LockExclusive'
    BY DEF LockExclusive
  <2>6. RunsMade'
    BY DEF RunsMade
  <2>7. NamesOwned'
    BY DEF NamesOwned
  <2>8. CancelMatchesContext'
    BY DEF CancelMatchesContext, WriteLocked
  <2> QED
    BY <2>1, <2>2, <2>3, <2>4, <2>5, <2>6, <2>7, <2>8
<1>12. ASSUME NEW h \in Handlers, ListBegins(h) PROVE OwnInv'
  <2> USE <1>12 DEF ListBegins, registryVars, fieldVars, runVars
  <2>1. FieldsOwned'
    BY DEF FieldsOwned
  <2>2. RunsOwned'
    BY DEF RunsOwned, Holds
  <2>3. RunsDiffer'
    BY DEF RunsDiffer, RunsOwned, Holds
  <2>4. NotYetSet'
    BY DEF NotYetSet, Holds
  <2>5. LockExclusive'
    BY DEF LockExclusive
  <2>6. RunsMade'
    BY DEF RunsMade
  <2>7. NamesOwned'
    BY DEF NamesOwned
  <2>8. CancelMatchesContext'
    BY DEF CancelMatchesContext, WriteLocked
  <2> QED
    BY <2>1, <2>2, <2>3, <2>4, <2>5, <2>6, <2>7, <2>8
<1>13. ASSUME NEW h \in Handlers, NEW m \in Names,
              CreateChecks(h, m) \/ RunGets(h, m) \/ DeleteGets(h, m)
       PROVE  OwnInv'
  <2>0. PICK step \in {"idle", "create_put", "run_check", "del_ctx"} :
          /\ Request(h, m, step)
          /\ step \in {"run_check", "del_ctx"} => agents[m] # 0
    BY <1>13 DEF CreateChecks, RunGets, DeleteGets
  <2> USE <2>0 DEF Request, registryVars, fieldVars, runVars
  <2>1. FieldsOwned'
    BY DEF FieldsOwned
  <2>2. RunsOwned'
    BY DEF RunsOwned, Holds
  <2>3. RunsDiffer'
    BY DEF RunsDiffer, RunsOwned, Holds
  <2>4. NotYetSet'
    BY DEF NotYetSet, Holds
  <2>5. LockExclusive'
    BY DEF LockExclusive
  <2>6. RunsMade'
    BY DEF RunsMade
  <2>7. NamesOwned'
    BY DEF NamesOwned
  <2>8. CancelMatchesContext'
    BY DEF CancelMatchesContext, WriteLocked
  <2> QED
    BY <2>1, <2>2, <2>3, <2>4, <2>5, <2>6, <2>7, <2>8
<1>14. ASSUME NEW k \in Runs, MachineStops(k) PROVE OwnInv'
  <2> USE <1>14 DEF MachineStops, registryVars, fieldVars, handlerVars
  <2>1. FieldsOwned'
    BY DEF FieldsOwned
  <2>2. RunsOwned'
    BY DEF RunsOwned, Holds
  <2>3. RunsDiffer'
    BY DEF RunsDiffer, RunsOwned, Holds
  <2>4. NotYetSet'
    BY DEF NotYetSet, Holds
  <2>5. LockExclusive'
    BY DEF LockExclusive
  <2>6. RunsMade'
    BY DEF RunsMade
  <2>7. NamesOwned'
    BY DEF NamesOwned
  <2>8. CancelMatchesContext'
    BY DEF CancelMatchesContext, WriteLocked
  <2> QED
    BY <2>1, <2>2, <2>3, <2>4, <2>5, <2>6, <2>7, <2>8
<1>15. CASE MachineLeaks
  <2> USE <1>15 DEF MachineLeaks, registryVars, fieldVars, handlerVars
  <2>1. FieldsOwned'
    BY DEF FieldsOwned
  <2>2. RunsOwned'
    BY DEF RunsOwned, Holds
  <2>3. RunsDiffer'
    BY DEF RunsDiffer, RunsOwned, Holds
  <2>4. NotYetSet'
    BY DEF NotYetSet, Holds
  <2>5. LockExclusive'
    BY DEF LockExclusive
  <2>6. RunsMade'
    BY DEF RunsMade
  <2>7. NamesOwned'
    BY DEF NamesOwned
  <2>8. CancelMatchesContext'
    BY DEF CancelMatchesContext, WriteLocked
  <2> QED
    BY <2>1, <2>2, <2>3, <2>4, <2>5, <2>6, <2>7, <2>8
<1> QED
  BY <1>1, <1>2, <1>3, <1>4, <1>5, <1>6, <1>7, <1>8, <1>9, <1>10, <1>11, <1>12,
     <1>13, <1>14, <1>15 DEF Next, Handles

\* The only step that cancels a context goes on to delete its bot.
LEMMA StoppedNext ==
  OwnInv /\ StoppedIsBeingDeleted /\ [Next]_vars => StoppedIsBeingDeleted'
<1> SUFFICES ASSUME OwnInv, StoppedIsBeingDeleted, [Next]_vars
             PROVE  StoppedIsBeingDeleted'
  OBVIOUS
<1> USE AgentsAssumption DEF OwnInv, TypeOK, At, GoTo, Runs, AgentIds, StoppedIsBeingDeleted
<1>1. CASE UNCHANGED vars
  BY <1>1 DEF vars, registryVars, fieldVars, runVars, handlerVars
<1>2. ASSUME NEW h \in Handlers,
             \/ ListEnds(h) \/ RunChecks(h) \/ RunAsksForLock(h) \/ RunSetsCancel(h)
             \/ RunGoes(h) \/ DeleteReadsCtx(h) \/ ListBegins(h)
      PROVE  StoppedIsBeingDeleted'
  <2>1. UNCHANGED <<agents, ctx, cancelled>> /\ pc[h] # "del_map"
    BY <1>2 DEF ListEnds, RunChecks, RunAsksForLock, RunSetsCancel, RunGoes,
       DeleteReadsCtx, ListBegins, registryVars, fieldVars, runVars
  <2>2. \A g \in Handlers : g # h => pc'[g] = pc[g] /\ name'[g] = name[g]
    BY <1>2 DEF ListEnds, RunChecks, RunAsksForLock, RunSetsCancel, RunGoes,
       DeleteReadsCtx, ListBegins
  <2>3. \A g \in Handlers :
          pc[g] = "del_map" => pc'[g] = "del_map" /\ name'[g] = name[g]
    BY <2>1, <2>2
  <2> HIDE DEF TypeOK, OwnInv
  <2> QED
    BY <2>1, <2>3
<1>3. ASSUME NEW h \in Handlers, CreatePuts(h) PROVE StoppedIsBeingDeleted'
  <2>1. made + 1 \in AgentIds /\ ctx[made + 1] = 0
    BY <1>3 DEF CreatePuts, FieldsOwned
  <2> QED
    BY <1>3, <2>1 DEF CreatePuts, fieldVars, runVars
<1>4. ASSUME NEW h \in Handlers, RunSetsCtx(h) PROVE StoppedIsBeingDeleted'
  BY <1>4 DEF RunSetsCtx, NotYetSet, registryVars, runVars
<1>5. ASSUME NEW h \in Handlers, DeleteCancels(h) PROVE StoppedIsBeingDeleted'
  <2>1. agent[h] \in 1..made /\ id[agent[h]] = name[h]
    BY <1>5 DEF DeleteCancels, NamesOwned
  <2>2. UNCHANGED <<agents, ctx>>
    BY <1>5 DEF DeleteCancels, registryVars, fieldVars
  <2>3. SUFFICES ASSUME NEW n \in Names, agents[n] # 0, ctx[agents[n]] \in cancelled'
                 PROVE  \E g \in Handlers : pc'[g] = "del_map" /\ name'[g] = n
    BY <2>2
  <2>4. CASE ctx[agents[n]] \in cancelled
    BY <1>5, <2>3, <2>4 DEF DeleteCancels
  <2>5. CASE ctx[agents[n]] \notin cancelled
    <3>1. cancel[agent[h]] # 0 /\ ctx[agents[n]] = cancel[agent[h]]
      BY <1>5, <2>3, <2>5 DEF DeleteCancels
    <3>2. agents[n] = agent[h]
      BY <2>1, <2>3, <3>1 DEF FieldsOwned
    <3>3. name[h] = n
      BY <2>1, <2>3, <3>2 DEF NamesOwned
    <3> QED
      BY <1>5, <3>1, <3>3 DEF DeleteCancels, AfterCancel
  <2> QED
    BY <2>4, <2>5
<1>6. ASSUME NEW h \in Handlers, DeleteRemoves(h) PROVE StoppedIsBeingDeleted'
  BY <1>6 DEF DeleteRemoves, fieldVars, runVars
<1>7. ASSUME NEW h \in Handlers, NEW m \in Names,
             CreateChecks(h, m) \/ RunGets(h, m) \/ DeleteGets(h, m)
      PROVE  StoppedIsBeingDeleted'
  <2>1. UNCHANGED <<agents, ctx, cancelled>> /\ pc[h] # "del_map"
    BY <1>7 DEF CreateChecks, RunGets, DeleteGets, Request, registryVars, fieldVars, runVars
  <2>2. \A g \in Handlers : g # h => pc'[g] = pc[g] /\ name'[g] = name[g]
    BY <1>7 DEF CreateChecks, RunGets, DeleteGets, Request
  <2> HIDE DEF TypeOK, OwnInv
  <2> QED
    BY <2>1, <2>2
<1>8. ASSUME NEW k \in Runs, MachineStops(k) PROVE StoppedIsBeingDeleted'
  BY <1>8 DEF MachineStops, registryVars, fieldVars, handlerVars
<1>9. CASE MachineLeaks
  BY <1>9 DEF MachineLeaks, registryVars, fieldVars, handlerVars
<1> QED
  BY <1>1, <1>2, <1>3, <1>4, <1>5, <1>6, <1>7, <1>8, <1>9 DEF Next, Handles

-----------------------------------------------------------------------------
(* Names no two requests work on at once.                                  *)

LEMMA AloneInit == Init => AloneInv
BY DEF Init, AloneInv, Alone, OneWorker, WorkerKnows, LooseIsCurrent, Working, Loose

\* What a step of handler h leaves as it is: the other handlers, and what
\* belongs to other names.
LeavesOthers(h) ==
  /\ \A g \in Handlers \ {h} :
       pc'[g] = pc[g] /\ name'[g] = name[g] /\ agent'[g] = agent[g] /\ run'[g] = run[g]
  /\ name'[h] = name[h] \/ pc'[h] = "idle"
  /\ \A m \in Names : m # name[h] => agents'[m] = agents[m]
  /\ \A a \in 1..made :
       id'[a] = id[a] /\ (id[a] # name[h] => ctx'[a] = ctx[a])
  /\ \A k \in Loose' :
       \/ k \in Loose /\ agentOf'[k] = agentOf[k]
       \/ id'[agentOf'[k]] = name[h]

LEMMA OthersLeft ==
  ASSUME OwnInv, NEW h \in Handlers, Handles(h)
  PROVE  LeavesOthers(h)
<1> USE AgentsAssumption DEF OwnInv, TypeOK, At, GoTo, Runs, AgentIds, LeavesOthers, Loose
<1>1. CASE ListEnds(h)
  BY <1>1 DEF ListEnds, registryVars, fieldVars, runVars
<1>2. CASE RunChecks(h)
  BY <1>2 DEF RunChecks, registryVars, fieldVars, runVars
<1>3. CASE RunAsksForLock(h)
  BY <1>3 DEF RunAsksForLock, registryVars, fieldVars, runVars, RunsMade
<1>4. CASE RunSetsCtx(h)
  <2>1. agent[h] \in 1..made /\ id[agent[h]] = name[h]
    BY <1>4 DEF RunSetsCtx, NamesOwned
  <2>2. \A a \in 1..made : id[a] # name[h] => ctx'[a] = ctx[a]
    BY <1>4, <2>1 DEF RunSetsCtx
  <2> QED
    BY <1>4, <2>2 DEF RunSetsCtx, registryVars, fieldVars, runVars
<1>5. CASE RunSetsCancel(h)
  BY <1>5 DEF RunSetsCancel, registryVars, fieldVars, runVars
<1>6. CASE RunGoes(h)
  <2>1. id[agentOf[run[h]]] = name[h]
    BY <1>6 DEF RunGoes, RunsOwned, Holds, NamesOwned
  <2> QED
    BY <1>6, <2>1 DEF RunGoes, registryVars, fieldVars, runVars
<1>7. CASE DeleteReadsCtx(h)
  BY <1>7 DEF DeleteReadsCtx, registryVars, fieldVars, runVars
<1>8. CASE DeleteCancels(h)
  BY <1>8 DEF DeleteCancels, registryVars, fieldVars, runVars
<1>9. CASE DeleteRemoves(h)
  BY <1>9 DEF DeleteRemoves, registryVars, fieldVars, runVars
<1>10. CASE CreatePuts(h)
  BY <1>10 DEF CreatePuts, registryVars, fieldVars, runVars, RunsMade
<1> QED
  BY <1>1, <1>2, <1>3, <1>4, <1>5, <1>6, <1>7, <1>8, <1>9, <1>10 DEF Handles

\* A step of a request about another name changes nothing for n.
LEMMA OtherName ==
  ASSUME OwnInv, NEW h \in Handlers, LeavesOthers(h),
         NEW n \in Names, Alone(n), name[h] # n
  PROVE  Alone(n)'
<1> USE DEF OwnInv, Alone, LeavesOthers
<1>1. \A g \in Handlers : Working(g, n)' => g # h /\ Working(g, n)
  BY DEF Working
<1>2. OneWorker(n)'
  BY <1>1 DEF OneWorker
<1>3. LooseIsCurrent(n)'
  <2> SUFFICES ASSUME NEW k \in Loose', id'[agentOf'[k]] = n
               PROVE  ctx'[agentOf'[k]] = k /\ agents'[n] = agentOf'[k]
    BY DEF LooseIsCurrent
  <2>1. k \in Loose /\ agentOf'[k] = agentOf[k] /\ agentOf[k] \in 1..made
    BY DEF RunsMade, Loose
  <2> QED
    BY <2>1 DEF LooseIsCurrent
<1>4. WorkerKnows(n)'
  <2> SUFFICES ASSUME NEW g \in Handlers, Working(g, n)' PROVE Knows(g, n)'
    BY DEF WorkerKnows
  <2>1. g # h /\ Working(g, n) /\ Knows(g, n)
    BY <1>1 DEF WorkerKnows
  <2>2. /\ pc'[g] = pc[g] /\ agent'[g] = agent[g] /\ run'[g] = run[g]
        /\ agents'[n] = agents[n]
    BY <2>1
  <2>3. pc[g] # "create_put" => ctx'[agent[g]] = ctx[agent[g]]
    BY <2>1 DEF Working, NamesOwned
  <2>4. (\A k \in Loose : id[agentOf[k]] # n) => \A k \in Loose' : id'[agentOf'[k]] # n
    BY DEF RunsMade, Loose
  <2> QED
    BY <2>1, <2>2, <2>3, <2>4 DEF Knows
<1> QED
  BY <1>2, <1>3, <1>4

\* A step of the only request about n.
LEMMA OnlyWorker ==
  ASSUME OwnInv, NEW h \in Handlers, Handles(h), pc[h] # "list",
         NEW n \in Names, Alone(n), name[h] = n
  PROVE  Alone(n)'
<1>1. Working(h, n) /\ Knows(h, n)
  BY DEF Working, Alone, WorkerKnows, Handles, At, CreatePuts, ListEnds, RunChecks,
     RunAsksForLock, RunSetsCtx, RunSetsCancel, RunGoes, DeleteReadsCtx,
     DeleteCancels, DeleteRemoves
<1>2. LeavesOthers(h)
  BY OthersLeft
<1>3. \A g \in Handlers : Working(g, n)' => g = h
  BY <1>1, <1>2 DEF Alone, OneWorker, LeavesOthers, Working
<1>4. OneWorker(n)'
  BY <1>3 DEF OneWorker
<1>5. (Working(h, n)' => Knows(h, n)') => WorkerKnows(n)'
  BY <1>3 DEF WorkerKnows
<1>6. SUFFICES (Working(h, n)' => Knows(h, n)') /\ LooseIsCurrent(n)'
  BY <1>4, <1>5 DEF Alone
<1>7. pc[h] # "create_put" => agent[h] \in 1..made /\ id[agent[h]] = n
  BY <1>1 DEF OwnInv, NamesOwned, Working
<1>8. LooseIsCurrent(n)
  BY DEF Alone
<1> USE AgentsAssumption, <1>1, <1>7, <1>8
    DEF OwnInv, TypeOK, At, GoTo, Runs, AgentIds, Knows, Loose, LooseIsCurrent
<1>9. CASE RunChecks(h)
  <2> USE <1>9 DEF RunChecks, registryVars, fieldVars, runVars
  <2>1. Working(h, n)' => Knows(h, n)'
    BY DEF Working, MayStart
  <2>2. LooseIsCurrent(n)'
    OBVIOUS
  <2> QED
    BY <2>1, <2>2
<1>10. CASE RunAsksForLock(h)
  <2> USE <1>10 DEF RunAsksForLock, registryVars, fieldVars, runVars
  <2>1. Working(h, n)' => Knows(h, n)'
    BY DEF Working
  <2>2. LooseIsCurrent(n)'
    BY DEF RunsMade
  <2> QED
    BY <2>1, <2>2
<1>11. CASE RunSetsCtx(h)
  <2> USE <1>11 DEF RunSetsCtx, registryVars, fieldVars, runVars
  <2>1. Working(h, n)' => Knows(h, n)'
    BY DEF Working
  <2>2. LooseIsCurrent(n)'
    OBVIOUS
  <2> QED
    BY <2>1, <2>2
<1>12. CASE RunSetsCancel(h)
  <2> USE <1>12 DEF RunSetsCancel, registryVars, fieldVars, runVars
  <2>1. Working(h, n)' => Knows(h, n)'
    BY DEF Working, NotYetSet
  <2>2. LooseIsCurrent(n)'
    OBVIOUS
  <2> QED
    BY <2>1, <2>2
<1>13. CASE RunGoes(h)
  <2> USE <1>13 DEF RunGoes, registryVars, fieldVars, runVars
  <2>1. Working(h, n)' => Knows(h, n)'
    BY DEF Working
  <2>2. LooseIsCurrent(n)'
    <3>1. agentOf[run[h]] = agent[h] /\ ctx[agent[h]] = run[h] /\ agents[n] = agent[h]
      BY DEF RunsOwned, Holds
    <3> QED
      BY <3>1
  <2> QED
    BY <2>1, <2>2
<1>14. CASE DeleteReadsCtx(h)
  <2> USE <1>14 DEF DeleteReadsCtx, registryVars, fieldVars, runVars
  <2>1. Working(h, n)' => Knows(h, n)'
    BY DEF Working, Cancels
  <2>2. LooseIsCurrent(n)'
    OBVIOUS
  <2> QED
    BY <2>1, <2>2
<1>15. CASE DeleteCancels(h)
  <2> USE <1>15 DEF DeleteCancels, registryVars, fieldVars, runVars
  <2>1. Working(h, n)' => Knows(h, n)'
    <3>1. agent[h] \in AgentIds /\ ctx[agent[h]] # 0 /\ agents[n] = agent[h]
      OBVIOUS
    <3>2. ~WriteLocked(agent[h])
      <4> SUFFICES ASSUME NEW g \in Handlers, agent[g] = agent[h], pc[g] = "run_cancel"
                   PROVE  FALSE
        BY DEF WriteLocked
      <4>1. name[g] = n
        BY DEF NamesOwned
      <4> QED
        BY <4>1 DEF Alone, OneWorker, Working
    <3>3. cancel[agent[h]] = ctx[agent[h]]
      BY <3>1, <3>2 DEF CancelMatchesContext
    <3>4. cancelled' = cancelled \cup {ctx[agent[h]]} /\ pc'[h] = "del_map"
      BY <3>1, <3>3 DEF AfterCancel
    <3>5. \A k \in Loose' : id'[agentOf'[k]] # n
      BY <3>1, <3>4
    <3> QED
      BY <3>4, <3>5
  <2>2. LooseIsCurrent(n)'
    OBVIOUS
  <2> QED
    BY <2>1, <2>2
<1>16. CASE DeleteRemoves(h)
  <2> USE <1>16 DEF DeleteRemoves, registryVars, fieldVars, runVars
  <2>1. Working(h, n)' => Knows(h, n)'
    BY DEF Working
  <2>2. LooseIsCurrent(n)'
    OBVIOUS
  <2> QED
    BY <2>1, <2>2
<1>17. CASE CreatePuts(h)
  <2> USE <1>17 DEF CreatePuts, registryVars, fieldVars, runVars
  <2>1. Working(h, n)' => Knows(h, n)'
    BY DEF Working
  <2>2. LooseIsCurrent(n)'
    <3>1. \A k \in Loose : agentOf[k] \in 1..made
      BY DEF RunsMade
    <3>2. \A k \in Loose : id'[agentOf[k]] # n
      BY <3>1
    <3> QED
      BY <3>2
  <2> QED
    BY <2>1, <2>2
<1> QED
  BY <1>9, <1>10, <1>11, <1>12, <1>13, <1>14, <1>15, <1>16, <1>17 DEF Handles, ListEnds

LEMMA AloneNext == OwnInv /\ AloneInv /\ [Next]_vars => AloneInv'
<1> SUFFICES ASSUME OwnInv, AloneInv, [Next]_vars,
                    NEW n \in Names, n \notin overlapped'
             PROVE  Alone(n)'
  BY DEF AloneInv
<1>a. n \notin overlapped => Alone(n)
  BY DEF AloneInv
<1>1. CASE UNCHANGED vars
  BY <1>1, <1>a DEF vars, registryVars, fieldVars, runVars, handlerVars, Alone,
     OneWorker, WorkerKnows, Knows, LooseIsCurrent, Working, Loose
<1>2. ASSUME NEW h \in Handlers, Handles(h) PROVE Alone(n)'
  <2>1. overlapped' = overlapped
    BY <1>2 DEF Handles, CreatePuts, ListEnds, RunChecks, RunAsksForLock, RunSetsCtx,
       RunSetsCancel, RunGoes, DeleteReadsCtx, DeleteCancels, DeleteRemoves
  <2>2. Alone(n) /\ LeavesOthers(h)
    BY <1>2, <1>a, <2>1, OthersLeft
  <2>3. CASE pc[h] = "list"
    <3>1. ListEnds(h)
      BY <1>2, <2>3 DEF Handles, At, CreatePuts, ListEnds, RunChecks, RunAsksForLock,
         RunSetsCtx, RunSetsCancel, RunGoes, DeleteReadsCtx, DeleteCancels, DeleteRemoves
    <3> QED
      BY <2>2, <3>1 DEF ListEnds, At, GoTo, OwnInv, TypeOK, registryVars, fieldVars,
         runVars, Alone, OneWorker, WorkerKnows, Knows, LooseIsCurrent, Working, Loose
  <2>4. CASE pc[h] # "list" /\ name[h] = n
    BY <1>2, <2>2, <2>4, OnlyWorker
  <2>5. CASE name[h] # n
    BY <2>2, <2>5, OtherName
  <2> QED
    BY <2>3, <2>4, <2>5
<1>3. ASSUME NEW h \in Handlers, ListBegins(h) PROVE Alone(n)'
  BY <1>3, <1>a DEF ListBegins, At, GoTo, OwnInv, TypeOK, registryVars, fieldVars,
     runVars, Alone, OneWorker, WorkerKnows, Knows, LooseIsCurrent, Working, Loose
<1>4. ASSUME NEW h \in Handlers, NEW m \in Names,
             CreateChecks(h, m) \/ RunGets(h, m) \/ DeleteGets(h, m)
      PROVE  Alone(n)'
  <2>1. PICK step \in {"idle", "create_put", "run_check", "del_ctx"} :
          /\ Request(h, m, step)
          /\ step = "create_put" => agents[m] = 0
    BY <1>4 DEF CreateChecks, RunGets, DeleteGets
  <2>2. Alone(n) /\ (m = n /\ step # "idle" => \A g \in Handlers : ~Working(g, n))
    BY <2>1, <1>a DEF Request
  <2> USE <2>1, <2>2 DEF Request, At, GoTo, OwnInv, TypeOK, registryVars, fieldVars,
                        runVars, Alone
  <2>3. OneWorker(n)'
    BY DEF OneWorker, Working
  <2>4. WorkerKnows(n)'
    BY DEF WorkerKnows, Knows, Working, Loose
  <2>5. LooseIsCurrent(n)'
    BY DEF LooseIsCurrent, Loose
  <2> QED
    BY <2>3, <2>4, <2>5
<1>5. ASSUME NEW k \in Runs, MachineStops(k) PROVE Alone(n)'
  BY <1>5, <1>a DEF MachineStops, registryVars, fieldVars, handlerVars, Alone,
     OneWorker, WorkerKnows, Knows, LooseIsCurrent, Working, Loose
<1>6. CASE MachineLeaks
  BY <1>6, <1>a DEF MachineLeaks, registryVars, fieldVars, handlerVars, Alone,
     OneWorker, WorkerKnows, Knows, LooseIsCurrent, Working, Loose
<1> QED
  BY <1>1, <1>2, <1>3, <1>4, <1>5, <1>6 DEF Next

-----------------------------------------------------------------------------
(* Theorems.                                                               *)

\* The invariant all of them follow from.
AgentsInv == OwnInv /\ StoppedIsBeingDeleted /\ AloneInv

\* Every step keeps what the locks and the requests in flight know.
THEOREM AgentsInvariant == Spec => []AgentsInv
<1>1. Init => AgentsInv
  <2>1. Init => StoppedIsBeingDeleted
    BY DEF Init, StoppedIsBeingDeleted
  <2> QED
    BY <2>1, OwnInit, AloneInit DEF AgentsInv
<1>2. AgentsInv /\ [Next]_vars => AgentsInv'
  BY OwnNext, StoppedNext, AloneNext DEF AgentsInv
<1> QED
  BY <1>1, <1>2, PTL DEF Spec

\* The variables of the registry, the agents and the handlers keep their types.
THEOREM AgentsTypeCorrect == Spec => []TypeOK
<1>1. AgentsInv => TypeOK
  BY DEF AgentsInv, OwnInv
<1> QED
  BY <1>1, AgentsInvariant, PTL

\* ag.cancel is the cancel function of ag.ctx whenever no request is writing
\* the two, however many requests run the bot at once.
THEOREM CancelMatchesContextHolds == Spec => []CancelMatchesContext
<1>1. AgentsInv => CancelMatchesContext
  BY DEF AgentsInv, OwnInv
<1> QED
  BY <1>1, AgentsInvariant, PTL

\* A bot that was told to stop is about to leave the registry.
THEOREM StoppedIsBeingDeletedHolds == Spec => []StoppedIsBeingDeleted
<1>1. AgentsInv => StoppedIsBeingDeleted
  BY DEF AgentsInv
<1> QED
  BY <1>1, AgentsInvariant, PTL

LEMMA LooseNamed ==
  ASSUME OwnInv, NEW k \in Loose
  PROVE  id[agentOf[k]] \in Names
BY DEF OwnInv, RunsMade, NamesOwned, Loose

\* Two state machines drive one bot only if two requests about it overlapped.
THEOREM OneMachinePerBotHolds == Spec => []OneMachinePerBot
<1>1. AgentsInv => OneMachinePerBot
  <2> SUFFICES ASSUME AgentsInv, NEW j \in Loose, NEW k \in Loose,
                      agentOf[j] = agentOf[k], id[agentOf[j]] \notin overlapped
               PROVE  j = k
    BY DEF OneMachinePerBot
  <2>1. id[agentOf[j]] \in Names
    BY LooseNamed DEF AgentsInv
  <2>2. LooseIsCurrent(id[agentOf[j]])
    BY <2>1 DEF AgentsInv, AloneInv, Alone
  <2> QED
    BY <2>2 DEF LooseIsCurrent
<1> QED
  BY <1>1, AgentsInvariant, PTL

\* A bot that is not registered trades on only if two requests about it
\* overlapped.
THEOREM DeletedMachinesStopHolds == Spec => []DeletedMachinesStop
<1>1. AgentsInv => DeletedMachinesStop
  <2> SUFFICES ASSUME AgentsInv, NEW k \in Loose, id[agentOf[k]] \notin overlapped
               PROVE  Registered(agentOf[k])
    BY DEF DeletedMachinesStop
  <2>1. id[agentOf[k]] \in Names
    BY LooseNamed DEF AgentsInv
  <2>2. LooseIsCurrent(id[agentOf[k]])
    BY <2>1 DEF AgentsInv, AloneInv, Alone
  <2> QED
    BY <2>1, <2>2 DEF LooseIsCurrent, Registered
<1> QED
  BY <1>1, AgentsInvariant, PTL

\* A name that is taken is not given to another bot unless two requests about
\* it overlapped.
THEOREM NamesAreNotReusedHolds == Spec => NamesAreNotReused
<1>1. AgentsInv /\ [Next]_vars =>
        [\A n \in Names :
           agents[n] \in {0, agents'[n]} \/ agents'[n] = 0 \/ n \in overlapped]_vars
  <2> SUFFICES ASSUME AgentsInv, Next, NEW n \in Names, n \notin overlapped,
                      agents[n] # agents'[n]
               PROVE  agents[n] = 0 \/ agents'[n] = 0
    BY DEF vars, registryVars
  <2> USE DEF AgentsInv, OwnInv, TypeOK, At
  <2>1. CASE \E h \in Handlers : CreatePuts(h)
    <3>1. PICK h \in Handlers : CreatePuts(h)
      BY <2>1
    <3>2. name[h] = n /\ Working(h, n)
      BY <3>1 DEF CreatePuts, Working
    <3> QED
      BY <3>1, <3>2 DEF CreatePuts, AloneInv, Alone, WorkerKnows, Knows
  <2>2. CASE \E h \in Handlers : DeleteRemoves(h)
    BY <2>2 DEF DeleteRemoves
  <2>3. CASE ~\E h \in Handlers : CreatePuts(h) \/ DeleteRemoves(h)
    BY <2>3 DEF Next, Handles, ListEnds, RunChecks, RunAsksForLock, RunSetsCtx,
       RunSetsCancel, RunGoes, DeleteReadsCtx, DeleteCancels, ListBegins, CreateChecks,
       RunGets, DeleteGets, Request, MachineStops, MachineLeaks, registryVars, fieldVars,
       runVars
  <2> QED
    BY <2>1, <2>2, <2>3
<1> QED
  BY <1>1, AgentsInvariant, PTL DEF Spec, NamesAreNotReused
=============================================================================
