--------------------------- MODULE RuntimeFeedProofs ---------------------------
(***************************************************************************)
(* The crew collector for any logs, steps, stations, roster and commands:  *)
(* its queues, its busy stations and what a quiet crew leaves behind.      *)
(***************************************************************************)
EXTENDS RuntimeFeed, FiniteSetTheorems, TLAPS

-----------------------------------------------------------------------------
(* The inductive invariant                                                 *)

Sources == [stage : {"off", "idle"}] \cup
           [stage : {"enqueued", "started", "working"}, step : Steps, station : Stations]

Types ==
    /\ agents \in [Steps -> Agents]
    /\ tasks \in [Steps -> Tasks]
    /\ known \in SUBSET Stations
    /\ worker \in [Stations -> Steps \cup {NoWorker}]
    /\ depth \in [Stations -> Nat]
    /\ drain \in [Stations -> BOOLEAN]
    /\ source \in [Feeds -> Sources]
    /\ leaked \in [Stations -> Nat]
    /\ mixed \in BOOLEAN
    /\ \A s \in Steps : Open(s) => tasks[s].station \in Stations

Counters ==
    /\ opened \in Nat /\ kills \in Nat /\ reads \in Nat /\ commands \in Nat /\ ended \in Nat
    /\ window \in 0..ended
    /\ copies \in [Threads -> SUBSET (0..ended)]

\* While ids are not mixed, two logs are never at one step, and the task and the agent
\* of a step are at the station its log named.
Places ==
    ~mixed =>
        /\ \A f, g \in Feeds, s \in Steps : Within(f, s) /\ Within(g, s) => f = g
        /\ \A f \in Feeds, s \in Steps : Within(f, s) /\ Open(s) =>
            /\ tasks[s].station = source[f].station
            /\ source[f].stage # "enqueued" /\ s \in Present =>
                   agents[s].station \in {source[f].station, NoStation}

\* What goes on belongs to a log that is at it, unless a run was cut off.
Owned ==
    /\ \A st \in Stations : leaked[st] # 0 => mixed
    /\ kills = 0 /\ ~mixed =>
        \A s \in Steps : Open(s) \/ agents[s].state \in {"dispatched", "working"} =>
            \E f \in Feeds : Within(f, s)

IInv == Types /\ Counters /\ QueueAccounted /\ Places /\ BusyHasTask /\ Owned

-----------------------------------------------------------------------------
LEMMA InitEstablishes == Init => IInv
<1> SUFFICES ASSUME Init PROVE IInv
  OBVIOUS
<1> USE RuntimeFeedAssumption DEF Init
<1>1. Types
  <2>1. AbsentAgent \in Agents  BY DEF Agents, AbsentAgent
  <2>2. AbsentTask \in Tasks /\ AbsentTask.status = "absent"  BY DEF Tasks, AbsentTask
  <2>3. [stage |-> "off"] \in Sources  BY DEF Sources
  <2>4. agents \in [Steps -> Agents] /\ tasks \in [Steps -> Tasks]  BY <2>1, <2>2
  <2>5. source \in [Feeds -> Sources]  BY <2>3
  <2>6. \A s \in Steps : ~Open(s)  BY <2>2 DEF Open
  <2>7. known \in SUBSET Stations /\ worker \in [Stations -> Steps \cup {NoWorker}]
    OBVIOUS
  <2>8. depth \in [Stations -> Nat] /\ leaked \in [Stations -> Nat]  OBVIOUS
  <2>9. drain \in [Stations -> BOOLEAN] /\ mixed \in BOOLEAN  OBVIOUS
  <2> HIDE DEF Init
  <2> QED  BY <2>4, <2>5, <2>6, <2>7, <2>8, <2>9 DEF Types
<1>2. Counters  BY DEF Counters
<1>3. \A s \in Steps : ~Open(s)  BY DEF Open, AbsentTask
<1>4. QueueAccounted
  <2>1. \A st \in Stations : OpenAt(st) = {}  BY <1>3 DEF OpenAt
  <2>2. Cardinality({}) = 0  BY FS_EmptySet
  <2>3. \A st \in Stations : depth[st] = 0 /\ leaked[st] = 0  OBVIOUS
  <2>4. ASSUME NEW st \in Stations
        PROVE  depth[st] = Cardinality(OpenAt(st)) + leaked[st]
    <3>1. Cardinality(OpenAt(st)) = 0  BY <2>1, <2>2
    <3> QED  BY <2>3, <3>1
  <2> QED  BY <2>4 DEF QueueAccounted
<1>5. \A f \in Feeds, s \in Steps : ~Within(f, s)  BY DEF Within
<1>6. Places  BY <1>5 DEF Places
<1>7. BusyHasTask  BY DEF BusyHasTask
<1>8. Owned  BY <1>3 DEF Owned, AbsentAgent
<1> QED  BY <1>1, <1>2, <1>4, <1>6, <1>7, <1>8 DEF IInv

LEMMA CountersKept == Counters /\ [Next]_vars => Counters'
<1> SUFFICES ASSUME Counters, [Next]_vars PROVE Counters'
  OBVIOUS
<1> USE RuntimeFeedAssumption DEF Counters, stationVars, metricVars
<1>1. ASSUME NEW f \in Feeds, CrewStart(f) PROVE Counters'  BY <1>1 DEF CrewStart
<1>2. ASSUME NEW f \in Feeds, Begin(f) PROVE Counters'  BY <1>2 DEF Begin
<1>3. ASSUME NEW f \in Feeds, Progress(f) PROVE Counters'  BY <1>3 DEF Progress
<1>4. ASSUME NEW f \in Feeds, Complete(f) PROVE Counters'
  <2>1. window' = window + 1 /\ ended' = ended + 1 /\ copies' = copies
        /\ UNCHANGED <<opened, kills, reads, commands>>
    BY <1>4 DEF Complete
  <2>2. ended' \in Nat /\ window' \in 0..ended' /\ 0..ended \subseteq 0..ended'  BY <2>1
  <2> QED  BY <2>1, <2>2
<1>5. ASSUME NEW f \in Feeds, NEW s \in Steps, NEW st \in Stations, Enqueue(f, s, st)
      PROVE Counters'
  BY <1>5 DEF Enqueue
<1>6. ASSUME NEW s \in Steps, Dock(s) PROVE Counters'  BY <1>6 DEF Dock
<1>7. ASSUME NEW th \in Threads, FilterWindow(th) PROVE Counters'  BY <1>7 DEF FilterWindow
<1>8. ASSUME NEW th \in Threads, ReplaceWindow(th) PROVE Counters'
  BY <1>8 DEF ReplaceWindow
<1>9. ASSUME Operate PROVE Counters'
  <2>1. Command
    BY <1>9 DEF Operate, FleetHold, FleetRecall, Hold, Recall, Retire, Drain
  <2> QED  BY <2>1 DEF Command
<1>10. CASE UNCHANGED vars  BY <1>10 DEF vars
<1> QED
  BY <1>1, <1>2, <1>3, <1>4, <1>5, <1>6, <1>7, <1>8, <1>9, <1>10 DEF Next, Ingest

-----------------------------------------------------------------------------
(* What does not concern the tasks: the ticker, the metrics, the operator   *)

\* A drone may go home or leave the roster, and nothing else of a step changes.
Aside ==
    /\ UNCHANGED <<tasks, known, worker, depth, source, kills, leaked, mixed>>
    /\ agents' \in [Steps -> Agents] /\ drain' \in [Stations -> BOOLEAN]
    /\ \A s \in Steps :
        /\ agents'[s].state # "absent" =>
            /\ agents[s].state # "absent"
            /\ agents'[s].station \in {agents[s].station, NoStation}
        /\ agents'[s].state \in {"dispatched", "working"} =>
            agents[s].state = agents'[s].state

LEMMA OperateIsAside == Types /\ Operate => Aside
<1> SUFFICES ASSUME Types, Operate PROVE Aside
  OBVIOUS
<1>1. \A s \in Steps : agents[s] \in Agents  BY DEF Types
<1>2. \A a \in Agents : \A hold \in BOOLEAN :
        /\ [a EXCEPT !.hold = hold] \in Agents
        /\ [a EXCEPT !.hold = hold].state = a.state
        /\ [a EXCEPT !.hold = hold].station = a.station
  BY DEF Agents
<1>3. \A s \in Steps : /\ Recalled(s) \in Agents
                       /\ Recalled(s).state = "returning"
                       /\ Recalled(s).station = agents[s].station
  BY <1>1 DEF Recalled, Agents, AgentStates
<1>4. AbsentAgent \in Agents /\ AbsentAgent.state = "absent"  BY DEF AbsentAgent, Agents
<1>5. Command
  BY DEF Operate, FleetHold, FleetRecall, Hold, Recall, Retire, Drain
<1>6. UNCHANGED <<tasks, known, worker, depth, source, kills, leaked, mixed>>
  BY <1>5 DEF Command
<1> HIDE DEF Agents
<1>7. CASE FleetHold
  <2>1. drain' = drain  BY <1>7 DEF FleetHold
  <2>2. PICK hold \in BOOLEAN :
          agents' = [s \in Steps |-> IF s \in Present THEN [agents[s] EXCEPT !.hold = hold]
                                     ELSE agents[s]]
    BY <1>7 DEF FleetHold
  <2>3. \A s \in Steps : /\ agents'[s] \in Agents
                         /\ agents'[s].state = agents[s].state
                         /\ agents'[s].station = agents[s].station
    BY <1>1, <1>2, <2>2
  <2> QED  BY <1>6, <2>1, <2>2, <2>3 DEF Aside, Types
<1>8. CASE FleetRecall
  <2>1. drain' = drain
        /\ agents' = [s \in Steps |-> IF agents[s].state \in {"absent", "docked"}
                                      THEN agents[s] ELSE Recalled(s)]
    BY <1>8 DEF FleetRecall
  <2> QED  BY <1>1, <1>3, <1>6, <2>1 DEF Aside, Types
<1>9. ASSUME NEW s \in Steps, Hold(s) PROVE Aside
  <2>1. PICK hold \in BOOLEAN : agents' = [agents EXCEPT ![s] = [agents[s] EXCEPT !.hold = hold]]
    BY <1>9 DEF Hold
  <2>2. drain' = drain  BY <1>9 DEF Hold
  <2>3. agents' \in [Steps -> Agents]  BY <1>1, <1>2, <2>1 DEF Types
  <2>4. \A x \in Steps : /\ agents'[x].state = agents[x].state
                         /\ agents'[x].station = agents[x].station
    BY <1>1, <1>2, <2>1 DEF Types
  <2> QED  BY <1>6, <2>2, <2>3, <2>4 DEF Aside, Types
<1>10. ASSUME NEW s \in Steps, Recall(s) PROVE Aside
  <2>1. agents' = [agents EXCEPT ![s] = Recalled(s)] /\ drain' = drain
        /\ agents[s].state # "absent"
    BY <1>10 DEF Recall, Present
  <2> QED  BY <1>1, <1>3, <1>6, <2>1 DEF Aside, Types
<1>11. ASSUME NEW s \in Steps, Retire(s) PROVE Aside
  <2>1. agents' = [agents EXCEPT ![s] = AbsentAgent] /\ drain' = drain
    BY <1>11 DEF Retire
  <2> QED  BY <1>1, <1>4, <1>6, <2>1 DEF Aside, Types
<1>12. ASSUME NEW st \in Stations, Drain(st) PROVE Aside
  <2>1. PICK on \in BOOLEAN : drain' = [drain EXCEPT ![st] = on]  BY <1>12 DEF Drain
  <2>2. agents' = agents  BY <1>12 DEF Drain
  <2> QED  BY <1>6, <2>1, <2>2 DEF Aside, Types
<1> QED  BY <1>7, <1>8, <1>9, <1>10, <1>11, <1>12 DEF Operate

LEMMA OthersAreAside ==
    ASSUME Types,
           \/ \E s \in Steps : Dock(s)
           \/ \E th \in Threads : FilterWindow(th) \/ ReplaceWindow(th)
           \/ UNCHANGED vars
    PROVE  Aside
<1>1. ASSUME NEW s \in Steps, Dock(s) PROVE Aside
  <2>1. /\ agents' = [agents EXCEPT ![s].state = "docked", ![s].station = NoStation]
        /\ agents[s].state = "returning"
        /\ UNCHANGED <<tasks, known, worker, depth, drain, source, kills, leaked, mixed>>
    BY <1>1 DEF Dock, stationVars
  <2>2. agents[s] \in Agents  BY DEF Types
  <2>3. [agents[s] EXCEPT !.state = "docked", !.station = NoStation] \in Agents
    BY <2>2 DEF Agents, AgentStates
  <2>4. agents' \in [Steps -> Agents]  BY <2>1, <2>3 DEF Types
  <2>5. agents'[s].state = "docked" /\ agents'[s].station = NoStation
    BY <2>1, <2>2 DEF Types, Agents
  <2>6. \A x \in Steps : x # s => agents'[x] = agents[x]  BY <2>1 DEF Types
  <2> QED  BY <2>1, <2>4, <2>5, <2>6 DEF Aside, Types
<1>2. ASSUME UNCHANGED <<agents, tasks, known, worker, depth, drain, source, kills, leaked, mixed>>
      PROVE Aside
  BY <1>2 DEF Aside, Types
<1>3. ASSUME NEW th \in Threads, FilterWindow(th) \/ ReplaceWindow(th) PROVE Aside
  BY <1>2, <1>3 DEF FilterWindow, ReplaceWindow, stationVars
<1>4. CASE UNCHANGED vars  BY <1>2, <1>4 DEF vars, stationVars
<1> QED  BY <1>1, <1>3, <1>4

Tracked == Types /\ QueueAccounted /\ Places /\ BusyHasTask /\ Owned

LEMMA AsideKeeps == Tracked /\ Aside => Tracked'
<1> SUFFICES ASSUME Types, QueueAccounted, Places, BusyHasTask, Owned, Aside
             PROVE  Tracked'
  BY DEF Tracked
<1>1. /\ \A s \in Steps : Open(s)' <=> Open(s)
      /\ \A st \in Stations : OpenAt(st)' = OpenAt(st)
      /\ \A f \in Feeds, s \in Steps : Within(f, s)' <=> Within(f, s)
  BY DEF Aside, Open, OpenAt, Within
<1>2. Types'  BY <1>1 DEF Types, Aside
<1>3. QueueAccounted'  BY <1>1 DEF QueueAccounted, Aside
<1>4. BusyHasTask'  BY <1>1 DEF BusyHasTask, Aside
<1>5. Places'  BY <1>1 DEF Places, Present, Aside
<1>6. Owned'  BY <1>1 DEF Owned, Aside
<1> QED  BY <1>2, <1>3, <1>4, <1>5, <1>6 DEF Tracked

-----------------------------------------------------------------------------
(* One line of a log                                                       *)

\* Logs other than the one that advances stay where they are.
LEMMA AdvanceIs ==
    ASSUME NEW f \in Feeds, NEW r \in Sources, source \in [Feeds -> Sources],
           source' = [source EXCEPT ![f] = r]
    PROVE  /\ source' \in [Feeds -> Sources] /\ source'[f] = r
           /\ \A g \in Feeds \ {f} :
                /\ source'[g] = source[g]
                /\ \A s \in Steps : Within(g, s)' <=> Within(g, s)
BY DEF Within

LEMMA CrewStartKeeps ==
    ASSUME Tracked, Counters, NEW f \in Feeds, CrewStart(f)
    PROVE  Tracked'
<1>1. Types /\ QueueAccounted /\ Places /\ BusyHasTask /\ Owned  BY DEF Tracked
<1>2. /\ source' = [source EXCEPT ![f] = [stage |-> "idle"]]
      /\ known' = Stations
      /\ UNCHANGED <<agents, tasks, worker, depth, drain, leaked, mixed>>
      /\ IF source[f].stage \in {"off", "idle"} THEN kills' = kills ELSE kills' = kills + 1
  BY DEF CrewStart
<1>3. [stage |-> "idle"] \in Sources  BY DEF Sources
<1>4. /\ source' \in [Feeds -> Sources] /\ source'[f].stage = "idle"
      /\ \A g \in Feeds \ {f} :
           /\ source'[g] = source[g]
           /\ \A s \in Steps : Within(g, s)' <=> Within(g, s)
  BY <1>1, <1>2, <1>3, AdvanceIs DEF Types
<1>5. /\ \A s \in Steps : Open(s)' <=> Open(s)
      /\ \A st \in Stations : OpenAt(st)' = OpenAt(st)
      /\ \A s \in Steps : ~Within(f, s)'
  BY <1>2, <1>4 DEF Open, OpenAt, Within
<1>6. Types'  BY <1>1, <1>2, <1>4, <1>5 DEF Types
<1>7. QueueAccounted'  BY <1>1, <1>2, <1>5 DEF QueueAccounted
<1>8. BusyHasTask'  BY <1>1, <1>2, <1>5 DEF BusyHasTask
<1>9. Places'  BY <1>1, <1>2, <1>4, <1>5 DEF Places, Present
<1>10. Owned'
  <2>1. \A st \in Stations : leaked'[st] # 0 => mixed'  BY <1>1, <1>2 DEF Owned
  <2>2. ASSUME kills' = 0, ~mixed', NEW s \in Steps,
               (Open(s) \/ agents[s].state \in {"dispatched", "working"})'
        PROVE  \E g \in Feeds : Within(g, s)'
    <3>1. kills = 0 /\ source[f].stage \in {"off", "idle"}
      BY <1>2, <2>2 DEF Counters
    <3>2. PICK g \in Feeds : Within(g, s)  BY <1>1, <1>2, <1>5, <2>2, <3>1 DEF Owned
    <3>3. g # f  BY <3>1, <3>2 DEF Within
    <3> QED  BY <1>4, <3>2, <3>3
  <2> QED  BY <2>1, <2>2 DEF Owned
<1> QED  BY <1>6, <1>7, <1>8, <1>9, <1>10 DEF Tracked

\* What _ensure_agent returns.
LEMMA EnsuredIs ==
    ASSUME Types, NEW s \in Steps
    PROVE  /\ Ensured(s) \in Agents /\ Ensured(s).state # "absent"
           /\ s \in Present => Ensured(s) = agents[s]
           /\ s \notin Present => Ensured(s).state = "docked" /\ Ensured(s).station = NoStation
<1>1. agents[s] \in Agents  BY DEF Types
<1>2. CASE s \in Present  BY <1>1, <1>2 DEF Ensured, Present
<1>3. CASE s \notin Present
  <2>1. Ensured(s) = [AbsentAgent EXCEPT !.state = "docked"]  BY <1>3 DEF Ensured
  <2>2. Ensured(s) = [state |-> "docked", hold |-> FALSE, task |-> FALSE, station |-> NoStation]
    BY <2>1 DEF AbsentAgent
  <2> QED  BY <1>3, <2>2 DEF Agents, AgentStates
<1> QED  BY <1>2, <1>3

LEMMA OpenAtFinite == ASSUME NEW st PROVE IsFiniteSet(OpenAt(st))
<1>1. OpenAt(st) \in SUBSET Steps  BY DEF OpenAt
<1> QED  BY <1>1, FS_Subset, RuntimeFeedAssumption

\* The queue of an accepted task, new or overwriting one of the same id.
LEMMA QueueGrows ==
    ASSUME Types, QueueAccounted, NEW s \in Steps, NEW st \in Stations,
           tasks' = [tasks EXCEPT ![s] = [status |-> "queued", station |-> st]],
           depth' = [depth EXCEPT ![st] = depth[st] + 1],
           leaked' = IF Open(s)
                     THEN [leaked EXCEPT ![tasks[s].station] = leaked[tasks[s].station] + 1]
                     ELSE leaked
    PROVE  QueueAccounted'
<1>1. /\ tasks'[s].station = st /\ Open(s)'
      /\ \A x \in Steps \ {s} : tasks'[x] = tasks[x]
  BY DEF Types, Open
<1>2. ASSUME NEW t \in Stations
      PROVE  depth'[t] = Cardinality(OpenAt(t)') + leaked'[t]
  <2>1. depth[t] = Cardinality(OpenAt(t)) + leaked[t]  BY DEF QueueAccounted
  <2>2. /\ depth'[t] = IF t = st THEN depth[t] + 1 ELSE depth[t]
        /\ leaked[t] \in Nat
        /\ leaked'[t] = IF Open(s) /\ tasks[s].station = t THEN leaked[t] + 1 ELSE leaked[t]
    BY DEF Types
  <2>3. OpenAt(t)' = IF t = st THEN OpenAt(t) \cup {s} ELSE OpenAt(t) \ {s}
    BY <1>1 DEF OpenAt, Open
  <2>4. IsFiniteSet(OpenAt(t)) /\ Cardinality(OpenAt(t)) \in Nat
    BY OpenAtFinite, FS_CardinalityType
  <2>5. s \in OpenAt(t) <=> Open(s) /\ tasks[s].station = t  BY DEF OpenAt
  <2>6. Cardinality(OpenAt(t) \cup {s}) =
          IF s \in OpenAt(t) THEN Cardinality(OpenAt(t)) ELSE Cardinality(OpenAt(t)) + 1
    BY <2>4, FS_AddElement
  <2>7. Cardinality(OpenAt(t) \ {s}) =
          IF s \in OpenAt(t) THEN Cardinality(OpenAt(t)) - 1 ELSE Cardinality(OpenAt(t))
    BY <2>4, FS_RemoveElement
  <2>8. CASE t = st  BY <2>1, <2>2, <2>3, <2>4, <2>5, <2>6, <2>8
  <2>9. CASE t # st  BY <2>1, <2>2, <2>3, <2>4, <2>5, <2>7, <2>9
  <2> QED  BY <2>8, <2>9
<1> QED  BY <1>2 DEF QueueAccounted

LEMMA EnqueueKeeps ==
    ASSUME Tracked, NEW f \in Feeds, NEW s \in Steps, NEW st \in Stations, Enqueue(f, s, st)
    PROVE  Tracked'
<1>1. Types /\ QueueAccounted /\ Places /\ BusyHasTask /\ Owned  BY DEF Tracked
<1> DEFINE accepted == st \in known /\ Cardinality(Present) < MaxAgents
<1>2. PICK r : r = [stage |-> "enqueued", step |-> s, station |-> st]  OBVIOUS
<1>3. /\ source[f].stage = "idle" /\ source' = [source EXCEPT ![f] = r]
      /\ mixed' = (mixed \/ Open(s) \/ \E g \in Feeds : Within(g, s))
      /\ UNCHANGED <<known, worker, drain, kills>>
  BY <1>2 DEF Enqueue
<1>4. r \in Sources /\ r.stage = "enqueued" /\ r.step = s /\ r.station = st
  BY <1>2 DEF Sources
<1>5. /\ source' \in [Feeds -> Sources] /\ source'[f] = r
      /\ \A g \in Feeds \ {f} :
           /\ source'[g] = source[g]
           /\ \A x \in Steps : Within(g, x)' <=> Within(g, x)
  BY <1>1, <1>3, <1>4, AdvanceIs DEF Types
<1>6. \A x \in Steps : ~Within(f, x) /\ (Within(f, x)' <=> x = s)
  BY <1>3, <1>4, <1>5 DEF Within
<1>7. \/ UNCHANGED <<agents, tasks, depth, leaked>>
      \/ /\ agents' = [agents EXCEPT ![s] = Ensured(s)]
         /\ tasks' = [tasks EXCEPT ![s] = [status |-> "queued", station |-> st]]
         /\ depth' = [depth EXCEPT ![st] = depth[st] + 1]
         /\ leaked' = IF Open(s)
                      THEN [leaked EXCEPT ![tasks[s].station] = leaked[tasks[s].station] + 1]
                      ELSE leaked
  <2>1. CASE accepted  BY <2>1 DEF Enqueue
  <2>2. CASE ~accepted  BY <2>2 DEF Enqueue
  <2> QED  BY <2>1, <2>2
<1>8. /\ \A x \in Steps \ {s} : /\ tasks'[x] = tasks[x] /\ agents'[x] = agents[x]
                                /\ (Open(x)' <=> Open(x))
      /\ Open(s)' => Open(s) \/ tasks'[s].station = st
  BY <1>1, <1>7 DEF Types, Open
<1>9. Types'
  <2>1. [status |-> "queued", station |-> st] \in Tasks  BY DEF Tasks
  <2>2. agents' \in [Steps -> Agents] /\ tasks' \in [Steps -> Tasks]
    BY <1>1, <1>7, <2>1, EnsuredIs DEF Types
  <2>3. depth' \in [Stations -> Nat]  BY <1>1, <1>7 DEF Types
  <2>4. leaked' \in [Stations -> Nat]
    <3>1. CASE leaked' = leaked  BY <1>1, <3>1 DEF Types
    <3>2. CASE Open(s) /\ leaked' = [leaked EXCEPT ![tasks[s].station]
                                         = leaked[tasks[s].station] + 1]
      <4>1. tasks[s].station \in Stations  BY <1>1, <3>2 DEF Types
      <4> QED  BY <1>1, <3>2, <4>1 DEF Types
    <3> QED  BY <1>7, <3>1, <3>2
  <2>5. ASSUME NEW x \in Steps, Open(x)' PROVE tasks'[x].station \in Stations
    <3>1. CASE x # s  BY <1>1, <1>8, <2>5, <3>1 DEF Types
    <3>2. CASE x = s /\ UNCHANGED tasks  BY <1>1, <2>5, <3>2 DEF Types, Open
    <3>3. CASE x = s /\ tasks' = [tasks EXCEPT ![s] = [status |-> "queued", station |-> st]]
      BY <1>1, <3>3 DEF Types
    <3> QED  BY <1>7, <3>1, <3>2, <3>3
  <2>6. mixed' \in BOOLEAN  BY <1>1, <1>3 DEF Types
  <2>7. known' \in SUBSET Stations /\ worker' \in [Stations -> Steps \cup {NoWorker}]
        /\ drain' \in [Stations -> BOOLEAN]
    BY <1>1, <1>3 DEF Types
  <2> QED  BY <1>5, <2>2, <2>3, <2>4, <2>5, <2>6, <2>7 DEF Types
<1>10. QueueAccounted'
  <2>1. CASE UNCHANGED <<agents, tasks, depth, leaked>>
    BY <1>1, <2>1 DEF QueueAccounted, OpenAt, Open
  <2>2. CASE ~(UNCHANGED <<agents, tasks, depth, leaked>>)  BY <1>1, <1>7, <2>2, QueueGrows
  <2> QED  BY <2>1, <2>2
<1>11. Places'
  <2> SUFFICES ASSUME ~mixed'
               PROVE  /\ \A g, h \in Feeds, x \in Steps :
                            Within(g, x)' /\ Within(h, x)' => g = h
                      /\ \A g \in Feeds, x \in Steps : Within(g, x)' /\ Open(x)' =>
                          /\ tasks'[x].station = source'[g].station
                          /\ source'[g].stage # "enqueued" /\ agents'[x].state # "absent" =>
                                 agents'[x].station \in {source'[g].station, NoStation}
    BY DEF Places, Present
  <2>1. ~mixed /\ ~Open(s) /\ \A g \in Feeds : ~Within(g, s)  BY <1>3
  <2>2. ASSUME NEW g \in Feeds, NEW h \in Feeds, NEW x \in Steps, Within(g, x)', Within(h, x)'
        PROVE  g = h
    BY <1>1, <1>5, <1>6, <2>1, <2>2 DEF Places
  <2>3. ASSUME NEW g \in Feeds, NEW x \in Steps, Within(g, x)', Open(x)'
        PROVE  /\ tasks'[x].station = source'[g].station
               /\ source'[g].stage # "enqueued" /\ agents'[x].state # "absent" =>
                      agents'[x].station \in {source'[g].station, NoStation}
    <3>1. CASE g = f
      <4>1. x = s  BY <1>6, <2>3, <3>1
      <4> QED  BY <1>4, <1>5, <1>8, <2>1, <2>3, <3>1, <4>1
    <3>2. CASE g # f
      <4>1. Within(g, x) /\ x # s /\ source'[g] = source[g]  BY <1>5, <2>1, <2>3, <3>2
      <4>2. Open(x) /\ tasks'[x] = tasks[x] /\ agents'[x] = agents[x]  BY <1>8, <2>3, <4>1
      <4> QED  BY <1>1, <2>1, <4>1, <4>2 DEF Places, Present
    <3> QED  BY <3>1, <3>2
  <2> QED  BY <2>2, <2>3
<1>12. BusyHasTask'
  <2> SUFFICES ASSUME NEW t \in Stations, worker'[t] # NoWorker, ~mixed'
               PROVE  worker'[t] \in OpenAt(t)'
    BY DEF BusyHasTask
  <2>1. ~mixed /\ ~Open(s) /\ worker'[t] = worker[t]  BY <1>3
  <2>2. worker[t] \in OpenAt(t)  BY <1>1, <2>1 DEF BusyHasTask
  <2>3. worker[t] # s  BY <2>1, <2>2 DEF OpenAt
  <2> QED  BY <1>8, <2>1, <2>2, <2>3 DEF OpenAt
<1>13. Owned'
  <2>1. ASSUME NEW t \in Stations, leaked'[t] # 0 PROVE mixed'
    <3>1. CASE leaked' = leaked  BY <1>1, <1>3, <2>1, <3>1 DEF Owned
    <3>2. CASE Open(s)  BY <1>3, <3>2
    <3> QED  BY <1>7, <3>1, <3>2
  <2>2. ASSUME kills' = 0, ~mixed', NEW x \in Steps,
               (Open(x) \/ agents[x].state \in {"dispatched", "working"})'
        PROVE  \E g \in Feeds : Within(g, x)'
    <3>1. CASE x = s  BY <1>6, <3>1
    <3>2. CASE x # s
      <4>1. Open(x) \/ agents[x].state \in {"dispatched", "working"}  BY <1>8, <2>2, <3>2
      <4>2. kills = 0 /\ ~mixed  BY <1>3, <2>2
      <4>3. PICK g \in Feeds : Within(g, x)  BY <1>1, <4>1, <4>2 DEF Owned
      <4>4. g # f  BY <1>6, <4>3
      <4> QED  BY <1>5, <4>3, <4>4
    <3> QED  BY <3>1, <3>2
  <2> QED  BY <2>1, <2>2 DEF Owned
<1> QED  BY <1>9, <1>10, <1>11, <1>12, <1>13 DEF Tracked

\* A log that goes on with its task.
LEMMA GoesOn ==
    ASSUME Types, NEW f \in Feeds, NEW stage \in {"started", "working"},
           source[f].stage \in {"enqueued", "started", "working"}, Advance(f, stage)
    PROVE  /\ source' \in [Feeds -> Sources] /\ source'[f].stage = stage
           /\ source[f].step \in Steps /\ source[f].station \in Stations
           /\ source'[f].station = source[f].station
           /\ \A g \in Feeds : g # f => source'[g] = source[g]
           /\ \A g \in Feeds, s \in Steps : Within(g, s)' <=> Within(g, s)
<1>1. source[f] \in [stage : {"enqueued", "started", "working"}, step : Steps,
                     station : Stations]
  BY DEF Types, Sources
<1>2. PICK r : r = [source[f] EXCEPT !.stage = stage]  OBVIOUS
<1>3. /\ r \in Sources /\ r.stage = stage
      /\ r.step = source[f].step /\ r.station = source[f].station
  BY <1>1, <1>2 DEF Sources
<1>4. source' = [source EXCEPT ![f] = r]  BY <1>2 DEF Advance
<1>5. /\ source' \in [Feeds -> Sources] /\ source'[f] = r
      /\ \A g \in Feeds : g # f => source'[g] = source[g]
  BY <1>3, <1>4 DEF Types
<1>6. ASSUME NEW g \in Feeds, NEW s \in Steps
      PROVE  Within(g, s)' <=> Within(g, s)
  <2>1. CASE g = f  BY <1>3, <1>5, <2>1 DEF Within
  <2>2. CASE g # f  BY <1>5, <2>2 DEF Within
  <2> QED  BY <2>1, <2>2
<1> QED  BY <1>1, <1>3, <1>5, <1>6

LEMMA BeginKeeps ==
    ASSUME Tracked, NEW f \in Feeds, Begin(f)
    PROVE  Tracked'
<1>1. Types /\ QueueAccounted /\ Places /\ BusyHasTask /\ Owned  BY DEF Tracked
<1>2. PICK s : s = source[f].step  OBVIOUS
<1>3. /\ source[f].stage = "enqueued" /\ Advance(f, "started")
      /\ UNCHANGED <<known, worker, depth, drain, kills, leaked, mixed>>
  BY DEF Begin, stationVars
<1>4. /\ source' \in [Feeds -> Sources] /\ source'[f].stage = "started"
      /\ s \in Steps /\ source[f].station \in Stations
      /\ source'[f].station = source[f].station
      /\ \A g \in Feeds : g # f => source'[g] = source[g]
      /\ \A g \in Feeds, x \in Steps : Within(g, x)' <=> Within(g, x)
  BY <1>1, <1>2, <1>3, GoesOn
<1>5. Within(f, s)  BY <1>2, <1>3 DEF Within
<1>6. \/ /\ Open(s)
         /\ tasks' = [tasks EXCEPT ![s].status = "assigned"]
         /\ agents' = [agents EXCEPT ![s] = [Ensured(s) EXCEPT !.state = "dispatched",
                                                 !.task = TRUE, !.station = source[f].station]]
      \/ ~Open(s) /\ agents' = [agents EXCEPT ![s] = Ensured(s)] /\ tasks' = tasks
  BY <1>2 DEF Begin
<1>7. /\ Ensured(s) \in Agents
      /\ [Ensured(s) EXCEPT !.state = "dispatched", !.task = TRUE,
                            !.station = source[f].station] \in Agents
  BY <1>1, <1>4, EnsuredIs DEF Agents, AgentStates
<1>8. /\ agents' \in [Steps -> Agents]
      /\ Open(s) => agents'[s].station = source[f].station
      /\ \A x \in Steps \ {s} : agents'[x] = agents[x]
  <2>1. CASE Open(s)
    <3>1. PICK a : a = [Ensured(s) EXCEPT !.state = "dispatched", !.task = TRUE,
                                          !.station = source[f].station]
      OBVIOUS
    <3>2. Ensured(s) \in Agents  BY <1>7
    <3>3. a \in Agents /\ a.station = source[f].station  BY <1>7, <3>1, <3>2 DEF Agents
    <3>4. agents' = [agents EXCEPT ![s] = a]  BY <1>6, <2>1, <3>1
    <3> QED  BY <1>1, <1>4, <3>3, <3>4 DEF Types
  <2>2. CASE ~Open(s)  BY <1>1, <1>4, <1>6, <1>7, <2>2 DEF Types
  <2> QED  BY <2>1, <2>2
<1>9. /\ tasks' \in [Steps -> Tasks]
      /\ \A x \in Steps : tasks'[x].station = tasks[x].station /\ (Open(x)' <=> Open(x))
  <2>1. CASE Open(s)
    <3>1. tasks[s] \in Tasks  BY <1>1, <1>4 DEF Types
    <3>2. PICK t \in Tasks : /\ t = [tasks[s] EXCEPT !.status = "assigned"]
                             /\ t.status = "assigned" /\ t.station = tasks[s].station
      <4>1. /\ [tasks[s] EXCEPT !.status = "assigned"] \in Tasks
            /\ [tasks[s] EXCEPT !.status = "assigned"].status = "assigned"
            /\ [tasks[s] EXCEPT !.status = "assigned"].station = tasks[s].station
        BY <3>1 DEF Tasks
      <4> QED  BY <4>1
    <3>3. tasks \in [Steps -> Tasks] /\ s \in Steps  BY <1>1, <1>4 DEF Types
    <3>4. tasks' = [tasks EXCEPT ![s] = t]  BY <1>6, <2>1, <3>2, <3>3
    <3>5. /\ tasks' \in [Steps -> Tasks] /\ tasks'[s].status = "assigned"
          /\ tasks'[s].station = tasks[s].station
          /\ \A x \in Steps : x # s => tasks'[x] = tasks[x]
      BY <3>2, <3>3, <3>4
    <3> QED  BY <2>1, <3>5 DEF Open
  <2>2. CASE ~Open(s)  BY <1>1, <1>6, <2>2 DEF Types, Open
  <2> QED  BY <2>1, <2>2
<1>10. \A t \in Stations : OpenAt(t)' = OpenAt(t)  BY <1>9 DEF OpenAt
<1>11. Types'  BY <1>1, <1>3, <1>4, <1>8, <1>9 DEF Types
<1>12. QueueAccounted'  BY <1>1, <1>3, <1>10 DEF QueueAccounted
<1>13. BusyHasTask'  BY <1>1, <1>3, <1>10 DEF BusyHasTask
<1>14. Places'
  <2> SUFFICES ASSUME ~mixed
               PROVE  /\ \A g, h \in Feeds, x \in Steps :
                            Within(g, x) /\ Within(h, x) => g = h
                      /\ \A g \in Feeds, x \in Steps : Within(g, x) /\ Open(x) =>
                          /\ tasks[x].station = source'[g].station
                          /\ source'[g].stage # "enqueued" /\ agents'[x].state # "absent" =>
                                 agents'[x].station \in {source'[g].station, NoStation}
    BY <1>3, <1>4, <1>9 DEF Places, Present
  <2>1. \A g, h \in Feeds, x \in Steps : Within(g, x) /\ Within(h, x) => g = h
    BY <1>1 DEF Places
  <2>2. ASSUME NEW g \in Feeds, NEW x \in Steps, Within(g, x), Open(x)
        PROVE  /\ tasks[x].station = source'[g].station
               /\ source'[g].stage # "enqueued" /\ agents'[x].state # "absent" =>
                      agents'[x].station \in {source'[g].station, NoStation}
    <3>1. tasks[x].station = source[g].station  BY <1>1, <2>2 DEF Places
    <3>2. CASE g = f
      <4>1. x = s  BY <1>2, <2>2, <3>2 DEF Within
      <4> QED  BY <1>4, <1>8, <2>2, <3>1, <3>2, <4>1
    <3>3. CASE g # f
      <4>1. x # s  BY <1>4, <1>5, <2>1, <2>2, <3>3
      <4> QED  BY <1>1, <1>4, <1>8, <2>2, <3>1, <3>3, <4>1 DEF Places, Present
    <3> QED  BY <3>2, <3>3
  <2> QED  BY <2>1, <2>2
<1>15. Owned'
  <2>1. \A t \in Stations : leaked'[t] # 0 => mixed'  BY <1>1, <1>3 DEF Owned
  <2>2. ASSUME kills' = 0, ~mixed', NEW x \in Steps,
               (Open(x) \/ agents[x].state \in {"dispatched", "working"})'
        PROVE  \E g \in Feeds : Within(g, x)'
    <3>1. CASE x = s  BY <1>4, <1>5, <3>1
    <3>2. CASE x # s  BY <1>1, <1>3, <1>4, <1>8, <1>9, <2>2, <3>2 DEF Owned
    <3> QED  BY <3>1, <3>2
  <2> QED  BY <2>1, <2>2 DEF Owned
<1> QED  BY <1>11, <1>12, <1>13, <1>14, <1>15 DEF Tracked

LEMMA ProgressKeeps ==
    ASSUME Tracked, NEW f \in Feeds, Progress(f)
    PROVE  Tracked'
<1>1. Types /\ QueueAccounted /\ Places /\ BusyHasTask /\ Owned  BY DEF Tracked
<1>2. PICK s : s = source[f].step  OBVIOUS
<1>3. /\ source[f].stage \in {"started", "working"} /\ Advance(f, "working")
      /\ UNCHANGED <<known, depth, drain, kills, leaked, mixed>>
  BY DEF Progress
<1>4. /\ source' \in [Feeds -> Sources] /\ source'[f].stage = "working"
      /\ s \in Steps
      /\ source'[f].station = source[f].station
      /\ \A g \in Feeds : g # f => source'[g] = source[g]
      /\ \A g \in Feeds, x \in Steps : Within(g, x)' <=> Within(g, x)
  BY <1>1, <1>2, <1>3, GoesOn
<1>5. Within(f, s)  BY <1>2, <1>3 DEF Within
<1>6. \/ UNCHANGED <<agents, tasks, worker>>
      \/ /\ Open(s) /\ s \in Present
         /\ agents' = [agents EXCEPT ![s].state = "working"]
         /\ tasks' = [tasks EXCEPT ![s].status = "running"]
         /\ worker' = IF agents[s].station \in known
                      THEN [worker EXCEPT ![agents[s].station] = s] ELSE worker
  BY <1>2 DEF Progress
<1>7. agents[s] \in Agents /\ tasks[s] \in Tasks  BY <1>1, <1>4 DEF Types
<1>8. /\ agents' \in [Steps -> Agents] /\ tasks' \in [Steps -> Tasks]
      /\ \A x \in Steps : agents'[x].station = agents[x].station
                          /\ tasks'[x].station = tasks[x].station
      /\ \A x \in Steps : x # s => agents'[x] = agents[x]
      /\ \A x \in Steps : agents'[x].state # "absent" => agents[x].state # "absent"
      /\ \A x \in Steps : Open(x)' <=> Open(x)
  <2>1. CASE UNCHANGED <<agents, tasks>>  BY <1>1, <2>1 DEF Types, Open
  <2>2. CASE /\ Open(s) /\ s \in Present
             /\ agents' = [agents EXCEPT ![s].state = "working"]
             /\ tasks' = [tasks EXCEPT ![s].status = "running"]
    <3>1. /\ [agents[s] EXCEPT !.state = "working"] \in Agents
          /\ [tasks[s] EXCEPT !.status = "running"] \in Tasks
      BY <1>7 DEF Agents, AgentStates, Tasks
    <3>2. agents' \in [Steps -> Agents] /\ tasks' \in [Steps -> Tasks]
      BY <1>1, <2>2, <3>1 DEF Types
    <3>3. agents'[s].station = agents[s].station /\ tasks'[s].station = tasks[s].station
          /\ tasks'[s].status = "running"
      BY <1>1, <1>4, <1>7, <2>2 DEF Types, Agents, Tasks
    <3>4. \A x \in Steps : x # s => agents'[x] = agents[x] /\ tasks'[x] = tasks[x]
      BY <1>1, <2>2 DEF Types
    <3>5. Open(s)' /\ agents[s].state # "absent"  BY <2>2, <3>3 DEF Open, Present
    <3> QED  BY <2>2, <3>2, <3>3, <3>4, <3>5 DEF Open
  <2> QED  BY <1>6, <2>1, <2>2
<1>9. \A t \in Stations : OpenAt(t)' = OpenAt(t)  BY <1>8 DEF OpenAt
<1>10. worker' \in [Stations -> Steps \cup {NoWorker}]  BY <1>1, <1>4, <1>6 DEF Types
<1>11. Types'  BY <1>1, <1>3, <1>4, <1>8, <1>10 DEF Types
<1>12. QueueAccounted'  BY <1>1, <1>3, <1>9 DEF QueueAccounted
<1>13. BusyHasTask'
  <2> SUFFICES ASSUME NEW t \in Stations, worker'[t] # NoWorker, ~mixed
               PROVE  worker'[t] \in OpenAt(t)
    BY <1>3, <1>9 DEF BusyHasTask
  <2>1. CASE worker'[t] = worker[t]  BY <1>1, <2>1 DEF BusyHasTask
  <2>2. CASE worker'[t] # worker[t]
    <3>1. Open(s) /\ s \in Present /\ worker'[t] = s /\ t = agents[s].station
      BY <1>1, <1>6, <2>2 DEF Types
    <3>2. t \in {source[f].station, NoStation} /\ tasks[s].station = source[f].station
      BY <1>1, <1>3, <1>4, <1>5, <3>1 DEF Places
    <3>3. t # NoStation  BY RuntimeFeedAssumption
    <3> QED  BY <1>4, <3>1, <3>2, <3>3 DEF OpenAt
  <2> QED  BY <2>1, <2>2
<1>14. Places'
  <2> SUFFICES ASSUME ~mixed
               PROVE  /\ \A g, h \in Feeds, x \in Steps :
                            Within(g, x) /\ Within(h, x) => g = h
                      /\ \A g \in Feeds, x \in Steps : Within(g, x) /\ Open(x) =>
                          /\ tasks[x].station = source'[g].station
                          /\ source'[g].stage # "enqueued" /\ agents'[x].state # "absent" =>
                                 agents[x].station \in {source'[g].station, NoStation}
    BY <1>3, <1>4, <1>8 DEF Places, Present
  <2>1. \A g \in Feeds : /\ source'[g].station = source[g].station
                         /\ source'[g].stage # "enqueued" => source[g].stage # "enqueued"
    BY <1>3, <1>4
  <2> QED  BY <1>1, <1>8, <2>1 DEF Places, Present
<1>15. Owned'
  <2>1. \A t \in Stations : leaked'[t] # 0 => mixed'  BY <1>1, <1>3 DEF Owned
  <2>2. ASSUME kills' = 0, ~mixed', NEW x \in Steps,
               (Open(x) \/ agents[x].state \in {"dispatched", "working"})'
        PROVE  \E g \in Feeds : Within(g, x)'
    <3>1. CASE x = s  BY <1>4, <1>5, <3>1
    <3>2. CASE x # s  BY <1>1, <1>3, <1>4, <1>8, <2>2, <3>2 DEF Owned
    <3> QED  BY <3>1, <3>2
  <2> QED  BY <2>1, <2>2 DEF Owned
<1> QED  BY <1>11, <1>12, <1>13, <1>14, <1>15 DEF Tracked

\* The queue, the worker and the place of a task that ends.
LEMMA TaskEnds ==
    ASSUME Types, QueueAccounted, NEW s \in Steps, Open(s), NEW st, st = tasks[s].station,
           tasks' = [tasks EXCEPT ![s] = AbsentTask],
           depth' = [depth EXCEPT ![st] = IF depth[st] > 0 THEN depth[st] - 1 ELSE 0],
           leaked' = leaked
    PROVE  QueueAccounted' /\ depth' \in [Stations -> Nat]
<1>1. st \in Stations /\ s \in OpenAt(st)  BY DEF Types, OpenAt
<1>2. tasks'[s].status = "absent" /\ \A x \in Steps \ {s} : tasks'[x] = tasks[x]
  BY DEF Types, AbsentTask
<1>3. ASSUME NEW t \in Stations
      PROVE  depth'[t] = Cardinality(OpenAt(t)') + leaked'[t] /\ depth'[t] \in Nat
  <2>1. /\ depth[t] = Cardinality(OpenAt(t)) + leaked[t]
        /\ depth[t] \in Nat /\ leaked[t] \in Nat
    BY DEF QueueAccounted, Types
  <2>2. depth'[t] = IF t = st THEN (IF depth[t] > 0 THEN depth[t] - 1 ELSE 0) ELSE depth[t]
    BY <1>1 DEF Types
  <2>3. OpenAt(t)' = OpenAt(t) \ {s}  BY <1>2 DEF OpenAt, Open
  <2>4. IsFiniteSet(OpenAt(t)) /\ Cardinality(OpenAt(t)) \in Nat
    BY OpenAtFinite, FS_CardinalityType
  <2>5. s \in OpenAt(t) <=> t = st  BY <1>1 DEF OpenAt
  <2>6. /\ Cardinality(OpenAt(t) \ {s}) =
             IF s \in OpenAt(t) THEN Cardinality(OpenAt(t)) - 1 ELSE Cardinality(OpenAt(t))
        /\ IsFiniteSet(OpenAt(t) \ {s})
    BY <2>4, FS_RemoveElement
  <2>7. Cardinality(OpenAt(t) \ {s}) \in Nat  BY <2>6, FS_CardinalityType
  <2>8. CASE t = st
    <3>1. depth[t] > 0  BY <2>1, <2>4, <2>5, <2>6, <2>7, <2>8
    <3> QED  BY <2>1, <2>2, <2>3, <2>4, <2>5, <2>6, <2>8, <3>1
  <2>9. CASE t # st  BY <2>1, <2>2, <2>3, <2>5, <2>6, <2>9
  <2> QED  BY <2>8, <2>9
<1>4. depth' \in [Stations -> Nat]  BY <1>3 DEF Types
<1> QED  BY <1>3, <1>4 DEF QueueAccounted

LEMMA CompleteKeeps ==
    ASSUME Tracked, NEW f \in Feeds, Complete(f)
    PROVE  Tracked'
<1>1. Types /\ QueueAccounted /\ Places /\ BusyHasTask /\ Owned  BY DEF Tracked
<1>2. PICK s : s = source[f].step  OBVIOUS
<1>3. PICK st : st = tasks[s].station  OBVIOUS
<1>4. /\ source[f].stage = "working" /\ source' = [source EXCEPT ![f] = [stage |-> "idle"]]
      /\ UNCHANGED <<known, drain, kills, leaked, mixed>>
  BY DEF Complete
<1>5. [stage |-> "idle"] \in Sources  BY DEF Sources
<1>6. /\ source' \in [Feeds -> Sources] /\ source'[f].stage = "idle"
      /\ \A g \in Feeds \ {f} :
           /\ source'[g] = source[g]
           /\ \A x \in Steps : Within(g, x)' <=> Within(g, x)
  BY <1>1, <1>4, <1>5, AdvanceIs DEF Types
<1>7. \A x \in Steps : ~Within(f, x)'  BY <1>6 DEF Within
<1>8. s \in Steps /\ Within(f, s)
  <2>1. source[f] \in Sources  BY <1>1 DEF Types
  <2>2. s \in Steps  BY <1>2, <1>4, <2>1 DEF Sources
  <2> QED  BY <1>2, <1>4, <2>2 DEF Within
<1>9. \/ /\ Open(s)
         /\ tasks' = [tasks EXCEPT ![s] = AbsentTask]
         /\ depth' = [depth EXCEPT ![st] = IF depth[st] > 0 THEN depth[st] - 1 ELSE 0]
         /\ worker' = [worker EXCEPT ![st] = IF worker[st] = s THEN NoWorker ELSE worker[st]]
      \/ ~Open(s) /\ UNCHANGED <<tasks, depth, worker>>
  BY <1>2, <1>3 DEF Complete
<1>10. /\ agents' \in [Steps -> Agents]
       /\ \A x \in Steps : x # s => agents'[x] = agents[x]
       /\ agents'[s].state \notin {"dispatched", "working"}
  <2>1. agents[s] \in Agents  BY <1>1, <1>8 DEF Types
  <2>2. CASE s \in Present
    <3>1. agents' = [agents EXCEPT ![s].state = "returning", ![s].task = FALSE]
      BY <1>2, <2>2 DEF Complete
    <3>2. [agents[s] EXCEPT !.state = "returning", !.task = FALSE] \in Agents
      BY <2>1 DEF Agents, AgentStates
    <3> QED  BY <1>1, <1>8, <2>1, <3>1, <3>2 DEF Types, Agents
  <2>3. CASE s \notin Present
    <3>1. agents' = agents /\ agents[s].state = "absent"
      BY <1>2, <1>8, <2>3 DEF Complete, Present
    <3> QED  BY <1>1, <3>1 DEF Types
  <2> QED  BY <2>2, <2>3
<1>11. /\ tasks' \in [Steps -> Tasks] /\ ~Open(s)'
       /\ \A x \in Steps : x # s => tasks'[x] = tasks[x] /\ (Open(x)' <=> Open(x))
  <2>1. AbsentTask \in Tasks /\ AbsentTask.status = "absent"  BY DEF AbsentTask, Tasks
  <2> QED  BY <1>1, <1>8, <1>9, <2>1 DEF Types, Open
<1>12. worker' \in [Stations -> Steps \cup {NoWorker}]  BY <1>1, <1>9 DEF Types
<1>13. QueueAccounted' /\ depth' \in [Stations -> Nat]
  <2>1. CASE Open(s)  BY <1>1, <1>3, <1>4, <1>8, <1>9, <2>1, TaskEnds
  <2>2. CASE ~Open(s)  BY <1>1, <1>4, <1>9, <2>2 DEF QueueAccounted, OpenAt, Open, Types
  <2> QED  BY <2>1, <2>2
<1>14. Types'  BY <1>1, <1>4, <1>6, <1>10, <1>11, <1>12, <1>13 DEF Types
<1>15. BusyHasTask'
  <2> SUFFICES ASSUME NEW t \in Stations, worker'[t] # NoWorker, ~mixed
               PROVE  worker'[t] \in OpenAt(t)'
    BY <1>4 DEF BusyHasTask
  <2>1. worker'[t] = worker[t] /\ worker[t] # NoWorker  BY <1>1, <1>9 DEF Types
  <2>2. worker[t] \in OpenAt(t)  BY <1>1, <2>1 DEF BusyHasTask
  <2>3. worker[t] # s
    <3>1. SUFFICES ASSUME worker[t] = s PROVE FALSE
      OBVIOUS
    <3>2. Open(s) /\ t = st  BY <1>3, <2>2, <3>1 DEF OpenAt
    <3>3. worker'[t] = NoWorker  BY <1>1, <1>9, <3>1, <3>2 DEF Types
    <3> QED  BY <3>3
  <2> QED  BY <1>11, <2>1, <2>2, <2>3 DEF OpenAt
<1>16. Places'
  <2> SUFFICES ASSUME ~mixed
               PROVE  /\ \A g, h \in Feeds, x \in Steps :
                            Within(g, x)' /\ Within(h, x)' => g = h
                      /\ \A g \in Feeds, x \in Steps : Within(g, x)' /\ Open(x)' =>
                          /\ tasks'[x].station = source'[g].station
                          /\ source'[g].stage # "enqueued" /\ agents'[x].state # "absent" =>
                                 agents'[x].station \in {source'[g].station, NoStation}
    BY <1>4 DEF Places, Present
  <2>1. \A g, h \in Feeds, x \in Steps : Within(g, x) /\ Within(h, x) => g = h
    BY <1>1 DEF Places
  <2>2. ASSUME NEW g \in Feeds, NEW x \in Steps, Within(g, x)', Open(x)'
        PROVE  /\ tasks'[x].station = source'[g].station
               /\ source'[g].stage # "enqueued" /\ agents'[x].state # "absent" =>
                      agents'[x].station \in {source'[g].station, NoStation}
    <3>1. g # f /\ x # s  BY <1>7, <1>11, <2>2
    <3>2. Within(g, x) /\ Open(x) /\ source'[g] = source[g]  BY <1>6, <1>11, <2>2, <3>1
    <3>3. tasks'[x] = tasks[x] /\ agents'[x] = agents[x]  BY <1>10, <1>11, <3>1
    <3> QED  BY <1>1, <3>2, <3>3 DEF Places, Present
  <2>3. ASSUME NEW g \in Feeds, NEW h \in Feeds, NEW x \in Steps, Within(g, x)', Within(h, x)'
        PROVE  g = h
    BY <1>6, <1>7, <2>1, <2>3
  <2> QED  BY <2>2, <2>3
<1>17. Owned'
  <2>1. \A t \in Stations : leaked'[t] # 0 => mixed'  BY <1>1, <1>4 DEF Owned
  <2>2. ASSUME kills' = 0, ~mixed', NEW x \in Steps,
               (Open(x) \/ agents[x].state \in {"dispatched", "working"})'
        PROVE  \E g \in Feeds : Within(g, x)'
    <3>1. x # s  BY <1>10, <1>11, <2>2
    <3>2. Open(x) \/ agents[x].state \in {"dispatched", "working"}
      BY <1>10, <1>11, <2>2, <3>1
    <3>3. kills = 0 /\ ~mixed  BY <1>4, <2>2
    <3>4. PICK g \in Feeds : Within(g, x)  BY <1>1, <3>2, <3>3 DEF Owned
    <3>5. g # f  BY <1>2, <3>1, <3>4 DEF Within
    <3> QED  BY <1>6, <3>4, <3>5
  <2> QED  BY <2>1, <2>2 DEF Owned
<1> QED  BY <1>13, <1>14, <1>15, <1>16, <1>17 DEF Tracked

-----------------------------------------------------------------------------
(* The theorems                                                            *)

LEMMA StepPreserves == IInv /\ [Next]_vars => IInv'
<1> SUFFICES ASSUME IInv, [Next]_vars PROVE IInv'
  OBVIOUS
<1>1. Tracked /\ Counters /\ Types  BY DEF IInv, Tracked
<1>2. Counters'  BY <1>1, CountersKept
<1>3. Tracked'
  <2>1. ASSUME NEW f \in Feeds, Ingest(f) PROVE Tracked'
    BY <1>1, <2>1, CrewStartKeeps, BeginKeeps, ProgressKeeps, CompleteKeeps, EnqueueKeeps
       DEF Ingest
  <2>2. CASE Operate  BY <1>1, <2>2, OperateIsAside, AsideKeeps
  <2>3. CASE \/ \E s \in Steps : Dock(s)
             \/ \E th \in Threads : FilterWindow(th) \/ ReplaceWindow(th)
             \/ UNCHANGED vars
    <3>1. Aside  BY <1>1, <2>3, OthersAreAside
    <3> QED  BY <1>1, <3>1, AsideKeeps
  <2> QED  BY <2>1, <2>2, <2>3 DEF Next
<1> QED  BY <1>2, <1>3 DEF IInv, Tracked

\* The inductive invariant holds in every state.
THEOREM Invariance == Spec => []IInv
BY InitEstablishes, StepPreserves, PTL DEF Spec

\* Every variable stays in its range, and the completion window never counts a task
\* twice, for any number of logs, tasks, threads and commands.
THEOREM TypeCorrect == Spec => []TypeOK
<1>1. IInv => TypeOK
  <2> SUFFICES ASSUME Types, Counters PROVE TypeOK
    BY DEF IInv
  <2>1. ASSUME NEW f \in Feeds
        PROVE  /\ source[f].stage \in Stages
               /\ source[f].stage \notin {"off", "idle"} =>
                      source[f].step \in Steps /\ source[f].station \in Stations
    <3>1. source[f] \in Sources  BY DEF Types
    <3> QED  BY <3>1 DEF Sources, Stages
  <2>2. copies \in [Threads -> SUBSET Nat]  BY DEF Counters
  <2> QED  BY <2>1, <2>2 DEF TypeOK, Types, Counters
<1> QED  BY <1>1, Invariance, PTL

\* Whatever logs interleave, are cut off or collide, and whatever the operator does, a
\* station's queue is its unfinished tasks and those that were overwritten.
THEOREM QueuesAccounted == Spec => []QueueAccounted
<1>1. IInv => QueueAccounted  BY DEF IInv
<1> QED  BY <1>1, Invariance, PTL

\* As long as no id was used twice at once, a busy station's worker has an unfinished
\* task there, however many runs are cut off and drones recalled or retired.
THEOREM BusyStationsWork == Spec => []BusyHasTask
<1>1. IInv => BusyHasTask  BY DEF IInv
<1> QED  BY <1>1, Invariance, PTL

\* A crew that is not under way leaves nothing on the surface.
THEOREM QuietCrewsLeaveNothing == Spec => []QuietMeansClean
<1>1. IInv => QuietMeansClean
  <2> SUFFICES ASSUME IInv, kills = 0, ~mixed,
                      \A f \in Feeds : source[f].stage \in {"off", "idle"}
               PROVE  /\ \A s \in Steps : ~Open(s)
                      /\ \A st \in Stations : depth[st] = 0 /\ worker[st] = NoWorker
                      /\ \A s \in Steps : agents[s].state \notin {"dispatched", "working"}
    BY DEF QuietMeansClean
  <2>1. \A f \in Feeds, s \in Steps : ~Within(f, s)  BY DEF Within
  <2>2. \A s \in Steps : ~Open(s) /\ agents[s].state \notin {"dispatched", "working"}
    BY <2>1 DEF IInv, Owned
  <2>3. \A st \in Stations : OpenAt(st) = {}  BY <2>2 DEF OpenAt
  <2>4. ASSUME NEW st \in Stations PROVE depth[st] = 0 /\ worker[st] = NoWorker
    <3>1. Cardinality(OpenAt(st)) = 0  BY <2>3, FS_EmptySet
    <3>2. leaked[st] = 0  BY DEF IInv, Owned
    <3>3. depth[st] = 0  BY <3>1, <3>2 DEF IInv, QueueAccounted
    <3>4. worker[st] = NoWorker  BY <2>3 DEF IInv, BusyHasTask
    <3> QED  BY <3>3, <3>4
  <2> QED  BY <2>2, <2>4
<1> QED  BY <1>1, Invariance, PTL
=============================================================================
