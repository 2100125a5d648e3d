---------------------------- MODULE RuntimeFeed -----------------------------
(***************************************************************************)
(* RuntimeCrewCollector (control_surface/collector/runtime_feed.py): the   *)
(* crew feed projected onto agents ("drones"), stations and tasks.         *)
(*                                                                         *)
(* Three threads share the model: the tail thread ingests the lines of the *)
(* feed logs, the ticker docks drones and reads the metrics, and the       *)
(* server thread runs operator commands and snapshots.  One lock makes     *)
(* each mutation an atomic step; _metrics rewrites the completion window   *)
(* outside it, in two.                                                     *)
(*                                                                         *)
(* A feed log is what module Benchmark writes: the tasks of a run one at a *)
(* time, cut off anywhere by a crew_start when the process was killed.     *)
(* Several logs (feed_glob) interleave, and their ids collide: step s is   *)
(* task "t_s" of agent "drone-s" in all of them.  A simulated wave is one  *)
(* log per station.  The run fits in the 60 s window: nothing expires.     *)
(***************************************************************************)
EXTENDS Naturals, FiniteSets, Functions

CONSTANTS
    Steps,          \* step ids; also the tasks and the agents named after them
    Stations,       \* the stations the plans of the runs name
    Registered,     \* those the registry predicts
    NoStation, NoWorker,
    Feeds,          \* the feed logs tailed
    Threads,        \* the threads that read the metrics: ticker, server
    MaxAgents,      \* MAX_AGENTS
    MaxTasks,       \* bound: tasks the logs open
    MaxKills,       \* bound: runs cut off with a task open
    MaxReads,       \* bound: times the metrics are read
    MaxCommands     \* bound: operator commands

ASSUME RuntimeFeedAssumption ==
    /\ Registered \subseteq Stations
    /\ NoStation \notin Stations
    /\ NoWorker \notin Steps
    /\ IsFiniteSet(Steps)
    /\ MaxAgents \in Nat
    /\ MaxTasks \in Nat
    /\ MaxKills \in Nat
    /\ MaxReads \in Nat
    /\ MaxCommands \in Nat

VARIABLES
    agents,     \* self.agents
    tasks,      \* self.tasks
    known,      \* stations in self.stations
    worker,     \* worker_agent_id per station; its state is busy iff set
    depth,      \* queue_depth per station
    drain,      \* drain per station
    source,     \* where each feed log is: its open task and how far it got
    window,     \* len(self._completions)
    copies,     \* the filtered window a thread inside _metrics holds
    opened, kills, reads, commands,     \* counters of the bounds
    leaked,     \* history: unfinished tasks of a station that were overwritten
    mixed,      \* history: a task was enqueued while one of its id was open or
                \* another log was at it
    ended       \* history: tasks completed, well or not

stationVars == <<known, worker, depth, drain>>
metricVars == <<window, copies, reads, ended>>
vars == <<agents, tasks, stationVars, source, metricVars, opened, kills, commands,
          leaked, mixed>>

-----------------------------------------------------------------------------
AgentStates == {"docked", "dispatched", "working", "returning"}

\* task: task_id is set.
Agents == [state : AgentStates \cup {"absent"}, hold : BOOLEAN, task : BOOLEAN,
           station : Stations \cup {NoStation}]

AbsentAgent == [state |-> "absent", hold |-> FALSE, task |-> FALSE,
                station |-> NoStation]

Tasks == [status : {"absent", "queued", "assigned", "running"},
          station : Stations \cup {NoStation}]

AbsentTask == [status |-> "absent", station |-> NoStation]

Stages == {"off", "idle", "enqueued", "started", "working"}

Init ==
    /\ agents = [s \in Steps |-> AbsentAgent]
    /\ tasks = [s \in Steps |-> AbsentTask]
    /\ known = Registered
    /\ worker = [st \in Stations |-> NoWorker]
    /\ depth = [st \in Stations |-> 0]
    /\ drain = [st \in Stations |-> FALSE]
    /\ source = [f \in Feeds |-> [stage |-> "off"]]
    /\ window = 0
    /\ copies = [th \in Threads |-> {}]
    /\ opened = 0 /\ kills = 0 /\ reads = 0 /\ commands = 0
    /\ leaked = [st \in Stations |-> 0]
    /\ mixed = FALSE
    /\ ended = 0

Present == {s \in Steps : agents[s].state # "absent"}
Open(s) == tasks[s].status # "absent"

\* Log f is between the task_enqueue and the task_complete of s.
Within(f, s) == source[f].stage \notin {"off", "idle"} /\ source[f].step = s

\* _ensure_agent: an agent is added docked, with no look at MAX_AGENTS.
Ensured(s) == IF s \in Present THEN agents[s]
              ELSE [AbsentAgent EXCEPT !.state = "docked"]

Advance(f, stage) == source' = [source EXCEPT ![f].stage = stage]

-----------------------------------------------------------------------------
(* ingest: one line of a feed log                                          *)

\* crew_start: stations the registry did not predict are added.  A log whose
\* writer was killed and launched again gets here with a task open.
CrewStart(f) ==
    /\ source[f].stage \in {"off", "idle"} \/ kills < MaxKills
    /\ kills' = IF source[f].stage \in {"off", "idle"} THEN kills ELSE kills + 1
    /\ source' = [source EXCEPT ![f] = [stage |-> "idle"]]
    /\ known' = Stations
    /\ UNCHANGED <<agents, tasks, worker, depth, drain, metricVars, opened,
                   commands, leaked, mixed>>

\* Fault: a task enqueued again is not counted again.
EnqueueCountingOnce(f, s, st) ==
    /\ source[f].stage = "idle"
    /\ opened < MaxTasks
    /\ opened' = opened + 1
    /\ source' = [source EXCEPT ![f] =
          [stage |-> "enqueued", step |-> s, station |-> st]]
    /\ mixed' = (mixed \/ Open(s) \/ \E g \in Feeds : Within(g, s))
    /\ IF st \in known /\ Cardinality(Present) < MaxAgents
       THEN /\ agents' = [agents EXCEPT ![s] = Ensured(s)]
            /\ tasks' = [tasks EXCEPT ![s] = [status |-> "queued", station |-> st]]
            /\ IF Open(s)
               THEN /\ leaked' = [leaked EXCEPT ![tasks[s].station] = @ + 1]
                    /\ UNCHANGED depth
               ELSE /\ depth' = [depth EXCEPT ![st] = @ + 1]
                    /\ UNCHANGED leaked
       ELSE UNCHANGED <<agents, tasks, depth, leaked>>
    /\ UNCHANGED <<known, worker, drain, metricVars, kills, commands>>

\* enqueue: dropped at an unknown station and, even for an agent that is there
\* already, when the roster is full.  A task of the same id is overwritten, and
\* its station keeps counting it.
Enqueue(f, s, st) ==
    /\ source[f].stage = "idle"
    /\ opened < MaxTasks
    /\ opened' = opened + 1
    /\ source' = [source EXCEPT ![f] =
          [stage |-> "enqueued", step |-> s, station |-> st]]
    /\ mixed' = (mixed \/ Open(s) \/ \E g \in Feeds : Within(g, s))
    /\ IF st \in known /\ Cardinality(Present) < MaxAgents
       THEN /\ agents' = [agents EXCEPT ![s] = Ensured(s)]
            /\ tasks' = [tasks EXCEPT ![s] = [status |-> "queued", station |-> st]]
            /\ depth' = [depth EXCEPT ![st] = @ + 1]
            /\ IF Open(s) THEN leaked' = [leaked EXCEPT ![tasks[s].station] = @ + 1]
                          ELSE UNCHANGED leaked
       ELSE UNCHANGED <<agents, tasks, depth, leaked>>
    /\ UNCHANGED <<known, worker, drain, metricVars, kills, commands>>

\* Fault: the agent is given the task's status.
BeginMixingStates(f) ==
    /\ source[f].stage = "enqueued"
    /\ Advance(f, "started")
    /\ LET s == source[f].step IN
       IF Open(s)
       THEN /\ tasks' = [tasks EXCEPT ![s].status = "assigned"]
            /\ agents' = [agents EXCEPT ![s] =
                  [Ensured(s) EXCEPT !.state = "assigned", !.task = TRUE,
                                     !.station = source[f].station]]
       ELSE /\ agents' = [agents EXCEPT ![s] = Ensured(s)]
            /\ UNCHANGED tasks
    /\ UNCHANGED <<stationVars, metricVars, opened, kills, commands, leaked,
                   mixed>>

\* begin: the agent is added before the task is looked up.
Begin(f) ==
    /\ source[f].stage = "enqueued"
    /\ Advance(f, "started")
    /\ LET s == source[f].step IN
       IF Open(s)
       THEN /\ tasks' = [tasks EXCEPT ![s].status = "assigned"]
            /\ agents' = [agents EXCEPT ![s] =
                  [Ensured(s) EXCEPT !.state = "dispatched", !.task = TRUE,
                                     !.station = source[f].station]]
       ELSE /\ agents' = [agents EXCEPT ![s] = Ensured(s)]
            /\ UNCHANGED tasks
    /\ UNCHANGED <<stationVars, metricVars, opened, kills, commands, leaked,
                   mixed>>

\* progress: the first one makes the agent's station busy, wherever the agent
\* had been recalled to; nothing happens to a retired agent.
Progress(f) ==
    /\ source[f].stage \in {"started", "working"}
    /\ Advance(f, "working")
    /\ LET s == source[f].step
           st == agents[s].station
       IN IF Open(s) /\ s \in Present /\ agents[s].state # "working"
          THEN /\ agents' = [agents EXCEPT ![s].state = "working"]
               /\ tasks' = [tasks EXCEPT ![s].status = "running"]
               /\ IF st \in known THEN worker' = [worker EXCEPT ![st] = s]
                                  ELSE UNCHANGED worker
          ELSE UNCHANGED <<agents, tasks, worker>>
    /\ UNCHANGED <<known, depth, drain, metricVars, opened, kills, commands, leaked,
                   mixed>>

\* Fault: the station is freed only while its worker is on the roster.
CompleteForRoster(f) ==
    /\ source[f].stage = "working"
    /\ source' = [source EXCEPT ![f] = [stage |-> "idle"]]
    /\ LET s == source[f].step
           st == tasks[s].station
       IN /\ IF Open(s)
             THEN /\ tasks' = [tasks EXCEPT ![s] = AbsentTask]
                  /\ depth' = [depth EXCEPT ![st] = IF @ > 0 THEN @ - 1 ELSE 0]
                  /\ worker' = [worker EXCEPT ![st] =
                        IF @ = s /\ s \in Present THEN NoWorker ELSE @]
             ELSE UNCHANGED <<tasks, depth, worker>>
          /\ IF s \in Present
             THEN agents' = [agents EXCEPT ![s].state = "returning",
                                           ![s].task = FALSE]
             ELSE UNCHANGED agents
    /\ window' = window + 1
    /\ ended' = ended + 1
    /\ UNCHANGED <<known, drain, copies, reads, opened, kills, commands, leaked,
                   mixed>>

\* Fault: the queue is counted down only by the station's worker.
CompleteByWorker(f) ==
    /\ source[f].stage = "working"
    /\ source' = [source EXCEPT ![f] = [stage |-> "idle"]]
    /\ LET s == source[f].step
           st == tasks[s].station
       IN /\ tasks' = [tasks EXCEPT ![s] = AbsentTask]
          /\ IF Open(s) /\ worker[st] = s
             THEN /\ depth' = [depth EXCEPT ![st] = IF @ > 0 THEN @ - 1 ELSE 0]
                  /\ worker' = [worker EXCEPT ![st] = NoWorker]
             ELSE UNCHANGED <<depth, worker>>
          /\ IF s \in Present
             THEN agents' = [agents EXCEPT ![s].state = "returning",
                                           ![s].task = FALSE]
             ELSE UNCHANGED agents
    /\ window' = window + 1
    /\ ended' = ended + 1
    /\ UNCHANGED <<known, drain, copies, reads, opened, kills, commands, leaked,
                   mixed>>

\* complete, for an ok task or a failed one: they differ in what is shown.
Complete(f) ==
    /\ source[f].stage = "working"
    /\ source' = [source EXCEPT ![f] = [stage |-> "idle"]]
    /\ LET s == source[f].step
           st == tasks[s].station
       IN /\ IF Open(s)
             THEN /\ tasks' = [tasks EXCEPT ![s] = AbsentTask]
                  /\ depth' = [depth EXCEPT ![st] = IF @ > 0 THEN @ - 1 ELSE 0]
                  /\ worker' = [worker EXCEPT ![st] = IF @ = s THEN NoWorker ELSE @]
             ELSE UNCHANGED <<tasks, depth, worker>>
          /\ IF s \in Present
             THEN agents' = [agents EXCEPT ![s].state = "returning",
                                           ![s].task = FALSE]
             ELSE UNCHANGED agents
    /\ window' = window + 1
    /\ ended' = ended + 1
    /\ UNCHANGED <<known, drain, copies, reads, opened, kills, commands, leaked,
                   mixed>>

-----------------------------------------------------------------------------
(* The ticker                                                              *)

\* Fault: only the drones nobody holds are docked.
DockUnheld(s) ==
    /\ agents[s].state = "returning"
    /\ ~agents[s].hold
    /\ agents' = [agents EXCEPT ![s].state = "docked", ![s].station = NoStation]
    /\ UNCHANGED <<tasks, stationVars, source, metricVars, opened, kills, commands,
                   leaked, mixed>>

\* A drone whose flight is over docks; drones due together dock one by one under
\* one hold of the lock, which no other step can tell from separate ones.
Dock(s) ==
    /\ agents[s].state = "returning"
    /\ agents' = [agents EXCEPT ![s].state = "docked", ![s].station = NoStation]
    /\ UNCHANGED <<tasks, stationVars, source, metricVars, opened, kills, commands,
                   leaked, mixed>>

\* _metrics, from the ticker or from a snapshot: the window is filtered into a
\* new list, which then replaces it.
FilterWindow(th) ==
    /\ copies[th] = {}
    /\ reads < MaxReads
    /\ reads' = reads + 1
    /\ copies' = [copies EXCEPT ![th] = {window}]
    /\ UNCHANGED <<agents, tasks, stationVars, source, window, ended, opened, kills,
                   commands, leaked, mixed>>

ReplaceWindow(th) ==
    /\ copies[th] # {}
    /\ window' \in copies[th]
    /\ copies' = [copies EXCEPT ![th] = {}]
    /\ UNCHANGED <<agents, tasks, stationVars, source, reads, ended, opened, kills,
                   commands, leaked, mixed>>

-----------------------------------------------------------------------------
(* handle_command                                                          *)

Command ==
    /\ commands < MaxCommands
    /\ commands' = commands + 1
    /\ UNCHANGED <<tasks, known, worker, depth, source, metricVars, opened, kills,
                   leaked, mixed>>

\* agent.hold and agent.resume.
Hold(s) ==
    /\ Command
    /\ s \in Present
    /\ \E hold \in BOOLEAN : agents' = [agents EXCEPT ![s].hold = hold]
    /\ UNCHANGED drain

FleetHold ==
    /\ Command
    /\ \E hold \in BOOLEAN :
          agents' = [s \in Steps |-> IF s \in Present
                                     THEN [agents[s] EXCEPT !.hold = hold]
                                     ELSE agents[s]]
    /\ UNCHANGED drain

\* The task stays open and the station busy; a docked drone is recalled too.
Recalled(s) == [agents[s] EXCEPT !.state = "returning", !.task = FALSE]

Recall(s) ==
    /\ Command
    /\ s \in Present
    /\ agents' = [agents EXCEPT ![s] = Recalled(s)]
    /\ UNCHANGED drain

FleetRecall ==
    /\ Command
    /\ agents' = [s \in Steps |-> IF agents[s].state \in {"absent", "docked"}
                                  THEN agents[s] ELSE Recalled(s)]
    /\ UNCHANGED drain

\* The agent goes, its task and its place at the station stay.
Retire(s) ==
    /\ Command
    /\ s \in Present
    /\ agents' = [agents EXCEPT ![s] = AbsentAgent]
    /\ UNCHANGED drain

Drain(st) ==
    /\ Command
    /\ st \in known
    /\ drain' \in {[drain EXCEPT ![st] = on] : on \in BOOLEAN}
    /\ UNCHANGED agents

-----------------------------------------------------------------------------
Ingest(f) ==
    \/ CrewStart(f) \/ Begin(f) \/ Progress(f) \/ Complete(f)
    \/ \E s \in Steps, st \in Stations : Enqueue(f, s, st)

Operate ==
    \/ FleetHold \/ FleetRecall
    \/ \E s \in Steps : Hold(s) \/ Recall(s) \/ Retire(s)
    \/ \E st \in Stations : Drain(st)

Next ==
    \/ \E f \in Feeds : Ingest(f)
    \/ \E s \in Steps : Dock(s)
    \/ \E th \in Threads : FilterWindow(th) \/ ReplaceWindow(th)
    \/ Operate

\* The ticker thread loops for ever; the log's writer and the operator owe nothing.
Fairness == \A s \in Steps : WF_vars(Dock(s))

Spec == Init /\ [][Next]_vars /\ Fairness

-----------------------------------------------------------------------------
(* Properties                                                              *)

\* Every variable stays in its range; a rewrite of the completion window may lose
\* entries that were appended meanwhile (L289-291), but none is counted twice.
TypeOK ==
    /\ agents \in [Steps -> Agents]
    /\ tasks \in [Steps -> Tasks]
    /\ known \in SUBSET Stations
    /\ worker \in [Stations -> Steps \cup {NoWorker}]
    /\ depth \in [Stations -> Nat]
    /\ drain \in [Stations -> BOOLEAN]
    /\ \A f \in Feeds : source[f].stage \in Stages
    /\ \A f \in Feeds : source[f].stage \notin {"off", "idle"} =>
           source[f].step \in Steps /\ source[f].station \in Stations
    /\ window \in 0..ended
    /\ copies \in [Threads -> SUBSET Nat]
    /\ \A n \in {opened, kills, reads, commands, ended} : n \in Nat
    /\ leaked \in [Stations -> Nat]
    /\ mixed \in BOOLEAN

OpenAt(st) == {s \in Steps : Open(s) /\ tasks[s].station = st}

\* queue_depth is exactly the unfinished tasks of the station plus one for each
\* that an enqueue of the same id overwrote: no interleaving of logs, kills and
\* commands loses or invents another, and max(0, ...) never clamps (L191-264).
QueueAccounted ==
    \A st \in Stations : depth[st] = Cardinality(OpenAt(st)) + leaked[st]

\* A busy station's worker has an unfinished task there as long as no id was used
\* while it was open or another log was at it: killing a run, recalling or retiring the worker or a full
\* roster never leave a station busy with nothing (L232-239, L259-260).
BusyHasTask ==
    \A st \in Stations :
        worker[st] # NoWorker => worker[st] \in OpenAt(st) \/ mixed

\* Between the tasks of runs that were not cut off and did not collide nothing is
\* left on the surface, whatever the operator did meanwhile: no task, no queue,
\* no busy station, no drone out (L191-275).
QuietMeansClean ==
    /\ kills = 0
    /\ \A f \in Feeds : source[f].stage \in {"off", "idle"}
    /\ ~mixed
    => /\ \A s \in Steps : ~Open(s)
       /\ \A st \in Stations : depth[st] = 0 /\ worker[st] = NoWorker
       /\ \A s \in Steps : agents[s].state \notin {"dispatched", "working"}

\* A returning drone does not return for ever: it docks, is sent out again or is
\* retired (L278-287).
DronesLand ==
    \A s \in Steps : agents[s].state = "returning" ~> agents[s].state # "returning"
=============================================================================
