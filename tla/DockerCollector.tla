-------------------------- MODULE DockerCollector ---------------------------
(***************************************************************************)
(* DockerCollector (control_surface/collector/collector.py): containers    *)
(* shown as agents.  The event thread follows the daemon's event stream,   *)
(* the poll thread reads the statistics of running containers, and both    *)
(* write self.agents; the lock guards only the counter of the envelopes    *)
(* and the list of subscribers.                                            *)
(*                                                                         *)
(* The daemon and whoever uses it (handle_command included) are the        *)
(* environment.  One page listens from the start and loses nothing: what   *)
(* it makes of a lossy connection is module FeedServer's.  An envelope     *)
(* carries its agent as it is when the subscribers are called.             *)
(***************************************************************************)
EXTENDS Naturals, Sequences, SequencesExt, FiniteSets

CONSTANTS
    Containers,     \* container ids; the daemon uses none twice
    MaxChanges,     \* bound: things that happen to containers
    MaxRev          \* bound: where revisions stop counting

ASSUME DockerAssumption ==
    /\ MaxChanges \in Nat
    /\ MaxRev \in Nat \ {0}

VARIABLES
    docker,     \* the daemon's containers
    changes,    \* things that have happened to them
    stream,     \* events not handled yet
    boot,       \* "new", "listed" or, with the event stream open, "online"
    agents,     \* self.agents
    handler,    \* the event thread: its event, what the daemon said, where it is
    poller,     \* the poll thread: where it is, its containers, the dto at hand
    page,       \* the page's agents
    missed,     \* history: what left or stopped between the listing and the stream
    raced       \* history: the poll thread was at it when its last event was handled

daemonVars == <<docker, changes>>
surfaceVars == <<agents, page>>
vars == <<daemonVars, stream, boot, surfaceVars, handler, poller, missed, raced>>

-----------------------------------------------------------------------------
Statuses == {"created", "running", "paused", "exited"}

AgentStates == {"dispatched", "working", "returning", "docked"}

Agents == [status : Statuses, state : AgentStates, rev : 0..MaxRev]
NoAgent == [status |-> "none", state |-> "none", rev |-> 0]

\* _state_for: a running container works when its CPU is above the threshold.
StateFor(status, busy) ==
    CASE status = "created" -> "dispatched"
      [] status = "paused" -> "returning"
      [] status = "exited" -> "docked"
      [] status = "running" -> IF busy THEN "working" ELSE "docked"

\* _agent_dto: rev is 0 whatever was sent before.
AgentDto(status, busy) ==
    [status |-> status, state |-> StateFor(status, busy), rev |-> 0]

Exists(c) == docker[c] \in Statuses
Listed(c) == agents[c] # NoAgent

\* start stands for create, start, unpause and restart; stop for die, stop,
\* kill and pause.  oom changes no agent.
Events == [action : {"start", "stop", "destroy"}, c : Containers]

IdleHandler == [at |-> "idle"]
IdlePoller == [at |-> "idle"]

Init ==
    /\ docker \in [Containers -> {"none"} \cup Statuses]
    /\ changes = 0
    /\ stream = <<>>
    /\ boot = "new"
    /\ agents = [c \in Containers |-> NoAgent]
    /\ handler = IdleHandler
    /\ poller = IdlePoller
    /\ page = [c \in Containers |-> NoAgent]
    /\ missed = {}
    /\ raced = {}

-----------------------------------------------------------------------------
(* The daemon                                                              *)

Happens(c, status, action) ==
    /\ changes < MaxChanges
    /\ changes' = changes + 1
    /\ docker' = [docker EXCEPT ![c] = status]
    /\ stream' = IF boot = "online"
                 THEN Append(stream, [action |-> action, c |-> c]) ELSE stream
    /\ missed' = IF boot = "listed" /\ status # "running"
                 THEN missed \cup {c} ELSE missed
    /\ UNCHANGED <<boot, surfaceVars, handler, poller, raced>>

Create(c) == docker[c] = "none" /\ Happens(c, "created", "start")

Start(c) == docker[c] \in {"created", "exited"} /\ Happens(c, "running", "start")

Pause(c) == docker[c] = "running" /\ Happens(c, "paused", "stop")

Unpause(c) == docker[c] = "paused" /\ Happens(c, "running", "start")

Die(c) == docker[c] = "running" /\ Happens(c, "exited", "stop")

\* A kill event: the signal is sent, the container still runs.
Signal(c) == docker[c] = "running" /\ Happens(c, "running", "stop")

Destroy(c) == docker[c] \in {"created", "exited"} /\ Happens(c, "gone", "destroy")

-----------------------------------------------------------------------------
(* Start-up                                                                *)

Bootstrap ==
    /\ boot = "new"
    /\ boot' = "listed"
    /\ agents' = [c \in Containers |->
                     IF Exists(c) THEN AgentDto(docker[c], FALSE) ELSE NoAgent]
    /\ page' = agents'
    /\ UNCHANGED <<daemonVars, stream, handler, poller, missed, raced>>

\* The event thread opens the stream; the poll thread may be ahead of it.
OpenStream ==
    /\ boot = "listed"
    /\ boot' = "online"
    /\ UNCHANGED <<daemonVars, stream, surfaceVars, handler, poller, missed, raced>>

-----------------------------------------------------------------------------
(* The page: roboport-docker-demo.html                                     *)

\* applyC drops a stale revision.
Shown(c, dto) == IF page[c] # NoAgent /\ dto.rev < page[c].rev THEN page
                 ELSE [page EXCEPT ![c] = dto]

-----------------------------------------------------------------------------
(* The event thread: _handle_event                                         *)

\* The next event, and containers.get: the container as it is by now, if it is.
TakeEvent ==
    /\ handler.at = "idle"
    /\ stream # <<>>
    /\ stream' = Tail(stream)
    /\ LET ev == Head(stream) IN
       handler' = [at |-> "fetched", action |-> ev.action, c |-> ev.c,
                   status |-> docker[ev.c]]
    /\ UNCHANGED <<daemonVars, boot, surfaceVars, poller, missed, raced>>

HandlerGoes(at) == handler' = [handler EXCEPT !.at = at]

\* Fault: a container is only indexed again, never for the first time.
HandleStartOfListed ==
    /\ handler.at = "fetched"
    /\ handler.action = "start"
    /\ IF handler.status \in Statuses /\ Listed(handler.c)
       THEN /\ agents' = [agents EXCEPT ![handler.c] = AgentDto(handler.status, FALSE)]
            /\ HandlerGoes("emit")
       ELSE /\ handler' = IdleHandler
            /\ UNCHANGED agents
    /\ UNCHANGED <<daemonVars, stream, boot, page, poller, missed, raced>>

\* _index_container, unless the container is gone by now.
HandleStart ==
    /\ handler.at = "fetched"
    /\ handler.action = "start"
    /\ IF handler.status \in Statuses
       THEN /\ agents' = [agents EXCEPT ![handler.c] = AgentDto(handler.status, FALSE)]
            /\ HandlerGoes("emit")
       ELSE /\ handler' = IdleHandler
            /\ UNCHANGED agents
    /\ UNCHANGED <<daemonVars, stream, boot, page, poller, missed, raced>>

\* Where the poll thread is when an event of c changes self.agents.
Races(c) ==
    raced' = IF poller.at \in {"asking", "sending"} /\ poller.c = c
             THEN raced \cup {c} ELSE raced \ {c}

\* Fault: the container need not be listed.
HandleStopOfAny ==
    /\ handler.at = "fetched"
    /\ handler.action = "stop"
    /\ agents' = IF handler.status \in Statuses
                 THEN [agents EXCEPT ![handler.c] = AgentDto(handler.status, FALSE)]
                 ELSE agents
    /\ Races(handler.c)
    /\ HandlerGoes("mark")
    /\ UNCHANGED <<daemonVars, stream, boot, page, poller, missed>>

\* A new dto for a listed container, if it is not gone ...
HandleStop ==
    /\ handler.at = "fetched"
    /\ handler.action = "stop"
    /\ \/ /\ Listed(handler.c)
          /\ agents' = IF handler.status \in Statuses
                       THEN [agents EXCEPT ![handler.c] = AgentDto(handler.status, FALSE)]
                       ELSE agents
          /\ Races(handler.c)
          /\ HandlerGoes("mark")
       \/ /\ ~Listed(handler.c)
          /\ handler' = IdleHandler
          /\ UNCHANGED <<agents, raced>>
    /\ UNCHANGED <<daemonVars, stream, boot, page, poller, missed>>

\* ... and then its state is set in place, in the poll thread's dto if that has
\* replaced it meanwhile.
MarkDocked ==
    /\ handler.at = "mark"
    /\ agents' = [agents EXCEPT ![handler.c].state = "docked"]
    /\ poller' = IF /\ poller.at = "sending"
                    /\ poller.c = handler.c
                    /\ poller.dto = agents[handler.c]
                 THEN [poller EXCEPT !.dto.state = "docked"] ELSE poller
    /\ HandlerGoes("emit")
    /\ UNCHANGED <<daemonVars, stream, boot, page, missed, raced>>

\* The agent is read again, whoever wrote it last.
EmitAgent ==
    /\ handler.at = "emit"
    /\ page' = Shown(handler.c, agents[handler.c])
    /\ handler' = IdleHandler
    /\ UNCHANGED <<daemonVars, stream, boot, agents, poller, missed, raced>>

\* Fault: an event of a container the daemon no longer knows is skipped.
HandleDestroyOfKnown ==
    /\ handler.at = "fetched"
    /\ handler.action = "destroy"
    /\ IF handler.status \in Statuses
       THEN /\ agents' = [agents EXCEPT ![handler.c] = NoAgent]
            /\ HandlerGoes("remove")
       ELSE /\ handler' = IdleHandler
            /\ UNCHANGED agents
    /\ UNCHANGED <<daemonVars, stream, boot, page, poller, missed, raced>>

HandleDestroy ==
    /\ handler.at = "fetched"
    /\ handler.action = "destroy"
    /\ agents' = [agents EXCEPT ![handler.c] = NoAgent]
    /\ Races(handler.c)
    /\ HandlerGoes("remove")
    /\ UNCHANGED <<daemonVars, stream, boot, page, poller, missed>>

EmitRemoved ==
    /\ handler.at = "remove"
    /\ page' = [page EXCEPT ![handler.c] = NoAgent]
    /\ handler' = IdleHandler
    /\ UNCHANGED <<daemonVars, stream, boot, agents, poller, missed, raced>>

-----------------------------------------------------------------------------
(* The poll thread: _poll_stats                                            *)

PollVars(p) ==
    /\ poller' = p
    /\ UNCHANGED <<daemonVars, stream, boot, handler, missed, raced>>

ListedNow == {c \in Containers : Listed(c)}

\* list(self.agents.items()), with the revisions of that moment.
BeginPass ==
    /\ boot # "new"
    /\ poller.at = "idle"
    /\ PollVars([at |-> "pass", todo |-> {<<c, agents[c].rev>> : c \in ListedNow}])
    /\ UNCHANGED surfaceVars

\* Fault: the status last shown decides, not the one the daemon gives.
AskShownRunning(c, rev) ==
    /\ poller.at = "pass"
    /\ <<c, rev>> \in poller.todo
    /\ LET todo == poller.todo \ {<<c, rev>>} IN
       PollVars(IF docker[c] = "running" /\ agents[c].status = "running"
                THEN [at |-> "asking", todo |-> todo, c |-> c, rev |-> rev]
                ELSE [at |-> "pass", todo |-> todo])
    /\ UNCHANGED surfaceVars

\* containers.get: what is gone raises, what does not run is skipped.
Ask(c, rev) ==
    /\ poller.at = "pass"
    /\ <<c, rev>> \in poller.todo
    /\ LET todo == poller.todo \ {<<c, rev>>} IN
       PollVars(IF docker[c] = "running"
                THEN [at |-> "asking", todo |-> todo, c |-> c, rev |-> rev]
                ELSE [at |-> "pass", todo |-> todo])
    /\ UNCHANGED surfaceVars

\* The statistics take a second, in which the container may go.
FailStats ==
    /\ poller.at = "asking"
    /\ docker[poller.c] = "gone"
    /\ PollVars([at |-> "pass", todo |-> poller.todo])
    /\ UNCHANGED surfaceVars

\* Busy or not, as it was some time since it was asked; the status is the one
\* given then.  The agent is written whether or not it is still listed.
WriteStats ==
    /\ poller.at = "asking"
    /\ \E busy \in BOOLEAN :
          LET dto == [AgentDto("running", busy) EXCEPT
                         !.rev = IF poller.rev < MaxRev THEN poller.rev + 1 ELSE MaxRev]
          IN /\ agents' = [agents EXCEPT ![poller.c] = dto]
             /\ PollVars([at |-> "sending", todo |-> poller.todo, c |-> poller.c,
                          dto |-> dto])
    /\ UNCHANGED page

SendStats ==
    /\ poller.at = "sending"
    /\ page' = Shown(poller.c, poller.dto)
    /\ PollVars([at |-> "pass", todo |-> poller.todo])
    /\ UNCHANGED agents

\* The zones are rolled up by walking self.agents, without the lock and outside
\* the try: the thread dies of a dictionary that changes size meanwhile.
BeginRollup ==
    /\ poller.at = "pass"
    /\ poller.todo = {}
    /\ PollVars([at |-> "rollup", walked |-> ListedNow])
    /\ UNCHANGED surfaceVars

EndRollup ==
    /\ poller.at = "rollup"
    /\ Cardinality(poller.walked) = Cardinality(ListedNow)
    /\ PollVars(IdlePoller)
    /\ UNCHANGED surfaceVars

DieInRollup ==
    /\ poller.at = "rollup"
    /\ poller.walked # ListedNow
    /\ PollVars([at |-> "dead"])
    /\ UNCHANGED surfaceVars

-----------------------------------------------------------------------------
Daemon == \E c \in Containers : \/ Create(c) \/ Start(c) \/ Pause(c) \/ Unpause(c)
                                \/ Die(c) \/ Signal(c) \/ Destroy(c)

EventThread == OpenStream \/ TakeEvent \/ HandleStart \/ HandleStop \/ MarkDocked
               \/ EmitAgent \/ HandleDestroy \/ EmitRemoved

PollThread == \/ BeginPass \/ FailStats \/ WriteStats \/ SendStats
              \/ BeginRollup \/ EndRollup \/ DieInRollup
              \/ \E c \in Containers, rev \in 0..MaxRev : Ask(c, rev)

Next == Daemon \/ Bootstrap \/ EventThread \/ PollThread

\* Both threads loop for ever and the daemon answers; nobody has to use it.
Spec == /\ Init /\ [][Next]_vars
        /\ WF_vars(Bootstrap) /\ WF_vars(EventThread) /\ WF_vars(PollThread)

-----------------------------------------------------------------------------
(* Properties                                                              *)

\* Every variable stays in its range.
TypeOK ==
    /\ docker \in [Containers -> {"none", "gone"} \cup Statuses]
    /\ changes \in 0..MaxChanges
    /\ ToSet(stream) \subseteq Events
    /\ boot \in {"new", "listed", "online"}
    /\ agents \in [Containers -> Agents \cup {NoAgent}]
    /\ handler.at \in {"idle", "fetched", "mark", "emit", "remove"}
    /\ handler.at # "idle" => handler.c \in Containers
    /\ poller.at \in {"idle", "pass", "asking", "sending", "rollup", "dead"}
    /\ poller.at \in {"asking", "sending"} => poller.c \in Containers
    /\ poller.at = "sending" => poller.dto \in Agents
    /\ page \in [Containers -> Agents \cup {NoAgent}]
    /\ missed \subseteq Containers
    /\ raced \subseteq Containers

\* No event is on its way and neither thread is at a container.
Quiet ==
    /\ boot = "online"
    /\ stream = <<>>
    /\ handler.at = "idle"
    /\ poller.at \notin {"asking", "sending"}

\* A container that exists is listed and shown, but for one that changed between
\* the listing and the event stream (L194-217, L276-290): neither thread's
\* unlocked writes, nor envelopes that cross, lose a live container.
ExistingIsShown ==
    Quiet => \A c \in Containers \ missed :
                 Exists(c) => Listed(c) /\ page[c] # NoAgent

\* A destroyed container is gone from the collector and the page, unless the
\* poll thread was at it when it was removed: no other order of the two threads
\* brings one back (L235-237, L255-266).
GoneIsGone ==
    Quiet => \A c \in Containers \ (missed \cup raced) :
                 docker[c] = "gone" => ~Listed(c) /\ page[c] = NoAgent

\* A container that keeps running is in the end shown running, started in the
\* gap or not, whatever stale revisions the page dropped: the poll thread's
\* revisions overtake them, unless that thread died (L253-273).
RunningIsShown ==
    \A c \in Containers :
        <>[](docker[c] = "running" /\ c \notin missed)
            => <>[](page[c].status = "running") \/ <>(poller.at = "dead")

-----------------------------------------------------------------------------
(* What the documentation says, refuted by a run                           *)

\* control_surface/collector/README.md, "Sees: which containers exist,
\* per-container CPU/mem, start/stop/die/OOM/restart": no page shows a stopped
\* container at work.
DeathIsShown ==
    Quiet => \A c \in Containers \ (missed \cup raced) :
                 docker[c] \in {"exited", "paused"} => page[c].state # "working"
=============================================================================
