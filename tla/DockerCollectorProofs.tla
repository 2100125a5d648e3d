------------------------ MODULE DockerCollectorProofs -------------------------
(***************************************************************************)
(* The Docker collector for any containers and any number of changes:      *)
(* types, and which containers its two threads lose or bring back.         *)
(***************************************************************************)
EXTENDS DockerCollector, TLAPS

-----------------------------------------------------------------------------
(* The inductive invariant                                                 *)

DaemonStatuses == {"none", "gone"} \cup Statuses

Handlers == {IdleHandler} \cup
    [at : {"fetched", "mark", "emit", "remove"}, action : {"start", "stop", "destroy"},
     c : Containers, status : DaemonStatuses]

Passes == SUBSET (Containers \X (0..MaxRev))

Pollers ==
    {IdlePoller, [at |-> "dead"]}
    \cup [at : {"pass"}, todo : Passes]
    \cup [at : {"asking"}, todo : Passes, c : Containers, rev : 0..MaxRev]
    \cup [at : {"sending"}, todo : Passes, c : Containers, dto : Agents]
    \cup [at : {"rollup"}, walked : SUBSET Containers]

Types ==
    /\ docker \in [Containers -> DaemonStatuses]
    /\ changes \in 0..MaxChanges
    /\ stream \in Seq(Events)
    /\ boot \in {"new", "listed", "online"}
    /\ agents \in [Containers -> Agents \cup {NoAgent}]
    /\ handler \in Handlers
    /\ poller \in Pollers
    /\ page \in [Containers -> Agents \cup {NoAgent}]
    /\ missed \subseteq Containers
    /\ raced \subseteq Containers

\* Before the listing there is nothing, and no event before the stream is open.
StartsEmpty ==
    /\ boot = "new" => /\ agents = [c \in Containers |-> NoAgent] /\ page = agents
                       /\ poller.at = "idle"
    /\ boot # "online" => stream = <<>> /\ handler.at = "idle"

HandlerAt(c, action) ==
    handler.at = "fetched" /\ handler.c = c /\ handler.action = action

PollerAt(c) == poller.at \in {"asking", "sending"} /\ poller.c = c

\* Nothing is known of a container before it is created.
NothingBefore(c) ==
    /\ ~Listed(c) /\ ~PollerAt(c)
    /\ \A i \in DOMAIN stream : stream[i].c # c
    /\ handler.at # "idle" => handler.c # c

KnownWereCreated == \A c \in Containers : docker[c] = "none" => NothingBefore(c)

\* What is to be marked or sent is listed: only the event thread unlists.
MarksListed == handler.at \in {"mark", "emit"} => Listed(handler.c)

\* A destroy event is of a container that is gone.
DestroyedIsGone ==
    /\ \A i \in DOMAIN stream : stream[i].action = "destroy" => docker[stream[i].c] = "gone"
    /\ handler.at = "fetched" /\ handler.action = "destroy" => docker[handler.c] = "gone"
    /\ handler.at = "remove" => docker[handler.c] = "gone"

\* An event that will list c, or the event thread about to.
StartComes(c) ==
    \/ \E i \in DOMAIN stream : stream[i] = [action |-> "start", c |-> c]
    \/ HandlerAt(c, "start") /\ handler.status \in Statuses

\* What exists is listed or about to be.
LivesAreListed ==
    boot # "new" => \A c \in Containers \ missed :
                        Exists(c) => Listed(c) \/ StartComes(c)

\* What exists and is listed is shown or about to be.
ListedAreShown ==
    \A c \in Containers :
        Exists(c) /\ Listed(c) =>
            \/ page[c] # NoAgent
            \/ handler.at \in {"mark", "emit"} /\ handler.c = c
            \/ poller.at = "sending" /\ poller.c = c

\* No event of c follows the i-th.
NoneAfter(c, i) == \A j \in DOMAIN stream : j > i => stream[j].c # c

\* The destroy event of c is still to be handled, and is its last.
Farewell(c) ==
    \/ \E i \in DOMAIN stream :
          stream[i] = [action |-> "destroy", c |-> c] /\ NoneAfter(c, i)
    \/ HandlerAt(c, "destroy") /\ NoneAfter(c, 0)

\* No event of c is left, nor is the event thread writing c.
Settled(c) == NoneAfter(c, 0) /\ (handler.at \in {"fetched", "mark", "emit"} => handler.c # c)

\* No thread will list or show c again.
Removed(c) ==
    /\ ~Listed(c) /\ ~PollerAt(c)
    /\ page[c] = NoAgent \/ (handler.at = "remove" /\ handler.c = c)

\* What is gone is removed or about to be, or the poll thread raced its removal.
GoneIsRemoved ==
    \A c \in Containers \ missed :
        docker[c] = "gone" => Farewell(c) \/ (Settled(c) /\ (c \in raced \/ Removed(c)))

IInv == /\ Types /\ StartsEmpty /\ KnownWereCreated /\ MarksListed /\ DestroyedIsGone
        /\ LivesAreListed /\ ListedAreShown /\ GoneIsRemoved

-----------------------------------------------------------------------------
(* Helpers                                                                 *)

LEMMA NoAgentIsNone == NoAgent \notin Agents
BY DEF NoAgent, Agents, Statuses

LEMMA DtoIsTyped ==
    ASSUME NEW status \in Statuses, NEW busy \in BOOLEAN
    PROVE  AgentDto(status, busy) \in Agents
<1>1. StateFor(status, busy) \in AgentStates
  <2>1. CASE status = "created"  BY <2>1 DEF StateFor, AgentStates
  <2>2. CASE status = "paused"  BY <2>2 DEF StateFor, AgentStates
  <2>3. CASE status = "exited"  BY <2>3 DEF StateFor, AgentStates
  <2>4. CASE status = "running"  BY <2>4 DEF StateFor, AgentStates
  <2> QED  BY <2>1, <2>2, <2>3, <2>4 DEF Statuses
<1> QED  BY <1>1, DockerAssumption DEF AgentDto, Agents

\* A record of Handlers has the fields its place goes with.
LEMMA HandlerFields ==
    ASSUME Types, handler.at # "idle"
    PROVE  /\ handler \in [at : {"fetched", "mark", "emit", "remove"},
                            action : {"start", "stop", "destroy"},
                            c : Containers, status : DaemonStatuses]
           /\ handler.c \in Containers
BY DEF Types, Handlers, IdleHandler

LEMMA PollerFields ==
    ASSUME Types
    PROVE  /\ poller.at = "pass" => poller \in [at : {"pass"}, todo : Passes]
           /\ poller.at = "asking" => poller \in
                  [at : {"asking"}, todo : Passes, c : Containers, rev : 0..MaxRev]
           /\ poller.at = "sending" => poller \in
                  [at : {"sending"}, todo : Passes, c : Containers, dto : Agents]
           /\ poller.at = "rollup" => poller \in [at : {"rollup"}, walked : SUBSET Containers]
BY DEF Types, Pollers, IdlePoller

\* The handler goes on to another place with the same event.
LEMMA HandlerGoesOn ==
    ASSUME Types, handler.at # "idle", NEW at \in {"mark", "emit", "remove"}, HandlerGoes(at)
    PROVE  /\ handler' \in Handlers /\ handler'.at = at /\ handler'.c = handler.c
           /\ handler'.action = handler.action /\ handler'.status = handler.status
BY HandlerFields DEF HandlerGoes, Handlers

-----------------------------------------------------------------------------
(* The invariant holds initially and is preserved                          *)

LEMMA InitEstablishes == Init => IInv
<1> SUFFICES ASSUME Init PROVE IInv  OBVIOUS
<1> USE DEF Init
<1>1. Types
  <2>1. <<>> \in Seq(Events)  OBVIOUS
  <2>2. handler \in Handlers /\ poller \in Pollers  BY DEF Handlers, Pollers
  <2> QED  BY <2>1, <2>2, DockerAssumption DEF Types, DaemonStatuses
<1>2. handler.at = "idle" /\ poller.at = "idle"  BY DEF IdleHandler, IdlePoller
<1>3. StartsEmpty  BY <1>2 DEF StartsEmpty
<1>4. KnownWereCreated  BY <1>2 DEF KnownWereCreated, NothingBefore, Listed, PollerAt
<1>5. MarksListed /\ DestroyedIsGone  BY <1>2 DEF MarksListed, DestroyedIsGone
<1>6. LivesAreListed /\ ListedAreShown
  BY DEF LivesAreListed, ListedAreShown, Listed
<1>7. GoneIsRemoved  BY DEF GoneIsRemoved, Statuses
<1> QED  BY <1>1, <1>3, <1>4, <1>5, <1>6, <1>7 DEF IInv

\* Something happens to a container that is not gone.
LEMMA HappensPreserves ==
    ASSUME IInv, NEW c \in Containers, NEW status \in Statuses \cup {"gone"},
           NEW action \in {"start", "stop", "destroy"}, Happens(c, status, action),
           docker[c] # "gone", status = "gone" <=> action = "destroy",
           docker[c] = "none" => action = "start" /\ status = "created"
    PROVE  IInv'
<1> DEFINE ev == [action |-> action, c |-> c]
<1>0. PICK n \in Nat : n = Len(stream) + 1
  <2>1. stream \in Seq(Events)  BY DEF IInv, Types
  <2> QED  BY <2>1
<1>1. /\ agents' = agents /\ page' = page /\ handler' = handler /\ poller' = poller
      /\ boot' = boot /\ raced' = raced /\ docker' = [docker EXCEPT ![c] = status]
      /\ missed \subseteq missed'
  BY DEF Happens, surfaceVars
<1>2. /\ docker' \in [Containers -> DaemonStatuses] /\ docker'[c] = status
      /\ \A d \in Containers \ {c} : docker'[d] = docker[d]
  BY <1>1 DEF DaemonStatuses, IInv, Types
<1>3. /\ stream' \in Seq(Events)
      /\ \A i \in DOMAIN stream' : \/ i \in DOMAIN stream /\ stream'[i] = stream[i]
                                   \/ i = n /\ stream'[i] = ev
      /\ \A i \in DOMAIN stream : i \in DOMAIN stream' /\ stream'[i] = stream[i]
      /\ boot = "online" => n \in DOMAIN stream' /\ stream'[n] = ev
      /\ boot # "online" => stream' = stream /\ stream = <<>>
  <2>1. stream \in Seq(Events) /\ ev \in Events  BY DEF IInv, Types, Events
  <2>2. CASE boot = "online"
    <3>1. stream' = Append(stream, ev)  BY <2>2 DEF Happens
    <3> HIDE DEF ev
    <3>2. /\ stream' \in Seq(Events) /\ DOMAIN stream' = 1..n /\ stream'[n] = ev
          /\ DOMAIN stream = 1..Len(stream) /\ Len(stream) \in Nat
      BY <1>0, <2>1, <3>1
    <3>3. \A i \in DOMAIN stream : stream'[i] = stream[i]  BY <2>1, <3>1
    <3>4. \A i \in DOMAIN stream' : i \in DOMAIN stream \/ i = n  BY <1>0, <3>2
    <3>5. \A i \in DOMAIN stream : i \in DOMAIN stream'  BY <1>0, <3>2
    <3>6. n \in DOMAIN stream'  BY <1>0, <3>2
    <3>7. \A i \in DOMAIN stream' : \/ i \in DOMAIN stream /\ stream'[i] = stream[i]
                                    \/ i = n /\ stream'[i] = ev
      <4>1. stream'[n] = ev  BY <1>0, <3>2, Zenon
      <4> QED  BY <3>3, <3>4, <4>1, Zenon
    <3>8. stream'[n] = ev /\ stream' \in Seq(Events)  BY <1>0, <3>2, Zenon
    <3> QED  BY <2>2, <3>3, <3>5, <3>6, <3>7, <3>8, Zenon
  <2>3. CASE boot # "online"  BY <2>1, <2>3 DEF Happens, IInv, StartsEmpty
  <2> QED  BY <2>2, <2>3
<1>4. \A i \in DOMAIN stream : i \in Nat /\ i < n /\ stream[i].c \in Containers
  <2>1. stream \in Seq(Events)  BY DEF IInv, Types
  <2>2. \A i \in DOMAIN stream : stream[i] \in Events  BY <2>1
  <2>3. Len(stream) \in Nat /\ DOMAIN stream = 1..Len(stream)  BY <2>1
  <2> QED  BY <1>0, <2>2, <2>3 DEF Events
<1>5. ev = [action |-> action, c |-> c] /\ ev.c = c /\ ev.action = action  OBVIOUS
<1> HIDE DEF ev
<1>6. Types'
  <2>1. changes' \in 0..MaxChanges  BY DockerAssumption DEF Happens, IInv, Types
  <2>2. missed' \subseteq Containers  BY DEF Happens, IInv, Types
  <2> QED  BY <1>1, <1>2, <1>3, <2>1, <2>2 DEF IInv, Types
<1>7. StartsEmpty'  BY <1>1, <1>3 DEF IInv, StartsEmpty
<1>8. KnownWereCreated'
  <2> SUFFICES ASSUME NEW d \in Containers, docker'[d] = "none" PROVE NothingBefore(d)'
    BY DEF KnownWereCreated
  <2>1. d # c  BY <1>2 DEF Statuses
  <2>2. NothingBefore(d)  BY <1>2, <2>1 DEF KnownWereCreated, IInv
  <2>3. \A i \in DOMAIN stream' : stream'[i].c # d
    BY <1>3, <1>5, <2>1, <2>2 DEF NothingBefore
  <2> QED  BY <1>1, <2>2, <2>3 DEF NothingBefore, Listed, PollerAt
<1>9. MarksListed'  BY <1>1 DEF MarksListed, Listed, IInv
<1>10. DestroyedIsGone'
  <2>1. \A d \in Containers : docker[d] = "gone" => docker'[d] = "gone"  BY <1>2
  <2>2. \A i \in DOMAIN stream' : stream'[i].action = "destroy" => docker'[stream'[i].c] = "gone"
    <3> SUFFICES ASSUME NEW i \in DOMAIN stream', stream'[i].action = "destroy"
                 PROVE  docker'[stream'[i].c] = "gone"
      OBVIOUS
    <3>1. CASE i \in DOMAIN stream /\ stream'[i] = stream[i]
      BY <1>4, <2>1, <3>1 DEF DestroyedIsGone, IInv
    <3>2. CASE stream'[i] = ev  BY <1>2, <1>5, <3>2
    <3> QED  BY <1>3, <3>1, <3>2
  <2>3. handler.at # "idle" => handler.c \in Containers  BY HandlerFields DEF IInv
  <2> QED  BY <1>1, <2>1, <2>2, <2>3 DEF DestroyedIsGone, IInv
<1>11. LivesAreListed'
  <2> SUFFICES ASSUME boot # "new", NEW d \in Containers, d \notin missed', Exists(d)'
               PROVE  Listed(d)' \/ StartComes(d)'
    BY <1>1 DEF LivesAreListed
  <2>1. d \notin missed  BY <1>1
  <2>2. CASE Exists(d)
    <3>1. Listed(d) \/ StartComes(d)  BY <2>1, <2>2 DEF LivesAreListed, IInv
    <3> QED  BY <1>1, <1>3, <3>1 DEF Listed, StartComes, HandlerAt
  <2>3. CASE ~Exists(d)
    <3>1. d = c /\ docker[c] = "none" /\ status = "created"
      BY <1>2, <2>3 DEF Exists, DaemonStatuses, IInv, Types
    <3>2. boot = "online"  BY <3>1 DEF Happens, IInv, Types
    <3>3. stream'[n] = [action |-> "start", c |-> d] /\ n \in DOMAIN stream'
      BY <1>3, <1>5, <3>1, <3>2
    <3> QED  BY <3>3 DEF StartComes
  <2> QED  BY <2>2, <2>3
<1>12. ListedAreShown'
  <2> SUFFICES ASSUME NEW d \in Containers, Exists(d)', Listed(d)'
               PROVE  \/ page[d] # NoAgent
                      \/ handler.at \in {"mark", "emit"} /\ handler.c = d
                      \/ poller.at = "sending" /\ poller.c = d
    BY <1>1 DEF ListedAreShown
  <2>1. docker[d] # "none"
    BY <1>1 DEF KnownWereCreated, NothingBefore, Listed, IInv
  <2>2. Exists(d)  BY <1>2, <2>1 DEF Exists, DaemonStatuses, IInv, Types
  <2> QED  BY <1>1, <2>2 DEF ListedAreShown, Listed, IInv
<1>13. GoneIsRemoved'
  <2> SUFFICES ASSUME NEW d \in Containers, d \notin missed', docker'[d] = "gone"
               PROVE  Farewell(d)' \/ (Settled(d)' /\ (d \in raced \/ Removed(d)'))
    BY <1>1 DEF GoneIsRemoved
  <2>1. CASE d = c
    <3>1. status = "gone" /\ action = "destroy"  BY <1>2, <2>1
    <3>2. CASE boot = "online"
      <4>1. stream'[n] = [action |-> "destroy", c |-> d] /\ n \in DOMAIN stream'
        BY <1>3, <1>5, <2>1, <3>1, <3>2
      <4>2. \A j \in DOMAIN stream' : ~(j > n)  BY <1>3, <1>4
      <4>3. NoneAfter(d, n)'  BY <4>2 DEF NoneAfter
      <4> QED  BY <4>1, <4>3 DEF Farewell
    <3>3. CASE boot # "online"
      <4>1. boot = "new"  BY <2>1, <3>1, <3>3 DEF Statuses, Happens, IInv, Types
      <4>2. stream' = <<>> /\ handler.at = "idle" /\ poller.at = "idle"
        BY <1>3, <4>1 DEF StartsEmpty, IInv
      <4>3. agents[d] = NoAgent /\ page[d] = NoAgent  BY <4>1 DEF StartsEmpty, IInv
      <4> QED  BY <1>1, <4>2, <4>3 DEF Settled, NoneAfter, Removed, Listed, PollerAt
    <3> QED  BY <3>2, <3>3
  <2>2. CASE d # c
    <3>1. Farewell(d) \/ (Settled(d) /\ (d \in raced \/ Removed(d)))
      BY <1>1, <1>2, <2>2 DEF GoneIsRemoved, IInv
    <3>2. ASSUME NEW i \in Nat, NoneAfter(d, i) PROVE NoneAfter(d, i)'
      <4> SUFFICES ASSUME NEW j \in DOMAIN stream', j > i PROVE stream'[j].c # d
        BY DEF NoneAfter
      <4>1. CASE j \in DOMAIN stream /\ stream'[j] = stream[j]  BY <3>2, <4>1 DEF NoneAfter
      <4>2. CASE stream'[j] = ev  BY <1>5, <2>2, <4>2
      <4> QED  BY <1>3, <4>1, <4>2
    <3>3. Farewell(d) => Farewell(d)'
      <4>1. ASSUME NEW i \in DOMAIN stream,
                   stream[i] = [action |-> "destroy", c |-> d], NoneAfter(d, i)
            PROVE  Farewell(d)'
        <5>1. NoneAfter(d, i)'  BY <1>4, <3>2, <4>1
        <5>2. i \in DOMAIN stream' /\ stream'[i] = [action |-> "destroy", c |-> d]
          BY <1>3, <4>1
        <5> QED  BY <5>1, <5>2 DEF Farewell
      <4>2. ASSUME HandlerAt(d, "destroy"), NoneAfter(d, 0) PROVE Farewell(d)'
        BY <1>1, <3>2, <4>2 DEF Farewell, HandlerAt
      <4> QED  BY <4>1, <4>2 DEF Farewell
    <3>4. Settled(d) => Settled(d)'  BY <1>1, <3>2 DEF Settled
    <3>5. Removed(d) => Removed(d)'  BY <1>1 DEF Removed, Listed, PollerAt
    <3> QED  BY <3>1, <3>3, <3>4, <3>5
  <2> QED  BY <2>1, <2>2
<1> QED  BY <1>6, <1>7, <1>8, <1>9, <1>10, <1>11, <1>12, <1>13 DEF IInv

LEMMA DaemonStep == IInv /\ Daemon => IInv'
<1> SUFFICES ASSUME IInv, NEW c \in Containers,
                    \/ Create(c) \/ Start(c) \/ Pause(c) \/ Unpause(c)
                    \/ Die(c) \/ Signal(c) \/ Destroy(c)
             PROVE  IInv'
  BY DEF Daemon
<1> USE HappensPreserves DEF Statuses
<1>1. CASE Create(c)  BY <1>1 DEF Create
<1>2. CASE Start(c)  BY <1>2 DEF Start
<1>3. CASE Pause(c)  BY <1>3 DEF Pause
<1>4. CASE Unpause(c)  BY <1>4 DEF Unpause
<1>5. CASE Die(c)  BY <1>5 DEF Die
<1>6. CASE Signal(c)  BY <1>6 DEF Signal
<1>7. CASE Destroy(c)  BY <1>7 DEF Destroy
<1> QED  BY <1>1, <1>2, <1>3, <1>4, <1>5, <1>6, <1>7

\* The listing: what exists is listed and shown, and nothing else is.
LEMMA BootstrapPreserves == IInv /\ Bootstrap => IInv'
<1> SUFFICES ASSUME IInv, Bootstrap PROVE IInv'  OBVIOUS
<1> USE DEF IInv, Bootstrap, daemonVars
<1>1. stream = <<>> /\ handler.at = "idle" /\ poller.at = "idle"  BY DEF StartsEmpty
<1>2. /\ agents' \in [Containers -> Agents \cup {NoAgent}] /\ page' = agents'
      /\ \A c \in Containers : agents'[c] # NoAgent <=> Exists(c)
  <2>1. \A c \in Containers : Exists(c) => AgentDto(docker[c], FALSE) \in Agents
    BY DtoIsTyped DEF Exists
  <2> QED  BY <2>1, NoAgentIsNone
<1>3. Types'  BY <1>2 DEF Types
<1>4. StartsEmpty'  BY <1>1 DEF StartsEmpty
<1>5. KnownWereCreated'
  BY <1>1, <1>2 DEF KnownWereCreated, NothingBefore, Listed, PollerAt, Exists, Statuses
<1>6. MarksListed' /\ DestroyedIsGone'  BY <1>1 DEF MarksListed, DestroyedIsGone
<1>7. LivesAreListed'  BY <1>2 DEF LivesAreListed, Listed, Exists
<1>8. ListedAreShown'  BY <1>2 DEF ListedAreShown, Listed, Exists
<1>9. GoneIsRemoved'
  <2> SUFFICES ASSUME NEW c \in Containers, docker[c] = "gone"
               PROVE  Settled(c)' /\ Removed(c)'
    BY DEF GoneIsRemoved
  <2>1. agents'[c] = NoAgent /\ page'[c] = NoAgent  BY <1>2 DEF Exists, Statuses
  <2>2. stream' = <<>> /\ handler'.at = "idle" /\ poller'.at = "idle"  BY <1>1
  <2>3. Settled(c)'  BY ONLY <2>2 DEF Settled, NoneAfter
  <2>4. Removed(c)'  BY ONLY <2>1, <2>2 DEF Removed, Listed, PollerAt
  <2> QED  BY <2>3, <2>4
<1> QED  BY <1>3, <1>4, <1>5, <1>6, <1>7, <1>8, <1>9

LEMMA OpenStreamPreserves == IInv /\ OpenStream => IInv'
BY DEF IInv, Types, StartsEmpty, KnownWereCreated, NothingBefore, MarksListed,
       DestroyedIsGone, LivesAreListed, StartComes, HandlerAt, ListedAreShown, GoneIsRemoved,
       Farewell, Settled, Removed, NoneAfter, Listed, Exists, PollerAt,
       OpenStream, daemonVars, surfaceVars

\* The head of the stream goes to the event thread, the rest is the stream.
LEMMA TakeEventPreserves == IInv /\ TakeEvent => IInv'
<1> SUFFICES ASSUME IInv, TakeEvent PROVE IInv'  OBVIOUS
<1>1. PICK ev \in Events : ev = stream[1] /\ 1 \in DOMAIN stream /\ handler' =
          [at |-> "fetched", action |-> ev.action, c |-> ev.c, status |-> docker[ev.c]]
  BY DEF TakeEvent, IInv, Types
<1>2. /\ stream' \in Seq(Events)
      /\ \A i \in DOMAIN stream' : i \in Nat /\ i + 1 \in DOMAIN stream
                                                /\ stream'[i] = stream[i + 1]
      /\ \A i \in DOMAIN stream : i = 1 \/ (i - 1 \in DOMAIN stream' /\ i - 1 \in Nat
                                                /\ stream'[i - 1] = stream[i])
  <2>1. stream \in Seq(Events) /\ stream # <<>> /\ stream' = Tail(stream)
    BY DEF TakeEvent, IInv, Types
  <2>2. /\ stream' \in Seq(Events) /\ DOMAIN stream' = 1..(Len(stream) - 1)
        /\ DOMAIN stream = 1..Len(stream) /\ Len(stream) \in Nat
    BY <2>1
  <2>3. \A i \in 1..(Len(stream) - 1) : stream'[i] = stream[i + 1]  BY <2>1
  <2>4. \A i \in DOMAIN stream' : i \in Nat /\ i + 1 \in DOMAIN stream  BY <2>2
  <2>5. \A i \in DOMAIN stream' : stream'[i] = stream[i + 1]  BY <2>2, <2>3
  <2>6. ASSUME NEW i \in DOMAIN stream, i # 1
        PROVE  i - 1 \in DOMAIN stream' /\ i - 1 \in Nat /\ stream'[i - 1] = stream[i]
    <3>1. PICK k \in 1..(Len(stream) - 1) : k = i - 1 /\ k + 1 = i  BY <2>2, <2>6
    <3>2. stream'[k] = stream[i]  BY <2>3, <3>1
    <3>3. k \in DOMAIN stream' /\ k \in Nat  BY <2>2, <3>1
    <3> QED  BY <3>1, <3>2, <3>3
  <2> QED  BY <2>2, <2>4, <2>5, <2>6, Zenon
<1>3. /\ agents' = agents /\ page' = page /\ poller' = poller /\ boot' = boot
      /\ docker' = docker /\ changes' = changes /\ missed' = missed /\ raced' = raced
      /\ handler.at = "idle"
  BY DEF TakeEvent, daemonVars, surfaceVars
<1>4. ev.c \in Containers /\ ev.action \in {"start", "stop", "destroy"}  BY DEF Events
<1>5. /\ handler'.at = "fetched" /\ handler'.action = ev.action /\ handler'.c = ev.c
      /\ handler'.status = docker[ev.c] /\ handler' \in Handlers
  BY <1>1, <1>4 DEF Handlers, IInv, Types
<1>6. Types'  BY <1>2, <1>3, <1>5 DEF IInv, Types
<1>7. StartsEmpty'  BY <1>1, <1>3 DEF IInv, StartsEmpty
<1>8. KnownWereCreated'
  BY <1>1, <1>2, <1>3, <1>5
  DEF IInv, KnownWereCreated, NothingBefore, Listed, PollerAt
<1>9. MarksListed'  BY <1>5 DEF MarksListed
<1>10. DestroyedIsGone'
  <2>1. \A i \in DOMAIN stream' :
            stream'[i].action = "destroy" => docker'[stream'[i].c] = "gone"
    BY <1>2, <1>3 DEF DestroyedIsGone, IInv
  <2> QED  BY <1>1, <1>3, <1>5, <2>1 DEF DestroyedIsGone, IInv
<1>11. LivesAreListed'
  <2> SUFFICES ASSUME boot # "new", NEW c \in Containers, c \notin missed, Exists(c)
               PROVE  Listed(c)' \/ StartComes(c)'
    BY <1>3 DEF LivesAreListed, Exists
  <2>1. CASE Listed(c)  BY <1>3, <2>1 DEF Listed
  <2>2. ASSUME NEW i \in DOMAIN stream, stream[i] = [action |-> "start", c |-> c]
        PROVE  StartComes(c)'
    <3>1. CASE i = 1
      <4>1. ev.action = "start" /\ ev.c = c  BY <1>1, <2>2, <3>1
      <4> QED  BY <1>5, <4>1 DEF StartComes, HandlerAt, Exists
    <3>2. CASE i # 1
      <4>1. i - 1 \in DOMAIN stream' /\ stream'[i - 1] = [action |-> "start", c |-> c]
        BY <1>2, <2>2, <3>2
      <4> QED  BY <4>1 DEF StartComes
    <3> QED  BY <3>1, <3>2
  <2> QED  BY <1>3, <2>1, <2>2 DEF LivesAreListed, StartComes, HandlerAt, IInv
<1>12. ListedAreShown'
  BY <1>3, <1>5 DEF ListedAreShown, Exists, Listed, IInv
<1>13. GoneIsRemoved'
  <2> SUFFICES ASSUME NEW c \in Containers, c \notin missed, docker[c] = "gone"
               PROVE  Farewell(c)' \/ (Settled(c)' /\ (c \in raced \/ Removed(c)'))
    BY <1>3 DEF GoneIsRemoved
  <2>1. ASSUME NEW i \in DOMAIN stream, stream[i] = [action |-> "destroy", c |-> c],
               NoneAfter(c, i)
        PROVE  Farewell(c)'
    <3>1. CASE i = 1
      <4>1. ev.action = "destroy" /\ ev.c = c  BY <1>1, <2>1, <3>1
      <4>2. NoneAfter(c, 0)'  BY <1>2, <2>1, <3>1 DEF NoneAfter
      <4> QED  BY <1>5, <4>1, <4>2 DEF Farewell, HandlerAt
    <3>2. CASE i # 1
      <4>1. PICK k \in DOMAIN stream' : k = i - 1 /\ stream'[k] = stream[i]  BY <1>2, <3>2
      <4>2. NoneAfter(c, k)'
        <5> SUFFICES ASSUME NEW j \in DOMAIN stream', j > k PROVE stream'[j].c # c
          BY DEF NoneAfter
        <5>1. j \in Nat /\ j + 1 \in DOMAIN stream  BY <1>2
        <5>2. stream'[j] = stream[j + 1]  BY <1>2
        <5>3. i \in Nat /\ j + 1 > i
          <6>1. k \in Nat /\ i \in Nat  BY <1>2, <4>1 DEF IInv, Types
          <6> QED  BY <4>1, <5>1, <6>1
        <5> QED  BY <2>1, <5>1, <5>2, <5>3 DEF NoneAfter
      <4> QED  BY <2>1, <4>1, <4>2 DEF Farewell
    <3> QED  BY <3>1, <3>2
  <2>2. Settled(c) => Settled(c)'
    <3> SUFFICES ASSUME Settled(c) PROVE Settled(c)'  OBVIOUS
    <3>1. NoneAfter(c, 0)'  BY <1>2 DEF Settled, NoneAfter
    <3>2. ev.c # c  BY <1>1 DEF Settled, NoneAfter
    <3> QED  BY <1>5, <3>1, <3>2 DEF Settled
  <2>3. Removed(c) => Removed(c)'  BY <1>3 DEF Removed, Listed, PollerAt
  <2>4. Farewell(c) \/ (Settled(c) /\ (c \in raced \/ Removed(c)))
    BY DEF GoneIsRemoved, IInv
  <2>5. ~HandlerAt(c, "destroy")  BY <1>3 DEF HandlerAt
  <2>6. Farewell(c) => Farewell(c)'  BY <2>1, <2>5 DEF Farewell
  <2> QED  BY <2>2, <2>3, <2>4, <2>6
<1> QED  BY <1>6, <1>7, <1>8, <1>9, <1>10, <1>11, <1>12, <1>13 DEF IInv

\* An event that changes no agent: it lists nothing and is not the last one.
LEMMA SkipPreserves ==
    ASSUME IInv, handler.at = "fetched", handler.action # "destroy",
           handler.action = "start" => handler.status \notin Statuses,
           handler' = IdleHandler,
           UNCHANGED <<daemonVars, stream, boot, surfaceVars, poller, missed, raced>>
    PROVE  IInv'
<1>1. /\ agents' = agents /\ page' = page /\ poller' = poller /\ boot' = boot
      /\ docker' = docker /\ changes' = changes /\ missed' = missed /\ raced' = raced
      /\ stream' = stream
  BY DEF daemonVars, surfaceVars
<1>2. handler' \in Handlers /\ handler'.at = "idle"  BY DEF IdleHandler, Handlers
<1>3. Types'  BY <1>1, <1>2 DEF IInv, Types
<1>4. StartsEmpty' /\ MarksListed' /\ DestroyedIsGone'
  BY <1>1, <1>2 DEF IInv, StartsEmpty, MarksListed, DestroyedIsGone
<1>5. KnownWereCreated'
  BY <1>1, <1>2 DEF IInv, KnownWereCreated, NothingBefore, Listed, PollerAt
<1>6. LivesAreListed'
  BY <1>1 DEF IInv, LivesAreListed, StartComes, HandlerAt, Exists, Listed
<1>7. ListedAreShown'  BY <1>1 DEF IInv, ListedAreShown, Exists, Listed
<1>8. GoneIsRemoved'
  <2> SUFFICES ASSUME NEW c \in Containers, c \notin missed, docker[c] = "gone"
               PROVE  Farewell(c)' \/ (Settled(c)' /\ (c \in raced \/ Removed(c)'))
    BY <1>1 DEF GoneIsRemoved
  <2>1. Farewell(c) \/ (Settled(c) /\ (c \in raced \/ Removed(c)))
    BY DEF GoneIsRemoved, IInv
  <2>2. Farewell(c) => Farewell(c)'  BY <1>1 DEF Farewell, HandlerAt, NoneAfter
  <2>3. Settled(c) => Settled(c)'  BY <1>1, <1>2 DEF Settled, NoneAfter
  <2>4. Removed(c) => Removed(c)'  BY <1>1 DEF Removed, Listed, PollerAt
  <2> QED  BY <2>1, <2>2, <2>3, <2>4
<1> QED  BY <1>3, <1>4, <1>5, <1>6, <1>7, <1>8 DEF IInv

\* The event thread lists its container, or marks it, and is then to show it.
LEMMA ListPreserves ==
    ASSUME IInv, handler.at \in {"fetched", "mark"}, ~HandlerAt(handler.c, "destroy"),
           NEW at \in {"mark", "emit"}, HandlerGoes(at),
           agents' \in [Containers -> Agents \cup {NoAgent}], agents'[handler.c] \in Agents,
           \A d \in Containers \ {handler.c} : agents'[d] = agents[d],
           poller' \in Pollers, poller'.at = poller.at,
           poller.at \in {"asking", "sending"} => poller'.c = poller.c,
           raced' \subseteq Containers,
           \A d \in Containers \ {handler.c} : d \in raced' <=> d \in raced,
           UNCHANGED <<daemonVars, stream, boot, page, missed>>
    PROVE  IInv'
<1> DEFINE c == handler.c
<1>1. /\ page' = page /\ boot' = boot /\ stream' = stream
      /\ docker' = docker /\ changes' = changes /\ missed' = missed
  BY DEF daemonVars
<1>2. c \in Containers /\ handler.at # "idle"  BY HandlerFields DEF IInv
<1>3. handler' \in Handlers /\ handler'.at \in {"mark", "emit"} /\ handler'.c = c
  BY <1>2, HandlerGoesOn DEF IInv
<1>4. agents'[c] # NoAgent  BY NoAgentIsNone
<1>5. boot = "online"  BY <1>2 DEF IInv, StartsEmpty
<1>6. \A d \in Containers : PollerAt(d)' <=> PollerAt(d)  BY DEF PollerAt
<1>7. Types'  BY <1>1, <1>3 DEF IInv, Types
<1>8. StartsEmpty'  BY <1>1, <1>5 DEF StartsEmpty
<1>9. KnownWereCreated'
  BY <1>1, <1>2, <1>3, <1>6 DEF IInv, KnownWereCreated, NothingBefore, Listed
<1>10. MarksListed' /\ DestroyedIsGone'
  BY <1>1, <1>3, <1>4 DEF IInv, MarksListed, Listed, DestroyedIsGone
<1>11. LivesAreListed'
  <2> SUFFICES ASSUME NEW d \in Containers, d \notin missed, Exists(d)
               PROVE  Listed(d)' \/ StartComes(d)'
    BY <1>1 DEF LivesAreListed, Exists
  <2>1. CASE d = c  BY <1>4, <2>1 DEF Listed
  <2>2. CASE d # c
    <3>1. Listed(d) \/ StartComes(d)  BY <1>5 DEF LivesAreListed, IInv
    <3>2. Listed(d) => Listed(d)'  BY <2>2 DEF Listed
    <3>3. StartComes(d) => StartComes(d)'  BY <1>1, <2>2 DEF StartComes, HandlerAt
    <3> QED  BY <3>1, <3>2, <3>3
  <2> QED  BY <2>1, <2>2
<1>12. ListedAreShown'
  BY <1>1, <1>3 DEF ListedAreShown, Exists, Listed, IInv
<1>13. GoneIsRemoved'
  <2> SUFFICES ASSUME NEW d \in Containers, d \notin missed, docker[d] = "gone"
               PROVE  Farewell(d)' \/ (Settled(d)' /\ (d \in raced' \/ Removed(d)'))
    BY <1>1 DEF GoneIsRemoved
  <2>1. Farewell(d) \/ (Settled(d) /\ (d \in raced \/ Removed(d)))
    BY DEF GoneIsRemoved, IInv
  <2>2. Farewell(d) => Farewell(d)'  BY <1>1 DEF Farewell, HandlerAt, NoneAfter
  <2>3. ASSUME Settled(d) PROVE Settled(d)' /\ (d \in raced \/ Removed(d) => d \in raced' \/ Removed(d)')
    <3>1. d # c  BY <2>3 DEF Settled
    <3>2. Settled(d)'  BY <1>1, <1>3, <2>3, <3>1 DEF Settled, NoneAfter
    <3>3. Removed(d) => Removed(d)'  BY <1>1, <1>6, <3>1 DEF Removed, Listed
    <3> QED  BY <3>1, <3>2, <3>3
  <2> QED  BY <2>1, <2>2, <2>3
<1> QED  BY <1>7, <1>8, <1>9, <1>10, <1>11, <1>12, <1>13 DEF IInv

\* A fresh dto in the place of one agent.
LEMMA DtoListed ==
    ASSUME Types, NEW c \in Containers, NEW dto \in Agents,
           agents' = [agents EXCEPT ![c] = dto]
    PROVE  /\ agents' \in [Containers -> Agents \cup {NoAgent}] /\ agents'[c] = dto
           /\ \A d \in Containers \ {c} : agents'[d] = agents[d]
BY DEF Types

LEMMA HandleStartPreserves == IInv /\ HandleStart => IInv'
<1> SUFFICES ASSUME IInv, HandleStart PROVE IInv'  OBVIOUS
<1> USE DEF HandleStart
<1>1. CASE handler.status \in Statuses
  <2>1. handler.c \in Containers  BY HandlerFields DEF IInv
  <2>2. AgentDto(handler.status, FALSE) \in Agents  BY <1>1, DtoIsTyped
  <2>3. agents' = [agents EXCEPT ![handler.c] = AgentDto(handler.status, FALSE)]
        /\ HandlerGoes("emit")
    BY <1>1
  <2>4. /\ agents' \in [Containers -> Agents \cup {NoAgent}] /\ agents'[handler.c] \in Agents
        /\ \A d \in Containers \ {handler.c} : agents'[d] = agents[d]
    BY <2>1, <2>2, <2>3, DtoListed DEF IInv
  <2>5. ~HandlerAt(handler.c, "destroy")  BY DEF HandlerAt
  <2>6. poller' \in Pollers /\ raced' \subseteq Containers  BY DEF IInv, Types
  <2> QED  BY <2>3, <2>4, <2>5, <2>6, ListPreserves
<1>2. CASE handler.status \notin Statuses
  BY <1>2, SkipPreserves DEF daemonVars, surfaceVars
<1> QED  BY <1>1, <1>2

LEMMA HandleStopPreserves == IInv /\ HandleStop => IInv'
<1> SUFFICES ASSUME IInv, HandleStop PROVE IInv'  OBVIOUS
<1>1. CASE /\ Listed(handler.c)
           /\ agents' = IF handler.status \in Statuses
                        THEN [agents EXCEPT ![handler.c] = AgentDto(handler.status, FALSE)]
                        ELSE agents
           /\ Races(handler.c)
           /\ HandlerGoes("mark")
  <2>1. handler.c \in Containers  BY HandlerFields DEF HandleStop, IInv
  <2>2. /\ agents' \in [Containers -> Agents \cup {NoAgent}] /\ agents'[handler.c] \in Agents
        /\ \A d \in Containers \ {handler.c} : agents'[d] = agents[d]
    <3>1. CASE handler.status \in Statuses
      <4>1. AgentDto(handler.status, FALSE) \in Agents  BY <3>1, DtoIsTyped
      <4>2. agents' = [agents EXCEPT ![handler.c] = AgentDto(handler.status, FALSE)]
        BY <1>1, <3>1
      <4> QED  BY <2>1, <4>1, <4>2, DtoListed DEF IInv
    <3>2. CASE handler.status \notin Statuses
      <4>1. agents' = agents  BY <1>1, <3>2
      <4> QED  BY <1>1, <2>1, <4>1 DEF Listed, IInv, Types
    <3> QED  BY <3>1, <3>2
  <2>3. ~HandlerAt(handler.c, "destroy") /\ handler.at = "fetched"
    BY DEF HandlerAt, HandleStop
  <2>4. /\ raced' \subseteq Containers
        /\ \A d \in Containers \ {handler.c} : d \in raced' <=> d \in raced
    BY <1>1, <2>1 DEF Races, IInv, Types
  <2>5. poller' = poller /\ poller' \in Pollers  BY DEF HandleStop, IInv, Types
  <2>6. UNCHANGED <<daemonVars, stream, boot, page, missed>>  BY DEF HandleStop
  <2> QED  BY <1>1, <2>2, <2>3, <2>4, <2>5, <2>6, ListPreserves
<1>2. CASE handler' = IdleHandler /\ UNCHANGED <<agents, raced>>
  BY <1>2, SkipPreserves DEF HandleStop, daemonVars, surfaceVars
<1> QED  BY <1>1, <1>2 DEF HandleStop

LEMMA MarkDockedPreserves == IInv /\ MarkDocked => IInv'
<1> SUFFICES ASSUME IInv, MarkDocked PROVE IInv'  OBVIOUS
<1>1. handler.c \in Containers /\ handler.at = "mark"  BY HandlerFields DEF IInv, MarkDocked
<1>2. PICK dto \in Agents : dto = agents[handler.c]
  BY <1>1 DEF IInv, MarksListed, Listed, Types
<1>3. [dto EXCEPT !.state = "docked"] \in Agents  BY DEF Agents, AgentStates
<1>4. agents' = [agents EXCEPT ![handler.c] = [dto EXCEPT !.state = "docked"]]
  BY <1>2 DEF MarkDocked
<1>5. /\ agents' \in [Containers -> Agents \cup {NoAgent}] /\ agents'[handler.c] \in Agents
      /\ \A d \in Containers \ {handler.c} : agents'[d] = agents[d]
  BY <1>1, <1>3, <1>4, DtoListed DEF IInv
<1>6. /\ poller' \in Pollers /\ poller'.at = poller.at
      /\ poller.at \in {"asking", "sending"} => poller'.c = poller.c
  <2>1. CASE poller' = poller  BY <2>1 DEF IInv, Types
  <2>2. CASE poller.at = "sending" /\ poller' = [poller EXCEPT !.dto.state = "docked"]
    <3>1. poller \in [at : {"sending"}, todo : Passes, c : Containers, dto : Agents]
      BY <2>2, PollerFields DEF IInv
    <3>2. PICK old \in Agents : old = poller.dto  BY <3>1
    <3>3. PICK new \in Agents : new = [old EXCEPT !.state = "docked"]
      BY DEF Agents, AgentStates
    <3>4. poller' = [poller EXCEPT !.dto = new]  BY <2>2, <3>2, <3>3
    <3>5. /\ poller' \in [at : {"sending"}, todo : Passes, c : Containers, dto : Agents]
          /\ poller'.at = poller.at /\ poller'.c = poller.c
      BY <3>1, <3>4
    <3> QED  BY <3>5 DEF Pollers
  <2> QED  BY <2>1, <2>2 DEF MarkDocked
<1>7. ~HandlerAt(handler.c, "destroy")  BY <1>1 DEF HandlerAt
<1>8. raced' \subseteq Containers  BY DEF MarkDocked, IInv, Types
<1> QED  BY <1>1, <1>5, <1>6, <1>7, <1>8, ListPreserves DEF MarkDocked

\* What a page makes of an agent: it shows it, this dto or a later one.
LEMMA ShownIs ==
    ASSUME Types, NEW c \in Containers, NEW dto \in Agents, page' = Shown(c, dto)
    PROVE  /\ page' \in [Containers -> Agents \cup {NoAgent}] /\ page'[c] # NoAgent
           /\ \A d \in Containers \ {c} : page'[d] = page[d]
BY NoAgentIsNone DEF Shown, Types

LEMMA EmitAgentPreserves == IInv /\ EmitAgent => IInv'
<1> SUFFICES ASSUME IInv, EmitAgent PROVE IInv'  OBVIOUS
<1> DEFINE c == handler.c
<1>1. /\ agents' = agents /\ poller' = poller /\ boot' = boot /\ stream' = stream
      /\ docker' = docker /\ changes' = changes /\ missed' = missed /\ raced' = raced
  BY DEF EmitAgent, daemonVars
<1>2. handler' \in Handlers /\ handler'.at = "idle"
  BY DEF EmitAgent, IdleHandler, Handlers
<1>3. handler.at = "emit" /\ c \in Containers  BY HandlerFields DEF EmitAgent, IInv
<1>4. agents[c] \in Agents  BY <1>3 DEF IInv, MarksListed, Listed, Types
<1>5. /\ page' \in [Containers -> Agents \cup {NoAgent}] /\ page'[c] # NoAgent
      /\ \A d \in Containers \ {c} : page'[d] = page[d]
  BY <1>3, <1>4, ShownIs DEF EmitAgent, IInv
<1>6. boot = "online"  BY <1>3 DEF IInv, StartsEmpty
<1>7. Types'  BY <1>1, <1>2, <1>5 DEF IInv, Types
<1>8. StartsEmpty' /\ MarksListed' /\ DestroyedIsGone'
  BY <1>1, <1>2, <1>6 DEF IInv, StartsEmpty, MarksListed, DestroyedIsGone
<1>9. KnownWereCreated'
  BY <1>1, <1>2 DEF IInv, KnownWereCreated, NothingBefore, Listed, PollerAt
<1>10. LivesAreListed'
  BY <1>1, <1>3 DEF IInv, LivesAreListed, StartComes, HandlerAt, Exists, Listed
<1>11. ListedAreShown'
  BY <1>1, <1>5 DEF IInv, ListedAreShown, Exists, Listed
<1>12. GoneIsRemoved'
  <2> SUFFICES ASSUME NEW d \in Containers, d \notin missed, docker[d] = "gone"
               PROVE  Farewell(d)' \/ (Settled(d)' /\ (d \in raced \/ Removed(d)'))
    BY <1>1 DEF GoneIsRemoved
  <2>1. Farewell(d) \/ (Settled(d) /\ (d \in raced \/ Removed(d)))
    BY DEF GoneIsRemoved, IInv
  <2>2. Farewell(d) => Farewell(d)'  BY <1>1, <1>3 DEF Farewell, HandlerAt, NoneAfter
  <2>3. Settled(d) => Settled(d)' /\ d # c  BY <1>1, <1>2, <1>3 DEF Settled, NoneAfter
  <2>4. Removed(d) /\ d # c => Removed(d)'
    BY <1>1, <1>3, <1>5 DEF Removed, Listed, PollerAt
  <2> QED  BY <2>1, <2>2, <2>3, <2>4
<1> QED  BY <1>7, <1>8, <1>9, <1>10, <1>11, <1>12 DEF IInv

\* The last event of a container: it is off the list, and off the page next.
LEMMA HandleDestroyPreserves == IInv /\ HandleDestroy => IInv'
<1> SUFFICES ASSUME IInv, HandleDestroy PROVE IInv'  OBVIOUS
<1> DEFINE c == handler.c
<1>1. /\ page' = page /\ poller' = poller /\ boot' = boot /\ stream' = stream
      /\ docker' = docker /\ changes' = changes /\ missed' = missed
  BY DEF HandleDestroy, daemonVars
<1>2. c \in Containers /\ handler.at = "fetched" /\ handler.action = "destroy"
  BY HandlerFields DEF HandleDestroy, IInv
<1>3. handler' \in Handlers /\ handler'.at = "remove" /\ handler'.c = c
  BY <1>2, HandlerGoesOn DEF HandleDestroy, IInv
<1>4. /\ agents' \in [Containers -> Agents \cup {NoAgent}] /\ agents'[c] = NoAgent
      /\ \A d \in Containers \ {c} : agents'[d] = agents[d]
  BY <1>2 DEF HandleDestroy, IInv, Types
<1>5. boot = "online" /\ docker[c] = "gone"
  BY <1>2 DEF IInv, StartsEmpty, DestroyedIsGone
<1>6. /\ raced' \subseteq Containers
      /\ \A d \in Containers \ {c} : d \in raced' <=> d \in raced
      /\ PollerAt(c) => c \in raced'
  BY <1>2 DEF HandleDestroy, Races, PollerAt, IInv, Types
<1>7. Types'  BY <1>1, <1>3, <1>4, <1>6 DEF IInv, Types
<1>8. StartsEmpty' /\ MarksListed'  BY <1>1, <1>3, <1>5 DEF StartsEmpty, MarksListed
<1>9. DestroyedIsGone'  BY <1>1, <1>3, <1>5 DEF IInv, DestroyedIsGone
<1>10. KnownWereCreated'
  <2> SUFFICES ASSUME NEW d \in Containers, docker[d] = "none" PROVE NothingBefore(d)'
    BY <1>1 DEF KnownWereCreated
  <2>1. NothingBefore(d) /\ d # c  BY <1>5 DEF KnownWereCreated, IInv
  <2> QED  BY <1>1, <1>3, <1>4, <2>1 DEF NothingBefore, Listed, PollerAt
<1>11. LivesAreListed'
  <2> SUFFICES ASSUME NEW d \in Containers, d \notin missed, Exists(d)
               PROVE  Listed(d)' \/ StartComes(d)'
    BY <1>1 DEF LivesAreListed, Exists
  <2>1. d # c  BY <1>5 DEF Exists, Statuses
  <2>2. Listed(d) \/ StartComes(d)  BY <1>5 DEF LivesAreListed, IInv
  <2>3. Listed(d) => Listed(d)'  BY <1>4, <2>1 DEF Listed
  <2>4. StartComes(d) => StartComes(d)'  BY <1>1, <2>1 DEF StartComes, HandlerAt
  <2> QED  BY <2>2, <2>3, <2>4
<1>12. ListedAreShown'
  <2> SUFFICES ASSUME NEW d \in Containers, Exists(d), agents'[d] # NoAgent
               PROVE  page[d] # NoAgent \/ (poller.at = "sending" /\ poller.c = d)
    BY <1>1 DEF ListedAreShown, Exists, Listed
  <2>1. Listed(d)  BY <1>4 DEF Listed
  <2> QED  BY <1>2, <2>1 DEF ListedAreShown, IInv
<1>13. GoneIsRemoved'
  <2> SUFFICES ASSUME NEW d \in Containers, d \notin missed, docker[d] = "gone"
               PROVE  Farewell(d)' \/ (Settled(d)' /\ (d \in raced' \/ Removed(d)'))
    BY <1>1 DEF GoneIsRemoved
  <2>1. Farewell(d) \/ (Settled(d) /\ (d \in raced \/ Removed(d)))
    BY DEF GoneIsRemoved, IInv
  <2>2. NoneAfter(d, 0) => NoneAfter(d, 0)'  BY <1>1 DEF NoneAfter
  <2>3. NoneAfter(d, 0) => Settled(d)'  BY <1>3, <2>2 DEF Settled
  <2>4. CASE d = c
    <3>1. ~Settled(d)  BY <1>2, <2>4 DEF Settled
    <3>2. NoneAfter(d, 0) => d \in raced' \/ Removed(d)'
      BY <1>1, <1>3, <1>4, <1>6, <2>4 DEF Removed, Listed, PollerAt
    <3>3. Farewell(d) => Farewell(d)' \/ NoneAfter(d, 0)
      BY <1>1 DEF Farewell, NoneAfter
    <3> QED  BY <2>1, <2>3, <3>1, <3>2, <3>3
  <2>5. CASE d # c
    <3>1. Farewell(d) => Farewell(d)'  BY <1>1, <2>5 DEF Farewell, HandlerAt, NoneAfter
    <3>2. Settled(d) => Settled(d)'  BY <2>3 DEF Settled
    <3>3. Removed(d) => Removed(d)'
      BY <1>1, <1>2, <1>4, <2>5 DEF Removed, Listed, PollerAt
    <3> QED  BY <1>6, <2>1, <2>5, <3>1, <3>2, <3>3
  <2> QED  BY <2>4, <2>5
<1> QED  BY <1>7, <1>8, <1>9, <1>10, <1>11, <1>12, <1>13 DEF IInv

LEMMA EmitRemovedPreserves == IInv /\ EmitRemoved => IInv'
<1> SUFFICES ASSUME IInv, EmitRemoved PROVE IInv'  OBVIOUS
<1> DEFINE c == handler.c
<1>1. /\ agents' = agents /\ poller' = poller /\ boot' = boot /\ stream' = stream
      /\ docker' = docker /\ changes' = changes /\ missed' = missed /\ raced' = raced
  BY DEF EmitRemoved, daemonVars
<1>2. handler' \in Handlers /\ handler'.at = "idle"
  BY DEF EmitRemoved, IdleHandler, Handlers
<1>3. handler.at = "remove" /\ c \in Containers  BY HandlerFields DEF EmitRemoved, IInv
<1>4. /\ page' \in [Containers -> Agents \cup {NoAgent}] /\ page'[c] = NoAgent
      /\ \A d \in Containers \ {c} : page'[d] = page[d]
  BY <1>3 DEF EmitRemoved, IInv, Types
<1>5. boot = "online" /\ docker[c] = "gone"
  BY <1>3 DEF IInv, StartsEmpty, DestroyedIsGone
<1>6. Types'  BY <1>1, <1>2, <1>4 DEF IInv, Types
<1>7. StartsEmpty' /\ MarksListed' /\ DestroyedIsGone'
  BY <1>1, <1>2, <1>5 DEF IInv, StartsEmpty, MarksListed, DestroyedIsGone
<1>8. KnownWereCreated'
  BY <1>1, <1>2 DEF IInv, KnownWereCreated, NothingBefore, Listed, PollerAt
<1>9. LivesAreListed'
  BY <1>1, <1>3 DEF IInv, LivesAreListed, StartComes, HandlerAt, Exists, Listed
<1>10. ListedAreShown'
  <2> SUFFICES ASSUME NEW d \in Containers, Exists(d), Listed(d)
               PROVE  page'[d] # NoAgent \/ (poller.at = "sending" /\ poller.c = d)
    BY <1>1 DEF ListedAreShown, Exists, Listed
  <2>1. d # c  BY <1>5 DEF Exists, Statuses
  <2> QED  BY <1>3, <1>4, <2>1 DEF ListedAreShown, IInv
<1>11. GoneIsRemoved'
  <2> SUFFICES ASSUME NEW d \in Containers, d \notin missed, docker[d] = "gone"
               PROVE  Farewell(d)' \/ (Settled(d)' /\ (d \in raced \/ Removed(d)'))
    BY <1>1 DEF GoneIsRemoved
  <2>1. Farewell(d) \/ (Settled(d) /\ (d \in raced \/ Removed(d)))
    BY DEF GoneIsRemoved, IInv
  <2>2. Farewell(d) => Farewell(d)'  BY <1>1, <1>3 DEF Farewell, HandlerAt, NoneAfter
  <2>3. Settled(d) => Settled(d)'  BY <1>1, <1>2 DEF Settled, NoneAfter
  <2>4. Removed(d) => Removed(d)'
    BY <1>1, <1>3, <1>4 DEF Removed, Listed, PollerAt
  <2> QED  BY <2>1, <2>2, <2>3, <2>4
<1> QED  BY <1>6, <1>7, <1>8, <1>9, <1>10, <1>11 DEF IInv

\* The poll thread goes on without touching an agent: to another place, or to a
\* container that runs.
LEMMA PollPreserves ==
    ASSUME IInv, poller' \in Pollers, poller.at # "sending", poller'.at # "sending",
           boot # "new",
           \A d \in Containers : PollerAt(d)' => docker[d] = "running",
           UNCHANGED <<daemonVars, stream, boot, handler, missed, raced, surfaceVars>>
    PROVE  IInv'
<1>1. /\ agents' = agents /\ page' = page /\ boot' = boot /\ stream' = stream
      /\ docker' = docker /\ changes' = changes /\ missed' = missed /\ raced' = raced
      /\ handler' = handler
  BY DEF daemonVars, surfaceVars
<1>2. Types'  BY <1>1 DEF IInv, Types
<1>3. StartsEmpty' /\ MarksListed' /\ DestroyedIsGone'
  BY <1>1 DEF IInv, StartsEmpty, MarksListed, DestroyedIsGone, Listed
<1>4. KnownWereCreated'
  BY <1>1 DEF IInv, KnownWereCreated, NothingBefore, Listed
<1>5. LivesAreListed'
  BY <1>1 DEF IInv, LivesAreListed, StartComes, HandlerAt, Exists, Listed
<1>6. ListedAreShown'  BY <1>1 DEF IInv, ListedAreShown, Exists, Listed
<1>7. GoneIsRemoved'
  <2> SUFFICES ASSUME NEW d \in Containers, d \notin missed, docker[d] = "gone"
               PROVE  Farewell(d)' \/ (Settled(d)' /\ (d \in raced \/ Removed(d)'))
    BY <1>1 DEF GoneIsRemoved
  <2>1. Farewell(d) \/ (Settled(d) /\ (d \in raced \/ Removed(d)))
    BY DEF GoneIsRemoved, IInv
  <2>2. Farewell(d) => Farewell(d)'  BY <1>1 DEF Farewell, HandlerAt, NoneAfter
  <2>3. Settled(d) => Settled(d)'  BY <1>1 DEF Settled, NoneAfter
  <2>4. ~PollerAt(d)'  OBVIOUS
  <2>5. Removed(d) => Removed(d)'  BY <1>1, <2>4 DEF Removed, Listed
  <2> QED  BY <2>1, <2>2, <2>3, <2>5
<1> QED  BY <1>2, <1>3, <1>4, <1>5, <1>6, <1>7 DEF IInv

\* The agent is written over whatever is there, or not there by now.
LEMMA WriteStatsPreserves == IInv /\ WriteStats => IInv'
<1> SUFFICES ASSUME IInv, WriteStats PROVE IInv'  OBVIOUS
<1>1. /\ page' = page /\ boot' = boot /\ stream' = stream
      /\ docker' = docker /\ changes' = changes /\ missed' = missed /\ raced' = raced
      /\ handler' = handler
  BY DEF WriteStats, PollVars, daemonVars
<1>2. PICK c \in Containers : c = poller.c
  BY PollerFields DEF WriteStats, IInv
<1>3. /\ poller.at = "asking" /\ poller.rev \in 0..MaxRev /\ poller.todo \in Passes
  BY PollerFields DEF WriteStats, IInv
<1>4. PICK dto \in Agents :
          /\ agents' = [agents EXCEPT ![c] = dto]
          /\ poller' = [at |-> "sending", todo |-> poller.todo, c |-> c, dto |-> dto]
  <2>1. PICK busy \in BOOLEAN :
            LET dto == [AgentDto("running", busy) EXCEPT
                           !.rev = IF poller.rev < MaxRev THEN poller.rev + 1 ELSE MaxRev]
            IN /\ agents' = [agents EXCEPT ![c] = dto]
               /\ poller' = [at |-> "sending", todo |-> poller.todo, c |-> c, dto |-> dto]
    BY <1>2 DEF WriteStats, PollVars
  <2>2. PICK rev \in 0..MaxRev :
            rev = IF poller.rev < MaxRev THEN poller.rev + 1 ELSE MaxRev
    BY <1>3, DockerAssumption
  <2>3. PICK old \in Agents : old = AgentDto("running", busy)  BY DtoIsTyped DEF Statuses
  <2>4. [old EXCEPT !.rev = rev] \in Agents  BY DEF Agents
  <2> QED  BY <2>1, <2>2, <2>3, <2>4
<1>5. /\ poller' \in Pollers /\ poller'.at = "sending" /\ poller'.c = c
  BY <1>3, <1>4 DEF Pollers
<1>6. /\ agents' \in [Containers -> Agents \cup {NoAgent}] /\ agents'[c] # NoAgent
      /\ \A d \in Containers \ {c} : agents'[d] = agents[d]
  BY <1>4, DtoListed, NoAgentIsNone DEF IInv
<1>7. PollerAt(c) /\ \A d \in Containers : PollerAt(d)' <=> PollerAt(d)
  BY <1>2, <1>3, <1>5 DEF PollerAt
<1>8. boot # "new"  BY <1>3 DEF IInv, StartsEmpty
<1>9. \A d \in Containers : Listed(d) => Listed(d)'  BY <1>6 DEF Listed
<1>10. Types'  BY <1>1, <1>5, <1>6 DEF IInv, Types
<1>11. StartsEmpty'  BY <1>1, <1>8 DEF IInv, StartsEmpty
<1>12. MarksListed'
  <2>1. handler.at # "idle" => handler.c \in Containers  BY HandlerFields DEF IInv
  <2> QED  BY <1>1, <1>9, <2>1 DEF IInv, MarksListed, Listed
<1>13. DestroyedIsGone'  BY <1>1 DEF IInv, DestroyedIsGone
<1>14. KnownWereCreated'
  <2> SUFFICES ASSUME NEW d \in Containers, docker[d] = "none" PROVE NothingBefore(d)'
    BY <1>1 DEF KnownWereCreated
  <2>1. NothingBefore(d)  BY DEF KnownWereCreated, IInv
  <2>2. d # c  BY <1>7, <2>1 DEF NothingBefore
  <2>3. ~PollerAt(d)'  BY <1>7, <2>1 DEF NothingBefore
  <2> QED  BY <1>1, <1>6, <2>1, <2>2, <2>3 DEF NothingBefore, Listed
<1>15. LivesAreListed'
  BY <1>1, <1>9 DEF IInv, LivesAreListed, StartComes, HandlerAt, Exists
<1>16. ListedAreShown'
  <2> SUFFICES ASSUME NEW d \in Containers, Exists(d), agents'[d] # NoAgent
               PROVE  \/ page[d] # NoAgent
                      \/ handler.at \in {"mark", "emit"} /\ handler.c = d
                      \/ poller'.at = "sending" /\ poller'.c = d
    BY <1>1 DEF ListedAreShown, Exists, Listed
  <2>1. CASE d = c  BY <1>5, <2>1
  <2>2. CASE d # c
    <3>1. Listed(d)  BY <1>6, <2>2 DEF Listed
    <3> QED  BY <1>3, <3>1 DEF ListedAreShown, IInv
  <2> QED  BY <2>1, <2>2
<1>17. GoneIsRemoved'
  <2> SUFFICES ASSUME NEW d \in Containers, d \notin missed, docker[d] = "gone"
               PROVE  Farewell(d)' \/ (Settled(d)' /\ (d \in raced \/ Removed(d)'))
    BY <1>1 DEF GoneIsRemoved
  <2>1. Farewell(d) \/ (Settled(d) /\ (d \in raced \/ Removed(d)))
    BY DEF GoneIsRemoved, IInv
  <2>2. Farewell(d) => Farewell(d)'  BY <1>1 DEF Farewell, HandlerAt, NoneAfter
  <2>3. Settled(d) => Settled(d)'  BY <1>1 DEF Settled, NoneAfter
  <2>4. ASSUME Removed(d) PROVE Removed(d)'
    <3>1. d # c /\ ~PollerAt(d)'  BY <1>7, <2>4 DEF Removed
    <3> QED  BY <1>1, <1>6, <2>4, <3>1 DEF Removed, Listed
  <2> QED  BY <2>1, <2>2, <2>3, <2>4
<1> QED  BY <1>10, <1>11, <1>12, <1>13, <1>14, <1>15, <1>16, <1>17 DEF IInv

LEMMA SendStatsPreserves == IInv /\ SendStats => IInv'
<1> SUFFICES ASSUME IInv, SendStats PROVE IInv'  OBVIOUS
<1>1. /\ agents' = agents /\ boot' = boot /\ stream' = stream
      /\ docker' = docker /\ changes' = changes /\ missed' = missed /\ raced' = raced
      /\ handler' = handler
  BY DEF SendStats, PollVars, daemonVars
<1>2. PICK c \in Containers : c = poller.c /\ PollerAt(c)
  BY PollerFields DEF SendStats, IInv, PollerAt
<1>3. /\ poller.at = "sending" /\ poller.dto \in Agents /\ poller.todo \in Passes
      /\ page' = Shown(c, poller.dto)
  BY <1>2, PollerFields DEF SendStats, IInv
<1>4. poller' \in Pollers /\ poller'.at = "pass"
  BY <1>3 DEF SendStats, PollVars, Pollers
<1>5. /\ page' \in [Containers -> Agents \cup {NoAgent}] /\ page'[c] # NoAgent
      /\ \A d \in Containers \ {c} : page'[d] = page[d]
  <2>1. PICK dto \in Agents : dto = poller.dto  BY <1>3
  <2> QED  BY <1>3, <2>1, ShownIs DEF IInv
<1>6. boot # "new"  BY <1>3 DEF IInv, StartsEmpty
<1>7. Types'  BY <1>1, <1>4, <1>5 DEF IInv, Types
<1>8. StartsEmpty' /\ MarksListed' /\ DestroyedIsGone'
  BY <1>1, <1>6 DEF IInv, StartsEmpty, MarksListed, DestroyedIsGone, Listed
<1>9. KnownWereCreated'
  BY <1>1, <1>4 DEF IInv, KnownWereCreated, NothingBefore, Listed, PollerAt
<1>10. LivesAreListed'
  BY <1>1 DEF IInv, LivesAreListed, StartComes, HandlerAt, Exists, Listed
<1>11. ListedAreShown'
  BY <1>1, <1>2, <1>5 DEF IInv, ListedAreShown, Exists, Listed
<1>12. GoneIsRemoved'
  <2> SUFFICES ASSUME NEW d \in Containers, d \notin missed, docker[d] = "gone"
               PROVE  Farewell(d)' \/ (Settled(d)' /\ (d \in raced \/ Removed(d)'))
    BY <1>1 DEF GoneIsRemoved
  <2>1. Farewell(d) \/ (Settled(d) /\ (d \in raced \/ Removed(d)))
    BY DEF GoneIsRemoved, IInv
  <2>2. Farewell(d) => Farewell(d)'  BY <1>1 DEF Farewell, HandlerAt, NoneAfter
  <2>3. Settled(d) => Settled(d)'  BY <1>1 DEF Settled, NoneAfter
  <2>4. Removed(d) => Removed(d)'
    BY <1>1, <1>2, <1>4, <1>5 DEF Removed, Listed, PollerAt
  <2> QED  BY <2>1, <2>2, <2>3, <2>4
<1> QED  BY <1>7, <1>8, <1>9, <1>10, <1>11, <1>12 DEF IInv

LEMMA PollThreadStep == IInv /\ PollThread => IInv'
<1> SUFFICES ASSUME IInv, PollThread PROVE IInv'  OBVIOUS
<1> USE DEF PollVars
<1>1. poller.at # "idle" => boot # "new"  BY DEF IInv, StartsEmpty
<1>2. CASE BeginPass
  <2>1. \A c \in Containers : Listed(c) => agents[c].rev \in 0..MaxRev
    BY DEF IInv, Types, Listed, Agents
  <2>2. {<<c, agents[c].rev>> : c \in ListedNow} \in Passes
    BY <2>1 DEF Passes, ListedNow
  <2>3. poller' \in Pollers /\ poller'.at = "pass"  BY <1>2, <2>2 DEF BeginPass, Pollers
  <2> QED  BY <1>2, <2>3, PollPreserves DEF BeginPass, PollerAt
<1>3. CASE \E c \in Containers, rev \in 0..MaxRev : Ask(c, rev)
  <2>1. PICK c \in Containers, rev \in 0..MaxRev : Ask(c, rev)  BY <1>3
  <2>2. poller.todo \in Passes /\ poller.at = "pass"  BY <2>1, PollerFields DEF Ask, IInv
  <2>3. poller.todo \ {<<c, rev>>} \in Passes  BY <2>2 DEF Passes
  <2>4. CASE docker[c] = "running"
    <3>1. poller' = [at |-> "asking", todo |-> poller.todo \ {<<c, rev>>}, c |-> c, rev |-> rev]
      BY <2>1, <2>4 DEF Ask
    <3>2. poller' \in Pollers /\ poller'.at = "asking" /\ poller'.c = c
      BY <2>3, <3>1 DEF Pollers
    <3> QED  BY <1>1, <2>1, <2>2, <2>4, <3>2, PollPreserves DEF Ask, PollerAt
  <2>5. CASE docker[c] # "running"
    <3>1. poller' = [at |-> "pass", todo |-> poller.todo \ {<<c, rev>>}]
      BY <2>1, <2>5 DEF Ask
    <3>2. poller' \in Pollers /\ poller'.at = "pass"  BY <2>3, <3>1 DEF Pollers
    <3> QED  BY <1>1, <2>1, <2>2, <3>2, PollPreserves DEF Ask, PollerAt
  <2> QED  BY <2>4, <2>5
<1>4. CASE FailStats
  <2>1. poller.todo \in Passes  BY <1>4, PollerFields DEF FailStats, IInv
  <2>2. poller' \in Pollers /\ poller'.at = "pass"  BY <1>4, <2>1 DEF FailStats, Pollers
  <2> QED  BY <1>1, <1>4, <2>2, PollPreserves DEF FailStats, PollerAt
<1>5. CASE BeginRollup
  <2>1. poller' \in Pollers /\ poller'.at = "rollup"
    BY <1>5 DEF BeginRollup, Pollers, ListedNow
  <2> QED  BY <1>1, <1>5, <2>1, PollPreserves DEF BeginRollup, PollerAt
<1>6. CASE EndRollup
  <2>1. poller' \in Pollers /\ poller'.at = "idle"
    BY <1>6 DEF EndRollup, Pollers, IdlePoller
  <2> QED  BY <1>1, <1>6, <2>1, PollPreserves DEF EndRollup, PollerAt
<1>7. CASE DieInRollup
  <2>1. poller' \in Pollers /\ poller'.at = "dead"  BY <1>7 DEF DieInRollup, Pollers
  <2> QED  BY <1>1, <1>7, <2>1, PollPreserves DEF DieInRollup, PollerAt
<1> QED  BY <1>2, <1>3, <1>4, <1>5, <1>6, <1>7, WriteStatsPreserves, SendStatsPreserves
         DEF PollThread

LEMMA StepPreserves == IInv /\ [Next]_vars => IInv'
<1> SUFFICES ASSUME IInv, [Next]_vars PROVE IInv'  OBVIOUS
<1>1. CASE UNCHANGED vars
  BY <1>1 DEF IInv, Types, StartsEmpty, KnownWereCreated, NothingBefore, MarksListed,
     DestroyedIsGone, LivesAreListed, StartComes, HandlerAt, ListedAreShown, GoneIsRemoved,
     Farewell, Settled, Removed, NoneAfter, Listed, Exists, PollerAt,
     vars, daemonVars, surfaceVars
<1>2. CASE EventThread
  BY <1>2, OpenStreamPreserves, TakeEventPreserves, HandleStartPreserves,
     HandleStopPreserves, MarkDockedPreserves, EmitAgentPreserves, HandleDestroyPreserves,
     EmitRemovedPreserves
  DEF EventThread
<1> QED  BY <1>1, <1>2, DaemonStep, BootstrapPreserves, PollThreadStep DEF Next

\* collector.py: the strengthening holds in every reachable state of the collector.
THEOREM Invariance == Spec => []IInv
BY InitEstablishes, StepPreserves, PTL DEF Spec

-----------------------------------------------------------------------------
(* What follows                                                            *)

\* collector.py: every variable stays in its range, for any containers and any
\* number of changes and revisions.
THEOREM TypeCorrect == Spec => []TypeOK
<1>1. IInv => TypeOK
  <2> SUFFICES ASSUME IInv PROVE TypeOK  OBVIOUS
  <2>1. ToSet(stream) \subseteq Events  BY DEF ToSet, IInv, Types
  <2>2. docker \in [Containers -> {"none", "gone"} \cup Statuses]
    BY DEF IInv, Types, DaemonStatuses
  <2>3. /\ handler.at \in {"idle", "fetched", "mark", "emit", "remove"}
        /\ handler.at # "idle" => handler.c \in Containers
    BY DEF IInv, Types, Handlers, IdleHandler
  <2>4. poller.at \in {"idle", "pass", "asking", "sending", "rollup", "dead"}
    BY DEF IInv, Types, Pollers, IdlePoller
  <2>5. /\ poller.at \in {"asking", "sending"} => poller.c \in Containers
        /\ poller.at = "sending" => poller.dto \in Agents
    BY PollerFields DEF IInv
  <2> QED  BY <2>1, <2>2, <2>3, <2>4, <2>5 DEF TypeOK, IInv, Types
<1> QED  BY <1>1, Invariance, PTL

\* collector.py:194-217, 253-266: whatever the two threads write over one another, a
\* container that exists is listed and shown once they are done with it, but for one
\* that changed between the listing and the event stream.
THEOREM LivesShown == Spec => []ExistingIsShown
<1>1. IInv => ExistingIsShown
  <2> SUFFICES ASSUME IInv, Quiet, NEW c \in Containers, c \notin missed, Exists(c)
               PROVE  Listed(c) /\ page[c] # NoAgent
    BY DEF ExistingIsShown
  <2>1. ~StartComes(c)  BY DEF Quiet, StartComes, HandlerAt
  <2>2. Listed(c)  BY <2>1 DEF Quiet, LivesAreListed, IInv
  <2> QED  BY <2>2 DEF Quiet, ListedAreShown, IInv
<1> QED  BY <1>1, Invariance, PTL

\* collector.py:235-237, 255-266: a destroyed container comes back to the list or the
\* page in no order of the two threads but the one in which the poll thread was
\* at it when it was removed.
THEOREM GoneRemoved == Spec => []GoneIsGone
<1>1. IInv => GoneIsGone
  <2> SUFFICES ASSUME IInv, Quiet, NEW c \in Containers, c \notin missed, c \notin raced,
                      docker[c] = "gone"
               PROVE  ~Listed(c) /\ page[c] = NoAgent
    BY DEF GoneIsGone
  <2>1. ~Farewell(c)  BY DEF Quiet, Farewell, HandlerAt
  <2>2. Removed(c)  BY <2>1 DEF GoneIsRemoved, IInv
  <2> QED  BY <2>2 DEF Quiet, Removed
<1> QED  BY <1>1, Invariance, PTL
=============================================================================
