----------------------------- MODULE FeedServer -----------------------------
(***************************************************************************)
(* The feed between a collector and a browser: server.py's fan-out with    *)
(* its bounded per-connection queue, and createLiveFeed's client of        *)
(* web/roboport-feed.html, for the life of one agent.                      *)
(*                                                                         *)
(* Threads of the server process: the collector's emit (under its lock)    *)
(* and hand their envelope to the event loop; the loop stamps it into the  *)
(* connection's queue, takes snapshots and answers GET /api/state.  The    *)
(* socket keeps order, fetches need not.                                   *)
(*                                                                         *)
(* The agent is added, updated and removed (an operator's retire) and may  *)
(* be added again, its rev starting over; `life` tells its lives apart and *)
(* is not on the wire.                                                     *)
(***************************************************************************)
EXTENDS Naturals, Sequences, FiniteSets, SequencesExt

CONSTANTS
    QueueSize,      \* maxsize of a connection's queue
    MaxEvents,      \* bound: envelopes emitted
    MaxFetches,     \* bound: resyncs under way at once
    MaxConnects,    \* bound: connections opened
    FetchesMayFail  \* whether the environment lets a resync fail

ASSUME FeedServerAssumption ==
    /\ QueueSize \in Nat \ {0}
    /\ MaxEvents \in Nat
    /\ MaxFetches \in Nat
    /\ MaxConnects \in Nat
    /\ FetchesMayFail \in BOOLEAN

VARIABLES
    agent,      \* the collector's agent
    events,     \* envelopes emitted
    conn,       \* the connection: "closed", "registered" or "open"
    loop,       \* _deliver callbacks the event loop has pending
    seq,        \* the connection's _Client.seq
    queue,      \* the connection's _Client.q
    wire,       \* what the socket is carrying
    fetches,    \* GET /api/state under way, each answered or not
    lastSeq,    \* the page's lastSeq
    page,       \* the page's copy of the agent
    connects,   \* connections opened so far
    dropped,    \* history: seqs of this connection that never reached its queue
    base,       \* history: the first seq taken since the page was hydrated
    lossless    \* history: nothing was ever dropped

serverVars == <<agent, events>>
connVars == <<conn, loop, seq, queue, wire, connects, dropped, lossless>>
pageVars == <<fetches, lastSeq, page, base>>
vars == <<serverVars, connVars, pageVars>>

-----------------------------------------------------------------------------
\* An agent of some life and revision, or none.
Agents == [life : Nat \ {0}, rev : Nat]
NoAgent == [life |-> 0, rev |-> 0]
Entities == Agents \cup {NoAgent}

\* Deltas about the agent, and those about anything else ("metrics.tick").
Deltas == [type : {"agent.updated", "agent.removed", "metrics.tick"}, data : Entities]
Stamped == [type : {"agent.updated", "agent.removed", "metrics.tick"},
            data : Entities, seq : Nat]
Snapshots == [type : {"snapshot"}, data : Entities, seq : {0}]

Snapshot == [type |-> "snapshot", data |-> agent, seq |-> 0]

Init ==
    /\ agent = NoAgent
    /\ events = 0
    /\ conn = "closed"
    /\ loop = <<>>
    /\ seq = 0
    /\ queue = <<>>
    /\ wire = <<>>
    /\ fetches = {}
    /\ lastSeq = 0
    /\ page = NoAgent
    /\ connects = 0
    /\ dropped = {}
    /\ base = 0
    /\ lossless = TRUE

-----------------------------------------------------------------------------
(* The collector's threads                                                 *)

\* _fanout: every registered connection, whether or not it has its snapshot.
Fanout(env) ==
    loop' = IF conn # "closed" THEN Append(loop, env) ELSE loop

Emit(type, data) ==
    /\ events < MaxEvents
    /\ events' = events + 1
    /\ Fanout([type |-> type, data |-> data])
    /\ UNCHANGED <<conn, seq, queue, wire, connects, dropped, lossless, pageVars>>

\* agent.added carries a full agent too: the page treats both alike.
AddAgent(life) ==
    /\ agent = NoAgent
    /\ agent' = [life |-> life, rev |-> 0]
    /\ Emit("agent.updated", agent')

UpdateAgent ==
    /\ agent # NoAgent
    /\ agent' = [agent EXCEPT !.rev = @ + 1]
    /\ Emit("agent.updated", agent')

RemoveAgent ==
    /\ agent # NoAgent
    /\ agent' = NoAgent
    /\ Emit("agent.removed", NoAgent)

Tick == Emit("metrics.tick", NoAgent) /\ UNCHANGED agent

-----------------------------------------------------------------------------
(* The event loop                                                          *)

\* A copy of the envelope, with the connection's seq.
Stamp(env, n) == [type |-> env.type, data |-> env.data, seq |-> n]

\* Fault: the counter advances only with what fits in the queue.
DeliverStampingKept ==
    /\ conn = "open"
    /\ loop # <<>>
    /\ loop' = Tail(loop)
    /\ IF Len(queue) < QueueSize
       THEN /\ queue' = Append(queue, Stamp(Head(loop), seq + 1))
            /\ seq' = seq + 1
            /\ UNCHANGED <<dropped, lossless>>
       ELSE /\ dropped' = dropped \cup {seq + 1}
            /\ lossless' = FALSE
            /\ UNCHANGED <<queue, seq>>
    /\ UNCHANGED <<serverVars, conn, wire, connects, pageVars>>

\* Fault: the queue takes one envelope too many.
DeliverOneOver ==
    /\ conn = "open"
    /\ loop # <<>>
    /\ loop' = Tail(loop)
    /\ seq' = seq + 1
    /\ IF Len(queue) <= QueueSize
       THEN /\ queue' = Append(queue, Stamp(Head(loop), seq + 1))
            /\ UNCHANGED <<dropped, lossless>>
       ELSE /\ dropped' = dropped \cup {seq + 1}
            /\ lossless' = FALSE
            /\ UNCHANGED queue
    /\ UNCHANGED <<serverVars, conn, wire, connects, pageVars>>

\* _deliver: the seq is stamped first, then QueueFull drops the envelope.
Deliver ==
    /\ conn = "open"
    /\ loop # <<>>
    /\ loop' = Tail(loop)
    /\ seq' = seq + 1
    /\ IF Len(queue) < QueueSize
       THEN /\ queue' = Append(queue, Stamp(Head(loop), seq + 1))
            /\ UNCHANGED <<dropped, lossless>>
       ELSE /\ dropped' = dropped \cup {seq + 1}
            /\ lossless' = FALSE
            /\ UNCHANGED queue
    /\ UNCHANGED <<serverVars, conn, wire, connects, pageVars>>

\* feed(): the connection is registered, and then its snapshot is taken.  The
\* collector's threads may run in between; the event loop does nothing else, as
\* there is no await.
Register ==
    /\ conn = "closed"
    /\ connects < MaxConnects
    /\ connects' = connects + 1
    /\ conn' = "registered"
    /\ loop' = <<>> /\ queue' = <<>> /\ wire' = <<>>
    /\ seq' = 0
    /\ dropped' = {}
    /\ UNCHANGED <<serverVars, lossless, pageVars>>

SendSnapshot ==
    /\ conn = "registered"
    /\ conn' = "open"
    /\ wire' = <<Snapshot>>
    /\ UNCHANGED <<serverVars, loop, seq, queue, connects, dropped, lossless, pageVars>>

\* send_text of the next envelope; a slow page leaves the socket full.
Send ==
    /\ conn = "open"
    /\ queue # <<>>
    /\ wire = <<>>
    /\ wire' = <<Head(queue)>>
    /\ queue' = Tail(queue)
    /\ UNCHANGED <<serverVars, conn, loop, seq, connects, dropped, lossless, pageVars>>

\* The socket breaks; what it carried and what was queued for it is gone.
Disconnect ==
    /\ conn = "open"
    /\ connects < MaxConnects
    /\ conn' = "closed"
    /\ loop' = <<>> /\ queue' = <<>> /\ wire' = <<>>
    /\ UNCHANGED <<serverVars, seq, connects, dropped, lossless, pageVars>>

AnswerFetch(id) ==
    /\ conn # "registered"
    /\ [id |-> id, answer |-> <<>>] \in fetches
    /\ fetches' = (fetches \ {[id |-> id, answer |-> <<>>]})
                      \cup {[id |-> id, answer |-> <<Snapshot>>]}
    /\ UNCHANGED <<serverVars, connVars, lastSeq, page, base>>

-----------------------------------------------------------------------------
(* The page                                                                *)

\* applyAgent drops a stale revision; agent.removed deletes whatever is there.
Applied(env) ==
    CASE env.type = "agent.removed" -> NoAgent
      [] env.type = "agent.updated" ->
             IF page # NoAgent /\ env.data.rev <= page.rev THEN page ELSE env.data
      [] env.type = "metrics.tick" -> page

\* Fault: a snapshot is merged by revision instead of replacing the page's copy.
HydrateMerging(env) ==
    /\ page' = IF page.rev > env.data.rev THEN page ELSE env.data
    /\ lastSeq' = 0
    /\ base' = 0

\* hydrate, with lastSeq at the 0 every snapshot carries.
Hydrate(env) ==
    /\ page' = env.data
    /\ lastSeq' = 0
    /\ base' = 0

Gap(env) == lastSeq # 0 /\ env.seq # lastSeq + 1

ReceiveSnapshot ==
    /\ wire # <<>>
    /\ Head(wire).type = "snapshot"
    /\ Hydrate(Head(wire))
    /\ wire' = <<>>
    /\ UNCHANGED <<serverVars, conn, loop, seq, queue, connects, dropped, lossless,
                   fetches>>

ReceiveDelta ==
    /\ wire # <<>>
    /\ Head(wire).type # "snapshot"
    /\ ~Gap(Head(wire))
    /\ lastSeq' = Head(wire).seq
    /\ page' = Applied(Head(wire))
    /\ base' = IF lastSeq = 0 THEN Head(wire).seq ELSE base
    /\ wire' = <<>>
    /\ UNCHANGED <<serverVars, conn, loop, seq, queue, connects, dropped, lossless,
                   fetches>>

\* A gap: the envelope is discarded and a fetch started, even when one is under
\* way; lastSeq moves only when the answer comes in.
Resync(id) ==
    /\ wire # <<>>
    /\ Head(wire).type # "snapshot"
    /\ Gap(Head(wire))
    /\ id \notin {f.id : f \in fetches}
    /\ fetches' = fetches \cup {[id |-> id, answer |-> <<>>]}
    /\ wire' = <<>>
    /\ UNCHANGED <<serverVars, conn, loop, seq, queue, connects, dropped, lossless,
                   lastSeq, page, base>>

FinishFetch(f) ==
    /\ f \in fetches
    /\ f.answer # <<>>
    /\ fetches' = fetches \ {f}
    /\ Hydrate(Head(f.answer))
    /\ UNCHANGED <<serverVars, connVars>>

\* The fetch fails and the error is swallowed.
FailFetch(f) ==
    /\ FetchesMayFail
    /\ f \in fetches
    /\ fetches' = fetches \ {f}
    /\ UNCHANGED <<serverVars, connVars, lastSeq, page, base>>

-----------------------------------------------------------------------------
FetchIds == 1..MaxFetches

Collector == UpdateAgent \/ RemoveAgent \/ Tick \/ AddAgent(events + 1)

EventLoop == Deliver \/ Register \/ SendSnapshot \/ Send \/ Disconnect
             \/ \E id \in FetchIds : AnswerFetch(id)

Page == ReceiveSnapshot \/ ReceiveDelta \/ (\E id \in FetchIds : Resync(id))
        \/ \E f \in fetches : FinishFetch(f) \/ FailFetch(f)

Next == Collector \/ EventLoop \/ Page

Spec == Init /\ [][Next]_vars

-----------------------------------------------------------------------------
(* Properties                                                              *)

\* Every variable stays in its range.
TypeOK ==
    /\ agent \in Entities
    /\ events \in 0..MaxEvents
    /\ conn \in {"closed", "registered", "open"}
    /\ ToSet(loop) \subseteq Deltas
    /\ seq \in Nat
    /\ ToSet(queue) \subseteq Stamped /\ Len(queue) <= QueueSize
    /\ ToSet(wire) \subseteq Stamped \cup Snapshots /\ Len(wire) <= 1
    /\ \A f \in fetches : f.id \in FetchIds /\ ToSet(f.answer) \subseteq Snapshots
    /\ lastSeq \in 0..seq \/ conn # "open" \/ wire # <<>>
    /\ page \in Entities
    /\ connects \in 0..MaxConnects
    /\ dropped \subseteq 1..(seq + 1)
    /\ base \in Nat
    /\ lossless \in BOOLEAN

\* Nothing is on its way to the page.
Quiet ==
    /\ conn = "open"
    /\ loop = <<>> /\ queue = <<>> /\ wire = <<>>
    /\ fetches = {}

\* As long as no queue overflowed, a page that has read everything shows the
\* agent as it is, reconnects included: registering before the snapshot is taken
\* makes deltas arrive twice but never lets one fall in between.
LosslessConverges == Quiet /\ lossless => page = agent

\* A dropped envelope is always noticed: the envelopes applied since the page was
\* last hydrated are contiguous, so a drop among them forced a resync.
DropsAreNoticed ==
    /\ conn = "open"
    /\ \A env \in ToSet(wire) : env.type # "snapshot"
    /\ lastSeq # 0
    => \A n \in dropped : n < base \/ n > lastSeq

-----------------------------------------------------------------------------
(* What the documentation says, refuted by a run                           *)

\* CONTRACT.md:18-21, "A seq gap -> client re-syncs via snapshot": a page that
\* has read everything and sees no gap shows the agent as it is.
Converges == Quiet /\ lastSeq = seq => page = agent
=============================================================================
