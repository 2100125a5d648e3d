--------------------------- MODULE FeedServerProofs ---------------------------
(***************************************************************************)
(* The feed for any queue size and any number of envelopes, fetches and    *)
(* connections: types, that a page never misses a drop, and that one that  *)
(* has lost nothing ends up with the collector's agent.                    *)
(***************************************************************************)
EXTENDS FeedServer, TLAPS

-----------------------------------------------------------------------------
(* The inductive invariant                                                 *)

Types ==
    /\ agent \in Entities /\ page \in Entities
    /\ events \in 0..MaxEvents /\ connects \in 0..MaxConnects
    /\ conn \in {"closed", "registered", "open"}
    /\ loop \in Seq(Deltas)
    /\ queue \in Seq(Stamped) /\ Len(queue) <= QueueSize
    /\ wire = <<>> \/ \E env \in Stamped \cup Snapshots : wire = <<env>>
    /\ fetches \subseteq [id : FetchIds, answer : {<<>>} \cup {<<env>> : env \in Snapshots}]
    /\ seq \in Nat /\ lastSeq \in Nat /\ base \in Nat
    /\ dropped \subseteq 1..seq
    /\ lossless \in BOOLEAN

\* A snapshot is on its way.
Hydrating == wire # <<>> /\ wire[1].type = "snapshot"

\* Nothing is on its way before a snapshot is.
OpensWithSnapshot == conn # "open" => wire = <<>> /\ queue = <<>>

\* What is on its way is in the order of its seqs, and none of it was dropped.
Ordered ==
    /\ \A i \in DOMAIN queue : queue[i].seq \in (1..seq) \ dropped
    /\ \A i, j \in DOMAIN queue : i < j => queue[i].seq < queue[j].seq
    /\ wire # <<>> /\ ~Hydrating =>
           /\ wire[1].seq \in (1..seq) \ dropped
           /\ \A i \in DOMAIN queue : wire[1].seq < queue[i].seq

\* A page that follows this connection is behind all that is on its way, and no
\* drop lies between where it began and where it is.
PageFollows ==
    conn = "open" /\ ~Hydrating /\ lastSeq # 0 =>
        /\ lastSeq <= seq
        /\ wire # <<>> => lastSeq < wire[1].seq
        /\ \A i \in DOMAIN queue : lastSeq < queue[i].seq
        /\ \A n \in dropped : n < base \/ n > lastSeq

IInv == Types /\ OpensWithSnapshot /\ Ordered /\ PageFollows

-----------------------------------------------------------------------------
(* What is stamped keeps its type                                          *)

LEMMA StampedIsTyped ==
    ASSUME NEW env \in Deltas, NEW n \in Nat
    PROVE  Stamp(env, n) \in Stamped /\ Stamp(env, n).seq = n
BY DEF Stamp, Stamped, Deltas

-----------------------------------------------------------------------------
(* The invariant holds initially and is preserved                          *)

LEMMA InitEstablishes == Init => IInv
BY FeedServerAssumption
   DEF Init, IInv, Types, OpensWithSnapshot, Ordered, PageFollows, Hydrating, Entities

\* An envelope is handed to the event loop.
LEMMA EmitPreserves ==
    ASSUME IInv, NEW type \in {"agent.updated", "agent.removed", "metrics.tick"},
           NEW data \in Entities, Emit(type, data), agent' \in Entities
    PROVE  IInv'
<1>1. [type |-> type, data |-> data] \in Deltas  BY DEF Deltas
<1>2. loop' \in Seq(Deltas)  BY <1>1 DEF Emit, Fanout, IInv, Types
<1>3. events' \in 0..MaxEvents  BY FeedServerAssumption DEF Emit, IInv, Types
<1> QED  BY <1>2, <1>3 DEF Emit, IInv, Types, OpensWithSnapshot, Ordered, PageFollows,
                           Hydrating, pageVars

LEMMA CollectorStep == IInv /\ Collector => IInv'
<1> SUFFICES ASSUME IInv, Collector PROVE IInv'  OBVIOUS
<1>1. agent \in Entities /\ events \in Nat  BY FeedServerAssumption DEF IInv, Types
<1>2. NoAgent \in Entities  BY DEF Entities
<1>3. CASE UpdateAgent
  <2>1. agent' \in Entities  BY <1>1, <1>3 DEF UpdateAgent, Entities, Agents
  <2> QED  BY <2>1, <1>3, EmitPreserves DEF UpdateAgent
<1>4. CASE RemoveAgent  BY <1>2, <1>4, EmitPreserves DEF RemoveAgent
<1>5. CASE Tick  BY <1>1, <1>2, <1>5, EmitPreserves DEF Tick
<1>6. CASE AddAgent(events + 1)
  <2>1. agent' \in Entities  BY <1>1, <1>6 DEF AddAgent, Entities, Agents
  <2> QED  BY <2>1, <1>6, EmitPreserves DEF AddAgent
<1> QED  BY <1>3, <1>4, <1>5, <1>6 DEF Collector

\* The seq that is taken is above all that are on their way, kept or not.
LEMMA DeliverPreserves == IInv /\ Deliver => IInv'
<1> SUFFICES ASSUME IInv, Deliver PROVE IInv'  OBVIOUS
<1> USE DEF IInv, Types
<1>1. Head(loop) \in Deltas /\ Tail(loop) \in Seq(Deltas)  BY DEF Deliver
<1> DEFINE env == Stamp(Head(loop), seq + 1)
<1>2. env \in Stamped /\ env.seq = seq + 1  BY <1>1, StampedIsTyped
<1> HIDE DEF env
<1>3. CASE Len(queue) < QueueSize
  <2>1. queue' = Append(queue, env) /\ dropped' = dropped /\ seq' = seq + 1
    BY <1>3 DEF Deliver, env
  <2>2. /\ queue' \in Seq(Stamped) /\ Len(queue') = Len(queue) + 1
        /\ \A i \in DOMAIN queue' : \/ i \in DOMAIN queue /\ queue'[i] = queue[i]
                                    \/ i = Len(queue) + 1 /\ queue'[i] = env
    <3>1. queue \in Seq(Stamped)  OBVIOUS
    <3>2. queue' \in Seq(Stamped)  BY <2>1, <1>2, <3>1
    <3>3. Len(queue') = Len(queue) + 1 /\ DOMAIN queue' = 1..(Len(queue) + 1)
      BY <2>1, <1>2, <3>1
    <3>4. ASSUME NEW i \in DOMAIN queue'
          PROVE  \/ i \in DOMAIN queue /\ queue'[i] = queue[i]
                 \/ i = Len(queue) + 1 /\ queue'[i] = env
      <4>1. CASE i = Len(queue) + 1  BY <2>1, <1>2, <3>1, <4>1
      <4>2. CASE i # Len(queue) + 1
        <5>1. i \in 1..Len(queue) /\ i \in DOMAIN queue  BY <3>1, <3>3, <4>2
        <5>2. Append(queue, env)[i] = queue[i]  BY <1>2, <3>1, <5>1
        <5> QED  BY <2>1, <5>1, <5>2
      <4> QED  BY <4>1, <4>2
    <3> QED  BY <3>2, <3>3, <3>4
  <2>3. Types'
    BY <1>1, <1>3, <2>1, <2>2, FeedServerAssumption DEF Deliver, serverVars, pageVars
  <2>4. OpensWithSnapshot'  BY DEF Deliver, OpensWithSnapshot
  <2>5. Ordered'
    <3>1. \A i \in DOMAIN queue' : queue'[i].seq \in (1..seq') \ dropped'
      BY <1>2, <2>1, <2>2 DEF Ordered
    <3>2. \A i, j \in DOMAIN queue' : i < j => queue'[i].seq < queue'[j].seq
      BY <1>2, <2>1, <2>2 DEF Ordered
    <3>3. wire # <<>> /\ ~Hydrating => wire[1].seq \in (1..seq') \ dropped'
      BY <2>1 DEF Ordered
    <3>4. wire # <<>> /\ ~Hydrating => \A i \in DOMAIN queue' : wire[1].seq < queue'[i].seq
      BY <1>2, <2>1, <2>2 DEF Ordered
    <3>5. wire' = wire  BY DEF Deliver
    <3> QED  BY <3>1, <3>2, <3>3, <3>4, <3>5 DEF Ordered, Hydrating
  <2>6. PageFollows'  BY <1>2, <2>1, <2>2 DEF Deliver, PageFollows, Hydrating, pageVars
  <2> QED  BY <2>3, <2>4, <2>5, <2>6
<1>4. CASE ~(Len(queue) < QueueSize)
  <2>1. queue' = queue /\ dropped' = dropped \cup {seq + 1} /\ seq' = seq + 1 /\ lossless' = FALSE
    BY <1>4 DEF Deliver
  <2>2. Types'
    <3>1. seq' \in Nat  BY <2>1
    <3>2. lossless' \in BOOLEAN  BY <2>1, Zenon
    <3>3. dropped' \subseteq 1..seq'
      <4>1. \A n \in dropped' : n \in 1..seq \/ n = seq + 1  BY <2>1
      <4> QED  BY <2>1, <4>1
    <3> QED  BY <1>1, <2>1, <3>1, <3>2, <3>3 DEF Deliver, serverVars, pageVars
  <2>3. OpensWithSnapshot'  BY DEF Deliver, OpensWithSnapshot
  <2>4. Ordered'  BY <2>1 DEF Deliver, Ordered, Hydrating
  <2>5. PageFollows'  BY <2>1 DEF Deliver, PageFollows, Hydrating, pageVars
  <2> QED  BY <2>2, <2>3, <2>4, <2>5
<1> QED  BY <1>3, <1>4

\* The head of the queue becomes what the socket carries.
LEMMA SendPreserves == IInv /\ Send => IInv'
<1> SUFFICES ASSUME IInv, Send PROVE IInv'  OBVIOUS
<1> USE DEF IInv, Types
<1>1. /\ wire' = <<queue[1]>> /\ queue[1] \in Stamped /\ 1 \in DOMAIN queue
      /\ wire'[1] = queue[1] /\ wire' # <<>>
  BY DEF Send
<1>2. /\ queue' \in Seq(Stamped) /\ Len(queue') = Len(queue) - 1
      /\ \A i \in DOMAIN queue' : i + 1 \in DOMAIN queue /\ queue'[i] = queue[i + 1]
  BY DEF Send
<1>3. ~Hydrating /\ ~Hydrating'  BY <1>1 DEF Send, Hydrating, Stamped
<1>4. Types'  BY <1>1, <1>2, FeedServerAssumption DEF Send, serverVars, pageVars
<1>5. OpensWithSnapshot'  BY DEF Send, OpensWithSnapshot
<1>6. Ordered'
  <2>1. \A i \in DOMAIN queue' : queue'[i].seq \in (1..seq') \ dropped'
    BY <1>2 DEF Send, Ordered
  <2>2. \A i, j \in DOMAIN queue' : i < j => queue'[i].seq < queue'[j].seq
    <3>1. \A i, j \in DOMAIN queue' : i < j => i + 1 < j + 1
      <4>1. \A i \in DOMAIN queue' : i \in Nat  BY <1>2
      <4> QED  BY <4>1
    <3>2. \A i, j \in DOMAIN queue : i < j => queue[i].seq < queue[j].seq  BY DEF Ordered
    <3> QED  BY <1>2, <3>1, <3>2
  <2>3. \A i \in DOMAIN queue' : 1 < i + 1  BY <1>2
  <2>4. wire'[1].seq \in (1..seq') \ dropped'  BY <1>1 DEF Send, Ordered
  <2>5. \A i \in DOMAIN queue' : wire'[1].seq < queue'[i].seq
    <3>1. \A i, j \in DOMAIN queue : i < j => queue[i].seq < queue[j].seq  BY DEF Ordered
    <3> QED  BY <1>1, <1>2, <2>3, <3>1
  <2> QED  BY <2>1, <2>2, <2>4, <2>5 DEF Ordered
<1>7. PageFollows'  BY <1>1, <1>2, <1>3 DEF Send, PageFollows, pageVars
<1> QED  BY <1>4, <1>5, <1>6, <1>7

LEMMA SnapshotIsTyped == IInv => Snapshot \in Snapshots /\ Snapshot.type = "snapshot"
BY DEF IInv, Types, Snapshot, Snapshots

LEMMA EventLoopStep == IInv /\ EventLoop => IInv'
<1> SUFFICES ASSUME IInv, EventLoop PROVE IInv'  OBVIOUS
<1> USE DEF IInv, Types
<1>1. CASE Deliver  BY <1>1, DeliverPreserves
<1>2. CASE Register
  BY <1>2, FeedServerAssumption
     DEF Register, OpensWithSnapshot, Ordered, PageFollows, Hydrating, serverVars, pageVars
<1>3. CASE SendSnapshot
  <2>1. wire' = <<Snapshot>> /\ Snapshot \in Snapshots /\ Hydrating'
    BY <1>3, SnapshotIsTyped DEF SendSnapshot, Hydrating
  <2>2. Types'  BY <1>3, <2>1 DEF SendSnapshot, serverVars, pageVars
  <2> QED  BY <1>3, <2>1, <2>2 DEF SendSnapshot, OpensWithSnapshot, Ordered, PageFollows
<1>4. CASE Send  BY <1>4, SendPreserves
<1>5. CASE Disconnect
  BY <1>5, FeedServerAssumption
     DEF Disconnect, OpensWithSnapshot, Ordered, PageFollows, Hydrating, serverVars, pageVars
<1>6. ASSUME NEW id \in FetchIds, AnswerFetch(id) PROVE IInv'
  <2>1. [id |-> id, answer |-> <<Snapshot>>]
            \in [id : FetchIds, answer : {<<>>} \cup {<<env>> : env \in Snapshots}]
    BY SnapshotIsTyped
  <2>2. Types'  BY <1>6, <2>1 DEF AnswerFetch, serverVars, connVars
  <2> QED  BY <1>6, <2>2 DEF AnswerFetch, connVars, OpensWithSnapshot, Ordered, PageFollows,
                             Hydrating
<1> QED  BY <1>1, <1>2, <1>3, <1>4, <1>5, <1>6 DEF EventLoop

-----------------------------------------------------------------------------
LEMMA PageStep == IInv /\ Page => IInv'
<1> SUFFICES ASSUME IInv, Page PROVE IInv'  OBVIOUS
<1> USE DEF IInv, Types
<1>1. CASE ReceiveSnapshot
  <2>1. wire[1] \in Snapshots  BY <1>1 DEF ReceiveSnapshot, Stamped
  <2>2. page' \in Entities /\ lastSeq' = 0 /\ base' = 0 /\ wire' = <<>>
    BY <1>1, <2>1 DEF ReceiveSnapshot, Hydrate, Snapshots
  <2> QED  BY <1>1, <2>2 DEF ReceiveSnapshot, OpensWithSnapshot, Ordered, PageFollows, Hydrating,
                             serverVars
<1>2. CASE ReceiveDelta
  <2>1. wire[1] \in Stamped /\ ~Hydrating /\ wire # <<>> /\ Head(wire) = wire[1]
    BY <1>2 DEF ReceiveDelta, Hydrating, Snapshots
  <2>2. page' \in Entities  BY <1>2, <2>1 DEF ReceiveDelta, Applied, Stamped, Entities
  <2>3. /\ lastSeq' = wire[1].seq /\ wire' = <<>>
        /\ base' = IF lastSeq = 0 THEN wire[1].seq ELSE base
        /\ lastSeq # 0 => wire[1].seq = lastSeq + 1
    BY <1>2, <2>1 DEF ReceiveDelta, Gap
  <2>4. wire[1].seq \in (1..seq) \ dropped /\ \A i \in DOMAIN queue : wire[1].seq < queue[i].seq
    BY <2>1 DEF Ordered
  <2>5. Types'  BY <1>2, <2>2, <2>3, <2>4 DEF ReceiveDelta, serverVars
  <2>6. OpensWithSnapshot' /\ Ordered'
    BY <1>2, <2>3 DEF ReceiveDelta, OpensWithSnapshot, Ordered, Hydrating
  <2>7. conn = "open"  BY <2>1 DEF OpensWithSnapshot
  <2>8. ASSUME NEW n \in dropped PROVE n < base' \/ n > lastSeq'
    <3>1. n \in 1..seq /\ seq \in Nat  OBVIOUS
    <3>2. wire[1].seq \in 1..seq /\ wire[1].seq \notin dropped  BY <2>4
    <3>3. n \in Nat /\ wire[1].seq \in Nat /\ n # wire[1].seq  BY <3>1, <3>2
    <3>4. CASE lastSeq = 0  BY <2>3, <3>3, <3>4
    <3>5. CASE lastSeq # 0  BY <2>1, <2>3, <2>7, <3>3, <3>5 DEF PageFollows
    <3> QED  BY <3>4, <3>5
  <2>9. PageFollows'  BY <1>2, <2>3, <2>4, <2>8 DEF ReceiveDelta, PageFollows, Hydrating
  <2> QED  BY <2>5, <2>6, <2>9
<1>3. ASSUME NEW id \in FetchIds, Resync(id) PROVE IInv'
  <2>1. [id |-> id, answer |-> <<>>]
            \in [id : FetchIds, answer : {<<>>} \cup {<<env>> : env \in Snapshots}]
    OBVIOUS
  <2>2. Types'  BY <1>3, <2>1 DEF Resync, serverVars
  <2>3. ~Hydrating  BY <1>3 DEF Resync, Hydrating
  <2> QED  BY <1>3, <2>2, <2>3 DEF Resync, OpensWithSnapshot, Ordered, PageFollows, Hydrating
<1>4. ASSUME NEW f \in fetches, FinishFetch(f) PROVE IInv'
  <2>1. PICK env \in Snapshots : f.answer = <<env>>  BY <1>4 DEF FinishFetch
  <2>2. page' \in Entities /\ lastSeq' = 0 /\ base' = 0
    BY <1>4, <2>1 DEF FinishFetch, Hydrate, Snapshots
  <2> QED  BY <1>4, <2>2 DEF FinishFetch, connVars, serverVars, OpensWithSnapshot, Ordered,
                             PageFollows, Hydrating
<1>5. ASSUME NEW f \in fetches, FailFetch(f) PROVE IInv'
  BY <1>5 DEF FailFetch, connVars, serverVars, OpensWithSnapshot, Ordered, PageFollows, Hydrating
<1> QED  BY <1>1, <1>2, <1>3, <1>4, <1>5 DEF Page

LEMMA StepPreserves == IInv /\ [Next]_vars => IInv'
<1> SUFFICES ASSUME IInv, [Next]_vars PROVE IInv'  OBVIOUS
<1>1. CASE UNCHANGED vars
  BY <1>1 DEF vars, serverVars, connVars, pageVars, IInv, Types, OpensWithSnapshot, Ordered,
              PageFollows, Hydrating
<1> QED  BY <1>1, CollectorStep, EventLoopStep, PageStep DEF Next

\* The connection, the page and what is between them, as they are.
THEOREM Invariance == Spec => []IInv
BY InitEstablishes, StepPreserves, PTL DEF Spec

-----------------------------------------------------------------------------
(* What follows                                                            *)

\* server.py and roboport-feed.html: every variable stays in its range, the queue
\* within its size and the page's seq behind its connection's.
THEOREM TypeCorrect == Spec => []TypeOK
<1>1. IInv => TypeOK
  <2> SUFFICES ASSUME IInv PROVE TypeOK  OBVIOUS
  <2> USE DEF IInv, Types
  <2>1. ToSet(loop) \subseteq Deltas /\ ToSet(queue) \subseteq Stamped  BY DEF ToSet
  <2>2. ToSet(wire) \subseteq Stamped \cup Snapshots /\ Len(wire) <= 1
    <3>1. CASE wire = <<>>  BY <3>1 DEF ToSet
    <3>2. CASE wire # <<>>
      <4>1. PICK env \in Stamped \cup Snapshots : wire = <<env>>  BY <3>2
      <4>2. ToSet(<<env>>) = {env} /\ Len(<<env>>) = 1  BY DEF ToSet
      <4> QED  BY <4>1, <4>2
    <3> QED  BY <3>1, <3>2
  <2>3. \A f \in fetches : f.id \in FetchIds /\ ToSet(f.answer) \subseteq Snapshots
    BY DEF ToSet
  <2>4. lastSeq \in 0..seq \/ conn # "open" \/ wire # <<>>  BY DEF PageFollows, Hydrating
  <2>5. dropped \subseteq 1..(seq + 1)  OBVIOUS
  <2> QED  BY <2>1, <2>2, <2>3, <2>4, <2>5 DEF TypeOK
<1> QED  BY <1>1, Invariance, PTL

\* roboport-feed.html:448-467: an envelope that server.py's full queue dropped never
\* lies among those a page has applied since it was hydrated, whatever the size of
\* the queue and however often it reconnects or resyncs: the page noticed.
THEOREM DropsNoticed == Spec => []DropsAreNoticed
<1>1. IInv => DropsAreNoticed
  <2> SUFFICES ASSUME IInv, conn = "open", lastSeq # 0,
                      \A env \in ToSet(wire) : env.type # "snapshot"
               PROVE  \A n \in dropped : n < base \/ n > lastSeq
    BY DEF DropsAreNoticed
  <2>1. ~Hydrating  BY DEF Hydrating, ToSet, IInv, Types
  <2> QED  BY <2>1 DEF IInv, PageFollows
<1> QED  BY <1>1, Invariance, PTL

-----------------------------------------------------------------------------
(* What is on its way, and where it leads                                  *)

\* No removal follows the i-th envelope.
Lasting(p, i) == \A j \in DOMAIN p : j > i => p[j].type # "agent.removed"

\* b is a, or a later revision of it.
Precedes(a, b) == a # NoAgent /\ b # NoAgent /\ a.life = b.life /\ a.rev <= b.rev

\* Applied in order, the envelopes of p turn a page's from into to: the updates after
\* the last removal are revisions of to, and one of them is to; and if nothing is
\* removed, from is such a revision too, or nothing, and may be to itself.
Leads(p, from, to) ==
    /\ \A i \in DOMAIN p : p[i].type = "agent.updated" /\ Lasting(p, i) =>
           Precedes(p[i].data, to)
    /\ to # NoAgent =>
           \/ \E i \in DOMAIN p : p[i].type = "agent.updated" /\ Lasting(p, i) /\ p[i].data = to
           \/ Lasting(p, 0) /\ from = to
    /\ Lasting(p, 0) => from = NoAgent \/ Precedes(from, to)

\* The agent goes from one value to the next.
Becomes(a, b) == b # NoAgent /\ (a = NoAgent \/ Precedes(a, b))

\* Appending, element by element.
LEMMA AppendIs ==
    ASSUME NEW S, NEW p \in Seq(S), NEW d \in S
    PROVE  /\ Append(p, d) \in Seq(S) /\ Len(p) \in Nat
           /\ Len(Append(p, d)) = Len(p) + 1
           /\ DOMAIN Append(p, d) = 1..(Len(p) + 1) /\ DOMAIN p = 1..Len(p)
           /\ \A i \in DOMAIN p : Append(p, d)[i] = p[i]
           /\ Append(p, d)[Len(p) + 1] = d
OBVIOUS

LEMMA TailIs ==
    ASSUME NEW S, NEW p \in Seq(S), p # <<>>
    PROVE  /\ Tail(p) \in Seq(S) /\ Len(p) \in Nat /\ p[1] \in S /\ 1 \in DOMAIN p
           /\ Len(Tail(p)) = Len(p) - 1
           /\ DOMAIN Tail(p) = 1..(Len(p) - 1) /\ DOMAIN p = 1..Len(p)
           /\ \A i \in DOMAIN Tail(p) : Tail(p)[i] = p[i + 1]
OBVIOUS

LEMMA UpdateLeads ==
    ASSUME NEW p \in Seq(Deltas), NEW from \in Entities, NEW to \in Entities, NEW next \in Entities,
           Leads(p, from, to), Becomes(to, next), NEW first, first \in {from, next}
    PROVE  Leads(Append(p, [type |-> "agent.updated", data |-> next]), first, next)
<1> DEFINE d == [type |-> "agent.updated", data |-> next]
           p1 == Append(p, d)
           n == Len(p) + 1
<1>1. d \in Deltas /\ d.type = "agent.updated" /\ d.data = next  BY DEF Deltas
<1> HIDE DEF d
<1>2. /\ DOMAIN p1 = 1..n /\ DOMAIN p = 1..Len(p) /\ p1[n] = d /\ Len(p) \in Nat
      /\ \A i \in DOMAIN p : p1[i] = p[i]
  BY <1>1, AppendIs
<1> HIDE DEF p1
<1>3. \A i \in DOMAIN p : i \in DOMAIN p1 /\ p1[i] = p[i]  BY <1>2
<1>4. \A i \in Nat : Lasting(p1, i) => Lasting(p, i)  BY <1>3 DEF Lasting
<1>5. n \in DOMAIN p1 /\ Lasting(p1, n)  BY <1>2 DEF Lasting
<1>6. Precedes(next, next)
  <2>1. next # NoAgent  BY DEF Becomes
  <2>2. next \in Agents  BY <2>1 DEF Entities
  <2>3. next.rev \in Nat  BY <2>2 DEF Agents
  <2> QED  BY <2>1, <2>3 DEF Precedes
<1>7. ASSUME NEW a \in Entities, Precedes(a, to) PROVE Precedes(a, next)
  <2>1. to # NoAgent /\ a # NoAgent /\ a.life = to.life /\ a.rev <= to.rev
    BY <1>7 DEF Precedes
  <2>2. next # NoAgent /\ to.life = next.life /\ to.rev <= next.rev
    BY <2>1 DEF Becomes, Precedes
  <2>3. a.rev \in Nat /\ to.rev \in Nat /\ next.rev \in Nat
    BY <2>1, <2>2 DEF Entities, Agents
  <2> QED  BY <2>1, <2>2, <2>3 DEF Precedes
<1>8. ASSUME NEW i \in DOMAIN p1, p1[i].type = "agent.updated", Lasting(p1, i)
      PROVE  Precedes(p1[i].data, next)
  <2>1. CASE i = n  BY <1>1, <1>2, <1>6, <2>1
  <2>2. CASE i # n
    <3>1. i \in DOMAIN p /\ i \in Nat  BY <1>2, <2>2
    <3>2. Precedes(p[i].data, to)  BY <1>3, <1>4, <1>8, <3>1 DEF Leads
    <3>3. p[i] \in Deltas  BY <3>1
    <3>4. p[i].data \in Entities  BY <3>3 DEF Deltas
    <3> QED  BY <1>3, <1>7, <3>1, <3>2, <3>4
  <2> QED  BY <2>1, <2>2
<1>9. ASSUME Lasting(p1, 0) PROVE first = NoAgent \/ Precedes(first, next)
  <2>1. CASE first = next  BY <1>6, <2>1
  <2>2. CASE first = from
    <3>1. from = NoAgent \/ Precedes(from, to)  BY <1>4, <1>9 DEF Leads
    <3>2. CASE Precedes(from, to)
      <4>1. Precedes(from, next)  BY <1>7, <3>2
      <4> QED  BY <2>2, <4>1
    <3> QED  BY <2>2, <3>1, <3>2
  <2> QED  BY <2>1, <2>2
<1> QED  BY <1>1, <1>2, <1>5, <1>8, <1>9 DEF Leads, p1, d

LEMMA RemovalLeads ==
    ASSUME NEW p \in Seq(Deltas), NEW first
    PROVE  Leads(Append(p, [type |-> "agent.removed", data |-> NoAgent]), first, NoAgent)
<1> DEFINE d == [type |-> "agent.removed", data |-> NoAgent]
           p1 == Append(p, d)
           n == Len(p) + 1
<1>1. d \in Deltas /\ d.type = "agent.removed"  BY DEF Deltas, Entities
<1> HIDE DEF d
<1>2. DOMAIN p1 = 1..n /\ p1[n] = d /\ n \in Nat /\ n > 0  BY <1>1, AppendIs
<1> HIDE DEF p1
<1>3. ~Lasting(p1, 0)  BY <1>1, <1>2 DEF Lasting
<1>4. \A i \in DOMAIN p1 : Lasting(p1, i) => i = n  BY <1>1, <1>2 DEF Lasting
<1>5. \A i \in DOMAIN p1 : p1[i].type = "agent.updated" => ~Lasting(p1, i)
  BY <1>1, <1>2, <1>4
<1> QED  BY <1>3, <1>5 DEF Leads, p1, d

LEMMA TickLeads ==
    ASSUME NEW p \in Seq(Deltas), NEW from, NEW to, Leads(p, from, to)
    PROVE  Leads(Append(p, [type |-> "metrics.tick", data |-> NoAgent]), from, to)
<1> DEFINE d == [type |-> "metrics.tick", data |-> NoAgent]
           p1 == Append(p, d)
           n == Len(p) + 1
<1>1. d \in Deltas /\ d.type = "metrics.tick"  BY DEF Deltas, Entities
<1> HIDE DEF d
<1>2. /\ DOMAIN p1 = 1..n /\ DOMAIN p = 1..Len(p) /\ p1[n] = d /\ Len(p) \in Nat
      /\ \A i \in DOMAIN p : p1[i] = p[i]
  BY <1>1, AppendIs
<1> HIDE DEF p1
<1>3. \A i \in DOMAIN p : i \in DOMAIN p1 /\ p1[i] = p[i]  BY <1>2
<1>4. \A i \in DOMAIN p1 : i \in DOMAIN p \/ i = n  BY <1>2
<1>5. ASSUME NEW i \in Nat PROVE Lasting(p1, i) <=> Lasting(p, i)
  <2>1. Lasting(p1, i) => Lasting(p, i)  BY <1>3 DEF Lasting
  <2>2. Lasting(p, i) => Lasting(p1, i)  BY <1>1, <1>2, <1>3, <1>4 DEF Lasting
  <2> QED  BY <2>1, <2>2
<1>6. \A i \in DOMAIN p1 : p1[i].type = "agent.updated" => i \in DOMAIN p  BY <1>1, <1>2, <1>4
<1>7. \A i \in DOMAIN p : i \in Nat  BY <1>2
<1>8. \A i \in DOMAIN p1 : p1[i].type = "agent.updated" /\ Lasting(p1, i) =>
          Precedes(p1[i].data, to)
  BY <1>3, <1>5, <1>6, <1>7 DEF Leads
<1>9. to # NoAgent =>
          \/ \E i \in DOMAIN p1 : p1[i].type = "agent.updated" /\ Lasting(p1, i) /\ p1[i].data = to
          \/ Lasting(p1, 0) /\ from = to
  BY <1>3, <1>5, <1>7 DEF Leads
<1>10. Lasting(p1, 0) => from = NoAgent \/ Precedes(from, to)  BY <1>5 DEF Leads
<1> QED  BY <1>8, <1>9, <1>10 DEF Leads, p1, d

\* A page that applies the first is where the rest leads from.
LEMMA AppliedLeads ==
    ASSUME NEW p \in Seq(Deltas), p # <<>>, NEW env \in Stamped,
           env.type = p[1].type, env.data = p[1].data,
           page \in Entities, agent \in Entities, Leads(p, page, agent)
    PROVE  Leads(Tail(p), Applied(env), agent)
<1> DEFINE t == Tail(p)
<1>1. PICK m \in Nat : m = Len(p) - 1 /\ DOMAIN t = 1..m /\ DOMAIN p = 1..(m + 1)
  BY TailIs
<1>2. \A i \in DOMAIN t : t[i] = p[i + 1]  BY TailIs
<1> HIDE DEF t
<1>3. p[1] \in Deltas /\ 1 \in DOMAIN p  BY TailIs
<1>4. ASSUME NEW i \in 0..m PROVE Lasting(t, i) <=> Lasting(p, i + 1)
  <2>1. ASSUME Lasting(t, i), NEW j \in DOMAIN p, j > i + 1 PROVE p[j].type # "agent.removed"
    <3>1. PICK k \in DOMAIN t : k + 1 = j /\ k > i
      <4>1. j - 1 \in DOMAIN t /\ (j - 1) + 1 = j /\ j - 1 > i  BY <1>1, <2>1
      <4> QED  BY <4>1
    <3> QED  BY <1>2, <2>1, <3>1 DEF Lasting
  <2>2. ASSUME Lasting(p, i + 1), NEW j \in DOMAIN t, j > i PROVE t[j].type # "agent.removed"
    <3>1. j + 1 \in DOMAIN p /\ j + 1 > i + 1  BY <1>1, <2>2
    <3> QED  BY <1>2, <2>2, <3>1 DEF Lasting
  <2> QED  BY <2>1, <2>2 DEF Lasting
<1>5. ASSUME NEW i \in DOMAIN t, t[i].type = "agent.updated", Lasting(t, i)
      PROVE  Precedes(t[i].data, agent)
  <2>1. PICK k \in DOMAIN p : k = i + 1 /\ t[i] = p[k] /\ Lasting(p, k)
    <3>1. i + 1 \in DOMAIN p /\ i \in 0..m  BY <1>1
    <3> QED  BY <1>2, <1>4, <1>5, <3>1
  <2> QED  BY <1>5, <2>1 DEF Leads
\* Of the updates that last, all but the first are still to come.
<1>6. ASSUME NEW k \in DOMAIN p, p[k].type = "agent.updated", Lasting(p, k),
             p[k].data = agent, k # 1
      PROVE  \E i \in DOMAIN t : t[i].type = "agent.updated" /\ Lasting(t, i) /\ t[i].data = agent
  <2>1. k - 1 \in DOMAIN t /\ k - 1 \in 0..m /\ (k - 1) + 1 = k  BY <1>1, <1>6
  <2>2. PICK i \in DOMAIN t : i \in 0..m /\ i + 1 = k  BY <2>1
  <2> QED  BY <1>2, <1>4, <1>6, <2>2
<1>7. Lasting(t, 0) <=> Lasting(p, 1)
  <2>1. 0 \in 0..m /\ 0 + 1 = 1  BY <1>1
  <2> QED  BY <1>4, <2>1
<1>8. p[1].type # "agent.removed" => (Lasting(p, 0) <=> Lasting(p, 1))
  BY <1>1 DEF Lasting
<1>9. CASE env.type = "agent.removed"
  <2>1. Applied(env) = NoAgent  BY <1>9 DEF Applied
  <2>2. ~Lasting(p, 0)
    <3>1. p[1].type = "agent.removed" /\ 1 > 0  BY <1>9
    <3> QED  BY <1>3, <3>1 DEF Lasting
  <2>3. agent # NoAgent =>
            \E i \in DOMAIN t : t[i].type = "agent.updated" /\ Lasting(t, i) /\ t[i].data = agent
    BY <1>6, <1>9, <2>2 DEF Leads
  <2> QED  BY <1>5, <2>1, <2>3 DEF Leads, t
<1>10. CASE env.type = "metrics.tick"
  <2>1. Applied(env) = page  BY <1>10 DEF Applied
  <2>2. Lasting(p, 0) <=> Lasting(t, 0)  BY <1>7, <1>8, <1>10
  <2>3. agent # NoAgent =>
            \/ \E i \in DOMAIN t : t[i].type = "agent.updated" /\ Lasting(t, i) /\ t[i].data = agent
            \/ Lasting(t, 0) /\ page = agent
    BY <1>6, <1>10, <2>2 DEF Leads
  <2> QED  BY <1>5, <2>1, <2>2, <2>3 DEF Leads, t
<1>11. CASE env.type = "agent.updated"
  <2>1. Lasting(p, 0) <=> Lasting(t, 0)  BY <1>7, <1>8, <1>11
  <2>2. CASE ~Lasting(t, 0)
    <3>1. ~Lasting(p, 1)  BY <1>7, <2>2
    <3>2. agent # NoAgent =>
              \E i \in DOMAIN t : t[i].type = "agent.updated" /\ Lasting(t, i) /\ t[i].data = agent
      BY <1>6, <2>1, <2>2, <3>1 DEF Leads
    <3> QED  BY <1>5, <2>2, <3>2 DEF Leads, t
  <2>3. CASE Lasting(t, 0)
    <3>1. Lasting(p, 1) /\ Lasting(p, 0)  BY <1>7, <2>1, <2>3
    <3>2. Precedes(env.data, agent)  BY <1>3, <1>11, <3>1 DEF Leads
    <3>3. page = NoAgent \/ Precedes(page, agent)  BY <3>1 DEF Leads
    <3>4. /\ agent # NoAgent /\ agent \in Agents /\ env.data \in Agents
          /\ env.data.life = agent.life /\ env.data.rev <= agent.rev
      BY <3>2 DEF Precedes, Entities, Stamped
    <3>5. Applied(env) = IF page # NoAgent /\ env.data.rev <= page.rev THEN page ELSE env.data
      BY <1>11 DEF Applied
    <3>6. Precedes(Applied(env), agent)  BY <3>2, <3>3, <3>5
    <3>7. ASSUME page = agent \/ env.data = agent PROVE Applied(env) = agent
      <4>1. CASE page = agent  BY <3>4, <3>5, <4>1
      <4>2. CASE env.data = agent
        <5>1. CASE page # NoAgent /\ env.data.rev <= page.rev
          <6>1. Precedes(page, agent)  BY <3>3, <5>1
          <6>2. page \in Agents /\ page.life = agent.life /\ page.rev <= agent.rev
            BY <6>1 DEF Precedes, Entities
          <6>3. page.rev = agent.rev  BY <3>4, <4>2, <5>1, <6>2 DEF Agents
          <6>4. page = agent  BY <3>4, <6>2, <6>3 DEF Agents
          <6> QED  BY <3>5, <5>1, <6>4
        <5>2. CASE ~(page # NoAgent /\ env.data.rev <= page.rev)  BY <3>5, <4>2, <5>2
        <5> QED  BY <5>1, <5>2
      <4> QED  BY <3>7, <4>1, <4>2
    <3>8. \/ \E i \in DOMAIN t : t[i].type = "agent.updated" /\ Lasting(t, i) /\ t[i].data = agent
          \/ Applied(env) = agent
      <4>1. CASE page = agent  BY <3>7, <4>1
      <4>2. CASE page # agent
        <5>1. PICK k \in DOMAIN p :
                  p[k].type = "agent.updated" /\ Lasting(p, k) /\ p[k].data = agent
          BY <3>4, <4>2 DEF Leads
        <5>2. CASE k = 1  BY <3>7, <5>1, <5>2
        <5>3. CASE k # 1  BY <1>6, <5>1, <5>3
        <5> QED  BY <5>2, <5>3
      <4> QED  BY <4>1, <4>2
    <3> QED  BY <1>5, <2>3, <3>6, <3>8 DEF Leads, t
  <2> QED  BY <2>2, <2>3
<1> QED  BY <1>9, <1>10, <1>11 DEF Stamped

-----------------------------------------------------------------------------
(* As long as nothing is dropped                                           *)

\* Nothing is skipped, so that the page never fetches.
NoGaps ==
    lossless =>
        /\ fetches = {}
        /\ conn = "open" =>
            /\ \A i \in 1..Len(queue) : queue[i].seq = seq - Len(queue) + i
            /\ wire # <<>> /\ ~Hydrating => wire[1].seq = seq - Len(queue)
            /\ lastSeq # 0 /\ ~Hydrating => lastSeq = seq - Len(queue) - Len(wire)

\* The deltas on the socket: one or none.
Carried == IF wire = <<>> \/ Hydrating THEN 0 ELSE 1

\* p is what is on its way after the snapshot: the socket, the queue, the loop.
Travels(p) ==
    /\ Len(p) = Carried + Len(queue) + Len(loop)
    /\ Carried = 1 => p[1].type = wire[1].type /\ p[1].data = wire[1].data
    /\ \A i \in 1..Len(queue) : /\ p[Carried + i].type = queue[i].type
                               /\ p[Carried + i].data = queue[i].data
    /\ \A i \in 1..Len(loop) : p[Carried + Len(queue) + i] = loop[i]

\* What the page shows when the first of these reaches it.
Hydrated == IF conn = "registered" THEN agent
            ELSE IF Hydrating THEN wire[1].data ELSE page

OnCourse ==
    lossless /\ conn # "closed" =>
        \E p \in Seq(Deltas) : Travels(p) /\ Leads(p, Hydrated, agent)

Converging == IInv /\ NoGaps /\ OnCourse

LEMMA InitConverging == Init => Converging
BY InitEstablishes DEF Init, Converging, NoGaps, OnCourse

\* An envelope is handed to the loop that leads to the agent's next value.
LEMMA EmitConverges ==
    ASSUME Converging, NEW env \in Deltas, Fanout(env),
           UNCHANGED <<conn, seq, queue, wire, connects, dropped, lossless, pageVars>>,
           \A p \in Seq(Deltas), from \in Entities :
               Leads(p, from, agent) => Leads(Append(p, env), from, agent'),
           \A p \in Seq(Deltas) :
               Leads(p, agent, agent) => Leads(Append(p, env), agent', agent')
    PROVE  NoGaps' /\ OnCourse'
<1>1. NoGaps'  BY DEF Converging, NoGaps, Hydrating, pageVars
<1>2. OnCourse'
  <2> SUFFICES ASSUME lossless, conn # "closed"
               PROVE  \E p \in Seq(Deltas) : Travels(p)' /\ Leads(p, Hydrated', agent')
    BY DEF OnCourse
  <2>1. PICK p \in Seq(Deltas) : Travels(p) /\ Leads(p, Hydrated, agent)
    BY DEF Converging, OnCourse
  <2>2. /\ loop \in Seq(Deltas) /\ loop' = Append(loop, env) /\ Len(queue) \in Nat
        /\ agent \in Entities /\ page \in Entities
    BY DEF Converging, IInv, Types, Fanout
  <2>3. Carried' = Carried /\ Carried \in {0, 1} /\ queue' = queue /\ wire' = wire /\ page' = page
    BY DEF Carried, Hydrating, pageVars
  <2>4. PICK n \in Nat : n = Len(loop)  BY <2>2
  <2>5. /\ Len(loop') = n + 1 /\ loop'[n + 1] = env
        /\ \A i \in 1..n : loop'[i] = loop[i]
    BY <2>2, <2>4, AppendIs
  <2>6. PICK m \in Nat : m = Len(p)  BY <2>1
  <2>7. /\ Append(p, env) \in Seq(Deltas) /\ Len(Append(p, env)) = m + 1
        /\ Append(p, env)[m + 1] = env
        /\ \A i \in 1..m : Append(p, env)[i] = p[i]
    BY <2>1, <2>6, AppendIs
  <2> DEFINE q == Append(p, env)
  <2> HIDE DEF q
  <2>8. m = Carried + Len(queue) + n  BY <2>1, <2>4, <2>6 DEF Travels
  <2>9. Travels(q)'
    <3>1. Len(q) = Carried + Len(queue) + (n + 1)
      <4>1. Len(q) = m + 1  BY <2>7 DEF q
      <4> QED  BY <2>2, <2>3, <2>8, <4>1
    <3>2. Carried = 1 => q[1].type = wire[1].type /\ q[1].data = wire[1].data
      <4>1. Carried = 1 => 1 \in 1..m  BY <2>2, <2>8
      <4>2. Carried = 1 => q[1] = p[1]  BY <2>7, <4>1 DEF q
      <4> QED  BY <2>1, <4>2 DEF Travels
    <3>3. ASSUME NEW i \in 1..Len(queue)
          PROVE  q[Carried + i].type = queue[i].type /\ q[Carried + i].data = queue[i].data
      <4>1. Carried + i \in 1..m  BY <2>2, <2>3, <2>8
      <4> QED  BY <2>1, <2>7, <4>1 DEF Travels, q
    <3>4. ASSUME NEW i \in 1..(n + 1) PROVE q[Carried + Len(queue) + i] = loop'[i]
      <4>1. CASE i = n + 1
        <5>1. Carried + Len(queue) + i = m + 1  BY <2>2, <2>3, <2>8, <4>1
        <5> QED  BY <2>5, <2>7, <4>1, <5>1 DEF q
      <4>2. CASE i # n + 1
        <5>1. i \in 1..n /\ Carried + Len(queue) + i \in 1..m  BY <2>2, <2>3, <2>8, <4>2
        <5>2. p[Carried + Len(queue) + i] = loop[i]  BY <2>1, <2>4, <5>1 DEF Travels
        <5> QED  BY <2>5, <2>7, <5>1, <5>2 DEF q
      <4> QED  BY <4>1, <4>2
    <3> QED  BY <2>3, <2>5, <3>1, <3>2, <3>3, <3>4 DEF Travels
  <2>10. Leads(q, Hydrated', agent')
    <3>1. CASE conn = "registered"
      <4>1. Hydrated = agent /\ Hydrated' = agent'  BY <3>1 DEF Hydrated
      <4>2. Leads(p, agent, agent)  BY <2>1, <4>1
      <4>3. Leads(Append(p, env), agent', agent')  BY <4>2
      <4> QED  BY <4>1, <4>3 DEF q
    <3>2. CASE conn # "registered"
      <4>1. Hydrated' = Hydrated  BY <2>3, <3>2 DEF Hydrated, Hydrating
      <4>2. Hydrated \in Entities
        <5>1. Hydrating => wire[1].data \in Entities
          BY DEF Hydrating, Converging, IInv, Types, Stamped, Snapshots
        <5> QED  BY <2>2, <5>1 DEF Hydrated
      <4>3. PICK from \in Entities : from = Hydrated  BY <4>2
      <4>4. Leads(p, from, agent)  BY <2>1, <4>3
      <4>5. Leads(Append(p, env), from, agent')  BY <4>4
      <4> QED  BY <4>1, <4>3, <4>5 DEF q
    <3> QED  BY <3>1, <3>2
  <2> QED  BY <2>7, <2>9, <2>10 DEF q
<1> QED  BY <1>1, <1>2

LEMMA CollectorConverges == Converging /\ Collector => NoGaps' /\ OnCourse'
<1> SUFFICES ASSUME Converging, Collector PROVE NoGaps' /\ OnCourse'  OBVIOUS
<1>1. agent \in Entities /\ events \in Nat  BY FeedServerAssumption DEF Converging, IInv, Types
<1>2. ASSUME agent' \in Entities, Becomes(agent, agent'), Emit("agent.updated", agent')
      PROVE  NoGaps' /\ OnCourse'
  <2> DEFINE env == [type |-> "agent.updated", data |-> agent']
  <2>1. PICK e : e = env  OBVIOUS
  <2>2. e \in Deltas  BY <1>2, <2>1 DEF Deltas
  <2>3. \A p \in Seq(Deltas), from \in Entities :
            Leads(p, from, agent) => Leads(Append(p, e), from, agent')
    BY <1>1, <1>2, <2>1, UpdateLeads
  <2>5. \A p \in Seq(Deltas) : Leads(p, agent, agent) => Leads(Append(p, e), agent', agent')
    BY <1>1, <1>2, <2>1, UpdateLeads
  <2>4. Fanout(e)  BY <1>2, <2>1 DEF Emit, Fanout
  <2> QED  BY <1>2, <2>2, <2>3, <2>4, <2>5, EmitConverges DEF Emit
<1>3. CASE UpdateAgent
  <2>1. agent \in Agents /\ agent # NoAgent  BY <1>1, <1>3 DEF UpdateAgent, Entities
  <2>2. agent' \in Agents /\ agent'.life = agent.life /\ agent'.rev = agent.rev + 1
    BY <1>3, <2>1 DEF UpdateAgent, Agents
  <2>3. agent'.life # 0 /\ agent.rev \in Nat  BY <2>1, <2>2 DEF Agents
  <2>4. agent' # NoAgent  BY <2>3 DEF NoAgent
  <2>5. Becomes(agent, agent')  BY <2>1, <2>2, <2>3, <2>4 DEF Becomes, Precedes
  <2> QED  BY <1>2, <1>3, <2>2, <2>5 DEF UpdateAgent, Entities
<1>4. CASE AddAgent(events + 1)
  <2>1. agent' \in Agents /\ agent'.life # 0  BY <1>1, <1>4 DEF AddAgent, Agents
  <2>2. agent' # NoAgent  BY <2>1 DEF NoAgent
  <2> QED  BY <1>2, <1>4, <2>1, <2>2 DEF AddAgent, Entities, Becomes
<1>5. CASE RemoveAgent
  <2>1. PICK e : e = [type |-> "agent.removed", data |-> NoAgent]  OBVIOUS
  <2>2. e \in Deltas  BY <2>1 DEF Deltas, Entities
  <2>3. agent' = NoAgent /\ Emit("agent.removed", NoAgent)  BY <1>5 DEF RemoveAgent
  <2>4. \A p \in Seq(Deltas), from \in Entities :
            Leads(p, from, agent) => Leads(Append(p, e), from, agent')
    BY <2>1, <2>3, RemovalLeads
  <2>5. \A p \in Seq(Deltas) : Leads(p, agent, agent) => Leads(Append(p, e), agent', agent')
    BY <2>1, <2>3, RemovalLeads
  <2>6. Fanout(e)  BY <2>1, <2>3 DEF Emit, Fanout
  <2> QED  BY <2>2, <2>3, <2>4, <2>5, <2>6, EmitConverges DEF Emit
<1>6. CASE Tick
  <2>1. PICK e : e = [type |-> "metrics.tick", data |-> NoAgent]  OBVIOUS
  <2>2. e \in Deltas  BY <2>1 DEF Deltas, Entities
  <2>3. agent' = agent /\ Emit("metrics.tick", NoAgent)  BY <1>6 DEF Tick
  <2>4. \A p \in Seq(Deltas), from \in Entities :
            Leads(p, from, agent) => Leads(Append(p, e), from, agent')
    BY <2>1, <2>3, TickLeads
  <2>5. \A p \in Seq(Deltas) : Leads(p, agent, agent) => Leads(Append(p, e), agent', agent')
    BY <2>1, <2>3, TickLeads
  <2>6. Fanout(e)  BY <2>1, <2>3 DEF Emit, Fanout
  <2> QED  BY <2>2, <2>3, <2>4, <2>5, <2>6, EmitConverges DEF Emit
<1> QED  BY <1>3, <1>4, <1>5, <1>6 DEF Collector

-----------------------------------------------------------------------------
\* The head of the loop goes to the end of the queue: the same is on its way.
LEMMA DeliverConverges == Converging /\ Deliver => NoGaps' /\ OnCourse'
<1> SUFFICES ASSUME Converging, Deliver, lossless' PROVE NoGaps' /\ OnCourse'
  BY DEF NoGaps, OnCourse
<1>1. /\ queue \in Seq(Stamped) /\ loop \in Seq(Deltas) /\ loop # <<>> /\ seq \in Nat
      /\ lossless \in BOOLEAN
  BY DEF Converging, IInv, Types, Deliver
<1>2. Head(loop) \in Deltas /\ Head(loop) = loop[1]  BY <1>1
<1>3. PICK env \in Stamped :
          env = Stamp(loop[1], seq + 1) /\ env.seq = seq + 1
          /\ env.type = loop[1].type /\ env.data = loop[1].data
  <2>1. PICK d \in Deltas : d = loop[1] /\ d = Head(loop)  BY <1>2
  <2>2. seq + 1 \in Nat  BY <1>1
  <2>3. Stamp(d, seq + 1) \in Stamped /\ Stamp(d, seq + 1).seq = seq + 1  BY <2>2, StampedIsTyped
  <2>4. Stamp(d, seq + 1).type = d.type /\ Stamp(d, seq + 1).data = d.data  BY DEF Stamp
  <2> QED  BY <2>1, <2>3, <2>4
<1>4. /\ lossless /\ queue' = Append(queue, env) /\ seq' = seq + 1 /\ conn = "open"
      /\ conn' = conn /\ wire' = wire /\ page' = page /\ lastSeq' = lastSeq
      /\ fetches' = fetches /\ agent' = agent /\ loop' = Tail(loop)
  BY <1>1, <1>2, <1>3 DEF Deliver, serverVars, pageVars
<1>5. PICK n \in Nat : n = Len(queue)  BY <1>1
<1>6. /\ Len(queue') = n + 1 /\ queue'[n + 1] = env
      /\ \A i \in 1..n : queue'[i] = queue[i]
  BY <1>1, <1>4, <1>5, AppendIs
<1>7. PICK l \in Nat : Len(loop) = l + 1 /\ Len(loop') = l
          /\ \A i \in 1..l : loop'[i] = loop[i + 1]
  <2>1. Len(loop) \in Nat /\ 1 \in DOMAIN loop /\ DOMAIN loop = 1..Len(loop)
    BY <1>1, TailIs
  <2>2. PICK l \in Nat : Len(loop) = l + 1
    <3>1. Len(loop) - 1 \in Nat /\ Len(loop) = (Len(loop) - 1) + 1  BY <2>1
    <3> QED  BY <3>1
  <2>3. Len(loop') = l /\ \A i \in 1..l : loop'[i] = loop[i + 1]
    BY <1>1, <1>4, <2>2, TailIs
  <2> QED  BY <2>2, <2>3
<1>8. Carried' = Carried /\ Carried \in {0, 1} /\ (Hydrating' <=> Hydrating)
  BY <1>4 DEF Carried, Hydrating
<1>9. NoGaps'
  <2>1. /\ fetches = {}
        /\ \A i \in 1..n : queue[i].seq = seq - n + i
        /\ wire # <<>> /\ ~Hydrating => wire[1].seq = seq - n
        /\ lastSeq # 0 /\ ~Hydrating => lastSeq = seq - n - Len(wire)
    BY <1>4, <1>5 DEF Converging, NoGaps
  <2>2. ASSUME NEW i \in 1..(n + 1) PROVE queue'[i].seq = (seq + 1) - (n + 1) + i
    <3>1. CASE i = n + 1
      <4>1. queue'[i] = env /\ env.seq = seq + 1  BY <1>3, <1>6, <3>1
      <4>2. (seq + 1) - (n + 1) + i = seq + 1  BY <1>1, <3>1
      <4> QED  BY <4>1, <4>2
    <3>2. CASE i # n + 1
      <4>1. i \in 1..n /\ (seq + 1) - (n + 1) + i = seq - n + i  BY <1>1, <3>2
      <4>2. queue'[i].seq = seq - n + i  BY <1>6, <2>1, <4>1
      <4> QED  BY <4>1, <4>2
    <3> QED  BY <3>1, <3>2
  <2>3. (seq + 1) - (n + 1) = seq - n  BY <1>1
  <2> QED  BY <1>4, <1>6, <1>8, <2>1, <2>2, <2>3 DEF NoGaps
<1>10. PICK p \in Seq(Deltas) : Travels(p) /\ Leads(p, Hydrated, agent)
  BY <1>4 DEF Converging, OnCourse
<1>11. Travels(p)'
  <2>1. /\ Len(p) = Carried + n + (l + 1)
        /\ Carried = 1 => p[1].type = wire[1].type /\ p[1].data = wire[1].data
        /\ \A i \in 1..n : /\ p[Carried + i].type = queue[i].type
                          /\ p[Carried + i].data = queue[i].data
        /\ \A i \in 1..(l + 1) : p[Carried + n + i] = loop[i]
    BY <1>5, <1>7, <1>10 DEF Travels
  <2>2. Len(p) = Carried + (n + 1) + l
    <3>1. Len(p) = Carried + n + (l + 1)  BY <2>1
    <3>2. Carried \in {0, 1}  BY <1>8
    <3> QED  BY <3>1, <3>2
  <2>3. ASSUME NEW i \in 1..(n + 1)
        PROVE  p[Carried + i].type = queue'[i].type /\ p[Carried + i].data = queue'[i].data
    <3>1. CASE i = n + 1
      <4>1. Carried + i = Carried + n + 1 /\ 1 \in 1..(l + 1)  BY <1>8, <3>1
      <4>2. p[Carried + i] = loop[1]  BY <2>1, <4>1
      <4> QED  BY <1>3, <1>6, <3>1, <4>2
    <3>2. CASE i # n + 1
      <4>1. i \in 1..n  BY <3>2
      <4> QED  BY <1>6, <2>1, <4>1
    <3> QED  BY <3>1, <3>2
  <2>4. ASSUME NEW i \in 1..l PROVE p[Carried + (n + 1) + i] = loop'[i]
    <3>1. i + 1 \in 1..(l + 1) /\ Carried + (n + 1) + i = Carried + n + (i + 1)  BY <1>8
    <3>2. p[Carried + n + (i + 1)] = loop[i + 1]  BY <2>1, <3>1
    <3> QED  BY <1>7, <3>1, <3>2
  <2> QED  BY <1>4, <1>6, <1>7, <1>8, <2>1, <2>2, <2>3, <2>4 DEF Travels
<1>12. Hydrated' = Hydrated  BY <1>4 DEF Hydrated, Hydrating
<1> QED  BY <1>4, <1>9, <1>10, <1>11, <1>12 DEF OnCourse

-----------------------------------------------------------------------------
\* The head of the queue goes to the socket: the same is on its way.
LEMMA SendConverges == Converging /\ Send => NoGaps' /\ OnCourse'
<1> SUFFICES ASSUME Converging, Send, lossless' PROVE NoGaps' /\ OnCourse'
  BY DEF NoGaps, OnCourse
<1>1. /\ lossless /\ conn = "open" /\ conn' = conn /\ page' = page /\ lastSeq' = lastSeq
      /\ fetches' = fetches /\ agent' = agent /\ loop' = loop /\ seq' = seq
      /\ queue # <<>> /\ queue' = Tail(queue) /\ wire = <<>>
  BY DEF Send, serverVars, pageVars
<1>2. queue \in Seq(Stamped) /\ seq \in Nat /\ lastSeq \in Nat /\ loop \in Seq(Deltas)
  BY DEF Converging, IInv, Types
<1>3. PICK k \in Nat : Len(queue) = k + 1 /\ Len(queue') = k
          /\ \A i \in 1..k : queue'[i] = queue[i + 1]
  <2>1. PICK k \in Nat : k = Len(queue) - 1 /\ DOMAIN Tail(queue) = 1..k
                         /\ DOMAIN queue = 1..(k + 1)
    BY <1>1, <1>2, TailIs
  <2>2. Len(queue) = k + 1  BY <1>2, <2>1
  <2>3. Len(queue') = k /\ \A i \in 1..k : queue'[i] = queue[i + 1]
    BY <1>1, <1>2, <2>1, <2>2, TailIs
  <2> QED  BY <2>2, <2>3
<1>4. PICK w \in Stamped : w = queue[1] /\ w = Head(queue)  BY <1>1, <1>2
<1>5. wire' = <<w>> /\ wire' # <<>> /\ wire'[1] = w /\ Len(wire') = 1
  BY <1>4 DEF Send
<1>6. w.type # "snapshot"  BY DEF Stamped
<1>7. ~Hydrating /\ ~Hydrating' /\ Carried = 0 /\ Carried' = 1
  BY <1>1, <1>5, <1>6 DEF Hydrating, Carried
<1>8. NoGaps'
  <2>1. /\ fetches = {}
        /\ \A i \in 1..(k + 1) : queue[i].seq = seq - (k + 1) + i
        /\ lastSeq # 0 => lastSeq = seq - (k + 1) - Len(wire)
    BY <1>1, <1>3, <1>7 DEF Converging, NoGaps
  <2>2. w.seq = seq - k
    <3>1. w.seq = seq - (k + 1) + 1  BY <1>4, <2>1
    <3> QED  BY <1>2, <3>1
  <2>3. ASSUME NEW i \in 1..k PROVE queue'[i].seq = seq - k + i
    <3>1. i + 1 \in 1..(k + 1) /\ seq - (k + 1) + (i + 1) = seq - k + i  BY <1>2
    <3>2. queue[i + 1].seq = seq - (k + 1) + (i + 1)  BY <2>1, <3>1
    <3> QED  BY <1>3, <3>1, <3>2
  <2>4. lastSeq # 0 => lastSeq = seq - k - 1
    <3>1. Len(wire) = 0  BY <1>1
    <3> QED  BY <1>2, <2>1, <3>1
  <2> QED  BY <1>1, <1>3, <1>5, <2>1, <2>2, <2>3, <2>4 DEF NoGaps
<1>9. PICK p \in Seq(Deltas) : Travels(p) /\ Leads(p, Hydrated, agent)
  BY <1>1 DEF Converging, OnCourse
<1>10. Travels(p)'
  <2>1. PICK l \in Nat : l = Len(loop)  BY <1>2
  <2>2. /\ Len(p) = 0 + (k + 1) + l
        /\ \A i \in 1..(k + 1) : /\ p[0 + i].type = queue[i].type
                                /\ p[0 + i].data = queue[i].data
        /\ \A i \in 1..l : p[0 + (k + 1) + i] = loop[i]
    BY <1>3, <1>7, <1>9, <2>1 DEF Travels
  <2>3. Len(p) = 1 + k + l
    <3>1. Len(p) = 0 + (k + 1) + l  BY <2>2
    <3> QED  BY <3>1
  <2>4. p[1].type = w.type /\ p[1].data = w.data
    <3>1. 1 \in 1..(k + 1) /\ 0 + 1 = 1  OBVIOUS
    <3> QED  BY <1>4, <2>2, <3>1
  <2>5. ASSUME NEW i \in 1..k
        PROVE  p[1 + i].type = queue'[i].type /\ p[1 + i].data = queue'[i].data
    <3>1. i + 1 \in 1..(k + 1) /\ 0 + (i + 1) = 1 + i  OBVIOUS
    <3>2. p[1 + i].type = queue[i + 1].type /\ p[1 + i].data = queue[i + 1].data
      BY <2>2, <3>1
    <3> QED  BY <1>3, <3>2
  <2>6. ASSUME NEW i \in 1..l PROVE p[1 + k + i] = loop[i]
    <3>1. 0 + (k + 1) + i = 1 + k + i  OBVIOUS
    <3> QED  BY <2>2, <3>1
  <2> QED  BY <1>1, <1>3, <1>5, <1>7, <2>1, <2>3, <2>4, <2>5, <2>6 DEF Travels
<1>11. Hydrated' = Hydrated  BY <1>1, <1>7 DEF Hydrated
<1> QED  BY <1>1, <1>8, <1>9, <1>10, <1>11 DEF OnCourse

\* A connection starts with nothing on its way, and its snapshot is the agent.
LEMMA OpeningConverges ==
    Converging /\ (Register \/ SendSnapshot \/ Disconnect) => NoGaps' /\ OnCourse'
<1> SUFFICES ASSUME Converging, Register \/ SendSnapshot \/ Disconnect, lossless'
             PROVE  NoGaps' /\ OnCourse'
  BY DEF NoGaps, OnCourse
<1>1. lossless /\ fetches' = fetches /\ agent' = agent
  BY DEF Register, SendSnapshot, Disconnect, serverVars, pageVars
<1>2. fetches = {} /\ agent \in Entities  BY <1>1 DEF Converging, NoGaps, IInv, Types
<1>3. CASE Register
  <2>1. NoGaps'  BY <1>1, <1>2, <1>3 DEF Register, NoGaps
  <2>2. conn' = "registered" /\ loop' = <<>> /\ queue' = <<>> /\ wire' = <<>>
    BY <1>3 DEF Register
  <2>3. Carried' = 0 /\ Hydrated' = agent'  BY <2>2 DEF Carried, Hydrated
  <2>4. PICK p \in Seq(Deltas) : p = <<>>
    <3>1. <<>> \in Seq(Deltas)  OBVIOUS
    <3> QED  BY <3>1
  <2>5. Len(p) = 0 /\ DOMAIN p = {}  BY <2>4
  <2>6. Travels(p)'  BY <2>2, <2>3, <2>5 DEF Travels
  <2>7. agent = NoAgent \/ Precedes(agent, agent)
    BY <1>2 DEF Precedes, Entities, Agents
  <2>8. Leads(p, agent, agent)  BY <2>5, <2>7 DEF Leads, Lasting
  <2> QED  BY <1>1, <2>1, <2>3, <2>6, <2>8 DEF OnCourse
<1>4. CASE SendSnapshot
  <2>1. /\ conn = "registered" /\ conn' = "open" /\ wire' = <<Snapshot>> /\ loop' = loop
        /\ queue' = queue /\ seq' = seq /\ lastSeq' = lastSeq
    BY <1>4 DEF SendSnapshot, pageVars
  <2>2. wire = <<>> /\ queue = <<>>  BY <2>1 DEF Converging, IInv, OpensWithSnapshot
  <2>3. wire' # <<>> /\ wire'[1] = Snapshot /\ Snapshot.data = agent /\ Snapshot.type = "snapshot"
    BY <2>1 DEF Snapshot
  <2>4. Hydrating' /\ Hydrated' = agent  BY <2>1, <2>3 DEF Hydrating, Hydrated
  <2>5. Carried' = 0 /\ Carried = 0 /\ Hydrated = agent
    BY <2>1, <2>2, <2>4 DEF Carried, Hydrated
  <2>6. NoGaps'  BY <1>1, <1>2, <2>1, <2>2, <2>4 DEF NoGaps
  <2>7. PICK p \in Seq(Deltas) : Travels(p) /\ Leads(p, agent, agent)
    BY <1>1, <2>1, <2>5 DEF Converging, OnCourse
  <2>8. Travels(p)'  BY <2>1, <2>5, <2>7 DEF Travels
  <2> QED  BY <1>1, <2>4, <2>6, <2>7, <2>8 DEF OnCourse
<1>5. CASE Disconnect
  BY <1>1, <1>2, <1>5 DEF Disconnect, NoGaps, OnCourse
<1> QED  BY <1>3, <1>4, <1>5

\* The page takes what is first.
LEMMA ReceiveConverges ==
    Converging /\ (ReceiveSnapshot \/ ReceiveDelta) => NoGaps' /\ OnCourse'
<1> SUFFICES ASSUME Converging, ReceiveSnapshot \/ ReceiveDelta, lossless'
             PROVE  NoGaps' /\ OnCourse'
  BY DEF NoGaps, OnCourse
<1>1. /\ lossless /\ conn' = conn /\ loop' = loop /\ seq' = seq /\ queue' = queue
      /\ fetches' = fetches /\ agent' = agent /\ wire' = <<>> /\ wire # <<>>
  BY DEF ReceiveSnapshot, ReceiveDelta, serverVars
<1>2. conn = "open" /\ fetches = {}
  BY <1>1 DEF Converging, IInv, OpensWithSnapshot, NoGaps
<1>3. PICK w \in Stamped \cup Snapshots : w = wire[1] /\ w = Head(wire) /\ Len(wire) = 1
  BY <1>1 DEF Converging, IInv, Types
<1>4. ~Hydrating' /\ Carried' = 0 /\ Hydrated' = page' /\ Len(wire') = 0
  BY <1>1, <1>2 DEF Hydrating, Carried, Hydrated
<1>5. PICK p \in Seq(Deltas) : Travels(p) /\ Leads(p, Hydrated, agent)
  BY <1>1, <1>2 DEF Converging, OnCourse
<1>6. queue \in Seq(Stamped) /\ loop \in Seq(Deltas) /\ seq \in Nat
      /\ page \in Entities /\ agent \in Entities
  BY DEF Converging, IInv, Types
<1>7. \A i \in 1..Len(queue) : queue[i].seq = seq - Len(queue) + i
  BY <1>1, <1>2 DEF Converging, NoGaps
<1>8. CASE ReceiveSnapshot
  <2>1. Hydrating /\ page' = w.data /\ lastSeq' = 0
    BY <1>1, <1>3, <1>8 DEF ReceiveSnapshot, Hydrating, Hydrate
  <2>2. Carried = 0 /\ Hydrated = w.data  BY <1>2, <1>3, <2>1 DEF Carried, Hydrated
  <2>3. NoGaps'  BY <1>1, <1>2, <1>7, <2>1 DEF NoGaps
  <2>4. Travels(p)'  BY <1>1, <1>4, <1>5, <2>2 DEF Travels
  <2> QED  BY <1>1, <1>4, <1>5, <2>1, <2>2, <2>3, <2>4 DEF OnCourse
<1>9. CASE ReceiveDelta
  <2>1. w.type # "snapshot" /\ lastSeq' = w.seq /\ page' = Applied(w)
    BY <1>3, <1>9 DEF ReceiveDelta
  <2>2. ~Hydrating /\ Carried = 1 /\ Hydrated = page
    BY <1>1, <1>2, <1>3, <2>1 DEF Hydrating, Carried, Hydrated
  <2>3. w \in Stamped  BY <2>1 DEF Snapshots
  <2>4. w.seq = seq - Len(queue)  BY <1>1, <1>2, <1>3, <2>2 DEF Converging, NoGaps
  <2>5. NoGaps'
    <3>1. w.seq = seq - Len(queue) - 0  BY <1>6, <2>3, <2>4 DEF Stamped
    <3> QED  BY <1>1, <1>2, <1>4, <1>7, <2>1, <3>1 DEF NoGaps
  <2>6. PICK m \in Nat, n \in Nat : m = Len(queue) /\ n = Len(loop)  BY <1>6
  <2>7. /\ Len(p) = 1 + m + n
        /\ p[1].type = w.type /\ p[1].data = w.data
        /\ \A i \in 1..m : p[1 + i].type = queue[i].type /\ p[1 + i].data = queue[i].data
        /\ \A i \in 1..n : p[1 + m + i] = loop[i]
    BY <1>3, <1>5, <2>2, <2>6 DEF Travels
  <2>8. p # <<>>  BY <2>7
  <2>9. PICK t \in Seq(Deltas) : t = Tail(p) /\ Len(t) = m + n
            /\ \A i \in 1..(m + n) : t[i] = p[i + 1]
    <3>1. Tail(p) \in Seq(Deltas)  BY <2>8
    <3>2. Len(Tail(p)) = m + n /\ DOMAIN Tail(p) = 1..(m + n)  BY <2>7, <2>8
    <3>3. \A i \in 1..(m + n) : Tail(p)[i] = p[i + 1]  BY <2>8, <3>2, TailIs
    <3> QED  BY <3>1, <3>2, <3>3
  <2>10. Leads(t, page', agent)
    <3>1. Leads(p, page, agent)  BY <1>5, <2>2
    <3>2. Leads(Tail(p), Applied(w), agent)
      BY <1>6, <2>3, <2>7, <2>8, <3>1, AppliedLeads
    <3> QED  BY <2>1, <2>9, <3>2
  <2>11. Travels(t)'
    <3>1. ASSUME NEW i \in 1..m
          PROVE  t[0 + i].type = queue[i].type /\ t[0 + i].data = queue[i].data
      <4>1. i \in 1..(m + n) /\ 0 + i = i /\ i + 1 = 1 + i  OBVIOUS
      <4> QED  BY <2>7, <2>9, <4>1
    <3>2. ASSUME NEW i \in 1..n PROVE t[0 + m + i] = loop[i]
      <4>1. m + i \in 1..(m + n) /\ 0 + m + i = m + i /\ (m + i) + 1 = 1 + m + i  OBVIOUS
      <4> QED  BY <2>7, <2>9, <4>1
    <3>3. Len(t) = 0 + m + n  BY <2>9
    <3>4. Len(queue') = m /\ Len(loop') = n /\ Carried' = 0 /\ Carried' # 1  BY <1>1, <1>4, <2>6
    <3>5. \A i \in 1..Len(queue') :
              t[Carried' + i].type = queue'[i].type /\ t[Carried' + i].data = queue'[i].data
      BY <1>1, <3>1, <3>4
    <3>6. \A i \in 1..Len(loop') : t[Carried' + Len(queue') + i] = loop'[i]
      BY <1>1, <3>2, <3>4
    <3>7. Len(t) = Carried' + Len(queue') + Len(loop')  BY <3>3, <3>4
    <3> QED  BY <3>4, <3>5, <3>6, <3>7 DEF Travels
  <2> QED  BY <1>1, <1>4, <2>5, <2>10, <2>11 DEF OnCourse
<1> QED  BY <1>8, <1>9

\* A page that misses nothing fetches nothing.
LEMMA NothingFetched ==
    ASSUME Converging, lossless
    PROVE  /\ fetches = {}
           /\ wire # <<>> /\ Head(wire).type # "snapshot" => ~Gap(Head(wire))
<1>1. fetches = {}  BY DEF Converging, NoGaps
<1>2. ASSUME wire # <<>>, Head(wire).type # "snapshot" PROVE ~Gap(Head(wire))
  <2>1. PICK w \in Stamped \cup Snapshots : w = wire[1] /\ w = Head(wire) /\ Len(wire) = 1
    BY <1>2 DEF Converging, IInv, Types
  <2>2. w \in Stamped /\ ~Hydrating  BY <1>2, <2>1 DEF Hydrating, Snapshots
  <2>3. conn = "open"  BY <1>2 DEF Converging, IInv, OpensWithSnapshot
  <2>4. w.seq = seq - Len(queue) /\ (lastSeq # 0 => lastSeq = seq - Len(queue) - 1)
    BY <1>2, <2>1, <2>2, <2>3 DEF Converging, NoGaps
  <2>5. seq \in Nat /\ Len(queue) \in Nat /\ lastSeq \in Nat  BY DEF Converging, IInv, Types
  <2>6. lastSeq # 0 => w.seq = lastSeq + 1  BY <2>4, <2>5
  <2> QED  BY <2>1, <2>6 DEF Gap
<1> QED  BY <1>1, <1>2

LEMMA FetchConverges ==
    ASSUME Converging, NEW id,
           \/ AnswerFetch(id) \/ Resync(id)
           \/ \E f \in fetches : FinishFetch(f) \/ FailFetch(f)
    PROVE  NoGaps' /\ OnCourse'
<1>1. lossless' = lossless  BY DEF AnswerFetch, Resync, FinishFetch, FailFetch, connVars
<1>2. ~lossless  BY NothingFetched DEF AnswerFetch, Resync
<1> QED  BY <1>1, <1>2 DEF NoGaps, OnCourse

LEMMA StepConverges == Converging /\ [Next]_vars => Converging'
<1> SUFFICES ASSUME Converging, [Next]_vars PROVE Converging'  OBVIOUS
<1>1. IInv'  BY StepPreserves DEF Converging
<1>2. CASE Collector  BY <1>1, <1>2, CollectorConverges DEF Converging
<1>3. CASE EventLoop
  BY <1>1, <1>3, DeliverConverges, OpeningConverges, SendConverges, FetchConverges
     DEF EventLoop, Converging
<1>4. CASE Page
  BY <1>1, <1>4, ReceiveConverges, FetchConverges DEF Page, Converging
<1>5. CASE UNCHANGED vars
  <2>1. /\ agent' = agent /\ conn' = conn /\ loop' = loop /\ seq' = seq /\ queue' = queue
        /\ wire' = wire /\ fetches' = fetches /\ lastSeq' = lastSeq /\ page' = page
        /\ lossless' = lossless
    BY <1>5 DEF vars, serverVars, connVars, pageVars
  <2>2. NoGaps'  BY <2>1 DEF Converging, NoGaps, Hydrating
  <2>3. Carried' = Carried /\ Hydrated' = Hydrated  BY <2>1 DEF Carried, Hydrated, Hydrating
  <2>4. ASSUME NEW p, Travels(p) PROVE Travels(p)'  BY <2>1, <2>3, <2>4 DEF Travels
  <2>5. OnCourse'  BY <2>1, <2>3, <2>4 DEF Converging, OnCourse
  <2> QED  BY <1>1, <2>2, <2>5 DEF Converging
<1> QED  BY <1>2, <1>3, <1>4, <1>5 DEF Next

\* server.py:117-177 and roboport-feed.html:448-467: for any size of the queue and any
\* number of connections, and however often the agent is removed and added again, a page
\* that has read everything shows the agent as it is, as long as no queue overflowed.
THEOREM LosslessPageConverges == Spec => []LosslessConverges
<1>1. Converging => LosslessConverges
  <2> SUFFICES ASSUME Converging, Quiet, lossless PROVE page = agent  BY DEF LosslessConverges
  <2>1. /\ conn = "open" /\ loop = <<>> /\ queue = <<>> /\ wire = <<>>
        /\ page \in Entities /\ agent \in Entities
    BY DEF Quiet, Converging, IInv, Types
  <2>2. PICK p \in Seq(Deltas) : Travels(p) /\ Leads(p, Hydrated, agent)
    BY <2>1 DEF Converging, OnCourse
  <2>3. Carried = 0 /\ Hydrated = page  BY <2>1 DEF Carried, Hydrated, Hydrating
  <2>4. Len(p) = 0 /\ DOMAIN p = {}  BY <2>1, <2>2, <2>3 DEF Travels
  <2>5. Lasting(p, 0)  BY <2>4 DEF Lasting
  <2>6. CASE agent = NoAgent  BY <2>2, <2>3, <2>5, <2>6 DEF Leads, Precedes
  <2>7. CASE agent # NoAgent  BY <2>2, <2>3, <2>4, <2>7 DEF Leads
  <2> QED  BY <2>6, <2>7
<1>2. Spec => []Converging  BY InitConverging, StepConverges, PTL DEF Spec
<1> QED  BY <1>1, <1>2, PTL

=============================================================================
