------------------------------ MODULE OpsConsole ------------------------------
(***************************************************************************)
(* The servers behind the Ops Console: dashboard/bridge.py tailing a       *)
(* run.log, and dashboard/serve.py watching one (--watch) or replaying one *)
(* that it has loaded.  RunLog writes the log, and may be killed in the    *)
(* middle of a line and launched again; streams are what a console's       *)
(* EventSource opens.                                                      *)
(*                                                                         *)
(* Threads: the tail or watch thread (Take..., Broadcast) and HTTPServer,  *)
(* which serves one request at a time, a stream until a write to it fails. *)
(***************************************************************************)
EXTENDS ConsoleFeed, FiniteSets

CONSTANTS
    Streams,        \* the connections consoles open
    NoStream,
    Modes,          \* which servers are run
    HistoryCap,     \* _HISTORY_CAP
    Beginnings,     \* bound: what is in run.log, and where its run is, at first
    MaxLines,       \* bound: lines of run.log
    MaxVisits       \* bound: connections over all streams

\* Where a run is: the planner is asked between the first line of a run and
\* the plan, and a station stands for its step.
Places == {"off", "planning", "open"} \cup Stations

\* A run writes one of these before it writes of a step.  (On disk its first line is
\* lost when it is glued to an orphaned part.)
Starters == {RunLine("run.start"), RunLine("plan.created")}
Begun(lines) == ToSet(lines) \cap Starters # {}

ASSUME OpsConsoleAssumption ==
    /\ NoStream \notin Streams
    /\ Modes \subseteq {"bridge", "watch", "replay"}
    /\ HistoryCap \in Nat \ {0}
    /\ {"off", "planning", "open"} \cap Stations = {}
    /\ \A b \in Beginnings :
        /\ b.log \in Seq(Lines) /\ b.writer \in Places
        /\ b.writer \in {"open"} \cup Stations => Begun(b.log)
        /\ \A i \in 1..Len(b.log) :
              b.log[i].event \in StepEvents => Begun(SubSeq(b.log, 1, i - 1))
    /\ MaxLines \in Nat /\ MaxVisits \in Nat

VARIABLES
    mode,       \* the server that runs
    log,        \* run.log: the complete lines
    half,       \* <<line>> when the beginning of a line is on disk
    writer,     \* one of Places: "open" between two steps, a station in its step
    cursor,     \* the bridge: lines read; the watch: _watch_seen
    bitten,     \* the bridge has read the beginning of the next line
    batch,      \* the watch: the lines of this poll still to be handled, by number
    taken,      \* history: the lines translated, by number; 0 where the bridge had
                \* already read the beginning
    rs,         \* the RunState
    out,        \* envelopes translated and not yet broadcast
    sent,       \* history: every envelope broadcast
    cached,     \* _cached_events, for a replay
    loaded,     \* history: how many lines `cached` was made from
    served,     \* the stream the HTTP server is busy with
    subs,       \* the registered streams: _subscribers or _clients
    stage,      \* each stream: "away", "waiting", "attached" or "gone"
    queue,      \* what is on its way to it
    got,        \* what it received on this connection
    visits      \* connections opened

logVars == <<log, half, writer>>
tailVars == <<cursor, bitten, batch, taken, rs>>
pageVars == <<served, stage, got, visits>>
vars == <<mode, logVars, tailVars, out, sent, cached, loaded, subs, queue, pageVars>>

-----------------------------------------------------------------------------
\* The snapshot that opens every feed takes a seq too.
Opened(rs0) == [out |-> Stamped(<<Snapshot>>, rs0.seq),
                rs |-> [rs0 EXCEPT !.seq = @ + 1, !.snapshotSent = TRUE]]

\* convert_run: the envelopes of a whole log, from a RunState of its own.
ConvertRun(lines, seq) ==
    LET first == Opened([NewRunState EXCEPT !.seq = seq])
        rest == TranslateAll(lines, first.rs)
    IN [out |-> first.out \o rest.out, seq |-> rest.rs.seq]

\* The tail thread's snapshot is the first thing broadcast; only the bridge's
\* state remembers it.  A replay is loaded before the server listens.
Init ==
    /\ mode \in Modes
    /\ \E b \in Beginnings : log = b.log /\ writer = b.writer
    /\ half = <<>>
    /\ cursor = 0 /\ bitten = FALSE /\ batch = <<>> /\ taken = <<>>
    /\ sent = <<>>
    /\ IF mode = "replay"
       THEN /\ cached = ConvertRun(log, 0).out
            /\ loaded = Len(log)
            /\ rs = [NewRunState EXCEPT !.seq = ConvertRun(log, 0).seq]
            /\ out = <<>>
       ELSE /\ cached = <<>>
            /\ loaded = 0
            /\ rs = [Opened(NewRunState).rs EXCEPT !.snapshotSent = mode = "bridge"]
            /\ out = Opened(NewRunState).out
    /\ served = NoStream
    /\ subs = {}
    /\ stage = [c \in Streams |-> "away"]
    /\ queue = [c \in Streams |-> <<>>]
    /\ got = [c \in Streams |-> <<>>]
    /\ visits = 0

-----------------------------------------------------------------------------
(* The writer: RunLog, as the benchmark calls it                           *)

\* What is written next, and where the run is then.
Follows(line, after) ==
    \/ writer = "off" /\ line = RunLine("run.start") /\ after = "planning"
    \/ writer = "planning" /\ line = RunLine("plan.created") /\ after = "open"
    \/ writer = "open" /\ line = RunLine("run.complete") /\ after = "off"
    \/ \E s \in Stations :
        \/ writer = "open" /\ line = StepLine("step.start", s) /\ after = s
        \/ writer = s /\ line = StepLine("retry", s) /\ after = s
        \/ writer = s /\ line.at = {s} /\ after = "open"
           /\ line.event \in {"step.complete", "step.failed"}

Orphan == <<Junk>>

\* A line is written whole, or a part of it reaches the disk first.  A run that
\* is launched on a log ending in an orphaned part makes one junk line with it.
Write(line) ==
    /\ Len(log) < MaxLines
    /\ half \in {<<>>, Orphan}
    /\ \E after \in Places : Follows(line, after) /\ writer' = after
    /\ \/ log' = Append(log, IF half = Orphan THEN Junk ELSE line) /\ half' = <<>>
       \/ half = <<>> /\ half' = <<line>> /\ UNCHANGED log
    /\ UNCHANGED <<mode, tailVars, out, sent, cached, loaded, subs, queue, pageVars>>

WriteRest ==
    /\ half \notin {<<>>, Orphan}
    /\ log' = log \o half
    /\ half' = <<>>
    /\ UNCHANGED <<mode, writer, tailVars, out, sent, cached, loaded, subs, queue, pageVars>>

Kill ==
    /\ writer # "off" \/ half \notin {<<>>, Orphan}
    /\ writer' = "off"
    /\ half' = IF half = <<>> THEN <<>> ELSE Orphan
    /\ UNCHANGED <<mode, log, tailVars, out, sent, cached, loaded, subs, queue, pageVars>>

-----------------------------------------------------------------------------
(* The tail thread of bridge.py and the watch thread of serve.py           *)

\* What readline returns of line i when its beginning has been read: nothing that
\* parses, unless that was an orphaned part; then it is the run.start glued to it.
RestOf(i) == IF log[i] = Junk THEN RunLine("run.start") ELSE Junk

Handle(line) ==
    LET t == Translate(line, rs) IN out' = t.out /\ rs' = t.rs

\* Fault: the tail ends with the run.
TailLineOnce ==
    /\ mode = "bridge" /\ out = <<>>
    /\ cursor < Len(log)
    /\ cursor > 0 => log[cursor] # RunLine("run.complete")
    /\ Handle(IF bitten THEN RestOf(cursor + 1) ELSE log[cursor + 1])
    /\ taken' = Append(taken, IF bitten THEN 0 ELSE cursor + 1)
    /\ cursor' = cursor + 1
    /\ bitten' = FALSE
    /\ UNCHANGED <<mode, logVars, batch, sent, cached, loaded, subs, queue, pageVars>>

\* tail_log: readline returns the next line, or the rest of one whose beginning
\* it has already returned.
TailLine ==
    /\ mode = "bridge" /\ out = <<>>
    /\ cursor < Len(log)
    /\ Handle(IF bitten THEN RestOf(cursor + 1) ELSE log[cursor + 1])
    /\ taken' = Append(taken, IF bitten THEN 0 ELSE cursor + 1)
    /\ cursor' = cursor + 1
    /\ bitten' = FALSE
    /\ UNCHANGED <<mode, logVars, batch, sent, cached, loaded, subs, queue, pageVars>>

\* readline returns what there is of a line that has no end yet.
TailHalf ==
    /\ mode = "bridge" /\ out = <<>>
    /\ cursor = Len(log) /\ half # <<>> /\ ~bitten
    /\ bitten' = TRUE
    /\ UNCHANGED <<mode, logVars, cursor, batch, taken, rs, out, sent, cached, loaded, subs,
                   queue, pageVars>>

\* Fault: the poll starts after all the lines of the last one, junk or not,
\* counting the part of a line that has no end yet.
WatchPollAll ==
    /\ mode = "watch" /\ out = <<>> /\ batch = <<>>
    /\ cursor < Len(log)
    /\ batch' = [i \in 1..(Len(log) - cursor) |-> cursor + i]
    /\ cursor' = Len(log) + Len(half)
    /\ UNCHANGED <<mode, logVars, bitten, taken, rs, out, sent, cached, loaded, subs, queue,
                   pageVars>>

\* _watch_thread: every poll takes the lines from _watch_seen on.  What has no
\* end yet is junk at the end of them.
WatchPoll ==
    /\ mode = "watch" /\ out = <<>> /\ batch = <<>>
    /\ cursor < Len(log)
    /\ batch' = [i \in 1..(Len(log) - cursor) |-> cursor + i]
    /\ UNCHANGED <<mode, logVars, cursor, bitten, taken, rs, out, sent, cached, loaded, subs,
                   queue, pageVars>>

\* _watch_seen counts the lines that parse.
WatchLine ==
    /\ batch # <<>> /\ out = <<>>
    /\ Handle(log[Head(batch)])
    /\ IF log[Head(batch)] = Junk
       THEN UNCHANGED <<cursor, taken>>
       ELSE cursor' = cursor + 1 /\ taken' = Append(taken, Head(batch))
    /\ batch' = Tail(batch)
    /\ UNCHANGED <<mode, logVars, bitten, sent, cached, loaded, subs, queue, pageVars>>

\* broadcast queues for every subscriber; _broadcast writes to the socket of every
\* client, and drops those whose console is gone.
Broadcast ==
    /\ out # <<>>
    /\ sent' = Append(sent, Head(out))
    /\ out' = Tail(out)
    /\ IF mode = "bridge"
       THEN /\ queue' = [c \in Streams |->
                             IF c \in subs THEN Append(queue[c], Head(out)) ELSE queue[c]]
            /\ UNCHANGED <<subs, got>>
       ELSE /\ subs' = {c \in subs : stage[c] # "gone"}
            /\ got' = [c \in Streams |->
                           IF c \in subs' THEN Append(got[c], Head(out)) ELSE got[c]]
            /\ UNCHANGED queue
    /\ UNCHANGED <<mode, logVars, tailVars, cached, loaded, served, stage, visits>>

-----------------------------------------------------------------------------
(* The HTTP server                                                         *)

\* _history keeps the last envelopes.
History == SubSeq(sent, IF Len(sent) > HistoryCap THEN Len(sent) - HistoryCap + 1 ELSE 1,
                  Len(sent))

\* Fault: the history is copied under the lock, but the queue registered later.
AcceptLate(c) ==
    /\ served = NoStream /\ stage[c] = "waiting"
    /\ served' = c
    /\ stage' = [stage EXCEPT ![c] = "attached"]
    /\ queue' = [queue EXCEPT ![c] = CASE mode = "bridge" -> History
                                       [] mode = "watch" -> <<>>
                                       [] mode = "replay" -> cached]
    /\ subs' = IF mode = "replay" \/ out # <<>> THEN subs ELSE subs \cup {c}
    /\ UNCHANGED <<mode, logVars, tailVars, out, sent, cached, loaded, got, visits>>

\* A stream's turn: the bridge copies its history and registers the queue under
\* the broadcast lock, a watch registers the socket, a replay takes the list.
Accept(c) ==
    /\ served = NoStream /\ stage[c] = "waiting"
    /\ served' = c
    /\ stage' = [stage EXCEPT ![c] = "attached"]
    /\ queue' = [queue EXCEPT ![c] = CASE mode = "bridge" -> History
                                       [] mode = "watch" -> <<>>
                                       [] mode = "replay" -> cached]
    /\ subs' = IF mode = "replay" THEN subs ELSE subs \cup {c}
    /\ UNCHANGED <<mode, logVars, tailVars, out, sent, cached, loaded, got, visits>>

\* The handler of the bridge or of a replay writes all there is.
Deliver(c) ==
    /\ stage[c] = "attached" /\ queue[c] # <<>>
    /\ got' = [got EXCEPT ![c] = @ \o queue[c]]
    /\ queue' = [queue EXCEPT ![c] = <<>>]
    /\ UNCHANGED <<mode, logVars, tailVars, out, sent, cached, loaded, subs, served, stage,
                   visits>>

Release(c, next) ==
    /\ served' = NoStream
    /\ subs' = subs \ {c}
    /\ queue' = [queue EXCEPT ![c] = <<>>]
    /\ got' = [got EXCEPT ![c] = <<>>]
    /\ stage' = [stage EXCEPT ![c] = next]
    /\ UNCHANGED <<mode, logVars, tailVars, out, sent, cached, loaded, visits>>

\* The replay is over and its stream is closed.
EndReplay(c) ==
    /\ mode = "replay" /\ stage[c] = "attached" /\ queue[c] = <<>>
    /\ Release(c, "away")

\* Fault: the handler writes nothing while it has nothing to say.
NoticeByData(c) ==
    /\ served = c /\ stage[c] = "gone"
    /\ queue[c] # <<>>
    /\ Release(c, "away")

\* The console is gone: the next envelope or heartbeat fails.
Notice(c) ==
    /\ served = c /\ stage[c] = "gone"
    /\ Release(c, "away")

\* GET /api/snapshot of serve.py converts the run's log anew, and what it made
\* is what the next replay streams.
LoadRun ==
    /\ mode = "replay" /\ served = NoStream
    /\ loaded # Len(log)
    /\ cached' = ConvertRun(log, rs.seq).out
    /\ rs' = [rs EXCEPT !.seq = ConvertRun(log, rs.seq).seq]
    /\ loaded' = Len(log)
    /\ UNCHANGED <<mode, logVars, cursor, bitten, batch, taken, out, sent, subs, queue, pageVars>>

-----------------------------------------------------------------------------
(* The consoles                                                            *)

Open(c) ==
    /\ stage[c] = "away" /\ visits < MaxVisits
    /\ visits' = visits + 1
    /\ stage' = [stage EXCEPT ![c] = "waiting"]
    /\ UNCHANGED <<mode, logVars, tailVars, out, sent, cached, loaded, subs, queue, served,
                   got>>

Leave(c) ==
    /\ stage[c] = "attached"
    /\ stage' = [stage EXCEPT ![c] = "gone"]
    /\ got' = [got EXCEPT ![c] = <<>>]
    /\ UNCHANGED <<mode, logVars, tailVars, out, sent, cached, loaded, subs, queue, served,
                   visits>>

-----------------------------------------------------------------------------
Tailing == TailLine \/ TailHalf \/ WatchPoll \/ WatchLine \/ Broadcast

Serving(c) == Accept(c) \/ Deliver(c) \/ EndReplay(c) \/ Notice(c)

Next ==
    \/ \E line \in Lines : Write(line)
    \/ WriteRest \/ Kill
    \/ Tailing \/ LoadRun
    \/ \E c \in Streams : Serving(c) \/ Open(c) \/ Leave(c)

\* The tail thread loops, and the handler writes or beats at least every 15 s.
\* Nothing makes the run write, or a console come or leave.
Fairness == /\ WF_vars(Tailing)
            /\ \A c \in Streams : WF_vars(Deliver(c) \/ EndReplay(c) \/ Notice(c))

Spec == Init /\ [][Next]_vars /\ Fairness

-----------------------------------------------------------------------------
(* Properties                                                              *)

\* Every variable stays in its range.
TypeOK ==
    /\ mode \in Modes
    /\ ToSet(log) \subseteq Lines
    /\ half = <<>> \/ half[1] \in Lines
    /\ writer \in Places
    /\ cursor \in 0..Len(log)
    /\ bitten \in BOOLEAN
    /\ ToSet(batch) \cup ToSet(taken) \subseteq 0..Len(log)
    /\ ToSet(out) \cup ToSet(sent) \cup ToSet(cached) \subseteq Envelopes
    /\ loaded \in 0..Len(log)
    /\ served \in Streams \cup {NoStream}
    /\ subs \subseteq {served}
    /\ \A c \in Streams :
        /\ stage[c] \in {"away", "waiting", "attached", "gone"}
        /\ stage[c] \in {"attached", "gone"} <=> served = c
        /\ ToSet(queue[c]) \cup ToSet(got[c]) \subseteq Envelopes
    /\ visits \in 0..MaxVisits

\* What the translator was given.
Heard == IF mode = "replay" THEN SubSeq(log, 1, loaded)
         ELSE [i \in DOMAIN taken |-> IF taken[i] = 0 THEN RestOf(i) ELSE log[taken[i]]]

\* The lines that the bridge read in two parts, and how many lines the watch took
\* again.
Torn == {i \in DOMAIN taken : taken[i] = 0}
Repeats == Len(taken) - Cardinality(ToSet(taken))

\* What a stream received or will receive.
Received(c) == got[c] \o queue[c]

\* The console has what its server has made of the log so far.
Current(c) ==
    /\ stage[c] = "attached" /\ queue[c] = <<>> /\ out = <<>>
    /\ CASE mode = "bridge" -> cursor = Len(log)
         [] mode = "watch" -> /\ batch = <<>>
                              /\ \A i \in DOMAIN log : log[i] = Junk \/ i \in ToSet(taken)
         [] mode = "replay" -> got[c] # <<>>

\* A stream that is attached while envelopes are broadcast gets a contiguous
\* piece of them up to the last, none twice: from the bridge, all that the
\* history held when it came (the lock around the copy and the registration).
EachOnce ==
    \A c \in Streams : mode # "replay" /\ stage[c] = "attached" =>
        /\ IsSuffix(Received(c), sent)
        /\ mode = "bridge" => Len(Received(c)) = Len(sent) \/ Len(Received(c)) >= HistoryCap

-----------------------------------------------------------------------------
(* The picture a console should draw, from the lines alone                 *)

\* Where the run that is shown began: its snapshot wiped what was there.
Beginning(lines) == SelectLastInSeq(lines, LAMBDA l : l = RunLine("run.start"))

LastOf(lines, s, events) ==
    SelectLastInSeq(lines, LAMBDA l : l.at = {s} /\ l.event \in events)

Count(lines, event) == Cardinality({i \in DOMAIN lines : lines[i].event = event})

\* The starts whose step has not been ended before the next start there.
OpenStarts(lines) ==
    {i \in DOMAIN lines :
        /\ lines[i].event = "step.start"
        /\ ~\E j \in (i + 1)..Len(lines) :
              /\ lines[j].at = lines[i].at
              /\ lines[j].event \in {"step.complete", "step.failed"}
              /\ \A k \in (i + 1)..(j - 1) : lines[k] # lines[i]}

\* A station is busy while the last thing said of its step is that it started; its
\* agent is out until the step completes, for a failure does not call it back.
Draws(m, lines, s) ==
    LET b == Beginning(lines)
        start == LastOf(lines, s, {"step.start"})
        done == LastOf(lines, s, {"step.complete"})
        end == LastOf(lines, s, {"step.complete", "step.failed"})
    IN /\ m.station[s].state = "busy" <=> start > b /\ start > end
       /\ m.agent[s].state = CASE start > b /\ start > done -> "dispatched"
                               [] done > b /\ done > start -> "returning"
                               [] OTHER -> "docked"

\* The totals are those of the last line that completes a step or a run.
Totals(lines) ==
    LET tick == SelectLastInSeq(lines, LAMBDA l : l.event \in {"step.complete", "run.complete"})
        told == SubSeq(lines, 1, tick)
    IN IF tick > Beginning(lines)
       THEN <<Count(told, "step.complete"), Count(told, "step.failed")>>
       ELSE <<0, 0>>

\* A task is open until its step ends, for ever if another start came first.
Pictures(m, lines) ==
    /\ \A s \in Stations : Draws(m, lines, s)
    /\ Cardinality(m.tasks) = Cardinality({i \in OpenStarts(lines) : i > Beginning(lines)})
    /\ m.metrics = Totals(lines)

\* A console that has received everything, and applies it, shows what the log on
\* disk says, across kills and relaunches on the same log, and revs and totals that
\* the translator never starts over.  A replay always does; the bridge unless it
\* read a line in two parts, the watch unless an orphaned part made a junk line.
\* Even then: what the bridge has torn, the start of a run excepted, costs no
\* station but those of the torn lines, and hides steps from the totals but adds
\* none; and the watch still draws every station as the log says, while the lines
\* it takes again can only add to the totals, by one each (bridge.py L468-480,
\* serve.py L106-123).
TrueToLog ==
    \A c \in Streams : Current(c) /\ (mode = "replay" \/ got[c] = sent) =>
        LET m == Shown(got[c])
        IN CASE mode = "replay" -> Pictures(m, SubSeq(log, 1, loaded))
             [] mode = "bridge" ->
                    /\ Torn = {} => Pictures(m, log)
                    /\ (\A i \in Torn : log[i] \notin {Junk, RunLine("run.start")}) =>
                           /\ \A s \in Stations :
                                 (\A i \in Torn : log[i].at # {s}) => Draws(m, log, s)
                           /\ \A k \in 1..2 : m.metrics[k] <= Totals(log)[k]
             [] mode = "watch" ->
                    /\ Junk \notin ToSet(log) => Pictures(m, log)
                    /\ \A s \in Stations : Draws(m, log, s)
                    /\ \A k \in 1..2 : Totals(log)[k] <= m.metrics[k]
                    /\ m.metrics[1] <= Count(log, "step.complete") + Repeats
                    /\ m.metrics[2] <= Count(log, "step.failed") + Repeats

\* The watch misses no line, and translates a line again no oftener than there
\* are junk lines (each keeps _watch_seen one short).
WatchCounts ==
    mode = "watch" =>
        /\ Len(taken) - Cardinality(ToSet(taken)) <= Count(log, "junk")
        /\ cursor >= Len(log) /\ batch = <<>> =>
               \A i \in DOMAIN log : log[i] = Junk \/ i \in ToSet(taken)

\* A console that stays is brought up to date: no line and no envelope stays
\* behind, whatever was written in parts or killed.
CatchesUp == \A c \in Streams : stage[c] = "attached" ~> stage[c] # "attached" \/ Current(c)

\* The server is not busy for ever with a console that has gone: its next
\* heartbeat fails.
FreesUp == \A c \in Streams : stage[c] = "gone" ~> served # c

-----------------------------------------------------------------------------
(* What the documentation says, refuted by a run                           *)

\* README.md:54 of dashboard/, "SSE live feed from bridge.py (replays history on
\* connect, then tails)": a console that received everything shows it.
ConsoleFollows ==
    \A c \in Streams : mode = "bridge" /\ Current(c) => Followed(got[c]) = Shown(got[c])
=============================================================================
