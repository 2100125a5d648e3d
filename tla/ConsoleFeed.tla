----------------------------- MODULE ConsoleFeed -----------------------------
(***************************************************************************)
(* The vocabulary of the Ops Console: what dashboard/bridge.py's translate *)
(* makes of a line of run.log, and what the console makes of an envelope.  *)
(*                                                                         *)
(* An agent is known by the station it was named for (RunState.agent_for   *)
(* gives each station one agent), and what an envelope carries is reduced  *)
(* to a state and the numbers the console compares or displays.            *)
(***************************************************************************)
EXTENDS Naturals, Sequences, SequencesExt

CONSTANT Stations

\* A line of run.log: its event and the station it is about; "junk" stands for
\* a line json.loads refuses.
StepEvents == {"step.start", "step.complete", "step.failed", "retry", "critic.review"}
RunEvents == {"run.start", "plan.created", "run.complete"}
StepLine(event, s) == [event |-> event, at |-> {s}]
RunLine(event) == [event |-> event, at |-> {}]
Junk == RunLine("junk")
Lines == [event : StepEvents, at : {{s} : s \in Stations}]
             \cup [event : RunEvents \cup {"junk"}, at : {{}}]

\* num: the rev of an agent or a station, the id of a task, or
\* <<completed_total, failed_total>>.
Envelopes == [type : {"snapshot", "log.appended", "task.enqueued", "task.assigned",
                      "task.completed", "task.failed", "agent.updated",
                      "station.updated", "alert.raised", "metrics.tick"},
              at : SUBSET Stations,
              state : {"", "busy", "idle", "drain", "dispatched", "returning",
                       "critical", "warning"},
              num : Seq(Nat),
              seq : Nat]

\* An envelope that has no seq yet.
Env(type, at, state, num) ==
    [type |-> type, at |-> at, state |-> state, num |-> num, seq |-> 0]
Snapshot == Env("snapshot", {}, "", <<>>)
Log == Env("log.appended", {}, "", <<>>)

\* RunState, and the module's seq counter.
NewRunState == [snapshotSent |-> FALSE,
                taskOf |-> [s \in Stations |-> 0],
                revAgent |-> [s \in Stations |-> 0],
                revStation |-> [s \in Stations |-> 0],
                completed |-> 0, failed |-> 0, seq |-> 0]

\* make_envelope takes the next seq.
Stamped(envs, seq) == [i \in DOMAIN envs |-> [envs[i] EXCEPT !.seq = seq + i]]

\* One line's envelopes go out after `skip` further seqs were taken.
Emit(rs, envs, skip) ==
    [out |-> Stamped(envs, rs.seq + skip), rs |-> [rs EXCEPT !.seq = @ + skip + Len(envs)]]

-----------------------------------------------------------------------------
(* translate, one operator per kind of line                                *)

TranslateStart(rs, at, s) ==
    LET task == rs.seq + 1      \* task_id takes a seq of its own
        now == [rs EXCEPT !.taskOf[s] = task, !.revAgent[s] = @ + 1,
                          !.revStation[s] = @ + 1]
    IN Emit(now, <<Env("task.enqueued", at, "", <<task>>),
                   Env("task.assigned", at, "", <<task>>),
                   Env("agent.updated", at, "dispatched", <<now.revAgent[s]>>),
                   Env("station.updated", at, "busy", <<now.revStation[s]>>), Log>>, 1)

TranslateComplete(rs, at, s) ==
    LET now == [rs EXCEPT !.completed = @ + 1, !.revAgent[s] = @ + 1,
                          !.revStation[s] = @ + 1]
    IN Emit(now, <<Env("task.completed", at, "", <<rs.taskOf[s]>>),
                   Env("agent.updated", at, "returning", <<now.revAgent[s]>>),
                   Env("station.updated", at, "idle", <<now.revStation[s]>>),
                   Env("metrics.tick", {}, "", <<now.completed, now.failed>>), Log>>, 0)

\* Fault: a failed step leaves the rev of its station alone.
TranslateFailedSameRev(rs, at, s) ==
    LET now == [rs EXCEPT !.failed = @ + 1]
        first == Emit(now, <<Env("task.failed", at, "", <<rs.taskOf[s]>>)>>, 0)
        rest == Emit(first.rs,
                     <<Env("alert.raised", at, "warning", <<>>),
                       Env("station.updated", at, "idle", <<now.revStation[s]>>), Log>>, 1)
    IN [out |-> first.out \o rest.out, rs |-> rest.rs]

\* The alert's id is taken before its envelope's seq.  The agent is not told.
TranslateFailed(rs, at, s) ==
    LET now == [rs EXCEPT !.failed = @ + 1, !.revStation[s] = @ + 1]
        first == Emit(now, <<Env("task.failed", at, "", <<rs.taskOf[s]>>)>>, 0)
        rest == Emit(first.rs,
                     <<Env("alert.raised", at, "warning", <<>>),
                       Env("station.updated", at, "idle", <<now.revStation[s]>>), Log>>, 1)
    IN [out |-> first.out \o rest.out, rs |-> rest.rs]

\* A tool.call, and any event the translator does not know, is a log line.
Translate(line, rs) ==
    LET s == CHOOSE s \in line.at : TRUE
    IN CASE line.event = "run.start" ->
                Emit([rs EXCEPT !.snapshotSent = TRUE], <<Snapshot, Log>>, 0)
         [] line.event = "plan.created" ->
                Emit([rs EXCEPT !.snapshotSent = TRUE],
                     (IF rs.snapshotSent THEN <<>> ELSE <<Snapshot>>) \o <<Log>>, 0)
         [] line.event = "step.start" -> TranslateStart(rs, line.at, s)
         [] line.event = "step.complete" -> TranslateComplete(rs, line.at, s)
         [] line.event = "step.failed" -> TranslateFailed(rs, line.at, s)
         [] line.event = "retry" ->
                Emit(rs, <<Env("alert.raised", line.at, "warning", <<>>), Log>>, 1)
         [] line.event = "run.complete" ->
                Emit(rs, <<Env("metrics.tick", {}, "", <<rs.completed, rs.failed>>), Log>>, 0)
         [] line.event = "junk" -> [out |-> <<>>, rs |-> rs]
         [] OTHER -> Emit(rs, <<Log>>, 0)

\* Translating a whole log, as convert_run does, from a RunState.
TranslateAll(lines, rs) ==
    FoldLeft(LAMBDA acc, line : LET t == Translate(line, acc.rs)
                                IN [out |-> acc.out \o t.out, rs |-> t.rs],
             [out |-> <<>>, rs |-> rs], lines)

-----------------------------------------------------------------------------
(* The console                                                             *)

\* hydrate: the snapshot's stations and agents are idle and docked at rev 0.
Hydrated == [station |-> [s \in Stations |-> [state |-> "idle", rev |-> 0]],
             agent |-> [s \in Stations |-> [state |-> "docked", rev |-> 0]],
             tasks |-> {}, metrics |-> <<0, 0>>]

Newer(old, env) == IF Head(env.num) > old.rev
                   THEN [state |-> env.state, rev |-> Head(env.num)] ELSE old

\* route: an agent or a station that is not newer is ignored, a finished task
\* is deleted.
Route(m, env) ==
    LET s == CHOOSE s \in env.at : TRUE
    IN CASE env.type = "snapshot" -> Hydrated
         [] env.type = "agent.updated" -> [m EXCEPT !.agent[s] = Newer(@, env)]
         [] env.type = "station.updated" -> [m EXCEPT !.station[s] = Newer(@, env)]
         [] env.type \in {"task.enqueued", "task.assigned"} ->
                [m EXCEPT !.tasks = @ \cup {Head(env.num)}]
         [] env.type \in {"task.completed", "task.failed"} ->
                [m EXCEPT !.tasks = @ \ {Head(env.num)}]
         [] env.type = "metrics.tick" -> [m EXCEPT !.metrics = env.num]
         [] env.type \in {"log.appended", "alert.raised"} -> m

\* What a console that applies every envelope shows.
Shown(envs) == FoldLeft(Route, Hydrated, envs)

\* routeFeed in front of it: an envelope that does not follow the last seq is
\* dropped and a snapshot asked of the backend, which is the adapter: it answers
\* at once with an idle console and a seq of its own counter.
RouteFeed(p, env) ==
    IF env.type # "snapshot" /\ p.lastSeq # 0 /\ env.seq # p.lastSeq + 1
    THEN [m |-> Hydrated, lastSeq |-> p.adapterSeq + 1, adapterSeq |-> p.adapterSeq + 1]
    ELSE [p EXCEPT !.m = Route(@, env), !.lastSeq = env.seq]

\* feed.connect() took the adapter's first seq.
Followed(envs) ==
    FoldLeft(RouteFeed, [m |-> Hydrated, lastSeq |-> 1, adapterSeq |-> 1], envs).m
=============================================================================
