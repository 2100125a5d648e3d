----------------------------- MODULE Benchmark ------------------------------
(***************************************************************************)
(* scripts/benchmark.py: the orchestrator.  main() walks the (eval x run)  *)
(* jobs in order; run_one plans a job and walks its steps, and records     *)
(* what happens in four places that different readers trust:               *)
(*   log      <run_dir>/run.log, read by diff_runs.py and aggregate.py;    *)
(*   feed     the control-surface feed, tailed by RuntimeCrewCollector;    *)
(*   console  the Ops Console stream, tailed by dashboard/bridge.py;       *)
(*   final    <run_dir>/final_output.json, aggregate.py's "completed".     *)
(* The process may be killed between two actions or inside a write_text,   *)
(* which truncates its file first, and launched again with the same label, *)
(* over the files an earlier launch left.                                  *)
(*                                                                         *)
(* A step is one call of call_executor: its results are the ones module    *)
(* Executor shows possible, up to the calls it reports.                    *)
(***************************************************************************)
EXTENDS Naturals, SequencesExt

CONSTANTS
    NJobs,          \* (eval x run) pairs of the benchmark
    MaxSteps,       \* bound: steps in a plan
    StepCalls,      \* the llm_calls a step may report
    MaxLaunches     \* bound: times the benchmark is launched

ASSUME BenchmarkAssumption ==
    /\ NJobs \in Nat \ {0}
    /\ MaxSteps \in Nat
    /\ StepCalls \subseteq Nat
    /\ MaxLaunches \in Nat \ {0}

VARIABLES
    pc,         \* where the process is; "dead" between launches
    launches,   \* launches so far
    job,        \* the job under way
    size,       \* len(plan["steps"])
    pos,        \* the step under way
    outcome,    \* the executor's result for it
    llmTotal,   \* llm_total of the run
    statuses,   \* summary["evals"]...["status"] so far, in memory
    exit,       \* exit code, or "none"
    log, feed, console, final, grading, summary    \* the files

memory == <<job, size, pos, outcome, llmTotal, statuses>>
files == <<log, feed, console, final, grading, summary>>
vars == <<pc, launches, memory, exit, files>>

-----------------------------------------------------------------------------
Jobs == 1..NJobs
Outcomes == [status : {"ok", "failed"}, llm : StepCalls]

LogLines == [ev : {"plan_emitted"}] \cup
            [ev : {"step_done"}, step : 1..MaxSteps,
             status : {"ok", "failed"}, llm : StepCalls]

\* task_open stands for the lines task_enqueue, task_start and task_progress.
FeedLines == [ev : {"crew_start"}] \cup
             [ev : {"task_open"}, step : 1..MaxSteps] \cup
             [ev : {"task_end"}, step : 1..MaxSteps, status : {"ok", "error"}] \cup
             [ev : {"crew_end"}, status : {"ok", "failed"}]

ConsoleLines == [ev : {"run.start", "plan.created", "step.start",
                       "step.complete", "step.failed"}] \cup
                [ev : {"run.complete"}, steps : 0..MaxSteps, llm : Nat]

\* A kill inside write_text leaves a file that is empty or cut short: torn.
FinalFiles == {"absent", "torn", "ok", "failed"}
Gradings == {"absent", "torn", "clear", "blocked"}

\* The result of a run without steps.
NoOutcome == [status |-> "ok", llm |-> 0]

Init ==
    /\ pc = "dead"
    /\ launches = 0
    /\ job = 1
    /\ size = 0
    /\ pos = 0
    /\ outcome = NoOutcome
    /\ llmTotal = 0
    /\ statuses = <<>>
    /\ exit = "none"
    /\ log = [j \in Jobs |-> <<>>]
    /\ feed = <<>>
    /\ console = [j \in Jobs |-> <<>>]
    /\ final = [j \in Jobs |-> "absent"]
    /\ grading = [j \in Jobs |-> "absent"]
    /\ summary = <<>>

LogLine(line) == log' = [log EXCEPT ![job] = Append(@, line)]
FeedLine(line) == feed' = Append(feed, line)
ConsoleLine(line) == console' = [console EXCEPT ![job] = Append(@, line)]

-----------------------------------------------------------------------------
(* main                                                                    *)

\* Fault: the statuses of the launch before are still there.
LaunchKeepingStatuses ==
    /\ pc \in {"dead", "exited"}
    /\ launches < MaxLaunches
    /\ launches' = launches + 1
    /\ pc' = "start"
    /\ job' = 1
    /\ exit' = "none"
    /\ size' = 0
    /\ pos' = 0
    /\ outcome' = NoOutcome
    /\ llmTotal' = 0
    /\ UNCHANGED <<statuses, files>>

\* A launch reuses the directory of its label: mkdir(exist_ok), append-mode
\* logs, and no file of an earlier launch is removed.
Launch ==
    /\ pc \in {"dead", "exited"}
    /\ launches < MaxLaunches
    /\ launches' = launches + 1
    /\ pc' = "start"
    /\ job' = 1
    /\ statuses' = <<>>
    /\ exit' = "none"
    /\ size' = 0
    /\ pos' = 0
    /\ outcome' = NoOutcome
    /\ llmTotal' = 0
    /\ UNCHANGED files

\* The process is killed: memory is gone, the files stay as they are, except
\* that the one write_text was about to replace may be left torn (a summary.json
\* cut short says no more than none).
Kill ==
    /\ pc \notin {"dead", "exited"}
    /\ launches < MaxLaunches
    /\ pc' = "dead"
    /\ \/ UNCHANGED <<final, grading, summary>>
       \/ /\ pc = "writeFinal"
          /\ final' = [final EXCEPT ![job] = "torn"]
          /\ UNCHANGED <<grading, summary>>
       \/ /\ pc = "returned"
          /\ grading' = [grading EXCEPT ![job] = "torn"]
          /\ UNCHANGED <<final, summary>>
       \/ /\ pc = "summarise"
          /\ summary' = <<>>
          /\ UNCHANGED <<final, grading>>
    /\ UNCHANGED <<launches, memory, exit, log, feed, console>>

\* An exception leaves main: of the planner, of a plan or step that lacks a key,
\* of the executor, or, with --grade, of the grader, which reads keys its answer
\* may lack outside its try, after the last run as after any.  The streams are
\* closed, nothing is written, and the traceback exits with 1 as a failed run does.
Raise ==
    /\ pc \in {"plan", "announce", "next", "execute", "returned"}
    /\ pc' = "exited"
    /\ exit' = "1"
    /\ UNCHANGED <<launches, memory, files>>

\* With --grade, grading.json records the grader's verdict (one whose call failed
\* blocks nothing); without it, a file of an earlier launch stays.
Grade ==
    /\ pc = "returned"
    /\ \E verdict \in {grading[job], "clear", "blocked"} :
          grading' = [grading EXCEPT ![job] = verdict]
    /\ statuses' = Append(statuses, outcome.status)
    /\ IF job < NJobs
       THEN job' = job + 1 /\ pc' = "start"
       ELSE pc' = "summarise" /\ UNCHANGED job
    /\ UNCHANGED <<launches, size, pos, outcome, llmTotal, exit, log, feed,
                   console, final, summary>>

\* Fault: one run that passed makes the benchmark pass.
SummariseAny ==
    /\ pc = "summarise"
    /\ summary' = statuses
    /\ exit' = IF \E j \in Jobs : statuses[j] = "ok" THEN "0" ELSE "1"
    /\ pc' = "exited"
    /\ UNCHANGED <<launches, memory, log, feed, console, final, grading>>

\* summary.json, then the exit code: 0 iff no run of this launch failed.
Summarise ==
    /\ pc = "summarise"
    /\ summary' = statuses
    /\ exit' = IF \A j \in Jobs : statuses[j] = "ok" THEN "0" ELSE "1"
    /\ pc' = "exited"
    /\ UNCHANGED <<launches, memory, log, feed, console, final, grading>>

-----------------------------------------------------------------------------
(* run_one                                                                 *)

StartRun ==
    /\ pc = "start"
    /\ ConsoleLine([ev |-> "run.start"])
    /\ pc' = "plan"
    /\ UNCHANGED <<launches, memory, exit, log, feed, final, grading, summary>>

\* Fault: the counters are set up once per launch.
EmitPlanWithoutReset ==
    /\ pc = "plan"
    /\ size' \in 0..MaxSteps
    /\ pos' = 1
    /\ LogLine([ev |-> "plan_emitted"])
    /\ pc' = "announce"
    /\ UNCHANGED <<launches, job, outcome, llmTotal, statuses, exit, feed, console,
                   final, grading, summary>>

\* plan.json and the plan_emitted line.
EmitPlan ==
    /\ pc = "plan"
    /\ size' \in 0..MaxSteps
    /\ pos' = 1
    /\ llmTotal' = 0
    /\ LogLine([ev |-> "plan_emitted"])
    /\ pc' = "announce"
    /\ UNCHANGED <<launches, job, outcome, statuses, exit, feed, console, final,
                   grading, summary>>

Announce ==
    /\ pc = "announce"
    /\ FeedLine([ev |-> "crew_start"])
    /\ ConsoleLine([ev |-> "plan.created"])
    /\ pc' = "next"
    /\ UNCHANGED <<launches, memory, exit, log, final, grading, summary>>

OpenStep ==
    /\ pc = "next"
    /\ pos <= size
    /\ FeedLine([ev |-> "task_open", step |-> pos])
    /\ ConsoleLine([ev |-> "step.start"])
    /\ pc' = "execute"
    /\ UNCHANGED <<launches, memory, exit, log, final, grading, summary>>

\* Fault: only an ok step is recorded in run.log.
FinishStepUnlogged ==
    /\ pc = "execute"
    /\ outcome' \in Outcomes
    /\ IF outcome'.status = "ok"
       THEN LogLine([ev |-> "step_done", step |-> pos, status |-> "ok",
                     llm |-> outcome'.llm])
       ELSE UNCHANGED log
    /\ llmTotal' = llmTotal + outcome'.llm
    /\ pc' = "report"
    /\ UNCHANGED <<launches, job, size, pos, statuses, exit, feed, console, final,
                   grading, summary>>

\* The executor returns; run.log gets its line first.
FinishStep ==
    /\ pc = "execute"
    /\ outcome' \in Outcomes
    /\ LogLine([ev |-> "step_done", step |-> pos, status |-> outcome'.status,
                llm |-> outcome'.llm])
    /\ llmTotal' = llmTotal + outcome'.llm
    /\ pc' = "report"
    /\ UNCHANGED <<launches, job, size, pos, statuses, exit, feed, console, final,
                   grading, summary>>

\* Fault: a failed step's task is left open on the feed.
ReportFeedOfOk ==
    /\ pc = "report"
    /\ IF outcome.status = "ok"
       THEN FeedLine([ev |-> "task_end", step |-> pos, status |-> "ok"])
       ELSE UNCHANGED feed
    /\ pc' = "reportConsole"
    /\ UNCHANGED <<launches, memory, exit, log, console, final, grading, summary>>

\* Then the feed, then the console.
ReportFeed ==
    /\ pc = "report"
    /\ FeedLine([ev |-> "task_end", step |-> pos,
                 status |-> IF outcome.status = "ok" THEN "ok" ELSE "error"])
    /\ pc' = "reportConsole"
    /\ UNCHANGED <<launches, memory, exit, log, console, final, grading, summary>>

\* Fault: a failed step does not end the run.
ReportConsoleAndGoOn ==
    /\ pc = "reportConsole"
    /\ ConsoleLine([ev |-> IF outcome.status = "ok" THEN "step.complete"
                                                   ELSE "step.failed"])
    /\ pos' = pos + 1
    /\ pc' = "next"
    /\ UNCHANGED <<launches, job, size, outcome, llmTotal, statuses, exit, log,
                   feed, final, grading, summary>>

\* An ok step hands its output on; the first failed one ends the run.
ReportConsole ==
    /\ pc = "reportConsole"
    /\ \/ /\ outcome.status = "ok"
          /\ ConsoleLine([ev |-> "step.complete"])
          /\ pos' = pos + 1
          /\ pc' = "next"
       \/ /\ outcome.status = "failed"
          /\ ConsoleLine([ev |-> "step.failed"])
          /\ pc' = "closing"
          /\ UNCHANGED pos
    /\ UNCHANGED <<launches, job, size, outcome, llmTotal, statuses, exit, log,
                   feed, final, grading, summary>>

RunOutOfSteps ==
    /\ pc = "next"
    /\ pos > size
    /\ outcome' = NoOutcome
    /\ pc' = "closing"
    /\ UNCHANGED <<launches, job, size, pos, llmTotal, statuses, exit, files>>

\* crew_end and run.complete go out before final_output.json is written.
CloseStreams ==
    /\ pc = "closing"
    /\ FeedLine([ev |-> "crew_end", status |-> outcome.status])
    /\ ConsoleLine([ev |-> "run.complete", llm |-> llmTotal,
                    steps |-> IF outcome.status = "ok" THEN size ELSE pos])
    /\ pc' = "writeFinal"
    /\ UNCHANGED <<launches, memory, exit, log, final, grading, summary>>

\* Written for a failed run too: {"status": "failed"}.
WriteFinal ==
    /\ pc = "writeFinal"
    /\ final' = [final EXCEPT ![job] = outcome.status]
    /\ pc' = "returned"
    /\ UNCHANGED <<launches, memory, exit, log, feed, console, grading, summary>>

-----------------------------------------------------------------------------
Run == StartRun \/ EmitPlan \/ Announce \/ OpenStep \/ FinishStep \/ ReportFeed
       \/ ReportConsole \/ RunOutOfSteps \/ CloseStreams \/ WriteFinal

Work == Run \/ Raise \/ Grade \/ Summarise

Next == Launch \/ Kill \/ Work

\* One thread works until the process ends; nobody has to launch or kill it.
Spec == Init /\ [][Next]_vars /\ WF_vars(Work)

-----------------------------------------------------------------------------
(* Properties                                                              *)

\* Every variable stays in its range.
TypeOK ==
    /\ pc \in {"dead", "start", "plan", "announce", "next", "execute", "report",
               "reportConsole", "closing", "writeFinal", "returned", "summarise",
               "exited"}
    /\ launches \in 0..MaxLaunches
    /\ job \in Jobs
    /\ size \in 0..MaxSteps
    /\ pos \in 0..(size + 1)
    /\ outcome \in [status : {"ok", "failed"}, llm : StepCalls \cup {0}]
    /\ llmTotal \in Nat
    /\ statuses \in BoundedSeq({"ok", "failed"}, NJobs)
    /\ exit \in {"none", "0", "1"}
    /\ \A j \in Jobs : /\ ToSet(log[j]) \subseteq LogLines
                       /\ \A i \in DOMAIN console[j] : console[j][i] \in ConsoleLines
    /\ ToSet(feed) \subseteq FeedLines
    /\ final \in [Jobs -> FinalFiles]
    /\ grading \in [Jobs -> Gradings]
    /\ summary \in BoundedSeq({"ok", "failed"}, NJobs)

\* A failed step ends its run: in run.log nothing follows it but the plan of a
\* later launch, and the steps of a run appear in order, none twice (L300-307).
\* diff_runs.py compares the last record of each step and relies on it.
LogStopsAtFailure ==
    \A j \in Jobs : \A i \in 2..Len(log[j]) :
        LET line == log[j][i]
            prev == log[j][i - 1]
        IN line.ev = "step_done" =>
               line.step = IF prev.ev = "plan_emitted" THEN 1
                           ELSE IF prev.status = "ok" THEN prev.step + 1 ELSE 0

\* What may follow what on the control-surface feed: each task ends before the
\* next opens, crew_end says how the last one did, crew_start may cut a run off.
FollowsOnFeed(prev, line) ==
    \/ line.ev = "crew_start"
    \/ line.ev = "task_open" /\ prev.ev = "crew_start" /\ line.step = 1
    \/ line.ev = "task_open" /\ prev.ev = "task_end"
           /\ prev.status = "ok" /\ line.step = prev.step + 1
    \/ line.ev = "task_end" /\ prev.ev = "task_open" /\ line.step = prev.step
    \/ line.ev = "crew_end" /\ line.status = "ok" /\ prev.ev = "crew_start"
    \/ line.ev = "crew_end" /\ prev.ev = "task_end"
           /\ line.status = IF prev.status = "ok" THEN "ok" ELSE "failed"

\* A crew never ends with a task open and no task is reported twice, whatever
\* was killed before: only a crew_start may follow an interrupted run (L220-311).
FeedWellBracketed ==
    /\ feed # <<>> => feed[1].ev = "crew_start"
    /\ \A i \in 2..Len(feed) : FollowsOnFeed(feed[i - 1], feed[i])

\* The places of the lines of s that say one of evs.
LinesOf(evs, s) == {i \in DOMAIN s : s[i].ev \in evs}

\* The step_done lines of all run directories.
Records == UNION {{j} \X LinesOf({"step_done"}, log[j]) : j \in Jobs}

\* run.log is written first (L247-299): no stream ever reports a step whose
\* record run.log lacks, and each kill costs a stream at most one report.
LogLeadsStreams ==
    /\ \A j \in Jobs :
          LET recorded == Cardinality(LinesOf({"step_done"}, log[j]))
              shown == Cardinality(LinesOf({"step.complete", "step.failed"}, console[j]))
          IN shown <= recorded /\ recorded <= shown + launches
    /\ LET recorded == Cardinality(Records)
           shown == Cardinality(LinesOf({"task_end"}, feed))
       IN shown <= recorded /\ recorded <= shown + launches

\* The lines after the last plan_emitted: the run under way.
ThisRun(s) == SubSeq(s, SelectLastInSeq(s, LAMBDA line : line.ev = "plan_emitted") + 1,
                     Len(s))

\* When run_one returns, its readers agree: final_output.json, the crew_end of
\* the feed and run.log say the same of the run, and the totals of run.complete
\* are those of the run.log lines of this launch alone (L299-316, L319-332).
RecordsAgree ==
    pc = "returned" =>
        LET run == ThisRun(log[job])
            ok == {i \in DOMAIN run : run[i].status = "ok"}
            report == Last(console[job])
        IN /\ final[job] = IF ok = 1..size THEN "ok" ELSE "failed"
           /\ final[job] = "failed" => Last(run).status = "failed"
           /\ Last(feed) = [ev |-> "crew_end", status |-> final[job]]
           /\ report.ev = "run.complete"
           /\ report.steps = Len(run)
           /\ report.llm = SumFunction([i \in DOMAIN run |-> run[i].llm])

\* Exit code 0 means that every run of this launch succeeded and that summary.json
\* and every run directory say so, whatever an earlier launch had left there.  Exit
\* code 1 means less: an exception exits with it too, over whatever summary.json was
\* there.  Only where the launch got through its runs does it tell a failed one,
\* which summary.json and the run directories then agree on (L431-450).
ExitCodeHonest ==
    exit = "0" \/ (exit = "1" /\ Len(statuses) = NJobs) =>
        /\ exit = "0" <=> \A j \in Jobs : final[j] = "ok"
        /\ \A j \in Jobs : summary[j] = final[j]

\* A failed step always ends up in final_output.json, through the two streams
\* that are written before it; only a kill can keep it from the disk (L280-307).
FailureReachesDisk ==
    \A j \in Jobs :
        pc = "report" /\ job = j /\ outcome.status = "failed"
            ~> final[j] = "failed" \/ pc = "dead"

\* Whatever is killed or raises, a launch ends its runs in order, the feed before
\* the disk and both alike, nothing but a kill comes between the two, and exit code
\* 0 and a whole summary.json claim only what the directories hold: the orchestrator
\* implements its contract (L302-316, L407-450).
Contract == INSTANCE BenchmarkContract WITH
    running <- pc \notin {"dead", "exited"},
    ended <- IF pc \in {"dead", "exited"} THEN 0
             ELSE IF pc = "returned" THEN job ELSE Len(statuses),
    announced <- IF pc = "writeFinal" THEN Last(feed).status ELSE "none",
    verdicts <- final

KeepsContract == Contract!Spec
=============================================================================
