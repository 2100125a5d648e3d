------------------------------ MODULE RunReports ------------------------------
(***************************************************************************)
(* The readers of run directories: scripts/diff_runs.py compares two of    *)
(* them, scripts/aggregate.py rolls up and compares benchmarks, and        *)
(* dashboard/bridge.py draws a comparison as an overlay of the console.    *)
(* They are pure functions of files; what makes them hard is what the      *)
(* files hold.  So the candidate's directory is written as benchmark.py    *)
(* writes it, killed and launched again over what it left, and the readers *)
(* are evaluated against a finished baseline in every state.               *)
(*                                                                         *)
(* Steps and expectations are numbered, in the order the code sorts them.  *)
(* A step's calls are its llm_calls; tool calls and tokens are added up by *)
(* the same rules.  `ms` stands for duration_ms and latency_ms.            *)
(*                                                                         *)
(* A grading is what the model answered and grader.py passes on unchecked: *)
(* results for some of the expectations, some marked as blockers, and      *)
(* beside them a pass rate (in percent) and whether a blocker failed.      *)
(***************************************************************************)
EXTENDS ConsoleFeed, Integers, FiniteSets, Functions

CONSTANTS
    Plans,          \* what the planner may answer: [goal, steps], a step [owner, type]
    Results,        \* what a step may report
    Outputs,        \* what the final typed output may be
    Gradings,       \* what grading.json may say: [verdict, blockers, rate, blockerFailed]
    TypeOf,         \* the output type an expectation begins with
    Baselines,      \* bound: the directories to compare with
    MaxLaunches     \* bound: times the candidate is launched

Unknown == -1       \* cost_usd of None
Verdicts == {"PASS", "FAIL", "INCONCLUSIVE"}
Expectations == DOMAIN TypeOf

NoPlan == [goal |-> "", steps |-> <<>>]
FailedOutput == [failed |-> TRUE, valid |-> "invalid", stable |-> 0]

\* A step_done line, and what benchmark.py keeps of the step in memory.
StepDone(step, r) ==
    [step |-> step, status |-> r.status, criteria |-> r.criteria, calls |-> r.calls,
     ms |-> r.ms, fp |-> r.fp, route |-> r.route, cost |-> r.cost]
Telemetry(owner, r) ==
    [agent |-> owner, status |-> r.status, calls |-> r.calls, ms |-> r.ms,
     route |-> r.route, cost |-> r.cost]

StepLines == {StepDone(step, r) : step \in UNION {DOMAIN p.steps : p \in Plans}, r \in Results}
Telemetries == [agent : STRING, status : {"ok", "failed"}, calls : Nat, ms : Nat,
                route : STRING, cost : Nat \cup {Unknown}]

\* Run directories; a file that is absent, or torn, is <<>>.  A torn plan reads like
\* none to all.
Directories ==
    {d \in [plan : Plans \cup {NoPlan}, log : Seq(StepLines),
            final : {<<>>} \cup {<<o>> : o \in Outputs \cup {FailedOutput}},
            grading : {<<>>} \cup {<<g>> : g \in Gradings},
            torn : SUBSET {"final", "grading"}] :
        ("final" \in d.torn => d.final = <<>>) /\ ("grading" \in d.torn => d.grading = <<>>)}

ASSUME RunReportsAssumption ==
    /\ \A p \in Plans :
        p.goal # "" /\ p \in [goal : STRING, steps : Seq([owner : STRING, type : STRING])]
    /\ \A r \in Results :
        r \in [status : {"ok", "failed"}, criteria : [DOMAIN r.criteria -> BOOLEAN],
              calls : Nat, ms : Nat, fp : STRING, route : STRING, cost : Nat \cup {Unknown}]
    /\ Outputs \subseteq [failed : {FALSE}, valid : {"valid", "invalid", "none"}, stable : Nat]
    /\ TypeOf \in Seq(STRING)
    /\ \A g \in Gradings :
        /\ g \in [verdict : [DOMAIN g.verdict -> Verdicts], blockers : SUBSET DOMAIN g.verdict,
                 rate : Nat, blockerFailed : BOOLEAN]
        /\ DOMAIN g.verdict \subseteq Expectations
    /\ Baselines \subseteq Directories
    /\ MaxLaunches \in Nat
    /\ "(grading)" \notin Stations

VARIABLES
    baseline,   \* a run directory
    candidate,  \* the other one
    stage,      \* where the benchmark that writes the candidate is
    launches,
    launched,   \* all_steps of this launch
    summary     \* the routing block of the candidate's summary.json, <<>> if none is whole

vars == <<baseline, candidate, stage, launches, launched, summary>>

-----------------------------------------------------------------------------
(* Run directories                                                         *)

EmptyDirectory ==
    [plan |-> NoPlan, log |-> <<>>, final |-> <<>>, grading |-> <<>>, torn |-> {}]

\* A directory that one launch has finished.
Finished(plan, results, output, grading) ==
    [plan |-> plan, log |-> [i \in DOMAIN results |-> StepDone(i, results[i])],
     final |-> <<output>>, grading |-> grading, torn |-> {}]

Recorded(d) == {d.log[i].step : i \in DOMAIN d.log}

\* Fault: the first step_done line of a step wins.
StepOfFirst(d, step) == d.log[SelectInSeq(d.log, LAMBDA l : l.step = step)]

\* _parse_run_log: the last step_done line of a step wins.
StepOf(d, step) == d.log[SelectLastInSeq(d.log, LAMBDA l : l.step = step)]

\* A field of some lines, added up.
Total(lines, field) == SumFunction([p \in DOMAIN lines |-> lines[p][field]])

\* Run.totals adds up one record per step.
TotalCalls(d) == Total([step \in Recorded(d) |-> StepOf(d, step)], "calls")

FinalType(d) == IF d.plan.steps = <<>> THEN "" ELSE Last(d.plan.steps).type
RunFailed(d) == d.final # <<>> /\ d.final[1].failed
BlockerFailed(d) == d.grading # <<>> /\ d.grading[1].blockerFailed

-----------------------------------------------------------------------------
(* diff_runs                                                               *)

Flag(kind, severity, holds) == IF holds THEN {[kind |-> kind, severity |-> severity]} ELSE {}

\* Fault: a step that failed in both runs is a regression too.
SignalsOfAnyFailure(b, c) == Flag("step_failed", "regression", c.status # "ok")

\* What is said of a step that both runs recorded.
Signals(b, c) ==
    LET both == DOMAIN b.criteria \cap DOMAIN c.criteria
        slower == c.ms - b.ms
    IN Flag("step_failed", "regression", b.status = "ok" /\ c.status # "ok")
       \cup Flag("criterion_failed", "regression",
                 \E x \in both : b.criteria[x] /\ ~c.criteria[x])
       \cup Flag("criterion_fixed", "info", \E x \in both : ~b.criteria[x] /\ c.criteria[x])
       \cup Flag("calls_increase", "warning", c.calls > b.calls)
       \cup Flag("latency_increase", "warning",
                 slower > 250 /\ 4 * slower > (IF b.ms = 0 THEN 1 ELSE b.ms))
       \cup Flag("config_changed", "info", c.fp # b.fp)

\* The severity of a set of signals, and the verdict on a list of diffs, are the
\* first of these that occurs.
Worst(severities, otherwise) ==
    IF "regression" \in severities THEN "regression"
    ELSE IF "warning" \in severities THEN "warning"
    ELSE IF "inconclusive" \in severities THEN "inconclusive" ELSE otherwise

AgentDiff(agent, signals) ==
    IF signals = {} THEN <<>>
    ELSE <<[agent |-> agent, signals |-> signals,
            severity |-> Worst({s.severity : s \in signals}, "info")]>>

\* type_to_agent: the last step that has the type, of the candidate first.
OwnerOf(b, c, type, otherwise) ==
    LET steps == b.plan.steps \o c.plan.steps
        i == SelectLastInSeq(steps, LAMBDA s : s.type = type)
    IN IF i = 0 THEN otherwise ELSE steps[i].owner

\* A step that neither plan has goes by its id.
AgentOf(b, c, step) ==
    IF step \in DOMAIN c.plan.steps THEN c.plan.steps[step].owner
    ELSE IF step \in DOMAIN b.plan.steps THEN b.plan.steps[step].owner ELSE "(step)"

StepDiffs(b, c) ==
    FlattenSeq([step \in 1..Max(Recorded(b) \cup Recorded(c) \cup {0}) |->
        IF step \in Recorded(b) \cap Recorded(c)
        THEN AgentDiff(AgentOf(b, c, step), Signals(StepOf(b, step), StepOf(c, step)))
        ELSE <<>>])

\* The final output's schema and its stable fields (0 where it has none), and
\* the run as a whole.
OutputDiffs(b, c) ==
    LET owner == OwnerOf(b, c, FinalType(c), "(final_output)")
        both == b.final # <<>> /\ c.final # <<>>
    IN AgentDiff(owner, Flag("schema_invalid", "regression",
                             both /\ b.final[1].valid = "valid"
                                  /\ c.final[1].valid = "invalid"))
       \o AgentDiff(owner, Flag("stable_field_changed", "warning",
                                both /\ 0 \notin {b.final[1].stable, c.final[1].stable}
                                     /\ b.final[1].stable # c.final[1].stable))
       \o AgentDiff("(run)", Flag("run_failed", "regression", ~RunFailed(b) /\ RunFailed(c)))

\* Both gradings have a result for it.
Lost(b, c, e) ==
    LET before == b.grading[1].verdict
        after == c.grading[1].verdict
    IN e \in DOMAIN before \cap DOMAIN after /\ before[e] = "PASS" /\ after[e] = "FAIL"

GradingDiffs(b, c) ==
    IF b.grading # <<>> /\ c.grading # <<>>
    THEN FlattenSeq([e \in Expectations |->
            AgentDiff(OwnerOf(b, c, TypeOf[e], "(grading)"),
                      Flag(IF e \in c.grading[1].blockers THEN "blocker_failed"
                           ELSE "expectation_failed", "regression", Lost(b, c, e)))])
    ELSE AgentDiff("(grading)", Flag("grading_missing", "inconclusive",
                                     b.grading # <<>> \/ c.grading # <<>>))

\* new_blocker_failures: one for what the graders say of the run, and one for every
\* expectation lost that the candidate's calls a blocker.
NewBlockerFailures(b, c) ==
    IF b.grading = <<>> \/ c.grading = <<>> THEN 0
    ELSE (IF ~BlockerFailed(b) /\ BlockerFailed(c) THEN 1 ELSE 0)
         + Cardinality({e \in c.grading[1].blockers : Lost(b, c, e)})

Comparable(b, c) == "" \in {b.plan.goal, c.plan.goal} \/ b.plan.goal = c.plan.goal

DiffRuns(b, c) ==
    LET diffs == StepDiffs(b, c) \o OutputDiffs(b, c) \o GradingDiffs(b, c)
    IN IF ~Comparable(b, c)
       THEN [verdict |-> "inconclusive", diffs |-> <<>>, newBlockers |-> 0, moreCalls |-> 0]
       ELSE [verdict |-> Worst({diffs[i].severity : i \in DOMAIN diffs}, "pass"),
             diffs |-> diffs,
             newBlockers |-> NewBlockerFailures(b, c),
             moreCalls |-> TotalCalls(c) - TotalCalls(b)]

\* main: --fail-on names the least severe verdict that fails the build.
Thresholds == {"regression", "warning", "inconclusive"}
ExitCode(verdict, failOn) ==
    CASE verdict = "regression" -> 1
      [] verdict = "warning" /\ failOn # "regression" -> 1
      [] verdict = "inconclusive" /\ failOn = "inconclusive" -> 2
      [] OTHER -> 0

-----------------------------------------------------------------------------
(* The overlay                                                             *)

\* Fault: a station is only told when the run regressed as a whole.
OverlayOneVoiced(d) ==
    Emit(NewRunState, <<Snapshot, Log>> \o
         FlattenSeq([i \in DOMAIN d.diffs |->
             IF d.diffs[i].severity = "info" THEN <<Log>>
             ELSE <<Env("alert.raised", {}, "warning", <<>>), Log>>]), 0).out

\* diff_to_envelopes: every flagged agent raises an alert, at its station if it
\* has one, whose state then tells the severity, at rev 1.
Overlay(d) ==
    LET ofAgent(diff) ==
            LET at == {diff.agent} \cap Stations
                hard == diff.severity = "regression"
            IN IF diff.severity = "info" THEN <<Log>>
               ELSE <<Env("alert.raised", at, IF hard THEN "critical" ELSE "warning", <<>>)>>
                    \o (IF at = {} THEN <<>>
                        ELSE <<Env("station.updated", at, IF hard THEN "drain" ELSE "busy",
                                   <<1>>)>>)
                    \o <<Log>>
    IN Emit(NewRunState, <<Snapshot, Log>> \o
            FlattenSeq([i \in DOMAIN d.diffs |-> ofAgent(d.diffs[i])]), 0).out

\* The console's incidents, and its pushNodeAlert: one ring per station, the last
\* alert's.
Alerts(envelopes) == {e \in ToSet(envelopes) : e.type = "alert.raised"}
Ring(envelopes, s) ==
    LET last == SelectLastInSeq(envelopes, LAMBDA e : e.type = "alert.raised" /\ e.at = {s})
    IN IF last = 0 THEN "none" ELSE envelopes[last].state

-----------------------------------------------------------------------------
(* aggregate.py                                                            *)

\* collect_runs reads every grading.json, and raises if one is torn.
Collects(runs) == \A i \in DOMAIN runs : "grading" \notin runs[i].torn

\* That final_output.json exists, and _passing.
Completed(d) == d.final # <<>> \/ "final" \in d.torn
Passing(d) == Completed(d) /\ ~BlockerFailed(d)

\* A total is None as soon as one cost is not known.
Cost(lines) == IF \E p \in DOMAIN lines : lines[p].cost = Unknown THEN Unknown
               ELSE Total(lines, "cost")

\* _sum_steps, and routing_summary for one agent.
SumSteps(lines) == [steps |-> Cardinality(DOMAIN lines), calls |-> Total(lines, "calls"),
                    ms |-> Total(lines, "ms"), cost |-> Cost(lines)]

\* The lines of some of the runs, each at its run and place; every step_done line
\* counts, whichever launch wrote it.
LinesOf(runs, picked) ==
    [p \in UNION {{i} \X DOMAIN runs[i].log : i \in picked} |-> runs[p[1]].log[p[2]]]
OfRoute(lines, r) == RestrictValues(lines, LAMBDA l : l.route = r)
Routes(lines) == {lines[p].route : p \in DOMAIN lines} \ {""}

\* routing_rollup: per run, over the passing ones, and by provider and model.
RoutingRollup(runs) ==
    LET lines == LinesOf(runs, DOMAIN runs)
        byRoute(r) ==
            LET users == {i \in DOMAIN runs : r \in Routes(runs[i].log)}
            IN [sums |-> SumSteps(OfRoute(lines, r)),
                runs |-> Cardinality(users),
                graded |-> Cardinality({i \in users : runs[i].grading # <<>>}),
                blockerFails |-> Cardinality({i \in users : BlockerFailed(runs[i])})]
    IN [perRun |-> [i \in DOMAIN runs |-> SumSteps(runs[i].log)],
        passing |-> SumSteps(LinesOf(runs, {i \in DOMAIN runs : Passing(runs[i])})),
        byRoute |-> [r \in Routes(lines) |-> byRoute(r)]]

\* benchmark.py's routing_summary: by agent, over the steps of one launch.
RoutingSummary(steps) ==
    [a \in {steps[i].agent : i \in DOMAIN steps} |->
        SumSteps(RestrictValues(steps, LAMBDA s : s.agent = a))]

\* routing_deltas: the agents whose mean latency rose by more than 20% and 50 ms.
\* Rows are by agent, and the means per step are compared crosswise, unrounded.
SlowerAgents(a, b) ==
    {x \in DOMAIN a \cap DOMAIN b :
        LET rise == b[x].ms * a[x].steps - a[x].ms * b[x].steps
        IN /\ a[x].ms > 0
           /\ 5 * rise > a[x].ms * b[x].steps
           /\ rise > 50 * a[x].steps * b[x].steps}

\* report_benchmark of one run: its pass rate, and compare of two such benchmarks.
PassRate(d) == d.grading[1].rate
Compare(b, c) ==
    IF ~Collects(<<b, c>>) THEN "raises"
    ELSE IF b.grading = <<>> \/ c.grading = <<>> THEN "tie"
    ELSE IF PassRate(c) > PassRate(b) THEN "win"
    ELSE IF PassRate(c) < PassRate(b) THEN "loss" ELSE "tie"

-----------------------------------------------------------------------------
(* benchmark.py, as far as it writes the candidate's directory             *)

Init ==
    /\ baseline \in Baselines
    /\ candidate = EmptyDirectory
    /\ stage = "never" /\ launches = 0 /\ launched = <<>>
    /\ summary = <<>>

\* Fault: the steps of the launch before are still in memory.
LaunchKeepingSteps ==
    /\ stage \in {"never", "dead", "done"} /\ launches < MaxLaunches
    /\ stage' = "plan" /\ launches' = launches + 1
    /\ UNCHANGED <<baseline, candidate, launched, summary>>

\* The directory is used again, with all that is in it.
Launch ==
    /\ stage \in {"never", "dead", "done"} /\ launches < MaxLaunches
    /\ stage' = "plan" /\ launches' = launches + 1 /\ launched' = <<>>
    /\ UNCHANGED <<baseline, candidate, summary>>

WritePlan(plan) ==
    /\ stage = "plan"
    /\ candidate' = [candidate EXCEPT !.plan = plan]
    /\ stage' = "steps"
    /\ UNCHANGED <<baseline, launches, launched, summary>>

StepFailed == launched # <<>> /\ Last(launched).status = "failed"
StepsDone == StepFailed \/ Len(launched) = Len(candidate.plan.steps)

RunStep(result) ==
    LET steps == candidate.plan.steps
        next == Len(launched) + 1
    IN /\ stage = "steps" /\ ~StepFailed /\ next \in DOMAIN steps
       /\ candidate' = [candidate EXCEPT !.log = Append(@, StepDone(next, result))]
       /\ launched' = Append(launched, Telemetry(steps[next].owner, result))
       /\ UNCHANGED <<baseline, stage, launches, summary>>

WriteFinal(output) ==
    /\ stage = "steps" /\ StepsDone
    /\ output = FailedOutput <=> StepFailed
    /\ candidate' = [candidate EXCEPT !.final = <<output>>, !.torn = @ \ {"final"}]
    /\ stage' = "final"
    /\ UNCHANGED <<baseline, launches, launched, summary>>

\* --grade.
Grade(grading) ==
    /\ stage = "final"
    /\ candidate' = [candidate EXCEPT !.grading = <<grading>>, !.torn = @ \ {"grading"}]
    /\ stage' = "graded"
    /\ UNCHANGED <<baseline, launches, launched, summary>>

Summarise ==
    /\ stage \in {"final", "graded"}
    /\ summary' = <<RoutingSummary(launched)>>
    /\ stage' = "done"
    /\ UNCHANGED <<baseline, candidate, launches, launched>>

\* Between two writes, or by an exception of the planner, a step or the grader.
Kill ==
    /\ stage \in {"plan", "steps", "final", "graded"}
    /\ stage' = "dead"
    /\ UNCHANGED <<baseline, candidate, launches, launched, summary>>

\* In the middle of one: write_text truncates its file and then writes, and what it
\* leaves is no JSON.
KillWriting ==
    LET plan == [candidate EXCEPT !.plan = NoPlan]
        final == [candidate EXCEPT !.final = <<>>, !.torn = @ \cup {"final"}]
        grading == [candidate EXCEPT !.grading = <<>>, !.torn = @ \cup {"grading"}]
    IN /\ \/ stage = "plan" /\ candidate' = plan /\ UNCHANGED summary
          \/ stage = "steps" /\ StepsDone /\ candidate' = final /\ UNCHANGED summary
          \/ stage = "final" /\ candidate' = grading /\ UNCHANGED summary
          \/ stage \in {"final", "graded"} /\ summary' = <<>> /\ UNCHANGED candidate
       /\ stage' = "dead"
       /\ UNCHANGED <<baseline, launches, launched>>

Next ==
    \/ Launch
    \/ \E plan \in Plans : WritePlan(plan)
    \/ \E result \in Results : RunStep(result)
    \/ \E output \in Outputs \cup {FailedOutput} : WriteFinal(output)
    \/ \E grading \in Gradings : Grade(grading)
    \/ Summarise \/ Kill \/ KillWriting

Spec == Init /\ [][Next]_vars

-----------------------------------------------------------------------------
(* Properties                                                              *)

\* Every variable stays in its range.
TypeOK ==
    /\ baseline \in Baselines
    /\ candidate \in Directories
    /\ stage \in {"never", "plan", "steps", "final", "graded", "done", "dead"}
    /\ launches \in 0..MaxLaunches
    /\ launched \in Seq(Telemetries) /\ Len(launched) <= Len(candidate.plan.steps)
    /\ stage = "plan" => launched = <<>>
    /\ Len(summary) <= 1

\* A directory without what is soft: calls, latency, configuration and content.
Soft(d) ==
    [d EXCEPT !.log = [i \in DOMAIN @ |-> [@[i] EXCEPT !.calls = 0, !.ms = 0, !.fp = ""]],
              !.final = [i \in DOMAIN @ |-> [@[i] EXCEPT !.stable = 0]]]

\* What the grader's prompt asks for: blockerFailed if a blocker has FAIL, and the
\* rate is that of PASS among the results.
FollowsPrompt(g) ==
    /\ g.blockerFailed <=> \E e \in g.blockers : g.verdict[e] = "FAIL"
    /\ g.rate * Cardinality(DOMAIN g.verdict)
           = 100 * Cardinality({e \in DOMAIN g.verdict : g.verdict[e] = "PASS"})
    /\ DOMAIN g.verdict # {}

\* Both graders do, for the same expectations.
AlikeGraded(b, c) ==
    /\ b.grading # <<>> /\ c.grading # <<>>
    /\ FollowsPrompt(b.grading[1]) /\ FollowsPrompt(c.grading[1])
    /\ DOMAIN b.grading[1].verdict = DOMAIN c.grading[1].verdict

Undecided(d) == "INCONCLUSIVE" \in Range(d.grading[1].verdict)

\* docs/ROADMAP.md:67-82 and 222-228: whatever launches and kills have left in a
\* directory, it never differs from itself and passes under any --fail-on; cost,
\* latency, configuration and content never make or hide a regression; and new
\* blocker failures are one if there are two of them, or if both runs were graded as
\* the prompt asks, for the same blockers, and the baseline's grader decided every
\* expectation.  A single one may be the candidate's grader's word alone, or an
\* INCONCLUSIVE blocker that becomes a FAIL: it is counted and passes.
HardLossesOnly ==
    LET d == DiffRuns(baseline, candidate)
    IN /\ \A r \in {baseline, candidate} :
            LET self == DiffRuns(r, r)
            IN self.diffs = <<>> /\ \A t \in Thresholds : ExitCode(self.verdict, t) = 0
       /\ d.verdict = "regression" <=>
              DiffRuns(Soft(baseline), Soft(candidate)).verdict = "regression"
       /\ \/ d.newBlockers > 1
          \/ /\ d.newBlockers > 0
             /\ AlikeGraded(baseline, candidate) /\ ~Undecided(baseline)
             /\ baseline.grading[1].blockers = candidate.grading[1].blockers
          => \A t \in Thresholds : ExitCode(d.verdict, t) = 1

Slower == [kind |-> "latency_increase", severity |-> "warning"]

\* The log is that of one launch, and the agent runs one step of the plan.
OneLaunch(d) == \A i \in DOMAIN d.log : d.log[i].step = i /\ i \in DOMAIN d.plan.steps
HasOneStep(plan, agent) ==
    \E i \in DOMAIN plan.steps :
        \A j \in DOMAIN plan.steps : plan.steps[j].owner = agent <=> j = i

\* The summary that the baseline's launch left.
BaselineSummary ==
    RoutingSummary([i \in DOMAIN baseline.log |->
                        Telemetry(baseline.plan.steps[i].owner, baseline.log[i])])

\* The readers of one directory tell the same story of it, however often it was
\* launched.  diff_runs sees this launch's record of every step it ran.  Unless a
\* grading.json is torn, which stops aggregate.py, the rollup exceeds diff_runs' totals
\* by the lines an earlier launch left, and nothing else; the provider rows add up to
\* the routed lines, with rates over their own runs; a known cost hides no unknown
\* one; and the summary of a directory launched once is its rollup.  A run whose
\* grading is torn never passes against one that was graded.  Where compare sees a loss
\* between runs graded as the prompt asks, diff_runs sees a regression or the grader
\* could not decide.  An agent whose only step took time and is slower to diff_runs is
\* slower to compare, if both go by one clock.  A step that failed is a regression to
\* diff_runs if the baseline's succeeded, even where the kill tore final_output.json
\* and the run is neither failed to diff_runs nor unfinished to aggregate.py; and a
\* launch that a failed step ended is one if the baseline did not fail, though
\* aggregate.py takes it for passing unless a blocker failed.
ReadersAgree ==
    LET runs == <<baseline, candidate>>
        rollup == RoutingRollup(runs)
        log == candidate.log
        stale == {i \in DOMAIN log : \E j \in DOMAIN log : j > i /\ log[j].step = log[i].step}
        diffs == StepDiffs(baseline, candidate)
        verdict == DiffRuns(baseline, candidate).verdict
        last == Len(launched)
    IN /\ \A i \in DOMAIN launched :
            launched[i] = Telemetry(launched[i].agent, StepOf(candidate, i))
       /\ Collects(runs) =>
            /\ rollup.perRun[2].calls
                   = TotalCalls(candidate) + Total([i \in stale |-> log[i]], "calls")
            /\ SumFunction([r \in DOMAIN rollup.byRoute |-> rollup.byRoute[r].sums.calls])
                   = Total(RestrictValues(LinesOf(runs, {1, 2}), LAMBDA l : l.route # ""), "calls")
            /\ \A r \in DOMAIN rollup.byRoute :
                 LET row == rollup.byRoute[r]
                 IN /\ row.blockerFails <= row.graded /\ row.graded <= row.runs
                    /\ row.runs <= row.sums.steps
            /\ rollup.passing.cost # Unknown =>
                   \A d \in {baseline, candidate} : Passing(d) =>
                       \A s \in Recorded(d) : StepOf(d, s).cost # Unknown
            /\ stage = "done" /\ launches = 1 =>
                   Total(summary[1], "calls") = rollup.perRun[2].calls
       /\ ~Collects(runs) /\ Comparable(baseline, candidate) =>
              ("pass" = verdict => baseline.grading = <<>> /\ candidate.grading = <<>>)
       /\ Comparable(baseline, candidate) /\ AlikeGraded(baseline, candidate) =>
              (Compare(baseline, candidate) = "loss" =>
                   verdict = "regression" \/ Undecided(candidate))
       /\ stage = "done" /\ launches = 1 /\ candidate.plan = baseline.plan /\ OneLaunch(baseline) =>
              \A i \in DOMAIN diffs :
                  /\ Slower \in diffs[i].signals
                  /\ HasOneStep(candidate.plan, diffs[i].agent)
                  /\ BaselineSummary[diffs[i].agent].ms > 0
                  => diffs[i].agent \in SlowerAgents(BaselineSummary, summary[1])
       /\ StepFailed /\ Comparable(baseline, candidate) =>
              (last \in Recorded(baseline) /\ StepOf(baseline, last).status = "ok" =>
                   verdict = "regression")
       /\ stage \in {"final", "graded", "done"} /\ StepFailed =>
              /\ Passing(candidate) <=> ~BlockerFailed(candidate)
              /\ Comparable(baseline, candidate) /\ ~RunFailed(baseline) =>
                     verdict = "regression"

\* dashboard/README.md:123-127: the overlay raises a critical alert exactly when the
\* verdict is a regression, one of them at the station of every agent that
\* regressed, and no alert only for runs that pass or cannot be compared.  The
\* console keeps the last ring and the first state of a station, so neither need
\* show the worst of several diffs; but both light the stations that are flagged
\* and no others, and red or drained is only one whose agent has regressed.
OverlayAgrees ==
    LET d == DiffRuns(baseline, candidate)
        shown == Overlay(d)
        flagged(s, severities) ==
            \E i \in DOMAIN d.diffs : d.diffs[i].agent = s /\ d.diffs[i].severity \in severities
    IN /\ (\E e \in Alerts(shown) : e.state = "critical") <=> d.verdict = "regression"
       /\ Alerts(shown) = {} <=> d.verdict = "pass" \/ ~Comparable(baseline, candidate)
       /\ \A s \in Stations :
            LET state == Shown(shown).station[s].state
            IN /\ flagged(s, {"regression"}) =>
                      \E e \in Alerts(shown) : e.at = {s} /\ e.state = "critical"
               /\ "critical" = Ring(shown, s) \/ "drain" = state => flagged(s, {"regression"})
               /\ Ring(shown, s) = "none" <=> ~flagged(s, {"regression", "warning"})
               /\ state = "idle" <=> Ring(shown, s) = "none"
=============================================================================
