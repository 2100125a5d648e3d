# ROBOPORT in TLA+

TLA+ models of ROBOPORT's runtime: what a plan step may do with a model and its
tools, what a benchmark run records and where, how the control surface turns
those records into drones and stations, how browsers follow it, what the tools
that read run directories make of them, and how an agent is added to the registry
that all of it reads. TLC checks each model on a small instance; for every value of
the constants TLAPS proves the safety of the executor, the orchestrator, both
collectors, the feed server and the scaffold, that a step of a
plan and a launch of the benchmark implement their contracts, that the ops console's servers deliver
each envelope once and miss no line of the log, that only losses fail a comparison of
runs, that the readers of a run directory agree about it, and that the overlay shows what
the comparison says. Line numbers refer to the
files under `src/`.

## 1. The system

ROBOPORT runs *crews*: a planner turns a prompt into a plan, a chain of steps,
each owned by an agent of `agents/registry.json`; the orchestrator executes the
steps one after another. Two live surfaces watch a run.

    planner.py --> benchmark.py --> executor.py --> providers.py, tools.py
                      |   |  |
         run.log <----+   |  +----> ops console stream --> dashboard/bridge.py, serve.py --> console
    final_output.json     +-------> crew feed --> runtime_feed.py --> server.py --> roboport-feed.html
         |                                        collector.py (docker) --^
    aggregate.py, diff_runs.py, grader.py --> overlay on the console (bridge.py)

    new_agent.py --> agents/registry.json, agent_config.yaml --> all of the above

Everything left of the two streams is one process with one thread. The streams
are files, appended and flushed line by line, tailed by other processes. Those
processes have threads (tail, ticker, server) and, in server.py, an event loop;
the last hop is a WebSocket or an SSE connection to a page.

### Components

| Component | Keeps | Operations | What is hard | What makes it correct |
|---|---|---|---|---|
| executor (`executor.py`) | rounds, call/tool/retry counts, the answer under repair | one `call_executor` per step | nested retry, round and repair loops; failures at every call; batches that mix tools | budgets hold, deny overrides allow, defects are flagged, the report is right, it ends |
| orchestrator (`benchmark.py`) | job and step under way in memory; run.log, two streams, final_output.json, summary.json on disk | launch, plan, step, close, grade, summarise | four records of one run, a kill between any two, a relaunch over the same directory | the records and the exit code agree |
| feed and run log writers (`feed_log.py`, `run_log.py`) | an append-only file each | one line per event | order and completeness across kills | the feed is well bracketed |
| runtime feed collector (`runtime_feed.py`) | agents, stations, tasks, completion window, one lock | ingest, ticker, metrics, operator commands, snapshots | three threads, logs whose ids collide, kills, full roster | queues, busy stations and drones stay accounted for |
| Docker collector (`collector.py`, `logtail.py`) | agents, stations | stats poll, event stream, log tail | threads share `self.agents` without a lock; revisions start over | a live container is shown, a destroyed one is not, a death is seen |
| feed server (`server.py`) | connections: queue and seq each | register, snapshot, stamp, drop, send | threads against event loop, bounded queue | a page can tell when it lost something |
| feed page (`roboport-feed.html`) | lastSeq, entities with revisions | hydrate, apply, resync, reconnect | resyncs under way twice, stale revisions, a re-added agent | the page shows the collector's agents |
| ops console servers (`bridge.py`, `serve.py`) | history, subscribers, the translator's revisions and totals, the watch's line count | translate, tail, watch, replay, stream, diff overlay | a console that connects during a broadcast, half-written and malformed lines, relaunches on the same log, one request at a time | each console gets each envelope once, and the envelopes draw what the log says |
| ops console page (`Roboport Ops Console.dc.html`, `feed_adapter.js`) | lastSeq, agents, stations, tasks, metrics, alert rings | gap rule, hydrate, route | two seq counters behind one gap rule, entities whose revisions outlive a snapshot | the page shows what the server sent |
| readers (`aggregate.py`, `diff_runs.py`, `grader.py`) | nothing | comparison, verdict, roll-ups over run directories | logs of several launches in one file, files of an earlier launch, unknown costs, grading that is missing or undecided | only losses gate, and two readers of one directory agree |
| registry tools (`new_agent.py`, `validate.py`) | the registry, the specs, the configuration, the eval sets | scaffold an agent, validate | a kill between two writes or inside one, two scaffolds at once, whole-file rewrites | a registry that can be read is valid and acyclic, an agent that was added is complete |

The other parts (providers, tools, pricing, replay builder, demo dashboards,
prompts) are I/O, data or rendering;
`PROJECT.json` lists each with the reason it is left out. Its `hazards` list is
the reason for the properties below: every place where an order, a crash, a lost
message or a limit could go wrong and no test looks.

## 2. The modules

| Module | Models | Checked by | Proved in |
|---|---|---|---|
| `StepContract` | what the orchestrator may assume of a step (abstract) | `executor` (refinement) | `ExecutorProofs` |
| `Executor` | `executor.py` | `MCExecutor`: `executor`, `executor_schema` | `ExecutorProofs` |
| `BenchmarkContract` | what a launch of the benchmark promises (abstract) | `benchmark` (refinement) | `BenchmarkProofs` |
| `Benchmark` | `benchmark.py`, its log writers | `MCBenchmark`: `benchmark` | `BenchmarkProofs` |
| `RuntimeFeed` | `runtime_feed.py` | `MCRuntimeFeed`: `runtime_feed` | `RuntimeFeedProofs` |
| `FeedServer` | `server.py` and the page's live client | `feed_server`, `feed_resync` | `FeedServerProofs` |
| `DockerCollector` | `collector.py` and the revision filter of roboport-docker-demo.html | `MCDockerCollector`: `docker_collector`, `docker_death` | `DockerCollectorProofs` |
| `ConsoleFeed` | `bridge.py`'s translator; the console's gap rule, hydration and routing | through the two below | |
| `OpsConsole` | `bridge.py` tailing, `serve.py` watching and replaying, `RunLog` writing | `MCOpsConsole`: `ops_console`, `console_follows` | `OpsConsoleProofs` |
| `RunReports` | `diff_runs.py`, `aggregate.py`, `bridge.py`'s overlay, over the directories `benchmark.py` writes | `MCRunReports`: `run_reports` | `RunReportsProofs` |
| `Scaffold` | `new_agent.py`, `validate.py`'s registry check, `runtime_feed.py`'s waves | `MCScaffold`: `scaffold` | `ScaffoldProofs` |

The modules meet at their interfaces. `Benchmark`'s `FinishStep` takes any result
`Executor` can return, cut down to its status and its reported calls.
`RuntimeFeed`'s `source[f]` walks one log through the order of lines that
`Benchmark`'s `FeedWellBracketed` establishes: tasks one at a time, cut off
anywhere by a `crew_start`. `FeedServer`'s collector emits what a collector emits
about one agent. `OpsConsole` and `RunReports` both use `ConsoleFeed`: one for the
envelopes of a log, the other for those of a comparison. `RunReports` writes its
directories with `Benchmark`'s actions, the step's contents added and the streams
left out. `Scaffold` ends where `RuntimeFeed` begins: the registry it leaves is the
one the collector lays its stations out from.

In every module a definition preceded by a comment `Fault:` is not part of the
specification: it is the action or operator next to it with one slip in it, and
replacing that definition by it makes TLC find a property violated. There is one
for each property of each passing run (`PROJECT.json`, `mutants`), so no property
holds for a reason that has nothing to do with the code.

### Executor

One step, from the call of `call_executor` to its return or the exception that
leaves it. `pc` is the place in the code: `entry` (L187-242), `round` (the head of
the loop, L244-251), `chat` (inside `_chat_retry`, L72-82), `tools` (L278-318),
`repair` (`_repair_schema`, L121-137, and its caller, L351-361). The provider is the environment and may
answer anything at every call. `round`, `llmCalls`, `toolCalls`, `retries` are the
variables of the code (`round_idx`, `llm_calls`, `tool_calls_total`,
`retries_total`); `executed`, `replies` and `reattempts` are history variables
that record what really happened, next to what the executor counts.

Data is cut down to what a branch looks at: an output conforms, is an empty list
or misses its schema (`Shapes`); a tool is whitelisted or not and denied or not;
of the criteria only the two the executor writes itself are kept. Tool names in a
batch are chosen when the executor reaches them, since nothing can tell that from
choosing them with the reply.

`StepContract` says what a caller relies on: at most `cap` provider replies, no
tool outside the permitted ones, nothing after the step is closed. It does not
know rounds, retries, batches or repairs. `Executor!Contract` instantiates it
with `Permitted <- Allowed \ Unsafe` and `phase` read off `pc`.

### Benchmark

A process that walks the jobs (`main`, L335-450) and, for each, `run_one`
(L193-316): plan, open a step, execute, record it in run.log (L247-264), the feed
(L280-288), the console stream (L289-299), stop at the first failure, close both streams,
write final_output.json. `Kill` may come between any two actions, and inside the
`write_text` of final_output.json, grading.json or summary.json, which truncates its file
before it writes: the file is then torn. `Launch` starts
over with empty memory and the files as they are: `mkdir(exist_ok=True)` and
append-mode logs. `Raise` is an exception of the planner, of a plan or step that lacks a
key, or of the grader, which nothing catches: call_grader reads `results` and `pass_rate`
of the answer outside its try (grader.py:86-87), so with `--grade` it may come after the
last run too (L431). Python then exits with 1, as `main` does for a failed run. A line that
is appended counts as one write, and an operating system that refuses to write is not
modelled. `task_open` stands for `task_enqueue`, `task_start` and
`task_progress`, which are written together.

`BenchmarkContract` is what is left of that for someone who launches the benchmark,
watches the feed and reads the directory afterwards: a launch ends its runs one after
the other; the verdict on a run is announced on the feed (`Announce`), then recorded on
disk (`Record`), and is the same; only a launch that ended every run writes
summary.json and exits with 0 (`Report`), and both say what the directories say. A kill
(`Kill`) undoes no run that has ended, though the file being written may be torn; an
exception (`Raise`) tears nothing and never comes between a verdict's announcement and its
file, but exits with 1 wherever it comes, after the last run too. It does not know
plans, steps, run.log, the console or grades. `Benchmark!Contract` computes `running`
and `ended` from `pc` and the statuses in memory, reads `announced` off the last line of
the feed while final_output.json is still to be written, and takes that file for
`verdicts`.

### RuntimeFeed

Every mutation of the collector happens under one lock and is one action;
`_metrics` is the exception, and its read-filter-rebind of the completion window
(L291) is two actions of the thread that runs it. Step `s` is both the task
`t_s` and the agent `drone-s`, in every log: that is how benchmark.py names them,
so two logs collide. `opened`, `kills`, `reads` and `commands` bound the
environment. `leaked` and `mixed` are history: an enqueue over an open task
replaces it while its old station keeps counting it (L198-206), and the properties
say exactly how much damage that does instead of assuming it away. `mixed` also notes
an id that is enqueued while another log is at it (`Within`): that log's task may have
been dropped by a full roster, and its `begin` then meets the new task at a station
that is not the one its lines name.

The 60 s expiry of the window, half-written lines and truncated files in `_drain`,
and lines that lack a key are left out; `FeedLog` writes whole lines with all keys.

### FeedServer

One connection and one agent. `loop` is the callbacks pending on the event loop
(`call_soon_threadsafe`, server.py L128-134), `queue` the connection's bounded
queue, `wire` what the socket carries: one envelope, which stands for a full
socket buffer, so that the queue fills. `seq` is stamped before the queue is
tried (L117-125): a drop leaves a gap. `Register` and `SendSnapshot` are separate
because a collector thread may emit in between (L164-177). On the page,
`ReceiveDelta` and `Resync` are the two branches of the gap test (roboport-feed.html
L448-467), `Hydrate` sets `lastSeq` to the 0 every snapshot carries, `Applied`
drops stale revisions. Fetches are answered in any order, or fail. `life`
distinguishes an agent from a later one of the same id; it is not on the wire and
no action reads it. `base`, `dropped` and `lossless` are history.

### DockerCollector

`docker` is the daemon: containers are created, started, paused, signalled, stopped
and destroyed by anyone, an operator's command included (`handle_command` only asks
the daemon). The two threads of the collector are two small programs over the same
`agents`. `handler` walks `_handle_event` (L200-237): fetch the container as it is
by now, write a new dto, set its state in place, call the subscribers with whatever
`agents` holds by then. `poller` walks `_poll_stats` (L253-273): the list of agents
with their revisions, `containers.get`, the statistics, the write, the envelope, and
the zone roll-up, which walks the dictionary without the lock and ends the thread if
its size changes. `page` applies envelopes as roboport-docker-demo.html does (L364-365).
`missed` and `raced` are history: what stopped or came and went between the listing
and the event stream, and what the poll thread was at when an event took it away.
The properties hold for every other container.

### ConsoleFeed and OpsConsole

`Translate` is bridge.py's `translate` (L181-359), one operator for each kind of line
that changes `RunState`; `seq` is the module's counter, which envelopes, task ids and
alert ids share (L48-52, L133). An agent is known by the station it was named for, and
an envelope carries what the page compares or draws: a state and a revision, a task's
id, or the two totals. `Route` is the page's `route` (L655-667), `RouteFeed` the gap
rule in front of it (L547-550) with the live adapter as its backend
(feed_adapter.js L448-484).

`OpsConsole` is one of three servers, chosen by `mode`. The *bridge* tails run.log in
a thread (`TailLine`, `TailHalf`: `readline` also returns a line whose end is not
written yet), broadcasts into queues under a lock and streams history and queue to
whoever connects. The *watch* polls the file, handles the lines from `_watch_seen` on,
which counts only those that parse (serve.py L150-163), and writes straight to the
sockets. The *replay* converts the whole log when it starts and whenever
`/api/snapshot` is asked for. `HTTPServer` serves one request at a time (`served`).
The writer is `RunLog` as benchmark.py drives it; a line may reach the disk in two
parts (`half`) and the run may be killed between them, which leaves an `Orphan` that
the next launch's first line is glued to. `taken`, `sent` and `loaded` are history.
The writer is at `planning` between a run's first line and its plan, where it may be killed
too; the first step starts once the plan is there. `Pictures` says what a console should
draw from the lines alone, without revisions, snapshots or state: it is the reference the
translation is checked against.

The bridge that has read the beginning of a line gets its rest as a line of its own
(`RestOf`): nothing that parses, unless the beginning was an orphaned part; the rest is then
the whole `run.start` that is glued to it, which the bridge alone understands. A part of a
line is taken to end before its closing brace, so that it never parses (with all but its
newline, it would be the line), and the line that is glued to an orphaned part to reach the
disk whole. `LoadRun` only happens when the log has grown
since: converting the same log again gives the same envelopes with other seqs.

### RunReports

The readers are pure functions; their inputs are what is hard. So the candidate's
directory is written by `Launch`, `WritePlan`, `RunStep`, `WriteFinal`, `Grade`,
`Summarise`, `Kill` and `KillWriting`, over whatever the launch before left, and `DiffRuns`,
`RoutingRollup`, `RoutingSummary`, `Compare` and `Overlay` are evaluated against a finished
baseline in every state. `KillWriting` is a kill inside `write_text` (benchmark.py:215, 305,
315, 432, 445), which truncates first: diff_runs.py reads the torn file as absent
(L101-108), aggregate.py raises on a torn grading.json (`Collects`, L32-33) and takes a torn
final_output.json for completion (`Completed`, L49). A torn line of run.log is a kill before
the line: both readers skip it, and the next launch's first line, `plan_emitted`, which no
reader reads, is the one that is lost with it.

A grading is what the model answered: grader.py:84-91 passes `results`, `pass_rate` and
`blocker_failed` on without comparing them, and the schema of the answer is not enforced
(client.py:36-52). So `Gradings` are records of verdicts for some of the expectations, those
marked as blockers, a rate (in percent) and `blockerFailed`, each on its own.
`FollowsPrompt` is what the grader's prompt asks for (grader.py:56-66). A `blocker_failed`
that is no Boolean is left out.

`calls` stands for `llm_calls`, `tool_calls` and tokens, which are added
up by the same rules; `ms` for `duration_ms` (diff_runs.py) and `latency_ms`
(aggregate.py). `launched` is what benchmark.py keeps of its steps in memory (`Telemetry`,
L269-278), from which `RoutingSummary` is made; the readers only have `step_done`
(`StepDone`). Steps and expectations are numbered in the order the code sorts them.
`MCResults` holds a good step, a costly and slow one over another route, one that
lost a criterion under the stub runtime (no route, no cost) and a failed one.

### Scaffold

`Build` is `build_changes`: refusals first, then the new texts from what is read
(`draft`), in one step. `Change.apply` is two steps, as `write_text` is: `Empty` opens the
file, which empties or creates it, and `Fill` writes the text, in one piece (the files are
shorter than Python's buffer). `Check` is the verdict of the two runs of validate.py, on the
registry and on the eval set. A scaffold may be killed between any two of these, and another
one may run. `empty` holds the files that were emptied and not filled; `mixed` those whose
text ends with a piece of a longer one, which happens where two scaffolds have the same file
open and the shorter text is written last. The next scaffold cannot parse a registry that is
empty or mixed and finds no block in an empty configuration, and is refused (`Readable`); a
mixed configuration it takes and writes on (`tail`).

The registry is a set of entries and the crew's edges in file order: a new edge is
inserted first, and into an empty list not at all (it would leave a comma too many, which
`_guard_json` refuses). `Shipped` are the registries to start from, any without a cycle:
that of the repository has its edges in order and two ways to `application_strategist`.
`OtherKeys` are the names that some indented key of agent_config.yaml bears that is no
whitelist (`model`, `retries`, ...), for which `patch_config` writes nothing (L230).
`Depths` is the fixpoint loop of `stations_from_registry`, counted in rounds, each a fold
over the edges. One crew; the output schema is patched as the registry is, and left out.
`raced` is history: who overlapped whom.

## 3. The runs

All bounds are CONSTANTS of the modules, given in the `.cfg` files or in the MC
modules. `CHECK_DEADLOCK FALSE` is set where the system really stops: a step that
has returned, a process that has exited, logs that have ended.

| Run | Asks | Bounds and why they do | Distinct states |
|---|---|---|---|
| `executor` | Does a step keep its budgets, its denylist, its criteria and its retry count, does it end, does it implement `StepContract`? | 3 rounds (first, middle, last), 2 retries, batches of 1 or 2, call budgets 0, 1, 2 and 5 (none, only a repairless answer, an answer and a repair, more than the rounds use), tool budgets 0, 2 and 9 (below, at, never reached), one tool of each of the four kinds | 55 860 |
| `benchmark` | Do run.log, the feed, the console stream, final_output.json, summary.json and the exit code agree over kills and a relaunch, and does a launch implement `BenchmarkContract`? | 2 jobs and 2 steps, so that a run follows another and a step another; 2 launches, so that every file can be found left over by a killed, a failed or a finished launch; one call per step, as only sums are compared | 458 441 |
| `runtime_feed` | Are queues, busy stations and drones accounted for? | 2 logs sharing 2 step ids, 2 stations of which the registry predicts one, a roster of 1 (so the second agent finds it full, unless the first was retired), 3 tasks (one that fills the roster, one that is dropped, one that uses the dropped one's id), 1 kill, 1 command (a retire makes room for the third), the ticker's and the server's thread in `_metrics` at once | 935 344 |
| `feed_server` | Does a page that lost nothing converge, and does it notice what it lost? | a queue of 1 (overflow needs two envelopes), 5 envelopes (add, update, remove, add again, one to show the gap), 2 fetches, 2 connections, fetches may fail | 224 128 |
| `docker_collector` | What survives two threads without a lock? | 1 container (the daemon never reuses an id, and the threads meet at one container), 5 changes (created, started, stopped, started, destroyed), revisions counted up to 2 and then no further, so that polling can go on for ever | 295 183 |
| `ops_console` | Does a console get every envelope once, is it brought up to date, and does what it draws follow from the log? | 2 stations; logs of up to 6 lines that begin in the middle of a first step after a retry, with a junk first line (the step may then end, fail or be killed, and the run be launched again), with a run that was killed there and launched again up to its plan (its steps come over those of the first), or after a whole run (a second run on the same log); 1 console that comes twice (the server attaches one at a time, so another one changes nothing but the wait); a history of 8, which the envelopes of two steps overflow | 305 553 |
| `run_reports` | Do only losses gate, do the readers agree, does the overlay show the verdict? | 3 baselines (graded, undecided, ungraded), 2 launches of a candidate, killed anywhere, plans of 1 or 2 steps that share their goal or not, one of them with an agent that runs both of its steps, 4 results, 3 outputs, 5 gradings of 2 expectations, one of them a blocker: all pass, the blocker fails, one undecided and one failed, the grader's own exception, and one that says what its results do not | 453 333 |
| `scaffold` | Does the registry hold, whatever races or is killed? Is an agent complete? | 2 processes and 3 scaffolds (one alone after a race, or a second try after a kill); a crew of 4 with two ways to the last agent, alike and in order (as shipped) or long and short and against the order; 4 command lines: after the last agent, after the first, after a new one, and the same name under another role without a crew; one name that the configuration has as another key | 289 904 |

Properties of the passing runs:

* `executor`: `OnlyPermittedToolsRun`, `CallBudgetHolds` (the abandoned repair that
  is billed and not counted included), `OverrunEndsStep`, `DefectsAreFlagged` (no
  criterion of a replaced answer survives), `RetriesAccounted`, `Terminates`,
  `Implements`.
* `benchmark`: `LogStopsAtFailure`, `FeedWellBracketed`, `LogLeadsStreams` (a kill
  costs a stream at most one report), `RecordsAgree`, `FailureReachesDisk`,
  `KeepsContract` (what it means for the exit code, `ExitCodeHonest`, is proved beside it:
  0 can be believed, 1 only of a launch that no exception cut short).
* `runtime_feed`: `QueueAccounted`, `BusyHasTask`, `QuietMeansClean`, `DronesLand`.
* `feed_server`: `LosslessConverges`, `DropsAreNoticed`.
* `docker_collector`: `ExistingIsShown`, `GoneIsGone`, `RunningIsShown`.
* `ops_console`: `EachOnce` (no envelope twice, none left out between the history and
  the queue), `TrueToLog` (what is drawn is what the log on disk says, across kills, relaunches,
  and revisions and totals that are never started over; the bridge may miss what torn lines
  say of their own stations and hide it from the totals, unless one starts a run, and the
  watch may count a line that it takes again), `WatchCounts` (what counting parsed lines
  costs), `CatchesUp`, `FreesUp`.
* `run_reports`: `HardLossesOnly` (cost, latency, configuration and content never make
  or hide a regression; new blocker failures do, but for one that rests on a grader's word),
  `ReadersAgree` (what leftovers of an earlier launch and torn files do to which reader, and
  nothing else), `OverlayAgrees`.
* `scaffold`: `RegistryHolds` (whenever it can be read: valid, one entry a name, no cycle,
  and each agent's wave is its longest way from the entry; and when it cannot be read),
  `AloneIsComplete` (what a scaffold that ran alone leaves, and what may happen to it).

Four runs state what the repository says of itself and end in a violation; each is
a finding in `PROJECT.json` with its quotation.

| Run | What is said | What happens |
|---|---|---|
| `executor_schema` | "A schema-invalid output is a step failure, period" (docs/architecture.md:86) | the step returns the model's own `ok`, with a failed criterion beside it |
| `feed_resync` | a gap makes the client resync, which makes reconnects safe (CONTRACT.md:18-21) | an older answer that arrives last replaces a newer page and resets the gap detector |
| `docker_death` | the Docker feed sees start, stop and die (collector/README.md:145), and stale revisions make concurrency safe (CONTRACT.md:18-21) | the dto of a die or pause event starts again at rev 0, the page drops it and shows the container working for ever |
| `console_follows` | the console's adapter streams bridge.py's live feed, "replays history on connect, then tails" (dashboard/README.md:54) | the translator's ids take seqs of their own, the gap rule drops the next envelope, the adapter answers with an empty crew and a seq of its own counter, and no envelope passes any more: the console shows an idle crew |

In the violation runs the environment is kept as tame as the disagreement allows
(one launch, one connection, no failing fetch), so that the trace shows the
disagreement and nothing else.

### Other divergences

Met while modelling; the models follow the code, and no run is spent on them.

* A run that ended at a failed step counts as completed and, if no blocker failed, as
  passing (aggregate.py:49, 84, 208; docs/ROADMAP.md:337-338 says "completed"): run_one
  writes final_output.json for it too (L305). `ReadersAgree` says so, and that diff_runs,
  which reads the failure in the same file, reports a regression.
* `budgets.per_run` (config/agent_config.yaml:99, "The runner aborts the run") is read
  by no code; benchmark.py:266 sums the calls and reports them.
* `_metrics` filters and rebinds the completion window outside the lock
  (runtime_feed.py:291) that L94-96 says guards all mutation: an entry appended in
  between is lost. `RuntimeFeed!TypeOK` bounds the window from above only.
* `blocker_failed` and `pass_rate` are the model's own, beside results they need not follow
  (grader.py:84-91). So a candidate with `blocker_failed` true and no FAIL is counted in
  `new_blocker_failures` and passes (diff_runs.py:380-383; docs/ROADMAP.md:226, gate 3, says
  regression), as is a blocker that the baseline's grader left INCONCLUSIVE, or called no
  blocker, and the candidate's fails; an expectation the candidate's grader left undecided
  passes too (ROADMAP.md:230-231). And compare (aggregate.py:280) can see a loss where every
  verdict is the same. `HardLossesOnly` and `ReadersAgree` hold of all gradings what they
  can, and the rest of those that follow the prompt: without that condition TLC refutes them.
* A kill inside `write_text` leaves a grading.json on which aggregate.py raises for the
  whole benchmark, or a final_output.json that it counts as completed and diff_runs.py does
  not find; the log still shows a failed step to diff_runs (`ReadersAgree`).
* A task that a full roster dropped still has its `begin` and `complete` in its log. If
  another log has meanwhile opened a task of that id at another station, the station of
  the one is marked busy and that of the other is freed: the first stays busy with
  nothing (runtime_feed.py:218-264).
* Exit code 1 says that a run failed (benchmark.py:450) or that a traceback ended the
  launch: the two differ by a new summary.json, and an old one may lie where it should be.
* diff_runs.py's docstring says exit code 2 for inconclusive; by default it is 0.
  `SEV_ORDER` (L53) puts inconclusive elsewhere than the verdict's roll-up (L416-425).
* Telemetry of `step_done` carries a configuration fingerprint, which does not gate
  comparability (docs/ROADMAP.md:111): only the plan's goal does.
* compare flags an agent whose mean latency rose, diff_runs a step that did
  (aggregate.py:221-259, diff_runs.py:315-322): the agent's other step can hide the rise,
  and so can a baseline that took no time, of which no percentage is taken.
* aggregate.py divides the blocker failure rate of a route by all its runs and the pass
  rate by the graded ones.
* The overlay says "no differences detected" of two runs that cannot be compared, and a
  station with several diffs shows the first one's state and the last one's ring
  (dashboard/README.md:123-127 speaks of one colour).
* A console opened with `?api=` also opens `/api/feed`, which bridge.py does not serve,
  past the gap rule; the adapter's answer to `/api/snapshot` that comes after a replay
  blanks the console.
* A line that `readline` returns in two parts is lost to a console of the bridge for good
  (bridge.py L468-480): a station stays busy, or a step is missing from the totals, until a
  later line of that station. If the line starts a run, the picture of the run before stays.
  After a malformed line the watch handles old lines again, and counts their steps again in
  the totals. `TrueToLog` says how far either goes.
* The watch broadcasts its opening snapshot before any console can be there. Its thread
  and the heartbeat of a stream write to the same socket without a lock.
* A scaffold killed after its first write is refused when it is tried again; two at once
  may lose the first one's entry. One killed while it writes registry.json or
  agent_config.yaml leaves the file empty, without any of the agents that were in it; two
  that write the registry at once may leave it unreadable. No scaffold starts from then on.
  An agent whose name is an indented key elsewhere in agent_config.yaml gets no whitelist.
  validate.py does not reject a crew with a cycle, on which the collector's constructor would
  not return.

### Fairness

* `Executor`: `WF_vars(Next)`. One thread runs the step without waiting for anyone
  but the provider, and a provider call ends, by its timeout if need be, as an
  answer or an exception. `Terminates` rests on it.
* `Benchmark`: `WF_vars(Work)`, the actions of a running process. Nobody has to
  launch the benchmark or to kill it. `FailureReachesDisk` therefore allows the
  process to be dead.
* `RuntimeFeed`: `WF_vars(Dock(s))` for each drone (`Fairness`). The ticker thread loops for ever
  and `_return_at` is a fixed time ahead. Neither the writer of the log nor the
  operator owes anything.
* `DockerCollector`: `WF` of each of the two threads and of `Bootstrap`. The threads
  loop for ever and the daemon answers; nothing has to happen to a container.
  `RunningIsShown` allows the poll thread to have died of the roll-up.
* `OpsConsole`: `WF_vars(Tailing)`, the one loop of the tail or watch thread, and for each
  stream `WF` of what its handler does, which writes or beats at least every 15 s.
  Nothing makes the run write, finish a line it began, or a console come or leave.
* `RunReports`, `Scaffold`: none. Their properties are about states.
* `FeedServer`: none. Its properties are about states, and nothing promises that a
  page keeps reading.

## 4. The proofs

`ExecutorProofs` proves for every tool set, whitelist, denylist, number of rounds
and of retries, every set of budgets and every batch bound, assuming only
`ExecutorAssumption` (the constants are of their kinds, `MaxRounds` is not 0):

| Theorem | States |
|---|---|
| `TypeCorrect` | `Spec => []TypeOK` |
| `DenyOverridesAllow` | `Spec => []OnlyPermittedToolsRun` |
| `CallBudget` | `Spec => []CallBudgetHolds` |
| `ToolBudget` | `Spec => []OverrunEndsStep` |
| `DefectsFlagged` | `Spec => []DefectsAreFlagged` |
| `RetriesReported` | `Spec => []RetriesAccounted` |
| `ExecutorRefinesContract` | `Spec => Implements` |

Of the six invariants only `OnlyPermittedToolsRun` is inductive by itself: `round`
stays in its range because of where the loop tests it, and that the budget holds
when a call returns depends on what was tested when it started. `IInv` is the
conjunction of the six and of what the code maintains in between:

* `RoundsLeft`: a call, a batch or a repair is only under way within the rounds;
* `PendingUntilReturned`: no result before the return, so a result's fields can be
  reasoned about at the one step that builds it;
* `CallsCounted`: until the return every reply was counted, and a call is under way
  only with one of the budget left. This is what bounds the repair that is billed
  and not counted: it comes once, at the return, and the call before it left room;
* `BatchFits`: the calls made and the calls of the batch to come stay within the
  tool budget and one batch;
* `AttemptsSettled`: no retry is pending between provider calls.

The argument: `InitEstablishes`, then `StepPreserves` (`IInv /\ [Next]_vars =>
IInv'`) by cases on the actions, then `Invariance`, from which each theorem
follows. `FailReturns` and `DeliverReturns` state once what the two ways to build
a result give, and `AnswerDelivered`, `AbandonedDelivered` and `RepairedDelivered`
apply them to the three places that deliver an answer. In the refinement,
`ContractStep` uses `IInv` for the call cap (a `Consult` needs `replies < cap`)
and maps each action to `Consult`, `Run`, `Close` or a stutter.

`ScaffoldProofs` proves for any agents, roles and processes, any number of scaffolds and any
registry to start from, assuming only `ScaffoldAssumption` (that registry is finite, has one
entry a name and no cycle, and its edges join its agents; the repository's is one):

| Theorem | States |
|---|---|
| `TypeCorrect` | `Spec => []TypeOK` |
| `RegistryStaysSound` | `Spec => [](IF Whole(REGISTRY) THEN ValidRegistry /\ OneEntryEach(registry) /\ Acyclic(registry) ELSE Spoilt)` |
| `AloneCompletes` | `Spec => []AloneIsComplete` |
| `WavesAreLongest` | `Spec => []RegistryHolds` |

`RegistryStaysSound` is the part of `RegistryHolds` that the writes maintain. It is not
inductive: what is written next is a text that was worked out before another scaffold
wrote. `IInv` adds

* `TextsSound`: the registry on disk, and every text that is still to be written, has one
  entry a name and no cycle, and its entries have their specs, except the scaffold's own
  as long as its spec is still to be written: specs are written first and never removed,
  so a text stays sound however late it is written;
* `LoneProgress`: what a scaffold that no other one overlapped has written is on disk and
  whole, the file it has open is empty, and its texts hold everything that is there;
* `DoneIsKept`: every text that is still to be written holds what a lone scaffold that
  is done has left, and none of them is about the same name, whose spec and evals it would
  write again;
* `SpoiltIsTold`: an empty registry is being written or was by a scaffold that was killed,
  and a mixed one was written by scaffolds that overlapped. It is inductive because no
  scaffold starts on such a registry: those that spoilt it stay the last ones.

`PatchIsSound` is the one place a registry grows: a new name that nothing mentions yet makes
no cycle, wherever it is handed to from (`EdgeToNew`, `PrependEdge`).
`RemaindersShrink` enumerates what may be left to write.

`WavesAreLongest` adds what the collector makes of such a registry, which stays finite
(`FiniteCrew`): the rounds of `Depths` settle, and an agent's wave is the length of the
longest way to it from the entry. A round is a fold over the edges. It makes no depth
smaller, none that is not the length of a way, and leaves every edge followed at least once
(`RoundDeepens`, from `FollowGrows` and `FollowIsReal`), so that by induction on the rounds
the n-th knows every way of n agents (`RoundsExist`, `DepthsAreLongest`). Without a
cycle no way meets an agent twice, so that none has more agents than the registry
(`WaysAreShort`), and after as many rounds as agents another changes nothing
(`DepthsSettle`). `EndsAreTold` is the same induction for the sets of `EndsOfWays`, and
`WavesAreTold` puts the two together.

`BenchmarkProofs` proves for any jobs, steps and bounds, assuming `BenchmarkAssumption`:

| Theorem | States |
|---|---|
| `TypeCorrect` | `Spec => []TypeOK` |
| `FeedBracketed` | `Spec => []FeedWellBracketed` |
| `FailureEndsRun` | `Spec => []LogStopsAtFailure` |
| `ExitCodeTold` | `Spec => []ExitCodeHonest` |
| `RunLogLeads` | `Spec => []LogLeadsStreams` |
| `ReturnedRunsAgree` | `Spec => []RecordsAgree` |
| `BenchmarkKeepsContract` | `Spec => KeepsContract` |

The first properties compare a line with the one before it, and each line is written at
one place of `run_one`. `IInv` therefore says for each `pc` what the feed (`FeedAt`) and the job's
run.log (`LogAt`) end with, and that the statuses in memory are those on the disk of the
jobs this launch is done with (`StatusesAt`). A kill keeps the files, but for the one it
tears, and forgets `pc`: the next launch begins with a line that may follow any other. An
exception leaves fewer statuses in memory than there are jobs, which is how `ExitCodeHonest`
tells its exit code 1 from that of a launch that got through its runs.

`RunLogLeads` and `ReturnedRunsAgree` count and sum whole files. `CountsAt` says how far the steps in run.log may be
ahead of those in either stream: by one for each launch before, and by the one the launch
under way has yet to report (`LogCounted`, `ConsoleCounted`, `FeedCounted` say what a line
adds). `RunAt` says that the lines of run.log since the last `plan_emitted` are as many as
the steps done, with their statuses, and that `llmTotal` is their sum, and `StreamsAt` what
the streams end with, so that the records agree when `run_one` returns. What a sum over a
sequence is, that it adds up and grows, is proved by induction over the lengths
(`SumsExist`, `SumAdds`, `SumIsRunningTotal`).

For the refinement `ContractStep` maps `CloseStreams` to `Announce`, since `StreamsAt` says
what the feed then ends with (`StreamsAnnounce`); `WriteFinal` to `Record` of the next run,
since the runs this launch is done with are as many as the statuses in memory
(`FinalRecords`); `Summarise` to `Report`, since those statuses are the files
(`SummaryReports`); `Kill` and `Raise` to `Stop`; and everything else to a stutter, `Grade`
because the run it adds to the statuses was counted when it returned.

`RuntimeFeedProofs` proves for any logs, steps, stations, roster and number of threads,
assuming `RuntimeFeedAssumption`:

| Theorem | States |
|---|---|
| `TypeCorrect` | `Spec => []TypeOK` |
| `QueuesAccounted` | `Spec => []QueueAccounted` |
| `BusyStationsWork` | `Spec => []BusyHasTask` |
| `QuietCrewsLeaveNothing` | `Spec => []QuietMeansClean` |

`QueueAccounted` needs no more than types. The other two are not inductive: a `begin` makes
the station busy that its log names, for the task it finds under its id. `Places` says that,
as long as ids were not mixed, only one log is at a step and the step's task and agent are
at the station that log named; `Owned` that, if moreover nothing was killed, every open task
and every drone at work belongs to a log that is at it. What the ticker, `_metrics` and the
operator may do is summed up in `Aside`, and treated once. Attempting `BusyStationsWork`
is what brought up the collision with a dropped task (section 3): `mixed` notes it, and the
run has the third task that it takes.

`FeedServerProofs` proves for any queue size, envelopes, fetches and connections, assuming
`FeedServerAssumption`:

| Theorem | States |
|---|---|
| `TypeCorrect` | `Spec => []TypeOK` |
| `DropsNoticed` | `Spec => []DropsAreNoticed` |
| `LosslessPageConverges` | `Spec => []LosslessConverges` |

A drop is noticed because the seqs order everything: nothing is on its way before the
snapshot is (`OpensWithSnapshot`), what is on its way is in the order of its seqs and was
not dropped (`Ordered`), and a page that follows the connection is behind all of it, with
no drop between where it began and where it is (`PageFollows`).

Convergence says nothing before everything has arrived, so `Converging` follows what is on
its way, on the socket, in the queue and on the loop, as one sequence (`Travels`), and says
that it leads from what the page shows, or will once its snapshot is in, to the agent
(`OnCourse`). It leads there when the updates after the last removal are revisions of the
agent and one of them is the agent itself, or nothing is removed and the page has it
already (`Leads`); what the page starts from may itself be such a revision, since deltas
emitted between the registration and the snapshot arrive after a snapshot that contains
them. Appending keeps this true of the next agent (`UpdateLeads`, `RemovalLeads`,
`TickLeads`) and applying the first keeps it true of the rest (`AppliedLeads`). While
nothing is dropped the seqs have no gaps, so that no page fetches (`NoGaps`).

`DockerCollectorProofs` proves for any containers, changes and revisions, assuming
`DockerAssumption`:

| Theorem | States |
|---|---|
| `TypeCorrect` | `Spec => []TypeOK` |
| `LivesShown` | `Spec => []ExistingIsShown` |
| `GoneRemoved` | `Spec => []GoneIsGone` |

The run has one container; that the threads never mix up two is part of what is proved.
Neither property says anything before the threads are quiet, so `IInv` follows a container
through its events: what exists is listed or has a start event coming (`LivesAreListed`),
what is listed is shown or about to be (`ListedAreShown`), and what is gone still has its
destroy event to come, as its last (`Farewell`), or no event at all, and then it is off the
list and the page and out of the poll thread's hands, unless that thread raced
(`GoneIsRemoved`). It rests on the daemon: ids are used once, so nothing follows a destroy.

`OpsConsoleProofs` proves for any stations, logs, history and consoles, assuming
`OpsConsoleAssumption`:

| Theorem | States |
|---|---|
| `NoneTwice` | `Spec => []EachOnce` |
| `TypeCorrect` | `Spec => []TypeOK` |
| `NoLineMissed` | `Spec => []WatchCounts` |
| `DrawsTheLog` | `Spec => []TrueToLog` |

`IInv` says that what an attached stream was given and has in its queue is, put together, the
end of what was sent (`UpToDate`), and who is registered when (`Registration`): a stream is
from before its history is copied until its disconnection is noticed, and one that comes
back begins with nothing. What the envelopes hold plays no part, so they are members of some
set (`Listed`) and the proof never opens `Translate`.

`Typed` is the other invariant: the log and its writer (`Files`), the envelopes, revisions
and totals the translator makes of any line (`LineTranslated`) or of a whole log, line by
line (`Feeds`, `TranslatedInOrder`), the streams (`Service`), and where the watch is (`WatchAt`, in
`Tails`). Of the file's lines, some `h` were met: those of them that parse are the ones that
were taken, `cursor` is the number of lines taken and at most `h`, and the lines of the poll
under way are consecutive, from one after `cursor` and no later than `h + 1` to `h` or
later. So no line is jumped over, and a line is taken again no oftener than there are junk
lines among the `h`: without them `cursor` would be `h`.

`DrawsTheLog` compares two folds, that of the translation over the lines and that of the page
over the envelopes, with a picture computed from the lines by counting and looking for last
ones. `Agreed` relates the page, the `RunState` and the lines read so far: each station and
agent is shown in the state its last lines imply, at a revision no newer than the
`RunState`'s (`StationsTrue`, `AgentsTrue`), the totals are the counts (`TotalsTrue`), and the
tasks on the page are numbered one to one with the open starts, by seqs that have been given
out, the last start of a station by its `task_of` (`TasksTrue`, `Numbering`): `TrueToLog`
speaks of how many tasks are open, and that is preserved only with their numbers. Each step of
the argument is a line more: what `Translate` puts out for it (`LineShown`), what it does to
the picture (`OpenGrows`, `LastStart`, `OneLineMore`), and that the two stay equal
(`StationsStep`, `AgentsStep`, `TotalsStep`, `TasksStep`, together `AgreedGrows`).

A step needs one thing more, and it is why the module assumes something of the logs that the
servers find (`Begun`). The watch opens its feed with a snapshot its state does not remember,
so the next `plan.created` sends a second, which empties the page. That is right only while
nothing is on it. `Story` says so of any log that runs leave: before a line of a step there is
a `run.start` or, when that one was glued to an orphaned part, a `plan.created`, as
`RunLog`'s caller writes them (benchmark.py L209-222) and every kill and relaunch keeps; and
the watch never takes a line before an earlier sound one. `Faithful` is the invariant: for
the bridge and the watch `Agreed` holds of what is sent and still to be sent, the `RunState`
and the lines taken; for a replay, of what is loaded, and each stream has all of it
in its queue or behind it.

That is a picture of the lines that were *heard*; the theorem is about those on disk. The
bridge has heard each line in its place (`BridgeAt`), torn ones as junk, so the last line of
a station without torn ones, and the last start of a run, are where they are in the log
(`BridgeStations`), and what it counts the log counts (`BridgeTotals`). The watch has heard
lines again, but in order: behind every line it has taken come all later ones it has met
(`Ordered`, an invariant of its polls), so that of two lines the one that was heard last is the
later one (`SameOrder`), which is all that the stations depend on. The log's lines up to its
last tick inject into those heard up to theirs (`WatchTotals`), and what was heard beyond one
hearing of each line are the `Repeats` (`HeardOnceOrAgain`). Without junk it hears the log
(`Straight`).

`RunReportsProofs` proves for any plans, owners, results, outputs, gradings, baselines and
launches, assuming `RunReportsAssumption`:

| Theorem | States |
|---|---|
| `TypeCorrect` | `Spec => []TypeOK` |
| `OnlyLossesGate` | `Spec => []HardLossesOnly` |
| `OverlayTrue` | `Spec => []OverlayAgrees` |
| `ReadersTellTheSame` | `Spec => []ReadersAgree` |

The readers are functions of two directories, so types are nearly all the invariant there
is: both directories are ones `benchmark.py` can have left, whatever was killed. The rest is
about the operators. A comparison regresses exactly when it lists a diff of one of the hard
kinds, and it lists one exactly when a step, an output or an expectation was lost
(`StepsListed`, `OutputListed`, `GradingListed`, then `VerdictIsLoss`); at most one new
blocker failure is a grader's word, so that of two one was lost (`SeveralAreLost`), and a
single one is if the gradings are alike (`NewBlockerIsLost`); a run compared with
itself loses nothing (`SelfPasses`); and cost, latency, configuration and content, put in or
left out, change none of what is looked at (`SoftnessIsIgnored`). For the overlay, every
diff raises its alert and says its state (`AllVoiced`), the only inconclusive diff is the
missing grading, which is of no station, and a fold over the envelopes shows each station in
the state the first diff about it gave (`StationTold`, `StationShown`, `RingIsAlert`), since
the later ones carry the same revision. The proof attempt found operators whose CASE guards
overlapped (`Worst`, `AgentOf`, `Compare`): TLC took the first branch, the prover rightly
refused to, and they are nested IFs now, as the code is.

`ReadersAgree` speaks of the launch too, and rests on `Kept`: the end of the log is what
this launch has done, line by line with what it keeps in memory, and before it are the lines
of earlier launches, of which a first launch has none. So what is in memory of a step is the
log's last line of it (`LaunchIsLast`). The rest adds up. A sum over a set is followed
through its subsets (`SumsOfSubsets`), and three facts about sums carry the argument: a sum
over two sets apart (`SumsSplit`: a log is its last lines and its stale ones,
`StaleExceed`), one over other names for the same (`SumsRename`: a step is its last line's
place), and one of sums by key (`SumsByKey`: the rows of providers, `RoutesAddUp`, and of
agents, `AgentsAddUp`). The rates compare cardinalities of sets, one inside the other, or
mapped one to one (`RowsCount`). That a failed run is a regression to diff_runs, though it
passes to aggregate.py, rests on `FailureTold`: between the end of a launch and the next one
final_output.json says that a step failed. If a kill tears that file, the log still tells of
the step (`FailedStepIsTold`); a torn grading is a difference to one that is there
(`MissingIsTold`); and pass rates over the same expectations are ordered as the numbers of
PASS (`LossIsTold`). The attempt showed that an agent that is slower to
diff_runs need not be slower to compare (section 3): that part says now which agents are,
and the run has a plan with one that is not.

Three of these modules reason about folds, sums and longest ways. The library's induction
theorems take an operator and cannot be used here; `NatSetInduction` states induction for a
set of numbers instead, which is enough: the property becomes the set of lengths at which it
holds, and what a fold computes follows from the function its definition chooses
(`FoldExists`, `FoldRuns`).

Only model-checked, and why:

* `Terminates`, `FailureReachesDisk`, `DronesLand`, `RunningIsShown`, `CatchesUp`,
  `FreesUp`: liveness under fairness, and with it `ENABLED`, is beyond the installed
  prover.

## 5. Not modelled

* The log tailer (`logtail.py`): a variant of runtime_feed's `_drain` that patches agents
  of another collector.
* Providers, tools, pricing: an HTTP exchange or a table. The executor's model
  takes every outcome they have.
* Replay builder, benchmark index, demo dashboards, prompts: a scan and a write, or
  rendering.
* Of the ops console: the file-drop translator of feed_adapter.js, which repeats
  bridge.py's in JavaScript; `/api/runs`, static files and the command stub of serve.py;
  the mock feed, command palette and rendering of the page.
* Of the readers: medians, deviations, Markdown. Of the registry tools: validation of
  evals and outputs against JSON schemas.
* Within modelled parts: telemetry amounts, criteria written by the model, text of
  messages; feed scopes other than the firehose; zones, stations and alerts of the
  Docker source, which only project its agents; animation on the page.

## 6. Plan

In this order:

1. A contract between `Benchmark` and `RuntimeFeed`: the feed as a sequence of
   lines, implemented by the one and assumed by the other.
2. `_drain` and `logtail.py`: partial lines and truncation against the offset.
