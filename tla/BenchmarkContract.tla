------------------------- MODULE BenchmarkContract --------------------------
(***************************************************************************)
(* What scripts/benchmark.py promises to whoever launches it, watches its  *)
(* feed and reads its directory afterwards: a launch ends its runs one     *)
(* after the other, first on the feed and then on disk, with one verdict   *)
(* for both; exit code 0 and a new summary.json come only from a launch    *)
(* that ended every run, and say of each what its directory says; what     *)
(* stops a launch before undoes no run that has ended, though a kill may   *)
(* cut short the file it was writing.  Exit code 1 promises nothing: an    *)
(* exception exits with it as a failed run does.  Plans, steps, logs and   *)
(* grades are not known here.                                              *)
(***************************************************************************)
EXTENDS Naturals

CONSTANTS
    NJobs       \* (eval x run) pairs of the benchmark

VARIABLES
    running,    \* a launch is under way
    ended,      \* the runs this launch has ended
    announced,  \* the verdict on the next one, if the feed has it, or "none"
    verdicts,   \* final_output.json of each run, in the order of the runs
    exit,       \* exit code, or "none"
    summary     \* summary.json

vars == <<running, ended, announced, verdicts, exit, summary>>

Jobs == 1..NJobs
Verdicts == {"ok", "failed"}

Init ==
    /\ running = FALSE
    /\ ended = 0
    /\ announced = "none"
    /\ verdicts = [j \in Jobs |-> "absent"]
    /\ exit = "none"
    /\ summary = <<>>

\* A launch finds what the launches before it left.
Launch ==
    /\ ~running
    /\ running' = TRUE
    /\ exit' = "none"
    /\ UNCHANGED <<ended, announced, verdicts, summary>>

Announce(verdict) ==
    /\ running
    /\ ended < NJobs
    /\ announced = "none"
    /\ announced' = verdict
    /\ UNCHANGED <<running, ended, verdicts, exit, summary>>

Record ==
    /\ announced # "none"
    /\ ended' = ended + 1
    /\ verdicts' = [verdicts EXCEPT ![ended'] = announced]
    /\ announced' = "none"
    /\ UNCHANGED <<running, exit, summary>>

Report ==
    /\ running
    /\ ended = NJobs
    /\ summary' = verdicts
    /\ exit' = IF \A j \in Jobs : verdicts[j] = "ok" THEN "0" ELSE "1"
    /\ running' = FALSE
    /\ ended' = 0
    /\ UNCHANGED <<announced, verdicts>>

\* A kill, at any time: the verdict that was announced, or the summary that was
\* due, may be left cut short on disk.
Kill ==
    /\ running
    /\ \/ UNCHANGED <<verdicts, summary>>
       \/ /\ announced # "none"
          /\ verdicts' = [verdicts EXCEPT ![ended + 1] = "torn"]
          /\ UNCHANGED summary
       \/ /\ ended = NJobs
          /\ summary' = <<>>
          /\ UNCHANGED verdicts
    /\ running' = FALSE
    /\ ended' = 0
    /\ announced' = "none"
    /\ UNCHANGED exit

\* An exception, in the middle of a run or after one, the last one too; never
\* between a verdict's announcement and its file.
Raise ==
    /\ running
    /\ announced = "none"
    /\ exit' = "1"
    /\ running' = FALSE
    /\ ended' = 0
    /\ UNCHANGED <<announced, verdicts, summary>>

Next == Launch \/ (\E v \in Verdicts : Announce(v)) \/ Record \/ Report \/ Kill \/ Raise

Spec == Init /\ [][Next]_vars
=============================================================================
