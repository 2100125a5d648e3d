---------------------------- MODULE MCRunReports ------------------------------
(***************************************************************************)
(* Plans of one or two steps, one by an agent that runs both, and another  *)
(* goal; four results of a step; two expectations, the first a blocker;    *)
(* gradings that follow the grader's prompt and one that does not.         *)
(***************************************************************************)
EXTENDS RunReports

MCStations == {"scout", "synthesizer"}
Scout == [owner |-> "scout", type |-> "JobList"]
Report == [owner |-> "synthesizer", type |-> "FinalReport"]
Helper == [owner |-> "helper", type |-> "FinalReport"]
MCPlans == {[goal |-> "g", steps |-> <<Scout, Report>>], [goal |-> "g", steps |-> <<Helper>>],
            [goal |-> "h", steps |-> <<Report>>], [goal |-> "g", steps |-> <<Scout, Scout>>]}

Good == [status |-> "ok", criteria |-> [x \in {"c"} |-> TRUE], calls |-> 1, ms |-> 1000,
         fp |-> "f", route |-> "p/m", cost |-> 1]
\* More calls, slower, by another route that has no price.
Costly == [Good EXCEPT !.calls = 2, !.ms = 1300, !.fp = "f2", !.route = "p/m2", !.cost = Unknown]
\* A criterion is lost, and the stub runtime has no route.
Weak == [Good EXCEPT !.criteria = [x \in {"c"} |-> FALSE], !.route = "", !.cost = Unknown]
Failed == [Good EXCEPT !.status = "failed", !.criteria = <<>>, !.ms = 1210]
MCResults == {Good, Costly, Weak, Failed}

MCOutputs == {[failed |-> FALSE, valid |-> "valid", stable |-> 1],
              [failed |-> FALSE, valid |-> "valid", stable |-> 2],
              [failed |-> FALSE, valid |-> "invalid", stable |-> 0]}

MCTypeOf == <<"FinalReport", "Prose">>
Graded(verdict, rate, blockerFailed) ==
    [verdict |-> verdict, blockers |-> {1}, rate |-> rate, blockerFailed |-> blockerFailed]
AllPass == Graded(<<"PASS", "PASS">>, 100, FALSE)
Undecisive == Graded(<<"INCONCLUSIVE", "FAIL">>, 0, FALSE)
\* What grader.py writes when the model raises.
NoAnswer == [Graded(<<"INCONCLUSIVE", "INCONCLUSIVE">>, 0, FALSE) EXCEPT !.blockers = {}]
\* The grader says what its results do not, and has none for the other expectation.
Incoherent == Graded(<<"PASS">>, 50, TRUE)
MCGradings == {AllPass, Graded(<<"FAIL", "PASS">>, 50, TRUE), Undecisive, NoAnswer, Incoherent}

MCBaselines ==
    LET plan == [goal |-> "g", steps |-> <<Scout, Report>>]
        valid == [failed |-> FALSE, valid |-> "valid", stable |-> 1]
    IN {Finished(plan, <<Good, Good>>, valid, <<g>>) : g \in {AllPass, Undecisive}}
       \cup {Finished([plan EXCEPT !.steps = <<Scout, Scout>>], <<Weak, Costly>>, valid, <<>>)}
=============================================================================
