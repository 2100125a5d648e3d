------------------------------ MODULE MCScaffold -------------------------------
(***************************************************************************)
(* Two processes, three scaffolds of two agents.  The crew is shipped as a *)
(* diamond, its edges in order, or was given a long and a short way by     *)
(* hand, its edges against the order.                                      *)
(***************************************************************************)
EXTENDS Scaffold

CONSTANTS entry, technical, compliance, strategist, scout, judge, domain, core, p1, p2, noCrew

MCAgents == {entry, technical, compliance, strategist, scout, judge}
MCRoles == {domain, core}
MCProcesses == {p1, p2}

Crew == {domain} \X {entry, technical, compliance, strategist}
Diamond == [agents |-> Crew,
            edges |-> <<<<entry, technical>>, <<entry, compliance>>,
                        <<technical, strategist>>, <<compliance, strategist>>>>]
LongAndShort == [agents |-> Crew,
                 edges |-> <<<<compliance, strategist>>, <<technical, compliance>>,
                             <<entry, strategist>>, <<entry, technical>>>>]
MCShipped == {Diamond, LongAndShort}

\* An agent after the last one, the same name under another role, one after the
\* first, one after the new one, and one without a crew.
MCCommandLines ==
    {[name |-> scout, role |-> domain, after |-> strategist],
     [name |-> scout, role |-> core, after |-> noCrew],
     [name |-> judge, role |-> domain, after |-> entry],
     [name |-> judge, role |-> domain, after |-> scout]}
MCSymmetry == Permutations(MCProcesses)
=============================================================================
