---------------------------- MODULE StepContract ----------------------------
(***************************************************************************)
(* What the orchestrator may assume of one call of call_executor, whatever *)
(* the model behind it answers: the step uses the provider at most CallCap *)
(* times, runs no tool outside Permitted, and does nothing once closed.    *)
(***************************************************************************)
EXTENDS Naturals

CONSTANTS
    Permitted   \* the tools the step may run: whitelisted and not denied

VARIABLES
    phase,      \* "running" until the call returns or raises, then "closed"
    cap,        \* the provider replies the step's budget allows
    replies,    \* provider replies received so far
    executed    \* tools that have run, a side effect nothing takes back

vars == <<phase, cap, replies, executed>>

Init ==
    /\ phase = "running"
    /\ cap \in Nat
    /\ replies = 0
    /\ executed = {}

\* One more provider reply; it may be the one that closes the step.
Consult ==
    /\ phase = "running"
    /\ replies < cap
    /\ replies' = replies + 1
    /\ phase' \in {"running", "closed"}
    /\ UNCHANGED <<cap, executed>>

Run(t) ==
    /\ phase = "running"
    /\ executed' = executed \cup {t}
    /\ UNCHANGED <<phase, cap, replies>>

Close ==
    /\ phase = "running"
    /\ phase' = "closed"
    /\ UNCHANGED <<cap, replies, executed>>

Next == Consult \/ Close \/ \E t \in Permitted : Run(t)

Spec == Init /\ [][Next]_vars
=============================================================================
