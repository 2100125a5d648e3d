---------------------------- MODULE MCOpsConsole -----------------------------
(***************************************************************************)
(* Two stations, and one console that comes back.                          *)
(***************************************************************************)
EXTENDS OpsConsole

CONSTANTS scout, judge, c1, noStream

MCStations == {scout, judge}
MCStreams == {c1}
\* A run in its first step, launched on what a killed one left of a line; one that
\* was killed in its first step and launched again; one that is over.
MCBegun == <<RunLine("run.start"), RunLine("plan.created"), StepLine("step.start", scout)>>
MCBeginnings ==
    {[log |-> <<Junk>> \o Tail(MCBegun) \o <<StepLine("retry", scout)>>, writer |-> scout],
     [log |-> MCBegun \o <<RunLine("run.start"), RunLine("plan.created")>>, writer |-> "open"],
     [log |-> MCBegun \o <<StepLine("step.complete", scout), RunLine("run.complete")>>,
      writer |-> "off"]}
MCModes == {"bridge", "watch", "replay"}
MCBridge == {"bridge"}
=============================================================================
