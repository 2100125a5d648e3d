---------------------------- MODULE MCBenchmark -----------------------------
(***************************************************************************)
(* Two runs of up to two steps, one model call a step, and one relaunch    *)
(* over whatever a killed, failed or finished launch left.                 *)
(***************************************************************************)
EXTENDS Benchmark

MCStepCalls == {1}
=============================================================================
