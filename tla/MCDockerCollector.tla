------------------------- MODULE MCDockerCollector --------------------------
(***************************************************************************)
(* One container, with enough changes for it to be created, started,       *)
(* stopped, started again and destroyed.                                   *)
(***************************************************************************)
EXTENDS DockerCollector

CONSTANT c1

MCContainers == {c1}
=============================================================================
