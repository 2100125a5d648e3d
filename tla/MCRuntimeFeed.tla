--------------------------- MODULE MCRuntimeFeed ----------------------------
(***************************************************************************)
(* Two logs that share two step ids, two stations of which the registry    *)
(* knows one, and a roster of one: the second task finds it full unless the *)
(* operator retired the agent of the first.                                *)
(***************************************************************************)
EXTENDS RuntimeFeed

CONSTANTS s1, s2, scout, writer, log1, log2, noStation, noWorker

MCSteps == {s1, s2}
MCStations == {scout, writer}
MCRegistered == {scout}
MCFeeds == {log1, log2}
MCThreads == {"ticker", "server"}
=============================================================================
