----------------------------- MODULE MCExecutor -----------------------------
(***************************************************************************)
(* A small executor: one tool of each kind (whitelisted or not, denied or  *)
(* not), three rounds, two retries, batches of up to two calls, budgets    *)
(* below, at and above what three rounds can use.                          *)
(***************************************************************************)
EXTENDS Executor

CONSTANTS search, lookup, sendMail, deleteAll

MCTools == {search, lookup, sendMail, deleteAll}
MCAllowed == {search, sendMail}
MCUnsafe == {sendMail, deleteAll}
=============================================================================
