----------------------------- MODULE MCJournal -----------------------------
(***************************************************************************)
(* Small instances of Journal for TLC: a worker with its coordinator and   *)
(* engine threads, and clients of the host that reconcile or release.      *)
(***************************************************************************)
EXTENDS Journal

CONSTANTS worker, client1, client2

WorkerAndClient == {<<worker, "main">>, <<worker, "engine">>, <<client1, "main">>}
TwoClients == {<<client1, "main">>, <<client2, "main">>}
WorkerAlone == {<<worker, "main">>, <<worker, "engine">>}
WorkerAndClientProcs == {worker, client1}
=============================================================================
