--------------------------- MODULE MCWatchRuntime ---------------------------
(* Two informers of the typed client and one Gateway API informer.         *)
EXTENDS WatchRuntime
=============================================================================
