----------------------------- MODULE MCLiveRun -----------------------------
(* A small instance of LiveRun: a watched Kubernetes source, with its loop *)
(* and an informer's error handler, beside a polled EKS source.            *)
EXTENDS LiveRun

CONSTANTS r1

MCMode == ("kubernetes" :> "watch") @@ ("eks" :> "poll")

\* a complete list; an answer that is not published is one without a snapshot
MCInputs == {[cov |-> (r1 :> "complete"), valid |-> TRUE]}
=============================================================================
