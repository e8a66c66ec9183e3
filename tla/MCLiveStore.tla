---------------------------- MODULE MCLiveStore ----------------------------
(* A small instance of LiveStore: two sources of two resources.            *)
EXTENDS LiveStore

CONSTANTS r1, r2

MCMode == ("kubernetes" :> "watch") @@ ("eks" :> "poll")

Snap(c1, c2, ok) == [cov |-> (r1 :> c1) @@ (r2 :> c2), valid |-> ok]

\* everything read; one of two resources refused, not listed or half-read,
\* the last of these with a projection that does not validate
MCInputs ==
  {Snap("complete", "complete", TRUE), Snap("denied", "complete", TRUE),
   Snap("complete", "absent", TRUE), Snap("complete", "degraded", FALSE)}
=============================================================================
