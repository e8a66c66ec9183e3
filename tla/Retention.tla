----------------------------- MODULE Retention -----------------------------
(***************************************************************************)
(* What the live store promises its readers, stated without locks, states  *)
(* or errors: revisions count the accepted source updates one by one, each *)
(* one replaces the data of a single source, and a resource that a source  *)
(* has once shown is never lost from the served data.                      *)
(***************************************************************************)
EXTENDS Naturals

CONSTANTS Sources,      \* configured sources
          Resources     \* coverage keys of one source

VARIABLES revision,     \* number of accepted updates
          showing,      \* sources with served data
          held          \* held[s]: the resources s has shown

rvars == <<revision, showing, held>>

RetentionInit ==
  /\ revision = 0
  /\ showing = {}
  /\ held = [s \in Sources |-> {}]

Accept(s) ==
  \E R \in SUBSET Resources :
    /\ held[s] \subseteq R
    /\ revision' = revision + 1
    /\ showing' = showing \cup {s}
    /\ held' = [held EXCEPT ![s] = R]

RetentionNext == \E s \in Sources : Accept(s)

RetentionSpec == RetentionInit /\ [][RetentionNext]_rvars
=============================================================================
