------------------------------ MODULE HubStore ------------------------------
(***************************************************************************)
(* The hub's in-memory fleet (internal/hub/store.go): the latest accepted  *)
(* envelope of every cluster and a bounded history of its topology graphs. *)
(* Put is the only method that changes it, under one mutex.  An envelope   *)
(* is validated and completed by CompleteEnvelope (model.go) first.        *)
(***************************************************************************)
EXTENDS Integers, Sequences, SequencesExt

CONSTANTS Clusters,     \* cluster identities
          NoId,         \* the empty cluster id
          Tags,         \* tells apart envelopes of the same cluster and revision
          Revisions,    \* revisions an envelope may carry
          MaxGraphs,    \* maxGraphRevisions in the code (16)
          NoEnvelope,   \* a cluster that never reported
          NoGraph       \* an envelope without a topology graph

ASSUME HubAssumption ==
  /\ NoId \notin Clusters /\ Revisions \subseteq Nat /\ MaxGraphs \in Nat \ {0}

Graph == [cluster : Clusters, revision : Revisions, valid : BOOLEAN]

ASSUME GraphAssumption == NoGraph \notin Graph

\* What a collector posts.  "derived" is the identity DeriveCluster finds in
\* the snapshot, and "projects" whether the snapshot's own graph validates.
Envelope ==
  [id : Clusters \cup {NoId}, revision : Revisions, tag : Tags,
   snapshot : BOOLEAN, derived : Clusters \cup {NoId}, projects : BOOLEAN,
   graph : Graph \cup {NoGraph}]
\* What the hub keeps of it.
Stored == [revision : Revisions, tag : Tags, snapshot : BOOLEAN, graph : Graph \cup {NoGraph}]

ASSUME StoredAssumption == NoEnvelope \notin Stored \cup Envelope

VARIABLES latest,     \* latest[c]: the accepted envelope, or NoEnvelope
          graphs,     \* graphs[c]: retained graphs, oldest first
          fleet       \* the fleet revision

hubVars == <<latest, graphs, fleet>>

HubInit ==
  /\ latest = [c \in Clusters |-> NoEnvelope]
  /\ graphs = [c \in Clusters |-> <<>>]
  /\ fleet = 0

\* mergeCluster: an explicit id wins over the snapshot's
ClusterOf(env) == IF env.id = NoId /\ env.snapshot THEN env.derived ELSE env.id

\* the graph sent along, or the projection of the snapshot
GraphOf(env) ==
  IF env.graph # NoGraph \/ ~env.snapshot THEN env.graph
  ELSE [cluster |-> ClusterOf(env), revision |-> env.revision, valid |-> env.projects]

GraphFits(g, c, rev) == g = NoGraph \/ (g.valid /\ g.revision = rev /\ g.cluster = c)

\* CompleteEnvelope returns no error
Complete(env) ==
  /\ ClusterOf(env) # NoId
  /\ env.revision # 0
  /\ GraphFits(GraphOf(env), ClusterOf(env), env.revision)

\* duplicate and older revisions are ignored, with the same answer
\* mutants: a duplicate replaces the row; so does whatever arrives
NewerOrSame(env) ==
  latest[ClusterOf(env)] = NoEnvelope \/ latest[ClusterOf(env)].revision <= env.revision
LastWriteWins(env) == TRUE
Newer(env) ==
  \/ latest[ClusterOf(env)] = NoEnvelope
  \/ latest[ClusterOf(env)].revision < env.revision

\* the history keeps the last MaxGraphs graphs
Extend(h, g) ==
  LET longer == Append(h, g)
  IN  IF Len(longer) > MaxGraphs
      THEN SubSeq(longer, Len(longer) - MaxGraphs + 1, Len(longer)) ELSE longer
GrownAlways(h, g) == Extend(h, g)  \* mutant: a missing graph is appended too
Grown(h, g) == IF g = NoGraph THEN h ELSE Extend(h, g)

Accept(env, c) ==
  /\ latest' = [latest EXCEPT ![c] =
       [revision |-> env.revision, tag |-> env.tag,
        snapshot |-> env.snapshot, graph |-> GraphOf(env)]]
  /\ graphs' = [graphs EXCEPT ![c] = Grown(@, GraphOf(env))]
  /\ fleet' = fleet + 1

PutCounting(env) ==  \* mutant: ignored envelopes count as well
  IF Complete(env) /\ Newer(env) THEN Accept(env, ClusterOf(env))
  ELSE fleet' = fleet + 1 /\ UNCHANGED <<latest, graphs>>
Put(env) ==
  IF Complete(env) /\ Newer(env) THEN Accept(env, ClusterOf(env)) ELSE UNCHANGED hubVars

HubNext == \E env \in Envelope : Put(env)

HubSpec == HubInit /\ [][HubNext]_hubVars

-----------------------------------------------------------------------------
HubTypeOK ==
  /\ latest \in [Clusters -> Stored \cup {NoEnvelope}]
  /\ graphs \in [Clusters -> Seq(Graph)]
  /\ fleet \in Nat

\* The graph history of a cluster stays bounded, in revision order and never
\* ahead of the envelope on display; the graph on display is its newest entry,
\* so the drilldown page and its delta endpoint speak of the same graph.
HistoryOf(h, c, env) ==
  /\ Len(h) <= MaxGraphs
  /\ \A i, j \in 1..Len(h) : i < j => h[i].revision < h[j].revision
  /\ \A i \in 1..Len(h) : h[i].valid /\ h[i].cluster = c /\ h[i].revision <= env.revision
  /\ env.graph # NoGraph => h # <<>> /\ h[Len(h)] = env.graph
HistoryFollowsLatest ==
  \A c \in Clusters :
    IF latest[c] = NoEnvelope THEN graphs[c] = <<>> ELSE HistoryOf(graphs[c], c, latest[c])

\* Whatever is delivered late, twice or out of order, a cluster's row never
\* goes back to an older revision and never changes under the same one.
Advances(c) ==
  latest[c] # NoEnvelope =>
    /\ latest'[c] # NoEnvelope
    /\ \/ latest'[c] = latest[c] /\ graphs'[c] = graphs[c]
       \/ latest'[c].revision > latest[c].revision
RowsNeverGoBack == [][\A c \in Clusters : Advances(c)]_hubVars

\* The fleet revision, which browsers poll, moves exactly when one row does.
FleetCountsRows ==
  [][IF fleet' = fleet THEN latest' = latest
     ELSE \E c \in Clusters : /\ latest'[c] # latest[c]
                              /\ \A d \in Clusters \ {c} : latest'[d] = latest[d]]_hubVars
=============================================================================
