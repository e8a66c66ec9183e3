--------------------------- MODULE TopologyUpdate ---------------------------
(***************************************************************************)
(* The update protocol of the topology graph: Diff and Apply of            *)
(* internal/topology/update.go, and the browser's own applyTopologyUpdate  *)
(* (web/src/runtime/topology-update.ts).                                   *)
(*                                                                         *)
(* Nodes and edges are functions from their ids; Graph values carry what   *)
(* Validate looks at for an update: that the ends of every edge exist.     *)
(***************************************************************************)
EXTENDS Naturals

CONSTANTS GraphClusters, \* cluster identities
          NodeIds,       \* node ids
          EdgeIds,       \* edge ids
          Attributes     \* what else a node or an edge says; coverage too

Nodes == UNION {[N -> Attributes] : N \in SUBSET NodeIds}
Edges == UNION {[E -> [source : NodeIds, target : NodeIds, about : Attributes]] :
                 E \in SUBSET EdgeIds}
Graph == [cluster : GraphClusters, revision : Nat \ {0}, nodes : Nodes, edges : Edges,
          coverage : Attributes]
NoGraph == [cluster |-> "none"]

ASSUME GraphAssumption == "none" \notin GraphClusters

\* Graph.Validate
Valid(g) ==
  \A e \in DOMAIN g.edges : {g.edges[e].source, g.edges[e].target} \subseteq DOMAIN g.nodes

\* entries of new that old does not have or has otherwise, and those that went
UpsertsOfNew(old, new) ==  \* mutant: an entry that changed is not sent again
  [i \in DOMAIN new \ DOMAIN old |-> new[i]]
Upserts(old, new) ==
  [i \in {i \in DOMAIN new : i \notin DOMAIN old \/ old[i] # new[i]} |-> new[i]]
Deletes(old, new) == DOMAIN old \ DOMAIN new

\* deletions first, then insertions
Patch(old, deleted, upserted) ==
  [i \in (DOMAIN old \ deleted) \cup DOMAIN upserted |->
     IF i \in DOMAIN upserted THEN upserted[i] ELSE old[i]]

Full(g) ==
  [kind |-> "full", cluster |-> g.cluster, base |-> 0, revision |-> g.revision, graph |-> g]
Unchanged(g) ==
  [kind |-> "unchanged", cluster |-> g.cluster, base |-> g.revision, revision |-> g.revision]
Delta(old, new) ==
  [kind |-> "delta", cluster |-> new.cluster, base |-> old.revision, revision |-> new.revision,
   upsertNodes |-> Upserts(old.nodes, new.nodes), deleteNodes |-> Deletes(old.nodes, new.nodes),
   upsertEdges |-> Upserts(old.edges, new.edges), deleteEdges |-> Deletes(old.edges, new.edges),
   coverage |-> new.coverage]

\* A base that is missing, invalid, of another cluster or newer is answered in
\* full.  The current graph is valid, or Diff fails.
Diff(base, current) ==
  IF \/ base = NoGraph \/ ~Valid(base)
     \/ base.cluster # current.cluster \/ base.revision > current.revision
  THEN Full(current)
  ELSE IF base.revision < current.revision THEN Delta(base, current)
  ELSE IF base = current THEN Unchanged(current) ELSE Full(current)

\* Update.validateEnvelope
EnvelopeValid(u) ==
  /\ u.revision > 0
  /\ \/ u.kind = "full" /\ u.base = 0
     \/ u.kind = "delta" /\ u.base \in 1..u.revision - 1
     \/ u.kind = "unchanged" /\ u.base = u.revision

Patched(g, u) ==
  [g EXCEPT !.revision = u.revision, !.coverage = u.coverage,
            !.nodes = Patch(g.nodes, u.deleteNodes, u.upsertNodes),
            !.edges = Patch(g.edges, u.deleteEdges, u.upsertEdges)]

IfValid(g) == IF Valid(g) THEN g ELSE NoGraph

\* Apply; NoGraph stands for an error, which asks for a full resync
Apply(base, u) ==
  IF ~EnvelopeValid(u) THEN NoGraph
  ELSE IF u.kind = "full"
  THEN IF u.graph.cluster = u.cluster /\ u.graph.revision = u.revision
       THEN IfValid(u.graph) ELSE NoGraph
  ELSE IF base = NoGraph THEN NoGraph
  ELSE IF base.cluster # u.cluster THEN NoGraph
  ELSE IF base.revision = u.revision THEN base
  ELSE IF base.revision # u.base \/ u.kind = "unchanged" THEN NoGraph
  ELSE IfValid(Patched(base, u))

\* applyTopologyUpdate of the browser; NoGraph stands for null
ClientApply(current, u) ==
  IF u.kind = "full"
  THEN IF u.graph.cluster = u.cluster /\ u.graph.revision = u.revision THEN u.graph ELSE NoGraph
  ELSE IF current = NoGraph THEN NoGraph
  ELSE IF current.cluster # u.cluster THEN NoGraph
  ELSE IF current.revision = u.revision THEN current
  ELSE IF current.revision # u.base \/ u.revision < current.revision \/ u.kind # "delta"
  THEN NoGraph
  ELSE IfValid(Patched(current, u))
=============================================================================
