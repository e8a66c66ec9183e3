-------------------------- MODULE ReportStoreProofs --------------------------
(***************************************************************************)
(* Proofs about the topology updates for any graphs, about the graphs that *)
(* a server keeps for any number of publications and restarts, and about   *)
(* the page that polls it while requests fail, answers come late and       *)
(* readers ask for analyses: it shows one publication until it outlives    *)
(* its server.                                                             *)
(***************************************************************************)
EXTENDS ReportStore, TLAPS

\* Deleting what went and inserting what is new or changed gives the new map.
LEMMA PatchGivesNew ==
  ASSUME NEW old, NEW new, new = [i \in DOMAIN new |-> new[i]]
  PROVE  Patch(old, Deletes(old, new), Upserts(old, new)) = new
<1> DEFINE up == Upserts(old, new)
           out == Patch(old, Deletes(old, new), up)
<1>1. DOMAIN up = {i \in DOMAIN new : i \notin DOMAIN old \/ old[i] # new[i]}
      /\ \A i \in DOMAIN up : up[i] = new[i]
  BY DEF Upserts
<1>2. (DOMAIN old \ Deletes(old, new)) \cup DOMAIN up = DOMAIN new
  BY <1>1 DEF Deletes
<1>3. out = [i \in DOMAIN new |-> IF i \in DOMAIN up THEN up[i] ELSE old[i]]
  BY <1>2 DEF Patch
<1>4. \A i \in DOMAIN new : (IF i \in DOMAIN up THEN up[i] ELSE old[i]) = new[i]
  BY <1>1
<1>5. QED
  BY <1>3, <1>4

\* Nodes and edges of a graph are functions, and no graph is NoGraph.
LEMMA GraphShape ==
  ASSUME NEW g \in Graph
  PROVE  /\ g.nodes = [i \in DOMAIN g.nodes |-> g.nodes[i]]
         /\ g.edges = [i \in DOMAIN g.edges |-> g.edges[i]]
         /\ g = [cluster |-> g.cluster, revision |-> g.revision, nodes |-> g.nodes,
                 edges |-> g.edges, coverage |-> g.coverage]
         /\ g # NoGraph
         /\ g.cluster \in GraphClusters
<1>1. PICK N \in SUBSET NodeIds : g.nodes \in [N -> Attributes]
  BY DEF Graph, Nodes
<1>2. PICK E \in SUBSET EdgeIds :
        g.edges \in [E -> [source : NodeIds, target : NodeIds, about : Attributes]]
  BY DEF Graph, Edges
<1>3. g.cluster \in GraphClusters /\ NoGraph.cluster = "none"
  BY DEF Graph, NoGraph
<1>4. g # NoGraph
  BY <1>3, GraphAssumption
<1>5. QED
  BY <1>1, <1>2, <1>3, <1>4 DEF Graph

LEMMA GraphRevision == \A g \in Graph : g.revision \in Nat \ {0}
BY DEF Graph

\* A client that holds the base, and one that holds nothing, both get the
\* current graph out of the update that was made for them.
LEMMA UpdateRoundTrip ==
  ASSUME NEW base \in Graph, NEW current \in Graph, Valid(base), Valid(current)
  PROVE  /\ Apply(base, Diff(base, current)) = current
         /\ ClientApply(base, Diff(base, current)) = current
<1> DEFINE u == Diff(base, current)
<1>0. /\ base # NoGraph /\ base.revision \in Nat \ {0}
      /\ current # NoGraph /\ current.revision \in Nat \ {0}
  BY GraphShape, GraphRevision
<1>1. CASE base.cluster # current.cluster \/ base.revision > current.revision
  <2>1. u = Full(current)
    BY <1>1 DEF Diff
  <2>2. QED
    BY <1>0, <2>1 DEF Apply, ClientApply, Full, EnvelopeValid, IfValid
<1>2. CASE base.cluster = current.cluster /\ base.revision < current.revision
  <2>1. u = Delta(base, current)
    BY <1>0, <1>2 DEF Diff
  <2>2. Patched(base, u) = current
    <3>1. /\ Patch(base.nodes, u.deleteNodes, u.upsertNodes) = current.nodes
          /\ Patch(base.edges, u.deleteEdges, u.upsertEdges) = current.edges
          /\ u.revision = current.revision /\ u.coverage = current.coverage
      <4>1. /\ u.deleteNodes = Deletes(base.nodes, current.nodes)
            /\ u.upsertNodes = Upserts(base.nodes, current.nodes)
            /\ u.deleteEdges = Deletes(base.edges, current.edges)
            /\ u.upsertEdges = Upserts(base.edges, current.edges)
            /\ u.revision = current.revision /\ u.coverage = current.coverage
        BY <2>1 DEF Delta
      <4>2. /\ current.nodes = [i \in DOMAIN current.nodes |-> current.nodes[i]]
            /\ current.edges = [i \in DOMAIN current.edges |-> current.edges[i]]
        BY GraphShape
      <4>3. Patch(base.nodes, Deletes(base.nodes, current.nodes),
                  Upserts(base.nodes, current.nodes)) = current.nodes
        BY <4>2, PatchGivesNew, Zenon
      <4>4. Patch(base.edges, Deletes(base.edges, current.edges),
                  Upserts(base.edges, current.edges)) = current.edges
        BY <4>2, PatchGivesNew, Zenon
      <4> HIDE DEF u
      <4>5. QED
        BY <4>1, <4>3, <4>4
    <3>2. /\ base = [cluster |-> base.cluster, revision |-> base.revision, nodes |-> base.nodes,
                     edges |-> base.edges, coverage |-> base.coverage]
          /\ current = [cluster |-> current.cluster, revision |-> current.revision,
                        nodes |-> current.nodes, edges |-> current.edges,
                        coverage |-> current.coverage]
      BY GraphShape
    <3>3. QED
      BY <1>2, <3>1, <3>2 DEF Patched
  <2>3. EnvelopeValid(u) /\ u.kind = "delta" /\ u.base = base.revision
        /\ u.revision = current.revision /\ u.cluster = base.cluster
    BY <1>0, <1>2, <2>1 DEF Delta, EnvelopeValid
  <2>4. QED
    BY <1>0, <1>2, <2>2, <2>3 DEF Apply, ClientApply, IfValid
<1>3. CASE base.cluster = current.cluster /\ base.revision = current.revision
  <2>1. CASE base = current
    <3>1. u = Unchanged(current)
      BY <1>0, <1>3, <2>1 DEF Diff
    <3>2. u.kind = "unchanged" /\ u.cluster = base.cluster /\ u.revision = base.revision
          /\ u.base = base.revision
      BY <2>1, <3>1 DEF Unchanged
    <3>3. EnvelopeValid(u)
      BY <1>0, <3>2 DEF EnvelopeValid
    <3> HIDE DEF u
    <3>4. Apply(base, u) = base
      BY <1>0, <3>2, <3>3 DEF Apply
    <3>5. ClientApply(base, u) = base
      BY <1>0, <3>2 DEF ClientApply
    <3> USE DEF u
    <3>6. QED
      BY <2>1, <3>4, <3>5
  <2>2. CASE base # current
    <3>1. u = Full(current)
      BY <1>0, <1>3, <2>2 DEF Diff
    <3>2. QED
      BY <1>0, <3>1 DEF Apply, ClientApply, Full, EnvelopeValid, IfValid
  <2>3. QED
    BY <2>1, <2>2
<1>4. QED
  BY <1>0, <1>1, <1>2, <1>3

LEMMA FullIsTaken ==
  ASSUME NEW current \in Graph, Valid(current), NEW base
  PROVE  /\ Apply(base, Full(current)) = current
         /\ ClientApply(base, Full(current)) = current
<1>1. current # NoGraph /\ current.revision \in Nat \ {0}
  BY GraphShape, GraphRevision
<1>2. QED
  BY <1>1 DEF Apply, ClientApply, Full, EnvelopeValid, IfValid

-----------------------------------------------------------------------------
\* Graphs that are valid, each newer than the ones before it and none newer than n.
Ordered(h, n) ==
  /\ h \in Seq(Graph)
  /\ \A i \in 1..Len(h) : Valid(h[i]) /\ h[i].revision <= n
  /\ \A i, j \in 1..Len(h) : i < j => h[i].revision < h[j].revision

\* What the server keeps of its publications.
HistoryInv ==
  /\ body \in [process : Nat, revision : Nat, events : Nat, graph : Graph \cup {NoGraph}]
  /\ Ordered(history, body.revision)

LEMMA OrderedElements ==
  ASSUME NEW h, NEW n, Ordered(h, n)
  PROVE  /\ Len(h) \in Nat
         /\ \A i \in 1..Len(h) : h[i] \in Graph /\ h[i].revision \in Nat \ {0}
<1>1. h \in Seq(Graph)
  BY DEF Ordered
<1>2. QED
  BY <1>1, GraphRevision

LEMMA OrderedLater ==
  ASSUME NEW h, NEW n \in Nat, Ordered(h, n)
  PROVE  Ordered(h, n + 1)
<1>1. \A i \in 1..Len(h) : h[i].revision \in Nat
  BY OrderedElements
<1>2. QED
  BY <1>1 DEF Ordered

LEMMA OrderedExtends ==
  ASSUME NEW h, NEW n \in Nat, Ordered(h, n), NEW g \in Graph, Valid(g), g.revision = n + 1
  PROVE  Ordered(Append(h, g), n + 1)
<1> DEFINE k == Append(h, g)
<1>1. h \in Seq(Graph) /\ Len(h) \in Nat
  BY DEF Ordered
<1>2. /\ k \in Seq(Graph) /\ Len(k) = Len(h) + 1 /\ k[Len(h) + 1] = g
      /\ \A i \in 1..Len(h) : k[i] = h[i]
  BY <1>1
<1>3. \A i \in 1..Len(h) : Valid(h[i]) /\ h[i].revision \in Nat /\ h[i].revision <= n
  BY OrderedElements DEF Ordered
<1>4. \A i, j \in 1..Len(h) : i < j => h[i].revision < h[j].revision
  BY DEF Ordered
<1> HIDE DEF k
<1>5. \A i \in 1..Len(k) : Valid(k[i]) /\ k[i].revision <= n + 1
  BY <1>1, <1>2, <1>3
<1>6. \A i, j \in 1..Len(k) : i < j => k[i].revision < k[j].revision
  BY <1>1, <1>2, <1>3, <1>4
<1>7. Ordered(k, n + 1)
  BY <1>2, <1>5, <1>6 DEF Ordered
<1>8. QED
  BY <1>7 DEF k

LEMMA OrderedTail ==
  ASSUME NEW h, NEW n, Ordered(h, n), Len(h) > 1
  PROVE  Ordered(SubSeq(h, 2, Len(h)), n)
<1> DEFINE t == SubSeq(h, 2, Len(h))
<1>1. h \in Seq(Graph) /\ Len(h) \in Nat
  BY DEF Ordered
<1>2. /\ t \in Seq(Graph) /\ Len(t) = Len(h) - 1
      /\ \A i \in 1..Len(t) : i + 1 \in 1..Len(h) /\ t[i] = h[i + 1]
  BY <1>1
<1> HIDE DEF t
<1>3. \A i \in 1..Len(t) : Valid(t[i]) /\ t[i].revision <= n
  BY <1>2 DEF Ordered
<1>4. \A i, j \in 1..Len(t) : i < j => t[i].revision < t[j].revision
  <2> SUFFICES ASSUME NEW i \in 1..Len(t), NEW j \in 1..Len(t), i < j
               PROVE  t[i].revision < t[j].revision
    OBVIOUS
  <2>1. h[i + 1].revision < h[j + 1].revision
    BY <1>1, <1>2 DEF Ordered
  <2>2. QED
    BY <1>2, <2>1
<1>5. Ordered(t, n)
  BY <1>2, <1>3, <1>4 DEF Ordered
<1>6. QED
  BY <1>5 DEF t

\* A publication's graph is a graph of the next revision.
LEMMA ContentIsGraph ==
  ASSUME NEW content \in Contents, NEW n \in Nat
  PROVE  LET g == [content EXCEPT !.revision = n + 1]
         IN  g \in Graph /\ g.revision = n + 1
<1>1. content \in [cluster : GraphClusters, revision : {0}, nodes : Nodes,
                   edges : Edges, coverage : Attributes]
  BY ReportAssumption
<1> HIDE DEF Nodes, Edges
<1>2. QED
  BY <1>1 DEF Graph

\* A publication is the next revision; if its graph is valid it is the only new
\* one among the graphs kept.
LEMMA PublishStep ==
  ASSUME HistoryInv, NEW c \in Contents, Publish(c)
  PROVE  /\ HistoryInv'
         /\ body'.process = body.process /\ body'.revision = body.revision + 1
         /\ \E g \in Graph :
              /\ g.revision = body.revision + 1 /\ body'.graph = IfValid(g)
              /\ \A i \in 1..Len(history') :
                   \/ Valid(g) /\ history'[i] = g
                   \/ \E j \in 1..Len(history) : history'[i] = history[j]
<1> DEFINE next(g) ==
             LET longer == Append(history, g)
             IN  /\ body' = [process |-> body.process, revision |-> g.revision,
                             events |-> body.events, graph |-> IfValid(g)]
                 /\ history' = IF ~Valid(g) THEN history
                               ELSE IF Len(longer) > MaxGraphs
                               THEN SubSeq(longer, 2, Len(longer)) ELSE longer
<1>0. /\ body \in [process : Nat, revision : Nat, events : Nat, graph : Graph \cup {NoGraph}]
      /\ body.revision \in Nat /\ Ordered(history, body.revision)
      /\ history \in Seq(Graph) /\ Len(history) \in Nat /\ MaxGraphs \in Nat \ {0}
  BY ReportAssumption, OrderedElements DEF HistoryInv, Ordered
<1>1. next([c EXCEPT !.revision = body.revision + 1])
  BY Zenon DEF Publish
<1>2. PICK g \in Graph : g.revision = body.revision + 1 /\ next(g)
  <2> HIDE DEF next
  <2>1. QED
    BY <1>0, <1>1, ContentIsGraph
<1> DEFINE kept == Append(history, g)
<1>3. /\ body'.process = body.process /\ body'.revision = body.revision + 1
      /\ body'.graph = IfValid(g)
      /\ body' \in [process : Nat, revision : Nat, events : Nat, graph : Graph \cup {NoGraph}]
  <2>1. body' = [process |-> body.process, revision |-> g.revision,
                 events |-> body.events, graph |-> IfValid(g)]
    BY <1>2
  <2>2. IfValid(g) \in Graph \cup {NoGraph}
    BY DEF IfValid
  <2>3. QED
    BY <1>0, <1>2, <2>1, <2>2
<1>4. /\ Ordered(history', body.revision + 1)
      /\ \A i \in 1..Len(history') :
           \/ Valid(g) /\ history'[i] = g
           \/ \E j \in 1..Len(history) : history'[i] = history[j]
  <2>1. CASE ~Valid(g)
    BY <1>0, <1>2, <2>1, OrderedLater
  <2>2. CASE Valid(g)
    <3>1. Ordered(kept, body.revision + 1)
      BY <1>0, <1>2, <2>2, OrderedExtends
    <3>2. /\ kept \in Seq(Graph) /\ Len(kept) = Len(history) + 1 /\ kept[Len(history) + 1] = g
          /\ \A i \in 1..Len(history) : kept[i] = history[i]
      BY <1>0
    <3>3. CASE Len(kept) > MaxGraphs
      <4>1. history' = SubSeq(kept, 2, Len(kept))
        BY <1>2, <2>2, <3>3
      <4> HIDE DEF kept
      <4>2. Len(kept) > 1
        BY <1>0, <3>1, <3>3, OrderedElements
      <4>3. Ordered(history', body.revision + 1)
        BY <3>1, <4>1, <4>2, OrderedTail
      <4>4. Len(history') = Len(kept) - 1 /\ \A i \in 1..Len(history') : history'[i] = kept[i + 1]
        BY <1>0, <3>2, <4>1
      <4>5. QED
        BY <1>0, <2>2, <3>2, <4>3, <4>4
    <3>4. CASE ~(Len(kept) > MaxGraphs)
      <4>1. history' = kept
        BY <1>2, <2>2, <3>4
      <4> HIDE DEF kept
      <4>2. QED
        BY <1>0, <2>2, <3>1, <3>2, <4>1
    <3>5. QED
      BY <3>3, <3>4
  <2>3. QED
    BY <2>1, <2>2
<1>5. QED
  BY <1>2, <1>3, <1>4 DEF HistoryInv

LEMMA BrowserKeepsServer ==
  ASSUME Refresh \/ Fail \/ Pause \/ Analyze \/ UNCHANGED reportVars
  PROVE  UNCHANGED <<body, history>>
BY DEF Refresh, Fail, Pause, Analyze, reportVars, serverVars, Ask, AnswerSnapshot,
   Unmodified, Read, AnswerDelta, ApplyDelta, Finish, AskAnalysis, AnswerAnalysis,
   ReceiveAnalysis, CloseAnalysis

\* Only the server's actions change what it keeps.
LEMMA HistoryInvariant == ReportSpec => []HistoryInv
<1>1. ReportInit => HistoryInv
  BY DEF ReportInit, HistoryInv, Ordered
<1>2. HistoryInv /\ [ReportNext]_reportVars => HistoryInv'
  <2> SUFFICES ASSUME HistoryInv, [ReportNext]_reportVars PROVE HistoryInv'
    OBVIOUS
  <2>1. ASSUME NEW c \in Contents, Publish(c) PROVE HistoryInv'
    BY <2>1, PublishStep
  <2>2. CASE ChangeStatus
    BY <2>2 DEF ChangeStatus, HistoryInv
  <2>3. CASE Restart
    BY <2>3 DEF Restart, HistoryInv, Ordered
  <2>4. CASE Refresh \/ Fail \/ Pause \/ Analyze \/ UNCHANGED reportVars
    BY <2>4, BrowserKeepsServer DEF HistoryInv
  <2>5. QED
    BY <2>1, <2>2, <2>3, <2>4 DEF ReportNext, Server
<1>3. QED
  BY <1>1, <1>2, PTL DEF ReportSpec

\* Whatever is published, invalid graphs included, and however short the kept
\* history: the update served for a kept revision, or for one that is no longer
\* kept, leads the client to the newest graph.
THEOREM EveryBaseAlwaysCatchesUp == ReportSpec => []EveryBaseCatchesUp
<1>1. HistoryInv => EveryBaseCatchesUp
  <2> SUFFICES ASSUME HistoryInv, history # <<>> PROVE EveryBaseCatchesUp
    BY DEF EveryBaseCatchesUp
  <2> DEFINE newest == history[Len(history)]
  <2>1. Len(history) \in Nat \ {0} /\ newest \in Graph /\ Valid(newest)
        /\ \A i \in 1..Len(history) : history[i] \in Graph /\ Valid(history[i])
                                       /\ history[i].revision \in Nat \ {0}
    <3>1. history \in Seq(Graph) /\ Ordered(history, body.revision)
      BY DEF HistoryInv, Ordered
    <3>2. Len(history) \in Nat \ {0}
      BY <3>1
    <3>3. \A i \in 1..Len(history) : history[i] \in Graph /\ history[i].revision \in Nat \ {0}
      BY <3>1, OrderedElements
    <3>4. \A i \in 1..Len(history) : Valid(history[i])
      BY <3>1 DEF Ordered
    <3>5. QED
      BY <3>2, <3>3, <3>4
  <2>2. ASSUME NEW i \in 1..Len(history) PROVE Base(history[i].revision) = history[i]
    <3>1. {k \in 1..Len(history) : history[k].revision = history[i].revision} = {i}
      BY <2>1 DEF HistoryInv, Ordered
    <3>2. QED
      BY <3>1 DEF Base
  <2>3. \A i \in 1..Len(history) :
          LET u == Served(history[i].revision)
          IN  Apply(history[i], u) = newest /\ ClientApply(history[i], u) = newest
    BY <2>1, <2>2, UpdateRoundTrip DEF Served
  <2>4. Base(0) = NoGraph
    BY <2>1 DEF Base
  <2>5. Served(0) = Full(newest)
    BY <2>4 DEF Served, Diff
  <2>6. Apply(NoGraph, Served(0)) = newest /\ ClientApply(NoGraph, Served(0)) = newest
    BY <2>1, <2>5, FullIsTaken
  <2>7. QED
    BY <2>3, <2>6 DEF EveryBaseCatchesUp
<1>2. QED
  BY <1>1, HistoryInvariant, PTL
-----------------------------------------------------------------------------
\* What a response of the server carries.
Publication == [process : Nat, revision : Nat, events : Nat, graph : Graph \cup {NoGraph}]

\* A graph shown for revision rev is the server's own, if the server still has it.
Agrees(g, rev) == \A i \in 1..Len(history) : history[i].revision = rev => g = history[i]

\* What process, revision and graph say of the running server is true.
Current(process, revision, graph) ==
  process = body.process =>
    /\ revision <= body.revision
    /\ graph # NoGraph => graph.revision = revision
    /\ Agrees(graph, revision)

\* The page has not outlived the server it was loaded from.  Once it has, it stays so.
OneServer == page.loading \/ page.from = body.process

BodyInv == HistoryInv /\ Current(body.process, body.revision, body.graph)

PageInv ==
  /\ page \in [snapshot : Nat \X Nat, graph : Graph \cup {NoGraph}, revision : Nat,
               loading : BOOLEAN, stale : BOOLEAN, from : Nat]
  /\ IF page.loading THEN page.graph = NoGraph
     ELSE /\ page.snapshot[2] = page.revision
          /\ page.from <= page.snapshot[1] /\ page.snapshot[1] <= body.process
          /\ OneServer => Current(page.snapshot[1], page.revision, page.graph)

\* A delta is only asked for beside a graph, and that graph stays on the page
\* until the answer is applied: what the browser makes of the answer is the
\* server's own graph, of whatever revision the answer was.
Received == refresh.at \in {"received", "delta", "answered", "ready"}
DataInv ==
  /\ Received =>
       /\ refresh.data \in Publication /\ refresh.data.process <= body.process
       /\ ~page.loading => page.from <= refresh.data.process
       /\ OneServer => Current(refresh.data.process, refresh.data.revision, refresh.data.graph)
  /\ refresh.at \in {"delta", "answered"} => ~page.loading /\ page.graph # NoGraph
  /\ refresh.at = "delta" => refresh.since = page.graph.revision
  /\ refresh.at = "answered" =>
       LET g == ClientApply(page.graph, refresh.update)
       IN  /\ g \in Graph \cup {NoGraph}
           /\ OneServer /\ g # NoGraph => Current(body.process, g.revision, g)

AnalysisInv ==
  /\ analysis.at \in {"asked", "answered", "displayed"} => ~page.loading
  /\ analysis.at = "answered" =>
       /\ analysis.of \in Nat \X Nat /\ analysis.of[2] = analysis.revision
       /\ page.from <= analysis.of[1] /\ analysis.of[1] <= body.process
  /\ analysis.at = "displayed" /\ body.process = page.from => analysis.of = analysis.beside

ReportInv == BodyInv /\ PageInv /\ DataInv /\ AnalysisInv

LEMMA ServerKeepsCurrent ==
  ASSUME HistoryInv, Server, NEW p \in Nat, p <= body.process, NEW r \in Nat, NEW g,
         Current(p, r, g)
  PROVE  Current(p, r, g)'
<1>0. /\ body.process \in Nat /\ body.revision \in Nat
      /\ \A j \in 1..Len(history) : history[j].revision \in Nat /\ history[j].revision <= body.revision
  <2>1. Ordered(history, body.revision)
    BY DEF HistoryInv
  <2>2. \A j \in 1..Len(history) : history[j].revision \in Nat
    BY <2>1, OrderedElements
  <2>3. QED
    BY <2>1, <2>2 DEF HistoryInv, Ordered
<1>1. ASSUME NEW c \in Contents, Publish(c) PROVE Current(p, r, g)'
  <2>1. PICK f \in Graph :
          /\ f.revision = body.revision + 1
          /\ \A i \in 1..Len(history') :
               \/ Valid(f) /\ history'[i] = f
               \/ \E j \in 1..Len(history) : history'[i] = history[j]
    BY <1>1, PublishStep
  <2>2. body'.process = body.process /\ body'.revision = body.revision + 1
    BY <1>1, PublishStep
  <2> SUFFICES ASSUME p = body.process
               PROVE  /\ r <= body'.revision
                      /\ g # NoGraph => g.revision = r
                      /\ \A i \in 1..Len(history') : history'[i].revision = r => g = history'[i]
    BY <2>2 DEF Current, Agrees
  <2>3. r <= body.revision /\ (g # NoGraph => g.revision = r)
        /\ \A j \in 1..Len(history) : history[j].revision = r => g = history[j]
    BY DEF Current, Agrees
  <2>4. f.revision # r
    BY <1>0, <2>1, <2>3
  <2>5. QED
    BY <1>0, <2>1, <2>2, <2>3, <2>4
<1>2. CASE ChangeStatus
  BY <1>2 DEF ChangeStatus, Current, Agrees, HistoryInv
<1>3. CASE Restart
  <2>1. body'.process = body.process + 1
    BY <1>3 DEF Restart
  <2>2. p # body'.process
    BY <1>0, <2>1
  <2>3. QED
    BY <2>2 DEF Current
<1>4. QED
  BY <1>1, <1>2, <1>3 DEF Server

\* The process and its revisions.
LEMMA ServerFacts ==
  ASSUME HistoryInv, Server
  PROVE  /\ HistoryInv' /\ body.process \in Nat /\ body'.process \in Nat
         /\ body'.process = body.process \/ body'.process = body.process + 1
         /\ UNCHANGED browserVars
<1>1. ASSUME NEW c \in Contents, Publish(c)
      PROVE  /\ HistoryInv' /\ body'.process = body.process /\ UNCHANGED browserVars
  BY <1>1, PublishStep DEF Publish
<1>2. CASE ChangeStatus
  BY <1>2 DEF ChangeStatus, HistoryInv
<1>3. CASE Restart
  BY <1>3 DEF Restart, HistoryInv, Ordered
<1>4. QED
  BY <1>1, <1>2, <1>3 DEF Server, HistoryInv

LEMMA ServerBody ==
  ASSUME BodyInv, Server
  PROVE  BodyInv'
<1>0. HistoryInv' /\ HistoryInv /\ body.revision \in Nat /\ body.process \in Nat
  BY ServerFacts DEF BodyInv, HistoryInv
<1>1. ASSUME NEW c \in Contents, Publish(c)
      PROVE  Current(body.process, body.revision, body.graph)'
  <2>1. PICK f \in Graph :
          /\ f.revision = body.revision + 1 /\ body'.graph = IfValid(f)
          /\ \A i \in 1..Len(history') :
               \/ Valid(f) /\ history'[i] = f
               \/ \E j \in 1..Len(history) : history'[i] = history[j]
    BY <1>0, <1>1, PublishStep
  <2>2. body'.revision = body.revision + 1
    BY <1>0, <1>1, PublishStep
  <2>3. \A j \in 1..Len(history) : history[j].revision \in Nat /\ history[j].revision <= body.revision
    <3>1. Ordered(history, body.revision)
      BY <1>0 DEF HistoryInv
    <3>2. QED
      BY <3>1, OrderedElements DEF Ordered
  <2>4. body'.graph # NoGraph => body'.graph = f /\ Valid(f)
    BY <2>1 DEF IfValid
  <2>5. ASSUME NEW i \in 1..Len(history'), history'[i].revision = body'.revision
        PROVE  body'.graph = history'[i]
    BY <1>0, <2>1, <2>2, <2>3, <2>5 DEF IfValid
  <2>6. QED
    BY <1>0, <2>1, <2>2, <2>4, <2>5 DEF Current, Agrees
<1>2. CASE ChangeStatus
  BY <1>2 DEF ChangeStatus, BodyInv, Current, Agrees, HistoryInv
<1>3. CASE Restart
  <2>1. body' = [process |-> body.process + 1, revision |-> 0, events |-> body.events,
                 graph |-> NoGraph] /\ history' = <<>>
    BY <1>3 DEF Restart
  <2>2. body'.revision = 0 /\ body'.graph = NoGraph /\ 1..Len(history') = {}
    BY <2>1
  <2>3. Current(body.process, body.revision, body.graph)'
    BY <2>2 DEF Current, Agrees
  <2>4. QED
    BY <1>0, <2>3 DEF BodyInv
<1>4. QED
  BY <1>0, <1>1, <1>2, <1>3 DEF Server, BodyInv

\* A restart is the end of OneServer for a page that shows something.
LEMMA ServerKeepsOneServer ==
  ASSUME BodyInv, PageInv, Server, OneServer'
  PROVE  OneServer
<1>1. body.process \in Nat /\ body'.process \in Nat /\ UNCHANGED browserVars
      /\ (body'.process = body.process \/ body'.process = body.process + 1)
  BY ServerFacts DEF BodyInv
<1>2. page' = page
  BY <1>1 DEF browserVars
<1>3. CASE page.loading
  BY <1>3 DEF OneServer
<1>4. CASE ~page.loading
  <2>1. page.from \in Nat /\ page.from <= body.process
    BY <1>1, <1>4 DEF PageInv
  <2>2. page.from = body'.process
    BY <1>2, <1>4 DEF OneServer
  <2>3. QED
    BY <1>1, <2>1, <2>2 DEF OneServer
<1>5. QED
  BY <1>3, <1>4

LEMMA ServerPage ==
  ASSUME BodyInv, PageInv, Server
  PROVE  PageInv'
<1>1. /\ HistoryInv /\ body.process \in Nat /\ body'.process \in Nat /\ page' = page
      /\ body.process <= body'.process
  BY ServerFacts DEF BodyInv, browserVars
<1>2. CASE page.loading
  BY <1>1, <1>2 DEF PageInv
<1>3. CASE ~page.loading
  <2>1. /\ page.snapshot[1] \in Nat /\ page.revision \in Nat
        /\ page.snapshot[1] <= body.process /\ page.snapshot[1] <= body'.process
    BY <1>1, <1>3 DEF PageInv
  <2>2. ASSUME OneServer' PROVE Current(page.snapshot[1], page.revision, page.graph)'
    <3>1. Current(page.snapshot[1], page.revision, page.graph)
      BY <1>3, <2>2, ServerKeepsOneServer DEF PageInv
    <3>2. PICK p, r, g :
            /\ p \in Nat /\ r \in Nat
            /\ p = page.snapshot[1] /\ r = page.revision /\ g = page.graph
      BY <2>1
    <3>3. Current(p, r, g)
      BY <3>1, <3>2
    <3>4. Current(p, r, g)'
      BY <1>1, <2>1, <3>2, <3>3, ServerKeepsCurrent
    <3>5. QED
      BY <1>1, <3>2, <3>4 DEF Current, Agrees
  <2>3. QED
    BY <1>1, <1>3, <2>1, <2>2 DEF PageInv
<1>4. QED
  BY <1>2, <1>3

LEMMA ServerData ==
  ASSUME BodyInv, PageInv, DataInv, Server
  PROVE  DataInv'
<1>1. /\ HistoryInv /\ body.process \in Nat /\ body'.process \in Nat
      /\ page' = page /\ refresh' = refresh
      /\ body.process <= body'.process
  BY ServerFacts DEF BodyInv, browserVars
<1>2. \A f : \A q, n \in Nat : q <= body.process /\ Current(q, n, f) => Current(q, n, f)'
  BY <1>1, ServerKeepsCurrent
<1>3. OneServer' => OneServer
  BY ServerKeepsOneServer
<1>4. ASSUME Received
      PROVE  /\ refresh.data \in Publication /\ refresh.data.process <= body'.process
             /\ ~page.loading => page.from <= refresh.data.process
             /\ OneServer' => Current(refresh.data.process, refresh.data.revision, refresh.data.graph)'
  <2>1. /\ refresh.data \in Publication /\ refresh.data.process <= body.process
        /\ ~page.loading => page.from <= refresh.data.process
        /\ OneServer => Current(refresh.data.process, refresh.data.revision, refresh.data.graph)
    BY <1>4 DEF DataInv
  <2>2. refresh.data.process \in Nat /\ refresh.data.revision \in Nat
    BY <2>1 DEF Publication
  <2>3. ASSUME OneServer'
        PROVE  Current(refresh.data.process, refresh.data.revision, refresh.data.graph)'
    <3>1. PICK p, r, g :
            /\ p \in Nat /\ r \in Nat
            /\ p = refresh.data.process /\ r = refresh.data.revision /\ g = refresh.data.graph
      BY <2>2
    <3>2. Current(p, r, g)
      BY <1>3, <2>1, <2>3, <3>1
    <3>3. Current(p, r, g)'
      BY <1>2, <2>1, <3>1, <3>2
    <3>4. QED
      BY <1>1, <3>1, <3>3 DEF Current, Agrees
  <2>4. QED
    BY <1>1, <2>1, <2>2, <2>3
<1>5. ASSUME refresh.at = "answered"
      PROVE  LET g == ClientApply(page.graph, refresh.update)
             IN  /\ g \in Graph \cup {NoGraph}
                 /\ OneServer' /\ g # NoGraph => Current(body.process, g.revision, g)'
  <2> DEFINE g == ClientApply(page.graph, refresh.update)
  <2>1. g \in Graph \cup {NoGraph} /\ (OneServer /\ g # NoGraph => Current(body.process, g.revision, g))
    BY <1>5 DEF DataInv
  <2>2. g # NoGraph => g.revision \in Nat
    BY <2>1, GraphRevision
  <2>3. g' = g /\ ~page.loading
    BY <1>1, <1>5 DEF DataInv
  <2>4. OneServer' => body'.process = body.process
    <3>1. OneServer' => page.from = body'.process /\ page.from = body.process
      BY <1>1, <1>3, <2>3 DEF OneServer
    <3>2. QED
      BY <3>1
  <2> HIDE DEF g
  <2>5. OneServer' /\ g # NoGraph => Current(body.process, g.revision, g)'
    BY <1>1, <1>2, <1>3, <2>1, <2>2, <2>3, <2>4 DEF Current, Agrees
  <2>6. QED
    BY <2>1, <2>5 DEF g
<1>6. QED
  BY <1>1, <1>4, <1>5 DEF DataInv, Received

LEMMA ServerAnalysis ==
  ASSUME BodyInv, PageInv, AnalysisInv, Server
  PROVE  AnalysisInv'
<1>1. /\ body.process \in Nat /\ body'.process \in Nat
      /\ page' = page /\ analysis' = analysis
      /\ body'.process = body.process \/ body'.process = body.process + 1
  BY ServerFacts DEF BodyInv, browserVars
<1>2. ~page.loading => page.from \in Nat /\ page.from <= body.process
  BY <1>1 DEF PageInv
<1>3. analysis.at = "answered" => analysis.of[1] \in Nat
  BY DEF AnalysisInv
<1>4. QED
  BY <1>1, <1>2, <1>3 DEF AnalysisInv

-----------------------------------------------------------------------------
\* The maps from some of the elements of I to V.
Maps(I, V) == UNION {[A -> V] : A \in SUBSET I}

\* Patching a map with a map of the same type gives one more.
LEMMA PatchIsTyped ==
  ASSUME NEW I, NEW V, NEW f \in Maps(I, V), NEW e \in Maps(I, V), NEW D, NEW h
  PROVE  Patch(f, D, Upserts(h, e)) \in Maps(I, V)
<1>1. PICK A \in SUBSET I : f \in [A -> V]
  BY DEF Maps
<1>2. PICK B \in SUBSET I : e \in [B -> V]
  BY DEF Maps
<1> DEFINE up == Upserts(h, e)
           C == (A \ D) \cup DOMAIN up
<1>3. DOMAIN up \in SUBSET B /\ \A i \in DOMAIN up : up[i] \in V
  BY <1>2 DEF Upserts
<1> HIDE DEF up
<1>4. C \in SUBSET I
  BY <1>3
<1>5. Patch(f, D, up) = [i \in C |-> IF i \in DOMAIN up THEN up[i] ELSE f[i]]
  BY <1>1 DEF Patch
<1>6. \A i \in C : (IF i \in DOMAIN up THEN up[i] ELSE f[i]) \in V
  BY <1>1, <1>3
<1>7. Patch(f, D, up) \in [C -> V]
  BY <1>5, <1>6
<1>8. QED
  BY <1>4, <1>7 DEF Maps, up

LEMMA PatchedIsGraph ==
  ASSUME NEW g \in Graph, NEW new \in Graph, NEW old
  PROVE  Patched(g, Delta(old, new)) \in Graph
<1> DEFINE u == Delta(old, new)
           EdgeValues == [source : NodeIds, target : NodeIds, about : Attributes]
<1>1. Nodes = Maps(NodeIds, Attributes) /\ Edges = Maps(EdgeIds, EdgeValues)
  BY Zenon DEF Nodes, Edges, Maps
<1>2. g.nodes \in Nodes /\ new.nodes \in Nodes /\ g.edges \in Edges /\ new.edges \in Edges
  BY DEF Graph
<1>3. /\ u.upsertNodes = Upserts(old.nodes, new.nodes)
      /\ u.upsertEdges = Upserts(old.edges, new.edges)
      /\ u.revision \in Nat \ {0} /\ u.coverage \in Attributes
  BY DEF Delta, Graph
<1> HIDE DEF u, EdgeValues
<1>4. Patch(g.nodes, u.deleteNodes, u.upsertNodes) \in Nodes
  BY <1>1, <1>2, <1>3, PatchIsTyped
<1>5. Patch(g.edges, u.deleteEdges, u.upsertEdges) \in Edges
  BY <1>1, <1>2, <1>3, PatchIsTyped
<1>6. Patched(g, u) \in Graph
  BY <1>3, <1>4, <1>5 DEF Patched, Graph
<1>7. QED
  BY <1>6 DEF u

\* What the server answers is one of three, whatever it is asked for.
LEMMA DiffKinds ==
  ASSUME NEW base, NEW current
  PROVE  \/ Diff(base, current) = Full(current)
         \/ /\ base # NoGraph /\ Valid(base) /\ base.cluster = current.cluster
            /\ \/ Diff(base, current) = Delta(base, current)
               \/ base = current /\ Diff(base, current) = Unchanged(current)
BY DEF Diff

\* Whatever answer reaches it, even one that was made for another graph, the
\* browser ends with the server's newest graph or with none: it never makes
\* one up from a delta and a graph that do not belong together.
LEMMA AnswerIsOwnGraph ==
  ASSUME HistoryInv, history # <<>>, NEW b \in Graph, Agrees(b, b.revision), NEW since
  PROVE  LET newest == history[Len(history)]
         IN  ClientApply(b, Served(since)) \in {newest, NoGraph}
<1> DEFINE newest == history[Len(history)]
           base == Base(since)
           u == Diff(base, newest)
<1>1. /\ Len(history) \in 1..Len(history) /\ newest \in Graph /\ Valid(newest)
      /\ \A i \in 1..Len(history) : history[i] \in Graph /\ Valid(history[i])
  <2>1. history \in Seq(Graph) /\ Ordered(history, body.revision)
    BY DEF HistoryInv, Ordered
  <2>2. QED
    BY <2>1 DEF Ordered
<1>2. base = NoGraph \/ \E i \in 1..Len(history) : base = history[i]
  BY DEF Base
<1>3. Served(since) = u
  BY DEF Served
<1>4. b # NoGraph /\ b.revision \in Nat \ {0} /\ newest.revision \in Nat \ {0}
  BY <1>1, GraphShape, GraphRevision
<1>5. b.revision = newest.revision => b = newest
  BY <1>1 DEF Agrees
<1> HIDE DEF newest, base
<1>6. CASE u = Full(newest)
  BY <1>1, <1>3, <1>6, FullIsTaken DEF newest
<1>7. CASE base = newest /\ u = Unchanged(newest)
  <2>1. u.kind = "unchanged" /\ u.revision = newest.revision
    BY <1>7 DEF Unchanged
  <2> HIDE DEF u
  <2>2. ClientApply(b, u) \in {b, NoGraph} /\ (ClientApply(b, u) = b => b = newest \/ b = NoGraph)
    BY <1>4, <1>5, <2>1 DEF ClientApply
  <2>3. QED
    BY <1>3, <2>2 DEF newest
<1>8. CASE base # NoGraph /\ u = Delta(base, newest)
  <2>1. u.kind = "delta" /\ u.revision = newest.revision /\ u.base = base.revision
    BY <1>8 DEF Delta
  <2>2. base.revision = b.revision => base = b
    BY <1>2, <1>8 DEF Agrees
  <2>3. CASE base = b
    <3>1. ClientApply(b, u) = newest
      BY <1>1, <1>2, <1>8, <2>3, UpdateRoundTrip
    <3>2. QED
      BY <1>3, <3>1 DEF newest
  <2>4. CASE base.revision # b.revision
    <3> HIDE DEF u
    <3>1. ClientApply(b, u) \in {newest, NoGraph}
      BY <1>4, <1>5, <2>1, <2>4 DEF ClientApply
    <3>2. QED
      BY <1>3, <3>1 DEF newest
  <2>5. QED
    BY <2>2, <2>3, <2>4
<1>9. QED
  BY <1>6, <1>7, <1>8, DiffKinds

\* ... and if the page has outlived its server, with a graph at least.
LEMMA AnswerIsGraph ==
  ASSUME HistoryInv, history # <<>>, NEW b \in Graph, NEW since
  PROVE  ClientApply(b, Served(since)) \in Graph \cup {NoGraph}
<1> DEFINE newest == history[Len(history)]
           base == Base(since)
           u == Diff(base, newest)
<1>1. newest \in Graph /\ Valid(newest)
  <2>1. history \in Seq(Graph) /\ Ordered(history, body.revision)
    BY DEF HistoryInv, Ordered
  <2>2. QED
    BY <2>1 DEF Ordered
<1>2. Served(since) = u
  BY DEF Served
<1> HIDE DEF newest, base
<1>3. CASE u = Full(newest)
  BY <1>1, <1>2, <1>3, FullIsTaken
<1>4. CASE u = Unchanged(newest)
  <2>1. u.kind = "unchanged"
    BY <1>4 DEF Unchanged
  <2> HIDE DEF u
  <2>2. QED
    BY <1>2, <2>1 DEF ClientApply
<1>5. CASE u = Delta(base, newest)
  <2>1. Patched(b, u) \in Graph /\ u.kind = "delta"
    BY <1>1, <1>5, PatchedIsGraph DEF Delta
  <2> HIDE DEF u
  <2>2. QED
    BY <1>2, <2>1 DEF ClientApply, IfValid
<1>6. QED
  BY <1>3, <1>4, <1>5, DiffKinds

-----------------------------------------------------------------------------
\* Marking the page stale, or fresh, changes nothing else of it.
LEMMA SamePage ==
  ASSUME PageInv, UNCHANGED <<body, history>>, NEW b \in BOOLEAN,
         page' = page \/ page' = [page EXCEPT !.stale = b]
  PROVE  /\ PageInv'
         /\ page'.graph = page.graph /\ page'.loading = page.loading
         /\ page'.from = page.from /\ page'.revision = page.revision
         /\ page'.snapshot = page.snapshot
<1>1. /\ page'.graph = page.graph /\ page'.loading = page.loading
      /\ page'.from = page.from /\ page'.revision = page.revision
      /\ page'.snapshot = page.snapshot
      /\ page' \in [snapshot : Nat \X Nat, graph : Graph \cup {NoGraph}, revision : Nat,
                    loading : BOOLEAN, stale : BOOLEAN, from : Nat]
  BY DEF PageInv
<1>2. PageInv'
  BY <1>1 DEF PageInv, OneServer, Current, Agrees
<1>3. QED
  BY <1>1, <1>2

LEMMA SameAnalysis ==
  ASSUME AnalysisInv, UNCHANGED <<body, analysis>>,
         page'.loading = page.loading, page'.from = page.from
  PROVE  AnalysisInv'
BY DEF AnalysisInv

LEMMA NoDataYet ==
  ASSUME refresh'.at \in {"idle", "snapshot", "unmodified"}
  PROVE  DataInv'
BY DEF DataInv, Received

LEMMA SameData ==
  ASSUME DataInv, UNCHANGED <<body, history, page, refresh>>
  PROVE  DataInv'
BY DEF DataInv, Received, OneServer, Current, Agrees

\* The steps of a refresh before the page is touched.
LEMMA AnswerSnapshotData ==
  ASSUME BodyInv, PageInv, AnswerSnapshot
  PROVE  DataInv'
<1>1. UNCHANGED <<body, history, page>>
  BY DEF AnswerSnapshot, serverVars
<1>2. CASE refresh' = [at |-> "unmodified"]
  BY <1>2, NoDataYet
<1>3. CASE refresh' = [at |-> "received", data |-> body]
  <2>1. refresh'.at = "received" /\ refresh'.data = body
    BY <1>3
  <2>2. body \in Publication /\ body.process \in Nat
    BY DEF BodyInv, HistoryInv, Publication
  <2>3. ~page.loading => page.from <= body.process
    BY <2>2 DEF PageInv
  <2>4. Current(body.process, body.revision, body.graph)'
    BY <1>1 DEF BodyInv, Current, Agrees
  <2>5. Current(refresh.data.process, refresh.data.revision, refresh.data.graph)'
    BY <1>1, <2>1, <2>4 DEF Current, Agrees
  <2>6. QED
    BY <1>1, <2>1, <2>2, <2>3, <2>5 DEF DataInv
<1>4. QED
  BY <1>2, <1>3 DEF AnswerSnapshot

\* What a step that keeps the data received keeps of DataInv.
LEMMA SameReceived ==
  ASSUME DataInv, Received, UNCHANGED <<body, history, page>>, refresh'.data = refresh.data
  PROVE  /\ refresh'.data \in Publication /\ refresh'.data.process <= body'.process
         /\ ~page'.loading => page'.from <= refresh'.data.process
         /\ OneServer' => Current(refresh.data.process, refresh.data.revision, refresh.data.graph)'
BY DEF DataInv, OneServer, Current, Agrees

LEMMA ReadData ==
  ASSUME PageInv, DataInv, Read
  PROVE  DataInv'
<1>1. UNCHANGED <<body, history, page>> /\ Received
  BY DEF Read, serverVars, Received
<1>2. CASE page.graph # NoGraph /\ refresh.data.revision # page.revision
  <2>1. refresh'.at = "delta" /\ refresh'.data = refresh.data /\ refresh'.since = page.graph.revision
    BY <1>2 DEF Read
  <2>2. ~page.loading
    BY <1>2 DEF PageInv
  <2>3. QED
    BY <1>1, <1>2, <2>1, <2>2, SameReceived DEF DataInv
<1>3. CASE ~(page.graph # NoGraph /\ refresh.data.revision # page.revision)
  <2>1. refresh'.at = "ready" /\ refresh'.data = refresh.data
    BY <1>3 DEF Read
  <2>2. QED
    BY <1>1, <2>1, SameReceived DEF DataInv
<1>4. QED
  BY <1>2, <1>3

LEMMA FailData ==
  ASSUME DataInv, Fail
  PROVE  DataInv'
<1>1. CASE refresh' = Idle
  BY <1>1, NoDataYet DEF Idle
<1>2. CASE /\ refresh.at \in {"delta", "answered"}
           /\ refresh' = [at |-> "ready", data |-> refresh.data]
           /\ UNCHANGED <<page, etag>>
  <2>1. UNCHANGED <<body, history, page>> /\ Received
    BY <1>2 DEF Fail, serverVars, Received
  <2>2. refresh'.at = "ready" /\ refresh'.data = refresh.data
    BY <1>2
  <2>3. QED
    BY <2>1, <2>2, SameReceived DEF DataInv
<1>3. QED
  BY <1>1, <1>2 DEF Fail

\* The newest graph kept is what its revision says.
LEMMA NewestIsCurrent ==
  ASSUME HistoryInv, history # <<>>
  PROVE  LET newest == history[Len(history)]
         IN  newest \in Graph /\ Current(body.process, newest.revision, newest)
<1>1. history \in Seq(Graph) /\ Ordered(history, body.revision)
      /\ \A i \in 1..Len(history) : history[i].revision \in Nat
  BY OrderedElements DEF HistoryInv, Ordered
<1>2. Len(history) \in 1..Len(history) /\ history[Len(history)] \in Graph
  BY <1>1
<1>3. \A i \in 1..Len(history) : i # Len(history) => history[i].revision < history[Len(history)].revision
  BY <1>1, <1>2 DEF Ordered
<1>4. QED
  BY <1>1, <1>2, <1>3 DEF Ordered, Current, Agrees

\* The page's graph is the server's, so what the answer makes of it is too.
LEMMA AnswerDeltaData ==
  ASSUME BodyInv, PageInv, DataInv, AnswerDelta
  PROVE  DataInv'
<1>1. UNCHANGED <<body, history, page>> /\ Received /\ HistoryInv
  BY DEF AnswerDelta, serverVars, Received, BodyInv
<1>2. ~page.loading /\ page.graph \in Graph
  BY DEF DataInv, AnswerDelta, PageInv
<1>3. CASE history = <<>>
  <2>1. refresh'.at = "ready" /\ refresh'.data = refresh.data
    BY <1>3 DEF AnswerDelta
  <2>2. QED
    BY <1>1, <2>1, SameReceived DEF DataInv
<1>4. CASE history # <<>>
  <2> DEFINE g == ClientApply(page.graph, Served(refresh.since))
             newest == history[Len(history)]
  <2>1. /\ refresh'.at = "answered" /\ refresh'.data = refresh.data
        /\ refresh'.update = Served(refresh.since)
    BY <1>4 DEF AnswerDelta
  <2>2. ClientApply(page'.graph, refresh'.update) = g
    BY <1>1, <2>1
  <2>3. g \in Graph \cup {NoGraph}
    BY <1>1, <1>2, <1>4, AnswerIsGraph
  <2>4. ASSUME OneServer PROVE g \in {newest, NoGraph}
    <3>1. page.snapshot[1] = body.process
      <4>1. page.from = body.process /\ body.process \in Nat /\ page.snapshot[1] \in Nat
            /\ page.from <= page.snapshot[1] /\ page.snapshot[1] <= body.process
        BY <1>1, <1>2, <2>4 DEF OneServer, PageInv, HistoryInv
      <4>2. QED
        BY <4>1
    <3>2. Current(page.snapshot[1], page.revision, page.graph) /\ page.graph # NoGraph
      BY <1>2, <2>4, GraphShape DEF PageInv
    <3>3. Agrees(page.graph, page.graph.revision)
      BY <3>1, <3>2 DEF Current
    <3>4. QED
      BY <1>1, <1>2, <1>4, <3>3, AnswerIsOwnGraph
  <2>5. Current(body.process, newest.revision, newest)
    BY <1>1, <1>4, NewestIsCurrent
  <2> HIDE DEF g, newest
  <2>6. OneServer /\ g # NoGraph => Current(body.process, g.revision, g)
    BY <2>4, <2>5
  <2>7. OneServer' /\ g # NoGraph =>
          Current(body.process, ClientApply(page.graph, refresh.update).revision,
                  ClientApply(page.graph, refresh.update))'
    BY <1>1, <2>2, <2>6 DEF OneServer, Current, Agrees
  <2>8. QED
    BY <1>1, <1>2, <2>1, <2>2, <2>3, <2>7, SameReceived, GraphShape DEF DataInv
<1>5. QED
  BY <1>3, <1>4

\* A graph of another revision than the snapshot's is not taken.
LEMMA ApplyDeltaData ==
  ASSUME BodyInv, PageInv, DataInv, ApplyDelta
  PROVE  DataInv'
<1> DEFINE g == ClientApply(page.graph, refresh.update)
           d == Merge(refresh.data, g)
<1>1. UNCHANGED <<body, history, page>> /\ Received /\ ~page.loading
  BY DEF ApplyDelta, serverVars, Received, DataInv
<1>2. /\ refresh.data \in Publication /\ refresh.data.process <= body.process
      /\ page.from <= refresh.data.process
      /\ OneServer => Current(refresh.data.process, refresh.data.revision, refresh.data.graph)
  BY <1>1 DEF DataInv
<1>3. g \in Graph \cup {NoGraph} /\ (OneServer /\ g # NoGraph => Current(body.process, g.revision, g))
  BY DEF DataInv, ApplyDelta
<1>4. refresh'.at = "ready" /\ refresh'.data = d
  BY DEF ApplyDelta
<1> HIDE DEF g
<1>5. /\ d \in Publication /\ d.process = refresh.data.process /\ d.revision = refresh.data.revision
      /\ \/ d.graph = refresh.data.graph
         \/ g # NoGraph /\ d.graph = g /\ g.revision = d.revision
  BY <1>2, <1>3 DEF Merge, Publication
<1> HIDE DEF d
<1>6. OneServer => Current(d.process, d.revision, d.graph)
  BY <1>2, <1>3, <1>5 DEF Current
<1>7. OneServer' => Current(refresh.data.process, refresh.data.revision, refresh.data.graph)'
  BY <1>1, <1>4, <1>6 DEF OneServer, Current, Agrees
<1>8. QED
  BY <1>1, <1>2, <1>4, <1>5, <1>7 DEF DataInv

\* What apply makes of the page: all of the publication, all of what was
\* there, or the same revision with the publication's sources and events.
LEMMA FinishPage ==
  ASSUME BodyInv, PageInv, DataInv, AnalysisInv, Finish
  PROVE  PageInv' /\ AnalysisInv'
<1>1. UNCHANGED <<body, history, analysis>> /\ Received /\ body.process \in Nat
  BY DEF Finish, serverVars, Received, BodyInv, HistoryInv
<1>2. CASE page' = page \/ page' = [page EXCEPT !.stale = TRUE]
  BY <1>1, <1>2, SamePage, SameAnalysis
<1>3. CASE page' = Shown(refresh.data) /\ ~(refresh.data.revision < page.revision)
  <2> DEFINE d == refresh.data
             fresh == page.loading \/ d.revision # page.revision
  <2>1. /\ d \in Publication /\ d.process <= body.process
        /\ ~page.loading => page.from <= d.process
        /\ OneServer => Current(d.process, d.revision, d.graph)
    BY <1>1 DEF DataInv
  <2>2. page' = [snapshot |-> IF fresh THEN <<d.process, d.revision>> ELSE page.snapshot,
                 graph |-> IF fresh THEN d.graph ELSE page.graph,
                 revision |-> d.revision, loading |-> FALSE, stale |-> FALSE,
                 from |-> IF page.loading THEN d.process ELSE page.from]
    BY <1>3 DEF Shown, Name
  <2> HIDE DEF d, fresh
  <2>3. page' \in [snapshot : Nat \X Nat, graph : Graph \cup {NoGraph}, revision : Nat,
                   loading : BOOLEAN, stale : BOOLEAN, from : Nat]
    BY <2>1, <2>2 DEF PageInv, Publication
  <2>4. ~page'.loading /\ page'.revision = d.revision
    BY <2>2
  <2>5. /\ page'.from = (IF page.loading THEN d.process ELSE page.from)
        /\ page'.graph = (IF fresh THEN d.graph ELSE page.graph)
        /\ page'.snapshot = (IF fresh THEN <<d.process, d.revision>> ELSE page.snapshot)
    BY <2>2
  <2>6. OneServer' => OneServer
    BY <1>1, <2>4, <2>5 DEF OneServer
  <2>7. AnalysisInv'
    <3>1. analysis.at \in {"asked", "answered", "displayed"} => page'.from = page.from
      BY <2>5 DEF AnalysisInv
    <3>2. QED
      BY <1>1, <2>4, <3>1 DEF AnalysisInv
  <2>8. CASE fresh
    <3>1. page'.snapshot[1] = d.process /\ page'.snapshot[2] = d.revision /\ page'.graph = d.graph
      BY <2>5, <2>8
    <3>2. page'.from <= d.process
      BY <2>1, <2>5 DEF Publication
    <3>3. OneServer' => Current(page.snapshot[1], page.revision, page.graph)'
      BY <1>1, <2>1, <2>4, <2>6, <3>1 DEF Current, Agrees
    <3>4. /\ page'.snapshot[2] = page'.revision /\ page'.from <= page'.snapshot[1]
          /\ page'.snapshot[1] <= body'.process
      BY <1>1, <2>1, <2>4, <3>1, <3>2
    <3>5. QED
      BY <2>3, <2>4, <2>7, <3>3, <3>4 DEF PageInv
  <2>9. CASE ~fresh
    <3>1. /\ ~page.loading /\ d.revision = page.revision /\ page'.from = page.from
          /\ page'.snapshot = page.snapshot /\ page'.graph = page.graph
      BY <2>5, <2>9 DEF fresh
    <3>2. OneServer' => Current(page.snapshot[1], page.revision, page.graph)'
      BY <1>1, <2>4, <2>6, <3>1 DEF PageInv, Current, Agrees
    <3>3. /\ page'.snapshot[2] = page'.revision /\ page'.from <= page'.snapshot[1]
          /\ page'.snapshot[1] <= body'.process
      BY <1>1, <2>4, <3>1 DEF PageInv
    <3>4. QED
      BY <2>3, <2>4, <2>7, <3>2, <3>3 DEF PageInv
  <2>10. QED
    BY <2>8, <2>9
<1>4. QED
  BY <1>2, <1>3 DEF Finish, Shown

\* An answer is made of the server's snapshot of the revision asked for; shown
\* beside that revision by the server the page is of, it is made of the very snapshot.
LEMMA AnalyzeStep ==
  ASSUME BodyInv, PageInv, AnalysisInv, Analyze
  PROVE  AnalysisInv'
<1>1. UNCHANGED <<body, page>> /\ body.process \in Nat /\ body.revision \in Nat
  BY DEF Analyze, AskAnalysis, AnswerAnalysis, ReceiveAnalysis, CloseAnalysis, serverVars,
     BodyInv, HistoryInv
<1>2. ~page.loading =>
        /\ page.from \in Nat /\ page.snapshot \in Nat \X Nat
        /\ page.snapshot[2] = page.revision
        /\ page.from <= page.snapshot[1] /\ page.snapshot[1] <= body.process
  BY DEF PageInv
<1>3. CASE AskAnalysis
  <2>1. analysis'.at = "asked" /\ ~page.loading
    BY <1>3 DEF AskAnalysis
  <2>2. QED
    BY <1>1, <2>1 DEF AnalysisInv
<1>4. ASSUME analysis' = Idle PROVE AnalysisInv'
  BY <1>4 DEF Idle, AnalysisInv
<1>5. CASE AnswerAnalysis /\ analysis' # Idle
  <2>1. /\ analysis'.at = "answered" /\ analysis'.revision = analysis.revision
        /\ analysis'.of = <<body.process, body.revision>> /\ body.revision = analysis.revision
        /\ ~page.loading
    BY <1>5 DEF AnswerAnalysis, Name, AnalysisInv
  <2>2. QED
    BY <1>1, <1>2, <2>1 DEF AnalysisInv
<1>6. CASE ReceiveAnalysis /\ analysis' # Idle
  <2>1. /\ analysis'.at = "displayed" /\ analysis'.of = analysis.of
        /\ analysis'.beside = page.snapshot /\ analysis.revision = page.revision
        /\ analysis.at = "answered"
    BY <1>6 DEF ReceiveAnalysis
  <2>2. /\ ~page.loading /\ analysis.of \in Nat \X Nat /\ analysis.of[2] = analysis.revision
        /\ page.from <= analysis.of[1] /\ analysis.of[1] <= body.process
    BY <2>1 DEF AnalysisInv
  <2>3. ASSUME body.process = page.from PROVE analysis.of = page.snapshot
    <3>1. analysis.of[1] = page.snapshot[1] /\ analysis.of[2] = page.snapshot[2]
      BY <1>1, <1>2, <2>1, <2>2, <2>3
    <3>2. QED
      BY <1>2, <2>2, <3>1
  <2>4. QED
    BY <1>1, <2>1, <2>2, <2>3 DEF AnalysisInv
<1>7. CASE CloseAnalysis
  BY <1>4, <1>7 DEF CloseAnalysis
<1>8. QED
  BY <1>3, <1>4, <1>5, <1>6, <1>7 DEF Analyze

LEMMA BrowserStep ==
  ASSUME ReportInv, Refresh \/ Fail \/ Pause \/ Analyze \/ UNCHANGED reportVars
  PROVE  ReportInv'
<1>1. UNCHANGED <<body, history>> /\ BodyInv /\ PageInv /\ DataInv /\ AnalysisInv
  BY BrowserKeepsServer DEF ReportInv
<1>2. BodyInv'
  BY <1>1 DEF BodyInv, HistoryInv, Current, Agrees
<1>3. PageInv' /\ AnalysisInv'
  <2>1. CASE Finish
    BY <1>1, <2>1, FinishPage
  <2>2. CASE Analyze
    <3>1. page' = page
      BY <2>2 DEF Analyze, AskAnalysis, AnswerAnalysis, ReceiveAnalysis, CloseAnalysis
    <3>2. QED
      BY <1>1, <2>2, <3>1, SamePage, AnalyzeStep
  <2>3. CASE Unmodified \/ Fail
    <3>1. PICK b \in BOOLEAN : page' = page \/ page' = [page EXCEPT !.stale = b]
      BY <2>3 DEF Unmodified, Fail
    <3>2. analysis' = analysis
      BY <2>3 DEF Unmodified, Fail
    <3>3. QED
      BY <1>1, <3>1, <3>2, SamePage, SameAnalysis
  <2>4. CASE Ask \/ AnswerSnapshot \/ Read \/ AnswerDelta \/ ApplyDelta \/ Pause
             \/ UNCHANGED reportVars
    <3>1. page' = page /\ analysis' = analysis
      BY <2>4 DEF Ask, AnswerSnapshot, Read, AnswerDelta, ApplyDelta, Pause, reportVars,
         browserVars
    <3>2. QED
      BY <1>1, <3>1, SamePage, SameAnalysis
  <2>5. QED
    BY <2>1, <2>2, <2>3, <2>4 DEF Refresh
<1>4. DataInv'
  <2>1. CASE Ask \/ Unmodified \/ Finish
    BY <2>1, NoDataYet DEF Ask, Unmodified, Finish, Idle
  <2>2. CASE AnswerSnapshot \/ Read \/ Fail \/ AnswerDelta \/ ApplyDelta
    BY <1>1, <2>2, AnswerSnapshotData, ReadData, FailData, AnswerDeltaData, ApplyDeltaData
  <2>3. CASE Pause \/ Analyze \/ UNCHANGED reportVars
    <3>1. page' = page /\ refresh' = refresh
      BY <2>3 DEF Pause, Analyze, AskAnalysis, AnswerAnalysis, ReceiveAnalysis, CloseAnalysis,
         reportVars, browserVars
    <3>2. QED
      BY <1>1, <3>1, SameData
  <2>4. QED
    BY <2>1, <2>2, <2>3 DEF Refresh
<1>5. QED
  BY <1>2, <1>3, <1>4 DEF ReportInv

LEMMA ReportInvariant == ReportSpec => []ReportInv
<1>1. ReportInit => ReportInv
  BY DEF ReportInit, ReportInv, BodyInv, HistoryInv, Ordered, PageInv, DataInv, Received,
     AnalysisInv, Current, Agrees, NoSnapshot, Idle
<1>2. ReportInv /\ [ReportNext]_reportVars => ReportInv'
  <2>1. ASSUME ReportInv, Server PROVE ReportInv'
    BY <2>1, ServerBody, ServerPage, ServerData, ServerAnalysis DEF ReportInv
  <2>2. QED
    BY <2>1, BrowserStep DEF ReportNext
<1>3. QED
  BY <1>1, <1>2, PTL DEF ReportSpec

\* Whatever is published between the requests of a refresh, and whatever fails,
\* a page shows one publication: its snapshot, its revision and the server's
\* own graph of that revision.  Only a restart of the server can mix two.
THEOREM PageAlwaysOfOneServer == ReportSpec => []PageOfOneServer
<1>1. ReportInv => PageOfOneServer
  <2> SUFFICES ASSUME ReportInv, ~page.loading, body.process = page.from PROVE OnePublication
    BY DEF PageOfOneServer
  <2>1. /\ page.snapshot[2] = page.revision
        /\ Current(page.snapshot[1], page.revision, page.graph)
    BY DEF ReportInv, PageInv, OneServer
  <2>2. page.snapshot[1] = body.process
    <3>1. /\ page.from <= page.snapshot[1] /\ page.snapshot[1] <= body.process
          /\ page.snapshot[1] \in Nat /\ body.process \in Nat
      BY DEF ReportInv, PageInv, BodyInv, HistoryInv
    <3>2. QED
      BY <3>1
  <2>3. QED
    BY <2>1, <2>2 DEF OnePublication, Current, Agrees
<1>2. QED
  BY <1>1, ReportInvariant, PTL

\* However long the model thinks and whatever is published meanwhile, an
\* analysis is shown beside the snapshot it was made of.
THEOREM AnalysisAlwaysFitsPage == ReportSpec => []AnalysisFitsPage
<1>1. ReportInv => AnalysisFitsPage
  BY DEF ReportInv, AnalysisInv, AnalysisFitsPage
<1>2. QED
  BY <1>1, ReportInvariant, PTL

\* The browser cannot be misled by an answer that was made for another graph
\* than the one it holds: it ends with the newest graph or asks for it in full.
NoAnswerMisleads ==
  \A i \in 1..Len(history), since \in Nat :
    ClientApply(history[i], Served(since)) \in {history[Len(history)], NoGraph}
THEOREM NoAnswerEverMisleads == ReportSpec => []NoAnswerMisleads
<1>1. HistoryInv => NoAnswerMisleads
  <2> SUFFICES ASSUME HistoryInv, NEW i \in 1..Len(history), NEW since \in Nat
               PROVE  ClientApply(history[i], Served(since)) \in {history[Len(history)], NoGraph}
    BY DEF NoAnswerMisleads
  <2>1. history \in Seq(Graph) /\ Ordered(history, body.revision)
    BY DEF HistoryInv, Ordered
  <2>2. history[i] \in Graph /\ history # <<>>
    BY <2>1
  <2>3. ASSUME NEW j \in 1..Len(history), history[j].revision = history[i].revision
        PROVE  history[i] = history[j]
    <3>1. \A k \in 1..Len(history) : history[k].revision \in Nat
      BY <2>1, OrderedElements
    <3>2. i = j
      BY <2>1, <2>3, <3>1 DEF Ordered
    <3>3. QED
      BY <3>2
  <2>4. Agrees(history[i], history[i].revision)
    BY <2>3 DEF Agrees
  <2>5. QED
    BY <2>2, <2>4, AnswerIsOwnGraph
<1>2. QED
  BY <1>1, HistoryInvariant, PTL
=============================================================================
