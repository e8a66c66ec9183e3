-------------------------- MODULE RemoteWriteProofs --------------------------
(***************************************************************************)
(* Proofs about HubStore, for any clusters, revisions and history length:  *)
(* the history of a row ends in it, rows only advance, and the fleet's     *)
(* revision counts their changes.  Then about RemoteWrite, which posts to  *)
(* that store, for any number of requests on the wire and any number of    *)
(* starts of the collector and of the hub: what an acknowledgement means,  *)
(* which of a collector's identities is newer, where the newest envelope   *)
(* is, and that the whole system puts into the hub store and does nothing  *)
(* else to it.  Hook goroutines race except where a theorem says one.      *)
(***************************************************************************)
EXTENDS RemoteWrite, FiniteSetTheorems, TLAPS

(***************************************************************************)
(* The hub store.                                                          *)
(***************************************************************************)
\* Appending to a bounded history drops entries from its old end only.
LEMMA ExtendKeepsTail ==
  ASSUME NEW h \in Seq(Graph), NEW g \in Graph, Len(h) <= MaxGraphs
  PROVE  LET e == Extend(h, g)
             d == Len(h) + 1 - Len(e)
         IN  /\ e \in Seq(Graph)
             /\ Len(e) \in 1..MaxGraphs
             /\ d \in {0, 1}
             /\ e[Len(e)] = g
             /\ \A i \in 1..(Len(e) - 1) : i + d \in 1..Len(h) /\ e[i] = h[i + d]
<1> DEFINE longer == Append(h, g)
<1>1. longer \in Seq(Graph) /\ Len(longer) = Len(h) + 1 /\ longer[Len(h) + 1] = g
      /\ \A i \in 1..Len(h) : longer[i] = h[i]
  OBVIOUS
<1>2. CASE Len(longer) > MaxGraphs
  <2>1. Len(h) = MaxGraphs
    BY <1>1, <1>2, HubAssumption
  <2> DEFINE kept == SubSeq(longer, 2, Len(longer))
  <2>2. Extend(h, g) = kept
    BY <1>1, <1>2, <2>1, HubAssumption DEF Extend
  <2>3. kept \in Seq(Graph) /\ Len(kept) = Len(h)
        /\ \A i \in 1..Len(h) : kept[i] = longer[i + 1]
    BY <1>1, <2>1, HubAssumption
  <2> HIDE DEF longer, kept
  <2>4. \A i \in 1..(Len(h) - 1) : i + 1 \in 1..Len(h) /\ kept[i] = h[i + 1]
    BY <1>1, <2>3
  <2>5. Len(h) \in 1..MaxGraphs /\ kept[Len(h)] = g
    BY <1>1, <2>1, <2>3, HubAssumption
  <2>6. Len(h) + 1 - Len(kept) = 1
    BY <1>1, <2>3
  <2>7. QED
    BY <2>2, <2>3, <2>4, <2>5, <2>6
<1>3. CASE ~(Len(longer) > MaxGraphs)
  <2>1. Extend(h, g) = longer
    BY <1>3 DEF Extend
  <2>2. QED
    BY <1>1, <1>3, <2>1, HubAssumption
<1>4. QED
  BY <1>2, <1>3

\* What a retained graph's revision is.
LEMMA RevisionsAreNumbers ==
  ASSUME NEW h \in Seq(Graph)
  PROVE  \A i \in 1..Len(h) : h[i].revision \in Nat
<1> TAKE i \in 1..Len(h)
<1>1. h[i] \in Graph
  OBVIOUS
<1>2. QED
  BY <1>1, HubAssumption DEF Graph

\* CompleteEnvelope only lets through envelopes whose graph, sent or projected,
\* belongs to the envelope's own cluster and revision.
LEMMA CompleteFits ==
  ASSUME NEW env \in Envelope, Complete(env)
  PROVE  /\ ClusterOf(env) \in Clusters
         /\ GraphOf(env) \in Graph \cup {NoGraph}
         /\ GraphOf(env) # NoGraph =>
              /\ GraphOf(env).valid /\ GraphOf(env).cluster = ClusterOf(env)
              /\ GraphOf(env).revision = env.revision
<1>1. ClusterOf(env) \in Clusters
  BY HubAssumption DEF Complete, ClusterOf, Envelope
<1>2. GraphOf(env) \in Graph \cup {NoGraph}
  BY <1>1 DEF GraphOf, Envelope, Graph
<1>3. GraphFits(GraphOf(env), ClusterOf(env), env.revision)
  BY DEF Complete
<1>4. QED
  BY <1>1, <1>2, <1>3 DEF GraphFits

HubInv == HubTypeOK /\ HistoryFollowsLatest

\* Storing an envelope keeps the history of its cluster bounded, ordered and
\* in step with the row on display.
LEMMA AcceptStep ==
  ASSUME HubInv, NEW env \in Envelope, Complete(env), Newer(env), Accept(env, ClusterOf(env))
  PROVE  HubInv'
<1> DEFINE c == ClusterOf(env)
           g == GraphOf(env)
           old == graphs[c]
           new == Grown(old, g)
<1>1. c \in Clusters /\ g \in Graph \cup {NoGraph}
      /\ (g # NoGraph => g.valid /\ g.cluster = c /\ g.revision = env.revision)
  BY CompleteFits
<1>2. env.revision \in Nat /\ env.revision \in Revisions /\ env.tag \in Tags /\ env.snapshot \in BOOLEAN
  BY HubAssumption DEF Envelope
<1>3. old \in Seq(Graph) /\ Len(old) <= MaxGraphs
      /\ (\A i, j \in 1..Len(old) : i < j => old[i].revision < old[j].revision)
      /\ (\A i \in 1..Len(old) : old[i].valid /\ old[i].cluster = c /\ old[i].revision < env.revision)
  <2>1. CASE latest[c] = NoEnvelope
    <3>1. old = <<>>
      BY <1>1, <2>1 DEF HubInv, HistoryFollowsLatest
    <3>2. QED
      BY <3>1, HubAssumption
  <2>2. CASE latest[c] # NoEnvelope
    <3>1. HistoryOf(old, c, latest[c]) /\ latest[c] \in Stored /\ old \in Seq(Graph)
      BY <1>1, <2>2 DEF HubInv, HubTypeOK, HistoryFollowsLatest
    <3>2. latest[c].revision < env.revision /\ latest[c].revision \in Nat
      BY <2>2, <3>1, HubAssumption DEF Newer, Stored
    <3>3. \A i \in 1..Len(old) : old[i].revision \in Nat
      BY <3>1, RevisionsAreNumbers
    <3>4. QED
      BY <1>2, <3>1, <3>2, <3>3 DEF HistoryOf
  <2>3. QED
    BY <2>1, <2>2
<1>4. new \in Seq(Graph) /\ HistoryOf(new, c, [revision |-> env.revision, tag |-> env.tag,
                                               snapshot |-> env.snapshot, graph |-> g])
  <2>1. CASE g = NoGraph
    <3>1. new = old
      BY <2>1 DEF Grown
    <3>2. \A i \in 1..Len(old) : old[i].revision \in Nat
      BY <1>3, RevisionsAreNumbers
    <3>3. QED
      BY <1>2, <1>3, <2>1, <3>1, <3>2 DEF HistoryOf
  <2>2. CASE g # NoGraph
    <3> DEFINE d == Len(old) + 1 - Len(new)
    <3>1. g \in Graph
      BY <1>1, <2>2
    <3>2. new = Extend(old, g)
      BY <2>2 DEF Grown
    <3>3. /\ new \in Seq(Graph) /\ Len(new) \in 1..MaxGraphs /\ d \in {0, 1}
          /\ new[Len(new)] = g
          /\ \A i \in 1..(Len(new) - 1) : i + d \in 1..Len(old) /\ new[i] = old[i + d]
      <4> HIDE DEF old, g
      <4>1. /\ Extend(old, g) \in Seq(Graph) /\ Len(Extend(old, g)) \in 1..MaxGraphs
            /\ Len(old) + 1 - Len(Extend(old, g)) \in {0, 1}
            /\ Extend(old, g)[Len(Extend(old, g))] = g
            /\ \A i \in 1..(Len(Extend(old, g)) - 1) :
                 /\ i + (Len(old) + 1 - Len(Extend(old, g))) \in 1..Len(old)
                 /\ Extend(old, g)[i] = old[i + (Len(old) + 1 - Len(Extend(old, g)))]
        BY <1>3, <3>1, ExtendKeepsTail
      <4>2. QED
        BY <3>2, <4>1
    <3>4. \A i \in 1..Len(old) : old[i].revision \in Nat
      BY <1>3, RevisionsAreNumbers
    <3> HIDE DEF new, d
    <3>5. Len(new) <= MaxGraphs /\ new # <<>>
      BY <3>3, HubAssumption
    <3>6. \A i \in 1..Len(new) : new[i].valid /\ new[i].cluster = c /\ new[i].revision <= env.revision
      <4> TAKE i \in 1..Len(new)
      <4>1. CASE i = Len(new)
        BY <1>1, <1>2, <2>2, <3>3, <4>1
      <4>2. CASE i # Len(new)
        <5>1. i \in 1..(Len(new) - 1)
          BY <3>3, <4>2
        <5>2. i + d \in 1..Len(old) /\ new[i] = old[i + d]
          BY <3>3, <5>1
        <5>3. QED
          BY <1>2, <1>3, <3>4, <5>2
      <4>3. QED
        BY <4>1, <4>2
    <3>7. ASSUME NEW i \in 1..Len(new), NEW j \in 1..Len(new), i < j
          PROVE  new[i].revision < new[j].revision
      <4>1. i \in 1..(Len(new) - 1)
        BY <3>3, <3>7
      <4>2. i + d \in 1..Len(old) /\ new[i] = old[i + d]
        BY <3>3, <4>1
      <4>3. CASE j = Len(new)
        BY <1>1, <1>3, <2>2, <3>3, <4>2, <4>3
      <4>4. CASE j # Len(new)
        <5>1. j \in 1..(Len(new) - 1)
          BY <3>3, <4>4
        <5>2. j + d \in 1..Len(old) /\ new[j] = old[j + d]
          BY <3>3, <5>1
        <5>3. i + d < j + d
          BY <3>3, <3>7
        <5>4. QED
          BY <1>3, <4>2, <5>2, <5>3
      <4>5. QED
        BY <4>3, <4>4
    <3>8. QED
      BY <2>2, <3>3, <3>5, <3>6, <3>7 DEF HistoryOf
  <2>3. QED
    BY <2>1, <2>2
<1> HIDE DEF new, g, old, c
<1>5. latest' = [latest EXCEPT ![c] = [revision |-> env.revision, tag |-> env.tag,
                                       snapshot |-> env.snapshot, graph |-> g]]
      /\ graphs' = [graphs EXCEPT ![c] = new] /\ fleet' = fleet + 1
  BY DEF Accept, new, g, old, c
<1>6. HubTypeOK'
  BY <1>1, <1>2, <1>4, <1>5 DEF HubInv, HubTypeOK, Stored
<1>7. HistoryFollowsLatest'
  <2> SUFFICES ASSUME NEW b \in Clusters
               PROVE  IF latest'[b] = NoEnvelope THEN graphs'[b] = <<>>
                      ELSE HistoryOf(graphs'[b], b, latest'[b])
    BY DEF HistoryFollowsLatest, HistoryOf
  <2>1. CASE b = c
    <3>1. latest'[b] # NoEnvelope
      BY <1>1, <1>2, <1>5, <2>1, StoredAssumption DEF HubInv, HubTypeOK, Stored
    <3>2. QED
      BY <1>1, <1>4, <1>5, <2>1, <3>1 DEF HubInv, HubTypeOK
  <2>2. CASE b # c
    BY <1>5, <2>2 DEF HubInv, HubTypeOK, HistoryFollowsLatest
  <2>3. QED
    BY <2>1, <2>2
<1>8. QED
  BY <1>6, <1>7 DEF HubInv

LEMMA HubStep == HubInv /\ [HubNext]_hubVars => HubInv'
<1> SUFFICES ASSUME HubInv, [HubNext]_hubVars PROVE HubInv'
  OBVIOUS
<1>1. ASSUME NEW env \in Envelope, Put(env) PROVE HubInv'
  <2>1. CASE Complete(env) /\ Newer(env)
    BY <1>1, <2>1, AcceptStep DEF Put
  <2>2. CASE ~(Complete(env) /\ Newer(env))
    BY <1>1, <2>2 DEF Put, HubInv, HubTypeOK, HistoryFollowsLatest, HistoryOf, hubVars
  <2>3. QED
    BY <2>1, <2>2
<1>2. CASE UNCHANGED hubVars
  BY <1>2 DEF HubInv, HubTypeOK, HistoryFollowsLatest, HistoryOf, hubVars
<1>3. QED
  BY <1>1, <1>2 DEF HubNext

LEMMA HubInvariant == HubSpec => []HubInv
<1>1. HubInit => HubInv
  BY HubAssumption DEF HubInit, HubInv, HubTypeOK, HistoryFollowsLatest
<1>2. QED
  BY <1>1, HubStep, PTL DEF HubSpec

\* The hub's maps keep the types store.go declares.
THEOREM HubTypeCorrect == HubSpec => []HubTypeOK
<1>1. HubInv => HubTypeOK
  BY DEF HubInv
<1>2. QED
  BY <1>1, HubInvariant, PTL

\* The drilldown page and the delta endpoint of a cluster agree, whatever is
\* posted: the history is bounded, ordered and ends with the graph on display.
THEOREM HistoryIsSound == HubSpec => []HistoryFollowsLatest
<1>1. HubInv => HistoryFollowsLatest
  BY DEF HubInv
<1>2. QED
  BY <1>1, HubInvariant, PTL

\* What one Put does to one row: nothing, or a higher revision.
LEMMA PutAdvances ==
  ASSUME HubInv, NEW env \in Envelope, Put(env), NEW c \in Clusters
  PROVE  Advances(c)
<1> SUFFICES ASSUME latest[c] # NoEnvelope
             PROVE  /\ latest'[c] # NoEnvelope
                    /\ \/ latest'[c] = latest[c] /\ graphs'[c] = graphs[c]
                       \/ latest'[c].revision > latest[c].revision
  BY DEF Advances
<1>1. CASE Complete(env) /\ Newer(env)
  <2>1. Accept(env, ClusterOf(env)) /\ ClusterOf(env) \in Clusters
    BY <1>1, CompleteFits DEF Put
  <2>2. CASE c = ClusterOf(env)
    <3>1. latest'[c] \in Stored /\ latest'[c].revision = env.revision
      BY <1>1, <2>1, <2>2, CompleteFits DEF Accept, HubInv, HubTypeOK, Stored, Envelope
    <3>2. latest[c] \in Stored /\ latest[c].revision < env.revision
      BY <1>1, <2>2 DEF Newer, HubInv, HubTypeOK
    <3>3. QED
      BY <3>1, <3>2, HubAssumption, StoredAssumption DEF Stored
  <2>3. CASE c # ClusterOf(env)
    BY <2>1, <2>3 DEF Accept, HubInv, HubTypeOK
  <2>4. QED
    BY <2>2, <2>3
<1>2. CASE ~(Complete(env) /\ Newer(env))
  BY <1>2 DEF Put, hubVars
<1>3. QED
  BY <1>1, <1>2

\* No delivery, however late or repeated, moves a row backwards.
THEOREM RowsOnlyAdvance == HubSpec => RowsNeverGoBack
<1>1. HubInv /\ [HubNext]_hubVars => [\A c \in Clusters : Advances(c)]_hubVars
  BY PutAdvances DEF HubNext
<1>2. QED
  BY <1>1, HubInvariant, PTL DEF HubSpec, RowsNeverGoBack, Advances

\* One Put either changes nothing or changes one row and counts it.
LEMMA PutCounts ==
  ASSUME HubInv, NEW env \in Envelope, Put(env)
  PROVE  \/ UNCHANGED hubVars
         \/ /\ fleet' = fleet + 1
            /\ \E c \in Clusters : /\ latest'[c] # latest[c]
                                  /\ \A d \in Clusters \ {c} : latest'[d] = latest[d]
<1>1. CASE Complete(env) /\ Newer(env)
  <2> DEFINE c == ClusterOf(env)
             row == [revision |-> env.revision, tag |-> env.tag,
                     snapshot |-> env.snapshot, graph |-> GraphOf(env)]
  <2>1. Accept(env, c) /\ c \in Clusters
    BY <1>1, CompleteFits DEF Put
  <2>2. latest' = [latest EXCEPT ![c] = row] /\ fleet' = fleet + 1
    BY <2>1 DEF Accept
  <2>3. row \in Stored
    BY <1>1, CompleteFits DEF Stored, Envelope
  <2>4. latest[c] # row
    <3>1. CASE latest[c] = NoEnvelope
      BY <2>3, <3>1, StoredAssumption
    <3>2. CASE latest[c] # NoEnvelope
      <4>1. latest[c].revision < env.revision
        BY <1>1, <3>2 DEF Newer
      <4>2. latest[c].revision \in Nat /\ env.revision \in Nat
        BY <2>1, <3>2, HubAssumption DEF HubInv, HubTypeOK, Stored, Envelope
      <4>3. latest[c].revision # row.revision
        BY <4>1, <4>2
      <4>4. QED
        BY <4>3
    <3>3. QED
      BY <3>1, <3>2
  <2> HIDE DEF c, row
  <2>5. latest'[c] # latest[c] /\ \A d \in Clusters \ {c} : latest'[d] = latest[d]
    BY <2>1, <2>2, <2>4 DEF HubInv, HubTypeOK
  <2>6. QED
    BY <2>1, <2>2, <2>5
<1>2. CASE ~(Complete(env) /\ Newer(env))
  BY <1>2 DEF Put
<1>3. QED
  BY <1>1, <1>2

\* What browsers poll moves exactly when what they would see does: the fleet
\* revision stands still with every row, and each move is that of one row.
THEOREM FleetRevisionCountsRows == HubSpec => FleetCountsRows
<1> DEFINE Counted == IF fleet' = fleet THEN latest' = latest
                      ELSE \E c \in Clusters : /\ latest'[c] # latest[c]
                                               /\ \A d \in Clusters \ {c} : latest'[d] = latest[d]
<1>1. HubInv /\ [HubNext]_hubVars => [Counted]_hubVars
  <2> SUFFICES ASSUME HubInv, NEW env \in Envelope, Put(env)
               PROVE  [Counted]_hubVars
    BY DEF HubNext
  <2>1. CASE UNCHANGED hubVars
    BY <2>1
  <2>2. CASE ~ UNCHANGED hubVars
    <3>1. fleet' = fleet + 1 /\ fleet \in Nat
      BY <2>2, PutCounts DEF HubInv, HubTypeOK
    <3>2. fleet' # fleet
      BY <3>1
    <3>3. QED
      BY <2>2, <3>2, PutCounts
  <2>3. QED
    BY <2>1, <2>2
<1>2. QED
  BY <1>1, HubInvariant, PTL DEF HubSpec, FleetCountsRows, Counted

(***************************************************************************)
(* The collector, the wire and the hub.                                    *)
(***************************************************************************)
\* What the writer posts passes the hub's own checks; what the hooks hand over
\* to it need not.
Postable(env) == env \in Envelope /\ Complete(env)

Hook == [of : 1..revision, env : Envelope, at : {"offer", "drain", "reoffer"}]

Traffic ==
  /\ revision \in 0..MaxRevision /\ process \in 1..MaxStarts
  /\ known \subseteq {"arn", "server"} /\ projects \in BOOLEAN /\ unread \subseteq 1..revision
  /\ hooks \subseteq Hook
  /\ channel \in Queued /\ pending \in Queued /\ (acked = Nothing \/ Postable(acked))
  /\ writer \in {"take", "send", "answer", "retry"}
  /\ (writer = "take") <=> (pending = Nothing)

OnTheWire ==
  \A q \in wire :
    /\ q \in [env : Envelope, awaited : BOOLEAN] /\ Postable(q.env)
    /\ q.awaited => writer = "answer" /\ q.env = pending

Answering ==
  /\ hub \in 1..MaxHubStarts /\ ackedBy \in 0..hub
  /\ (ackedBy = 0) <=> (acked = Nothing)

RemoteInv == HubInv /\ Traffic /\ Answering /\ OnTheWire /\ AcknowledgedIsCovered

\* The hook's envelope is one, complete or not, whichever identity was derived.
LEMMA HookEnvelopes ==
  ASSUME process \in 1..MaxStarts, NEW rev \in 1..MaxRevision,
         NEW ids, NEW ok \in BOOLEAN
  PROVE  EnvelopeOf(rev, DerivedId(ids), ok) \in Envelope
<1> DEFINE id == DerivedId(ids)
           g == [cluster |-> IF id = NoId THEN "unknown" ELSE id, revision |-> rev, valid |-> ok]
<1>1. id \in Clusters \cup {NoId}
  BY RemoteAssumption DEF DerivedId
<1>2. rev \in Revisions /\ process \in Tags
  BY RemoteAssumption
<1> HIDE DEF id
<1>3. g \in Graph
  BY <1>1, <1>2, RemoteAssumption DEF Graph
<1> HIDE DEF g
<1>4. EnvelopeOf(rev, id, ok)
        = [id |-> id, revision |-> rev, tag |-> process, snapshot |-> TRUE,
           derived |-> id, projects |-> ok, graph |-> g]
  BY DEF EnvelopeOf, g
<1>5. EnvelopeOf(rev, id, ok) \in Envelope
  BY <1>1, <1>2, <1>3, <1>4 DEF Envelope
<1>6. QED
  BY <1>5 DEF id

\* After Put the hub shows the envelope or one that stood in its way.
Covered(env) ==
  LET row == latest[ClusterOf(env)]
  IN  row # NoEnvelope /\ row.revision >= env.revision

LEMMA PutCovers ==
  ASSUME HubInv, NEW env, Postable(env), Put(env)
  PROVE  Covered(env)'
<1> DEFINE c == ClusterOf(env)
<1>1. c \in Clusters /\ env \in Envelope /\ Complete(env)
  BY CompleteFits DEF Postable
<1>2. env.revision \in Nat /\ env.revision \in Revisions
  BY <1>1, HubAssumption DEF Envelope
<1>3. CASE Newer(env)
  <2>1. Accept(env, c) /\ GraphOf(env) \in Graph \cup {NoGraph}
    BY <1>1, <1>3, CompleteFits DEF Put
  <2>2. latest'[c] \in Stored /\ latest'[c].revision = env.revision
    BY <1>1, <2>1 DEF Accept, HubInv, HubTypeOK, Stored, Envelope
  <2>3. QED
    BY <1>2, <2>2, StoredAssumption DEF Covered
<1>4. CASE ~Newer(env)
  <2>1. latest' = latest
    BY <1>4 DEF Put, hubVars
  <2>2. latest[c] # NoEnvelope /\ ~(latest[c].revision < env.revision)
    BY <1>4 DEF Newer
  <2>3. latest[c] \in Stored
    BY <1>1, <2>2 DEF HubInv, HubTypeOK
  <2>4. latest[c].revision \in Nat
    BY <2>3, HubAssumption DEF Stored
  <2>5. QED
    BY <1>2, <2>1, <2>2, <2>4 DEF Covered
<1>5. QED
  BY <1>3, <1>4

\* and stays covered while other envelopes arrive.
LEMMA PutKeepsCovered ==
  ASSUME HubInv, NEW env, Postable(env), Put(env), NEW old, Postable(old), Covered(old)
  PROVE  Covered(old)'
<1> DEFINE c == ClusterOf(old)
<1>1. c \in Clusters /\ old.revision \in Nat
  BY CompleteFits, HubAssumption DEF Postable, Envelope
<1>2. latest[c] # NoEnvelope /\ latest[c] \in Stored
  BY <1>1 DEF Covered, HubInv, HubTypeOK
<1>3. latest[c].revision \in Nat /\ latest[c].revision >= old.revision
  BY <1>2, HubAssumption DEF Covered, Stored
<1>4. env \in Envelope
  BY DEF Postable
<1>5. HubInv'
  BY <1>4, HubStep DEF HubNext
<1>6. latest'[c] # NoEnvelope /\ (latest'[c] = latest[c] \/ latest'[c].revision > latest[c].revision)
  BY <1>1, <1>2, <1>4, PutAdvances DEF Advances
<1>7. latest'[c] \in Stored
  BY <1>1, <1>5, <1>6 DEF HubInv, HubTypeOK
<1>8. latest'[c].revision \in Nat
  BY <1>7, HubAssumption DEF Stored
<1>9. QED
  BY <1>1, <1>3, <1>6, <1>8 DEF Covered

LEMMA AcknowledgedMeansCovered ==
  AcknowledgedIsCovered <=> (acked # Nothing /\ ackedBy = hub => Covered(acked))
BY DEF AcknowledgedIsCovered, Covered

\* Each action of the hub, the writer, the hooks and the network.
LEMMA DeliverStep ==
  ASSUME RemoteInv, NEW q \in wire, Deliver(q)
  PROVE  RemoteInv'
<1>1. Postable(q.env) /\ q.env \in Envelope /\ (q.awaited => writer = "answer" /\ q.env = pending)
  BY DEF RemoteInv, OnTheWire, Postable
<1>2. HubInv /\ Put(q.env) /\ wire' = wire \ {q}
      /\ UNCHANGED <<hub, storeVars, process, hooks, channel>>
  BY DEF Deliver, RemoteInv
<1>3. HubInv'
  BY <1>1, <1>2, HubStep DEF HubNext
<1>4. Covered(q.env)'
  BY <1>1, <1>2, PutCovers
<1>5. acked # Nothing /\ ackedBy = hub => Covered(acked)
  BY AcknowledgedMeansCovered DEF RemoteInv
<1>6. (acked = Nothing \/ Postable(acked)) /\ Traffic /\ Answering /\ OnTheWire
  BY DEF RemoteInv, Traffic
<1>7. Traffic' /\ OnTheWire'
  <2>1. CASE q.awaited /\ Succeed
    BY <1>1, <1>2, <1>6, <2>1 DEF Succeed, Traffic, OnTheWire, Hook, Queued, storeVars, Nothing
  <2>2. CASE q.awaited /\ FailSend
    BY <1>1, <1>2, <1>6, <2>2 DEF FailSend, Traffic, OnTheWire, Hook, Queued, storeVars, Nothing
  <2>3. CASE ~q.awaited /\ UNCHANGED <<writer, pending, acked>>
    BY <1>1, <1>2, <1>6, <2>3 DEF Traffic, OnTheWire, Hook, Queued, storeVars, Nothing
  <2>4. QED
    BY <2>1, <2>2, <2>3 DEF Deliver
<1>8. AcknowledgedIsCovered'
  <2>1. CASE UNCHANGED <<acked, ackedBy>> /\ acked # Nothing /\ ackedBy = hub
    <3>1. PICK old : old = acked
      OBVIOUS
    <3>2. Postable(old) /\ Covered(old)
      BY <1>5, <1>6, <2>1, <3>1
    <3>3. Covered(old)'
      BY <1>1, <1>2, <3>2, PutKeepsCovered
    <3>4. QED
      BY <2>1, <3>1, <3>3 DEF AcknowledgedIsCovered, Covered
  <2>2. CASE UNCHANGED <<acked, ackedBy>> /\ (acked = Nothing \/ ackedBy # hub)
    BY <1>2, <2>2 DEF AcknowledgedIsCovered, Nothing
  <2>3. CASE acked' = q.env
    BY <1>4, <2>3 DEF AcknowledgedIsCovered, Covered
  <2>4. QED
    BY <1>1, <2>1, <2>2, <2>3 DEF Deliver, Succeed, FailSend
<1>9. Answering'
  <2>1. pending # Nothing \/ ~q.awaited
    BY <1>1, <1>6 DEF Traffic
  <2>2. CASE Succeed /\ q.awaited
    BY <1>2, <1>6, <2>1, <2>2 DEF Succeed, Answering, Nothing
  <2>3. CASE UNCHANGED <<acked, ackedBy>>
    BY <1>2, <1>6, <2>3 DEF Answering, Nothing
  <2>4. QED
    BY <2>2, <2>3 DEF Deliver, FailSend
<1>10. QED
  BY <1>3, <1>7, <1>8, <1>9 DEF RemoteInv

\* Steps that do not reach the hub and acknowledge nothing new.
LEMMA QuietStep ==
  ASSUME RemoteInv, UNCHANGED <<hubVars, hub>>,
         UNCHANGED <<acked, ackedBy>> \/ (acked' = Nothing /\ ackedBy' = 0),
         Traffic', OnTheWire'
  PROVE  RemoteInv'
<1>1. HubInv'
  BY HubStep DEF RemoteInv
<1>2. AcknowledgedIsCovered'
  BY DEF RemoteInv, AcknowledgedIsCovered, hubVars, Nothing
<1>3. Answering'
  BY DEF RemoteInv, Answering, Nothing
<1>4. QED
  BY <1>1, <1>2, <1>3 DEF RemoteInv

\* A restarted hub is like a new one, and has not answered for anything.
LEMMA HubRestartStep ==
  ASSUME RemoteInv, HubRestart
  PROVE  RemoteInv'
<1>1. HubInv'
  <2>1. /\ latest' = [c \in Clusters |-> NoEnvelope]
        /\ graphs' = [c \in Clusters |-> <<>>] /\ fleet' = 0
    BY DEF HubRestart
  <2>2. QED
    BY <2>1, HubAssumption DEF HubInv, HubTypeOK, HistoryFollowsLatest
<1>2. Traffic' /\ OnTheWire'
  BY DEF RemoteInv, HubRestart, Traffic, OnTheWire, Hook, Queued, Nothing, collectorVars, storeVars
<1>3. Answering' /\ ackedBy' # hub'
  BY RemoteAssumption DEF RemoteInv, HubRestart, Answering, Nothing, collectorVars
<1>4. QED
  BY <1>1, <1>2, <1>3 DEF RemoteInv, AcknowledgedIsCovered

LEMMA CollectorStep ==
  ASSUME RemoteInv,
         \/ \E ids \in Sightings, ok \in BOOLEAN : Published(ids, ok)
         \/ \E n \in unread : ReadView(n)
         \/ \E h \in hooks : PublishStep(h)
         \/ Writes \/ TimeOut \/ Restart
  PROVE  RemoteInv'
<1> USE DEF storeVars
<1>0. Traffic /\ OnTheWire /\ revision \in Nat
  BY DEF RemoteInv, Traffic
<1>1. ASSUME NEW ids \in Sightings, NEW ok \in BOOLEAN, Published(ids, ok) PROVE RemoteInv'
  <2>1. /\ revision' = revision + 1 /\ revision' \in 1..MaxRevision /\ hooks' = hooks
        /\ known' \subseteq {"arn", "server"} /\ unread' = unread \cup {revision'}
    BY <1>0, <1>1, RemoteAssumption DEF Published, Traffic, Sightings
  <2>2. hooks' \subseteq Hook' /\ unread' \subseteq 1..revision'
    BY <1>0, <2>1 DEF Traffic, Hook
  <2>3. Traffic'
    BY <1>0, <1>1, <2>1, <2>2 DEF Published, Traffic, Queued, Nothing
  <2>4. OnTheWire'
    BY <1>0, <1>1 DEF Published, OnTheWire
  <2>5. QED
    BY <1>1, <2>3, <2>4, QuietStep DEF Published
<1>2. ASSUME NEW h \in hooks, PublishStep(h) PROVE RemoteInv'
  <2>1. h \in Hook /\ hooks \subseteq Hook
    BY <1>0 DEF Traffic
  <2>2. [h EXCEPT !.at = "drain"] \in Hook /\ [h EXCEPT !.at = "reoffer"] \in Hook
        /\ h.env \in Envelope
    BY <2>1 DEF Hook
  <2>3. hooks' \subseteq hooks \cup {[h EXCEPT !.at = "drain"], [h EXCEPT !.at = "reoffer"]}
    BY <1>2 DEF PublishStep, Offer, Drain, Reoffer, Step, Ends
  <2>4. hooks' \subseteq Hook /\ Hook' = Hook
    BY <1>2, <2>1, <2>2, <2>3 DEF PublishStep, Hook
  <2>5. channel' = channel \/ channel' = Nothing \/ channel' = h.env
    BY <1>2 DEF PublishStep, Offer, Drain, Reoffer
  <2>6. channel' \in Queued
    BY <1>0, <2>2, <2>5 DEF Traffic, Queued
  <2>7. Traffic'
    BY <1>0, <1>2, <2>4, <2>6 DEF PublishStep, Traffic, Queued, Nothing
  <2>8. OnTheWire'
    BY <1>0, <1>2 DEF PublishStep, OnTheWire
  <2>9. QED
    BY <1>2, <2>7, <2>8, QuietStep DEF PublishStep
<1>3. ASSUME Writes PROVE RemoteInv'
  <2>1. CASE Post
    <3>1. Traffic'
      BY <1>0, <2>1 DEF Post, Traffic, Hook, Nothing
    <3>2. Postable(pending)
      BY <1>0, <2>1 DEF Post, Traffic, Queued, Postable
    <3>3. PICK sent : sent = pending
      OBVIOUS
    <3>4. [env |-> sent, awaited |-> TRUE] \in [env : Envelope, awaited : BOOLEAN]
      BY <3>2, <3>3 DEF Postable
    <3>5. wire' = wire \cup {[env |-> sent, awaited |-> TRUE]} /\ writer' = "answer" /\ pending' = sent
      BY <2>1, <3>3 DEF Post
    <3>6. \A q \in wire : q \in [env : Envelope, awaited : BOOLEAN] /\ Postable(q.env) /\ ~q.awaited
      BY <1>0, <2>1 DEF Post, OnTheWire
    <3>7. Postable(sent)
      BY <3>2, <3>3
    <3>8. OnTheWire'
      <4> SUFFICES ASSUME NEW q \in wire'
                   PROVE  /\ q \in [env : Envelope, awaited : BOOLEAN] /\ Postable(q.env)
                          /\ q.awaited => writer' = "answer" /\ q.env = pending'
        BY DEF OnTheWire
      <4>1. CASE q \in wire
        BY <3>6, <4>1
      <4>2. CASE q = [env |-> sent, awaited |-> TRUE]
        <5>1. q.env = sent
          BY <4>2
        <5>2. QED
          BY <3>4, <3>5, <3>7, <4>2, <5>1
      <4>3. QED
        BY <3>5, <4>1, <4>2
    <3>9. QED
      BY <2>1, <3>1, <3>8, QuietStep DEF Post
  <2>2. CASE Take \/ Replace \/ Retry \/ Refuse
    <3>1. Traffic'
      BY <1>0, <2>2 DEF Take, Replace, Retry, Refuse, FailSend, Traffic, Hook, Queued, Nothing
    <3>2. OnTheWire'
      BY <1>0, <2>2 DEF Take, Replace, Retry, Refuse, FailSend, OnTheWire
    <3>3. QED
      BY <2>2, <3>1, <3>2, QuietStep DEF Take, Replace, Retry, Refuse, FailSend
  <2>3. QED
    BY <1>3, <2>1, <2>2 DEF Writes
<1>4. ASSUME TimeOut \/ Restart PROVE RemoteInv'
  <2>1. Traffic'
    <3>1. CASE TimeOut
      BY <1>0, <3>1 DEF TimeOut, FailSend, Traffic, Hook, Nothing
    <3>2. CASE Restart
      <4>1. process' \in 1..MaxStarts /\ revision' \in 0..MaxRevision
        BY <1>0, <3>2, RemoteAssumption DEF Restart, Traffic
      <4>2. QED
        BY <1>0, <3>2, <4>1 DEF Restart, Traffic, Hook, Queued, Nothing
    <3>3. QED
      BY <1>4, <3>1, <3>2
  <2>2. wire' = Abandoned
    BY <1>4 DEF TimeOut, Restart
  <2>3. OnTheWire'
    <3> SUFFICES ASSUME NEW q \in wire
                 PROVE  LET r == [q EXCEPT !.awaited = FALSE]
                        IN  /\ r \in [env : Envelope, awaited : BOOLEAN] /\ Postable(r.env)
                            /\ ~r.awaited
      BY <2>2 DEF Abandoned, OnTheWire
    <3>1. q \in [env : Envelope, awaited : BOOLEAN] /\ Postable(q.env)
      BY <1>0 DEF OnTheWire
    <3>2. QED
      BY <3>1
  <2>4. UNCHANGED <<hubVars, hub>>
        /\ (UNCHANGED <<acked, ackedBy>> \/ (acked' = Nothing /\ ackedBy' = 0))
    BY <1>4 DEF TimeOut, Restart, FailSend
  <2>5. QED
    BY <2>1, <2>3, <2>4, QuietStep
<1>5. ASSUME NEW n \in unread, ReadView(n) PROVE RemoteInv'
  <2>1. /\ n \in 1..revision /\ revision \in 1..MaxRevision /\ process \in 1..MaxStarts
        /\ projects \in BOOLEAN /\ unread' \subseteq unread
    BY <1>0, <1>5 DEF Traffic, ReadView
  <2>2. PICK env : env = EnvelopeOf(revision, DerivedId(known), projects)
    OBVIOUS
  <2>3. env \in Envelope
    BY <2>1, <2>2, HookEnvelopes
  <2>4. hooks' = hooks \cup {[of |-> n, env |-> env, at |-> "offer"]} /\ revision' = revision
    BY <1>5, <2>2 DEF ReadView
  <2>5. hooks' \subseteq Hook'
    BY <1>0, <2>1, <2>3, <2>4 DEF Traffic, Hook
  <2>6. Traffic'
    BY <1>0, <1>5, <2>1, <2>5 DEF ReadView, Traffic, Queued, Nothing
  <2>7. OnTheWire'
    BY <1>0, <1>5 DEF ReadView, OnTheWire
  <2>8. QED
    BY <1>5, <2>6, <2>7, QuietStep DEF ReadView
<1>6. QED
  BY <1>1, <1>2, <1>3, <1>4, <1>5

LEMMA LoseStep ==
  ASSUME RemoteInv, NEW q \in wire, Lose(q)
  PROVE  RemoteInv'
<1>1. Traffic /\ OnTheWire /\ (q.awaited => writer = "answer")
  BY DEF RemoteInv, OnTheWire
<1>2. Traffic'
  BY <1>1 DEF Lose, FailSend, Traffic, Hook, Queued, Nothing, storeVars
<1>3. OnTheWire'
  BY <1>1 DEF Lose, FailSend, OnTheWire
<1>4. QED
  BY <1>2, <1>3, QuietStep DEF Lose, FailSend

LEMMA RemoteStep == RemoteInv /\ [RemoteNext]_allVars => RemoteInv'
<1>1. ASSUME RemoteInv, UNCHANGED allVars PROVE RemoteInv'
  <2>1. Traffic' /\ OnTheWire'
    BY <1>1 DEF RemoteInv, Traffic, OnTheWire, Hook, Queued, Nothing, allVars, collectorVars, storeVars
  <2>2. QED
    BY <1>1, <2>1, QuietStep DEF allVars, collectorVars
<1>2. QED
  BY <1>1, CollectorStep, DeliverStep, LoseStep, HubRestartStep DEF RemoteNext

LEMMA RemoteInvariant == RemoteSpec => []RemoteInv
<1>1. RemoteInit => RemoteInv
  <2>1. RemoteInit => HubInv
    BY HubAssumption DEF RemoteInit, HubInit, HubInv, HubTypeOK, HistoryFollowsLatest
  <2>2. RemoteInit => Traffic
    <3>1. 1 \in 1..MaxStarts /\ 0 \in 0..MaxRevision
      BY RemoteAssumption
    <3>2. QED
      BY <3>1 DEF RemoteInit, Traffic, Hook, Queued, Nothing
  <2>3. RemoteInit => OnTheWire /\ AcknowledgedIsCovered /\ Answering
    BY RemoteAssumption DEF Answering, RemoteInit, OnTheWire, AcknowledgedIsCovered, Nothing
  <2>4. QED
    BY <2>1, <2>2, <2>3 DEF RemoteInv
<1>2. QED
  BY <1>1, RemoteStep, PTL DEF RemoteSpec

\* The collector, its hooks and the wire keep their types, and only the request
\* the writer is waiting for can answer it.
THEOREM RemoteTypeCorrect == RemoteSpec => []RemoteTypeOK
<1>1. RemoteInv => RemoteTypeOK
  BY DEF RemoteInv, HubInv, Traffic, Answering, OnTheWire, RemoteTypeOK, Hook, Queued, Postable
<1>2. QED
  BY <1>1, RemoteInvariant, PTL

\* However many hooks race and whatever the network does, the hub that
\* acknowledged an envelope shows it, or has one at least as new in its row.
THEOREM AcknowledgedAlwaysCovered == RemoteSpec => []AcknowledgedIsCovered
<1>1. RemoteInv => AcknowledgedIsCovered
  BY DEF RemoteInv
<1>2. QED
  BY <1>1, RemoteInvariant, PTL

\* No late, repeated or restarted delivery of the collector moves a row back as
\* long as the hub runs.
THEOREM RemoteRowsOnlyAdvance == RemoteSpec => RowsLostByRestartOnly
<1>1. RemoteInv /\ [RemoteNext]_allVars
        => [hub' = hub => \A c \in Clusters : Advances(c)]_allVars
  <2>1. ASSUME RemoteInv, NEW q \in wire, Deliver(q), NEW c \in Clusters PROVE Advances(c)
    BY <2>1, PutAdvances DEF RemoteInv, OnTheWire, Deliver
  <2>2. ASSUME RemoteInv, HubRestart PROVE hub' # hub
    BY <2>2 DEF RemoteInv, Answering, HubRestart
  <2>3. ASSUME UNCHANGED hubVars, NEW c \in Clusters PROVE Advances(c)
    BY <2>3 DEF hubVars, Advances
  <2>4. QED
    BY <2>1, <2>2, <2>3 DEF RemoteNext, Published, ReadView, PublishStep, Writes, Take, Post, Refuse, Replace,
                            Retry, TimeOut, Lose, Restart
<1>2. QED
  BY <1>1, RemoteInvariant, PTL DEF RemoteSpec, RowsLostByRestartOnly
-----------------------------------------------------------------------------
\* Under which identity, by which process and at which revision an envelope
\* speaks: those on their way to the hub and those it shows.
NameOf(env) == <<ClusterOf(env), env.tag, env.revision>>
Carried == {h.env : h \in hooks} \cup ({channel, pending} \ {Nothing}) \cup {q.env : q \in wire}
Rows == {<<c, latest[c].tag, latest[c].revision>> : c \in {d \in Clusters : latest[d] # NoEnvelope}}
Seen == {NameOf(env) : env \in Carried} \cup Rows

\* A collector uses the fallback identity before the ARN and never after it.
FallbackFirst ==
  \A a, b \in Seen : a[1] = "server" /\ b[1] = "arn" /\ a[2] = b[2] => a[3] < b[3]
OfThePast ==
  \A a \in Seen :
    /\ a[2] \in 1..process /\ a[3] \in Nat
    /\ a[2] = process =>
         /\ a[3] <= revision
         /\ a[1] = "arn" => "arn" \in known
         /\ a[1] = "server" /\ a[3] = revision => "arn" \notin known
IdentityInv == FallbackFirst /\ OfThePast

\* Whatever is dropped, delivered, repeated or restarted: as long as nothing new
\* is seen, the order of the identities stands.
LEMMA NothingNewSeen ==
  ASSUME IdentityInv, Seen' \subseteq Seen, process \in Nat,
         \/ UNCHANGED <<process, revision, known>>
         \/ process' = process + 1
  PROVE  IdentityInv'
<1>1. FallbackFirst'
  BY DEF IdentityInv, FallbackFirst
<1>2. OfThePast'
  <2>1. CASE UNCHANGED <<process, revision, known>>
    BY <2>1 DEF IdentityInv, OfThePast
  <2>2. CASE process' = process + 1
    <3> SUFFICES ASSUME NEW a \in Seen
                 PROVE  a[2] \in 1..process' /\ a[3] \in Nat /\ a[2] # process'
      BY DEF OfThePast
    <3>1. a[2] \in 1..process /\ a[3] \in Nat
      BY DEF IdentityInv, OfThePast
    <3>2. QED
      BY <2>2, <3>1
  <2>3. QED
    BY <2>1, <2>2
<1>3. QED
  BY <1>1, <1>2 DEF IdentityInv

LEMMA LessCarried ==
  ASSUME Carried' \subseteq Carried, UNCHANGED latest
  PROVE  Seen' \subseteq Seen
<1>1. Rows' = Rows
  BY DEF Rows
<1>2. \A env : NameOf(env)' = NameOf(env)
  BY DEF NameOf, ClusterOf
<1>3. {NameOf(env) : env \in Carried}' \subseteq {NameOf(env) : env \in Carried}
  BY <1>2
<1>4. QED
  BY <1>1, <1>3 DEF Seen

\* Abandoning the requests on the wire leaves their envelopes there.
LEMMA AbandonedCarry ==
  ASSUME OnTheWire
  PROVE  {r.env : r \in Abandoned} = {q.env : q \in wire}
<1>1. \A q \in wire : [q EXCEPT !.awaited = FALSE].env = q.env
  BY DEF OnTheWire
<1>2. QED
  BY <1>1 DEF Abandoned

LEMMA StoredRow ==
  ASSUME HubInv, NEW env, Postable(env), Put(env)
  PROVE  Rows' \subseteq Rows \cup {NameOf(env)}
<1> DEFINE c == ClusterOf(env)
<1>1. c \in Clusters /\ env \in Envelope /\ Complete(env)
  BY CompleteFits DEF Postable
<1>2. CASE Newer(env)
  <2>1. Accept(env, c)
    BY <1>1, <1>2 DEF Put
  <2>2. PICK g : latest' = [latest EXCEPT ![c] = [revision |-> env.revision, tag |-> env.tag,
                                                 snapshot |-> env.snapshot, graph |-> g]]
    BY <2>1 DEF Accept
  <2> HIDE DEF c
  <2>3. /\ latest'[c].tag = env.tag /\ latest'[c].revision = env.revision
        /\ \A d \in Clusters : d # c => latest'[d] = latest[d]
    BY <1>1, <2>2 DEF HubInv, HubTypeOK
  <2>4. QED
    BY <2>3 DEF Rows, NameOf, c
<1>3. CASE ~Newer(env)
  BY <1>3 DEF Put, hubVars, Rows
<1>4. QED
  BY <1>2, <1>3

LEMMA CarriedOnly ==
  ASSUME RemoteInv,
         \/ \E h \in hooks : PublishStep(h)
         \/ Writes \/ TimeOut \/ Restart \/ \E q \in wire : Lose(q)
  PROVE  Carried' \subseteq Carried /\ UNCHANGED latest
<1>0. Traffic /\ OnTheWire /\ {r.env : r \in Abandoned} = {q.env : q \in wire}
  BY AbandonedCarry DEF RemoteInv
<1>1. ASSUME NEW h \in hooks, PublishStep(h) PROVE Carried' \subseteq Carried
  <2>1. h \in Hook
    BY <1>0 DEF Traffic
  <2>2. [h EXCEPT !.at = "drain"].env = h.env /\ [h EXCEPT !.at = "reoffer"].env = h.env
    BY <2>1 DEF Hook
  <2>3. hooks' \subseteq hooks \cup {[h EXCEPT !.at = "drain"], [h EXCEPT !.at = "reoffer"]}
    BY <1>1 DEF PublishStep, Offer, Drain, Reoffer, Step, Ends
  <2>4. channel' = channel \/ channel' = Nothing \/ channel' = h.env
    BY <1>1 DEF PublishStep, Offer, Drain, Reoffer
  <2>5. pending' = pending /\ wire' = wire
    BY <1>1 DEF PublishStep
  <2>6. QED
    BY <2>2, <2>3, <2>4, <2>5 DEF Carried, Nothing
<1>2. ASSUME Take \/ Replace \/ Retry \/ Refuse PROVE Carried' \subseteq Carried
  BY <1>2 DEF Take, Replace, Retry, Refuse, FailSend, Carried, Nothing
<1>3. ASSUME Post PROVE Carried' \subseteq Carried
  <2>1. pending # Nothing /\ hooks' = hooks /\ channel' = channel /\ pending' = pending
    BY <1>0, <1>3 DEF Post, Traffic
  <2>2. \A r \in wire' : r \in wire \/ r.env = pending
    BY <1>3 DEF Post
  <2>3. QED
    BY <2>1, <2>2 DEF Carried, Nothing
<1>4. ASSUME TimeOut PROVE Carried' \subseteq Carried
  <2>1. UNCHANGED <<hooks, channel, pending>> /\ wire' = Abandoned
    BY <1>4 DEF TimeOut, FailSend
  <2>2. QED
    BY <1>0, <2>1 DEF Carried, Nothing
<1>5. ASSUME Restart PROVE Carried' \subseteq Carried
  <2>1. hooks' = {} /\ channel' = Nothing /\ pending' = Nothing /\ wire' = Abandoned
    BY <1>5 DEF Restart, Nothing
  <2>2. QED
    BY <1>0, <2>1 DEF Carried, Nothing
<1>6. ASSUME NEW q \in wire, Lose(q) PROVE Carried' \subseteq Carried
  BY <1>6 DEF Lose, FailSend, Carried, Nothing
<1>7. UNCHANGED latest
  BY DEF PublishStep, Writes, Take, Post, Refuse, Replace, Retry, TimeOut, Restart, Lose, hubVars
<1>8. QED
  BY <1>1, <1>2, <1>3, <1>4, <1>5, <1>6, <1>7 DEF Writes

\* A publication is newer than all that its process made of the store so far.
LEMMA PublishedIdentity ==
  ASSUME RemoteInv, IdentityInv, NEW ids \in Sightings, NEW ok \in BOOLEAN, Published(ids, ok)
  PROVE  IdentityInv'
<1>1. /\ revision \in Nat /\ revision' = revision + 1 /\ known \subseteq known'
      /\ UNCHANGED <<latest, process>>
  BY DEF RemoteInv, Traffic, Published, hubVars
<1>2. Carried' \subseteq Carried
  BY DEF Published, Carried, Nothing
<1>3. Seen' \subseteq Seen
  BY <1>1, <1>2, LessCarried
<1>4. FallbackFirst'
  BY <1>3 DEF IdentityInv, FallbackFirst
<1>5. \A a \in Seen : /\ a[2] \in 1..process /\ a[3] \in Nat
                      /\ a[2] = process => a[3] <= revision /\ (a[1] = "arn" => "arn" \in known)
  BY DEF IdentityInv, OfThePast
<1>6. OfThePast'
  BY <1>1, <1>3, <1>5 DEF OfThePast
<1>7. QED
  BY <1>4, <1>6 DEF IdentityInv

\* What the hook makes of the view is as new as anything of its process, and
\* carries the ARN from the revision on that brought it.
LEMMA ReadIdentity ==
  ASSUME RemoteInv, IdentityInv, NEW n \in unread, ReadView(n)
  PROVE  IdentityInv'
<1> DEFINE id == DerivedId(known)
           new == <<id, process, revision>>
<1>1. /\ revision \in Nat /\ process \in 1..MaxStarts /\ process \in Nat
      /\ UNCHANGED <<latest, process, revision, known>>
  BY RemoteAssumption DEF RemoteInv, Traffic, ReadView, hubVars
<1>2. (id = "arn" => "arn" \in known) /\ (id = "server" => "arn" \notin known)
  BY RemoteAssumption, HubAssumption DEF DerivedId
<1>3. NameOf(EnvelopeOf(revision, id, projects)) = new
  <2> HIDE DEF id
  <2>1. QED
    BY DEF NameOf, ClusterOf, EnvelopeOf
<1>4. Seen' \subseteq Seen \cup {new}
  <2>1. \E e : NameOf(e) = new /\ Carried' \subseteq Carried \cup {e}
    <3>1. PICK e : e = EnvelopeOf(revision, id, projects)
      OBVIOUS
    <3>2. hooks' = hooks \cup {[of |-> n, env |-> e, at |-> "offer"]}
      BY <3>1 DEF ReadView
    <3>3. UNCHANGED <<channel, pending, wire>>
      BY DEF ReadView
    <3>4. Carried' \subseteq Carried \cup {e}
      BY <3>2, <3>3 DEF Carried, Nothing
    <3>5. QED
      BY <1>3, <3>1, <3>4
  <2>2. PICK e : NameOf(e) = new /\ Carried' \subseteq Carried \cup {e}
    BY <2>1
  <2>3. Rows' = Rows /\ \A env : NameOf(env)' = NameOf(env)
    BY <1>1 DEF Rows, NameOf, ClusterOf
  <2> HIDE DEF new
  <2>4. QED
    BY <2>2, <2>3 DEF Seen
<1> HIDE DEF id
<1>5. new[1] = id /\ new[2] = process /\ new[3] = revision
  OBVIOUS
<1> HIDE DEF new
<1>6. \A a \in Seen : /\ a[2] \in 1..process /\ a[3] \in Nat
                      /\ a[2] = process =>
                           /\ a[3] <= revision
                           /\ a[1] = "arn" => "arn" \in known
                           /\ a[1] = "server" /\ a[3] = revision => "arn" \notin known
  BY DEF IdentityInv, OfThePast
<1>7. OfThePast'
  <2> SUFFICES ASSUME NEW a \in Seen \cup {new}
               PROVE  /\ a[2] \in 1..process /\ a[3] \in Nat
                      /\ a[2] = process =>
                           /\ a[3] <= revision
                           /\ a[1] = "arn" => "arn" \in known
                           /\ a[1] = "server" /\ a[3] = revision => "arn" \notin known
    BY <1>1, <1>4 DEF OfThePast
  <2>1. QED
    BY <1>1, <1>2, <1>5, <1>6
<1>8. FallbackFirst'
  <2> SUFFICES ASSUME NEW a \in Seen \cup {new}, NEW b \in Seen \cup {new},
                      a[1] = "server", b[1] = "arn", a[2] = b[2]
               PROVE  a[3] < b[3]
    BY <1>4 DEF FallbackFirst
  <2>1. CASE a \in Seen /\ b \in Seen
    BY <2>1 DEF IdentityInv, FallbackFirst
  <2>2. CASE a \in Seen /\ b = new
    <3>1. a[2] = process /\ "arn" \in known /\ b[3] = revision
      BY <1>2, <1>5, <2>2
    <3>2. a[3] \in Nat /\ a[3] <= revision /\ a[3] # revision
      BY <1>6, <2>2, <3>1
    <3>3. QED
      BY <1>1, <3>1, <3>2
  <2>3. CASE a = new /\ b \in Seen
    BY <1>2, <1>5, <1>6, <2>3
  <2>4. CASE a = new /\ b = new
    BY <2>4
  <2>5. QED
    BY <2>1, <2>2, <2>3, <2>4
<1>9. QED
  BY <1>7, <1>8 DEF IdentityInv

LEMMA IdentityStep == RemoteInv /\ IdentityInv /\ [RemoteNext]_allVars => IdentityInv'
<1> SUFFICES ASSUME RemoteInv, IdentityInv, [RemoteNext]_allVars PROVE IdentityInv'
  OBVIOUS
<1>0. process \in Nat /\ Traffic /\ OnTheWire /\ HubInv
  BY DEF RemoteInv, Traffic
<1>1. ASSUME \/ \E h \in hooks : PublishStep(h)
             \/ Writes \/ TimeOut \/ Restart \/ \E q \in wire : Lose(q)
      PROVE  IdentityInv'
  <2>1. Seen' \subseteq Seen
    BY <1>1, CarriedOnly, LessCarried
  <2>2. UNCHANGED <<process, revision, known>> \/ process' = process + 1
    BY <1>1 DEF PublishStep, Writes, Take, Post, Refuse, Replace, Retry, TimeOut, Restart, Lose, storeVars
  <2>3. QED
    BY <1>0, <2>1, <2>2, NothingNewSeen
<1>2. ASSUME NEW q \in wire, Deliver(q) PROVE IdentityInv'
  <2>1. Postable(q.env) /\ (q.awaited => q.env = pending)
    BY <1>0 DEF OnTheWire
  <2>2. Rows' \subseteq Rows \cup {NameOf(q.env)}
    BY <1>0, <1>2, <2>1, StoredRow DEF Deliver
  <2>3. Carried' \subseteq Carried /\ q.env \in Carried
    BY <1>2 DEF Deliver, Succeed, FailSend, Carried, Nothing
  <2>4. \A env : NameOf(env)' = NameOf(env)
    BY DEF NameOf, ClusterOf
  <2>5. Seen' \subseteq Seen
    BY <2>2, <2>3, <2>4 DEF Seen
  <2>6. UNCHANGED <<process, revision, known>>
    BY <1>2 DEF Deliver, storeVars
  <2>7. QED
    BY <1>0, <2>5, <2>6, NothingNewSeen
<1>3. ASSUME HubRestart PROVE IdentityInv'
  <2>1. UNCHANGED collectorVars /\ latest' = [c \in Clusters |-> NoEnvelope]
    BY <1>3 DEF HubRestart
  <2>2. Rows' = {} /\ Carried' = Carried /\ \A env : NameOf(env)' = NameOf(env)
    BY <2>1 DEF Rows, Carried, collectorVars, NameOf, ClusterOf, Nothing
  <2>3. Seen' \subseteq Seen
    BY <2>2 DEF Seen
  <2>4. QED
    BY <1>0, <2>1, <2>3, NothingNewSeen DEF collectorVars, storeVars
<1>4. CASE UNCHANGED allVars
  <2>1. Seen' = Seen
    BY <1>4 DEF Seen, Rows, Carried, NameOf, ClusterOf, Nothing, allVars, collectorVars, hubVars
  <2>2. QED
    BY <1>0, <1>4, <2>1, NothingNewSeen DEF allVars, collectorVars, storeVars
<1>5. QED
  BY <1>1, <1>2, <1>3, <1>4, PublishedIdentity, ReadIdentity DEF RemoteNext

\* However late and in whatever order the envelopes of one collector arrive, the
\* row of its fallback identity is older than the one under its ARN.
THEOREM FallbackAlwaysSuperseded == RemoteSpec => []FallbackIsSuperseded
<1>1. RemoteInit => IdentityInv
  <2>1. RemoteInit => Seen = {}
    BY DEF RemoteInit, HubInit, Seen, Rows, Carried, Nothing
  <2>2. QED
    BY <2>1 DEF IdentityInv, FallbackFirst, OfThePast
<1>2. IdentityInv => FallbackIsSuperseded
  <2> SUFFICES ASSUME IdentityInv, latest["server"] # NoEnvelope, latest["arn"] # NoEnvelope,
                      latest["server"].tag = latest["arn"].tag
               PROVE  latest["server"].revision < latest["arn"].revision
    BY DEF FallbackIsSuperseded
  <2> DEFINE row(c) == <<c, latest[c].tag, latest[c].revision>>
  <2>1. row("server") \in Seen /\ row("arn") \in Seen
    BY RemoteAssumption DEF Seen, Rows
  <2>2. QED
    BY <2>1 DEF IdentityInv, FallbackFirst
<1>3. QED
  BY <1>1, <1>2, IdentityStep, RemoteInvariant, PTL DEF RemoteSpec

-----------------------------------------------------------------------------
\* One publication at a time: its newest envelope is about to be read, in the
\* hook's hands, or in the first of channel, pending and acked that holds one.
OneHook ==
  /\ IsFiniteSet(hooks) /\ \A h, k \in hooks : h = k
  /\ IsFiniteSet(unread) /\ \A m, n \in unread : m = n
  /\ hooks = {} \/ unread = {}
HookHoldsNewest ==
  \A h \in hooks : AtLeast(h.env, revision) /\ (h.at = "reoffer" => channel = Nothing)
FirstIsNewest ==
  hooks = {} /\ unread = {} /\ revision > 0 =>
    IF channel # Nothing THEN AtLeast(channel, revision)
    ELSE IF pending # Nothing THEN AtLeast(pending, revision) ELSE AtLeast(acked, revision)
NewestInv == OneHook /\ HookHoldsNewest /\ FirstIsNewest

LEMMA OneHookPublished ==
  ASSUME MaxHooks = 1, OneHook, Cardinality(unread) + Cardinality(hooks) < MaxHooks
  PROVE  hooks = {} /\ unread = {}
<1>1. Cardinality(hooks) \in Nat /\ IsFiniteSet(hooks) /\ Cardinality(unread) \in Nat
      /\ IsFiniteSet(unread)
  BY FS_CardinalityType DEF OneHook
<1>2. Cardinality(hooks) = 0 /\ Cardinality(unread) = 0
  BY <1>1
<1>3. QED
  BY <1>1, <1>2, FS_EmptySet

\* A hook that steps on is still the only one; one that ends leaves none.
LEMMA OneHookSteps ==
  ASSUME OneHook, NEW h \in hooks, NEW at, Step(h, at), unread' = unread
  PROVE  OneHook' /\ hooks' = {[h EXCEPT !.at = at]} /\ unread' = {}
<1>1. hooks = {h} /\ unread = {}
  BY DEF OneHook
<1>2. hooks' = {[h EXCEPT !.at = at]}
  BY <1>1 DEF Step
<1>3. IsFiniteSet({[h EXCEPT !.at = at]}) /\ IsFiniteSet({})
  BY FS_Singleton, FS_EmptySet
<1>4. QED
  BY <1>1, <1>2, <1>3 DEF OneHook

LEMMA OneHookEnds ==
  ASSUME OneHook, NEW h \in hooks, Ends(h), unread' = unread
  PROVE  OneHook' /\ hooks' = {} /\ unread' = {}
<1>1. hooks' = {} /\ unread' = {}
  BY DEF OneHook, Ends
<1>2. QED
  BY <1>1, FS_EmptySet DEF OneHook

LEMMA NewestHookStep ==
  ASSUME RemoteInv, NewestInv, NEW h \in hooks, PublishStep(h)
  PROVE  NewestInv'
<1>1. /\ AtLeast(h.env, revision) /\ (h.at = "reoffer" => channel = Nothing) /\ OneHook
      /\ h \in Hook
      /\ UNCHANGED <<revision, process, unread>>
  BY DEF NewestInv, HookHoldsNewest, RemoteInv, Traffic, PublishStep, storeVars
<1>2. ASSUME NEW at \in {"drain", "reoffer"}, Step(h, at),
             at = "reoffer" => channel' = Nothing
      PROVE  NewestInv'
  <2>1. OneHook' /\ hooks' = {[h EXCEPT !.at = at]}
    BY <1>1, <1>2, OneHookSteps
  <2>2. [h EXCEPT !.at = at].env = h.env /\ [h EXCEPT !.at = at].at = at
    BY <1>1 DEF Hook
  <2>3. QED
    BY <1>1, <1>2, <2>1, <2>2 DEF NewestInv, HookHoldsNewest, FirstIsNewest, AtLeast, Nothing
<1>3. ASSUME Ends(h), channel' = h.env PROVE NewestInv'
  <2>1. OneHook' /\ hooks' = {}
    BY <1>1, <1>3, OneHookEnds
  <2>2. QED
    BY <1>1, <1>3, <2>1 DEF NewestInv, HookHoldsNewest, FirstIsNewest, AtLeast, Nothing
<1>4. CASE Offer(h)
  BY <1>2, <1>3, <1>4 DEF Offer
<1>5. CASE Drain(h)
  BY <1>2, <1>5 DEF Drain
<1>6. CASE Reoffer(h)
  BY <1>1, <1>3, <1>6 DEF Reoffer
<1>7. QED
  BY <1>4, <1>5, <1>6 DEF PublishStep

LEMMA NewestPublished ==
  ASSUME MaxHooks = 1, RemoteInv, NewestInv, NEW ids, NEW ok, Published(ids, ok)
  PROVE  NewestInv'
<1>1. hooks = {} /\ unread = {}
  BY OneHookPublished DEF NewestInv, Published
<1>2. hooks' = {} /\ unread' = {revision'}
  BY <1>1 DEF Published
<1>3. IsFiniteSet({revision'}) /\ IsFiniteSet({})
  BY FS_Singleton, FS_EmptySet
<1>4. QED
  BY <1>2, <1>3 DEF NewestInv, OneHook, HookHoldsNewest, FirstIsNewest

LEMMA NewestRead ==
  ASSUME RemoteInv, NewestInv, NEW n \in unread, ReadView(n)
  PROVE  NewestInv'
<1>1. hooks = {} /\ unread = {n}
  BY DEF NewestInv, OneHook
<1>2. PICK env : env = EnvelopeOf(revision, DerivedId(known), projects)
  OBVIOUS
<1>3. hooks' = {[of |-> n, env |-> env, at |-> "offer"]} /\ unread' = {}
  BY <1>1, <1>2 DEF ReadView
<1>4. OneHook'
  <2>1. IsFiniteSet({[of |-> n, env |-> env, at |-> "offer"]}) /\ IsFiniteSet({})
    BY FS_Singleton, FS_EmptySet
  <2>2. QED
    BY <1>3, <2>1 DEF OneHook
<1>5. /\ env.tag = process /\ env.revision = revision
      /\ process' = process /\ revision' = revision /\ revision \in Nat
  BY <1>2 DEF EnvelopeOf, ReadView, RemoteInv, Traffic
<1>6. env # Nothing
  <2>1. revision \in 1..MaxRevision /\ projects \in BOOLEAN /\ process \in 1..MaxStarts
    BY RemoteAssumption DEF RemoteInv, Traffic
  <2>2. env \in Envelope
    BY <1>2, <2>1, HookEnvelopes
  <2>3. QED
    BY <2>2, StoredAssumption DEF Nothing
<1>7. \A h \in hooks' : h.env = env /\ h.at = "offer"
  BY <1>3
<1>8. HookHoldsNewest'
  BY <1>5, <1>6, <1>7 DEF HookHoldsNewest, AtLeast, Nothing
<1>9. hooks' # {}
  BY <1>3
<1>10. QED
  BY <1>4, <1>8, <1>9 DEF NewestInv, FirstIsNewest

\* The writer passes the newest envelope on: it replaces an older one only by a
\* newer one, and lets go of it when the hub has answered for it.
LEMMA NewestPassedOn ==
  ASSUME RemoteInv, NewestInv,
         \/ Writes \/ TimeOut \/ HubRestart
         \/ \E q \in wire : Deliver(q) \/ Lose(q)
  PROVE  NewestInv'
<1>0. UNCHANGED <<hooks, revision, process, unread>> /\ OnTheWire /\ Traffic
  BY DEF Writes, Take, Post, Refuse, Replace, Retry, TimeOut, HubRestart, Deliver, Lose,
     collectorVars, storeVars, RemoteInv
<1>1. channel' = channel \/ channel' = Nothing
  BY DEF Writes, Take, Post, Refuse, Replace, Retry, TimeOut, HubRestart, Deliver, Lose,
     collectorVars, Nothing
<1>2. OneHook' /\ HookHoldsNewest'
  BY <1>0, <1>1 DEF NewestInv, OneHook, HookHoldsNewest, AtLeast, Nothing
<1>3. ASSUME UNCHANGED <<channel, pending, acked>> PROVE FirstIsNewest'
  BY <1>0, <1>3 DEF NewestInv, FirstIsNewest, AtLeast, Nothing
<1>4. ASSUME pending' = channel, channel # Nothing, channel' = Nothing PROVE FirstIsNewest'
  BY <1>0, <1>4 DEF NewestInv, FirstIsNewest, AtLeast, Nothing
<1>5. ASSUME channel' = channel, Succeed, pending # Nothing PROVE FirstIsNewest'
  BY <1>0, <1>5 DEF NewestInv, FirstIsNewest, AtLeast, Nothing, Succeed
<1>6. ASSUME Writes PROVE FirstIsNewest'
  <2>1. CASE Take \/ Replace
    BY <1>4, <2>1 DEF Take, Replace, Nothing
  <2>2. CASE Post \/ Retry \/ Refuse
    BY <1>3, <2>2 DEF Post, Retry, Refuse, FailSend
  <2>3. QED
    BY <1>6, <2>1, <2>2 DEF Writes
<1>7. ASSUME TimeOut \/ HubRestart PROVE FirstIsNewest'
  BY <1>3, <1>7 DEF TimeOut, FailSend, HubRestart, collectorVars
<1>8. ASSUME NEW q \in wire, Deliver(q) \/ Lose(q) PROVE FirstIsNewest'
  <2>1. q.awaited => pending # Nothing
    BY <1>0 DEF OnTheWire, Traffic
  <2>2. channel' = channel
    BY <1>8 DEF Deliver, Lose
  <2>3. CASE Succeed /\ q.awaited
    BY <1>5, <2>1, <2>2, <2>3
  <2>4. CASE UNCHANGED <<pending, acked>>
    BY <1>3, <2>2, <2>4
  <2>5. QED
    BY <1>8, <2>3, <2>4 DEF Deliver, Lose, FailSend
<1>9. FirstIsNewest'
  BY <1>6, <1>7, <1>8
<1>10. QED
  BY <1>2, <1>9 DEF NewestInv

\* "with only the newest pending envelope retained" (README.md:342-344) is true of
\* publications far enough apart that one hook has ended before the next begins,
\* whatever the network, the hub and restarts do.  Two hooks at a time can lose
\* the newest envelope.
THEOREM NewestAlwaysRetained ==
  ASSUME MaxHooks = 1
  PROVE  RemoteSpec => []NewestRetained
<1>1. RemoteInit => NewestInv
  BY FS_EmptySet DEF RemoteInit, NewestInv, OneHook, HookHoldsNewest, FirstIsNewest
<1>2. RemoteInv /\ NewestInv /\ [RemoteNext]_allVars => NewestInv'
  <2> SUFFICES ASSUME RemoteInv, NewestInv, [RemoteNext]_allVars PROVE NewestInv'
    OBVIOUS
  <2>1. CASE Restart
    <3>1. hooks' = {} /\ revision' = 0 /\ unread' = {}
      BY <2>1 DEF Restart
    <3>2. QED
      BY <3>1, FS_EmptySet DEF NewestInv, OneHook, HookHoldsNewest, FirstIsNewest
  <2>2. CASE UNCHANGED allVars
    BY <2>2 DEF NewestInv, OneHook, HookHoldsNewest, FirstIsNewest, AtLeast, Nothing, allVars,
       collectorVars, storeVars
  <2>3. QED
    BY <2>1, <2>2, NewestPublished, NewestRead, NewestHookStep, NewestPassedOn DEF RemoteNext
<1>3. NewestInv => NewestRetained
  <2> SUFFICES ASSUME NewestInv, revision > 0 PROVE NewestKept
    BY DEF NewestRetained
  <2>1. CASE hooks = {} /\ unread = {}
    BY <2>1 DEF NewestInv, FirstIsNewest, NewestKept
  <2>2. CASE hooks # {} \/ unread # {}
    BY <2>2 DEF NewestInv, HookHoldsNewest, NewestKept
  <2>3. QED
    BY <2>1, <2>2
<1>4. QED
  BY <1>1, <1>2, <1>3, RemoteInvariant, PTL DEF RemoteSpec

-----------------------------------------------------------------------------
\* What reaches the hub is what store.go is written for: as long as the hub runs,
\* each step of the whole system is a Put of some envelope, or none of its own.
HubStepsArePuts == [][hub' = hub => HubNext \/ UNCHANGED hubVars]_allVars

LEMMA RemoteStepIsPut ==
  ASSUME RemoteInv, [RemoteNext]_allVars, hub' = hub
  PROVE  HubNext \/ UNCHANGED hubVars
<1>1. ASSUME NEW q \in wire, Deliver(q) PROVE HubNext
  BY <1>1 DEF RemoteInv, OnTheWire, Postable, Deliver, HubNext
<1>2. ~HubRestart
  BY DEF RemoteInv, Answering, HubRestart
<1>3. QED
  BY <1>1, <1>2 DEF RemoteNext, Published, ReadView, PublishStep, Writes, Take, Post, Refuse, Replace,
     Retry, TimeOut, Lose, Restart, allVars

THEOREM HubIsOnlyPutTo == RemoteSpec => HubInit /\ HubStepsArePuts
<1>1. RemoteInit => HubInit
  BY DEF RemoteInit
<1>2. RemoteInv /\ [RemoteNext]_allVars => [hub' = hub => HubNext \/ UNCHANGED hubVars]_allVars
  BY RemoteStepIsPut
<1>3. QED
  BY <1>1, <1>2, RemoteInvariant, PTL DEF RemoteSpec, HubStepsArePuts

\* With a hub that is not restarted, the collector, its hooks, the network and
\* the retries together implement the hub store's own specification, whose
\* properties they inherit.
THEOREM RemoteImplementsHub ==
  ASSUME MaxHubStarts = 1
  PROVE  RemoteSpec => HubSpec
<1>1. RemoteInit => HubInit
  BY DEF RemoteInit
<1>2. RemoteInv /\ [RemoteNext]_allVars => [HubNext]_hubVars
  <2> SUFFICES ASSUME RemoteInv, [RemoteNext]_allVars PROVE [HubNext]_hubVars
    OBVIOUS
  <2>1. ~HubRestart
    BY DEF RemoteInv, Answering, HubRestart
  <2>2. hub' = hub
    BY <2>1 DEF RemoteNext, Published, ReadView, PublishStep, Writes, Take, Post, Refuse, Replace,
       Retry, TimeOut, Lose, Deliver, Restart, allVars
  <2>3. QED
    BY <2>2, RemoteStepIsPut
<1>3. QED
  BY <1>1, <1>2, RemoteInvariant, PTL DEF RemoteSpec, HubSpec
=============================================================================
