------------------------------ MODULE Projection ------------------------------
(***************************************************************************)
(* The topology graph of a snapshot (internal/topology/project.go and      *)
(* model.go).  The projection joins lists that were read at different      *)
(* moments and some of which may be missing: what it cannot resolve        *)
(* becomes a placeholder node, never a dangling edge.                      *)
(*                                                                         *)
(* An id is the tuple that the code escapes and joins with slashes; its    *)
(* last part, the identity, is a tuple as well, of what the code joins to  *)
(* one text with separators that no kind and no namespace contains.  Nodes *)
(* are the records of the graph, so two nodes of one id are two elements.  *)
(* Metrics, metadata, evidence texts and the references from nodes to the  *)
(* conclusions of the advisor are left out.  Node groups, add-ons,         *)
(* insights and instances become nodes one by one, without a test for      *)
(* duplicates: the sets here would merge two equal items, which one        *)
(* listing of AWS does not have.                                           *)
(***************************************************************************)
EXTENDS Advisor

NodeID(provider, kind, namespace, identity) == <<provider, kind, namespace, identity>>

PseudoKind(kind) ==
    CASE kind = "internet"          -> "pseudo-internet"
      [] kind = "external-endpoint" -> "pseudo-external-endpoint"
      [] kind = "unresolved"        -> "pseudo-unresolved"

PseudoNodeID(provider, kind, namespace, identity) ==
    NodeID(provider, PseudoKind(kind), namespace, identity)

EdgeID(kind, source, target, provider) == <<kind, source, target, provider>>

NoID == <<>>

\* addEdge(): an edge with an unknown end is not made.  The relation names an
\* edge but does not identify it.
Edge(kind, source, target, provider, relation) ==
    IF source = NoID \/ target = NoID THEN {}
    ELSE {[id |-> EdgeID(kind, source, target, provider), source |-> source,
           target |-> target, kind |-> kind, provider |-> provider, relation |-> relation]}

(***************************************************************************)
(* The identity of the cluster and of its objects.                         *)
(***************************************************************************)
ClusterProvider(s) == IF s.eks.Cluster # {} THEN "eks" ELSE "kubernetes"

\* The ARN, else the name, of the EKS cluster; else the kubeconfig context,
\* which stays the same for all snapshots of one scan.
ClusterIdentity(s) ==
    IF s.eks.Cluster = {} THEN "context"
    ELSE LET c == CHOOSE x \in s.eks.Cluster : TRUE
         IN  IF c.arn # "" THEN c.arn ELSE c.name

ClusterID(s) == NodeID(ClusterProvider(s), "cluster", "", <<ClusterIdentity(s)>>)

LowerKinds ==
    [Pod |-> "pod", Node |-> "node", Service |-> "service",
     EndpointSlice |-> "endpointslice", Deployment |-> "deployment",
     DaemonSet |-> "daemonset", StatefulSet |-> "statefulset",
     ReplicaSet |-> "replicaset", Job |-> "job", CronJob |-> "cronjob",
     StorageClass |-> "storageclass", PersistentVolume |-> "persistentvolume",
     PersistentVolumeClaim |-> "persistentvolumeclaim",
     IngressClass |-> "ingressclass", GatewayClass |-> "gatewayclass",
     CustomResourceDefinition |-> "customresourcedefinition",
     Nodegroup |-> "nodegroup", Addon |-> "addon", EKSInsight |-> "eksinsight",
     EKSInsightResource |-> "eksinsightresource"]

Lower(kind) == IF kind \in DOMAIN LowerKinds THEN LowerKinds[kind] ELSE kind

ObjectKey(ref, kind) == <<kind, ref.namespace, ref.name>>

\* The collected objects that become nodes, with the kind of their node.
CollectedObjects(s) ==
    LET k == s.kubernetes
        as(items, kind) == {[ref |-> i.ref, kind |-> kind] : i \in items}
    IN  as(k.Nodes, "node") \cup as(k.Workloads, "workload") \cup as(k.Pods, "pod")
        \cup as(k.Services, "service") \cup as(k.EndpointSlices, "endpoint-slice")

EvidenceRefs(s) == UNION {c.evidence : c \in Capabilities(s)}

\* collectedUIDIdentities(): a UID identifies an object only as long as one
\* identity claims it.
UniqueUIDs(refs) ==
    LET claims == {<<r.uid, ObjectKey(r, Lower(r.kind))>> :
                    r \in {q \in refs : q.uid # "" /\ q.name # ""}}
    IN  {c[1] : c \in {d \in claims : \A e \in claims : e[1] = d[1] => e = d}}

(***************************************************************************)
(* addObject(): the node of an object, named by UID where that is safe.    *)
(* `ids` are the lookup tables: `unique` UIDs, by UID and by kind and name.*)
(***************************************************************************)
NameKey(o, unique) ==
    LET name == IF o.ref.uid \in unique THEN o.ref.uid ELSE o.ref.name
    IN  IF o.kind = "workload" THEN <<Lower(o.ref.kind), name>> ELSE <<name>>

ObjectID(o, unique) ==
    NodeID("kubernetes", o.kind, o.ref.namespace, NameKey(o, unique))

NamespaceID(s, namespace) ==
    IF namespace = "" THEN ClusterID(s) ELSE NodeID("kubernetes", "namespace", "", <<namespace>>)

GraphNode(id, kind, name, parent, uid) ==
    [id |-> id, kind |-> kind, name |-> name, parent |-> parent, uid |-> uid]

ObjectNode(s, o, unique) ==
    GraphNode(ObjectID(o, unique), o.kind, o.ref.name, NamespaceID(s, o.ref.namespace),
              o.ref.uid)

\* A pair <<key, id>> for each name an object is found under; a workload is
\* only found under its own kind.
ObjectNames(o, unique) ==
    LET kinds == {Lower(o.ref.kind)} \cup (IF o.kind = "workload" THEN {} ELSE {o.kind})
    IN  {<<ObjectKey(o.ref, kind), ObjectID(o, unique)>> : kind \in kinds}

NamesOfEKS(s) ==
    {<<<<"nodegroup", "", g.name>>, NodeID("eks", "nodegroup", "", <<g.name>>)>> :
        g \in s.eks.Nodegroups}
    \cup {<<<<"addon", "", a.name>>, NodeID("eks", "addon", "", <<a.name>>)>> : a \in s.eks.Addons}
    \cup {<<<<"eksinsight", "", InsightScope(i)>>, NodeID("eks", "eksinsight", "", <<i.id>>)>> :
            i \in s.eks.Insights}

Lookup(pairs, key) ==
    IF \E p \in pairs : p[1] = key THEN (CHOOSE p \in pairs : p[1] = key)[2] ELSE NoID

Tables(objects, unique, others) ==
    [uids |-> {<<o.ref.uid, ObjectID(o, unique)>> : o \in {p \in objects : p.ref.uid \in unique}},
     names |-> (UNION {ObjectNames(o, unique) : o \in objects}) \cup others]

\* Mutant: UIDs are not looked up.
FindObjectIDByName(ids, ref) ==
    Lookup(ids.names, ObjectKey(ref, Lower(ref.kind)))

\* findObjectID(): by UID, else by name, of its own kind first and then of the
\* four kinds an endpoint or an owner may be, whatever kind was asked for.
FindObjectID(ids, ref) ==
    LET kinds == <<Lower(ref.kind), "pod", "service", "node", "endpoint-slice">>
        named(i) == Lookup(ids.names, ObjectKey(ref, kinds[i]))
        found == {i \in DOMAIN kinds : named(i) # NoID}
    IN  CASE ref.name = "" -> NoID
          [] ref.name # "" /\ ref.uid # "" /\ Lookup(ids.uids, ref.uid) # NoID ->
                Lookup(ids.uids, ref.uid)
          [] OTHER -> IF found = {} THEN NoID ELSE named(Min(found))

(***************************************************************************)
(* Relations.  A relation yields edges and the placeholders they need.     *)
(***************************************************************************)
Placeholder(s, provider, kind, identity, namespace, name) ==
    GraphNode(PseudoNodeID(provider, kind, namespace, identity), PseudoKind(kind), name,
              NamespaceID(s, namespace), "")

Drawn(nodes, edges) == [nodes |-> nodes, edges |-> edges]

DrawAll(drawings) ==
    Drawn(UNION {d.nodes : d \in drawings}, UNION {d.edges : d \in drawings})

\* The object a reference resolves to, or a placeholder for it.
Resolve(s, ids, ref, namespace) ==
    LET found == FindObjectID(ids, ref)
        unresolved == Placeholder(s, "kubernetes", "unresolved",
                                  ObjectKey(ref, Lower(ref.kind)),
                                  namespace, ref.name)
    IN  IF found # NoID THEN [id |-> found, known |-> TRUE, nodes |-> {}]
        ELSE [id |-> unresolved.id, known |-> FALSE, nodes |-> {unresolved}]

OwnerRelations(s, ids, item) ==
    LET child == FindObjectID(ids, item.ref)
        owning(parent) ==
            Drawn(parent.nodes,
                  IF parent.known THEN Edge("ownership", parent.id, child, "kubernetes", "owns")
                  ELSE Edge("declared", parent.id, child, "kubernetes", "unresolved-owner"))
    IN  DrawAll({owning(Resolve(s, ids, owner, owner.namespace)) : owner \in ToSet(item.owners)})

NodeNamed(ids, name) == Lookup(ids.names, <<"node", "", name>>)

Scheduling(ids, pod) ==
    Drawn({}, Edge("resolved", Lookup(ids.names, ObjectKey(pod.ref, "pod")),
                   NodeNamed(ids, pod.nodeName), "kubernetes", "scheduled-to"))

\* A service selects a workload when the two selectors are the same.
EqualSelector(a, b) == DOMAIN a # {} /\ a = b

ServiceRelations(s, ids, service) ==
    LET id == Lookup(ids.names, ObjectKey(service.ref, "service"))
        selected == {w \in s.kubernetes.Workloads :
                        /\ w.ref.namespace = service.ref.namespace
                        /\ EqualSelector(service.selector, w.selector)}
        exposed(ip) == Placeholder(s, "external", "external-endpoint", <<ip>>,
                                   service.ref.namespace, ip)
    IN  Drawn({exposed(ip) : ip \in service.externalIPs},
              (UNION {Edge("declared", id, FindObjectID(ids, w.ref), "kubernetes", "selects") :
                         w \in selected})
              \cup UNION {Edge("declared", id, exposed(ip).id, "kubernetes", "exposes") :
                            ip \in service.externalIPs})

EndpointRelations(s, ids, slice, endpoint) ==
    LET id == Lookup(ids.names, ObjectKey(slice.ref, "endpoint-slice"))
        targeting(target) ==
            Drawn(target.nodes,
                  IF target.known THEN Edge("resolved", id, target.id, "kubernetes", "targets")
                  ELSE Edge("declared", id, target.id, "kubernetes", "unresolved-target"))
        at(address) == Placeholder(s, "external", "external-endpoint", <<address>>,
                                   slice.ref.namespace, address)
    IN  IF endpoint.targetRef.name # ""
        THEN targeting(Resolve(s, ids, endpoint.targetRef, slice.ref.namespace))
        ELSE Drawn({at(a) : a \in endpoint.addresses},
                   UNION {Edge("resolved", id, at(a).id, "kubernetes", "addresses") :
                            a \in endpoint.addresses})

SliceRelations(s, ids, slice) ==
    LET id == Lookup(ids.names, ObjectKey(slice.ref, "endpoint-slice"))
        service == Lookup(ids.names, <<"service", slice.ref.namespace, slice.serviceName>>)
    IN  DrawAll({Drawn({}, Edge("resolved", service, id, "kubernetes", "has-endpoints"))}
                \cup {EndpointRelations(s, ids, slice, e) : e \in slice.endpoints})

KubernetesRelations(s, ids) ==
    LET k == s.kubernetes
    IN  DrawAll({OwnerRelations(s, ids, i) : i \in k.Workloads \cup k.Pods}
                \cup {Scheduling(ids, p) : p \in k.Pods}
                \cup {ServiceRelations(s, ids, v) : v \in k.Services}
                \cup {SliceRelations(s, ids, e) : e \in k.EndpointSlices})

(***************************************************************************)
(* EKS and AWS objects, all directly under the cluster.                    *)
(***************************************************************************)
Contained(s, kind, namedBy) ==
    Drawn({GraphNode(n[2], kind, n[1], ClusterID(s), "") : n \in namedBy},
          UNION {Edge("ownership", ClusterID(s), n[2], "eks", "contains") : n \in namedBy})

EKSRelations(s, ids) ==
    LET named(kind) ==
            {<<p[1][3], p[2]>> : p \in {q \in NamesOfEKS(s) : q[1][1] = kind}}
        instanceID(i) == NodeID("aws", "ec2-instance", "", <<i.instanceID>>)
        groupOf(node) == Lookup(ids.names, <<"nodegroup", "",
                                             Label(node, "eks.amazonaws.com/nodegroup")>>)
    IN  DrawAll({Contained(s, kind, named(kind)) : kind \in {"nodegroup", "addon", "eksinsight"}}
            \cup {Drawn({}, Edge("resolved", groupOf(n),
                                 Lookup(ids.names, ObjectKey(n.ref, "node")),
                                 "kubernetes", "manages")) : n \in s.kubernetes.Nodes}
            \cup {Drawn({GraphNode(instanceID(i), "ec2-instance", i.instanceID,
                                   ClusterID(s), "")},
                        Edge("resolved", NodeNamed(ids, i.kubernetesNodeName),
                             instanceID(i), "aws", "backed-by")) : i \in s.eks.Instances})

InternetAccess(s) ==
    LET internet == Placeholder(s, "external", "internet", <<"internet">>, "", "Internet")
    IN  IF \E c \in s.eks.Cluster : c.publicAccess
        THEN Drawn({internet}, Edge("declared", ClusterID(s), internet.id, "eks",
                                    "public-api-access"))
        ELSE Drawn({}, {})

(***************************************************************************)
(* Coverage: one item for each provider and capability, the worst status.  *)
(***************************************************************************)
CoverageRank(status) ==
    CASE status = "unavailable" -> 3
      [] status = "partial"     -> 2
      [] status = "unknown"     -> 1
      [] status = "complete"    -> 0

\* A denied list is unknown to the graph.
GraphStatus(status) ==
    IF status \in {"complete", "partial", "unavailable"} THEN status ELSE "unknown"

MergedCoverage(s) ==
    LET statuses(area, resource) ==
            {GraphStatus(c.status) : c \in Items(s, area, resource)}
        worst(found) == CHOOSE x \in found : \A y \in found : CoverageRank(y) <= CoverageRank(x)
    IN  {[provider |-> c.area, capability |-> c.resource,
          status |-> worst(statuses(c.area, c.resource))] : c \in s.coverage}

(***************************************************************************)
(* ProjectForCluster(): collected objects first, then their relations, EKS *)
(* and AWS, and last the objects that only the evidence of the advisor     *)
(* names.  A namespace is added when it is listed or when something is in  *)
(* it.                                                                     *)
(***************************************************************************)
NamespaceNodes(s, objects, nodes) ==
    {GraphNode(NamespaceID(s, n), "namespace", n, ClusterID(s), "") :
        n \in ({n.ref.name : n \in s.kubernetes.Namespaces}
               \cup {o.ref.namespace : o \in objects}
               \cup {n.id[3] : n \in {m \in nodes : m.parent # ClusterID(s)}}) \ {""}}

OnePerID(items) == {CHOOSE i \in items : i.id = id : id \in {i.id : i \in items}}

\* What only the evidence names is a node of its own kind.
EvidenceObjects(ids, refs) ==
    {[ref |-> r, kind |-> Lower(r.kind)] :
        r \in {q \in refs : q.name # "" /\ FindObjectID(ids, q) = NoID}}

Relations(s, ids) ==
    DrawAll({InternetAccess(s), KubernetesRelations(s, ids), EKSRelations(s, ids)})

GraphOf(s, objects, unique, namespaces, drawn) ==
    [nodes |-> {GraphNode(ClusterID(s), "cluster", ClusterIdentity(s), NoID, "")}
               \cup namespaces \cup drawn.nodes
               \cup OnePerID({ObjectNode(s, o, unique) : o \in objects}),
     edges |-> OnePerID(drawn.edges
               \cup UNION {Edge("ownership", ClusterID(s), n.id, "kubernetes", "contains") :
                            n \in namespaces}),
     coverage |-> MergedCoverage(s)
                  \cup {[provider |-> "external", capability |-> "runtime-connections",
                         status |-> "unavailable"]}]

WithNamespaces(s, objects, unique, drawn) ==
    GraphOf(s, objects, unique, NamespaceNodes(s, objects, drawn.nodes), drawn)

WithRelations(s, objects, refs, unique, ids) ==
    WithNamespaces(s, objects \cup EvidenceObjects(ids, refs), unique, Relations(s, ids))

WithNames(s, objects, refs, unique) ==
    WithRelations(s, objects, refs, unique, Tables(objects, unique, NamesOfEKS(s)))

WithObjects(s, objects, refs) ==
    WithNames(s, objects, refs, UniqueUIDs({o.ref : o \in objects} \cup refs))

Project(s) == WithObjects(s, CollectedObjects(s), EvidenceRefs(s))

(***************************************************************************)
(* Graph.Validate().                                                       *)
(***************************************************************************)
EdgeKinds == {"ownership", "declared", "resolved", "inferred", "observed"}

ParentsExist(graph) ==
    \A n \in graph.nodes : n.parent = NoID \/ \E p \in graph.nodes : p.id = n.parent

ValidNodes(graph) ==
    /\ \A a, b \in graph.nodes : a.id = b.id => a = b
    /\ \A n \in graph.nodes : n.name # "" /\ n.id[4] # <<"">> /\ n.id[2] = n.kind
    /\ ParentsExist(graph)

EdgesJoinNodes(graph) ==
    \A e \in graph.edges :
        /\ e.kind \in EdgeKinds
        /\ \A end \in {e.source, e.target} : \E n \in graph.nodes : n.id = end

ValidEdges(graph) ==
    /\ \A a, b \in graph.edges : a.id = b.id => a = b
    /\ EdgesJoinNodes(graph)

ValidCoverage(graph) ==
    /\ \A a, b \in graph.coverage :
            <<a.provider, a.capability>> = <<b.provider, b.capability>> => a = b
    /\ \A c \in graph.coverage : c.status \in {"complete", "partial", "unavailable", "unknown"}
    /\ \E c \in graph.coverage : c.capability = "runtime-connections"

Validate(graph) == ValidNodes(graph) /\ ValidEdges(graph) /\ ValidCoverage(graph)
=============================================================================
