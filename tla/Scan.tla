---------------------------------- MODULE Scan ----------------------------------
(***************************************************************************)
(* One `teleskope scan` of an EKS cluster (internal/cli/cli.go): first the *)
(* EKS collector, then the Kubernetes collector, and what the later stages *)
(* make of the snapshot.  No resource version ties the calls together: the *)
(* cluster may change between any two of them, and any of them may fail.   *)
(***************************************************************************)
EXTENDS KubernetesCollector, AwsCollector, Projection, AnalysisContext

CONSTANTS
    InitialWorld,       \* what the API servers hold when the scan starts
    Successors(_),      \* the worlds that one change leads to
    MaxChanges,         \* how often the world changes during a scan
    MaxFailures         \* how many of its calls fail

ASSUME EventsAssumption == MaxChanges \in Nat /\ MaxFailures \in Nat

VARIABLES
    history,            \* the worlds there were during the scan
    changes,            \* the changes so far
    failures            \* the failing calls so far

vars == <<world, coverage, kubernetesVars, awsVars, history, changes, failures>>

Snapshot == [kubernetes |-> kubernetes, eks |-> eks, coverage |-> coverage]

Answer(outcome) ==
    /\ outcome # "ok" => failures < MaxFailures
    /\ failures' = IF outcome = "ok" THEN failures ELSE failures + 1

CollectAws ==
    \E outcome \in AwsOutcomes :
        /\ Answer(outcome)
        /\ CallAws(outcome)
        /\ UNCHANGED <<world, kubernetesVars, history, changes>>

CollectKubernetes ==
    \E outcome \in Outcomes :
        /\ awsScan = "done"
        /\ Answer(outcome)
        /\ CallKubernetes(outcome)
        /\ UNCHANGED <<world, awsVars, history, changes>>

\* Somebody changes the cluster or the account while the scan runs.
Change ==
    /\ scan = "running" /\ awsScan # "failed"
    /\ changes < MaxChanges
    /\ world' \in Successors(world)
    /\ history' = history \cup {world'}
    /\ changes' = changes + 1
    /\ UNCHANGED <<coverage, kubernetesVars, awsVars, failures>>

Init ==
    /\ world = InitialWorld
    /\ coverage = {}
    /\ history = {InitialWorld}
    /\ changes = 0 /\ failures = 0
    /\ AwsInit
    /\ KubernetesInit

Next == CollectAws \/ CollectKubernetes \/ Change

Spec == Init /\ [][Next]_vars

Done == scan = "done"

(***************************************************************************)
(* The scan that takes no time and meets no failure.                       *)
(***************************************************************************)
CallsOf(list) == {r \in ListCalls : ListOf(r) = list}
GatewayCallsOf(list) == {r \in DOMAIN GatewayTypes : ListOf(r) = list}

IdealList(w, list) ==
    (UNION {ListsOf(r, w) : r \in CallsOf(list)})
    \cup (UNION {{MapGatewayItem(r, "v1", i) : i \in w[r]} : r \in GatewayCallsOf(list)})
    \cup (IF list = "Version" THEN {w.version} ELSE {})
    \cup (IF list = "APIResources" THEN w.apiResources ELSE {})

IdealEKS(w) ==
    [EmptyEKS EXCEPT
        !.Addons = {MapAddon(n, w.Addons[n]) : n \in DOMAIN w.Addons},
        !.Nodegroups = {MapNodegroup(n, w.Nodegroups[n]) : n \in DOMAIN w.Nodegroups},
        !.Insights = {MapInsight(n, w.Insights[n]) : n \in DOMAIN w.Insights}]

Ideal(w) ==
    [kubernetes |-> [list \in KubernetesLists |-> IdealList(w.kubernetes, list)],
     eks |-> IdealEKS(w.aws),
     coverage |-> {Complete("kubernetes", r, 1) :
                        r \in ListCalls \cup DOMAIN GatewayTypes \cup {"APIResources"}}
                  \cup {Complete("eks", f, 1) : f \in Families}]

InitialSnapshot == Ideal(InitialWorld)
InitialCapabilities == Capabilities(InitialSnapshot)
InitialSets == InventorySets(InitialSnapshot)

LaterSnapshots == {Ideal(w) : w \in history \ {InitialWorld}}

\* There is no cluster at the other side yet.
NewCluster == [kubernetes |-> EmptyKubernetes, eks |-> EmptyEKS, coverage |-> {}]

Incomplete(area, resource) ==
    \E c \in Items(Snapshot, area, resource) : c.status # "complete"

(***************************************************************************)
(* The topology graph.                                                     *)
(***************************************************************************)
NodesOf(graph, ref) ==
    {n \in graph.nodes : n.uid = ref.uid /\ n.name = ref.name /\ n.id[3] = ref.namespace}

\* Every object that was collected is one node.
ObjectsAreDrawn(graph) ==
    \A o \in CollectedObjects(Snapshot) : Cardinality(NodesOf(graph, o.ref)) = 1

\* An owner that was collected owns by its own node; any other is a
\* placeholder or, when it was recreated, the object of its name.
OwnersAreDrawn(graph) ==
    LET collected == {o.ref : o \in CollectedObjects(Snapshot)} IN
    \A item \in kubernetes.Pods \cup kubernetes.Workloads :
        \A owner \in ToSet(item.owners) :
            \E e \in graph.edges :
                /\ \E n \in NodesOf(graph, item.ref) : n.id = e.target
                /\ \E n \in graph.nodes :
                    /\ n.id = e.source /\ n.name = owner.name
                    /\ IF owner.uid \in {r.uid : r \in collected}
                       THEN n.uid = owner.uid /\ e.relation = "owns"
                       ELSE n.kind = "pseudo-unresolved" \/ e.relation = "owns"

\* However torn or incomplete the snapshot is, its graph is valid (unique ids,
\* no dangling edge or parent), every collected object is a node, and every
\* owner is drawn as the object that has its UID when that was collected
\* (project.go, Graph.Validate in model.go).
GraphTellsAll ==
    Done => LET graph == Project(Snapshot)
            IN  Validate(graph) /\ ObjectsAreDrawn(graph) /\ OwnersAreDrawn(graph)

(***************************************************************************)
(* The advisor.                                                            *)
(***************************************************************************)
\* A claim and a volume that are evidence for ReadWriteMany storage were bound
\* to each other at one moment, never only by the names of two moments.
RwxEvidenceWasBound ==
    \A class \in kubernetes.StorageClasses :
        \A b \in BoundVolumes(Snapshot, class.ref.name) :
            \E w \in history :
                /\ \E c \in w.kubernetes.PersistentVolumeClaims : c.uid = b[1].ref.uid
                /\ \E v \in w.kubernetes.PersistentVolumes :
                        v.uid = b[2].ref.uid /\ v.claimRef.uid = b[1].ref.uid

\* What is concluded with complete coverage is what a scan without failures
\* concludes.  The exception is an add-on, whose conclusion also rests on the
\* insights while its coverage is that of the add-ons alone.
CompleteConclusionsStand ==
    history = {InitialWorld} =>
        \A c \in {d \in Capabilities(Snapshot) : d.coverage = "complete"} :
            \/ \E i \in InitialCapabilities :
                    i.key = c.key /\ i.scope = c.scope /\ i.assessment = c.assessment
            \/ c.key = "eks.addon" /\ Incomplete("eks", "Insights")

\* The conclusions of the advisor are warranted: evidence of two lists belongs
\* to one moment of the cluster, and a gap in the collection never turns a
\* conclusion into another one without lowering its coverage (advisor.go).
ConclusionsAreWarranted == Done => RwxEvidenceWasBound /\ CompleteConclusionsStand

(***************************************************************************)
(* The comparison.                                                         *)
(***************************************************************************)
\* The list that a compared category is read from.
CategoryList ==
    [apiResources |-> "APIResources",
     customResourceDefinitions |-> "CustomResourceDefinitions",
     namespaces |-> "Namespaces", ingressClasses |-> "IngressClasses",
     gatewayClasses |-> "GatewayClasses", storageClasses |-> "StorageClasses",
     csiDrivers |-> "CSIDrivers", runtimeClasses |-> "RuntimeClasses",
     nodePlatforms |-> "Nodes", serviceAccounts |-> "ServiceAccounts",
     configMaps |-> "ConfigMaps", secrets |-> "SecretsMetadata",
     persistentVolumeClaims |-> "PersistentVolumeClaims"]

Warned(report, role, resources) ==
    \E w \in report.coverageWarnings : w.role = role /\ w.resource \in resources

\* The keys that each of some collections has.
Throughout(collections) ==
    {key \in UNION collections : \A c \in collections : key \in c}

SaidMissing(report, category) ==
    (IF category \in Compared THEN report.inventoryDiffs[category].onlyInSource ELSE {})
    \cup (IF category \in DOMAIN report.missingReferences
          THEN report.missingReferences[category] ELSE {})

\* Against the scanned cluster as target, what is called missing although it
\* was there all the time belongs to a list with a coverage warning.
MissingIsWarned(report, sets) ==
    \A category \in DOMAIN CategoryList :
        \/ Warned(report, "target", {CategoryList[category]})
        \/ SaidMissing(report, category)
              \cap Throughout({Keys(s[category]) : s \in sets}) = {}

\* As the source, what its workloads of one kind need all the time is found, or
\* the list of that kind has a warning.
NeedsAreFound(report) ==
    \A kind \in ToSet(WorkloadCalls) :
        \/ Warned(report, "source", {kind})
        \/ \A needs \in {{NeedsOf(ListsOf(kind, w.kubernetes)) : w \in history}} :
                \A category \in DOMAIN report.missingReferences :
                    Throughout({n[category] : n \in needs}) \subseteq
                        report.missingReferences[category]

\* A capability of an unchanged cluster is only called lost with a warning.
LossIsWarned(report) ==
    (history = {InitialWorld} /\ \E f \in report.findings : f.category = "capability")
        => \E w \in report.coverageWarnings : w.role = "target"

\* A comparison never presents a gap of the collection as a difference of the
\* clusters without a coverage warning, nor loses what workloads of one kind
\* need throughout, whatever the other lists lack or saw too early.  A need that
\* moves from one kind to another during the scan may be lost without a warning
\* (compare.go: CoverageWarnings, workloadNeeds, diffMaps).
ComparisonIsWarranted ==
    Done =>
        \A later \in {LaterSnapshots} :
            /\ \A report \in {CompareReport(InitialSnapshot, Snapshot)} :
                /\ MissingIsWarned(report, {InitialSets} \cup {InventorySets(s) : s \in later})
                /\ LossIsWarned(report)
            /\ \A report \in {CompareReport(Snapshot, NewCluster)} :
                NeedsAreFound(report)

(***************************************************************************)
(* Gaps.                                                                   *)
(***************************************************************************)
\* The lists that a scan asks for, as their coverage items name them.
AskedLists ==
    {<<"kubernetes", Program[i].resource>> : i \in DOMAIN Program}
    \cup {<<"kubernetes", "CustomResourceInstances">>}
    \cup {<<"eks", f>> : f \in Families \cup {"DescribeCluster"}}
    \cup {<<"autoscaling", "DescribeAutoScalingGroups">>,
          <<"autoscaling", "DescribeScalingActivities">>, <<"aws", "sts:GetCallerIdentity">>}
    \cup {<<"ec2", r>> : r \in {"DescribeInstances", "DescribeVpcs", "DescribeSubnets",
                                 "DescribeRouteTables", "DescribeSecurityGroups"}}

\* Every list has one coverage item, whatever failed before it.  The exception
\* are the instances of definitions that could not be listed.
EveryListIsCovered ==
    \A l \in AskedLists :
        \/ Cardinality(Items(Snapshot, l[1], l[2])) = 1
        \/ /\ l[2] = "CustomResourceInstances" /\ Items(Snapshot, l[1], l[2]) = {}
           /\ Incomplete("kubernetes", "CustomResourceDefinitions")

\* The instances of the node groups of a world, by the chain that the
\* collector follows: node group, auto scaling group, instance.
GroupInstances(w) ==
    LET groups == UNION {w.Nodegroups[n].autoScalingGroups : n \in DOMAIN w.Nodegroups}
    IN  (UNION {DOMAIN w.AutoScalingGroups[g].instances :
                     g \in groups \cap DOMAIN w.AutoScalingGroups}) \cap DOMAIN w.Instances

InfrastructureChain ==
    {<<"eks", "Nodegroups">>, <<"autoscaling", "DescribeAutoScalingGroups">>,
     <<"ec2", "DescribeInstances">>}

\* An instance that was behind a node group all the time and that the snapshot
\* lacks is explained by an incomplete item of one of the lists that lead to it,
\* though the requests after the gap succeed.
MissingInstanceIsExplained ==
    \A id \in GroupInstances(InitialWorld.aws) \ {i.instanceID : i \in eks.Instances} :
        \/ \E w \in history : id \notin GroupInstances(w.aws)
        \/ \E l \in InfrastructureChain : Incomplete(l[1], l[2])

\* No gap is silent: every list that the scan asks for has one coverage item,
\* and what a chain of requests did not reach is explained by an item of the
\* chain (collector.go of both collectors, infrastructure.go).
GapsAreRecorded == Done => EveryListIsCovered /\ MissingInstanceIsExplained

(***************************************************************************)
(* The analysis of a selection.                                            *)
(***************************************************************************)
Scope(page, namespace, refs) ==
    [page |-> page, resourceType |-> "", namespace |-> namespace, refs |-> refs]

\* The selections a reader may make on a page: an object of this or an earlier
\* scan, or a whole namespace.
Selections(page, lists) ==
    LET refs == UNION {{i.ref : i \in IdealList(w.kubernetes, list)} :
                        w \in history, list \in UNION {SectionLists(l) : l \in lists}}
    IN  {Scope(page, r.namespace, {r}) : r \in refs}
        \cup {Scope(page, n.name, {}) : n \in world.kubernetes.Namespaces}

\* What a selection means: objects by name, whatever their UIDs.
SameObject(a, b) ==
    /\ a.apiVersion = b.apiVersion /\ a.kind = b.kind
    /\ a.namespace = b.namespace /\ a.name = b.name

InSelection(ref, scope) ==
    /\ scope.namespace # "" => ref.namespace \in {"", scope.namespace}
    /\ scope.refs # {} => \E r \in scope.refs : SameObject(r, ref)

\* What a list of the snapshot has for a scope is in the answer, or is cut.
Answers(list, scope, refs, omitted) ==
    \/ list \in omitted
    \/ \A i \in {j \in SectionItems(Snapshot, list) : InSelection(j.ref, scope)} :
            \E r \in refs : SameObject(r, i.ref)

PageAnswers(scope, page) ==
    \A list \in DOMAIN page :
        Answers(list, scope, {i.ref : i \in page[list].items}, page[list].omitted)

\* An analysis is about what was selected: each object of the snapshot that the
\* selection names, whatever its UID is by now, is in the request or its list
\* is announced as cut (context.go).
SelectionIsAnswered ==
    Done =>
        /\ \A p \in DOMAIN PageLists : \A scope \in Selections(p, PageLists[p]) :
                PageAnswers(scope, Page(Snapshot, scope))
        /\ \A scope \in Selections("workloads", {"Workloads"}) :
                \A context \in {ScanContext(Snapshot, scope)} :
                    Answers("Workloads", scope, {c.item.ref : c \in context.workloads},
                            context.omitted)
=============================================================================
