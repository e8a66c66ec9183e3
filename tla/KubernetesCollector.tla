-------------------------- MODULE KubernetesCollector --------------------------
(***************************************************************************)
(* The Kubernetes collector (internal/k8s/collector.go).  Collect reads    *)
(* one list after the other with no resource version to tie them together: *)
(* each list is a moment of its own, so the snapshot may be torn.  A list  *)
(* that cannot be read leaves a coverage item and the scan goes on; only   *)
(* the server version is indispensable.                                    *)
(*                                                                         *)
(* `todo` is the rest of the program: its head is the next API call.       *)
(***************************************************************************)
EXTENDS KubernetesMapping

CONSTANTS ContextNamespace      \* the namespace of the kubeconfig context, or ""

VARIABLES
    todo,           \* the API calls still to make, in order
    skippedCRDs,    \* the definitions whose instances could not be listed
    scan            \* "running", "done" or "failed"

kubernetesVars == <<kubernetes, todo, skippedCRDs, scan>>

Outcomes == {"ok", "forbidden", "unavailable"}

(***************************************************************************)
(* The order of the calls.                                                 *)
(***************************************************************************)
GatewayTypes ==
    [GatewayClasses |-> [plural |-> "gatewayclasses", kind |-> "GatewayClass",
                         versions |-> <<"v1", "v1beta1">>],
     Gateways       |-> [plural |-> "gateways", kind |-> "Gateway",
                         versions |-> <<"v1", "v1beta1">>],
     HTTPRoutes     |-> [plural |-> "httproutes", kind |-> "HTTPRoute",
                         versions |-> <<"v1", "v1beta1">>],
     GRPCRoutes     |-> [plural |-> "grpcroutes", kind |-> "GRPCRoute",
                         versions |-> <<"v1", "v1beta1", "v1alpha2">>],
     TLSRoutes      |-> [plural |-> "tlsroutes", kind |-> "TLSRoute",
                         versions |-> <<"v1", "v1alpha3", "v1alpha2">>],
     TCPRoutes      |-> [plural |-> "tcproutes", kind |-> "TCPRoute",
                         versions |-> <<"v1", "v1alpha2">>],
     UDPRoutes      |-> [plural |-> "udproutes", kind |-> "UDPRoute",
                         versions |-> <<"v1", "v1alpha2">>],
     ReferenceGrants |-> [plural |-> "referencegrants", kind |-> "ReferenceGrant",
                         versions |-> <<"v1", "v1beta1", "v1alpha2">>],
     BackendTLSPolicies |->
        [plural |-> "backendtlspolicies", kind |-> "BackendTLSPolicy",
         versions |-> <<"v1", "v1alpha3">>],
     BackendTrafficPolicies |->
        [plural |-> "backendtrafficpolicies", kind |-> "BackendTrafficPolicy",
         versions |-> <<"v1alpha1">>],
     XBackendTrafficPolicies |->
        [plural |-> "xbackendtrafficpolicies", kind |-> "XBackendTrafficPolicy",
         versions |-> <<"v1alpha1">>]]

CoreCalls == <<"Namespaces", "Nodes", "ServiceAccounts", "Pods", "Services",
               "ConfigMaps", "SecretsMetadata">>
ExtensionCalls == <<"CustomResourceDefinitions", "APIServices">>
WorkloadCalls == <<"Deployments", "DaemonSets", "StatefulSets", "ReplicaSets",
                   "Jobs", "CronJobs">>
RouteCalls == <<"HTTPRoutes", "GRPCRoutes", "TLSRoutes", "TCPRoutes", "UDPRoutes">>
PolicyTypeCalls == <<"BackendTLSPolicies", "BackendTrafficPolicies",
                     "XBackendTrafficPolicies">>
GatewayCalls == <<"GatewayClasses", "Gateways">> \o RouteCalls
                    \o <<"ReferenceGrants">> \o PolicyTypeCalls
NetworkingCalls == <<"EndpointSlices", "IngressClasses", "Ingresses">> \o GatewayCalls
StorageCalls == <<"StorageClasses", "PersistentVolumes", "PersistentVolumeClaims",
                  "CSIDrivers", "CSINodes", "VolumeAttachments">>
RuntimeCalls == <<"RuntimeClasses">>
RBACCalls == <<"Roles", "RoleBindings", "ClusterRoles", "ClusterRoleBindings">>
PolicyCalls == <<"HorizontalPodAutoscalers", "PodDisruptionBudgets",
                 "NetworkPolicies", "ResourceQuotas", "LimitRanges">>
AdmissionCalls == <<"MutatingWebhookConfigurations", "ValidatingWebhookConfigurations">>

\* A pending call; only gateway calls and instance calls use the other fields.
Call(resource) ==
    [resource |-> resource, candidates |-> <<>>, fallback |-> FALSE, crd |-> ""]

Program ==
    LET names == <<"ServerVersion", "APIResources">> \o CoreCalls \o ExtensionCalls
                 \o WorkloadCalls \o NetworkingCalls \o StorageCalls \o RuntimeCalls
                 \o RBACCalls \o PolicyCalls \o AdmissionCalls
    IN  [i \in DOMAIN names |-> Call(names[i])]

(***************************************************************************)
(* What a list call returns, mapped, when the world is `w`.  Custom        *)
(* resources and gateway resources have calls of their own below.          *)
(***************************************************************************)
CoreListing(w) ==
    [Namespaces |-> {MapNamespace(n) : n \in w.Namespaces},
     Nodes |-> {MapNode(n) : n \in w.Nodes},
     ServiceAccounts |-> {MapServiceAccount(s) : s \in w.ServiceAccounts},
     Pods |-> {MapPod(p) : p \in w.Pods},
     Services |-> {MapService(s) : s \in w.Services},
     ConfigMaps |-> {MapConfigMap(c) : c \in w.ConfigMaps},
     SecretsMetadata |-> {MapSecret(s) : s \in w.Secrets}]

ExtensionListing(w) ==
    [CustomResourceDefinitions |-> {MapCRD(c) : c \in w.CustomResourceDefinitions},
     APIServices |-> {MapAPIService(a) : a \in w.APIServices}]

WorkloadListing(w) ==
    [Deployments |-> {MapDeployment(d) : d \in w.Deployments},
     DaemonSets |-> {MapDaemonSet(d) : d \in w.DaemonSets},
     StatefulSets |-> {MapStatefulSet(s) : s \in w.StatefulSets},
     ReplicaSets |-> {MapReplicaSet(r) : r \in w.ReplicaSets},
     Jobs |-> {MapJob(j) : j \in w.Jobs},
     CronJobs |-> {MapCronJob(c) : c \in w.CronJobs}]

NetworkListing(w) ==
    [EndpointSlices |-> {MapEndpointSlice(s) : s \in w.EndpointSlices},
     IngressClasses |-> {MapIngressClass(c) : c \in w.IngressClasses},
     Ingresses |-> {MapIngress(i) : i \in w.Ingresses}]

StorageListing(w) ==
    [StorageClasses |-> {MapStorageClass(c) : c \in w.StorageClasses},
     PersistentVolumes |-> {MapPersistentVolume(v) : v \in w.PersistentVolumes},
     PersistentVolumeClaims |->
        {MapPersistentVolumeClaim(c) : c \in w.PersistentVolumeClaims},
     CSIDrivers |-> {MapCSIDriver(d) : d \in w.CSIDrivers},
     CSINodes |-> {MapCSINode(n) : n \in w.CSINodes},
     VolumeAttachments |-> {MapVolumeAttachment(a) : a \in w.VolumeAttachments}]

RuntimeListing(w) == [RuntimeClasses |-> {MapRuntimeClass(r) : r \in w.RuntimeClasses}]

RBACListing(w) ==
    [Roles |-> {MapRole("Role", r) : r \in w.Roles},
     RoleBindings |-> {MapRoleBinding("RoleBinding", b) : b \in w.RoleBindings},
     ClusterRoles |-> {MapRole("ClusterRole", r) : r \in w.ClusterRoles},
     ClusterRoleBindings |->
        {MapRoleBinding("ClusterRoleBinding", b) : b \in w.ClusterRoleBindings}]

PolicyListing(w) ==
    [HorizontalPodAutoscalers |->
        {MapHorizontalPodAutoscaler(h) : h \in w.HorizontalPodAutoscalers},
     PodDisruptionBudgets |-> {MapPodDisruptionBudget(p) : p \in w.PodDisruptionBudgets},
     NetworkPolicies |-> {MapNetworkPolicy(p) : p \in w.NetworkPolicies},
     ResourceQuotas |-> {MapResourceQuota(q) : q \in w.ResourceQuotas},
     LimitRanges |-> {MapLimitRange(l) : l \in w.LimitRanges}]

AdmissionListing(w) ==
    [MutatingWebhookConfigurations |->
        {MapWebhookConfiguration("MutatingWebhookConfiguration", c) :
            c \in w.MutatingWebhookConfigurations},
     ValidatingWebhookConfigurations |->
        {MapWebhookConfiguration("ValidatingWebhookConfiguration", c) :
            c \in w.ValidatingWebhookConfigurations}]

InCalls(resource, calls) == resource \in ToSet(calls)

ListsOf(resource, w) ==
    CASE InCalls(resource, CoreCalls)      -> CoreListing(w)[resource]
      [] InCalls(resource, ExtensionCalls) -> ExtensionListing(w)[resource]
      [] InCalls(resource, WorkloadCalls)  -> WorkloadListing(w)[resource]
      [] InCalls(resource, NetworkingCalls) -> NetworkListing(w)[resource]
      [] InCalls(resource, StorageCalls)   -> StorageListing(w)[resource]
      [] InCalls(resource, RuntimeCalls)   -> RuntimeListing(w)[resource]
      [] InCalls(resource, RBACCalls)      -> RBACListing(w)[resource]
      [] InCalls(resource, PolicyCalls)    -> PolicyListing(w)[resource]
      [] InCalls(resource, AdmissionCalls) -> AdmissionListing(w)[resource]

\* The list of the snapshot that a call fills.
ListOf(resource) ==
    CASE InCalls(resource, WorkloadCalls)   -> "Workloads"
      [] InCalls(resource, RouteCalls)      -> "GatewayRoutes"
      [] InCalls(resource, PolicyTypeCalls) -> "GatewayPolicies"
      [] InCalls(resource, AdmissionCalls)  -> "AdmissionWebhooks"
      [] resource = "SecretsMetadata"       -> "Secrets"
      [] OTHER                              -> resource

(***************************************************************************)
(* Coverage.                                                               *)
(***************************************************************************)
\* denied(): an authorization failure is told apart from any other.
Denied(area, resource, outcome) ==
    CoverageItem(area, resource,
                 IF outcome = "forbidden" THEN "denied" ELSE "unavailable", 0)

\* After the last call of a group its total is recorded, as complete, whatever
\* became of the parts.
Aggregate(resource, lists) ==
    CASE resource = "CronJobs" ->
            {Complete("kubernetes", "Workloads", Cardinality(lists.Workloads))}
      [] resource = "UDPRoutes" ->
            {Complete("kubernetes", "GatewayRoutes", Cardinality(lists.GatewayRoutes))}
      [] resource = "XBackendTrafficPolicies" ->
            {Complete("kubernetes", "GatewayPolicies", Cardinality(lists.GatewayPolicies))}
      [] OTHER -> {}

(***************************************************************************)
(* The calls.  Every step ends with Continue: the rest of the program, or, *)
(* after the last call, the index of running containers and images.        *)
(***************************************************************************)
Continue(lists, rest) ==
    IF rest # <<>>
    THEN /\ kubernetes' = lists
         /\ todo' = rest
         /\ UNCHANGED scan
    ELSE LET running == RunningContainers(lists.Pods, lists.Workloads)
         IN  /\ kubernetes' = [lists EXCEPT !.RunningContainers = running,
                                            !.RunningImages = RunningImages(running)]
             /\ todo' = <<>>
             /\ scan' = "done"

Running == scan = "running" /\ todo # <<>>

\* Without the server version nothing is collected.
CheckServerVersion(outcome) ==
    /\ Running /\ Head(todo).resource = "ServerVersion"
    /\ UNCHANGED skippedCRDs
    /\ IF outcome = "ok"
       THEN /\ Continue([kubernetes EXCEPT !.Version = {world.kubernetes.version}], Tail(todo))
            /\ coverage' = coverage \cup {Complete("kubernetes", "ServerVersion", 1)}
       ELSE /\ scan' = "failed"
            /\ UNCHANGED <<kubernetes, coverage, todo>>

\* Discovery can fail for one group and still return the others.
DiscoverAPIResources(outcome) ==
    /\ Running /\ Head(todo).resource = "APIResources"
    /\ UNCHANGED skippedCRDs
    /\ LET served == world.kubernetes.apiResources IN
       \E lost \in IF outcome = "ok" THEN {{}}
                   ELSE {{r \in served : r.group = g} : g \in {r.group : r \in served}} :
          LET found == served \ lost
              status == IF outcome = "ok" THEN "complete" ELSE "partial"
          IN  /\ Continue([kubernetes EXCEPT !.APIResources = found], Tail(todo))
              /\ coverage' = coverage \cup
                    {CoverageItem("kubernetes", "APIResources", status, Cardinality(found))}

ListCalls ==
    ToSet(CoreCalls) \cup ToSet(ExtensionCalls) \cup ToSet(WorkloadCalls)
    \cup {"EndpointSlices", "IngressClasses", "Ingresses"} \cup ToSet(StorageCalls)
    \cup ToSet(RuntimeCalls) \cup ToSet(RBACCalls) \cup ToSet(PolicyCalls)
    \cup ToSet(AdmissionCalls)

\* A definition can be listed when its group, plural and a version are known.
Listable(crd) == SelectedCRDVersion(crd) # "" /\ crd.group # "" /\ crd.plural # ""

InstanceCall(name) == [Call("CustomResourceInstances") EXCEPT !.crd = name]

InstancesCovered(lists, skipped) ==
    IF lists.CustomResourceDefinitions = {} \/ skipped = {}
    THEN Complete("kubernetes", "CustomResourceInstances",
                  Cardinality(lists.CustomResourceInstances))
    ELSE Partial("kubernetes", "CustomResourceInstances",
                 Cardinality(lists.CustomResourceInstances))

\* A list call.  The definitions that were read decide which instances are
\* listed next; when the definitions are denied, instances are not mentioned.
ListResource(outcome) ==
    /\ Running /\ Head(todo).resource \in ListCalls
    /\ LET resource == Head(todo).resource
           items == IF outcome = "ok" THEN ListsOf(resource, world.kubernetes) ELSE {}
           lists == [kubernetes EXCEPT ![ListOf(resource)] = @ \cup items]
           item == IF outcome = "ok" THEN Complete("kubernetes", resource, Cardinality(items))
                   ELSE Denied("kubernetes", resource, outcome)
           crds == IF resource = "CustomResourceDefinitions" THEN items ELSE {}
           listable == {c.ref.name : c \in {d \in crds : Listable(d)}}
           unlistable == {c.ref.name : c \in {d \in crds : ~Listable(d)}}
           calls == SetToSeq({InstanceCall(n) : n \in listable})
           instancesDone == resource = "CustomResourceDefinitions"
                            /\ outcome = "ok" /\ listable = {}
       IN  /\ Continue(lists, calls \o Tail(todo))
           /\ skippedCRDs' = skippedCRDs \cup unlistable
           /\ coverage' = coverage \cup {item} \cup Aggregate(resource, lists)
                \cup IF instancesDone THEN {InstancesCovered(lists, unlistable)} ELSE {}

\* The instances of one definition, in all namespaces.  A definition that is
\* gone by now answers NotFound, which is one more failure.
ListInstances(outcome) ==
    /\ Running /\ Head(todo).resource = "CustomResourceInstances"
    /\ LET name == Head(todo).crd
           crd == CHOOSE c \in kubernetes.CustomResourceDefinitions : c.ref.name = name
           version == SelectedCRDVersion(crd)
           served == outcome = "ok" /\ \E c \in world.kubernetes.CustomResourceDefinitions :
                                          c.name = name
           items == IF served
                    THEN {MapCustomResourceInstance(i, crd, version) :
                            i \in {j \in world.kubernetes.CustomResources : j.crd = name}}
                    ELSE {}
           lists == [kubernetes EXCEPT !.CustomResourceInstances = @ \cup items]
           skipped == IF served THEN skippedCRDs ELSE skippedCRDs \cup {name}
           last == Len(todo) = 1 \/ todo[2].resource # "CustomResourceInstances"
       IN  /\ Continue(lists, Tail(todo))
           /\ skippedCRDs' = skipped
           /\ coverage' = coverage \cup
                IF last THEN {InstancesCovered(lists, skipped)} ELSE {}

(***************************************************************************)
(* Gateway API resources: the versions that discovery listed, in order of  *)
(* preference, or all known ones when it listed none.                      *)
(***************************************************************************)
GatewayGroup(resource) ==
    IF resource = "XBackendTrafficPolicies" THEN "gateway.networking.x-k8s.io"
    ELSE "gateway.networking.k8s.io"

GatewayCandidates(resource, apiResources) ==
    LET type == GatewayTypes[resource]
        discovered(version) ==
            {r \in apiResources : /\ r.group = GatewayGroup(resource)
                                  /\ r.resource = type.plural
                                  /\ r.version = version
                                  /\ "list" \in r.verbs}
        candidate(v, namespaced) == [version |-> v, namespaced |-> namespaced]
        listed(i) ==    \* no type has more than three versions
            IF i \in DOMAIN type.versions /\ discovered(type.versions[i]) # {}
            THEN <<candidate(type.versions[i],
                             \E r \in discovered(type.versions[i]) : r.namespaced)>>
            ELSE <<>>
        found == listed(1) \o listed(2) \o listed(3)
    IN  IF found # <<>> THEN found
        ELSE [i \in DOMAIN type.versions |->
                candidate(type.versions[i], type.plural # "gatewayclasses")]

MapGatewayItem(resource, version, item) ==
    LET kind == GatewayTypes[resource].kind IN
    CASE resource = "GatewayClasses"          -> MapGatewayClass(item, version)
      [] resource = "Gateways"                -> MapGateway(item, version)
      [] InCalls(resource, RouteCalls)        -> MapGatewayRoute(item, version, kind)
      [] resource = "ReferenceGrants"         -> MapReferenceGrant(item, version)
      [] InCalls(resource, PolicyTypeCalls)   -> MapGatewayPolicy(item, version, kind)

GatewayCallEnds(resource, items, item) ==
    LET lists == [kubernetes EXCEPT ![ListOf(resource)] = @ \cup items]
    IN  /\ Continue(lists, Tail(todo))
        /\ coverage' = coverage \cup {item} \cup Aggregate(resource, lists)

\* One request for one version.  A version the server does not have is skipped
\* for the next; none at all is an empty list.  A refusal is tried again in
\* the namespace of the context, whose list then passes for the whole.
ListGatewayResource(outcome) ==
    /\ Running /\ Head(todo).resource \in DOMAIN GatewayTypes
    /\ UNCHANGED skippedCRDs
    /\ LET call == Head(todo)
           resource == call.resource
           candidates == IF call.candidates # <<>> THEN call.candidates
                         ELSE GatewayCandidates(resource, kubernetes.APIResources)
           version == candidates[1].version
           served == <<resource, version>> \in world.kubernetes.servedGateways
           visible == {i \in world.kubernetes[resource] :
                          call.fallback => i.namespace = ContextNamespace}
           items == {MapGatewayItem(resource, version, i) : i \in visible}
           again(next) == /\ todo' = <<next>> \o Tail(todo)
                          /\ UNCHANGED <<kubernetes, coverage, scan>>
       IN  \/ /\ outcome = "ok" /\ served
              /\ GatewayCallEnds(resource, items,
                                 Complete("kubernetes", resource, Cardinality(items)))
           \/ /\ outcome = "ok" /\ ~served /\ Len(candidates) > 1
              /\ again([call EXCEPT !.candidates = Tail(candidates), !.fallback = FALSE])
           \/ /\ outcome = "ok" /\ ~served /\ Len(candidates) = 1
              /\ GatewayCallEnds(resource, {}, Complete("kubernetes", resource, 0))
           \/ /\ outcome = "forbidden" /\ ~call.fallback
              /\ candidates[1].namespaced /\ ContextNamespace # ""
              /\ again([call EXCEPT !.candidates = candidates, !.fallback = TRUE])
           \/ /\ outcome # "ok"
              /\ outcome = "forbidden" =>
                    \/ call.fallback
                    \/ ~candidates[1].namespaced
                    \/ ContextNamespace = ""
              /\ GatewayCallEnds(resource, {}, Denied("kubernetes", resource, outcome))

KubernetesInit ==
    /\ kubernetes = EmptyKubernetes
    /\ todo = Program
    /\ skippedCRDs = {}
    /\ scan = "running"

CallKubernetes(outcome) ==
    \/ CheckServerVersion(outcome)
    \/ DiscoverAPIResources(outcome)
    \/ ListResource(outcome)
    \/ ListInstances(outcome)
    \/ ListGatewayResource(outcome)
=============================================================================
