------------------------------- MODULE ScanProofs -------------------------------
(***************************************************************************)
(* Proofs about what a scan collects, for any cluster that changes and any *)
(* calls that fail: an analysis of a scan is about the objects that were   *)
(* selected, and no scan leaves a gap without an item that tells of it.    *)
(***************************************************************************)
EXTENDS Scan, FiniteSetTheorems, TLAPS

(***************************************************************************)
(* The references of a snapshot.                                           *)
(***************************************************************************)
IsRef(r) == {"apiVersion", "kind", "namespace", "name", "uid"} \subseteq DOMAIN r

\* An item of a list: an object with a reference to it.
IsItem(i) == "ref" \in DOMAIN i /\ IsRef(i.ref)

LEMMA RefIsRef ==
    ASSUME NEW apiVersion, NEW kind, NEW object
    PROVE  /\ IsRef(Ref(apiVersion, kind, object))
           /\ Ref(apiVersion, kind, object).namespace = object.namespace
  BY DEF Ref, IsRef

LEMMA ToSetOfConcat ==
    ASSUME NEW S, NEW a \in Seq(S), NEW b \in Seq(S)
    PROVE  ToSet(a \o b) = ToSet(a) \cup ToSet(b)
<1>1. /\ a \o b \in Seq(S) /\ Len(a \o b) = Len(a) + Len(b)
      /\ \A i \in 1..Len(a) : (a \o b)[i] = a[i]
      /\ \A i \in 1..Len(b) : (a \o b)[Len(a) + i] = b[i]
  OBVIOUS
<1>2. /\ DOMAIN a = 1..Len(a) /\ DOMAIN b = 1..Len(b)
      /\ DOMAIN (a \o b) = 1..Len(a) + Len(b)
      /\ Len(a) \in Nat /\ Len(b) \in Nat
  BY <1>1
<1>3. \A i \in DOMAIN (a \o b) : (a \o b)[i] \in ToSet(a) \cup ToSet(b)
  <2> TAKE i \in DOMAIN (a \o b)
  <2>1. CASE i \in 1..Len(a)
    BY <1>1, <1>2, <2>1 DEF ToSet
  <2>2. CASE i \notin 1..Len(a)
    <3>1. i - Len(a) \in 1..Len(b) /\ i = Len(a) + (i - Len(a))
      BY <1>2, <2>2
    <3> QED
      BY <1>1, <1>2, <3>1 DEF ToSet
  <2> QED
    BY <2>1, <2>2
<1>4. \A i \in DOMAIN a : a[i] \in ToSet(a \o b)
  BY <1>1, <1>2 DEF ToSet
<1>5. \A i \in DOMAIN b : b[i] \in ToSet(a \o b)
  <2> TAKE i \in DOMAIN b
  <2>1. Len(a) + i \in DOMAIN (a \o b) /\ (a \o b)[Len(a) + i] = b[i]
    BY <1>1, <1>2
  <2> QED
    BY <2>1 DEF ToSet
<1> QED
  BY <1>3, <1>4, <1>5 DEF ToSet

LEMMA CallSets ==
    /\ ToSet(CoreCalls) = {"Namespaces", "Nodes", "ServiceAccounts", "Pods", "Services",
                           "ConfigMaps", "SecretsMetadata"}
    /\ ToSet(ExtensionCalls) = {"CustomResourceDefinitions", "APIServices"}
    /\ ToSet(WorkloadCalls) = {"Deployments", "DaemonSets", "StatefulSets", "ReplicaSets",
                               "Jobs", "CronJobs"}
    /\ ToSet(StorageCalls) = {"StorageClasses", "PersistentVolumes",
                              "PersistentVolumeClaims", "CSIDrivers", "CSINodes",
                              "VolumeAttachments"}
    /\ ToSet(RuntimeCalls) = {"RuntimeClasses"}
    /\ ToSet(RBACCalls) = {"Roles", "RoleBindings", "ClusterRoles", "ClusterRoleBindings"}
    /\ ToSet(PolicyCalls) = {"HorizontalPodAutoscalers", "PodDisruptionBudgets",
                             "NetworkPolicies", "ResourceQuotas", "LimitRanges"}
    /\ ToSet(AdmissionCalls) = {"MutatingWebhookConfigurations",
                                "ValidatingWebhookConfigurations"}
    /\ ToSet(RouteCalls) = {"HTTPRoutes", "GRPCRoutes", "TLSRoutes", "TCPRoutes", "UDPRoutes"}
    /\ ToSet(PolicyTypeCalls) = {"BackendTLSPolicies", "BackendTrafficPolicies",
                                 "XBackendTrafficPolicies"}
<1>1. ToSet(CoreCalls) = {"Namespaces", "Nodes", "ServiceAccounts", "Pods", "Services",
                           "ConfigMaps", "SecretsMetadata"}
  BY DEF ToSet, CoreCalls
<1>2. ToSet(ExtensionCalls) = {"CustomResourceDefinitions", "APIServices"}
  BY DEF ToSet, ExtensionCalls
<1>3. ToSet(WorkloadCalls) = {"Deployments", "DaemonSets", "StatefulSets", "ReplicaSets",
                               "Jobs", "CronJobs"}
  BY DEF ToSet, WorkloadCalls
<1>4. ToSet(StorageCalls) = {"StorageClasses", "PersistentVolumes",
                              "PersistentVolumeClaims", "CSIDrivers", "CSINodes",
                              "VolumeAttachments"}
  BY DEF ToSet, StorageCalls
<1>5. ToSet(RuntimeCalls) = {"RuntimeClasses"}
  BY DEF ToSet, RuntimeCalls
<1>6. ToSet(RBACCalls) = {"Roles", "RoleBindings", "ClusterRoles", "ClusterRoleBindings"}
  BY DEF ToSet, RBACCalls
<1>7. ToSet(PolicyCalls) = {"HorizontalPodAutoscalers", "PodDisruptionBudgets",
                             "NetworkPolicies", "ResourceQuotas", "LimitRanges"}
  BY DEF ToSet, PolicyCalls
<1>8. ToSet(AdmissionCalls) = {"MutatingWebhookConfigurations",
                                "ValidatingWebhookConfigurations"}
  BY DEF ToSet, AdmissionCalls
<1>9. ToSet(RouteCalls) = {"HTTPRoutes", "GRPCRoutes", "TLSRoutes", "TCPRoutes", "UDPRoutes"}
  BY DEF ToSet, RouteCalls
<1>10. ToSet(PolicyTypeCalls) = {"BackendTLSPolicies", "BackendTrafficPolicies",
                                 "XBackendTrafficPolicies"}
  BY DEF ToSet, PolicyTypeCalls
<1> QED
  BY <1>1, <1>2, <1>3, <1>4, <1>5, <1>6, <1>7, <1>8, <1>9, <1>10

LEMMA NetworkingCallSet ==
    ToSet(NetworkingCalls) =
        {"EndpointSlices", "IngressClasses", "Ingresses", "GatewayClasses", "Gateways",
         "ReferenceGrants"} \cup ToSet(RouteCalls) \cup ToSet(PolicyTypeCalls)
<1> DEFINE first == <<"EndpointSlices", "IngressClasses", "Ingresses">>
           classes == <<"GatewayClasses", "Gateways">>
           grants == <<"ReferenceGrants">>
           names == {"EndpointSlices", "IngressClasses", "Ingresses", "GatewayClasses",
                     "Gateways", "ReferenceGrants", "HTTPRoutes", "GRPCRoutes", "TLSRoutes",
                     "TCPRoutes", "UDPRoutes", "BackendTLSPolicies",
                     "BackendTrafficPolicies", "XBackendTrafficPolicies"}
           calls == Seq(names)
<1>1. first \in calls /\ classes \in calls /\ grants \in calls
  OBVIOUS
<1>9. RouteCalls \in calls
  BY DEF RouteCalls
<1>10. PolicyTypeCalls \in calls
  BY DEF PolicyTypeCalls
<1>2. /\ ToSet(first) = {"EndpointSlices", "IngressClasses", "Ingresses"}
      /\ ToSet(classes) = {"GatewayClasses", "Gateways"}
      /\ ToSet(grants) = {"ReferenceGrants"}
  BY DEF ToSet
<1>3. /\ NetworkingCalls = first \o GatewayCalls
      /\ GatewayCalls = ((classes \o RouteCalls) \o grants) \o PolicyTypeCalls
  BY DEF NetworkingCalls, GatewayCalls
<1> HIDE DEF first, classes, grants
<1>4. \A a, b \in calls : a \o b \in calls /\ ToSet(a \o b) = ToSet(a) \cup ToSet(b)
  BY ToSetOfConcat
<1> HIDE DEF calls
<1> DEFINE routes == classes \o RouteCalls
           granted == routes \o grants
<1>5. routes \in calls /\ ToSet(routes) = ToSet(classes) \cup ToSet(RouteCalls)
  BY <1>1, <1>9, <1>4
<1>6. granted \in calls /\ ToSet(granted) = ToSet(routes) \cup ToSet(grants)
  <2> HIDE DEF routes
  <2> QED
    BY <1>1, <1>4, <1>5
<1>7. GatewayCalls \in calls /\ ToSet(GatewayCalls) = ToSet(granted) \cup ToSet(PolicyTypeCalls)
  <2>1. GatewayCalls = granted \o PolicyTypeCalls
    BY <1>3
  <2> HIDE DEF granted
  <2> QED
    BY <1>10, <1>4, <1>6, <2>1
<1>8. ToSet(NetworkingCalls) = ToSet(first) \cup ToSet(GatewayCalls)
  BY <1>1, <1>3, <1>4, <1>7
<1> QED
  BY <1>2, <1>5, <1>6, <1>7, <1>8

(***************************************************************************)
(* The mappers: what each list call returns are items.                     *)
(***************************************************************************)
\* The lists whose items an analysis selects from.
PageListNames == UNION {PageLists[p] : p \in DOMAIN PageLists}
Selectable == (UNION {SectionLists(list) : list \in PageListNames}) \cup {"Workloads"}

LEMMA CoreItems ==
    ASSUME NEW w,
           NEW resource \in {"Nodes", "Pods", "Services"}, NEW i \in CoreListing(w)[resource]
    PROVE  IsItem(i)
<1>1. \A x : IsItem(MapNode(x))
  BY RefIsRef DEF MapNode, IsItem
<1>2. \A x : IsItem(MapPod(x))
  BY RefIsRef DEF MapPod, IsItem
<1>3. \A x : IsItem(MapService(x))
  BY RefIsRef DEF MapService, IsItem
<1> QED
  BY <1>1, <1>2, <1>3 DEF CoreListing

LEMMA WorkloadItems ==
    ASSUME NEW w, NEW resource \in ToSet(WorkloadCalls), NEW i \in WorkloadListing(w)[resource]
    PROVE  IsItem(i) /\ \E o \in w[resource] : i.ref.namespace = o.namespace
<1> DEFINE IsOf(item, o) == IsItem(item) /\ item.ref.namespace = o.namespace
<1>1. \A apiVersion, kind, o : IsOf(WorkloadFromTemplate(apiVersion, kind, o), o)
  BY RefIsRef DEF WorkloadFromTemplate, IsItem
<1>2. \A item, o : IsOf(item, o) => IsOf(WithSelector(item, o), o)
  BY DEF WithSelector, IsItem
<1>3. \A o : IsOf(MapDeployment(o), o) /\ IsOf(MapDaemonSet(o), o) /\ IsOf(MapReplicaSet(o), o)
  BY <1>1, <1>2 DEF MapDeployment, MapDaemonSet, MapReplicaSet
<1>4. \A o : IsOf(MapStatefulSet(o), o)
  <2> TAKE o
  <2> DEFINE base == WithSelector(WorkloadFromTemplate("apps/v1", "StatefulSet", o), o)
  <2>1. IsOf(base, o)
    BY <1>1, <1>2
  <2> HIDE DEF base
  <2>2. \A templates : IsOf([base EXCEPT !.volumeClaimTemplates = templates], o)
    BY <2>1 DEF IsItem
  <2> QED
    BY <2>2 DEF MapStatefulSet, base
<1>5. \A o : IsOf(MapJob(o), o) /\ IsOf(MapCronJob(o), o)
  BY <1>1 DEF MapJob, MapCronJob
<1> HIDE DEF IsOf
<1>6. \E o \in w[resource] : IsOf(i, o)
  BY <1>3, <1>4, <1>5, CallSets DEF WorkloadListing
<1> QED
  BY <1>6 DEF IsOf

LEMMA NetworkItems ==
    ASSUME NEW w, NEW resource \in {"EndpointSlices", "IngressClasses", "Ingresses"},
           NEW i \in NetworkListing(w)[resource]
    PROVE  IsItem(i)
<1>1. \A x : IsItem(MapEndpointSlice(x))
  BY RefIsRef DEF MapEndpointSlice, IsItem
<1>2. \A x : IsItem(MapIngressClass(x))
  BY RefIsRef DEF MapIngressClass, IsItem
<1>3. \A x : IsItem(MapIngress(x))
  BY RefIsRef DEF MapIngress, IsItem
<1> QED
  BY <1>1, <1>2, <1>3 DEF NetworkListing

LEMMA StorageItems ==
    ASSUME NEW w, NEW resource \in ToSet(StorageCalls), NEW i \in StorageListing(w)[resource]
    PROVE  IsItem(i)
<1>1. \A x : IsItem(MapStorageClass(x)) /\ IsItem(MapCSIDriver(x)) /\ IsItem(MapCSINode(x))
  BY RefIsRef DEF MapStorageClass, MapCSIDriver, MapCSINode, IsItem
<1>2. \A x : IsItem(MapPersistentVolume(x)) /\ IsItem(MapPersistentVolumeClaim(x))
  BY RefIsRef DEF MapPersistentVolume, MapPersistentVolumeClaim, IsItem
<1>3. \A x : IsItem(MapVolumeAttachment(x))
  BY RefIsRef DEF MapVolumeAttachment, IsItem
<1> QED
  BY <1>1, <1>2, <1>3, CallSets DEF StorageListing

LEMMA OtherItems ==
    ASSUME NEW w
    PROVE  /\ \A i \in RuntimeListing(w)["RuntimeClasses"] : IsItem(i)
           /\ \A r \in ToSet(RBACCalls) : \A i \in RBACListing(w)[r] : IsItem(i)
           /\ \A r \in ToSet(AdmissionCalls) : \A i \in AdmissionListing(w)[r] : IsItem(i)
<1>1. \A x : IsItem(MapRuntimeClass(x))
  BY RefIsRef DEF MapRuntimeClass, IsItem
<1>2. \A kind, x : IsItem(MapRole(kind, x)) /\ IsItem(MapRoleBinding(kind, x))
  BY RefIsRef DEF MapRole, MapRoleBinding, IsItem
<1>3. \A kind, x : IsItem(MapWebhookConfiguration(kind, x))
  BY RefIsRef DEF MapWebhookConfiguration, IsItem
<1>4. \A i \in RuntimeListing(w)["RuntimeClasses"] : IsItem(i)
  BY <1>1 DEF RuntimeListing
<1>5. \A r \in ToSet(RBACCalls) : \A i \in RBACListing(w)[r] : IsItem(i)
  BY <1>2, CallSets DEF RBACListing
<1>6. \A r \in ToSet(AdmissionCalls) : \A i \in AdmissionListing(w)[r] : IsItem(i)
  BY <1>3, CallSets DEF AdmissionListing
<1> QED
  BY <1>4, <1>5, <1>6

LEMMA GatewayItems ==
    ASSUME NEW resource \in DOMAIN GatewayTypes, NEW version, NEW item
    PROVE  IsItem(MapGatewayItem(resource, version, item))
<1>1. \A x, v : IsItem(MapGatewayClass(x, v)) /\ IsItem(MapGateway(x, v))
  BY RefIsRef DEF MapGatewayClass, MapGateway, IsItem
<1>2. \A x, v, kind : IsItem(MapGatewayRoute(x, v, kind))
  BY RefIsRef DEF MapGatewayRoute, IsItem
<1>3. \A x, v : IsItem(MapReferenceGrant(x, v))
  BY RefIsRef DEF MapReferenceGrant, IsItem
<1>4. \A x, v, kind : IsItem(MapGatewayPolicy(x, v, kind))
  BY RefIsRef DEF MapGatewayPolicy, IsItem
<1>5. resource \in {"GatewayClasses", "Gateways", "ReferenceGrants"} \cup ToSet(RouteCalls)
                    \cup ToSet(PolicyTypeCalls)
  BY CallSets DEF GatewayTypes
<1> QED
  BY <1>1, <1>2, <1>3, <1>4, <1>5, CallSets DEF MapGatewayItem, InCalls

LEMMA SelectableLists ==
    Selectable = {"Nodes", "Workloads", "Pods", "Services", "EndpointSlices",
                  "IngressClasses", "Ingresses", "GatewayClasses", "Gateways",
                  "GatewayRoutes", "ReferenceGrants", "GatewayPolicies", "StorageClasses",
                  "PersistentVolumes", "PersistentVolumeClaims", "CSIDrivers", "CSINodes",
                  "VolumeAttachments", "RuntimeClasses", "Roles", "RoleBindings",
                  "ClusterRoles", "ClusterRoleBindings", "AdmissionWebhooks"}
<1>1. DOMAIN PageLists = {"nodes", "workloads", "network", "storage", "security"}
  BY DEF PageLists
<1>2. PageListNames = PageLists["nodes"] \cup PageLists["workloads"]
                        \cup PageLists["network"] \cup PageLists["storage"]
                        \cup PageLists["security"]
  BY <1>1 DEF PageListNames
<1>3. PageListNames = {"Nodes", "Pods", "Services", "EndpointSlices",
                  "IngressClasses", "Ingresses", "GatewayClasses", "Gateways",
                  "GatewayRoutes", "ReferenceGrants", "GatewayPolicies", "StorageClasses",
                  "PersistentVolumes", "PersistentVolumeClaims", "CSIDrivers", "CSINodes",
                  "VolumeAttachments", "RuntimeClasses", "Roles", "RoleBindings",
                  "AdmissionWebhooks"}
  BY <1>2 DEF PageLists
<1>4. UNION {SectionLists(list) : list \in PageListNames}
        = PageListNames \cup {"ClusterRoles", "ClusterRoleBindings"}
  <2>1. \A list \in PageListNames :
            SectionLists(list) \subseteq PageListNames \cup {"ClusterRoles", "ClusterRoleBindings"}
    BY <1>3 DEF SectionLists
  <2>2. \A list \in PageListNames : list \in SectionLists(list)
    BY DEF SectionLists
  <2>3. "ClusterRoles" \in SectionLists("Roles")
        /\ "ClusterRoleBindings" \in SectionLists("RoleBindings")
    BY DEF SectionLists
  <2>4. "Roles" \in PageListNames /\ "RoleBindings" \in PageListNames
    BY <1>3
  <2> QED
    BY <2>1, <2>2, <2>3, <2>4
<1> QED
  BY <1>3, <1>4 DEF Selectable

LEMMA ListCallItems ==
    ASSUME NEW w, NEW resource \in ListCalls, ListOf(resource) \in Selectable,
           NEW i \in ListsOf(resource, w)
    PROVE  /\ IsItem(i)
           /\ ListOf(resource) = "Workloads" =>
                /\ resource \in ToSet(WorkloadCalls)
                /\ \E o \in w[resource] : i.ref.namespace = o.namespace
<1>1. resource \in ToSet(CoreCalls) \cup ToSet(ExtensionCalls) \cup ToSet(WorkloadCalls)
                    \cup {"EndpointSlices", "IngressClasses", "Ingresses"}
                    \cup ToSet(StorageCalls) \cup ToSet(RuntimeCalls) \cup ToSet(RBACCalls)
                    \cup ToSet(PolicyCalls) \cup ToSet(AdmissionCalls)
  BY DEF ListCalls
<1>2. CASE resource \in ToSet(CoreCalls)
  <2>1. resource \in {"Nodes", "Pods", "Services"} /\ ListOf(resource) # "Workloads"
    BY <1>2, CallSets, SelectableLists DEF ListOf, InCalls
  <2>2. ListsOf(resource, w) = CoreListing(w)[resource]
    BY <1>2, CallSets, NetworkingCallSet DEF ListsOf, InCalls
  <2> QED
    BY <2>1, <2>2, CoreItems
<1>3. CASE resource \in ToSet(ExtensionCalls) \cup ToSet(PolicyCalls)
  BY <1>3, CallSets, SelectableLists DEF ListOf, InCalls
<1>4. CASE resource \in ToSet(WorkloadCalls)
  <2>1. ListsOf(resource, w) = WorkloadListing(w)[resource]
    BY <1>4, CallSets, NetworkingCallSet DEF ListsOf, InCalls
  <2> QED
    BY <1>4, <2>1, WorkloadItems
<1>5. CASE resource \in {"EndpointSlices", "IngressClasses", "Ingresses"}
  <2>1. ListsOf(resource, w) = NetworkListing(w)[resource]
    BY <1>5, CallSets, NetworkingCallSet DEF ListsOf, InCalls
  <2>2. ListOf(resource) # "Workloads"
    BY <1>5, CallSets DEF ListOf, InCalls
  <2> QED
    BY <1>5, <2>1, <2>2, NetworkItems
<1>6. CASE resource \in ToSet(StorageCalls)
  <2>1. ListsOf(resource, w) = StorageListing(w)[resource]
    BY <1>6, CallSets, NetworkingCallSet DEF ListsOf, InCalls
  <2>2. ListOf(resource) # "Workloads"
    BY <1>6, CallSets DEF ListOf, InCalls
  <2> QED
    BY <1>6, <2>1, <2>2, StorageItems
<1>7. CASE resource \in ToSet(RuntimeCalls)
  <2>1. resource = "RuntimeClasses"
    BY <1>7, CallSets
  <2>2. ListsOf(resource, w) = RuntimeListing(w)[resource]
    BY <2>1, CallSets, NetworkingCallSet DEF ListsOf, InCalls
  <2>3. ListOf(resource) # "Workloads"
    BY <2>1, CallSets DEF ListOf, InCalls
  <2> QED
    BY <2>1, <2>2, <2>3, OtherItems
<1>8. CASE resource \in ToSet(RBACCalls)
  <2>1. ListsOf(resource, w) = RBACListing(w)[resource]
    BY <1>8, CallSets, NetworkingCallSet DEF ListsOf, InCalls
  <2>2. ListOf(resource) # "Workloads"
    BY <1>8, CallSets DEF ListOf, InCalls
  <2> QED
    BY <1>8, <2>1, <2>2, OtherItems
<1>9. CASE resource \in ToSet(AdmissionCalls)
  <2>1. ListsOf(resource, w) = AdmissionListing(w)[resource]
    BY <1>9, CallSets, NetworkingCallSet DEF ListsOf, InCalls
  <2>2. ListOf(resource) # "Workloads"
    BY <1>9, CallSets DEF ListOf, InCalls
  <2> QED
    BY <1>9, <2>1, <2>2, OtherItems
<1> QED
  BY <1>1, <1>2, <1>3, <1>4, <1>5, <1>6, <1>7, <1>8, <1>9

(***************************************************************************)
(* The lists of a snapshot at any moment of a scan.                        *)
(***************************************************************************)
\* An API server keeps no Deployment, Job and so on outside of a namespace.
WorkloadsAreNamespaced(w) ==
    \A resource \in ToSet(WorkloadCalls) : \A o \in w.kubernetes[resource] : o.namespace # ""

\* The worlds that a scan may meet.
AreWorlds(worlds) == InitialWorld \in worlds /\ \A w \in worlds : Successors(w) \subseteq worlds

AreNamespaced(worlds) == AreWorlds(worlds) /\ \A w \in worlds : WorkloadsAreNamespaced(w)

ItemsAreReferred(lists) ==
    /\ DOMAIN lists = KubernetesLists
    /\ \A list \in Selectable : \A i \in lists[list] : IsItem(i)
    /\ \A i \in lists.Workloads : i.ref.namespace # ""

ReferenceInv == ItemsAreReferred(kubernetes) /\ WorkloadsAreNamespaced(world)

LEMMA SelectableIsListed == Selectable \subseteq KubernetesLists
  BY SelectableLists DEF KubernetesLists

LEMMA OtherListsAreFree ==
    ASSUME NEW lists, ItemsAreReferred(lists), NEW list, list \notin Selectable, NEW value
    PROVE  ItemsAreReferred([lists EXCEPT ![list] = value])
<1>1. "Workloads" \in Selectable
  BY DEF Selectable
<1> QED
  BY <1>1, SelectableIsListed DEF ItemsAreReferred

LEMMA AddedItemsAreReferred ==
    ASSUME NEW lists, ItemsAreReferred(lists), NEW list, NEW items,
           list \in Selectable => \A i \in items : IsItem(i),
           list = "Workloads" => \A i \in items : i.ref.namespace # ""
    PROVE  ItemsAreReferred([lists EXCEPT ![list] = @ \cup items])
<1> DEFINE next == [lists EXCEPT ![list] = @ \cup items]
<1>1. "Workloads" \in Selectable
  BY DEF Selectable
<1>2. /\ DOMAIN next = KubernetesLists
      /\ \A l \in KubernetesLists :
            next[l] = IF l = list THEN lists[l] \cup items ELSE lists[l]
  BY DEF ItemsAreReferred
<1> HIDE DEF next
<1>3. \A l \in Selectable : \A i \in next[l] : IsItem(i)
  BY <1>2, SelectableIsListed DEF ItemsAreReferred
<1>4. \A i \in next["Workloads"] : i.ref.namespace # ""
  BY <1>1, <1>2, SelectableIsListed DEF ItemsAreReferred
<1>5. ItemsAreReferred(next)
  BY <1>2, <1>3, <1>4 DEF ItemsAreReferred
<1> QED
  BY <1>5 DEF next

LEMMA ContinueKeepsItems ==
    ASSUME NEW lists, ItemsAreReferred(lists), NEW rest, Continue(lists, rest)
    PROVE  ItemsAreReferred(kubernetes')
<1>1. CASE rest # <<>>
  BY <1>1 DEF Continue
<1>2. CASE rest = <<>>
  <2> DEFINE running == RunningContainers(lists.Pods, lists.Workloads)
             images == RunningImages(running)
  <2>1. kubernetes' = [lists EXCEPT !.RunningContainers = running, !.RunningImages = images]
    BY <1>2 DEF Continue
  <2> HIDE DEF running, images
  <2> DEFINE indexed == [lists EXCEPT !.RunningContainers = running]
  <2>2. "RunningContainers" \notin Selectable /\ "RunningImages" \notin Selectable
    BY SelectableLists
  <2>3. ItemsAreReferred(indexed)
    BY <2>2, OtherListsAreFree
  <2>4. ItemsAreReferred([indexed EXCEPT !.RunningImages = images])
    <3> HIDE DEF indexed
    <3> QED
      BY <2>2, <2>3, OtherListsAreFree
  <2> QED
    BY <2>1, <2>4
<1> QED
  BY <1>1, <1>2

LEMMA ListOfGateway ==
    ASSUME NEW resource \in DOMAIN GatewayTypes
    PROVE  ListOf(resource) # "Workloads"
<1>1. resource \in {"GatewayClasses", "Gateways", "ReferenceGrants"} \cup ToSet(RouteCalls)
                    \cup ToSet(PolicyTypeCalls)
  BY CallSets DEF GatewayTypes
<1> QED
  BY <1>1, CallSets DEF ListOf, InCalls

LEMMA KubernetesCallKeepsItems ==
    ASSUME ReferenceInv, NEW outcome, CallKubernetes(outcome)
    PROVE  ItemsAreReferred(kubernetes')
<1> USE DEF ReferenceInv
<1>1. CASE CheckServerVersion(outcome)
  <2>1. "Version" \notin Selectable
    BY SelectableLists
  <2>2. ItemsAreReferred([kubernetes EXCEPT !.Version = {world.kubernetes.version}])
    BY <2>1, OtherListsAreFree
  <2> QED
    BY <1>1, <2>2, ContinueKeepsItems DEF CheckServerVersion
<1>2. CASE DiscoverAPIResources(outcome)
  <2>1. "APIResources" \notin Selectable
    BY SelectableLists
  <2>2. \A found : ItemsAreReferred([kubernetes EXCEPT !.APIResources = found])
    BY <2>1, OtherListsAreFree
  <2>3. \E found : Continue([kubernetes EXCEPT !.APIResources = found], Tail(todo))
    BY <1>2 DEF DiscoverAPIResources
  <2> QED
    BY <2>2, <2>3, ContinueKeepsItems
<1>3. CASE ListResource(outcome)
  <2> DEFINE resource == Head(todo).resource
             items == IF outcome = "ok" THEN ListsOf(resource, world.kubernetes) ELSE {}
             lists == [kubernetes EXCEPT ![ListOf(resource)] = @ \cup items]
  <2>1. resource \in ListCalls /\ \E rest : Continue(lists, rest)
    BY <1>3 DEF ListResource
  <2> HIDE DEF resource
  <2>2. ListOf(resource) \in Selectable => \A i \in items : IsItem(i)
    BY <2>1, ListCallItems
  <2>3. ListOf(resource) = "Workloads" => \A i \in items : i.ref.namespace # ""
    <3>1. "Workloads" \in Selectable
      BY DEF Selectable
    <3>2. SUFFICES ASSUME ListOf(resource) = "Workloads", NEW i \in items
                   PROVE  i.ref.namespace # ""
      OBVIOUS
    <3>3. i \in ListsOf(resource, world.kubernetes)
      OBVIOUS
    <3>4. /\ resource \in ToSet(WorkloadCalls)
          /\ \E o \in world.kubernetes[resource] : i.ref.namespace = o.namespace
      BY <2>1, <3>1, <3>2, <3>3, ListCallItems
    <3> QED
      BY <3>4 DEF WorkloadsAreNamespaced
  <2> HIDE DEF items
  <2>4. ItemsAreReferred(lists)
    BY <2>2, <2>3, AddedItemsAreReferred
  <2> HIDE DEF lists
  <2> QED
    BY <2>1, <2>4, ContinueKeepsItems
<1>4. CASE ListInstances(outcome)
  <2>1. "CustomResourceInstances" \notin Selectable
    BY SelectableLists
  <2>2. \A value : ItemsAreReferred([kubernetes EXCEPT !.CustomResourceInstances = value])
    BY <2>1, OtherListsAreFree
  <2>3. \E value : Continue([kubernetes EXCEPT !.CustomResourceInstances = value], Tail(todo))
    BY <1>4 DEF ListInstances
  <2> QED
    BY <2>2, <2>3, ContinueKeepsItems
<1>5. CASE ListGatewayResource(outcome)
  <2> DEFINE resource == Head(todo).resource
             lists(items) == [kubernetes EXCEPT ![ListOf(resource)] = @ \cup items]
  <2>1. resource \in DOMAIN GatewayTypes
    BY <1>5 DEF ListGatewayResource
  <2> DEFINE call == Head(todo)
             candidates == IF call.candidates # <<>> THEN call.candidates
                           ELSE GatewayCandidates(resource, kubernetes.APIResources)
             version == candidates[1].version
             visible == {i \in world.kubernetes[resource] :
                            call.fallback => i.namespace = ContextNamespace}
             mapped == {MapGatewayItem(resource, version, i) : i \in visible}
  <2>2. \/ UNCHANGED kubernetes
        \/ \E item : GatewayCallEnds(resource, mapped, item)
        \/ \E item : GatewayCallEnds(resource, {}, item)
    BY <1>5 DEF ListGatewayResource
  <2>3. \/ UNCHANGED kubernetes
        \/ \E items, item : /\ GatewayCallEnds(resource, items, item)
                            /\ \A i \in items : \E v, x :
                                    i = MapGatewayItem(resource, v, x)
    <3>1. \A i \in mapped : \E v, x : i = MapGatewayItem(resource, v, x)
      OBVIOUS
    <3> HIDE DEF mapped, resource
    <3> QED
      BY <2>2, <3>1
  <2> HIDE DEF resource
  <2>4. ASSUME NEW items, NEW item, GatewayCallEnds(resource, items, item),
               \A i \in items : \E v, x : i = MapGatewayItem(resource, v, x)
        PROVE  ItemsAreReferred(kubernetes')
    <3>1. \A i \in items : IsItem(i)
      BY <2>1, <2>4, GatewayItems
    <3>2. ListOf(resource) # "Workloads"
      BY <2>1, ListOfGateway
    <3>3. ItemsAreReferred(lists(items))
      BY <3>1, <3>2, AddedItemsAreReferred
    <3>4. Continue(lists(items), Tail(todo))
      BY <2>4 DEF GatewayCallEnds
    <3> HIDE DEF lists
    <3> QED
      BY <3>3, <3>4, ContinueKeepsItems
  <2> QED
    BY <2>3, <2>4
<1> QED
  BY <1>1, <1>2, <1>3, <1>4, <1>5 DEF CallKubernetes

LEMMA EmptyListsAreReferred == ItemsAreReferred(EmptyKubernetes)
BY SelectableIsListed DEF ItemsAreReferred, EmptyKubernetes, KubernetesLists

LEMMA WorldStaysAmong ==
    ASSUME NEW CONSTANT worlds, AreWorlds(worlds)
    PROVE  Spec => [](world \in worlds)
<1> DEFINE Inv == world \in worlds
<1>1. Init => Inv
  BY DEF Init, AreWorlds
<1>2. Inv /\ [Next]_vars => Inv'
  BY DEF Next, CollectAws, CollectKubernetes, Change, vars, AreWorlds
<1> QED
  BY <1>1, <1>2, PTL DEF Spec

LEMMA ScanKeepsReferences ==
    ASSUME NEW CONSTANT worlds, AreNamespaced(worlds)
    PROVE  Spec => []ReferenceInv
<1>1. Init => ReferenceInv
  BY EmptyListsAreReferred DEF Init, KubernetesInit, ReferenceInv, AreNamespaced, AreWorlds
<1>2. ReferenceInv /\ (world \in worlds)' /\ [Next]_vars => ReferenceInv'
  <2> SUFFICES ASSUME ReferenceInv, (world \in worlds)', [Next]_vars PROVE ReferenceInv'
    OBVIOUS
  <2>1. CASE CollectAws
    BY <2>1 DEF CollectAws, kubernetesVars, ReferenceInv
  <2>2. CASE CollectKubernetes
    <3>1. PICK outcome \in Outcomes : CallKubernetes(outcome) /\ UNCHANGED world
      BY <2>2 DEF CollectKubernetes
    <3>2. ItemsAreReferred(kubernetes')
      BY <3>1, KubernetesCallKeepsItems
    <3> QED
      BY <3>1, <3>2 DEF ReferenceInv
  <2>3. CASE Change
    BY <2>3 DEF Change, kubernetesVars, ReferenceInv, AreNamespaced
  <2>4. CASE UNCHANGED vars
    BY <2>4 DEF vars, kubernetesVars, ReferenceInv
  <2> QED
    BY <2>1, <2>2, <2>3, <2>4 DEF Next
<1>3. AreWorlds(worlds)
  BY DEF AreNamespaced
<1>4. Spec => [](world \in worlds)
  BY <1>3, WorldStaysAmong
<1> QED
  BY <1>1, <1>2, <1>4, PTL DEF Spec

(***************************************************************************)
(* The analysis of a selection.                                            *)
(***************************************************************************)
LEMMA TakeKeepsOrTells ==
    ASSUME NEW items, NEW limit, NEW message
    PROVE  \/ Take(items, limit, message).items = items
           \/ message \in Take(items, limit, message).omitted
  BY DEF Take

LEMMA CleanRefIsSameObject ==
    ASSUME NEW r, IsRef(r)
    PROVE  SameObject(CleanRef(r), r)
  BY DEF CleanRef, IsRef, SameObject

LEMMA CleanItemKeepsRef ==
    ASSUME NEW list, NEW i, IsItem(i)
    PROVE  CleanItem(list, i).ref = CleanRef(i.ref)
<1> DEFINE item == [i EXCEPT !.ref = CleanRef(@)]
<1>1. "ref" \in DOMAIN item /\ item.ref = CleanRef(i.ref)
  BY DEF IsItem
<1> HIDE DEF item
<1>2. \A v : /\ [item EXCEPT !.endpoints = v].ref = item.ref
              /\ [item EXCEPT !.rules = v].ref = item.ref
              /\ [item EXCEPT !.parameters = v].ref = item.ref
              /\ [item EXCEPT !.backends = v].ref = item.ref
  BY <1>1
<1>3. \A v : /\ [item EXCEPT !.targetRefs = v].ref = item.ref
              /\ [item EXCEPT !.claimRef = v].ref = item.ref
              /\ [item EXCEPT !.roleRef = v].ref = item.ref
              /\ [item EXCEPT !.webhooks = v].ref = item.ref
  BY <1>1
<1>4. \A a, b, c, d : [item EXCEPT !.owners = a, !.containers = b, !.initContainers = c,
                                   !.ephemeralContainers = d].ref = item.ref
  BY <1>1
<1> QED
  BY <1>1, <1>2, <1>3, <1>4 DEF CleanItem, item

LEMMA SelectionMatches ==
    ASSUME NEW ref, NEW scope, InSelection(ref, scope)
    PROVE  /\ ScopeRefMatches(ref, scope)
           /\ scope.refs = {} \/ Selected(ref, scope.refs)
  BY DEF InSelection, ScopeRefMatches, Selected, SameObject, RefKey

LEMMA PageListAnswers ==
    ASSUME ReferenceInv, NEW scope, NEW list \in PageListNames
    PROVE  LET answer == PageList(Snapshot, scope, list)
           IN  Answers(list, scope, {i.ref : i \in answer.items}, answer.omitted)
<1> DEFINE answer == PageList(Snapshot, scope, list)
           matching == {j \in SectionItems(Snapshot, list) : ScopeRefMatches(j.ref, scope)}
           items == {CleanItem(list, i) : i \in matching}
<1>1. answer = Take(items, Limits.pageItems, list)
  BY DEF PageList
<1>2. CASE list \in answer.omitted
  BY <1>2 DEF Answers
<1>3. CASE answer.items = items
  <2> SUFFICES ASSUME NEW i \in SectionItems(Snapshot, list), InSelection(i.ref, scope)
               PROVE  \E r \in {j.ref : j \in answer.items} : SameObject(r, i.ref)
    BY DEF Answers
  <2>1. IsItem(i)
    <3>1. PICK l \in SectionLists(list) : i \in kubernetes[l]
      BY DEF SectionItems, Snapshot
    <3>2. l \in Selectable
      BY <3>1 DEF Selectable
    <3> QED
      BY <3>1, <3>2 DEF ReferenceInv, ItemsAreReferred
  <2>2. CleanItem(list, i) \in answer.items
    BY <1>3, SelectionMatches
  <2>3. SameObject(CleanItem(list, i).ref, i.ref)
    BY <2>1, CleanItemKeepsRef, CleanRefIsSameObject DEF IsItem
  <2> QED
    BY <2>2, <2>3
<1> HIDE DEF answer, items
<1> QED
  BY <1>1, <1>2, <1>3, TakeKeepsOrTells DEF answer

LEMMA PageIsAnswered ==
    ASSUME ReferenceInv, NEW p \in DOMAIN PageLists, NEW scope, PageType(scope) = p
    PROVE  PageAnswers(scope, Page(Snapshot, scope))
<1>1. Page(Snapshot, scope) = [list \in PageLists[p] |-> PageList(Snapshot, scope, list)]
  <2>1. p # "eks"
    BY DEF PageLists
  <2> QED
    BY <2>1 DEF Page
<1>2. PageLists[p] \subseteq PageListNames
  BY DEF PageListNames
<1> QED
  BY <1>1, <1>2, PageListAnswers DEF PageAnswers

LEMMA WorkloadsAreAnswered ==
    ASSUME ReferenceInv, NEW scope, scope.resourceType = ""
    PROVE  LET context == ScanContext(Snapshot, scope)
           IN  Answers("Workloads", scope, {c.item.ref : c \in context.workloads},
                       context.omitted)
<1> DEFINE context == ScanContext(Snapshot, scope)
           filtered == FilterWorkloads(Snapshot, scope)
           taken == Take(filtered, Limits.workloads, "Workloads")
<1>1. taken.omitted \subseteq context.omitted
  BY DEF ScanContext
<1>2. context.workloads = {WorkloadContext(Snapshot, w) : w \in taken.items}
  BY DEF ScanContext
<1>3. CASE "Workloads" \in taken.omitted
  BY <1>1, <1>3 DEF Answers
<1>4. CASE taken.items = filtered
  <2> SUFFICES ASSUME NEW w \in kubernetes.Workloads, InSelection(w.ref, scope)
               PROVE  \E r \in {c.item.ref : c \in context.workloads} : SameObject(r, w.ref)
    BY DEF Answers, SectionItems, SectionLists, Snapshot
  <2> HIDE DEF context, taken, filtered
  <2>1. IsItem(w) /\ w.ref.namespace # ""
    BY DEF ReferenceInv, ItemsAreReferred, Selectable
  <2>2. scope.namespace = "" \/ w.ref.namespace = scope.namespace
    BY <2>1 DEF InSelection
  <2>3. w \in filtered
    BY <2>2, SelectionMatches DEF filtered, FilterWorkloads, Snapshot
  <2>4. WorkloadContext(Snapshot, w) \in context.workloads
    BY <1>2, <1>4, <2>3
  <2>5. WorkloadContext(Snapshot, w).item.ref = CleanRef(w.ref)
    BY <2>1 DEF WorkloadContext, IsItem
  <2>6. SameObject(WorkloadContext(Snapshot, w).item.ref, w.ref)
    BY <2>1, <2>5, CleanRefIsSameObject DEF IsItem
  <2> QED
    BY <2>4, <2>6
<1> QED
  BY <1>3, <1>4, TakeKeepsOrTells

\* Whatever the cluster does while it is scanned, and whichever calls fail, each
\* object of the snapshot that a selection means is in the analysis request, or
\* its list is announced as cut (context.go: buildScanContext, take, refKey).
\* Workloads are selected by their very namespace, so the one thing to ask of
\* the API server is that it keeps no workload outside of a namespace.
THEOREM SelectionAlwaysAnswered ==
    ASSUME NEW CONSTANT worlds, AreNamespaced(worlds)
    PROVE  Spec => []SelectionIsAnswered
<1>1. ReferenceInv => SelectionIsAnswered
  <2> SUFFICES ASSUME ReferenceInv PROVE SelectionIsAnswered
    OBVIOUS
  <2>1. ASSUME NEW page, NEW lists, NEW scope \in Selections(page, lists)
        PROVE  scope.resourceType = "" /\ PageType(scope) = page
    <3> DEFINE refs == UNION {{i.ref : i \in IdealList(w.kubernetes, list)} :
                                w \in history, list \in UNION {SectionLists(l) : l \in lists}}
               named == {Scope(page, r.namespace, {r}) : r \in refs}
               whole == {Scope(page, n.name, {}) : n \in world.kubernetes.Namespaces}
    <3>1. Selections(page, lists) = named \cup whole
      BY DEF Selections
    <3> HIDE DEF refs
    <3>2. PICK namespace, selected : scope = Scope(page, namespace, selected)
      BY <3>1
    <3> QED
      BY <3>2 DEF Scope, PageType
  <2>2. \A p \in DOMAIN PageLists : \A scope \in Selections(p, PageLists[p]) :
            PageAnswers(scope, Page(Snapshot, scope))
    BY <2>1, PageIsAnswered
  <2>3. \A scope \in Selections("workloads", {"Workloads"}) :
            \A context \in {ScanContext(Snapshot, scope)} :
                Answers("Workloads", scope, {c.item.ref : c \in context.workloads},
                        context.omitted)
    BY <2>1, WorkloadsAreAnswered
  <2> QED
    BY <2>2, <2>3 DEF SelectionIsAnswered
<1> QED
  BY <1>1, ScanKeepsReferences, PTL
(***************************************************************************)
(* Sequences of requests.                                                  *)
(***************************************************************************)
IsASeq(t) == t \in Seq(ToSet(t))

LEMMA SmallestOf ==
    ASSUME NEW S \in SUBSET Nat, S # {}
    PROVE  Min(S) \in S /\ \A i \in S : Min(S) <= i
<1> DEFINE R == OpToRel(<, Nat)
<1>1. \E x \in S : \A y \in S : ~(<<y, x>> \in R)
  BY NatLessThanWellFounded, WFMin
<1>2. R = {p \in Nat \X Nat : p[1] < p[2]}
  BY DEF OpToRel
<1> HIDE DEF R
<1>3. \A x, y \in Nat : y < x => <<y, x>> \in R
  BY <1>2
<1>4. PICK x \in S : \A y \in S : ~(<<y, x>> \in R)
  BY <1>1
<1>5. ASSUME NEW y \in S PROVE x <= y
  <2>1. x \in Nat /\ y \in Nat /\ ~(y < x)
    BY <1>3, <1>4
  <2> QED
    BY <2>1
<1>6. \E z \in S : \A y \in S : z <= y
  BY <1>5
<1> QED
  BY <1>6 DEF Min

LEMMA EveryMemberOnce ==
    ASSUME NEW S, IsFiniteSet(S)
    PROVE  SetToSeq(S) \in Seq(S) /\ ToSet(SetToSeq(S)) = S /\ IsInjective(SetToSeq(S))
<1> DEFINE n == Cardinality(S)
           s == SetToSeq(S)
<1>1. n \in Nat /\ \E f : f \in Bijection(1..n, S)
  BY FS_CardinalityType DEF ExistsBijection
<1>2. \E f \in [1..n -> S] : IsInjective(f)
  BY <1>1 DEF Bijection, Injection, IsInjective
<1>3. s \in [1..n -> S] /\ IsInjective(s)
  BY <1>2 DEF SetToSeq
<1> HIDE DEF s
<1>4. s \in Injection(1..n, S)
  BY <1>3 DEF Injection, IsInjective
<1>5. IsFiniteSet(1..n) /\ Cardinality(1..n) = n
  BY <1>1, FS_Interval
<1>6. s \in Surjection(1..n, S)
  BY <1>4, <1>5, FS_Injection
<1>7. s \in Seq(S)
  BY <1>1, <1>3
<1>8. ToSet(s) = S
  BY <1>3, <1>6 DEF ToSet, Surjection
<1> QED
  BY <1>3, <1>7, <1>8 DEF s

LEMMA ImageIsFinite ==
    ASSUME NEW f, IsFiniteSet(DOMAIN f)
    PROVE  IsFiniteSet({f[x] : x \in DOMAIN f})
<1> DEFINE F == [x \in DOMAIN f |-> f[x]]
           T == {f[x] : x \in DOMAIN f}
<1>1. F \in Surjection(DOMAIN f, T)
  BY DEF Surjection
<1> QED
  BY <1>1, FS_Surjection

LEMMA SeqOfItsMembers ==
    ASSUME NEW S, NEW t \in Seq(S)
    PROVE  IsASeq(t)
BY DEF IsASeq, ToSet

LEMMA TailOf ==
    ASSUME NEW t, IsASeq(t), t # <<>>
    PROVE  /\ IsASeq(Tail(t))
           /\ Len(t) \in Nat /\ Len(t) > 0 /\ DOMAIN t = 1..Len(t)
           /\ DOMAIN Tail(t) = 1..(Len(t) - 1)
           /\ \A i \in DOMAIN Tail(t) : i + 1 \in DOMAIN t /\ Tail(t)[i] = t[i + 1]
           /\ Head(t) = t[1] /\ 1 \in DOMAIN t
           /\ ToSet(t) = {Head(t)} \cup ToSet(Tail(t))
<1> DEFINE S == ToSet(t)
<1>1. t \in Seq(S)
  BY DEF IsASeq
<1> HIDE DEF S
<1>2. /\ Tail(t) \in Seq(S)
      /\ Len(t) \in Nat /\ Len(t) > 0 /\ DOMAIN t = 1..Len(t)
      /\ DOMAIN Tail(t) = 1..(Len(t) - 1)
      /\ \A i \in DOMAIN Tail(t) : i + 1 \in DOMAIN t /\ Tail(t)[i] = t[i + 1]
      /\ Head(t) = t[1] /\ 1 \in DOMAIN t
  BY <1>1
<1>3. IsASeq(Tail(t))
  BY <1>2, SeqOfItsMembers
<1>4. \A i \in DOMAIN t : t[i] \in {Head(t)} \cup ToSet(Tail(t))
  <2> TAKE i \in DOMAIN t
  <2>1. CASE i = 1
    BY <1>2, <2>1
  <2>2. CASE i # 1
    <3>1. i - 1 \in DOMAIN Tail(t) /\ Tail(t)[i - 1] = t[i]
      BY <1>2, <2>2
    <3> QED
      BY <3>1 DEF ToSet
  <2> QED
    BY <2>1, <2>2
<1>5. ToSet(t) = {Head(t)} \cup ToSet(Tail(t))
  <2>1. ToSet(t) \subseteq {Head(t)} \cup ToSet(Tail(t))
    BY <1>4 DEF ToSet
  <2>2. \A i \in DOMAIN Tail(t) : Tail(t)[i] \in ToSet(t)
    BY <1>2 DEF ToSet
  <2>3. ToSet(Tail(t)) \subseteq ToSet(t)
    BY <2>2 DEF ToSet
  <2>4. Head(t) \in ToSet(t)
    BY <1>2 DEF ToSet
  <2> QED
    BY <2>1, <2>3, <2>4
<1> QED
  BY <1>2, <1>3, <1>5

LEMMA ConcatOf ==
    ASSUME NEW a, NEW b, IsASeq(a), IsASeq(b)
    PROVE  /\ IsASeq(a \o b)
           /\ ToSet(a \o b) = ToSet(a) \cup ToSet(b)
           /\ DOMAIN (a \o b) = 1..(Len(a) + Len(b)) /\ Len(a) \in Nat /\ Len(b) \in Nat
           /\ \A i \in DOMAIN (a \o b) :
                \/ i \in DOMAIN a /\ i <= Len(a) /\ (a \o b)[i] = a[i]
                \/ /\ i > Len(a) /\ i - Len(a) \in DOMAIN b
                   /\ (a \o b)[i] = b[i - Len(a)]
<1> DEFINE S == ToSet(a) \cup ToSet(b)
<1>1. a \in Seq(S) /\ b \in Seq(S)
  BY DEF IsASeq
<1> HIDE DEF S
<1>2. a \o b \in Seq(S)
  BY <1>1
<1>3. ToSet(a \o b) = ToSet(a) \cup ToSet(b)
  BY <1>1, ToSetOfConcat
<1>4. /\ DOMAIN (a \o b) = 1..(Len(a) + Len(b)) /\ Len(a) \in Nat /\ Len(b) \in Nat
      /\ DOMAIN a = 1..Len(a) /\ DOMAIN b = 1..Len(b)
      /\ \A i \in 1..Len(a) : (a \o b)[i] = a[i]
      /\ \A i \in 1..(Len(a) + Len(b)) : i > Len(a) => (a \o b)[i] = b[i - Len(a)]
  BY <1>1
<1>5. IsASeq(a \o b)
  BY <1>2, SeqOfItsMembers
<1>6. \A i \in 1..(Len(a) + Len(b)) :
         \/ i \in 1..Len(a) /\ i <= Len(a)
         \/ i > Len(a) /\ i - Len(a) \in 1..Len(b)
  BY <1>4
<1> QED
  BY <1>3, <1>4, <1>5, <1>6

LEMMA EndOf ==
    ASSUME NEW t, IsASeq(t), NEW m \in DOMAIN t
    PROVE  LET end == SubSeq(t, m, Len(t))
           IN  /\ IsASeq(end) /\ DOMAIN end = 1..(Len(t) - m + 1)
               /\ Len(t) \in Nat /\ DOMAIN t = 1..Len(t)
               /\ \A i \in DOMAIN end : i + m - 1 \in DOMAIN t /\ end[i] = t[i + m - 1]
               /\ ToSet(end) = {t[i] : i \in m..Len(t)}
<1> DEFINE S == ToSet(t)
           end == SubSeq(t, m, Len(t))
<1>1. t \in Seq(S)
  BY DEF IsASeq
<1> HIDE DEF S
<1>2. /\ Len(t) \in Nat /\ DOMAIN t = 1..Len(t) /\ m \in Nat /\ m >= 1 /\ m <= Len(t)
  BY <1>1
<1>3. /\ end \in Seq(S) /\ DOMAIN end = 1..(Len(t) - m + 1)
      /\ \A i \in DOMAIN end : end[i] = t[i + m - 1]
  BY <1>1, <1>2
<1> HIDE DEF end
<1>4. \A i \in DOMAIN end : i + m - 1 \in m..Len(t)
  BY <1>2, <1>3
<1>5. ASSUME NEW i \in m..Len(t) PROVE i - m + 1 \in DOMAIN end /\ end[i - m + 1] = t[i]
  <2>1. i - m + 1 \in 1..(Len(t) - m + 1) /\ (i - m + 1) + m - 1 = i
    BY <1>2
  <2> QED
    BY <1>3, <2>1
<1>6. ToSet(end) = {t[i] : i \in m..Len(t)}
  <2>1. ToSet(end) \subseteq {t[i] : i \in m..Len(t)}
    BY <1>3, <1>4 DEF ToSet
  <2>2. \A i \in m..Len(t) : t[i] \in ToSet(end)
    BY <1>5 DEF ToSet
  <2> QED
    BY <2>1, <2>2
<1>7. IsASeq(end)
  BY <1>3, SeqOfItsMembers
<1>8. \A i \in DOMAIN end : i + m - 1 \in DOMAIN t /\ end[i] = t[i + m - 1]
  BY <1>2, <1>3, <1>4
<1> QED
  BY <1>2, <1>3, <1>6, <1>7, <1>8 DEF end

(***************************************************************************)
(* The requests of the EKS collector: it never comes back to a list, which *)
(* is why each has one coverage item.                                      *)
(***************************************************************************)
AwsRank ==
    [GetCallerIdentity |-> 1, DescribeCluster |-> 2, Addons |-> 3, Nodegroups |-> 4,
     DescribeAutoScalingGroups |-> 5, DescribeInstances |-> 6, DescribeVpcs |-> 7,
     DescribeSubnets |-> 8, DescribeRouteTables |-> 9, DescribeSecurityGroups |-> 10,
     DescribeScalingActivities |-> 11, Insights |-> 12, AccessEntries |-> 13,
     PodIdentityAssociations |-> 14]

AwsOps == DOMAIN AwsRank

\* The area of the coverage item of a list, and the resource it names.
AwsArea ==
    [GetCallerIdentity |-> "aws", DescribeCluster |-> "eks", Addons |-> "eks",
     Nodegroups |-> "eks", DescribeAutoScalingGroups |-> "autoscaling",
     DescribeInstances |-> "ec2", DescribeVpcs |-> "ec2", DescribeSubnets |-> "ec2",
     DescribeRouteTables |-> "ec2", DescribeSecurityGroups |-> "ec2",
     DescribeScalingActivities |-> "autoscaling", Insights |-> "eks",
     AccessEntries |-> "eks", PodIdentityAssociations |-> "eks"]

AwsResource(op) == IF op = "GetCallerIdentity" THEN "sts:GetCallerIdentity" ELSE op

DescribesOne(call) == call.name # ""

\* Requests of one op are next to each other, and all but the last of them
\* describe an item of a family.
AwsOrdered(t) ==
    /\ IsASeq(t)
    /\ \A i \in DOMAIN t : t[i].op \in AwsOps
    /\ \A i, j \in DOMAIN t : i < j =>
            \/ AwsRank[t[i].op] < AwsRank[t[j].op]
            \/ t[i].op = t[j].op /\ t[i].op \in Families /\ DescribesOne(t[i])

AwsAhead(t) == {c.op : c \in ToSet(t)}

LEMMA RanksAreNatural ==
    \A op \in AwsOps : AwsRank[op] \in Nat
BY DEF AwsOps, AwsRank

LEMMA RanksAreOrdered ==
    /\ \A a, b \in AwsOps : AwsRank[a] < AwsRank[b] => a # b
    /\ \A a, b, c \in AwsOps :
            AwsRank[a] < AwsRank[b] /\ AwsRank[b] < AwsRank[c] => AwsRank[a] < AwsRank[c]
<1>1. \A i, j, k \in Nat : (i < j => i # j) /\ (i < j /\ j < k => i < k)
  OBVIOUS
<1>2. \A a, b, c \in AwsOps :
            AwsRank[a] < AwsRank[b] /\ AwsRank[b] < AwsRank[c] => AwsRank[a] < AwsRank[c]
  BY <1>1, RanksAreNatural
<1>3. \A a, b \in AwsOps : AwsRank[a] < AwsRank[b] => AwsRank[a] # AwsRank[b]
  BY <1>1, RanksAreNatural
<1> QED
  BY <1>2, <1>3

LEMMA AwsTailIsOrdered ==
    ASSUME NEW t, AwsOrdered(t), t # <<>>
    PROVE  /\ AwsOrdered(Tail(t)) /\ Head(t).op \in AwsOps
           /\ AwsAhead(t) = {Head(t).op} \cup AwsAhead(Tail(t))
           /\ \A c \in ToSet(Tail(t)) :
                /\ c.op \in AwsOps
                /\ \/ AwsRank[Head(t).op] < AwsRank[c.op]
                   \/ Head(t).op = c.op /\ c.op \in Families /\ DescribesOne(Head(t))
<1>1. IsASeq(t)
  BY DEF AwsOrdered
<1>2. /\ IsASeq(Tail(t))
      /\ Len(t) \in Nat /\ DOMAIN t = 1..Len(t)
      /\ DOMAIN Tail(t) = 1..(Len(t) - 1)
      /\ \A i \in DOMAIN Tail(t) : i + 1 \in DOMAIN t /\ Tail(t)[i] = t[i + 1]
      /\ Head(t) = t[1] /\ 1 \in DOMAIN t
      /\ ToSet(t) = {Head(t)} \cup ToSet(Tail(t))
  BY <1>1, TailOf
<1>3. ASSUME NEW i \in DOMAIN Tail(t), NEW j \in DOMAIN Tail(t), i < j
      PROVE  \/ AwsRank[Tail(t)[i].op] < AwsRank[Tail(t)[j].op]
             \/ /\ Tail(t)[i].op = Tail(t)[j].op /\ Tail(t)[i].op \in Families
                /\ DescribesOne(Tail(t)[i])
  <2>1. /\ i + 1 \in DOMAIN t /\ j + 1 \in DOMAIN t /\ i + 1 < j + 1
        /\ Tail(t)[i] = t[i + 1] /\ Tail(t)[j] = t[j + 1]
    BY <1>2, <1>3
  <2> QED
    BY <2>1 DEF AwsOrdered
<1>4. \A i \in DOMAIN Tail(t) : Tail(t)[i].op \in AwsOps
  BY <1>2 DEF AwsOrdered
<1>5. AwsOrdered(Tail(t))
  BY <1>2, <1>3, <1>4 DEF AwsOrdered
<1>6. ASSUME NEW c \in ToSet(Tail(t))
      PROVE  /\ c.op \in AwsOps
             /\ \/ AwsRank[Head(t).op] < AwsRank[c.op]
                \/ Head(t).op = c.op /\ c.op \in Families /\ DescribesOne(Head(t))
  <2>1. PICK i \in DOMAIN Tail(t) : c = Tail(t)[i]
    BY DEF ToSet
  <2>2. i + 1 \in DOMAIN t /\ c = t[i + 1] /\ 1 < i + 1
    BY <1>2, <2>1
  <2> QED
    BY <1>2, <2>2 DEF AwsOrdered
<1>7. Head(t).op \in AwsOps
  BY <1>2 DEF AwsOrdered
<1>8. AwsAhead(t) = {Head(t).op} \cup AwsAhead(Tail(t))
  BY <1>2 DEF AwsAhead
<1> QED
  BY <1>5, <1>6, <1>7, <1>8

\* The next request is for another list.
AsksLast(t) == Len(t) = 1 \/ t[2].op # Head(t).op

\* Only the items of a family are asked for one after the other.
LEMMA AwsHeadIsLast ==
    ASSUME NEW t, AwsOrdered(t), t # <<>>,
           Head(t).op \notin Families \/ ~DescribesOne(Head(t)) \/ AsksLast(t)
    PROVE  AwsAhead(Tail(t)) = AwsAhead(t) \ {Head(t).op}
<1>1. Head(t).op \in AwsOps /\ AwsAhead(t) = {Head(t).op} \cup AwsAhead(Tail(t))
  BY AwsTailIsOrdered
<1> SUFFICES ASSUME NEW c \in ToSet(Tail(t)) PROVE c.op # Head(t).op
  BY <1>1 DEF AwsAhead
<1>2. /\ c.op \in AwsOps
      /\ \/ AwsRank[Head(t).op] < AwsRank[c.op]
         \/ Head(t).op = c.op /\ c.op \in Families /\ DescribesOne(Head(t))
  BY AwsTailIsOrdered
<1>3. CASE Head(t).op \notin Families \/ ~DescribesOne(Head(t))
  BY <1>1, <1>2, <1>3, RanksAreOrdered
<1>4. CASE AsksLast(t)
  <2>1. IsASeq(t)
    BY DEF AwsOrdered
  <2>2. /\ Len(t) \in Nat /\ DOMAIN t = 1..Len(t) /\ DOMAIN Tail(t) = 1..(Len(t) - 1)
        /\ \A i \in DOMAIN Tail(t) : i + 1 \in DOMAIN t /\ Tail(t)[i] = t[i + 1]
        /\ Head(t) = t[1] /\ 1 \in DOMAIN t
    BY <2>1, TailOf
  <2>3. PICK i \in DOMAIN Tail(t) : c = Tail(t)[i]
    BY DEF ToSet
  <2>4. PICK second : second = 2
    OBVIOUS
  <2> DEFINE k == i + 1
  <2>5. k \in DOMAIN t /\ k \in Nat /\ c = t[k] /\ k >= 2 /\ Len(t) # 1 /\ Len(t) >= 2
    BY <2>2, <2>3
  <2> HIDE DEF k
  <2>6. second \in DOMAIN t /\ second \in Nat /\ 1 < second /\ (second = k \/ second < k)
    BY <2>2, <2>4, <2>5
  <2>7. t[second].op # Head(t).op
    <3>1. t[2].op # Head(t).op
      BY <1>4, <2>5, Zenon DEF AsksLast
    <3> QED
      BY <2>4, <3>1, Zenon
  <2>8. /\ AwsRank[Head(t).op] < AwsRank[t[second].op] \/ Head(t).op = t[second].op
        /\ t[second].op \in AwsOps
    BY <2>2, <2>6 DEF AwsOrdered
  <2>9. AwsRank[t[second].op] < AwsRank[c.op] \/ t[second].op = c.op
    BY <2>5, <2>6 DEF AwsOrdered
  <2> QED
    BY <1>1, <1>2, <2>7, <2>8, <2>9, RanksAreOrdered
<1> QED
  BY <1>3, <1>4

\* What WithoutFamily leaves of the requests.
LEMMA AwsRestOfFamily ==
    ASSUME AwsOrdered(awsTodo), awsTodo # <<>>, NEW family, Head(awsTodo).op = family
    PROVE  /\ AwsOrdered(WithoutFamily(family))
           /\ ToSet(WithoutFamily(family)) = {c \in ToSet(awsTodo) : c.op # family}
<1> DEFINE t == awsTodo
           others == {i \in DOMAIN t : t[i].op # family}
           m == Min(others)
           rest == SubSeq(t, m, Len(t))
<1>1. /\ IsASeq(t) /\ Len(t) \in Nat /\ DOMAIN t = 1..Len(t)
      /\ Head(t) = t[1] /\ 1 \in DOMAIN t
  BY TailOf DEF AwsOrdered
<1>2. CASE others = {}
  <2>1. WithoutFamily(family) = <<>>
    BY <1>2 DEF WithoutFamily
  <2>2. {c \in ToSet(awsTodo) : c.op # family} = {}
    BY <1>2 DEF ToSet
  <2>3. ToSet(<<>>) = {} /\ <<>> \in Seq({}) /\ DOMAIN <<>> = {}
    BY DEF ToSet
  <2>4. AwsOrdered(<<>>)
    BY <2>3 DEF AwsOrdered, IsASeq
  <2> QED
    BY <2>1, <2>2, <2>3, <2>4
<1>3. CASE others # {}
  <2>1. WithoutFamily(family) = rest
    BY <1>3 DEF WithoutFamily
  <2>2. others \subseteq Nat
    BY <1>1
  <2>3. m \in others /\ \A i \in others : m <= i
    <3> HIDE DEF others
    <3> QED
      BY <1>3, <2>2, SmallestOf
  <2> HIDE DEF m
  <2>4. m \in DOMAIN t /\ t[m].op # family /\ 1 < m /\ m \in Nat
    BY <1>1, <2>3
  <2>5. /\ IsASeq(rest) /\ DOMAIN rest = 1..(Len(t) - m + 1)
        /\ \A i \in DOMAIN rest : i + m - 1 \in DOMAIN t /\ rest[i] = t[i + m - 1]
        /\ ToSet(rest) = {t[i] : i \in m..Len(t)}
    BY <1>1, <2>4, EndOf
  <2> HIDE DEF rest
  <2>6. \A i \in DOMAIN rest : rest[i].op \in AwsOps
    BY <2>5 DEF AwsOrdered
  <2>7. ASSUME NEW i \in DOMAIN rest, NEW j \in DOMAIN rest, i < j
        PROVE  \/ AwsRank[rest[i].op] < AwsRank[rest[j].op]
               \/ /\ rest[i].op = rest[j].op /\ rest[i].op \in Families
                  /\ DescribesOne(rest[i])
    <3>1. /\ i + m - 1 \in DOMAIN t /\ j + m - 1 \in DOMAIN t /\ i + m - 1 < j + m - 1
          /\ rest[i] = t[i + m - 1] /\ rest[j] = t[j + m - 1]
      BY <1>1, <2>4, <2>5, <2>7
    <3> QED
      BY <3>1 DEF AwsOrdered
  <2>8. AwsOrdered(rest)
    BY <2>5, <2>6, <2>7 DEF AwsOrdered
  <2>9. AwsRank[family] < AwsRank[t[m].op] /\ t[m].op \in AwsOps /\ family \in AwsOps
    BY <1>1, <2>4 DEF AwsOrdered
  <2>10. ASSUME NEW i \in m..Len(t) PROVE t[i] \in ToSet(t) /\ t[i].op # family
    <3>1. i \in DOMAIN t /\ (i = m \/ m < i)
      BY <1>1, <2>4
    <3>4. t[i].op \in AwsOps
      BY <3>1 DEF AwsOrdered
    <3>2. t[m].op = t[i].op \/ AwsRank[t[m].op] < AwsRank[t[i].op]
      BY <2>4, <3>1 DEF AwsOrdered
    <3>3. t[i].op # family
      BY <2>4, <2>9, <3>2, <3>4, RanksAreOrdered
    <3> QED
      BY <3>1, <3>3 DEF ToSet
  <2>11. ASSUME NEW c \in ToSet(t), c.op # family PROVE c \in {t[i] : i \in m..Len(t)}
    <3>1. PICK i \in DOMAIN t : c = t[i]
      BY DEF ToSet
    <3>2. m <= i
      BY <2>3, <2>11, <3>1
    <3> QED
      BY <1>1, <2>4, <3>1, <3>2
  <2>12. ToSet(rest) = {c \in ToSet(t) : c.op # family}
    BY <2>5, <2>10, <2>11
  <2> QED
    BY <2>1, <2>8, <2>12
<1> QED
  BY <1>2, <1>3

\* The requests to describe what a family was listed with come next.
LEMMA AwsDescribesNext ==
    ASSUME AwsOrdered(awsTodo), awsTodo # <<>>, NEW family \in Families,
           Head(awsTodo).op = family, ~DescribesOne(Head(awsTodo)),
           NEW names, IsFiniteSet(names),
           \A n \in names : DescribesOne(Describe(family, n))
    PROVE  LET asked == {Describe(family, n) : n \in names}
               rest == SetToSeq(asked) \o Tail(awsTodo)
           IN  /\ AwsOrdered(rest)
               /\ ToSet(rest) = asked \cup ToSet(Tail(awsTodo))
<1> DEFINE f == [n \in names |-> Describe(family, n)]
           asked == {Describe(family, n) : n \in names}
           calls == SetToSeq(asked)
           rest == calls \o Tail(awsTodo)
<1>1. IsFiniteSet(asked)
  <2>1. DOMAIN f = names /\ asked = {f[n] : n \in DOMAIN f}
    OBVIOUS
  <2> HIDE DEF f
  <2> QED
    BY <2>1, ImageIsFinite
<1>2. \A c \in asked : c.op = family /\ DescribesOne(c)
  <2>1. \A n \in names : Describe(family, n).op = family
    BY DEF Describe
  <2> QED
    BY <2>1
<1> HIDE DEF asked
<1>3. calls \in Seq(asked) /\ ToSet(calls) = asked
  BY <1>1, EveryMemberOnce
<1> HIDE DEF calls
<1>4. \A i \in DOMAIN calls : calls[i].op = family /\ DescribesOne(calls[i])
  <2>1. \A i \in DOMAIN calls : calls[i] \in asked
    BY <1>3 DEF ToSet
  <2> QED
    BY <1>2, <2>1
<1>11. IsASeq(calls)
  BY <1>3, SeqOfItsMembers
<1>5. AwsOrdered(Tail(awsTodo)) /\ family \in AwsOps
  BY AwsTailIsOrdered
<1>6. \A c \in ToSet(Tail(awsTodo)) : c.op \in AwsOps /\ AwsRank[family] < AwsRank[c.op]
  BY AwsTailIsOrdered
<1>7. IsASeq(Tail(awsTodo))
  BY <1>5 DEF AwsOrdered
<1>12. IsASeq(rest) /\ ToSet(rest) = asked \cup ToSet(Tail(awsTodo))
  BY <1>3, <1>7, <1>11, ConcatOf
<1>13. /\ Len(calls) \in Nat /\ \A i \in DOMAIN rest : i \in Nat
       /\ \A i \in DOMAIN rest :
                \/ i \in DOMAIN calls /\ i <= Len(calls) /\ rest[i] = calls[i]
                \/ /\ i > Len(calls) /\ i - Len(calls) \in DOMAIN Tail(awsTodo)
                   /\ rest[i] = Tail(awsTodo)[i - Len(calls)]
  <2>1. DOMAIN rest = 1..(Len(calls) + Len(Tail(awsTodo)))
        /\ Len(calls) \in Nat /\ Len(Tail(awsTodo)) \in Nat
    BY <1>7, <1>11, ConcatOf
  <2>2. \A i \in DOMAIN rest : i \in Nat
    <3> HIDE DEF rest
    <3> QED
      BY <2>1
  <2> QED
    BY <1>7, <1>11, <2>1, <2>2, ConcatOf
<1> HIDE DEF rest
<1>8. \A i \in DOMAIN rest : rest[i].op \in AwsOps
  <2>1. \A i \in DOMAIN rest : rest[i] \in asked \cup ToSet(Tail(awsTodo))
    BY <1>12 DEF ToSet
  <2> QED
    BY <1>2, <1>5, <1>6, <2>1
<1>9. ASSUME NEW i \in DOMAIN rest, NEW j \in DOMAIN rest, i < j
      PROVE  \/ AwsRank[rest[i].op] < AwsRank[rest[j].op]
             \/ /\ rest[i].op = rest[j].op /\ rest[i].op \in Families
                /\ DescribesOne(rest[i])
  <2> DEFINE n == Len(calls)
  <2>1. i \in Nat /\ j \in Nat /\ n \in Nat
    BY <1>13
  <2>2. CASE j <= n
    <3>1. i <= n
      BY <1>9, <2>1, <2>2
    <3>2. rest[i] = calls[i] /\ i \in DOMAIN calls /\ rest[j] = calls[j] /\ j \in DOMAIN calls
      BY <1>13, <2>1, <2>2, <3>1
    <3> QED
      BY <1>4, <3>2
  <2>3. CASE i <= n /\ j > n
    <3>1. rest[i] = calls[i] /\ i \in DOMAIN calls /\ rest[j] \in ToSet(Tail(awsTodo))
      BY <1>13, <2>1, <2>3 DEF ToSet
    <3> QED
      BY <1>4, <1>6, <3>1
  <2>4. CASE i > n
    <3> DEFINE k == i - n
               l == j - n
    <3>1. j > n /\ k < l
      BY <1>9, <2>1, <2>4
    <3>2. /\ k \in DOMAIN Tail(awsTodo) /\ rest[i] = Tail(awsTodo)[k]
          /\ l \in DOMAIN Tail(awsTodo) /\ rest[j] = Tail(awsTodo)[l]
      BY <1>13, <2>1, <2>4, <3>1
    <3> HIDE DEF k, l
    <3> QED
      BY <1>5, <3>1, <3>2 DEF AwsOrdered
  <2> QED
    BY <2>1, <2>2, <2>3, <2>4
<1>10. AwsOrdered(rest)
  BY <1>8, <1>9, <1>12 DEF AwsOrdered
<1> QED
  BY <1>10, <1>12 DEF rest, calls, asked

(***************************************************************************)
(* The coverage items of the EKS collector.                                *)
(***************************************************************************)
Told(told, area, resource) == {c \in told : c.area = area /\ c.resource = resource}
ToldOnce(told, area, resource) == \E c \in told : Told(told, area, resource) = {c}

AwsTold(told, t) ==
    \A op \in AwsOps :
        IF op \in AwsAhead(t) THEN Told(told, AwsArea[op], AwsResource(op)) = {}
        ELSE ToldOnce(told, AwsArea[op], AwsResource(op))

\* A list of the API server ends, and its names are not empty.
AwsNamed(w) ==
    \A family \in Families :
        IsFiniteSet(DOMAIN w.aws[family]) /\ "" \notin DOMAIN w.aws[family]

\* What a call may do to the requests and to the coverage.
AwsRecorded ==
    LET op == Head(awsTodo).op IN
    /\ \E c : /\ c.area = AwsArea[op] /\ c.resource = AwsResource(op)
              /\ coverage' = coverage \cup {c}
    /\ AwsAhead(awsTodo') = AwsAhead(awsTodo) \ {op}

AwsDescribing == coverage' = coverage /\ AwsAhead(awsTodo') = AwsAhead(awsTodo)

AwsGivesUp == awsScan' = "failed" /\ UNCHANGED <<eks, coverage, awsTodo>>

AwsGoesOn ==
    /\ AwsOrdered(awsTodo')
    /\ awsScan' = IF awsTodo' = <<>> THEN "done" ELSE awsScan
    /\ \A c \in ToSet(awsTodo) : c.op # Head(awsTodo).op => c \in ToSet(awsTodo')

LEMMA ToldWithItem ==
    ASSUME NEW told, NEW c, NEW area, NEW resource
    PROVE  Told(told \cup {c}, area, resource) =
                IF c.area = area /\ c.resource = resource
                THEN Told(told, area, resource) \cup {c} ELSE Told(told, area, resource)
BY DEF Told

LEMMA AwsResourcesDiffer ==
    \A a, b \in AwsOps : a # b => AwsResource(a) # AwsResource(b)
<1>1. \A a \in AwsOps : a # "sts:GetCallerIdentity"
  BY DEF AwsOps, AwsRank
<1> QED
  BY <1>1 DEF AwsResource

LEMMA AwsRecordedOnce ==
    ASSUME AwsTold(coverage, awsTodo), Head(awsTodo).op \in AwsOps, AwsRecorded,
           Head(awsTodo).op \in AwsAhead(awsTodo)
    PROVE  AwsTold(coverage', awsTodo')
<1> DEFINE op == Head(awsTodo).op
<1>1. PICK c : /\ c.area = AwsArea[op] /\ c.resource = AwsResource(op)
               /\ coverage' = coverage \cup {c}
  BY DEF AwsRecorded
<1>2. AwsAhead(awsTodo') = AwsAhead(awsTodo) \ {op}
  BY DEF AwsRecorded
<1> SUFFICES ASSUME NEW other \in AwsOps
             PROVE  IF other \in AwsAhead(awsTodo')
                    THEN Told(coverage', AwsArea[other], AwsResource(other)) = {}
                    ELSE ToldOnce(coverage', AwsArea[other], AwsResource(other))
  BY DEF AwsTold
<1>5. \A area, resource : Told(coverage', area, resource) =
                IF c.area = area /\ c.resource = resource
                THEN Told(coverage, area, resource) \cup {c} ELSE Told(coverage, area, resource)
  <2>1. \A area, resource : Told(coverage \cup {c}, area, resource) =
                IF c.area = area /\ c.resource = resource
                THEN Told(coverage, area, resource) \cup {c} ELSE Told(coverage, area, resource)
    BY ToldWithItem
  <2> QED
    BY <1>1, <2>1
<1>6. op \in AwsOps /\ op \in AwsAhead(awsTodo)
  OBVIOUS
<1> HIDE DEF op
<1>3. CASE other = op
  <2>1. Told(coverage, AwsArea[op], AwsResource(op)) = {}
    BY <1>3, <1>6 DEF AwsTold
  <2>2. Told(coverage', AwsArea[op], AwsResource(op)) = {c}
    BY <1>1, <1>5, <2>1
  <2>3. c \in coverage'
    BY <1>1
  <2> QED
    BY <1>2, <1>3, <2>2, <2>3 DEF ToldOnce
<1>4. CASE other # op
  <2>1. Told(coverage', AwsArea[other], AwsResource(other))
            = Told(coverage, AwsArea[other], AwsResource(other))
    BY <1>1, <1>4, <1>5, <1>6, AwsResourcesDiffer
  <2> QED
    BY <1>1, <1>2, <1>4, <2>1 DEF AwsTold, ToldOnce
<1> QED
  BY <1>3, <1>4

\* A call that was the last one for its list.
LEMMA AwsListRecorded ==
    ASSUME AwsOrdered(awsTodo), NEW op \in AwsOps, AwsRunning(op),
           op \notin Families \/ ~DescribesOne(Head(awsTodo)) \/ AsksLast(awsTodo),
           AwsContinue(Tail(awsTodo)),
           NEW c, c.area = AwsArea[op], c.resource = AwsResource(op),
           coverage' = coverage \cup {c}
    PROVE  AwsRecorded /\ AwsGoesOn
<1>1. awsTodo # <<>> /\ Head(awsTodo).op = op /\ awsTodo' = Tail(awsTodo)
      /\ awsScan' = IF awsTodo' = <<>> THEN "done" ELSE awsScan
  BY DEF AwsRunning, AwsContinue
<1>2. AwsOrdered(awsTodo') /\ AwsAhead(awsTodo') = AwsAhead(awsTodo) \ {op}
  BY <1>1, AwsTailIsOrdered, AwsHeadIsLast
<1>3. ToSet(awsTodo) = {Head(awsTodo)} \cup ToSet(awsTodo')
  BY <1>1, TailOf DEF AwsOrdered
<1> QED
  BY <1>1, <1>2, <1>3 DEF AwsRecorded, AwsGoesOn

LEMMA AwsInfrastructureRecorded ==
    ASSUME AwsOrdered(awsTodo), NEW op \in AwsOps \ Families, AwsRunning(op),
           NEW list, NEW items, NEW complete,
           RecordInfrastructure(list, AwsArea[op], AwsResource(op), items, complete)
    PROVE  AwsRecorded /\ AwsGoesOn
<1> DEFINE c == CoverageItem(AwsArea[op], AwsResource(op),
                             IF complete THEN "complete" ELSE "partial", Cardinality(items))
<1>1. coverage' = coverage \cup {c} /\ AwsContinue(Tail(awsTodo))
  BY DEF RecordInfrastructure
<1>2. c.area = AwsArea[op] /\ c.resource = AwsResource(op)
  BY DEF CoverageItem
<1> HIDE DEF c
<1> QED
  BY <1>1, <1>2, AwsListRecorded

LEMMA AwsOpKeys ==
    /\ AwsOps = {"GetCallerIdentity", "DescribeCluster", "Addons", "Nodegroups",
                 "DescribeAutoScalingGroups", "DescribeInstances", "DescribeVpcs",
                 "DescribeSubnets", "DescribeRouteTables", "DescribeSecurityGroups",
                 "DescribeScalingActivities", "Insights", "AccessEntries",
                 "PodIdentityAssociations"}
    /\ Families \subseteq AwsOps
    /\ \A family \in Families : AwsArea[family] = "eks"
    /\ \A op \in AwsOps \ {"GetCallerIdentity"} : AwsResource(op) = op
    /\ AwsResource("GetCallerIdentity") = "sts:GetCallerIdentity"
    /\ \A op \in AwsOps : AwsArea[op] # "kubernetes"
<1>1. AwsOps = {"GetCallerIdentity", "DescribeCluster", "Addons", "Nodegroups",
                 "DescribeAutoScalingGroups", "DescribeInstances", "DescribeVpcs",
                 "DescribeSubnets", "DescribeRouteTables", "DescribeSecurityGroups",
                 "DescribeScalingActivities", "Insights", "AccessEntries",
                 "PodIdentityAssociations"}
  BY DEF AwsOps, AwsRank
<1>2. \A op \in AwsOps : AwsArea[op] # "kubernetes"
  BY <1>1 DEF AwsArea
<1>3. \A family \in Families : AwsArea[family] = "eks"
  BY DEF Families, AwsArea
<1> QED
  BY <1>1, <1>2, <1>3 DEF Families, AwsResource

LEMMA AwsInfrastructureCalls ==
    ASSUME AwsOrdered(awsTodo), NEW outcome,
           \/ GetCallerIdentity(outcome) \/ DescribeAutoScalingGroups(outcome)
           \/ DescribeInstances(outcome) \/ DescribeVpcs(outcome)
           \/ DescribeSubnets(outcome) \/ DescribeRouteTables(outcome)
           \/ DescribeSecurityGroups(outcome) \/ DescribeScalingActivities(outcome)
    PROVE  AwsRecorded /\ AwsGoesOn
<1>1. CASE GetCallerIdentity(outcome)
  <2> DEFINE c == IF outcome = "ok" THEN Complete("aws", "sts:GetCallerIdentity", 1)
                  ELSE CoverageItem("aws", "sts:GetCallerIdentity", "denied", 0)
  <2>1. /\ AwsRunning("GetCallerIdentity") /\ coverage' = coverage \cup {c}
        /\ AwsContinue(Tail(awsTodo))
    BY <1>1 DEF GetCallerIdentity
  <2>2. c.area = "aws" /\ c.resource = "sts:GetCallerIdentity"
    BY DEF Complete, CoverageItem
  <2>3. "GetCallerIdentity" \in AwsOps \ Families /\ AwsArea["GetCallerIdentity"] = "aws"
    BY AwsOpKeys DEF Families, AwsArea
  <2> HIDE DEF c
  <2> QED
    BY <2>1, <2>2, <2>3, AwsOpKeys, AwsListRecorded
<1>2. CASE DescribeAutoScalingGroups(outcome)
  <2>1. \E items, complete : RecordInfrastructure("AutoScalingGroups", "autoscaling",
              "DescribeAutoScalingGroups", items, complete)
    BY <1>2 DEF DescribeAutoScalingGroups
  <2>2. /\ "DescribeAutoScalingGroups" \in AwsOps \ Families
        /\ AwsArea["DescribeAutoScalingGroups"] = "autoscaling"
        /\ AwsResource("DescribeAutoScalingGroups") = "DescribeAutoScalingGroups"
    BY AwsOpKeys DEF Families, AwsArea
  <2>3. AwsRunning("DescribeAutoScalingGroups")
    BY <1>2 DEF DescribeAutoScalingGroups
  <2> QED
    BY <2>1, <2>2, <2>3, AwsInfrastructureRecorded
<1>3. CASE DescribeInstances(outcome)
  <2>1. \E items, complete :
            RecordInfrastructure("Instances", "ec2", "DescribeInstances", items, complete)
    BY <1>3 DEF DescribeInstances
  <2>2. /\ "DescribeInstances" \in AwsOps \ Families /\ AwsArea["DescribeInstances"] = "ec2"
        /\ AwsResource("DescribeInstances") = "DescribeInstances"
    BY AwsOpKeys DEF Families, AwsArea
  <2>3. AwsRunning("DescribeInstances")
    BY <1>3 DEF DescribeInstances
  <2> QED
    BY <2>1, <2>2, <2>3, AwsInfrastructureRecorded
<1>4. CASE DescribeVpcs(outcome)
  <2>1. \E items, complete :
            RecordInfrastructure("VPCs", "ec2", "DescribeVpcs", items, complete)
    BY <1>4 DEF DescribeVpcs
  <2>2. /\ "DescribeVpcs" \in AwsOps \ Families /\ AwsArea["DescribeVpcs"] = "ec2"
        /\ AwsResource("DescribeVpcs") = "DescribeVpcs"
    BY AwsOpKeys DEF Families, AwsArea
  <2>3. AwsRunning("DescribeVpcs")
    BY <1>4 DEF DescribeVpcs
  <2> QED
    BY <2>1, <2>2, <2>3, AwsInfrastructureRecorded
<1>5. CASE DescribeSubnets(outcome)
  <2>1. \E items, complete :
            RecordInfrastructure("Subnets", "ec2", "DescribeSubnets", items, complete)
    BY <1>5 DEF DescribeSubnets
  <2>2. /\ "DescribeSubnets" \in AwsOps \ Families /\ AwsArea["DescribeSubnets"] = "ec2"
        /\ AwsResource("DescribeSubnets") = "DescribeSubnets"
    BY AwsOpKeys DEF Families, AwsArea
  <2>3. AwsRunning("DescribeSubnets")
    BY <1>5 DEF DescribeSubnets
  <2> QED
    BY <2>1, <2>2, <2>3, AwsInfrastructureRecorded
<1>6. CASE DescribeRouteTables(outcome)
  <2>1. AwsRunning("DescribeRouteTables") /\ AwsContinue(Tail(awsTodo))
    BY <1>6 DEF DescribeRouteTables
  <2>2. \E status, count :
            coverage' = coverage \cup {CoverageItem("ec2", "DescribeRouteTables", status, count)}
    BY <1>6 DEF DescribeRouteTables
  <2>3. PICK c : /\ c.area = "ec2" /\ c.resource = "DescribeRouteTables"
                 /\ coverage' = coverage \cup {c}
    BY <2>2 DEF CoverageItem
  <2>4. /\ "DescribeRouteTables" \in AwsOps \ Families
        /\ AwsArea["DescribeRouteTables"] = "ec2"
        /\ AwsResource("DescribeRouteTables") = "DescribeRouteTables"
    BY AwsOpKeys DEF Families, AwsArea
  <2> QED
    BY <2>1, <2>3, <2>4, AwsListRecorded
<1>7. CASE DescribeSecurityGroups(outcome)
  <2>1. \E items, complete : RecordInfrastructure("SecurityGroups", "ec2",
              "DescribeSecurityGroups", items, complete)
    BY <1>7 DEF DescribeSecurityGroups
  <2>2. /\ "DescribeSecurityGroups" \in AwsOps \ Families
        /\ AwsArea["DescribeSecurityGroups"] = "ec2"
        /\ AwsResource("DescribeSecurityGroups") = "DescribeSecurityGroups"
    BY AwsOpKeys DEF Families, AwsArea
  <2>3. AwsRunning("DescribeSecurityGroups")
    BY <1>7 DEF DescribeSecurityGroups
  <2> QED
    BY <2>1, <2>2, <2>3, AwsInfrastructureRecorded
<1>8. CASE DescribeScalingActivities(outcome)
  <2>1. \E items, complete : RecordInfrastructure("ScalingActivities", "autoscaling",
              "DescribeScalingActivities", items, complete)
    BY <1>8 DEF DescribeScalingActivities
  <2>2. /\ "DescribeScalingActivities" \in AwsOps \ Families
        /\ AwsArea["DescribeScalingActivities"] = "autoscaling"
        /\ AwsResource("DescribeScalingActivities") = "DescribeScalingActivities"
    BY AwsOpKeys DEF Families, AwsArea
  <2>3. AwsRunning("DescribeScalingActivities")
    BY <1>8 DEF DescribeScalingActivities
  <2> QED
    BY <2>1, <2>2, <2>3, AwsInfrastructureRecorded
<1> QED
  BY <1>1, <1>2, <1>3, <1>4, <1>5, <1>6, <1>7, <1>8

LEMMA AwsFamilyCalls ==
    ASSUME AwsOrdered(awsTodo), AwsNamed(world), NEW outcome,
           DescribeCluster(outcome) \/ ListFamily(outcome) \/ DescribeOne(outcome)
    PROVE  AwsGivesUp \/ (AwsGoesOn /\ (AwsRecorded \/ AwsDescribing))
<1>1. CASE DescribeCluster(outcome) /\ outcome = "ok"
  <2>1. /\ AwsRunning("DescribeCluster") /\ AwsContinue(Tail(awsTodo))
        /\ coverage' = coverage \cup {Complete("eks", "DescribeCluster", 1)}
    BY <1>1 DEF DescribeCluster
  <2>2. PICK c : /\ c.area = "eks" /\ c.resource = "DescribeCluster"
                 /\ coverage' = coverage \cup {c}
    BY <2>1 DEF Complete, CoverageItem
  <2>3. /\ "DescribeCluster" \in AwsOps \ Families /\ AwsArea["DescribeCluster"] = "eks"
        /\ AwsResource("DescribeCluster") = "DescribeCluster"
    BY AwsOpKeys DEF Families, AwsArea
  <2> QED
    BY <2>1, <2>2, <2>3, AwsListRecorded
<1>2. CASE DescribeCluster(outcome) /\ outcome # "ok"
  BY <1>2 DEF DescribeCluster, AwsGivesUp
<1>3. CASE ListFamily(outcome)
  <2>1. PICK family \in Families :
            /\ AwsRunning(family) /\ ~DescribesOne(Head(awsTodo))
            /\ LET names == DOMAIN world.aws[family]
               IN  \/ /\ names # {}
                      /\ AwsContinue(SetToSeq({Describe(family, n) : n \in names}) \o Tail(awsTodo))
                      /\ UNCHANGED coverage
                   \/ /\ AwsContinue(Tail(awsTodo))
                      /\ \E status : coverage' = coverage \cup {CoverageItem("eks", family, status, 0)}
    BY <1>3, Zenon DEF ListFamily, DescribesOne, Complete, Partial
  <2> DEFINE names == DOMAIN world.aws[family]
             asked == {Describe(family, n) : n \in names}
             rest == SetToSeq(asked) \o Tail(awsTodo)
  <2>2. /\ family \in AwsOps /\ AwsArea[family] = "eks" /\ AwsResource(family) = family
        /\ awsTodo # <<>> /\ Head(awsTodo).op = family
    <3>1. awsTodo # <<>> /\ Head(awsTodo).op = family
      BY <2>1 DEF AwsRunning
    <3>2. family # "GetCallerIdentity"
      BY DEF Families
    <3> QED
      BY <3>1, <3>2, AwsOpKeys
  <2>3. CASE names # {} /\ AwsContinue(rest) /\ UNCHANGED coverage
    <3>1. IsFiniteSet(names) /\ \A n \in names : DescribesOne(Describe(family, n))
      BY DEF AwsNamed, DescribesOne, Describe
    <3>2. AwsOrdered(rest) /\ ToSet(rest) = asked \cup ToSet(Tail(awsTodo))
      BY <2>1, <2>2, <3>1, AwsDescribesNext
    <3>3. awsTodo' = rest /\ awsScan' = IF awsTodo' = <<>> THEN "done" ELSE awsScan
      BY <2>3 DEF AwsContinue
    <3>4. ToSet(awsTodo') = asked \cup ToSet(Tail(awsTodo))
      BY <3>2, <3>3
    <3>5. /\ ToSet(awsTodo) = {Head(awsTodo)} \cup ToSet(Tail(awsTodo))
      BY <2>2, TailOf DEF AwsOrdered
    <3>6. asked # {} /\ \A c \in asked : c.op = family
      <4>1. PICK n \in names : TRUE
        BY <2>3
      <4>2. Describe(family, n) \in asked
        OBVIOUS
      <4>3. \A c \in asked : c.op = family
        BY DEF Describe
      <4> QED
        BY <4>2, <4>3
    <3> HIDE DEF asked, names, rest
    <3>7. AwsAhead(awsTodo') = AwsAhead(awsTodo)
      BY <2>2, <3>4, <3>5, <3>6 DEF AwsAhead
    <3> QED
      BY <2>2, <2>3, <3>2, <3>3, <3>4, <3>5, <3>7 DEF AwsGoesOn, AwsDescribing
  <2>4. ASSUME AwsContinue(Tail(awsTodo)), NEW status,
               coverage' = coverage \cup {CoverageItem("eks", family, status, 0)}
        PROVE  AwsGoesOn /\ AwsRecorded
    <3> DEFINE c == CoverageItem("eks", family, status, 0)
    <3>1. c.area = "eks" /\ c.resource = family
      BY DEF CoverageItem
    <3>2. coverage' = coverage \cup {c} /\ AwsContinue(Tail(awsTodo))
      BY <2>4
    <3> HIDE DEF c
    <3>3. AwsRunning(family) /\ ~DescribesOne(Head(awsTodo))
      BY <2>1
    <3> QED
      BY <2>2, <3>1, <3>2, <3>3, AwsListRecorded
  <2> QED
    BY <2>1, <2>3, <2>4
<1>4. CASE DescribeOne(outcome)
  <2>1. PICK family \in Families :
            /\ AwsRunning(family) /\ DescribesOne(Head(awsTodo))
            /\ \E found \in BOOLEAN : \E count :
                /\ AwsContinue(IF found THEN Tail(awsTodo) ELSE WithoutFamily(family))
                /\ coverage' = coverage \cup
                    (IF ~found THEN {Partial("eks", family, count)}
                     ELSE IF Len(awsTodo) = 1 \/ awsTodo[2].op # family
                     THEN {Complete("eks", family, count)} ELSE {})
    BY <1>4, Zenon DEF DescribeOne, DescribesOne
  <2>2. /\ family \in AwsOps /\ AwsArea[family] = "eks" /\ AwsResource(family) = family
        /\ awsTodo # <<>> /\ Head(awsTodo).op = family
    <3>1. awsTodo # <<>> /\ Head(awsTodo).op = family
      BY <2>1 DEF AwsRunning
    <3>2. family # "GetCallerIdentity"
      BY DEF Families
    <3> QED
      BY <3>1, <3>2, AwsOpKeys
  <2>3. PICK found, count :
            /\ AwsContinue(IF found THEN Tail(awsTodo) ELSE WithoutFamily(family))
            /\ coverage' = coverage \cup
                (IF ~found THEN {Partial("eks", family, count)}
                 ELSE IF Len(awsTodo) = 1 \/ awsTodo[2].op # family
                 THEN {Complete("eks", family, count)} ELSE {})
    BY <2>1
  <2>4. AsksLast(awsTodo) <=> (Len(awsTodo) = 1 \/ awsTodo[2].op # family)
    BY <2>2 DEF AsksLast
  <2>5. \A status : /\ CoverageItem("eks", family, status, count).area = "eks"
                    /\ CoverageItem("eks", family, status, count).resource = family
    BY DEF CoverageItem
  <2>6. CASE ~found
    <3>1. /\ awsTodo' = WithoutFamily(family)
          /\ awsScan' = IF awsTodo' = <<>> THEN "done" ELSE awsScan
      BY <2>3, <2>6 DEF AwsContinue
    <3>2. PICK c : /\ c.area = "eks" /\ c.resource = family
                   /\ coverage' = coverage \cup {c}
      BY <2>3, <2>5, <2>6 DEF Partial
    <3>3. /\ AwsOrdered(awsTodo')
          /\ ToSet(awsTodo') = {d \in ToSet(awsTodo) : d.op # family}
      BY <2>2, <3>1, AwsRestOfFamily
    <3>4. AwsAhead(awsTodo') = AwsAhead(awsTodo) \ {family}
      BY <3>3 DEF AwsAhead
    <3> QED
      BY <2>2, <3>1, <3>2, <3>3, <3>4 DEF AwsGoesOn, AwsRecorded
  <2>7. CASE found /\ AsksLast(awsTodo)
    <3>1. AwsContinue(Tail(awsTodo))
      BY <2>3, <2>7
    <3>2. coverage' = coverage \cup {Complete("eks", family, count)}
      BY <2>3, <2>4, <2>7
    <3>3. PICK c : /\ c.area = "eks" /\ c.resource = family
                   /\ coverage' = coverage \cup {c}
      BY <2>5, <3>2 DEF Complete
    <3> QED
      BY <2>1, <2>2, <2>7, <3>1, <3>3, AwsListRecorded
  <2>8. CASE found /\ ~AsksLast(awsTodo)
    <3>1. /\ awsTodo' = Tail(awsTodo)
          /\ awsScan' = IF awsTodo' = <<>> THEN "done" ELSE awsScan
      BY <2>3, <2>8 DEF AwsContinue
    <3>2. coverage' = coverage \cup {}
      BY <2>3, <2>4, <2>8
    <3>3. coverage' = coverage
      BY <3>2
    <3>4. /\ IsASeq(awsTodo) /\ AwsOrdered(awsTodo')
          /\ ToSet(awsTodo) = {Head(awsTodo)} \cup ToSet(awsTodo')
      <4>1. IsASeq(awsTodo) /\ awsTodo # <<>>
        BY <2>2 DEF AwsOrdered
      <4>2. ToSet(awsTodo) = {Head(awsTodo)} \cup ToSet(Tail(awsTodo))
        BY <4>1, TailOf
      <4>3. AwsOrdered(Tail(awsTodo))
        BY <2>2, AwsTailIsOrdered
      <4> QED
        BY <3>1, <4>1, <4>2, <4>3
    <3>5. \E c \in ToSet(awsTodo') : c.op = family
      <4>1. Len(awsTodo) # 1 /\ awsTodo[2].op = family
        BY <2>4, <2>8
      <4>2. /\ Len(awsTodo) \in Nat /\ Len(awsTodo) > 0
            /\ DOMAIN awsTodo' = 1..(Len(awsTodo) - 1)
            /\ \A i \in DOMAIN awsTodo' : awsTodo'[i] = awsTodo[i + 1]
        BY <2>2, <3>1, <3>4, TailOf
      <4>3. 1 \in DOMAIN awsTodo'
        <5>1. \A n \in Nat : n > 0 /\ n # 1 => 1 \in 1..(n - 1)
          OBVIOUS
        <5> QED
          BY <4>1, <4>2, <5>1
      <4>4. awsTodo'[1] = awsTodo[2]
        BY <4>2, <4>3
      <4>5. awsTodo'[1] \in ToSet(awsTodo')
        BY <4>3 DEF ToSet
      <4> QED
        BY <4>1, <4>4, <4>5
    <3>6. AwsAhead(awsTodo') = AwsAhead(awsTodo)
      BY <2>2, <3>4, <3>5 DEF AwsAhead
    <3> QED
      BY <2>2, <3>1, <3>3, <3>4, <3>6 DEF AwsGoesOn, AwsDescribing
  <2> QED
    BY <2>6, <2>7, <2>8
<1> QED
  BY <1>1, <1>2, <1>3, <1>4

\* The coverage of the two collectors does not meet.
LEMMA AwsCallKeepsCoverage ==
    ASSUME AwsOrdered(awsTodo), AwsTold(coverage, awsTodo), AwsNamed(world),
           NEW outcome, CallAws(outcome)
    PROVE  /\ AwsOrdered(awsTodo') /\ AwsTold(coverage', awsTodo')
           /\ coverage \subseteq coverage'
           /\ \A r : Told(coverage', "kubernetes", r) = Told(coverage, "kubernetes", r)
           /\ awsScan = "running" /\ awsTodo # <<>>
           /\ \/ AwsGivesUp
              \/ AwsGoesOn /\ (AwsRecorded \/ AwsDescribing)
<1>1. AwsGivesUp \/ (AwsGoesOn /\ (AwsRecorded \/ AwsDescribing))
  BY AwsFamilyCalls, AwsInfrastructureCalls DEF CallAws
<1>2. awsScan = "running" /\ awsTodo # <<>>
  BY DEF CallAws, GetCallerIdentity, DescribeCluster, ListFamily, DescribeOne,
         DescribeAutoScalingGroups, DescribeInstances, DescribeVpcs, DescribeSubnets,
         DescribeRouteTables, DescribeSecurityGroups, DescribeScalingActivities, AwsRunning
<1>3. Head(awsTodo).op \in AwsOps /\ Head(awsTodo).op \in AwsAhead(awsTodo)
  BY <1>2, AwsTailIsOrdered
<1>4. CASE AwsGivesUp
  BY <1>1, <1>2, <1>4 DEF AwsGivesUp
<1>5. CASE AwsGoesOn /\ AwsRecorded
  <2>1. AwsTold(coverage', awsTodo')
    BY <1>3, <1>5, AwsRecordedOnce
  <2>2. PICK c : c.area # "kubernetes" /\ coverage' = coverage \cup {c}
    BY <1>3, <1>5, AwsOpKeys DEF AwsRecorded
  <2>3. \A r : Told(coverage \cup {c}, "kubernetes", r) = Told(coverage, "kubernetes", r)
    <3>1. c.area # "kubernetes"
      BY <2>2
    <3> QED
      BY <3>1 DEF Told
  <2> QED
    BY <1>1, <1>2, <1>5, <2>1, <2>2, <2>3 DEF AwsGoesOn
<1>6. CASE AwsGoesOn /\ AwsDescribing
  BY <1>1, <1>2, <1>6 DEF AwsGoesOn, AwsDescribing, AwsTold, ToldOnce
<1> QED
  BY <1>1, <1>4, <1>5, <1>6

LEMMA AwsProgramIsOrdered ==
    /\ AwsOrdered(AwsProgram) /\ AwsAhead(AwsProgram) = AwsOps
    /\ \A op \in AwsOps : Request(op) \in ToSet(AwsProgram)
<1> DEFINE ops == <<"GetCallerIdentity", "DescribeCluster", "Addons", "Nodegroups",
                    "DescribeAutoScalingGroups", "DescribeInstances", "DescribeVpcs",
                    "DescribeSubnets", "DescribeRouteTables", "DescribeSecurityGroups",
                    "DescribeScalingActivities", "Insights", "AccessEntries",
                    "PodIdentityAssociations">>
<1>1. DOMAIN ops = 1..14
  OBVIOUS
<1>2. \A i \in 1..14 : ops[i] \in AwsOps /\ AwsRank[ops[i]] = i
  BY DEF AwsRank, AwsOps
<1>3. \A op \in AwsOps : \E i \in 1..14 : op = ops[i]
  BY DEF AwsRank, AwsOps
<1>4. AwsProgram = [i \in 1..14 |-> Request(ops[i])]
  BY <1>1 DEF AwsProgram
<1> HIDE DEF ops
<1>5. DOMAIN AwsProgram = 1..14 /\ \A i \in 1..14 : AwsProgram[i] = Request(ops[i])
  BY <1>4
<1>6. AwsProgram \in Seq(ToSet(AwsProgram))
  <2>1. \A i \in 1..14 : AwsProgram[i] \in ToSet(AwsProgram)
    BY <1>5 DEF ToSet
  <2>2. AwsProgram \in [1..14 -> ToSet(AwsProgram)]
    BY <1>4, <2>1
  <2>3. \A S : \A n \in Nat : \A f \in [1..n -> S] : f \in Seq(S)
    OBVIOUS
  <2> QED
    BY <2>2, <2>3
<1>7. \A i \in 1..14 : AwsProgram[i].op = ops[i]
  <2>1. \A op : Request(op).op = op
    BY DEF Request
  <2> QED
    BY <1>5, <2>1
<1>8. AwsOrdered(AwsProgram)
  <2>1. \A i, j \in 1..14 : i < j => AwsRank[AwsProgram[i].op] < AwsRank[AwsProgram[j].op]
    BY <1>2, <1>7
  <2> QED
    BY <1>2, <1>5, <1>6, <1>7, <2>1 DEF AwsOrdered, IsASeq
<1>9. \A op \in AwsOps : Request(op) \in ToSet(AwsProgram)
  BY <1>3, <1>5 DEF ToSet
<1>10. AwsAhead(AwsProgram) = AwsOps
  BY <1>2, <1>3, <1>5, <1>7 DEF AwsAhead, ToSet
<1> QED
  BY <1>8, <1>9, <1>10

LEMMA NothingToldByAws == AwsTold({}, AwsProgram)
BY AwsProgramIsOrdered DEF AwsTold, Told

(***************************************************************************)
(* The calls of the Kubernetes collector.                                  *)
(***************************************************************************)
InstanceList == "CustomResourceInstances"
DefinitionList == "CustomResourceDefinitions"

\* The totals of groups of lists have items of their own.
Totals == {"Workloads", "GatewayRoutes", "GatewayPolicies"}

\* A call names its list.
IsCall(c) == "resource" \in DOMAIN c

\* No list is asked for twice, but for the instances, of one definition after
\* the other, which are the next calls.
KubernetesOrdered(t) ==
    /\ IsASeq(t) /\ \A c \in ToSet(t) : IsCall(c)
    /\ \A i, j \in DOMAIN t : i < j =>
            /\ t[i].resource # t[j].resource \/ t[i].resource = InstanceList
            /\ t[j].resource = InstanceList => t[i].resource = InstanceList

KubernetesAhead(t) == {c.resource : c \in ToSet(t)}
ProgramResources == KubernetesAhead(Program)

Once(t) == IsASeq(t) /\ \A i, j \in DOMAIN t : i < j => t[i] # t[j]

LEMMA OnceInBoth ==
    ASSUME NEW a, NEW b, Once(a), Once(b), ToSet(a) \cap ToSet(b) = {}
    PROVE  Once(a \o b) /\ ToSet(a \o b) = ToSet(a) \cup ToSet(b)
<1> DEFINE t == a \o b
<1>1. IsASeq(a) /\ IsASeq(b)
  BY DEF Once
<1>2. /\ IsASeq(t) /\ ToSet(t) = ToSet(a) \cup ToSet(b)
      /\ DOMAIN t = 1..(Len(a) + Len(b)) /\ Len(a) \in Nat /\ Len(b) \in Nat
      /\ \A i \in DOMAIN t :
            \/ i \in DOMAIN a /\ i <= Len(a) /\ t[i] = a[i]
            \/ i > Len(a) /\ i - Len(a) \in DOMAIN b /\ t[i] = b[i - Len(a)]
  BY <1>1, ConcatOf
<1> HIDE DEF t
<1>3. /\ \A i \in DOMAIN a : a[i] \in ToSet(a)
      /\ \A i \in DOMAIN b : b[i] \in ToSet(b)
  BY DEF ToSet
<1>4. ASSUME NEW i \in DOMAIN t, NEW j \in DOMAIN t, i < j PROVE t[i] # t[j]
  <2>1. i \in Nat /\ j \in Nat
    BY <1>2
  <2>2. CASE j <= Len(a)
    <3>1. /\ i \in DOMAIN a /\ t[i] = a[i]
          /\ j \in DOMAIN a /\ t[j] = a[j]
      BY <1>2, <1>4, <2>1, <2>2
    <3> QED
      BY <1>4, <3>1 DEF Once
  <2>3. CASE i <= Len(a) /\ j > Len(a)
    <3>1. t[i] \in ToSet(a) /\ t[j] \in ToSet(b)
      BY <1>2, <1>3, <2>1, <2>3
    <3> QED
      BY <3>1
  <2>4. CASE i > Len(a)
    <3>1. /\ i - Len(a) \in DOMAIN b /\ t[i] = b[i - Len(a)]
          /\ j - Len(a) \in DOMAIN b /\ t[j] = b[j - Len(a)]
          /\ i - Len(a) < j - Len(a)
      BY <1>2, <1>4, <2>1, <2>4
    <3> QED
      BY <3>1 DEF Once
  <2> QED
    BY <1>2, <2>1, <2>2, <2>3, <2>4
<1>5. Once(t)
  BY <1>2, <1>4 DEF Once
<1> QED
  BY <1>2, <1>5 DEF t

LEMMA CallsAreOnce ==
    /\ Once(CoreCalls) /\ Once(ExtensionCalls) /\ Once(WorkloadCalls) /\ Once(StorageCalls)
    /\ Once(RuntimeCalls) /\ Once(RBACCalls) /\ Once(PolicyCalls) /\ Once(AdmissionCalls)
    /\ Once(RouteCalls) /\ Once(PolicyTypeCalls)
<1>1. Once(CoreCalls)
  BY DEF Once, IsASeq, ToSet, CoreCalls
<1>2. Once(ExtensionCalls)
  BY DEF Once, IsASeq, ToSet, ExtensionCalls
<1>3. Once(WorkloadCalls)
  BY DEF Once, IsASeq, ToSet, WorkloadCalls
<1>4. Once(StorageCalls)
  BY DEF Once, IsASeq, ToSet, StorageCalls
<1>5. Once(RuntimeCalls)
  BY DEF Once, IsASeq, ToSet, RuntimeCalls
<1>6. Once(RBACCalls)
  BY DEF Once, IsASeq, ToSet, RBACCalls
<1>7. Once(PolicyCalls)
  BY DEF Once, IsASeq, ToSet, PolicyCalls
<1>8. Once(AdmissionCalls)
  BY DEF Once, IsASeq, ToSet, AdmissionCalls
<1>9. Once(RouteCalls)
  BY DEF Once, IsASeq, ToSet, RouteCalls
<1>10. Once(PolicyTypeCalls)
  BY DEF Once, IsASeq, ToSet, PolicyTypeCalls
<1> QED
  BY <1>1, <1>2, <1>3, <1>4, <1>5, <1>6, <1>7, <1>8, <1>9, <1>10

LEMMA NetworkingIsOnce == Once(NetworkingCalls)
<1> DEFINE first == <<"EndpointSlices", "IngressClasses", "Ingresses">>
           classes == <<"GatewayClasses", "Gateways">>
           grants == <<"ReferenceGrants">>
<1>1. /\ ToSet(first) = {"EndpointSlices", "IngressClasses", "Ingresses"}
      /\ ToSet(classes) = {"GatewayClasses", "Gateways"}
      /\ ToSet(grants) = {"ReferenceGrants"}
  BY DEF ToSet
<1>2. Once(first)
  BY DEF Once, IsASeq, ToSet
<1>3. Once(classes)
  BY DEF Once, IsASeq, ToSet
<1>4. Once(grants)
  BY DEF Once, IsASeq, ToSet
<1>5. /\ NetworkingCalls = first \o GatewayCalls
      /\ GatewayCalls = ((classes \o RouteCalls) \o grants) \o PolicyTypeCalls
  BY DEF NetworkingCalls, GatewayCalls
<1> HIDE DEF first, classes, grants
<1>6. Once(first) /\ Once(classes) /\ Once(grants)
  BY <1>2, <1>3, <1>4
<1>7. Once(classes \o RouteCalls)
      /\ ToSet(classes \o RouteCalls) = ToSet(classes) \cup ToSet(RouteCalls)
  BY <1>1, <1>6, CallsAreOnce, CallSets, OnceInBoth
<1>8. Once((classes \o RouteCalls) \o grants)
      /\ ToSet((classes \o RouteCalls) \o grants)
            = ToSet(classes) \cup ToSet(RouteCalls) \cup ToSet(grants)
  BY <1>1, <1>6, <1>7, CallSets, OnceInBoth
<1>9. Once(GatewayCalls)
      /\ ToSet(GatewayCalls) = ToSet(classes) \cup ToSet(RouteCalls) \cup ToSet(grants)
                                 \cup ToSet(PolicyTypeCalls)
  BY <1>1, <1>5, <1>8, CallsAreOnce, CallSets, OnceInBoth
<1> QED
  BY <1>1, <1>5, <1>6, <1>9, CallSets, OnceInBoth
\* Volumes are read before claims.
VolumesFirst(names) ==
    \A i, j \in DOMAIN names :
        names[i] = "PersistentVolumes" /\ names[j] = "PersistentVolumeClaims" => i < j

LEMMA VolumesStayFirst ==
    ASSUME NEW a, NEW b, IsASeq(a), IsASeq(b), VolumesFirst(a), VolumesFirst(b),
           \/ ToSet(a) \cap {"PersistentVolumes", "PersistentVolumeClaims"} = {}
           \/ ToSet(b) \cap {"PersistentVolumes", "PersistentVolumeClaims"} = {}
    PROVE  VolumesFirst(a \o b)
<1> DEFINE t == a \o b
<1>1. /\ DOMAIN t = 1..(Len(a) + Len(b)) /\ Len(a) \in Nat /\ Len(b) \in Nat
      /\ \A i \in DOMAIN t : \/ i \in DOMAIN a /\ i <= Len(a) /\ t[i] = a[i]
                             \/ /\ i > Len(a) /\ i - Len(a) \in DOMAIN b
                                /\ t[i] = b[i - Len(a)]
  BY ConcatOf
<1> HIDE DEF t
<1>2. SUFFICES ASSUME NEW i \in DOMAIN t, NEW j \in DOMAIN t,
                      t[i] = "PersistentVolumes", t[j] = "PersistentVolumeClaims"
               PROVE  i < j
  BY DEF VolumesFirst, t
<1>3. i \in Nat /\ j \in Nat
  BY <1>1
<1>4. \A k \in DOMAIN a : a[k] \in ToSet(a)
  BY DEF ToSet
<1>5. \A k \in DOMAIN b : b[k] \in ToSet(b)
  BY DEF ToSet
<1>6. CASE i \in DOMAIN a /\ i <= Len(a) /\ t[i] = a[i]
  <2>1. CASE j \in DOMAIN a /\ t[j] = a[j]
    BY <1>2, <1>6, <2>1 DEF VolumesFirst
  <2> QED
    BY <1>1, <1>2, <1>3, <1>6, <2>1
<1>7. CASE i > Len(a) /\ i - Len(a) \in DOMAIN b /\ t[i] = b[i - Len(a)]
  <2>1. CASE j > Len(a) /\ j - Len(a) \in DOMAIN b /\ t[j] = b[j - Len(a)]
    <3>1. i - Len(a) < j - Len(a)
      BY <1>2, <1>7, <2>1 DEF VolumesFirst
    <3> QED
      BY <1>1, <1>3, <3>1
  <2>2. CASE j \in DOMAIN a /\ t[j] = a[j]
    BY <1>2, <1>4, <1>5, <1>7, <2>2
  <2> QED
    BY <1>1, <1>2, <2>1, <2>2
<1> QED
  BY <1>1, <1>2, <1>6, <1>7

LEMMA ProgramIsOrdered ==
    /\ KubernetesOrdered(Program)
    /\ DefinitionList \in ProgramResources
    /\ ProgramResources \cap (Totals \cup {InstanceList}) = {}
    /\ ListCalls \cup {"APIResources", "GatewayClasses"} \subseteq ProgramResources
    /\ \E names : /\ DOMAIN Program = DOMAIN names /\ VolumesFirst(names)
                  /\ \A i \in DOMAIN Program : Program[i] = Call(names[i])
<1> DEFINE server == <<"ServerVersion", "APIResources">>
           core == server \o CoreCalls
           extended == core \o ExtensionCalls
           working == extended \o WorkloadCalls
           networking == working \o NetworkingCalls
           storing == networking \o StorageCalls
           running == storing \o RuntimeCalls
           allowing == running \o RBACCalls
           limiting == allowing \o PolicyCalls
           names == limiting \o AdmissionCalls
<1>1. ToSet(server) = {"ServerVersion", "APIResources"} /\ Once(server)
  <2>1. ToSet(server) = {"ServerVersion", "APIResources"}
    BY DEF ToSet
  <2>2. Once(server)
    BY DEF Once, IsASeq, ToSet
  <2> QED
    BY <2>1, <2>2
<1>20. /\ core = server \o CoreCalls /\ extended = core \o ExtensionCalls
       /\ working = extended \o WorkloadCalls /\ networking = working \o NetworkingCalls
       /\ storing = networking \o StorageCalls /\ running = storing \o RuntimeCalls
       /\ allowing = running \o RBACCalls /\ limiting = allowing \o PolicyCalls
       /\ names = limiting \o AdmissionCalls
  OBVIOUS
<1>2. Program = [i \in DOMAIN names |-> Call(names[i])]
  BY DEF Program
<1> HIDE DEF server
<1>3. Once(core) /\ ToSet(core) = ToSet(server) \cup ToSet(CoreCalls)
  BY <1>1, CallsAreOnce, CallSets, OnceInBoth
<1> HIDE DEF core
<1>4. Once(extended) /\ ToSet(extended) = ToSet(core) \cup ToSet(ExtensionCalls)
  BY <1>1, <1>3, CallsAreOnce, CallSets, OnceInBoth
<1> HIDE DEF extended
<1>5. Once(working) /\ ToSet(working) = ToSet(extended) \cup ToSet(WorkloadCalls)
  BY <1>1, <1>3, <1>4, CallsAreOnce, CallSets, OnceInBoth
<1> HIDE DEF working
<1>6. Once(networking) /\ ToSet(networking) = ToSet(working) \cup ToSet(NetworkingCalls)
  <2>1. ToSet(working) = {"ServerVersion", "APIResources"} \cup ToSet(CoreCalls)
                            \cup ToSet(ExtensionCalls) \cup ToSet(WorkloadCalls)
    BY <1>1, <1>3, <1>4, <1>5
  <2>2. ToSet(working) \cap ToSet(NetworkingCalls) = {}
    BY <2>1, CallSets, NetworkingCallSet
  <2> QED
    BY <1>5, <2>2, NetworkingIsOnce, OnceInBoth
<1> HIDE DEF networking
<1>7. ToSet(networking) = {"ServerVersion", "APIResources"} \cup ToSet(CoreCalls)
            \cup ToSet(ExtensionCalls) \cup ToSet(WorkloadCalls) \cup ToSet(NetworkingCalls)
  BY <1>1, <1>3, <1>4, <1>5, <1>6
<1>8. Once(storing) /\ ToSet(storing) = ToSet(networking) \cup ToSet(StorageCalls)
  <2>1. ToSet(networking) \cap ToSet(StorageCalls) = {}
    BY <1>7, CallSets, NetworkingCallSet
  <2> QED
    BY <1>6, <2>1, CallsAreOnce, OnceInBoth
<1> HIDE DEF storing
<1>9. Once(running) /\ ToSet(running) = ToSet(storing) \cup ToSet(RuntimeCalls)
  <2>1. ToSet(storing) \cap ToSet(RuntimeCalls) = {}
    BY <1>7, <1>8, CallSets, NetworkingCallSet
  <2> QED
    BY <1>8, <2>1, CallsAreOnce, OnceInBoth
<1> HIDE DEF running
<1>10. Once(allowing) /\ ToSet(allowing) = ToSet(running) \cup ToSet(RBACCalls)
  <2>1. ToSet(running) \cap ToSet(RBACCalls) = {}
    BY <1>7, <1>8, <1>9, CallSets, NetworkingCallSet
  <2> QED
    BY <1>9, <2>1, CallsAreOnce, OnceInBoth
<1> HIDE DEF allowing
<1>11. Once(limiting) /\ ToSet(limiting) = ToSet(allowing) \cup ToSet(PolicyCalls)
  <2>1. ToSet(allowing) \cap ToSet(PolicyCalls) = {}
    BY <1>7, <1>8, <1>9, <1>10, CallSets, NetworkingCallSet
  <2> QED
    BY <1>10, <2>1, CallsAreOnce, OnceInBoth
<1> HIDE DEF limiting
<1>12. Once(names) /\ ToSet(names) = ToSet(limiting) \cup ToSet(AdmissionCalls)
  <2>1. ToSet(limiting) \cap ToSet(AdmissionCalls) = {}
    BY <1>7, <1>8, <1>9, <1>10, <1>11, CallSets, NetworkingCallSet
  <2> QED
    BY <1>11, <2>1, CallsAreOnce, OnceInBoth
<1> HIDE DEF names
<1>13. ToSet(names) \cap (Totals \cup {InstanceList}) = {} /\ DefinitionList \in ToSet(names)
  BY <1>7, <1>8, <1>9, <1>10, <1>11, <1>12, CallSets, NetworkingCallSet
     DEF Totals, InstanceList, DefinitionList
<1>14. /\ DOMAIN Program = DOMAIN names
       /\ \A i \in DOMAIN Program : Program[i].resource = names[i]
  BY <1>2 DEF Call
<1>15. IsASeq(Program) /\ \A i, j \in DOMAIN Program : i < j => names[i] # names[j]
  <2>1. PICK n \in Nat : DOMAIN names = 1..n
    BY <1>12 DEF Once, IsASeq
  <2>2. Program \in [1..n -> ToSet(Program)]
    <3>1. \A i \in 1..n : Program[i] \in ToSet(Program)
      BY <1>14, <2>1 DEF ToSet
    <3> QED
      BY <1>2, <2>1, <3>1
  <2> QED
    BY <1>12, <1>14, <2>1, <2>2 DEF Once, IsASeq
<1>16. ProgramResources = ToSet(names)
  BY <1>14 DEF ProgramResources, KubernetesAhead, ToSet
<1>17. \A j \in DOMAIN Program : Program[j].resource # InstanceList
  BY <1>13, <1>14 DEF ToSet
<1>19. \A c \in ToSet(Program) : IsCall(c)
  <2>1. \A name : IsCall(Call(name))
    BY DEF IsCall, Call
  <2>2. \A i \in DOMAIN Program : Program[i] = Call(names[i])
    BY <1>2
  <2> QED
    BY <2>1, <2>2 DEF ToSet
<1>18. KubernetesOrdered(Program)
  BY <1>14, <1>15, <1>17, <1>19 DEF KubernetesOrdered
<1>21. /\ ToSet(names) = {"ServerVersion", "APIResources"} \cup ToSet(CoreCalls)
            \cup ToSet(ExtensionCalls) \cup ToSet(WorkloadCalls) \cup ToSet(NetworkingCalls)
            \cup ToSet(StorageCalls) \cup ToSet(RuntimeCalls) \cup ToSet(RBACCalls)
            \cup ToSet(PolicyCalls) \cup ToSet(AdmissionCalls)
  BY <1>7, <1>8, <1>9, <1>10, <1>11, <1>12
<1>22. ListCalls \cup {"APIResources", "GatewayClasses"} \subseteq ToSet(names)
  BY <1>21, NetworkingCallSet DEF ListCalls
<1>23. VolumesFirst(names)
  <2> DEFINE volumes == {"PersistentVolumes", "PersistentVolumeClaims"}
  <2>1. \A a : ToSet(a) \cap volumes = {} => VolumesFirst(a)
    BY DEF VolumesFirst, ToSet
  <2>2. ToSet(networking) \cap volumes = {}
    BY <1>7, CallSets, NetworkingCallSet
  <2>3. VolumesFirst(networking)
    BY <2>1, <2>2
  <2>4. VolumesFirst(StorageCalls)
    BY DEF VolumesFirst, StorageCalls
  <2>5. \A calls \in {RuntimeCalls, RBACCalls, PolicyCalls, AdmissionCalls} :
            ToSet(calls) \cap volumes = {} /\ VolumesFirst(calls) /\ IsASeq(calls)
    BY <2>1, CallSets, CallsAreOnce DEF Once
  <2>6. VolumesFirst(storing)
    BY <1>6, <1>20, <2>2, <2>3, <2>4, CallsAreOnce, VolumesStayFirst DEF Once
  <2>7. VolumesFirst(running)
    BY <1>8, <1>20, <2>5, <2>6, VolumesStayFirst DEF Once
  <2>8. VolumesFirst(allowing)
    BY <1>9, <1>20, <2>5, <2>7, VolumesStayFirst DEF Once
  <2>9. VolumesFirst(limiting)
    BY <1>10, <1>20, <2>5, <2>8, VolumesStayFirst DEF Once
  <2> QED
    BY <1>11, <1>20, <2>5, <2>9, VolumesStayFirst DEF Once
<1> QED
  BY <1>2, <1>13, <1>14, <1>16, <1>18, <1>22, <1>23

ListsTold(told, t) ==
    \A r \in ProgramResources :
        IF r \in KubernetesAhead(t) THEN Told(told, "kubernetes", r) = {}
        ELSE ToldOnce(told, "kubernetes", r)

\* The instances follow their definitions, unless these could not be listed.
InstancesTold(told, t) ==
    IF DefinitionList \in KubernetesAhead(t) \/ InstanceList \in KubernetesAhead(t)
    THEN /\ Told(told, "kubernetes", InstanceList) = {}
         /\ DefinitionList \notin KubernetesAhead(t) \/ InstanceList \notin KubernetesAhead(t)
    ELSE \/ ToldOnce(told, "kubernetes", InstanceList)
         \/ /\ Told(told, "kubernetes", InstanceList) = {}
            /\ \E c \in Told(told, "kubernetes", DefinitionList) : c.status # "complete"

KubernetesTold(told, t) == ListsTold(told, t) /\ InstancesTold(told, t)

LEMMA KubernetesTail ==
    ASSUME NEW t, KubernetesOrdered(t), t # <<>>
    PROVE  /\ KubernetesOrdered(Tail(t)) /\ IsCall(Head(t))
           /\ ToSet(t) = {Head(t)} \cup ToSet(Tail(t))
           /\ KubernetesAhead(t) = {Head(t).resource} \cup KubernetesAhead(Tail(t))
           /\ Head(t).resource # InstanceList =>
                /\ Head(t).resource \notin KubernetesAhead(Tail(t))
                /\ InstanceList \notin KubernetesAhead(t)
<1>1. IsASeq(t)
  BY DEF KubernetesOrdered
<1>2. /\ IsASeq(Tail(t))
      /\ Len(t) \in Nat /\ Len(t) > 0 /\ DOMAIN t = 1..Len(t)
      /\ DOMAIN Tail(t) = 1..(Len(t) - 1)
      /\ \A i \in DOMAIN Tail(t) : i + 1 \in DOMAIN t /\ Tail(t)[i] = t[i + 1]
      /\ Head(t) = t[1] /\ 1 \in DOMAIN t
      /\ ToSet(t) = {Head(t)} \cup ToSet(Tail(t))
  BY <1>1, TailOf
<1>3. ASSUME NEW i \in DOMAIN Tail(t), NEW j \in DOMAIN Tail(t), i < j
      PROVE  /\ Tail(t)[i].resource # Tail(t)[j].resource \/ Tail(t)[i].resource = InstanceList
             /\ Tail(t)[j].resource = InstanceList => Tail(t)[i].resource = InstanceList
  <2>1. i + 1 < j + 1
    BY <1>2, <1>3
  <2>2. /\ t[i + 1].resource # t[j + 1].resource \/ t[i + 1].resource = InstanceList
        /\ t[j + 1].resource = InstanceList => t[i + 1].resource = InstanceList
    BY <1>2, <2>1 DEF KubernetesOrdered
  <2> QED
    BY <1>2, <2>2
<1>4. KubernetesOrdered(Tail(t)) /\ IsCall(Head(t))
  BY <1>2, <1>3 DEF KubernetesOrdered
<1>5. KubernetesAhead(t) = {Head(t).resource} \cup KubernetesAhead(Tail(t))
  BY <1>2 DEF KubernetesAhead
<1>6. ASSUME Head(t).resource # InstanceList, NEW c \in ToSet(Tail(t))
      PROVE  c.resource # Head(t).resource /\ c.resource # InstanceList
  <2>1. PICK i \in DOMAIN Tail(t) : c = Tail(t)[i]
    BY DEF ToSet
  <2>2. i + 1 \in DOMAIN t /\ c = t[i + 1] /\ 1 < i + 1
    BY <1>2, <2>1
  <2>3. /\ t[1].resource # t[i + 1].resource \/ t[1].resource = InstanceList
        /\ t[i + 1].resource = InstanceList => t[1].resource = InstanceList
    BY <1>2, <2>2 DEF KubernetesOrdered
  <2> QED
    BY <1>2, <1>6, <2>2, <2>3
<1>7. Head(t).resource # InstanceList =>
                /\ Head(t).resource \notin KubernetesAhead(Tail(t))
                /\ InstanceList \notin KubernetesAhead(t)
  BY <1>5, <1>6 DEF KubernetesAhead
<1> QED
  BY <1>2, <1>4, <1>5, <1>7

\* The item of a list, beside which others may be recorded.
LEMMA ListTold ==
    ASSUME NEW told, NEW t, ListsTold(told, t), NEW resource, resource # InstanceList,
           resource \in KubernetesAhead(t),
           NEW item, item.area = "kubernetes", item.resource = resource,
           NEW extra, \A c \in extra : c.resource \in Totals \cup {InstanceList},
           NEW rest, KubernetesAhead(rest) \ {InstanceList} = KubernetesAhead(t) \ {resource, InstanceList}
    PROVE  ListsTold(told \cup {item} \cup extra, rest)
<1> DEFINE more == told \cup {item} \cup extra
<1> SUFFICES ASSUME NEW r \in ProgramResources
             PROVE  IF r \in KubernetesAhead(rest) THEN Told(more, "kubernetes", r) = {}
                    ELSE ToldOnce(more, "kubernetes", r)
  BY DEF ListsTold
<1>1. r \notin Totals \cup {InstanceList}
  BY ProgramIsOrdered
<1>2. Told(more, "kubernetes", r) =
            IF r = item.resource THEN Told(told, "kubernetes", r) \cup {item}
            ELSE Told(told, "kubernetes", r)
  BY <1>1 DEF Told
<1>3. told \subseteq more /\ item \in more
  OBVIOUS
<1> HIDE DEF more
<1>4. CASE r = resource
  <2>1. r \notin KubernetesAhead(rest)
    BY <1>1, <1>4
  <2>2. Told(told, "kubernetes", r) = {}
    BY <1>4 DEF ListsTold
  <2> QED
    BY <1>2, <1>3, <1>4, <2>1, <2>2 DEF ToldOnce
<1>5. CASE r # resource
  <2>1. r \in KubernetesAhead(rest) <=> r \in KubernetesAhead(t)
    BY <1>1, <1>5
  <2> QED
    BY <1>2, <1>3, <1>5, <2>1 DEF ListsTold, ToldOnce
<1> QED
  BY <1>4, <1>5

\* A list that is neither the definitions' nor the instances'.
LEMMA PlainListTold ==
    ASSUME NEW told, NEW t, KubernetesOrdered(t), KubernetesTold(told, t), t # <<>>,
           Head(t).resource \notin {DefinitionList, InstanceList},
           NEW item, item.area = "kubernetes", item.resource = Head(t).resource,
           NEW extra, \A c \in extra : c.resource \in Totals
    PROVE  KubernetesTold(told \cup {item} \cup extra, Tail(t))
<1> DEFINE more == told \cup {item} \cup extra
           resource == Head(t).resource
<1>1. /\ KubernetesAhead(t) = {resource} \cup KubernetesAhead(Tail(t))
      /\ resource \notin KubernetesAhead(Tail(t))
      /\ InstanceList \notin KubernetesAhead(t)
  BY KubernetesTail
<1>2. ListsTold(more, Tail(t))
  <2>1. /\ resource # InstanceList /\ resource \in KubernetesAhead(t)
        /\ KubernetesAhead(Tail(t)) \ {InstanceList} = KubernetesAhead(t) \ {resource, InstanceList}
    BY <1>1
  <2>2. ListsTold(told, t) /\ \A c \in extra : c.resource \in Totals \cup {InstanceList}
    BY DEF KubernetesTold
  <2> HIDE DEF resource
  <2>3. item.resource = resource
    BY DEF resource
  <2> QED
    BY <2>1, <2>2, <2>3, ListTold
<1>3. /\ Told(more, "kubernetes", InstanceList) = Told(told, "kubernetes", InstanceList)
      /\ Told(more, "kubernetes", DefinitionList) = Told(told, "kubernetes", DefinitionList)
  <2>1. InstanceList \notin Totals /\ DefinitionList \notin Totals
    BY DEF Totals, InstanceList, DefinitionList
  <2> QED
    BY <2>1 DEF Told
<1>4. DefinitionList \in KubernetesAhead(Tail(t)) <=> DefinitionList \in KubernetesAhead(t)
  BY <1>1
<1>5. told \subseteq more
  OBVIOUS
<1> HIDE DEF more, resource
<1>6. InstancesTold(more, Tail(t))
  BY <1>1, <1>3, <1>4, <1>5 DEF KubernetesTold, InstancesTold, ToldOnce
<1> QED
  BY <1>2, <1>6 DEF KubernetesTold, more

\* The definitions, after which their instances are asked for, if there are any.
LEMMA DefinitionsTold ==
    ASSUME NEW told, NEW t, KubernetesOrdered(t), KubernetesTold(told, t), t # <<>>,
           Head(t).resource = DefinitionList,
           NEW item, item.area = "kubernetes", item.resource = DefinitionList,
           NEW extra, NEW rest,
           KubernetesAhead(rest) \ {InstanceList} = KubernetesAhead(Tail(t)),
           \/ extra = {} /\ InstanceList \in KubernetesAhead(rest)
           \/ extra = {} /\ item.status # "complete" /\ InstanceList \notin KubernetesAhead(rest)
           \/ /\ \E c : c.area = "kubernetes" /\ c.resource = InstanceList /\ extra = {c}
              /\ InstanceList \notin KubernetesAhead(rest)
    PROVE  KubernetesTold(told \cup {item} \cup extra, rest)
<1> DEFINE more == told \cup {item} \cup extra
<1>0. DefinitionList # InstanceList
  BY DEF InstanceList, DefinitionList
<1>1. /\ KubernetesAhead(t) = {DefinitionList} \cup KubernetesAhead(Tail(t))
      /\ DefinitionList \notin KubernetesAhead(Tail(t))
      /\ InstanceList \notin KubernetesAhead(t)
  BY <1>0, KubernetesTail
<1>2. ListsTold(more, rest)
  <2>1. /\ DefinitionList \in KubernetesAhead(t)
        /\ KubernetesAhead(rest) \ {InstanceList} = KubernetesAhead(t) \ {DefinitionList, InstanceList}
    BY <1>1
  <2>2. ListsTold(told, t) /\ \A c \in extra : c.resource \in Totals \cup {InstanceList}
    BY DEF KubernetesTold
  <2> QED
    BY <1>0, <2>1, <2>2, ListTold
<1>3. Told(told, "kubernetes", InstanceList) = {}
  BY <1>1 DEF KubernetesTold, InstancesTold
<1>4. DefinitionList \notin KubernetesAhead(rest)
  BY <1>0, <1>1
<1>5. told \subseteq more /\ item \in more /\ extra \subseteq more
  OBVIOUS
<1>6. CASE extra = {}
  <2>1. Told(more, "kubernetes", InstanceList) = Told(told, "kubernetes", InstanceList)
    BY <1>0, <1>6 DEF Told
  <2>2. item \in Told(more, "kubernetes", DefinitionList)
    BY <1>5 DEF Told
  <2> HIDE DEF more
  <2> QED
    BY <1>2, <1>3, <1>4, <1>6, <2>1, <2>2 DEF KubernetesTold, InstancesTold, more
<1>7. ASSUME NEW c, c.area = "kubernetes", c.resource = InstanceList, extra = {c},
             InstanceList \notin KubernetesAhead(rest)
      PROVE  InstancesTold(more, rest)
  <2>1. Told(more, "kubernetes", InstanceList) = {c}
    BY <1>0, <1>3, <1>7 DEF Told
  <2>2. c \in more
    BY <1>7
  <2> HIDE DEF more
  <2> QED
    BY <1>4, <1>7, <2>1, <2>2 DEF InstancesTold, ToldOnce
<1> QED
  BY <1>2, <1>6, <1>7 DEF KubernetesTold

\* The instances of one definition; the last of them have the item of all.
LEMMA InstancesToldNext ==
    ASSUME NEW told, NEW t, KubernetesOrdered(t), KubernetesTold(told, t), t # <<>>,
           Head(t).resource = InstanceList,
           NEW extra,
           IF InstanceList \in KubernetesAhead(Tail(t)) THEN extra = {}
           ELSE \E c : c.area = "kubernetes" /\ c.resource = InstanceList /\ extra = {c}
    PROVE  KubernetesTold(told \cup extra, Tail(t))
<1> DEFINE more == told \cup extra
<1>0. DefinitionList # InstanceList
  BY DEF InstanceList, DefinitionList
<1>1. KubernetesAhead(t) = {InstanceList} \cup KubernetesAhead(Tail(t))
  BY KubernetesTail
<1>2. /\ Told(told, "kubernetes", InstanceList) = {}
      /\ DefinitionList \notin KubernetesAhead(Tail(t))
  BY <1>1 DEF KubernetesTold, InstancesTold
<1>3. ListsTold(more, Tail(t))
  <2> SUFFICES ASSUME NEW r \in ProgramResources
               PROVE  IF r \in KubernetesAhead(Tail(t)) THEN Told(more, "kubernetes", r) = {}
                      ELSE ToldOnce(more, "kubernetes", r)
    BY DEF ListsTold
  <2>1. r # InstanceList
    BY ProgramIsOrdered
  <2>2. Told(more, "kubernetes", r) = Told(told, "kubernetes", r)
    BY <2>1 DEF Told
  <2>3. told \subseteq more
    OBVIOUS
  <2> HIDE DEF more
  <2> QED
    BY <1>1, <2>1, <2>2, <2>3 DEF KubernetesTold, ListsTold, ToldOnce
<1>4. CASE InstanceList \in KubernetesAhead(Tail(t))
  <2>1. more = told
    BY <1>4
  <2> HIDE DEF more
  <2> QED
    BY <1>2, <1>3, <1>4, <2>1 DEF KubernetesTold, InstancesTold, more
<1>5. CASE InstanceList \notin KubernetesAhead(Tail(t))
  <2>1. PICK c : c.area = "kubernetes" /\ c.resource = InstanceList /\ extra = {c}
    BY <1>5
  <2>2. Told(more, "kubernetes", InstanceList) = {c} /\ c \in more
    BY <1>2, <2>1 DEF Told
  <2> HIDE DEF more
  <2> QED
    BY <1>2, <1>3, <1>5, <2>2 DEF KubernetesTold, InstancesTold, ToldOnce, more
<1> QED
  BY <1>4, <1>5

\* A call that is replaced by another one for the same list.
LEMMA SameListAgain ==
    ASSUME NEW t, KubernetesOrdered(t), t # <<>>, Head(t).resource # InstanceList,
           NEW next, IsCall(next), next.resource = Head(t).resource
    PROVE  LET rest == <<next>> \o Tail(t)
           IN  KubernetesOrdered(rest) /\ KubernetesAhead(rest) = KubernetesAhead(t)
               /\ rest # <<>>
<1> DEFINE rest == <<next>> \o Tail(t)
           one == <<next>>
<1>1. /\ KubernetesOrdered(Tail(t))
      /\ KubernetesAhead(t) = {Head(t).resource} \cup KubernetesAhead(Tail(t))
      /\ Head(t).resource \notin KubernetesAhead(Tail(t))
      /\ InstanceList \notin KubernetesAhead(t)
  BY KubernetesTail
<1>2. /\ IsASeq(one) /\ ToSet(one) = {next} /\ DOMAIN one = {1} /\ one[1] = next /\ Len(one) = 1
  BY DEF IsASeq, ToSet
<1>3. IsASeq(Tail(t))
  BY <1>1 DEF KubernetesOrdered
<1>4. rest = one \o Tail(t)
  OBVIOUS
<1> HIDE DEF one, rest
<1>5. /\ IsASeq(rest) /\ ToSet(rest) = {next} \cup ToSet(Tail(t))
      /\ Len(Tail(t)) \in Nat
      /\ DOMAIN rest = 1..(1 + Len(Tail(t)))
      /\ \A i \in DOMAIN rest :
            \/ i <= 1 /\ rest[i] = next
            \/ i > 1 /\ i - 1 \in DOMAIN Tail(t) /\ rest[i] = Tail(t)[i - 1]
  <2>1. /\ IsASeq(one \o Tail(t)) /\ ToSet(one \o Tail(t)) = ToSet(one) \cup ToSet(Tail(t))
        /\ DOMAIN (one \o Tail(t)) = 1..(Len(one) + Len(Tail(t)))
        /\ Len(one) \in Nat /\ Len(Tail(t)) \in Nat
        /\ \A i \in DOMAIN (one \o Tail(t)) :
                \/ i \in DOMAIN one /\ i <= Len(one) /\ (one \o Tail(t))[i] = one[i]
                \/ i > Len(one) /\ i - Len(one) \in DOMAIN Tail(t)
                   /\ (one \o Tail(t))[i] = Tail(t)[i - Len(one)]
    BY <1>2, <1>3, ConcatOf
  <2>3. /\ IsASeq(rest) /\ ToSet(rest) = ToSet(one) \cup ToSet(Tail(t))
        /\ DOMAIN rest = 1..(Len(one) + Len(Tail(t)))
        /\ Len(one) \in Nat /\ Len(Tail(t)) \in Nat
        /\ \A i \in DOMAIN rest :
                \/ i \in DOMAIN one /\ i <= Len(one) /\ rest[i] = one[i]
                \/ i > Len(one) /\ i - Len(one) \in DOMAIN Tail(t)
                   /\ rest[i] = Tail(t)[i - Len(one)]
    BY <1>4, <2>1
  <2>2. \A i \in DOMAIN rest :
                \/ i <= 1 /\ rest[i] = next
                \/ i > 1 /\ i - 1 \in DOMAIN Tail(t) /\ rest[i] = Tail(t)[i - 1]
    BY <1>2, <2>3
  <2> QED
    BY <1>2, <2>2, <2>3
<1>6. \A i \in DOMAIN Tail(t) : Tail(t)[i].resource \in KubernetesAhead(Tail(t))
  BY DEF KubernetesAhead, ToSet
<1>7. KubernetesAhead(rest) = KubernetesAhead(t)
  BY <1>1, <1>5 DEF KubernetesAhead
<1>8. \A i \in DOMAIN rest : rest[i].resource \in KubernetesAhead(t)
  <2> SUFFICES ASSUME NEW i \in DOMAIN rest PROVE rest[i].resource \in KubernetesAhead(t)
    OBVIOUS
  <2>1. CASE rest[i] = next
    BY <1>1, <2>1
  <2>2. CASE i - 1 \in DOMAIN Tail(t) /\ rest[i] = Tail(t)[i - 1]
    BY <1>1, <1>6, <2>2
  <2> QED
    BY <1>5, <2>1, <2>2
<1>9. ASSUME NEW i \in DOMAIN rest, NEW j \in DOMAIN rest, i < j
      PROVE  rest[i].resource # rest[j].resource
  <2>1. i \in Nat /\ j \in Nat /\ j > 1 /\ i >= 1
    BY <1>5, <1>9
  <2>2. j - 1 \in DOMAIN Tail(t) /\ rest[j] = Tail(t)[j - 1]
    BY <1>5, <2>1
  <2>3. CASE i <= 1
    <3>1. rest[i] = next
      BY <1>5, <2>1, <2>3
    <3> QED
      BY <1>1, <1>6, <2>2, <3>1
  <2>4. CASE i > 1
    <3>1. i - 1 \in DOMAIN Tail(t) /\ rest[i] = Tail(t)[i - 1] /\ i - 1 < j - 1
      BY <1>5, <1>9, <2>1, <2>4
    <3>2. Tail(t)[i - 1].resource # InstanceList
      BY <1>1, <1>6, <3>1
    <3> QED
      BY <1>1, <2>2, <3>1, <3>2 DEF KubernetesOrdered
  <2> QED
    BY <2>1, <2>3, <2>4
<1>12. \A c \in ToSet(rest) : IsCall(c)
  BY <1>1, <1>5 DEF KubernetesOrdered
<1>10. KubernetesOrdered(rest)
  BY <1>1, <1>5, <1>8, <1>9, <1>12 DEF KubernetesOrdered
<1>11. rest # <<>>
  BY <1>5
<1> QED
  BY <1>7, <1>10, <1>11 DEF rest, one

\* What every answer leads to: the rest of the calls, and the end after the last.
KubernetesGoesOn == scan' = IF todo' = <<>> THEN "done" ELSE scan

LEMMA ContinueGoesOn ==
    ASSUME NEW lists, NEW rest, Continue(lists, rest)
    PROVE  todo' = rest /\ KubernetesGoesOn
BY DEF Continue, KubernetesGoesOn

LEMMA AggregateIsOfTotals ==
    /\ \A resource, lists : \A c \in Aggregate(resource, lists) :
            c.area = "kubernetes" /\ c.resource \in Totals
    /\ \A lists : Aggregate(DefinitionList, lists) = {}
<1>1. ASSUME NEW resource, NEW lists, NEW c \in Aggregate(resource, lists)
      PROVE  c.area = "kubernetes" /\ c.resource \in Totals
  <2>1. \A r, n : /\ Complete("kubernetes", r, n).area = "kubernetes"
                  /\ Complete("kubernetes", r, n).resource = r
    BY DEF Complete, CoverageItem
  <2>2. CASE resource = "CronJobs"
    <3>1. c = Complete("kubernetes", "Workloads", Cardinality(lists.Workloads))
      BY <1>1, <2>2 DEF Aggregate
    <3> QED
      BY <2>1, <3>1 DEF Totals
  <2>3. CASE resource = "UDPRoutes"
    <3>1. c = Complete("kubernetes", "GatewayRoutes", Cardinality(lists.GatewayRoutes))
      BY <1>1, <2>3 DEF Aggregate
    <3> QED
      BY <2>1, <3>1 DEF Totals
  <2>4. CASE resource = "XBackendTrafficPolicies"
    <3>1. c = Complete("kubernetes", "GatewayPolicies", Cardinality(lists.GatewayPolicies))
      BY <1>1, <2>4 DEF Aggregate
    <3> QED
      BY <2>1, <3>1 DEF Totals
  <2> QED
    BY <1>1, <2>2, <2>3, <2>4 DEF Aggregate
<1>2. \A lists : Aggregate(DefinitionList, lists) = {}
  BY DEF Aggregate, DefinitionList
<1> QED
  BY <1>1, <1>2

\* A call that ends with one item for its list, and maybe the total of a group.
PlainAnswer ==
    /\ todo # <<>> /\ todo' = Tail(todo) /\ KubernetesGoesOn
    /\ Head(todo).resource \notin {DefinitionList, InstanceList}
    /\ \E item, extra :
        /\ item.area = "kubernetes" /\ item.resource = Head(todo).resource
        /\ \A c \in extra : c.area = "kubernetes" /\ c.resource \in Totals
        /\ coverage' = coverage \cup {item} \cup extra

CoverageGrows ==
    /\ coverage \subseteq coverage'
    /\ \A c \in coverage' \ coverage : c.area = "kubernetes"

LEMMA PlainAnswerIsTold ==
    ASSUME KubernetesOrdered(todo), KubernetesTold(coverage, todo), PlainAnswer
    PROVE  KubernetesOrdered(todo') /\ KubernetesTold(coverage', todo') /\ CoverageGrows
<1>1. PICK item, extra :
        /\ item.area = "kubernetes" /\ item.resource = Head(todo).resource
        /\ \A c \in extra : c.area = "kubernetes" /\ c.resource \in Totals
        /\ coverage' = coverage \cup {item} \cup extra
  BY DEF PlainAnswer
<1>2. todo # <<>> /\ todo' = Tail(todo)
      /\ Head(todo).resource \notin {DefinitionList, InstanceList}
  BY DEF PlainAnswer
<1>3. KubernetesTold(coverage \cup {item} \cup extra, Tail(todo))
  BY <1>1, <1>2, PlainListTold
<1>4. KubernetesOrdered(Tail(todo))
  BY <1>2, KubernetesTail
<1> QED
  BY <1>1, <1>2, <1>3, <1>4 DEF CoverageGrows

LEMMA EmptySequence == SetToSeq({}) = <<>>
<1>1. SetToSeq({}) \in Seq({})
  BY FS_EmptySet, EveryMemberOnce
<1> QED
  BY <1>1

LEMMA PlainCalls ==
    ASSUME NEW outcome,
           \/ CheckServerVersion(outcome) /\ outcome = "ok"
           \/ DiscoverAPIResources(outcome)
           \/ ListResource(outcome) /\ Head(todo).resource # DefinitionList
    PROVE  PlainAnswer
<1>1. CASE CheckServerVersion(outcome) /\ outcome = "ok"
  <2>1. /\ todo # <<>> /\ Head(todo).resource = "ServerVersion"
        /\ \E lists : Continue(lists, Tail(todo))
        /\ coverage' = coverage \cup {Complete("kubernetes", "ServerVersion", 1)}
    BY <1>1 DEF CheckServerVersion, Running
  <2> DEFINE item == Complete("kubernetes", "ServerVersion", 1)
  <2>2. item.area = "kubernetes" /\ item.resource = "ServerVersion"
    BY DEF Complete, CoverageItem
  <2>3. coverage' = coverage \cup {item} \cup {}
    BY <2>1
  <2>4. "ServerVersion" \notin {DefinitionList, InstanceList}
    BY DEF DefinitionList, InstanceList
  <2>5. todo' = Tail(todo) /\ KubernetesGoesOn
    BY <2>1, ContinueGoesOn
  <2> HIDE DEF item
  <2> QED
    BY <2>1, <2>2, <2>3, <2>4, <2>5 DEF PlainAnswer
<1>2. CASE DiscoverAPIResources(outcome)
  <2>1. /\ todo # <<>> /\ Head(todo).resource = "APIResources"
        /\ \E lists : Continue(lists, Tail(todo))
        /\ \E status, count :
            coverage' = coverage \cup {CoverageItem("kubernetes", "APIResources", status, count)}
    BY <1>2 DEF DiscoverAPIResources, Running
  <2>2. PICK item : /\ item.area = "kubernetes" /\ item.resource = "APIResources"
                    /\ coverage' = coverage \cup {item}
    BY <2>1 DEF CoverageItem
  <2>3. coverage' = coverage \cup {item} \cup {}
    BY <2>2
  <2>4. "APIResources" \notin {DefinitionList, InstanceList}
    BY DEF DefinitionList, InstanceList
  <2>5. todo' = Tail(todo) /\ KubernetesGoesOn
    BY <2>1, ContinueGoesOn
  <2> QED
    BY <2>1, <2>2, <2>3, <2>4, <2>5 DEF PlainAnswer
<1>3. CASE ListResource(outcome) /\ Head(todo).resource # DefinitionList
  <2> DEFINE resource == Head(todo).resource
  <2>1. resource # "CustomResourceDefinitions"
    BY <1>3 DEF DefinitionList
  <2>2. /\ todo # <<>> /\ resource \in ListCalls
        /\ \E items, lists, unlistable :
            /\ Continue(lists, SetToSeq({InstanceCall(n) : n \in {c.ref.name : c \in {d \in {} : Listable(d)}}}) \o Tail(todo))
            /\ coverage' = coverage
                \cup {IF outcome = "ok" THEN Complete("kubernetes", resource, Cardinality(items))
                      ELSE Denied("kubernetes", resource, outcome)}
                \cup Aggregate(resource, lists) \cup {}
    BY <1>3, <2>1 DEF ListResource, Running
  <2>3. PICK items, lists :
            /\ Continue(lists, SetToSeq({}) \o Tail(todo))
            /\ coverage' = coverage
                \cup {IF outcome = "ok" THEN Complete("kubernetes", resource, Cardinality(items))
                      ELSE Denied("kubernetes", resource, outcome)}
                \cup Aggregate(resource, lists)
    <3>1. {InstanceCall(n) : n \in {c.ref.name : c \in {d \in {} : Listable(d)}}} = {}
      OBVIOUS
    <3> QED
      BY <2>2, <3>1
  <2> DEFINE item == IF outcome = "ok" THEN Complete("kubernetes", resource, Cardinality(items))
                     ELSE Denied("kubernetes", resource, outcome)
  <2>4. item.area = "kubernetes" /\ item.resource = resource
    BY DEF Complete, Denied, CoverageItem
  <2>5. InstanceList \notin ListCalls
    BY CallSets DEF ListCalls, InstanceList
  <2> HIDE DEF resource
  <2>6. coverage' = coverage \cup {item} \cup Aggregate(resource, lists)
    BY <2>3
  <2> HIDE DEF item
  <2>7. \A c \in Aggregate(resource, lists) : c.area = "kubernetes" /\ c.resource \in Totals
    BY AggregateIsOfTotals
  <2>8. todo' = Tail(todo) /\ KubernetesGoesOn
    <3>1. todo' = <<>> \o Tail(todo) /\ KubernetesGoesOn
      BY <2>3, EmptySequence, ContinueGoesOn
    <3> QED
      BY <3>1
  <2>9. resource \notin {DefinitionList, InstanceList} /\ todo # <<>>
    BY <2>1, <2>2, <2>5 DEF DefinitionList
  <2> QED
    BY <2>4, <2>6, <2>7, <2>8, <2>9 DEF PlainAnswer, resource
<1> QED
  BY <1>1, <1>2, <1>3

\* The API server lists finitely many definitions.
FiniteDefinitions(w) == IsFiniteSet(w.kubernetes.CustomResourceDefinitions)

LEMMA DefinitionsAreFinite ==
    ASSUME NEW w, FiniteDefinitions(w)
    PROVE  IsFiniteSet(ListsOf(DefinitionList, w.kubernetes))
<1> DEFINE S == w.kubernetes.CustomResourceDefinitions
           f == [c \in S |-> MapCRD(c)]
<1>1. /\ DefinitionList \in ToSet(ExtensionCalls)
      /\ DefinitionList \notin ToSet(CoreCalls) \cup ToSet(WorkloadCalls)
            \cup ToSet(NetworkingCalls) \cup ToSet(StorageCalls) \cup ToSet(RuntimeCalls)
            \cup ToSet(RBACCalls) \cup ToSet(PolicyCalls) \cup ToSet(AdmissionCalls)
  BY CallSets, NetworkingCallSet DEF DefinitionList
<1>2. ListsOf(DefinitionList, w.kubernetes) = ExtensionListing(w.kubernetes)[DefinitionList]
  BY <1>1 DEF ListsOf, InCalls
<1>3. ListsOf(DefinitionList, w.kubernetes) = {MapCRD(c) : c \in S}
  BY <1>2 DEF ExtensionListing, DefinitionList
<1>4. IsFiniteSet({f[c] : c \in DOMAIN f})
  BY ImageIsFinite DEF FiniteDefinitions
<1> QED
  BY <1>3, <1>4

LEMMA InstanceCallsAreFinite ==
    ASSUME NEW crds, IsFiniteSet(crds)
    PROVE  IsFiniteSet({InstanceCall(n) : n \in {c.ref.name : c \in {d \in crds : Listable(d)}}})
<1> DEFINE listable == {d \in crds : Listable(d)}
           f == [c \in listable |-> InstanceCall(c.ref.name)]
<1>1. IsFiniteSet(listable)
  BY FS_Subset
<1>2. IsFiniteSet({f[c] : c \in DOMAIN f})
  BY <1>1, ImageIsFinite
<1>3. {f[c] : c \in DOMAIN f} = {InstanceCall(n) : n \in {c.ref.name : c \in listable}}
  OBVIOUS
<1> QED
  BY <1>2, <1>3

\* The calls for the instances come before the rest.
LEMMA InstancesComeNext ==
    ASSUME NEW t, KubernetesOrdered(t), InstanceList \notin KubernetesAhead(t),
           NEW calls, IsASeq(calls), \A c \in ToSet(calls) : IsCall(c) /\ c.resource = InstanceList
    PROVE  /\ KubernetesOrdered(calls \o t)
           /\ KubernetesAhead(calls \o t) = KubernetesAhead(t)
                \cup (IF ToSet(calls) = {} THEN {} ELSE {InstanceList})
<1> DEFINE rest == calls \o t
<1>1. IsASeq(t)
  BY DEF KubernetesOrdered
<1>2. /\ IsASeq(rest) /\ ToSet(rest) = ToSet(calls) \cup ToSet(t)
      /\ DOMAIN rest = 1..(Len(calls) + Len(t)) /\ Len(calls) \in Nat /\ Len(t) \in Nat
      /\ \A i \in DOMAIN rest :
            \/ i \in DOMAIN calls /\ i <= Len(calls) /\ rest[i] = calls[i]
            \/ i > Len(calls) /\ i - Len(calls) \in DOMAIN t /\ rest[i] = t[i - Len(calls)]
  BY <1>1, ConcatOf
<1> HIDE DEF rest
<1>3. /\ \A i \in DOMAIN calls : calls[i].resource = InstanceList
      /\ \A i \in DOMAIN t : t[i].resource # InstanceList
  BY DEF ToSet, KubernetesAhead
<1>4. ASSUME NEW i \in DOMAIN rest, NEW j \in DOMAIN rest, i < j
      PROVE  /\ rest[i].resource # rest[j].resource \/ rest[i].resource = InstanceList
             /\ rest[j].resource = InstanceList => rest[i].resource = InstanceList
  <2>1. i \in Nat /\ j \in Nat
    BY <1>2
  <2>2. CASE i <= Len(calls)
    <3>1. i \in DOMAIN calls /\ rest[i] = calls[i]
      BY <1>2, <2>1, <2>2
    <3> QED
      BY <1>3, <3>1
  <2>3. CASE i > Len(calls)
    <3>1. /\ i - Len(calls) \in DOMAIN t /\ rest[i] = t[i - Len(calls)]
          /\ j - Len(calls) \in DOMAIN t /\ rest[j] = t[j - Len(calls)]
          /\ i - Len(calls) < j - Len(calls)
      BY <1>2, <1>4, <2>1, <2>3
    <3> QED
      BY <1>3, <3>1 DEF KubernetesOrdered
  <2> QED
    BY <1>2, <2>1, <2>2, <2>3
<1>5. KubernetesOrdered(rest)
  <2>1. \A c \in ToSet(rest) : IsCall(c)
    BY <1>2 DEF KubernetesOrdered
  <2> QED
    BY <1>2, <1>4, <2>1 DEF KubernetesOrdered
<1>6. KubernetesAhead(rest) = KubernetesAhead(t)
                \cup (IF ToSet(calls) = {} THEN {} ELSE {InstanceList})
  BY <1>2 DEF KubernetesAhead
<1> QED
  BY <1>5, <1>6 DEF rest

LEMMA DefinitionsCall ==
    ASSUME KubernetesOrdered(todo), KubernetesTold(coverage, todo), FiniteDefinitions(world),
           NEW outcome, ListResource(outcome), Head(todo).resource = DefinitionList
    PROVE  /\ KubernetesOrdered(todo') /\ KubernetesTold(coverage', todo')
           /\ CoverageGrows /\ KubernetesGoesOn /\ todo # <<>>
<1> DEFINE crds == IF outcome = "ok" THEN ListsOf(DefinitionList, world.kubernetes) ELSE {}
           listable == {c.ref.name : c \in {d \in crds : Listable(d)}}
           asked == {InstanceCall(n) : n \in listable}
           calls == SetToSeq(asked)
           item == IF outcome = "ok" THEN Complete("kubernetes", DefinitionList, Cardinality(crds))
                   ELSE Denied("kubernetes", DefinitionList, outcome)
<1>1. PICK lists, skipped :
        /\ Continue(lists, calls \o Tail(todo))
        /\ coverage' = coverage \cup {item} \cup Aggregate(DefinitionList, lists)
              \cup (IF outcome = "ok" /\ listable = {}
                    THEN {InstancesCovered(lists, skipped)} ELSE {})
  BY DEF ListResource, Running, DefinitionList
<1>2. todo # <<>>
  BY DEF ListResource, Running
<1>3. IsFiniteSet(crds)
  BY DefinitionsAreFinite, FS_EmptySet
<1>4. IsFiniteSet(asked)
  BY <1>3, InstanceCallsAreFinite
<1>5. \A c \in asked : IsCall(c) /\ c.resource = InstanceList
  BY DEF InstanceCall, Call, InstanceList, IsCall
<1>6. /\ item.area = "kubernetes" /\ item.resource = DefinitionList
      /\ outcome # "ok" => item.status # "complete"
  BY DEF Complete, Denied, CoverageItem
<1>7. outcome # "ok" => listable = {}
  OBVIOUS
<1> HIDE DEF item, listable, crds
<1>8. asked = {} <=> listable = {}
  OBVIOUS
<1> HIDE DEF asked
<1>9. IsASeq(calls) /\ ToSet(calls) = asked
  BY <1>4, EveryMemberOnce, SeqOfItsMembers
<1> HIDE DEF calls
<1> DEFINE rest == calls \o Tail(todo)
           skippedItem == InstancesCovered(lists, skipped)
           extra == IF outcome = "ok" /\ listable = {} THEN {skippedItem} ELSE {}
<1>10. skippedItem.area = "kubernetes" /\ skippedItem.resource = InstanceList
  BY DEF InstancesCovered, Complete, Partial, CoverageItem, InstanceList
<1>11. coverage' = coverage \cup {item} \cup extra
  BY <1>1, AggregateIsOfTotals
<1>12. todo' = rest /\ KubernetesGoesOn
  BY <1>1, ContinueGoesOn
<1>13. DefinitionList # InstanceList
  BY DEF DefinitionList, InstanceList
<1>14. /\ KubernetesOrdered(Tail(todo))
       /\ KubernetesAhead(todo) = {DefinitionList} \cup KubernetesAhead(Tail(todo))
       /\ InstanceList \notin KubernetesAhead(Tail(todo))
  BY <1>2, <1>13, KubernetesTail
<1>15. /\ KubernetesOrdered(rest)
       /\ KubernetesAhead(rest) = KubernetesAhead(Tail(todo))
             \cup (IF asked = {} THEN {} ELSE {InstanceList})
  BY <1>5, <1>9, <1>14, InstancesComeNext
<1> HIDE DEF rest, skippedItem
<1>16. /\ KubernetesAhead(rest) \ {InstanceList} = KubernetesAhead(Tail(todo))
       /\ InstanceList \in KubernetesAhead(rest) <=> asked # {}
  BY <1>14, <1>15
<1>17. \/ extra = {} /\ InstanceList \in KubernetesAhead(rest)
       \/ extra = {} /\ item.status # "complete" /\ InstanceList \notin KubernetesAhead(rest)
       \/ /\ \E c : c.area = "kubernetes" /\ c.resource = InstanceList /\ extra = {c}
          /\ InstanceList \notin KubernetesAhead(rest)
  BY <1>6, <1>8, <1>7, <1>10, <1>16
<1>18. \A c \in extra : c.area = "kubernetes"
  BY <1>10
<1> HIDE DEF extra
<1>19. KubernetesTold(coverage \cup {item} \cup extra, rest)
  BY <1>2, <1>6, <1>16, <1>17, DefinitionsTold
<1> QED
  BY <1>2, <1>6, <1>11, <1>12, <1>15, <1>18, <1>19 DEF CoverageGrows

LEMMA InstancesCall ==
    ASSUME KubernetesOrdered(todo), KubernetesTold(coverage, todo),
           NEW outcome, ListInstances(outcome)
    PROVE  /\ KubernetesOrdered(todo') /\ KubernetesTold(coverage', todo')
           /\ CoverageGrows /\ KubernetesGoesOn /\ todo # <<>>
<1>1. PICK lists, skipped :
        /\ Continue(lists, Tail(todo))
        /\ coverage' = coverage \cup
              (IF Len(todo) = 1 \/ todo[2].resource # InstanceList
               THEN {InstancesCovered(lists, skipped)} ELSE {})
  BY DEF ListInstances, InstanceList
<1>2. todo # <<>> /\ Head(todo).resource = InstanceList
  BY DEF ListInstances, Running, InstanceList
<1> DEFINE item == InstancesCovered(lists, skipped)
           last == Len(todo) = 1 \/ todo[2].resource # InstanceList
           extra == IF last THEN {item} ELSE {}
<1>3. item.area = "kubernetes" /\ item.resource = InstanceList
  BY DEF InstancesCovered, Complete, Partial, CoverageItem, InstanceList
<1> HIDE DEF item
<1>4. todo' = Tail(todo) /\ KubernetesGoesOn
  BY <1>1, ContinueGoesOn
<1>5. KubernetesOrdered(Tail(todo)) /\ IsASeq(todo)
  BY <1>2, KubernetesTail DEF KubernetesOrdered
<1>6. last <=> InstanceList \notin KubernetesAhead(Tail(todo))
  <2>1. /\ Len(todo) \in Nat /\ Len(todo) > 0 /\ DOMAIN todo = 1..Len(todo)
        /\ DOMAIN Tail(todo) = 1..(Len(todo) - 1)
        /\ \A i \in DOMAIN Tail(todo) : i + 1 \in DOMAIN todo /\ Tail(todo)[i] = todo[i + 1]
    BY <1>2, <1>5, TailOf
  <2>2. CASE Len(todo) = 1
    <3>1. DOMAIN Tail(todo) = {}
      BY <2>1, <2>2
    <3> QED
      BY <2>2, <3>1 DEF KubernetesAhead, ToSet
  <2>3. CASE Len(todo) # 1
    <3>1. \A n \in Nat : n > 0 /\ n # 1 => 1 \in 1..(n - 1) /\ 1 + 1 = 2 /\ 2 \in 1..n
      OBVIOUS
    <3>2. 1 \in DOMAIN Tail(todo) /\ 2 \in DOMAIN todo
      BY <2>1, <2>3, <3>1
    <3>3. Tail(todo)[1] = todo[2]
      BY <2>1, <3>1, <3>2
    <3>4. CASE todo[2].resource = InstanceList
      <4>1. Tail(todo)[1] \in ToSet(Tail(todo))
        BY <3>2 DEF ToSet
      <4> QED
        BY <2>3, <3>3, <3>4, <4>1 DEF KubernetesAhead
    <3>5. CASE todo[2].resource # InstanceList
      <4>1. ASSUME NEW i \in DOMAIN Tail(todo) PROVE Tail(todo)[i].resource # InstanceList
        <5>1. i + 1 \in DOMAIN todo /\ Tail(todo)[i] = todo[i + 1] /\ (i = 1 \/ 2 < i + 1)
          BY <2>1
        <5>2. CASE i = 1
          BY <3>3, <3>5, <5>2
        <5>3. CASE 2 < i + 1
          <6>1. todo[i + 1].resource = InstanceList => todo[2].resource = InstanceList
            BY <3>2, <5>1, <5>3 DEF KubernetesOrdered
          <6> QED
            BY <3>5, <5>1, <6>1
        <5> QED
          BY <5>1, <5>2, <5>3
      <4> QED
        BY <3>5, <4>1 DEF KubernetesAhead, ToSet
    <3> QED
      BY <3>4, <3>5
  <2> QED
    BY <2>2, <2>3
<1>7. coverage' = coverage \cup extra
  BY <1>1 DEF item
<1> HIDE DEF last
<1>8. IF InstanceList \in KubernetesAhead(Tail(todo)) THEN extra = {}
      ELSE \E c : c.area = "kubernetes" /\ c.resource = InstanceList /\ extra = {c}
  BY <1>3, <1>6
<1>9. \A c \in extra : c.area = "kubernetes"
  BY <1>3
<1> HIDE DEF extra
<1>10. KubernetesTold(coverage \cup extra, Tail(todo))
  BY <1>2, <1>8, InstancesToldNext
<1> QED
  BY <1>2, <1>4, <1>5, <1>7, <1>9, <1>10 DEF CoverageGrows

LEMMA GatewayCall ==
    ASSUME KubernetesOrdered(todo), KubernetesTold(coverage, todo),
           NEW outcome, ListGatewayResource(outcome)
    PROVE  /\ KubernetesOrdered(todo') /\ KubernetesTold(coverage', todo')
           /\ CoverageGrows /\ todo # <<>>
           /\ KubernetesGoesOn \/ (scan' = scan /\ todo' # <<>>)
<1> DEFINE resource == Head(todo).resource
<1>1. todo # <<>> /\ resource \in DOMAIN GatewayTypes
  BY DEF ListGatewayResource, Running
<1>2. resource \notin {DefinitionList, InstanceList}
  BY <1>1 DEF GatewayTypes, DefinitionList, InstanceList
<1>3. \/ \E items, item : /\ GatewayCallEnds(resource, items, item)
                          /\ item.area = "kubernetes" /\ item.resource = resource
      \/ \E next : /\ IsCall(next) /\ next.resource = resource
                   /\ todo' = <<next>> \o Tail(todo)
                   /\ UNCHANGED <<coverage, scan>>
  <2>1. /\ \A r, n : /\ Complete("kubernetes", r, n).area = "kubernetes"
                     /\ Complete("kubernetes", r, n).resource = r
        /\ \A r, o : /\ Denied("kubernetes", r, o).area = "kubernetes"
                     /\ Denied("kubernetes", r, o).resource = r
    BY DEF Complete, Denied, CoverageItem
  <2> DEFINE again(next) == /\ todo' = <<next>> \o Tail(todo)
                            /\ UNCHANGED <<kubernetes, coverage, scan>>
             other(candidates, fallback) ==
                [Head(todo) EXCEPT !.candidates = candidates, !.fallback = fallback]
  <2>2. \A candidates, fallback :
            /\ IsCall(other(candidates, fallback))
            /\ other(candidates, fallback).resource = resource
    BY <1>1, KubernetesTail DEF IsCall
  <2>3. \/ \E items, n : GatewayCallEnds(resource, items, Complete("kubernetes", resource, n))
        \/ GatewayCallEnds(resource, {}, Denied("kubernetes", resource, outcome))
        \/ \E candidates : again(other(candidates, FALSE))
        \/ \E candidates : again(other(candidates, TRUE))
    BY Zenon DEF ListGatewayResource
  <2>4. \A next : again(next) => todo' = <<next>> \o Tail(todo) /\ UNCHANGED <<coverage, scan>>
    OBVIOUS
  <2> HIDE DEF other, again
  <2>5. CASE \/ \E items, n : GatewayCallEnds(resource, items, Complete("kubernetes", resource, n))
            \/ GatewayCallEnds(resource, {}, Denied("kubernetes", resource, outcome))
    <3> HIDE DEF resource
    <3> QED
      BY <2>1, <2>5
  <2>6. CASE \E candidates : again(other(candidates, FALSE)) \/ again(other(candidates, TRUE))
    <3>1. PICK candidates, fallback : again(other(candidates, fallback))
      BY <2>6
    <3> DEFINE next == other(candidates, fallback)
    <3>2. IsCall(next) /\ next.resource = resource
      BY <2>2
    <3>3. todo' = <<next>> \o Tail(todo) /\ UNCHANGED <<coverage, scan>>
      BY <2>4, <3>1
    <3> HIDE DEF next, resource
    <3> QED
      BY <3>2, <3>3
  <2> QED
    BY <2>3, <2>5, <2>6
<1>4. ASSUME NEW items, NEW item, GatewayCallEnds(resource, items, item),
             item.area = "kubernetes", item.resource = resource
      PROVE  PlainAnswer
  <2>1. PICK lists : /\ Continue(lists, Tail(todo))
                     /\ coverage' = coverage \cup {item} \cup Aggregate(resource, lists)
    BY <1>4 DEF GatewayCallEnds
  <2>2. todo' = Tail(todo) /\ KubernetesGoesOn
    BY <2>1, ContinueGoesOn
  <2>3. \A c \in Aggregate(resource, lists) : c.area = "kubernetes" /\ c.resource \in Totals
    BY AggregateIsOfTotals
  <2> HIDE DEF resource
  <2> QED
    BY <1>1, <1>2, <1>4, <2>1, <2>2, <2>3 DEF PlainAnswer, resource
<1>5. ASSUME NEW next, IsCall(next), next.resource = resource, todo' = <<next>> \o Tail(todo),
             UNCHANGED <<coverage, scan>>
      PROVE  /\ KubernetesOrdered(todo') /\ KubernetesTold(coverage', todo')
             /\ CoverageGrows /\ scan' = scan /\ todo' # <<>>
  <2>1. /\ KubernetesOrdered(todo') /\ KubernetesAhead(todo') = KubernetesAhead(todo)
        /\ todo' # <<>>
    BY <1>1, <1>2, <1>5, SameListAgain
  <2> QED
    BY <1>5, <2>1 DEF KubernetesTold, ListsTold, InstancesTold, CoverageGrows
<1>6. CASE PlainAnswer
  BY <1>1, <1>6, PlainAnswerIsTold DEF PlainAnswer
<1> QED
  BY <1>1, <1>3, <1>4, <1>5, <1>6

\* Each call of the Kubernetes collector ends one list, or is about the one it
\* is at; only the server version can end the collection.
LEMMA KubernetesCallKeepsCoverage ==
    ASSUME KubernetesOrdered(todo), KubernetesTold(coverage, todo), FiniteDefinitions(world),
           NEW outcome, CallKubernetes(outcome)
    PROVE  /\ KubernetesOrdered(todo') /\ KubernetesTold(coverage', todo')
           /\ CoverageGrows
           /\ scan = "running"
           /\ scan' = "done" => todo' = <<>>
<1>1. scan = "running"
  BY DEF CallKubernetes, CheckServerVersion, DiscoverAPIResources, ListResource,
         ListInstances, ListGatewayResource, Running
<1>2. CASE CheckServerVersion(outcome) /\ outcome # "ok"
  BY <1>1, <1>2 DEF CheckServerVersion, CoverageGrows
<1>3. CASE PlainAnswer
  BY <1>1, <1>3, PlainAnswerIsTold DEF PlainAnswer, KubernetesGoesOn
<1>4. CASE ListResource(outcome) /\ Head(todo).resource = DefinitionList
  BY <1>1, <1>4, DefinitionsCall DEF KubernetesGoesOn
<1>5. CASE ListInstances(outcome)
  BY <1>1, <1>5, InstancesCall DEF KubernetesGoesOn
<1>6. CASE ListGatewayResource(outcome)
  BY <1>1, <1>6, GatewayCall DEF KubernetesGoesOn
<1> QED
  BY <1>2, <1>3, <1>4, <1>5, <1>6, PlainCalls DEF CallKubernetes

\* What the API servers list: finitely many items, whose names are not empty.
ListsEnd(w) == AwsNamed(w) /\ FiniteDefinitions(w)

\* One collector after the other, and both to their ends.
InOrder ==
    /\ awsScan # "done" => scan = "running"
    /\ awsScan = "done" => awsTodo = <<>>
    /\ scan = "done" => todo = <<>>

\* A list that is still ahead has no item, and one that is behind has one.
CoverageInv ==
    /\ InOrder
    /\ AwsOrdered(awsTodo) /\ AwsTold(coverage, awsTodo)
    /\ KubernetesOrdered(todo) /\ KubernetesTold(coverage, todo)

LEMMA CoverageStarts == Init => CoverageInv
<1> SUFFICES ASSUME Init PROVE CoverageInv
  OBVIOUS
<1>1. coverage = {} /\ awsTodo = AwsProgram /\ awsScan = "running"
      /\ todo = Program /\ scan = "running"
  BY DEF Init, AwsInit, KubernetesInit
<1>2. \A area, r : Told(coverage, area, r) = {}
  BY <1>1 DEF Told
<1>3. KubernetesTold({}, Program)
  <2>1. DefinitionList \in KubernetesAhead(Program) /\ InstanceList \notin KubernetesAhead(Program)
    BY ProgramIsOrdered DEF ProgramResources
  <2>2. ListsTold({}, Program)
    BY <1>1, <1>2 DEF ListsTold, ProgramResources
  <2>3. InstancesTold({}, Program)
    BY <1>1, <1>2, <2>1 DEF InstancesTold
  <2> QED
    BY <2>2, <2>3 DEF KubernetesTold
<1> QED
  BY <1>1, <1>3, AwsProgramIsOrdered, NothingToldByAws, ProgramIsOrdered DEF CoverageInv, InOrder

LEMMA AwsKeepsCoverage ==
    ASSUME CoverageInv, ListsEnd(world), CollectAws
    PROVE  CoverageInv'
<1>1. PICK outcome : CallAws(outcome) /\ UNCHANGED kubernetesVars
  BY DEF CollectAws
<1>2. /\ AwsOrdered(awsTodo') /\ AwsTold(coverage', awsTodo')
      /\ coverage \subseteq coverage'
      /\ \A r : Told(coverage', "kubernetes", r) = Told(coverage, "kubernetes", r)
      /\ awsScan = "running"
      /\ AwsGivesUp \/ AwsGoesOn
  BY <1>1, AwsCallKeepsCoverage DEF CoverageInv, ListsEnd
<1>3. todo' = todo /\ scan' = scan
  BY <1>1 DEF kubernetesVars
<1>4. KubernetesTold(coverage', todo)
  BY <1>2 DEF CoverageInv, KubernetesTold, ListsTold, InstancesTold, ToldOnce
<1>5. scan = "running"
  BY <1>2 DEF CoverageInv, InOrder
<1>6. awsScan' = "done" => awsTodo' = <<>>
  BY <1>2 DEF AwsGivesUp, AwsGoesOn
<1> QED
  BY <1>2, <1>3, <1>4, <1>5, <1>6 DEF CoverageInv, InOrder

LEMMA KubernetesKeepsCoverage ==
    ASSUME CoverageInv, ListsEnd(world), CollectKubernetes
    PROVE  CoverageInv' /\ CoverageGrows
<1>1. PICK outcome : CallKubernetes(outcome) /\ UNCHANGED awsVars /\ awsScan = "done"
  BY DEF CollectKubernetes
<1>2. /\ KubernetesOrdered(todo') /\ KubernetesTold(coverage', todo') /\ CoverageGrows
      /\ scan' = "done" => todo' = <<>>
  BY <1>1, KubernetesCallKeepsCoverage DEF CoverageInv, ListsEnd
<1>3. awsTodo' = awsTodo /\ awsScan' = awsScan
  BY <1>1 DEF awsVars
<1>4. \A area, r : area # "kubernetes" => Told(coverage', area, r) = Told(coverage, area, r)
  BY <1>2 DEF CoverageGrows, Told
<1>5. \A op \in AwsOps : Told(coverage', AwsArea[op], AwsResource(op))
                           = Told(coverage, AwsArea[op], AwsResource(op))
  BY <1>4, AwsOpKeys
<1>6. AwsTold(coverage', awsTodo)
  BY <1>2, <1>5 DEF CoverageInv, AwsTold, ToldOnce, CoverageGrows
<1> QED
  BY <1>1, <1>2, <1>3, <1>6 DEF CoverageInv, InOrder

LEMMA CoverageIsKept ==
    ASSUME CoverageInv, ListsEnd(world), [Next]_vars
    PROVE  CoverageInv' /\ coverage \subseteq coverage'
<1>1. CASE CollectAws
  <2>1. PICK outcome : CallAws(outcome)
    BY <1>1 DEF CollectAws
  <2> QED
    BY <1>1, <2>1, AwsKeepsCoverage, AwsCallKeepsCoverage DEF CoverageInv, ListsEnd
<1>2. CASE CollectKubernetes
  BY <1>2, KubernetesKeepsCoverage DEF CoverageGrows
<1>3. CASE Change
  BY <1>3 DEF Change, kubernetesVars, awsVars, CoverageInv, InOrder
<1>4. CASE UNCHANGED vars
  BY <1>4 DEF vars, kubernetesVars, awsVars, CoverageInv, InOrder
<1> QED
  BY <1>1, <1>2, <1>3, <1>4 DEF Next

LEMMA CoverageTellsAll ==
    ASSUME CoverageInv, Done
    PROVE  EveryListIsCovered
<1>1. todo = <<>> /\ awsTodo = <<>>
  BY DEF Done, CoverageInv, InOrder
<1>2. KubernetesAhead(todo) = {} /\ AwsAhead(awsTodo) = {}
  BY <1>1 DEF KubernetesAhead, AwsAhead, ToSet
<1>3. \A area, r : Items(Snapshot, area, r) = Told(coverage, area, r)
  BY DEF Items, Snapshot, Told
<1>4. ASSUME NEW area, NEW r, ToldOnce(coverage, area, r)
      PROVE  Cardinality(Items(Snapshot, area, r)) = 1
  <2>1. PICK c : Told(coverage, area, r) = {c}
    BY <1>4 DEF ToldOnce
  <2> QED
    BY <1>3, <2>1, FS_Singleton
<1>5. \A r \in ProgramResources : ToldOnce(coverage, "kubernetes", r)
  BY <1>2 DEF CoverageInv, KubernetesTold, ListsTold
<1>6. \A op \in AwsOps : ToldOnce(coverage, AwsArea[op], AwsResource(op))
  BY <1>2 DEF CoverageInv, AwsTold
<1>7. \/ ToldOnce(coverage, "kubernetes", InstanceList)
      \/ /\ Told(coverage, "kubernetes", InstanceList) = {}
         /\ \E c \in Told(coverage, "kubernetes", DefinitionList) : c.status # "complete"
  BY <1>2 DEF CoverageInv, KubernetesTold, InstancesTold
<1> SUFFICES ASSUME NEW l \in AskedLists
             PROVE  \/ Cardinality(Items(Snapshot, l[1], l[2])) = 1
                    \/ /\ l[2] = "CustomResourceInstances" /\ Items(Snapshot, l[1], l[2]) = {}
                       /\ Incomplete("kubernetes", "CustomResourceDefinitions")
  BY DEF EveryListIsCovered
<1>8. CASE \E i \in DOMAIN Program : l = <<"kubernetes", Program[i].resource>>
  <2>1. l[1] = "kubernetes" /\ l[2] \in ProgramResources
    BY <1>8 DEF ProgramResources, KubernetesAhead, ToSet
  <2> QED
    BY <1>4, <1>5, <2>1
<1>9. CASE l = <<"kubernetes", "CustomResourceInstances">>
  <2>1. l[1] = "kubernetes" /\ l[2] = InstanceList
    BY <1>9 DEF InstanceList
  <2>2. CASE ToldOnce(coverage, "kubernetes", InstanceList)
    BY <1>4, <2>1, <2>2
  <2>3. CASE /\ Told(coverage, "kubernetes", InstanceList) = {}
             /\ \E c \in Told(coverage, "kubernetes", DefinitionList) : c.status # "complete"
    BY <1>3, <2>1, <2>3 DEF InstanceList, DefinitionList, Incomplete
  <2> QED
    BY <1>7, <2>2, <2>3
<1>10. CASE \E op \in AwsOps : l = <<AwsArea[op], AwsResource(op)>>
  <2>1. PICK op \in AwsOps : l[1] = AwsArea[op] /\ l[2] = AwsResource(op)
    BY <1>10
  <2> QED
    BY <1>4, <1>6, <2>1
<1>11. \/ \E i \in DOMAIN Program : l = <<"kubernetes", Program[i].resource>>
       \/ l = <<"kubernetes", "CustomResourceInstances">>
       \/ \E op \in AwsOps : l = <<AwsArea[op], AwsResource(op)>>
  <2>1. CASE \E op \in Families : l = <<"eks", op>>
    BY <2>1, AwsOpKeys DEF Families
  <2>2. CASE l = <<"eks", "DescribeCluster">>
    BY <2>2, AwsOpKeys DEF AwsArea
  <2>3. CASE l \in {<<"autoscaling", "DescribeAutoScalingGroups">>,
                    <<"autoscaling", "DescribeScalingActivities">>}
    BY <2>3, AwsOpKeys DEF AwsArea
  <2>4. CASE l = <<"aws", "sts:GetCallerIdentity">>
    BY <2>4, AwsOpKeys DEF AwsArea
  <2>5. CASE \E op \in {"DescribeInstances", "DescribeVpcs", "DescribeSubnets",
                        "DescribeRouteTables", "DescribeSecurityGroups"} : l = <<"ec2", op>>
    BY <2>5, AwsOpKeys DEF AwsArea
  <2> QED
    BY <2>1, <2>2, <2>3, <2>4, <2>5 DEF AskedLists
<1> QED
  BY <1>8, <1>9, <1>10, <1>11

(***************************************************************************)
(* The chain that leads to an instance: node group, group, instance.       *)
(***************************************************************************)
LEMMA IncompleteIsTold ==
    \A area, r : Incomplete(area, r) <=> \E c \in coverage : /\ c.area = area /\ c.resource = r
                                                             /\ c.status # "complete"
BY DEF Incomplete, Items, Snapshot

LEMMA IncompleteStays ==
    ASSUME coverage \subseteq coverage'
    PROVE  \A area, r : Incomplete(area, r) => Incomplete(area, r)'
<1>1. \A area, r : (Incomplete(area, r))' <=> \E c \in coverage' : /\ c.area = area /\ c.resource = r
                                                                   /\ c.status # "complete"
  BY DEF Incomplete, Items, Snapshot
<1> QED
  BY <1>1, IncompleteIsTold

\* A list is only changed by its own calls.
OnlyOwnListChanges ==
    /\ DOMAIN eks' = DOMAIN eks
    /\ Head(awsTodo).op # "Nodegroups" => eks'.Nodegroups = eks.Nodegroups
    /\ Head(awsTodo).op # "DescribeAutoScalingGroups" =>
            eks'.AutoScalingGroups = eks.AutoScalingGroups
    /\ Head(awsTodo).op # "DescribeInstances" => eks'.Instances = eks.Instances

LEMMA OtherListsStay ==
    ASSUME NEW list, NEW items, eks' = [eks EXCEPT ![list] = items],
           DOMAIN eks = EKSLists,
           list = "Nodegroups" => Head(awsTodo).op = "Nodegroups",
           list = "AutoScalingGroups" => Head(awsTodo).op = "DescribeAutoScalingGroups",
           list = "Instances" => Head(awsTodo).op = "DescribeInstances"
    PROVE  OnlyOwnListChanges
<1>1. {"Nodegroups", "AutoScalingGroups", "Instances"} \subseteq DOMAIN eks
  BY DEF EKSLists
<1> QED
  BY <1>1 DEF OnlyOwnListChanges

LEMMA CallsChangeOwnLists ==
    ASSUME DOMAIN eks = EKSLists, NEW outcome, CallAws(outcome)
    PROVE  OnlyOwnListChanges
<1>1. CASE GetCallerIdentity(outcome)
  BY <1>1 DEF GetCallerIdentity, OnlyOwnListChanges
<1>2. CASE DescribeCluster(outcome)
  <2>1. \/ eks' = eks
        \/ \E items : eks' = [eks EXCEPT !["Cluster"] = items]
    BY <1>2 DEF DescribeCluster
  <2> QED
    BY <2>1, OtherListsStay DEF OnlyOwnListChanges
<1>3. CASE ListFamily(outcome)
  BY <1>3 DEF ListFamily, OnlyOwnListChanges
<1>4. CASE DescribeOne(outcome)
  <2>1. PICK family \in Families : /\ Head(awsTodo).op = family
                                   /\ \E items : eks' = [eks EXCEPT ![family] = items]
    BY <1>4, Zenon DEF DescribeOne, AwsRunning
  <2>2. family # "AutoScalingGroups" /\ family # "Instances"
    BY DEF Families
  <2> QED
    BY <2>1, <2>2, OtherListsStay
<1>5. CASE DescribeAutoScalingGroups(outcome)
  <2>1. \E items : eks' = [eks EXCEPT !["AutoScalingGroups"] = items]
    BY <1>5, Zenon DEF DescribeAutoScalingGroups, RecordInfrastructure
  <2>2. Head(awsTodo).op = "DescribeAutoScalingGroups"
    BY <1>5 DEF DescribeAutoScalingGroups, AwsRunning
  <2> QED
    BY <2>1, <2>2, OtherListsStay
<1>6. CASE DescribeInstances(outcome)
  <2>1. \E items : eks' = [eks EXCEPT !["Instances"] = items]
    BY <1>6, Zenon DEF DescribeInstances, RecordInfrastructure
  <2>2. Head(awsTodo).op = "DescribeInstances"
    BY <1>6 DEF DescribeInstances, AwsRunning
  <2> QED
    BY <2>1, <2>2, OtherListsStay
<1>7. CASE DescribeVpcs(outcome)
  <2>1. \E items : eks' = [eks EXCEPT !["VPCs"] = items]
    BY <1>7, Zenon DEF DescribeVpcs, RecordInfrastructure
  <2> QED
    BY <2>1, OtherListsStay
<1>8. CASE DescribeSubnets(outcome)
  <2>1. \E items : eks' = [eks EXCEPT !["Subnets"] = items]
    BY <1>8, Zenon DEF DescribeSubnets, RecordInfrastructure
  <2> QED
    BY <2>1, OtherListsStay
<1>9. CASE DescribeRouteTables(outcome)
  <2>1. \E tables : eks' = [eks EXCEPT !.Subnets = ApplyRouteTables(@, tables)]
    BY <1>9, Zenon DEF DescribeRouteTables
  <2>2. \E items : eks' = [eks EXCEPT !["Subnets"] = items]
    BY <2>1
  <2> QED
    BY <2>2, OtherListsStay
<1>10. CASE DescribeSecurityGroups(outcome)
  <2>1. \E items : eks' = [eks EXCEPT !["SecurityGroups"] = items]
    BY <1>10, Zenon DEF DescribeSecurityGroups, RecordInfrastructure
  <2> QED
    BY <2>1, OtherListsStay
<1>11. CASE DescribeScalingActivities(outcome)
  <2>1. \E items : eks' = [eks EXCEPT !["ScalingActivities"] = items]
    BY <1>11, Zenon DEF DescribeScalingActivities, RecordInfrastructure
  <2> QED
    BY <2>1, OtherListsStay
<1> QED
  BY <1>1, <1>2, <1>3, <1>4, <1>5, <1>6, <1>7, <1>8, <1>9, <1>10, <1>11 DEF CallAws

(***************************************************************************)
(* The invariant of the chain.                                             *)
(***************************************************************************)
\* The node group n has the auto scaling group g, which has the instance.
LeadsTo(w, n, g, id) ==
    /\ n \in DOMAIN w.Nodegroups /\ g \in w.Nodegroups[n].autoScalingGroups \ {""}
    /\ g \in DOMAIN w.AutoScalingGroups /\ id \in DOMAIN w.AutoScalingGroups[g].instances
    /\ id \in DOMAIN w.Instances

AsksNodegroup(t, n) == \E c \in ToSet(t) : c.op = "Nodegroups" /\ (DescribesOne(c) => c.name = n)

NodegroupIsListed(n, g) ==
    \/ AsksNodegroup(awsTodo, n)
    \/ \E x \in eks.Nodegroups : g \in x.autoScalingGroups
    \/ Incomplete("eks", "Nodegroups")

GroupIsListed(id) ==
    \/ "DescribeAutoScalingGroups" \in AwsAhead(awsTodo)
    \/ \E a \in eks.AutoScalingGroups : id \in a.instanceIDs
    \/ \E l \in InfrastructureChain : Incomplete(l[1], l[2])

InstanceIsListed(id) ==
    \/ "DescribeInstances" \in AwsAhead(awsTodo)
    \/ \E i \in eks.Instances : i.instanceID = id
    \/ \E l \in InfrastructureChain : Incomplete(l[1], l[2])

ChainInv(n, g, id) == NodegroupIsListed(n, g) /\ GroupIsListed(id) /\ InstanceIsListed(id)

LEMMA ChainGapStays ==
    ASSUME coverage \subseteq coverage'
    PROVE  (\E l \in InfrastructureChain : Incomplete(l[1], l[2])) =>
                (\E l \in InfrastructureChain : Incomplete(l[1], l[2]))'
<1>1. InfrastructureChain' = InfrastructureChain
  BY DEF InfrastructureChain
<1>2. \A l \in InfrastructureChain : Incomplete(l[1], l[2]) => Incomplete(l[1], l[2])'
  BY IncompleteStays
<1> QED
  BY <1>1, <1>2

LEMMA ChainMembers ==
    /\ Incomplete("eks", "Nodegroups") => \E l \in InfrastructureChain : Incomplete(l[1], l[2])
    /\ Incomplete("autoscaling", "DescribeAutoScalingGroups") =>
            \E l \in InfrastructureChain : Incomplete(l[1], l[2])
    /\ Incomplete("ec2", "DescribeInstances") =>
            \E l \in InfrastructureChain : Incomplete(l[1], l[2])
BY DEF InfrastructureChain

LEMMA CallsForNodegroups ==
    ASSUME NEW outcome, CallAws(outcome), Head(awsTodo).op = "Nodegroups"
    PROVE  ListFamily(outcome) \/ DescribeOne(outcome)
BY DEF CallAws, AwsRunning, GetCallerIdentity, DescribeCluster, DescribeAutoScalingGroups,
       DescribeInstances, DescribeVpcs, DescribeSubnets, DescribeRouteTables,
       DescribeSecurityGroups, DescribeScalingActivities

LEMMA ListedNodegroupIsAsked ==
    ASSUME AwsOrdered(awsTodo), AwsNamed(world), NEW outcome, ListFamily(outcome),
           Head(awsTodo).op = "Nodegroups", NEW n \in DOMAIN world.aws["Nodegroups"]
    PROVE  AsksNodegroup(awsTodo', n) \/ Incomplete("eks", "Nodegroups")'
<1> DEFINE names == DOMAIN world.aws["Nodegroups"]
           asked == {Describe("Nodegroups", m) : m \in names}
           rest == SetToSeq(asked) \o Tail(awsTodo)
<1>1. /\ awsTodo # <<>> /\ ~DescribesOne(Head(awsTodo))
      /\ \/ outcome = "ok" /\ AwsContinue(rest)
         \/ coverage' = coverage \cup {Partial("eks", "Nodegroups", 0)}
  <2>1. PICK family \in Families :
            /\ AwsRunning(family) /\ Head(awsTodo).name = ""
            /\ LET ns == DOMAIN world.aws[family]
               IN  \/ /\ outcome = "ok" /\ ns # {}
                      /\ AwsContinue(SetToSeq({Describe(family, m) : m \in ns}) \o Tail(awsTodo))
                   \/ /\ outcome = "ok" /\ ns = {}
                   \/ coverage' = coverage \cup {Partial("eks", family, 0)}
    BY Zenon DEF ListFamily
  <2>2. family = "Nodegroups" /\ awsTodo # <<>>
    BY <2>1 DEF AwsRunning
  <2>3. names # {}
    OBVIOUS
  <2> QED
    BY <2>1, <2>2, <2>3 DEF DescribesOne
<1>2. CASE AwsContinue(rest)
  <2>1. awsTodo' = rest
    BY <1>2 DEF AwsContinue
  <2>2. "Nodegroups" \in Families
    BY DEF Families
  <2>3. IsFiniteSet(names) /\ \A m \in names : DescribesOne(Describe("Nodegroups", m))
    BY <2>2 DEF AwsNamed, DescribesOne, Describe
  <2>4. ToSet(rest) = asked \cup ToSet(Tail(awsTodo))
    BY <1>1, <2>2, <2>3, AwsDescribesNext
  <2>5. Describe("Nodegroups", n) \in ToSet(awsTodo')
    <3>1. Describe("Nodegroups", n) \in asked
      OBVIOUS
    <3> HIDE DEF asked
    <3>2. ToSet(awsTodo') = ToSet(rest)
      BY <2>1
    <3> QED
      BY <2>4, <3>1, <3>2
  <2>6. Describe("Nodegroups", n).op = "Nodegroups" /\ Describe("Nodegroups", n).name = n
    BY DEF Describe
  <2> QED
    BY <2>5, <2>6 DEF AsksNodegroup
<1>3. CASE coverage' = coverage \cup {Partial("eks", "Nodegroups", 0)}
  <2> DEFINE c == Partial("eks", "Nodegroups", 0)
  <2>1. c \in coverage' /\ c.area = "eks" /\ c.resource = "Nodegroups" /\ c.status # "complete"
    BY <1>3 DEF Partial, CoverageItem
  <2> HIDE DEF c
  <2> QED
    BY <2>1 DEF Incomplete, Items, Snapshot
<1> QED
  BY <1>1, <1>2, <1>3

LEMMA DescribedNodegroupIsListed ==
    ASSUME DOMAIN eks = EKSLists, AwsOrdered(awsTodo), NEW outcome, DescribeOne(outcome),
           Head(awsTodo).op = "Nodegroups",
           NEW n, NEW g \in world.aws["Nodegroups"][n].autoScalingGroups,
           AsksNodegroup(awsTodo, n) \/ \E x \in eks.Nodegroups : g \in x.autoScalingGroups
    PROVE  \/ AsksNodegroup(awsTodo', n)
           \/ \E x \in eks'.Nodegroups : g \in x.autoScalingGroups
           \/ Incomplete("eks", "Nodegroups")'
<1> DEFINE m == Head(awsTodo).name
           answer == world.aws["Nodegroups"][m]
           one == MapDescribed("Nodegroups", m, answer)
<1>1. /\ awsTodo # <<>> /\ DescribesOne(Head(awsTodo))
      /\ \/ /\ eks' = [eks EXCEPT !["Nodegroups"] = eks["Nodegroups"] \cup {one}]
            /\ awsTodo' = Tail(awsTodo)
         \/ \E count : coverage' = coverage \cup {Partial("eks", "Nodegroups", count)}
  <2>1. PICK family \in Families :
            /\ AwsRunning(family) /\ DescribesOne(Head(awsTodo))
            /\ \/ /\ eks' = [eks EXCEPT ![family] = eks[family] \cup
                                {MapDescribed(family, Head(awsTodo).name,
                                              world.aws[family][Head(awsTodo).name])}]
                  /\ AwsContinue(Tail(awsTodo))
               \/ \E count : coverage' = coverage \cup {Partial("eks", family, count)}
    BY Zenon DEF DescribeOne, DescribesOne
  <2>2. family = "Nodegroups" /\ awsTodo # <<>>
    BY <2>1 DEF AwsRunning
  <2> QED
    BY <2>1, <2>2 DEF AwsContinue
<1>2. ASSUME NEW count, coverage' = coverage \cup {Partial("eks", "Nodegroups", count)}
      PROVE  Incomplete("eks", "Nodegroups")'
  <2> DEFINE c == Partial("eks", "Nodegroups", count)
  <2>1. c \in coverage' /\ c.area = "eks" /\ c.resource = "Nodegroups" /\ c.status # "complete"
    BY <1>2 DEF Partial, CoverageItem
  <2> HIDE DEF c
  <2> QED
    BY <2>1 DEF Incomplete, Items, Snapshot
<1>3. CASE /\ eks' = [eks EXCEPT !["Nodegroups"] = eks["Nodegroups"] \cup {one}]
           /\ awsTodo' = Tail(awsTodo)
  <2>1. one.autoScalingGroups = answer.autoScalingGroups
    BY DEF MapDescribed, MapNodegroup
  <2> HIDE DEF one
  <2>2. eks'.Nodegroups = eks.Nodegroups \cup {one}
    <3>1. "Nodegroups" \in DOMAIN eks
      BY DEF EKSLists
    <3> QED
      BY <1>3, <3>1
  <2>3. CASE \E x \in eks.Nodegroups : g \in x.autoScalingGroups
    BY <2>2, <2>3
  <2>4. CASE m = n
    BY <2>1, <2>2, <2>4
  <2>5. CASE m # n /\ AsksNodegroup(awsTodo, n)
    <3>1. PICK c \in ToSet(awsTodo) : c.op = "Nodegroups" /\ (DescribesOne(c) => c.name = n)
      BY <2>5 DEF AsksNodegroup
    <3>2. c # Head(awsTodo)
      BY <1>1, <2>5, <3>1
    <3>3. ToSet(awsTodo) = {Head(awsTodo)} \cup ToSet(Tail(awsTodo))
      BY <1>1, TailOf DEF AwsOrdered
    <3>4. c \in ToSet(awsTodo')
      <4>1. c \in ToSet(Tail(awsTodo))
        BY <3>1, <3>2, <3>3
      <4> QED
        BY <1>3, <4>1
    <3> QED
      BY <3>1, <3>4 DEF AsksNodegroup
  <2> QED
    BY <2>3, <2>4, <2>5
<1> QED
  BY <1>1, <1>2, <1>3

LEMMA NodegroupStaysListed ==
    ASSUME DOMAIN eks = EKSLists, AwsOrdered(awsTodo), AwsNamed(world),
           NEW outcome, CallAws(outcome), AwsGivesUp \/ AwsGoesOn, coverage \subseteq coverage',
           NEW n, NEW g, NEW id, LeadsTo(world.aws, n, g, id), NodegroupIsListed(n, g)
    PROVE  NodegroupIsListed(n, g)'
<1>1. CASE Incomplete("eks", "Nodegroups")
  BY <1>1, IncompleteStays DEF NodegroupIsListed
<1>2. CASE /\ Head(awsTodo).op = "Nodegroups" /\ ~Incomplete("eks", "Nodegroups")
  <2>1. n \in DOMAIN world.aws["Nodegroups"]
        /\ g \in world.aws["Nodegroups"][n].autoScalingGroups
    BY DEF LeadsTo
  <2>2. AsksNodegroup(awsTodo, n) \/ \E x \in eks.Nodegroups : g \in x.autoScalingGroups
    BY <1>2 DEF NodegroupIsListed
  <2>3. \/ AsksNodegroup(awsTodo', n)
        \/ \E x \in eks'.Nodegroups : g \in x.autoScalingGroups
        \/ Incomplete("eks", "Nodegroups")'
    BY <1>2, <2>1, <2>2, CallsForNodegroups, ListedNodegroupIsAsked, DescribedNodegroupIsListed
  <2> QED
    BY <2>3 DEF NodegroupIsListed
<1>3. CASE Head(awsTodo).op # "Nodegroups" /\ ~Incomplete("eks", "Nodegroups")
  <2>1. eks'.Nodegroups = eks.Nodegroups
    BY <1>3, CallsChangeOwnLists DEF OnlyOwnListChanges
  <2>2. AsksNodegroup(awsTodo, n) => AsksNodegroup(awsTodo', n)
    <3>1. CASE AwsGivesUp
      BY <3>1 DEF AwsGivesUp
    <3>2. CASE AwsGoesOn
      BY <1>3, <3>2 DEF AwsGoesOn, AsksNodegroup
    <3> QED
      BY <3>1, <3>2
  <2> QED
    BY <1>3, <2>1, <2>2 DEF NodegroupIsListed
<1> QED
  BY <1>1, <1>2, <1>3

LEMMA OtherRequestsStay ==
    ASSUME AwsGivesUp \/ AwsGoesOn
    PROVE  AwsAhead(awsTodo) \ {Head(awsTodo).op} \subseteq AwsAhead(awsTodo')
<1>1. CASE AwsGivesUp
  BY <1>1 DEF AwsGivesUp
<1>2. CASE AwsGoesOn
  BY <1>2 DEF AwsGoesOn, AwsAhead
<1> QED
  BY <1>1, <1>2

\* What is asked for before the groups, and before the instances.
LEMMA EarlierIsBehind ==
    ASSUME AwsOrdered(awsTodo), awsTodo # <<>>
    PROVE  /\ Head(awsTodo).op = "DescribeAutoScalingGroups" =>
                    \A n : ~AsksNodegroup(awsTodo, n)
           /\ Head(awsTodo).op = "DescribeInstances" =>
                    "DescribeAutoScalingGroups" \notin AwsAhead(awsTodo)
<1>1. ToSet(awsTodo) = {Head(awsTodo)} \cup ToSet(Tail(awsTodo))
  BY TailOf DEF AwsOrdered
<1>2. \A c \in ToSet(Tail(awsTodo)) :
            \/ AwsRank[Head(awsTodo).op] < AwsRank[c.op]
            \/ Head(awsTodo).op = c.op
  BY AwsTailIsOrdered
<1>3. /\ ~(AwsRank["DescribeAutoScalingGroups"] < AwsRank["Nodegroups"])
      /\ ~(AwsRank["DescribeInstances"] < AwsRank["DescribeAutoScalingGroups"])
  BY DEF AwsRank
<1>4. ASSUME Head(awsTodo).op = "DescribeAutoScalingGroups", NEW n
      PROVE  ~AsksNodegroup(awsTodo, n)
  BY <1>1, <1>2, <1>3, <1>4 DEF AsksNodegroup
<1>5. ASSUME Head(awsTodo).op = "DescribeInstances"
      PROVE  "DescribeAutoScalingGroups" \notin AwsAhead(awsTodo)
  BY <1>1, <1>2, <1>3, <1>5 DEF AwsAhead
<1> QED
  BY <1>4, <1>5

LEMMA RecordedGap ==
    ASSUME NEW list, NEW area, NEW resource, NEW items,
           RecordInfrastructure(list, area, resource, items, FALSE)
    PROVE  Incomplete(area, resource)'
<1> DEFINE c == CoverageItem(area, resource, "partial", Cardinality(items))
<1>1. c \in coverage'
  BY DEF RecordInfrastructure
<1>2. c.area = area /\ c.resource = resource /\ c.status # "complete"
  BY DEF CoverageItem
<1> HIDE DEF c
<1> QED
  BY <1>1, <1>2 DEF Incomplete, Items, Snapshot

LEMMA GroupIsRead ==
    ASSUME DOMAIN eks = EKSLists, AwsOrdered(awsTodo), NEW outcome,
           DescribeAutoScalingGroups(outcome), NEW n, NEW g, NEW id,
           LeadsTo(world.aws, n, g, id), NodegroupIsListed(n, g), ~Incomplete("eks", "Nodegroups")
    PROVE  \/ \E a \in eks'.AutoScalingGroups : id \in a.instanceIDs
           \/ Incomplete("autoscaling", "DescribeAutoScalingGroups")'
<1> DEFINE groups == world.aws.AutoScalingGroups
           seen == Answered(outcome, RequestedASGs, DOMAIN groups)
           group(k) == MapAutoScalingGroup(k, groups[k], NodegroupOfASG(k))
           items == {group(k) : k \in seen}
<1>1. RecordInfrastructure("AutoScalingGroups", "autoscaling", "DescribeAutoScalingGroups",
                           items, seen = RequestedASGs)
  BY DEF DescribeAutoScalingGroups
<1>2. Head(awsTodo).op = "DescribeAutoScalingGroups" /\ awsTodo # <<>>
  BY DEF DescribeAutoScalingGroups, AwsRunning
<1>3. PICK x \in eks.Nodegroups : g \in x.autoScalingGroups
  BY <1>2, EarlierIsBehind DEF NodegroupIsListed
<1>4. g \in RequestedASGs
  BY <1>3 DEF RequestedASGs, LeadsTo
<1>5. group(g).instanceIDs = DOMAIN groups[g].instances
  BY DEF MapAutoScalingGroup
<1>6. id \in group(g).instanceIDs
  BY <1>5 DEF LeadsTo
<1>7. eks'.AutoScalingGroups = items
  <2>1. eks' = [eks EXCEPT !["AutoScalingGroups"] = items]
    BY <1>1 DEF RecordInfrastructure
  <2>2. "AutoScalingGroups" \in DOMAIN eks
    BY DEF EKSLists
  <2> HIDE DEF items
  <2> QED
    BY <2>1, <2>2
<1>8. CASE seen = RequestedASGs
  <2>1. g \in seen
    BY <1>4, <1>8
  <2>2. group(g) \in items
    BY <2>1
  <2> HIDE DEF items, group
  <2> QED
    BY <1>6, <1>7, <2>2
<1>9. CASE seen # RequestedASGs
  <2>1. RecordInfrastructure("AutoScalingGroups", "autoscaling", "DescribeAutoScalingGroups",
                             items, FALSE)
    BY <1>1, <1>9
  <2> HIDE DEF items
  <2> QED
    BY <2>1, RecordedGap
<1> QED
  BY <1>8, <1>9

LEMMA GroupStaysListed ==
    ASSUME DOMAIN eks = EKSLists, AwsOrdered(awsTodo),
           NEW outcome, CallAws(outcome), AwsGivesUp \/ AwsGoesOn, coverage \subseteq coverage',
           NEW n, NEW g, NEW id, LeadsTo(world.aws, n, g, id),
           NodegroupIsListed(n, g), GroupIsListed(id)
    PROVE  GroupIsListed(id)'
<1>1. CASE \E l \in InfrastructureChain : Incomplete(l[1], l[2])
  BY <1>1, ChainGapStays DEF GroupIsListed
<1>2. CASE Head(awsTodo).op # "DescribeAutoScalingGroups"
  BY <1>1, <1>2, OtherRequestsStay, CallsChangeOwnLists DEF GroupIsListed, OnlyOwnListChanges
<1>3. CASE /\ Head(awsTodo).op = "DescribeAutoScalingGroups"
           /\ ~\E l \in InfrastructureChain : Incomplete(l[1], l[2])
  <2>1. DescribeAutoScalingGroups(outcome)
    BY <1>3 DEF CallAws, AwsRunning, GetCallerIdentity, DescribeCluster, ListFamily, DescribeOne,
                Families, DescribeInstances, DescribeVpcs, DescribeSubnets, DescribeRouteTables,
                DescribeSecurityGroups, DescribeScalingActivities
  <2>2. \/ \E a \in eks'.AutoScalingGroups : id \in a.instanceIDs
        \/ Incomplete("autoscaling", "DescribeAutoScalingGroups")'
    BY <1>3, <2>1, GroupIsRead, ChainMembers
  <2>3. Incomplete("autoscaling", "DescribeAutoScalingGroups")' =>
            (\E l \in InfrastructureChain : Incomplete(l[1], l[2]))'
    BY DEF InfrastructureChain
  <2> QED
    BY <2>2, <2>3 DEF GroupIsListed
<1> QED
  BY <1>1, <1>2, <1>3

LEMMA InstanceIsRead ==
    ASSUME DOMAIN eks = EKSLists, AwsOrdered(awsTodo), NEW outcome,
           DescribeInstances(outcome), NEW n, NEW g, NEW id,
           LeadsTo(world.aws, n, g, id), GroupIsListed(id),
           ~\E l \in InfrastructureChain : Incomplete(l[1], l[2])
    PROVE  \/ \E i \in eks'.Instances : i.instanceID = id
           \/ Incomplete("ec2", "DescribeInstances")'
<1> DEFINE instances == world.aws.Instances
           seen == Answered(outcome, RequestedInstances, DOMAIN instances)
           group(k) == CHOOSE a \in eks.AutoScalingGroups : k \in a.instanceIDs
           instance(k) == MapEC2Instance(k, instances[k], group(k).name, group(k).nodegroupName,
                                         group(k).instances[k])
           items == {instance(k) : k \in seen}
<1>1. RecordInfrastructure("Instances", "ec2", "DescribeInstances", items,
                           seen = RequestedInstances)
  BY DEF DescribeInstances
<1>2. Head(awsTodo).op = "DescribeInstances" /\ awsTodo # <<>>
  BY DEF DescribeInstances, AwsRunning
<1>3. PICK a \in eks.AutoScalingGroups : id \in a.instanceIDs
  BY <1>2, EarlierIsBehind DEF GroupIsListed
<1>4. id \in RequestedInstances
  BY <1>3 DEF RequestedInstances
<1>5. instance(id).instanceID = id
  BY DEF MapEC2Instance
<1>7. eks'.Instances = items
  <2>1. eks' = [eks EXCEPT !["Instances"] = items]
    BY <1>1 DEF RecordInfrastructure
  <2>2. "Instances" \in DOMAIN eks
    BY DEF EKSLists
  <2> HIDE DEF items
  <2> QED
    BY <2>1, <2>2
<1>8. CASE seen = RequestedInstances
  <2>1. id \in seen
    BY <1>4, <1>8
  <2>2. instance(id) \in items
    BY <2>1
  <2> HIDE DEF items, instance
  <2> QED
    BY <1>5, <1>7, <2>2
<1>9. CASE seen # RequestedInstances
  <2>1. RecordInfrastructure("Instances", "ec2", "DescribeInstances", items, FALSE)
    BY <1>1, <1>9
  <2> HIDE DEF items
  <2> QED
    BY <2>1, RecordedGap
<1> QED
  BY <1>8, <1>9

LEMMA InstanceStaysListed ==
    ASSUME DOMAIN eks = EKSLists, AwsOrdered(awsTodo),
           NEW outcome, CallAws(outcome), AwsGivesUp \/ AwsGoesOn, coverage \subseteq coverage',
           NEW n, NEW g, NEW id, LeadsTo(world.aws, n, g, id),
           GroupIsListed(id), InstanceIsListed(id)
    PROVE  InstanceIsListed(id)'
<1>1. CASE \E l \in InfrastructureChain : Incomplete(l[1], l[2])
  BY <1>1, ChainGapStays DEF InstanceIsListed
<1>2. CASE Head(awsTodo).op # "DescribeInstances"
  BY <1>1, <1>2, OtherRequestsStay, CallsChangeOwnLists DEF InstanceIsListed, OnlyOwnListChanges
<1>3. CASE /\ Head(awsTodo).op = "DescribeInstances"
           /\ ~\E l \in InfrastructureChain : Incomplete(l[1], l[2])
  <2>1. DescribeInstances(outcome)
    BY <1>3 DEF CallAws, AwsRunning, GetCallerIdentity, DescribeCluster, ListFamily, DescribeOne,
                Families, DescribeAutoScalingGroups, DescribeVpcs, DescribeSubnets,
                DescribeRouteTables, DescribeSecurityGroups, DescribeScalingActivities
  <2>2. \/ \E i \in eks'.Instances : i.instanceID = id
        \/ Incomplete("ec2", "DescribeInstances")'
    BY <1>3, <2>1, InstanceIsRead
  <2>3. Incomplete("ec2", "DescribeInstances")' =>
            (\E l \in InfrastructureChain : Incomplete(l[1], l[2]))'
    BY DEF InfrastructureChain
  <2> QED
    BY <2>2, <2>3 DEF InstanceIsListed
<1> QED
  BY <1>1, <1>2, <1>3

\* An instance that is behind a node group is so by the same groups in every
\* world: it does not move from one group to another.
InstancesKeepGroups(worlds) ==
    \A id : \E n, g : \A w \in worlds :
        id \in GroupInstances(w.aws) => LeadsTo(w.aws, n, g, id)

Stays(id) == \A w \in history : id \in GroupInstances(w.aws)

Route(worlds, n, g, id) ==
    \A w \in worlds : id \in GroupInstances(w.aws) => LeadsTo(w.aws, n, g, id)

ChainsInv(worlds) ==
    \A n, g, id : Route(worlds, n, g, id) /\ Stays(id) => ChainInv(n, g, id)

HistoryInv == world \in history /\ DOMAIN eks = EKSLists

\* Lists that end, in worlds where the instances stay in their groups.
AreListable(worlds) ==
    /\ AreWorlds(worlds) /\ InstancesKeepGroups(worlds)
    /\ \A w \in worlds : ListsEnd(w)

GapsInv(worlds) == CoverageInv /\ HistoryInv /\ ChainsInv(worlds)

LEMMA ChainStarts ==
    ASSUME NEW worlds, Init
    PROVE  HistoryInv /\ ChainsInv(worlds)
<1>1. HistoryInv
  BY DEF Init, AwsInit, EmptyEKS, HistoryInv
<1>2. \A op \in {"Nodegroups", "DescribeAutoScalingGroups", "DescribeInstances"} :
            Request(op) \in ToSet(awsTodo) /\ Request(op).op = op /\ ~DescribesOne(Request(op))
  BY AwsProgramIsOrdered, AwsOpKeys DEF Init, AwsInit, Request, DescribesOne
<1>3. {"DescribeAutoScalingGroups", "DescribeInstances"} \subseteq AwsAhead(awsTodo)
  BY <1>2 DEF AwsAhead
<1>4. \A n : AsksNodegroup(awsTodo, n)
  BY <1>2 DEF AsksNodegroup
<1> QED
  BY <1>1, <1>3, <1>4 DEF ChainsInv, ChainInv, NodegroupIsListed, GroupIsListed, InstanceIsListed

LEMMA HistoryIsKept ==
    ASSUME HistoryInv, [Next]_vars
    PROVE  HistoryInv'
<1>1. CASE CollectAws
  <2>1. PICK outcome : CallAws(outcome) /\ UNCHANGED <<world, history>>
    BY <1>1 DEF CollectAws
  <2> QED
    BY <2>1, CallsChangeOwnLists DEF OnlyOwnListChanges, HistoryInv
<1>2. CASE CollectKubernetes \/ Change \/ UNCHANGED vars
  BY <1>2 DEF CollectKubernetes, Change, awsVars, vars, HistoryInv
<1> QED
  BY <1>1, <1>2 DEF Next

LEMMA ChainIsKept ==
    ASSUME NEW worlds, GapsInv(worlds), world \in worlds, ListsEnd(world), [Next]_vars
    PROVE  HistoryInv' /\ ChainsInv(worlds)'
<1>1. coverage \subseteq coverage'
  BY CoverageIsKept DEF GapsInv
<1>2. HistoryInv'
  BY HistoryIsKept DEF GapsInv
<1>3. \A id : Stays(id)' => Stays(id)
  <2>1. history \subseteq history'
    BY DEF Next, CollectAws, CollectKubernetes, Change, vars
  <2> QED
    BY <2>1 DEF Stays
<1> SUFFICES ASSUME NEW n, NEW g, NEW id, Route(worlds, n, g, id), Stays(id)'
             PROVE  ChainInv(n, g, id)'
  BY <1>2 DEF ChainsInv, Route
<1>4. ChainInv(n, g, id)
  BY <1>3 DEF GapsInv, ChainsInv
<1>5. CASE CollectAws
  <2>1. PICK outcome : CallAws(outcome)
    BY <1>5 DEF CollectAws
  <2>2. AwsGivesUp \/ AwsGoesOn
    BY <2>1, AwsCallKeepsCoverage DEF GapsInv, CoverageInv, ListsEnd
  <2>3. LeadsTo(world.aws, n, g, id)
    BY <1>3 DEF Stays, GapsInv, HistoryInv, Route
  <2>4. DOMAIN eks = EKSLists /\ AwsOrdered(awsTodo) /\ AwsNamed(world)
    BY DEF GapsInv, HistoryInv, CoverageInv, ListsEnd
  <2> QED
    BY <1>1, <1>4, <2>1, <2>2, <2>3, <2>4, NodegroupStaysListed, GroupStaysListed,
       InstanceStaysListed DEF ChainInv
<1>6. CASE CollectKubernetes \/ Change \/ UNCHANGED vars
  <2>1. awsTodo' = awsTodo /\ eks' = eks
    BY <1>6 DEF CollectKubernetes, Change, awsVars, vars
  <2>2. Incomplete("eks", "Nodegroups") => Incomplete("eks", "Nodegroups")'
    BY <1>1, IncompleteStays
  <2>3. NodegroupIsListed(n, g)'
    BY <1>4, <2>1, <2>2 DEF ChainInv, NodegroupIsListed
  <2>4. GroupIsListed(id)' /\ InstanceIsListed(id)'
    BY <1>1, <1>4, <2>1, ChainGapStays DEF ChainInv, GroupIsListed, InstanceIsListed
  <2> QED
    BY <2>3, <2>4 DEF ChainInv
<1> QED
  BY <1>5, <1>6 DEF Next

LEMMA ChainExplainsAll ==
    ASSUME NEW worlds, InstancesKeepGroups(worlds), CoverageInv, ChainsInv(worlds), Done
    PROVE  MissingInstanceIsExplained
<1>1. awsTodo = <<>>
  BY DEF Done, CoverageInv, InOrder
<1>2. AwsAhead(awsTodo) = {}
  BY <1>1 DEF AwsAhead, ToSet
<1> SUFFICES ASSUME NEW id, id \notin {i.instanceID : i \in eks.Instances}, Stays(id)
             PROVE  \E l \in InfrastructureChain : Incomplete(l[1], l[2])
  BY DEF MissingInstanceIsExplained, Stays
<1>3. PICK n, g : Route(worlds, n, g, id)
  BY DEF InstancesKeepGroups, Route
<1>4. InstanceIsListed(id)
  BY <1>3 DEF ChainsInv, ChainInv
<1> QED
  BY <1>2, <1>4 DEF InstanceIsListed

\* No gap is silent, whatever changes during the scan and whichever calls fail:
\* each list has one coverage item, and an instance that was there all the time
\* is only missing when an item of its chain is incomplete (collector.go of both
\* collectors, infrastructure.go).  The lists end, and no instance moves from
\* one group to another meanwhile.
THEOREM GapsAlwaysRecorded ==
    ASSUME NEW CONSTANT worlds, AreListable(worlds)
    PROVE  Spec => []GapsAreRecorded
<1>1. Init => GapsInv(worlds)
  BY CoverageStarts, ChainStarts DEF GapsInv
<1>2. GapsInv(worlds) /\ world \in worlds /\ [Next]_vars => GapsInv(worlds)'
  <2> SUFFICES ASSUME GapsInv(worlds), world \in worlds, [Next]_vars PROVE GapsInv(worlds)'
    OBVIOUS
  <2>1. ListsEnd(world)
    BY DEF AreListable
  <2> QED
    BY <2>1, CoverageIsKept, ChainIsKept DEF GapsInv
<1>3. GapsInv(worlds) => GapsAreRecorded
  BY CoverageTellsAll, ChainExplainsAll DEF GapsInv, GapsAreRecorded, AreListable
<1>4. Spec => [](world \in worlds)
  BY WorldStaysAmong DEF AreListable
<1> QED
  BY <1>1, <1>2, <1>3, <1>4, PTL DEF Spec
=============================================================================
