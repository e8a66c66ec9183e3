------------------------------- MODULE Inventory -------------------------------
(***************************************************************************)
(* The provider-neutral snapshot (internal/inventory/snapshot.go) that the *)
(* two collectors fill and that every later stage reads, and what the      *)
(* collectors read it from: the API servers of the cluster and of AWS.     *)
(*                                                                         *)
(* Lists whose order nobody reads are sets; labels, selectors and tags are *)
(* functions; texts, quantities and counters that no stage tells apart are *)
(* one opaque value of a record.                                           *)
(***************************************************************************)
EXTENDS Naturals, Sequences, FiniteSets, SequencesExt

VARIABLES
    world,          \* the objects the API servers hold: [kubernetes, aws]
    kubernetes,     \* the Kubernetes half of the snapshot, by list
    eks,            \* the AWS half of the snapshot, by list
    coverage        \* the coverage items: how much of each list was read

Ref(apiVersion, kind, object) ==
    [apiVersion |-> apiVersion, kind |-> kind, namespace |-> object.namespace,
     name |-> object.name, uid |-> object.uid]

\* A reference by name: the field it is read from carries no UID.
RefTo(apiVersion, kind, namespace, name) ==
    [apiVersion |-> apiVersion, kind |-> kind, namespace |-> namespace,
     name |-> name, uid |-> ""]

NoRef == RefTo("", "", "", "")

\* Owners are mapped with an empty namespace: an OwnerReference has none.
OwnerRefs(object) ==
    [i \in DOMAIN object.owners |->
        [apiVersion |-> object.owners[i].apiVersion, kind |-> object.owners[i].kind,
         namespace |-> "", name |-> object.owners[i].name, uid |-> object.owners[i].uid]]

CoverageItem(area, resource, status, count) ==
    [area |-> area, resource |-> resource, status |-> status, count |-> count]

Complete(area, resource, count) == CoverageItem(area, resource, "complete", count)
Partial(area, resource, count) == CoverageItem(area, resource, "partial", count)

KubernetesLists ==
    {"Version", "APIResources", "Namespaces", "Nodes", "ServiceAccounts", "Pods", "Services",
     "ConfigMaps", "Secrets", "CustomResourceDefinitions", "CustomResourceInstances",
     "APIServices", "Workloads", "EndpointSlices", "IngressClasses", "Ingresses",
     "GatewayClasses", "Gateways", "GatewayRoutes", "ReferenceGrants",
     "GatewayPolicies", "StorageClasses", "PersistentVolumes",
     "PersistentVolumeClaims", "CSIDrivers", "CSINodes", "VolumeAttachments",
     "RuntimeClasses", "Roles", "RoleBindings", "ClusterRoles",
     "ClusterRoleBindings", "HorizontalPodAutoscalers", "PodDisruptionBudgets",
     "NetworkPolicies", "ResourceQuotas", "LimitRanges", "AdmissionWebhooks",
     "RunningContainers", "RunningImages"}

EmptyKubernetes == [list \in KubernetesLists |-> {}]

EKSLists ==
    {"Cluster", "Addons", "Nodegroups", "Insights", "AccessEntries",
     "PodIdentityAssociations", "AutoScalingGroups", "Instances", "VPCs",
     "Subnets", "SecurityGroups", "ScalingActivities"}

EmptyEKS == [list \in EKSLists |-> {}]
=============================================================================
