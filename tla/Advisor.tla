-------------------------------- MODULE Advisor --------------------------------
(***************************************************************************)
(* The deterministic advisor (internal/advisor/advisor.go): what a cluster *)
(* can do, concluded from one snapshot.  Every conclusion carries an       *)
(* assessment, the objects it rests on and how much of what it had to look *)
(* at was read.  A snapshot is a record [kubernetes, eks, coverage]; it    *)
(* may be torn, so a rule that joins two lists must not trust the names.   *)
(***************************************************************************)
EXTENDS Inventory

Capability(key, scope, implementation, assessment, basis, covered, evidence) ==
    [key |-> key, scope |-> scope, implementation |-> implementation,
     assessment |-> assessment, basis |-> basis, coverage |-> covered,
     evidence |-> evidence]

(***************************************************************************)
(* Coverage of a conclusion.                                               *)
(***************************************************************************)
Items(s, area, resource) ==
    {c \in s.coverage : c.area = area /\ c.resource = resource}

\* Complete when every list was recorded, and as complete.
CombinedCoverage(s, lists) ==
    IF \A l \in lists : /\ Items(s, l[1], l[2]) # {}
                        /\ \A c \in Items(s, l[1], l[2]) : c.status = "complete"
    THEN "complete" ELSE "partial"

KubernetesCoverage(s, resources) ==
    CombinedCoverage(s, {<<"kubernetes", r>> : r \in resources})

\* The status of one list as it was recorded.
CoverageArea(s, area, resource) ==
    IF Items(s, area, resource) = {} THEN "partial"
    ELSE (CHOOSE c \in Items(s, area, resource) : TRUE).status

(***************************************************************************)
(* Kubernetes: networking, storage, extensions.                            *)
(***************************************************************************)
\* One conclusion for each class, or one for the cluster that knows nothing.
IngressCapabilities(s) ==
    LET classes == s.kubernetes.IngressClasses
        covered == KubernetesCoverage(s, {"IngressClasses"})
    IN  IF classes = {}
        THEN {Capability("networking.ingress", "cluster", "", "unknown", "none", covered, {})}
        ELSE {Capability("networking.ingress", c.ref.name, c.controller, "supported",
                         "declared", covered, {c.ref}) : c \in classes}

GatewayCapabilities(s) ==
    LET classes == s.kubernetes.GatewayClasses
    IN  IF classes = {}
        THEN {Capability("networking.gateway", "cluster", "", "unknown", "none",
                         KubernetesCoverage(s, {"GatewayClasses", "APIResources"}), {})}
        ELSE {Capability("networking.gateway", c.ref.name, c.controllerName, "supported",
                         "declared", KubernetesCoverage(s, {"GatewayClasses"}), {c.ref}) :
                c \in classes}

\* Mutant: the UIDs of claim and reference are not compared.
BoundVolumesByName(s, class) ==
    {b \in s.kubernetes.PersistentVolumeClaims \X s.kubernetes.PersistentVolumes :
        LET pvc == b[1]
            pv == b[2]
        IN  /\ pvc.storageClassName = class /\ pv.storageClassName = class
            /\ pvc.phase = "Bound" /\ pv.phase = "Bound"
            /\ pvc.volumeName = pv.ref.name
            /\ pv.claimRef.name = pvc.ref.name /\ pv.claimRef.namespace = pvc.ref.namespace
            /\ "ReadWriteMany" \in pvc.accessModes /\ "ReadWriteMany" \in pv.accessModes}

\* A claim and a volume that name each other.  The two lists are read at
\* different moments: a recreated claim keeps its name but not its UID.
BoundVolumes(s, class) ==
    {b \in s.kubernetes.PersistentVolumeClaims \X s.kubernetes.PersistentVolumes :
        LET pvc == b[1]
            pv == b[2]
        IN  /\ pvc.storageClassName = class /\ pv.storageClassName = class
            /\ pvc.phase = "Bound" /\ pv.phase = "Bound"
            /\ pvc.volumeName = pv.ref.name
            /\ pv.claimRef.name = pvc.ref.name /\ pv.claimRef.namespace = pvc.ref.namespace
            /\ pv.claimRef.uid = "" \/ pvc.ref.uid = "" \/ pv.claimRef.uid = pvc.ref.uid
            /\ "ReadWriteMany" \in pvc.accessModes /\ "ReadWriteMany" \in pv.accessModes}

RwxCapability(s, class) ==
    LET bound == BoundVolumes(s, class.ref.name)
    IN  Capability("storage.rwx", class.ref.name, class.provisioner,
            IF bound = {} THEN "unknown" ELSE "supported",
            IF bound = {} THEN "none" ELSE "observed",
            KubernetesCoverage(s, {"StorageClasses", "PersistentVolumes",
                                   "PersistentVolumeClaims"}),
            {class.ref} \cup {b[1].ref : b \in bound} \cup {b[2].ref : b \in bound})

ExpansionCapability(s, class) ==
    Capability("storage.expansion", class.ref.name, class.provisioner,
        CASE class.allowVolumeExpansion = ""      -> "unknown"
          [] class.allowVolumeExpansion = "false" -> "unsupported"
          [] class.allowVolumeExpansion = "true"  -> "supported",
        "declared", KubernetesCoverage(s, {"StorageClasses"}), {class.ref})

StorageCapabilities(s) ==
    LET classes == s.kubernetes.StorageClasses
    IN  IF classes = {}
        THEN {Capability("storage.rwx", "cluster", "", "unknown", "none",
                         KubernetesCoverage(s, {"StorageClasses"}), {})}
        ELSE UNION {{RwxCapability(s, c), ExpansionCapability(s, c)} : c \in classes}

ServedVersions(crd) ==
    {crd.versions[i].name : i \in {j \in DOMAIN crd.versions : crd.versions[j].served}}

ExtensionCapabilities(s) ==
    LET crds == s.kubernetes.CustomResourceDefinitions
        covered == KubernetesCoverage(s, {"CustomResourceDefinitions"})
    IN  IF crds = {}
        THEN {Capability("extensions.api", "cluster", "", "unknown", "none", covered, {})}
        ELSE {Capability("extensions.api", c.ref.name, c.group,
                         IF ServedVersions(c) = {} THEN "unknown" ELSE "supported",
                         "declared", covered, {c.ref}) : c \in crds}

(***************************************************************************)
(* EKS: insights, managed add-ons, node groups.                            *)
(***************************************************************************)
InsightAssessment(insight) ==
    CASE insight.status \in {"PASSING", "PASSED", "OK", "RESOLVED"} -> "supported"
      [] insight.status \in {"WARNING", "ERROR", "FAILING", "FAILED"} -> "unsupported"
      [] OTHER -> "unknown"

\* "category/name/version", of what is known of the three.
InsightScope(insight) ==
    LET parts == SelectSeq(<<insight.category, insight.name, insight.kubernetesVersion>>,
                           LAMBDA part : part # "")
    IN  IF parts = <<>> THEN "cluster"
        ELSE FoldLeft(LAMBDA scope, part : scope \o "/" \o part, Head(parts), Tail(parts))

\* A resource of an insight is named by its URI, else its ARN.
InsightResourceRef(resource) ==
    RefTo("", "EKSInsightResource", "",
          CASE resource.uri # "" -> resource.uri
            [] resource.uri = "" /\ resource.arn # "" -> resource.arn
            [] OTHER -> "unknown")

EKSInsightCapability(s, insight) ==
    Capability("eks.insight", InsightScope(insight), insight.kubernetesVersion,
        InsightAssessment(insight), "aws-reported", CoverageArea(s, "eks", "Insights"),
        {RefTo("", "EKSInsight", "", InsightScope(insight))}
            \cup {InsightResourceRef(r) : r \in insight.resources})

InsightCapabilities(s) ==
    IF s.eks.Insights = {}
    THEN {Capability("eks.insight", "cluster", "", "unknown", "none",
                     CoverageArea(s, "eks", "Insights"), {})}
    ELSE {EKSInsightCapability(s, i) : i \in s.eks.Insights}

\* The add-on versions that the insights of all target releases call compatible.
CompatibleVersions(s, addon) ==
    UNION {UNION {a.versions : a \in {b \in i.addonCompatibility : b.name = addon.name}} :
            i \in s.eks.Insights}

\* An unhealthy add-on is unsupported; a healthy one whose version no insight
\* lists is unknown.  The coverage is that of the add-ons alone.
AddonCapabilities(s) ==
    {LET compatible == CompatibleVersions(s, a)
         unhealthy == a.status \notin {"", "ACTIVE"} \/ a.issues # {}
         unlisted == compatible # {} /\ a.version \notin compatible
     IN  Capability("eks.addon", a.name, a.version,
            CASE unhealthy -> "unsupported"
              [] ~unhealthy /\ unlisted -> "unknown"
              [] OTHER -> "supported",
            IF compatible # {} THEN "aws-reported" ELSE "observed",
            CoverageArea(s, "eks", "Addons"), {RefTo("", "Addon", "", a.name)}) :
        a \in s.eks.Addons}

Label(object, key) == IF key \in DOMAIN object.labels THEN object.labels[key] ELSE ""

NodesForNodegroup(s, name) ==
    {n \in s.kubernetes.Nodes : Label(n, "eks.amazonaws.com/nodegroup") = name}

NodegroupAssessment(group, nodes) ==
    CASE group.status \notin {"", "ACTIVE"} -> "unsupported"
      [] group.status \in {"", "ACTIVE"} /\ (nodes = {} \/ group.amiType = "CUSTOM") -> "unknown"
      [] OTHER -> "supported"

NodegroupCapabilities(s) ==
    {LET nodes == NodesForNodegroup(s, g.name)
     IN  Capability("eks.nodegroup", g.name, g.releaseVersion, NodegroupAssessment(g, nodes),
            IF nodes = {} THEN "declared" ELSE "observed",
            CombinedCoverage(s, {<<"eks", "Nodegroups">>, <<"kubernetes", "Nodes">>}),
            {RefTo("", "Nodegroup", "", g.name)} \cup {n.ref : n \in nodes}) :
        g \in s.eks.Nodegroups}

\* Nodes whose group was not collected are grouped by the label that tells who
\* made them.
UnmanagedNodeScope(s, node) ==
    LET group == Label(node, "eks.amazonaws.com/nodegroup")
        pool == Label(node, "karpenter.sh/nodepool")
        provisioner == Label(node, "karpenter.sh/provisioner-name")
        compute == Label(node, "eks.amazonaws.com/compute-type")
    IN  CASE group # "" /\ \E g \in s.eks.Nodegroups : g.name = group -> ""
          [] group # "" -> group
          [] group = "" /\ pool # "" -> "karpenter/" \o pool
          [] group = "" /\ pool = "" /\ provisioner # "" -> "karpenter/" \o provisioner
          [] group = "" /\ pool = "" /\ provisioner = "" /\ compute # "" -> compute
          [] OTHER -> "self-managed/unknown"

UnmanagedNodeGroups(s) ==
    LET nodes(scope) == {n \in s.kubernetes.Nodes : UnmanagedNodeScope(s, n) = scope}
    IN  {Capability("eks.nodegroup", scope, "", "unknown", "observed", "partial",
                    {n.ref : n \in nodes(scope)}) :
            scope \in {UnmanagedNodeScope(s, n) : n \in s.kubernetes.Nodes} \ {""}}

\* Analyze(): all conclusions of one snapshot.
Capabilities(s) ==
    IngressCapabilities(s) \cup GatewayCapabilities(s) \cup StorageCapabilities(s)
    \cup ExtensionCapabilities(s) \cup InsightCapabilities(s) \cup AddonCapabilities(s)
    \cup NodegroupCapabilities(s) \cup UnmanagedNodeGroups(s)

=============================================================================
