-------------------------------- MODULE Compare --------------------------------
(***************************************************************************)
(* The comparison of two recorded snapshots before a migration             *)
(* (internal/compare/compare.go).  It never connects to a cluster: what a  *)
(* snapshot lacks is reported as missing, and only the coverage warnings   *)
(* tell an absent object from a list that was not read.                    *)
(*                                                                         *)
(* A compared set is a set of pairs <<key, value>>.  Both snapshots are    *)
(* there: a missing one is a finding of its own and nothing is compared.   *)
(***************************************************************************)
EXTENDS Advisor

Finding(severity, category, key, names) ==
    [severity |-> severity, category |-> category, key |-> key, names |-> names]

\* A finding that is only made when it has something to name.
FindingIf(names, severity, category, key) ==
    IF names = {} THEN {} ELSE {Finding(severity, category, key, names)}

(***************************************************************************)
(* Versions: a sequence of numbers, three for a server, two for EKS.       *)
(***************************************************************************)
VersionOf(s) ==
    IF s.kubernetes.Version # {} THEN CHOOSE v \in s.kubernetes.Version : TRUE
    ELSE IF s.eks.Cluster # {} THEN (CHOOSE c \in s.eks.Cluster : TRUE).version
    ELSE <<>>

\* Parts that are absent do not count as zeroes: they shift the rank.
VersionRank(version) == FoldLeft(LAMBDA rank, part : rank * 1000 + part, 0, version)

CompareVersions(source, target) ==
    LET src == VersionOf(source)
        dst == VersionOf(target)
    IN  IF src = <<>> \/ dst = <<>> \/ src = dst THEN {}
        ELSE {Finding(IF VersionRank(dst) < VersionRank(src) THEN "warn" ELSE "info",
                      "version", "kubernetes.version", {src, dst})}

(***************************************************************************)
(* Capabilities, by key and scope.                                         *)
(***************************************************************************)
CapabilityKey(c) == <<c.key, c.scope>>

CapabilityMap(capabilities) ==
    [key \in {CapabilityKey(c) : c \in capabilities} |->
        CHOOSE c \in {d \in capabilities : CapabilityKey(d) = key} : TRUE]

\* `src` and `dst` are the maps of the source and of the target.  Supported at
\* the source and not so, or not mentioned, at the target.
CapabilityFindings(src, dst) ==
    {Finding("warn", "capability", key, {key}) :
        key \in {k \in DOMAIN src :
                    /\ src[k].assessment = "supported"
                    /\ k \in DOMAIN dst => dst[k].assessment # "supported"}}

AssessmentOf(map, key) == IF key \in DOMAIN map THEN map[key].assessment ELSE "missing"

CapabilityDiffs(src, dst) ==
    {[key |-> key[1], scope |-> key[2], source |-> AssessmentOf(src, key),
      target |-> AssessmentOf(dst, key)] :
        key \in {k \in DOMAIN src \cup DOMAIN dst :
                    \/ k \notin DOMAIN src \cap DOMAIN dst
                    \/ src[k].assessment # dst[k].assessment
                    \/ src[k].implementation # dst[k].implementation
                    \/ src[k].coverage # dst[k].coverage}}

(***************************************************************************)
(* Inventory, category by category.                                        *)
(***************************************************************************)
Namespaced(object) == <<object.ref.namespace, object.ref.name>>

InventorySets(s) ==
    LET k == s.kubernetes IN
    [apiResources |->
        {<<<<r.group, r.version, r.resource>>, r.verbs>> : r \in k.APIResources},
     customResourceDefinitions |->
        {<<<<c.group, c.kind>>, ServedVersions(c)>> : c \in k.CustomResourceDefinitions},
     namespaces |-> {<<n.ref.name, n.phase>> : n \in k.Namespaces},
     ingressClasses |-> {<<c.ref.name, c.controller>> : c \in k.IngressClasses},
     gatewayClasses |-> {<<c.ref.name, c.controllerName>> : c \in k.GatewayClasses},
     storageClasses |->
        {<<c.ref.name, <<c.provisioner, c.bindingMode, c.allowVolumeExpansion>>>> :
            c \in k.StorageClasses},
     csiDrivers |-> {<<d.ref.name, d.modes>> : d \in k.CSIDrivers},
     runtimeClasses |-> {<<c.ref.name, c.handler>> : c \in k.RuntimeClasses},
     nodePlatforms |-> {<<n.nodeInfo, n.nodeInfo>> : n \in k.Nodes},
     serviceAccounts |-> {<<Namespaced(a), a.imagePullSecrets>> : a \in k.ServiceAccounts},
     configMaps |-> {<<Namespaced(c), c.data>> : c \in k.ConfigMaps},
     secrets |-> {<<Namespaced(c), <<c.type, c.keys>>>> : c \in k.Secrets},
     persistentVolumeClaims |->
        {<<Namespaced(c), <<c.storageClassName, c.accessModes>>>> :
            c \in k.PersistentVolumeClaims}]

Keys(pairs) == {p[1] : p \in pairs}

\* diffMaps(): the keys of one side, of the other, and with another value.
DiffMaps(source, target) ==
    [onlyInSource |-> Keys(source) \ Keys(target),
     onlyInTarget |-> Keys(target) \ Keys(source),
     changed |-> Keys(source \ target) \cap Keys(target)]

\* Of the compared categories, the last three are listed but raise no finding.
Relevant == {"apiResources", "customResourceDefinitions", "namespaces", "ingressClasses",
             "gatewayClasses", "storageClasses", "csiDrivers", "runtimeClasses",
             "nodePlatforms"}
Compared == Relevant \cup {"serviceAccounts", "configMaps", "secrets"}

SeverityForCategory(category) ==
    IF category \in {"apiResources", "customResourceDefinitions", "storageClasses",
                     "runtimeClasses"}
    THEN "warn" ELSE "info"

\* The sets of the two snapshots, category by category.
InventoryDiffs(source, target) ==
    [category \in Compared |-> DiffMaps(source[category], target[category])]

InventoryFindings(diffs) ==
    UNION {FindingIf(diffs[c].onlyInSource, SeverityForCategory(c), "inventory", c)
           \cup FindingIf(diffs[c].changed, "info", "inventory", c \o ".changed") :
            c \in Relevant}

(***************************************************************************)
(* What the workloads of the source need and the target does not have.     *)
(* Image pull secrets and the templates of claims are not looked at.       *)
(***************************************************************************)
NeedsOf(workloads) ==
    LET referred(refs) == {<<r.namespace, r.name>> : r \in refs}
    IN  [namespaces |-> {w.ref.namespace : w \in workloads} \ {""},
         serviceAccounts |-> {<<w.ref.namespace, w.serviceAccountName>> :
                                w \in {v \in workloads : v.serviceAccountName # ""}},
         runtimeClasses |-> {w.runtimeClassName : w \in workloads} \ {""},
         configMaps |-> referred(UNION {w.configRefs : w \in workloads}),
         secrets |-> referred(UNION {w.secretRefs : w \in workloads}),
         persistentVolumeClaims |->
            UNION {{<<w.ref.namespace, v.persistentVolumeClaim>> :
                        v \in {u \in w.volumes : u.persistentVolumeClaim # ""}} :
                    w \in workloads}]

WorkloadNeeds(s) == NeedsOf(s.kubernetes.Workloads)

MissingReferences(needs, sets) ==
    [category \in DOMAIN needs |-> needs[category] \ Keys(sets[category])]

WorkloadFindings(missing) ==
    UNION {FindingIf(missing[c], IF c = "persistentVolumeClaims" THEN "info" ELSE "warn",
                     "workload", c) : c \in DOMAIN missing}

(***************************************************************************)
(* Coverage and the whole report.                                          *)
(***************************************************************************)
\* Mutant: a denied list is no gap.
CoverageWarningsButDenied(role, s) ==
    {[role |-> role, area |-> c.area, resource |-> c.resource, status |-> c.status] :
        c \in {i \in s.coverage : i.status \in {"partial", "unavailable"}}}

CoverageWarnings(role, s) ==
    {[role |-> role, area |-> c.area, resource |-> c.resource, status |-> c.status] :
        c \in {i \in s.coverage : i.status \notin {"", "complete"}}}

ReportOf(source, target, capabilities, diffs, missing, warnings) ==
    [findings |-> CompareVersions(source, target)
                  \cup CapabilityFindings(capabilities.source, capabilities.target)
                  \cup InventoryFindings(diffs)
                  \cup WorkloadFindings(missing)
                  \cup {Finding("info", "coverage", w, {w}) : w \in warnings},
     capabilityDiffs |-> CapabilityDiffs(capabilities.source, capabilities.target),
     inventoryDiffs |-> diffs,
     missingReferences |-> missing,
     coverageWarnings |-> warnings]

CompareReport(source, target) ==
    ReportOf(source, target,
        [source |-> CapabilityMap(Capabilities(source)),
         target |-> CapabilityMap(Capabilities(target))],
        InventoryDiffs(InventorySets(source), InventorySets(target)),
        MissingReferences(WorkloadNeeds(source), InventorySets(target)),
        CoverageWarnings("source", source) \cup CoverageWarnings("target", target))
=============================================================================
