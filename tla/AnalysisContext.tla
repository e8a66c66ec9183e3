---------------------------- MODULE AnalysisContext ----------------------------
(***************************************************************************)
(* What an analysis sends to the language model                            *)
(* (internal/analysis/context.go): the snapshot cut down to the page, the  *)
(* namespace and the objects that the reader selected, without UIDs, every *)
(* list limited, every cut announced in `omitted`.                         *)
(*                                                                         *)
(* A cut list keeps some of its items: which ones follows from an order    *)
(* that the model does not keep.                                           *)
(***************************************************************************)
EXTENDS Compare

CONSTANTS Limits        \* the max* constants, as a record

ASSUME LimitsAssumption ==
    \A limit \in {"workloads", "images", "networkRefs", "storageRefs", "coverage",
                  "advisor", "pageItems"} : Limits[limit] \in Nat \ {0}

\* take(): a list that is longer than its limit is cut, and that is said.
Take(items, limit, message) ==
    IF Cardinality(items) <= limit THEN [items |-> items, omitted |-> {}]
    ELSE [items |-> CHOOSE kept \in kSubset(limit, items) : TRUE, omitted |-> {message}]

CleanRef(ref) == [ref EXCEPT !.uid = ""]
CleanRefs(refs) == {CleanRef(r) : r \in refs}
CleanOwners(owners) == [i \in DOMAIN owners |-> CleanRef(owners[i])]

(***************************************************************************)
(* The scope: a page or a resource type, a namespace, selected objects.    *)
(***************************************************************************)
\* refKey() ignores the UID: a selection outlives the objects it was made from.
RefKey(ref) == <<ref.apiVersion, ref.kind, ref.namespace, ref.name>>

\* Mutant: a selection means the very object.
SelectedByUID(ref, refs) == ref \in refs

Selected(ref, refs) == \E r \in refs : RefKey(r) = RefKey(ref)

ScopeRefMatches(ref, scope) ==
    /\ scope.namespace = "" \/ ref.namespace \in {"", scope.namespace}
    /\ scope.refs = {} \/ Selected(ref, scope.refs)

PageType(scope) == IF scope.resourceType # "" THEN scope.resourceType ELSE scope.page

\* Workloads and images are cut by a scope of another resource type too, and a
\* workload must be in the namespace.
FilterWorkloads(s, scope) ==
    {w \in s.kubernetes.Workloads :
        /\ scope.namespace = "" \/ w.ref.namespace = scope.namespace
        /\ scope.refs = {} \/ Selected(w.ref, scope.refs)
        /\ scope.resourceType \in {"", "workload", "workloads"}}

FilterRunningImages(s, scope) ==
    {i \in s.kubernetes.RunningImages :
        /\ scope.namespace = "" \/ scope.namespace \in i.namespaces
        /\ scope.refs = {} \/ \E w \in i.workloads : Selected(w, scope.refs)
        /\ scope.resourceType \in {"", "image", "images", "runningImages"}}

(***************************************************************************)
(* What a workload is linked to.  The joins go by namespace and name only, *)
(* so a claim may be joined with a volume of an earlier claim, and two     *)
(* workloads of one name share their links.                                *)
(***************************************************************************)
Key(ref) == <<ref.namespace, ref.name>>

\* Of several volumes that name one claim, one is kept.
OneOf(items) == IF items = {} THEN {} ELSE {CHOOSE i \in items : TRUE}

StorageUses(s, workload) ==
    {LET claims == {c \in s.kubernetes.PersistentVolumeClaims :
                        Key(c.ref) = <<workload.ref.namespace, v.persistentVolumeClaim>>}
         pvs == OneOf({p \in s.kubernetes.PersistentVolumes :
                        \E c \in claims : Key(p.claimRef) = Key(c.ref)})
         classes == {k \in s.kubernetes.StorageClasses :
                        \E c \in claims : k.ref.name = c.storageClassName}
     IN  [volume |-> v.name, type |-> v.type, claim |-> v.persistentVolumeClaim,
          claims |-> CleanRefs({c.ref : c \in claims}),
          persistentVolumes |-> CleanRefs({p.ref : p \in pvs}),
          provisioners |-> {k.provisioner : k \in classes}] : v \in workload.volumes}

\* Every label the service asks for is one the workload selects by.
SelectorMatches(service, workload) ==
    /\ DOMAIN service # {} /\ DOMAIN workload # {}
    /\ \A key \in DOMAIN service : key \in DOMAIN workload /\ workload[key] = service[key]

ServicesOf(s, workload) ==
    {v \in s.kubernetes.Services : /\ v.ref.namespace = workload.ref.namespace
                                   /\ SelectorMatches(v.selector, workload.selector)}

NetworkUse(kind, ref, backend) == [kind |-> kind, ref |-> CleanRef(ref), backend |-> backend]

\* A use for each service, and for each backend of a route or an ingress that is
\* one of these services; a backend of two rules of a route is one use here.
NetworkUses(s, workload) ==
    LET services == ServicesOf(s, workload)
        backing == {Key(v.ref) : v \in services}
        backends(i) == {<<i.ref.namespace, b.name>> : b \in i.backends}
                       \cup {<<i.ref.namespace, r.serviceName>> : r \in i.rules}
        targets(r) == {Key(b) : b \in UNION {rule.backendRefs : rule \in r.rules}}
    IN  {NetworkUse("Service", v.ref, <<>>) : v \in services}
        \cup (UNION {{NetworkUse("Ingress", i.ref, b) : b \in backends(i) \cap backing} :
                         i \in s.kubernetes.Ingresses})
        \cup UNION {{NetworkUse(r.ref.kind, r.ref, b) : b \in targets(r) \cap backing} :
                        r \in s.kubernetes.GatewayRoutes}

\* Links are collected by namespace and name, whatever the kind.
Namesakes(s, workload) == {w \in s.kubernetes.Workloads : Key(w.ref) = Key(workload.ref)}

TrimContainers(containers) ==
    {[c EXCEPT !.envSecretRefs = {}, !.imageID = ""] : c \in containers}

WorkloadContext(s, w) ==
    LET linked == Namesakes(s, w)
        storage == Take(UNION {StorageUses(s, v) : v \in linked}, Limits.storageRefs,
                        "storage references")
        network == Take(UNION {NetworkUses(s, v) : v \in linked}, Limits.networkRefs,
                        "network references")
    IN  [item |-> [w EXCEPT !.ref = CleanRef(@), !.owners = CleanOwners(@),
                            !.containers = TrimContainers(@),
                            !.initContainers = TrimContainers(@),
                            !.configRefs = CleanRefs(@), !.secretRefs = CleanRefs(@)],
         storage |-> storage.items, network |-> network.items,
         omitted |-> storage.omitted \cup network.omitted]

(***************************************************************************)
(* The page the reader looks at.                                           *)
(***************************************************************************)
PageLists ==
    [nodes |-> {"Nodes"},
     workloads |-> {"Pods"},
     network |-> {"Services", "EndpointSlices", "IngressClasses", "Ingresses",
                  "GatewayClasses", "Gateways", "GatewayRoutes", "ReferenceGrants",
                  "GatewayPolicies"},
     storage |-> {"StorageClasses", "PersistentVolumes", "PersistentVolumeClaims",
                  "CSIDrivers", "CSINodes", "VolumeAttachments", "RuntimeClasses"},
     security |-> {"Roles", "RoleBindings", "AdmissionWebhooks"}]

\* The roles and the bindings of a page are those of a namespace and those of
\* the cluster, joined before they are cut.
SectionLists(list) ==
    CASE list = "Roles" -> {"Roles", "ClusterRoles"}
      [] list = "RoleBindings" -> {"RoleBindings", "ClusterRoleBindings"}
      [] list \notin {"Roles", "RoleBindings"} -> {list}

SectionItems(s, list) == UNION {s.kubernetes[l] : l \in SectionLists(list)}

\* References inside an item lose their UIDs too.
CleanItem(list, i) ==
    LET item == [i EXCEPT !.ref = CleanRef(@)] IN
    CASE list = "Pods" ->
            [item EXCEPT !.owners = CleanOwners(@), !.containers = TrimContainers(@),
                         !.initContainers = TrimContainers(@),
                         !.ephemeralContainers = TrimContainers(@)]
      [] list = "EndpointSlices" ->
            [item EXCEPT !.endpoints = {[e EXCEPT !.targetRef = CleanRef(@)] : e \in @}]
      [] list = "GatewayRoutes" ->
            [item EXCEPT !.rules = {[r EXCEPT !.backendRefs = CleanRefs(@)] : r \in @}]
      [] list \in {"IngressClasses", "GatewayClasses"} ->
            [item EXCEPT !.parameters = CleanRef(@)]
      [] list = "Ingresses" -> [item EXCEPT !.backends = CleanRefs(@)]
      [] list = "GatewayPolicies" -> [item EXCEPT !.targetRefs = CleanRefs(@)]
      [] list = "PersistentVolumes" -> [item EXCEPT !.claimRef = CleanRef(@)]
      [] list = "RoleBindings" -> [item EXCEPT !.roleRef = CleanRef(@)]
      [] list = "AdmissionWebhooks" ->
            [item EXCEPT !.webhooks = {[w EXCEPT !.clientService = CleanRef(@)] : w \in @}]
      [] OTHER -> item

PageList(s, scope, list) ==
    Take({CleanItem(list, i) : i \in {j \in SectionItems(s, list) : ScopeRefMatches(j.ref, scope)}},
         Limits.pageItems, list)

\* EKS items have names and no references.
EKSPageNames(s) ==
    [Addons |-> {a.name : a \in s.eks.Addons},
     Nodegroups |-> {g.name : g \in s.eks.Nodegroups},
     Insights |-> {IF i.name # "" THEN i.name ELSE i.id : i \in s.eks.Insights},
     AccessEntries |-> {e.principal : e \in s.eks.AccessEntries},
     PodIdentityAssociations |->
        {IF p.serviceAccount # "" THEN p.serviceAccount ELSE p.id :
            p \in s.eks.PodIdentityAssociations}]

EKSPage(s, scope) ==
    LET selected == {r.name : r \in scope.refs} \ {""}
    IN  [list \in DOMAIN EKSPageNames(s) |->
            Take({n \in EKSPageNames(s)[list] : selected = {} \/ n \in selected},
                 Limits.pageItems, list)]

Page(s, scope) ==
    CASE PageType(scope) \in DOMAIN PageLists ->
            [list \in PageLists[PageType(scope)] |-> PageList(s, scope, list)]
      [] PageType(scope) = "eks" -> EKSPage(s, scope)
      [] OTHER -> <<>>

(***************************************************************************)
(* buildScanContext().                                                     *)
(***************************************************************************)
ScanContext(s, scope) ==
    LET workloads == Take(FilterWorkloads(s, scope), Limits.workloads, "Workloads")
        contexts == {WorkloadContext(s, w) : w \in workloads.items}
        images == Take(FilterRunningImages(s, scope), Limits.images, "running images")
        advisor == Take({[c EXCEPT !.evidence = CleanRefs(@)] : c \in Capabilities(s)},
                        Limits.advisor, "advisor capabilities")
        covered == Take(s.coverage, Limits.coverage, "coverage")
        page == Page(s, scope)
    IN  [workloads |-> contexts,
         images |-> {[i EXCEPT !.workloads = CleanRefs(@)] : i \in images.items},
         advisor |-> advisor.items,
         coverage |-> covered.items,
         page |-> [list \in DOMAIN page |-> page[list].items],
         omitted |-> workloads.omitted \cup images.omitted \cup advisor.omitted
                     \cup covered.omitted \cup (UNION {c.omitted : c \in contexts})
                     \cup UNION {page[list].omitted : list \in DOMAIN page}]
=============================================================================
