--------------------------- MODULE KubernetesMapping ---------------------------
(***************************************************************************)
(* How the Kubernetes collector turns the objects of an API server into    *)
(* inventory items (the map* functions of internal/k8s/collector.go).      *)
(* An API object is a record: its metadata (namespace, name, uid, owners,  *)
(* labels) and the fields of its spec and status that a mapper reads; a    *)
(* field the Go code finds unset is "", {} or the empty function.  Counts, *)
(* quantities and timestamps travel together in the opaque `status`.       *)
(***************************************************************************)
EXTENDS Inventory

ObjectRefs(kind, namespace, names) == {RefTo("v1", kind, namespace, n) : n \in names}

(***************************************************************************)
(* Pods and what a pod template refers to.                                 *)
(***************************************************************************)
MapContainer(namespace, c) ==
    [name |-> c.name, image |-> c.image, imageID |-> "", state |-> "",
     envConfigRefs |-> ObjectRefs("ConfigMap", namespace, c.configMaps),
     envSecretRefs |-> ObjectRefs("Secret", namespace, c.secrets)]

\* A volume names its one source; a projected volume has references instead.
MapVolume(namespace, v) ==
    LET only(type) == IF v.type = type THEN v.source ELSE ""
    IN  [name |-> v.name, type |-> v.type,
         persistentVolumeClaim |-> only("persistentVolumeClaim"),
         configMap |-> only("configMap"), secret |-> only("secret"),
         csi |-> only("csi"),
         projectedRefs |->
            IF v.type = "projected"
            THEN {RefTo("v1", p.kind, namespace, p.name) : p \in v.projected} ELSE {}]

\* dedupeRefs keeps one reference of each name: the reference lists are sets.
PodSpecDetails(namespace, spec) ==
    LET containers == {MapContainer(namespace, c) : c \in spec.containers}
        initContainers == {MapContainer(namespace, c) : c \in spec.initContainers}
        volumes == {MapVolume(namespace, v) : v \in spec.volumes}
        projected == UNION {v.projectedRefs : v \in volumes}
        ofKind(kind) == {r \in projected : r.kind = kind}
    IN  [containers |-> containers,
         initContainers |-> initContainers,
         volumes |-> volumes,
         configRefs |->
            (UNION {c.envConfigRefs : c \in containers \cup initContainers})
            \cup ObjectRefs("ConfigMap", namespace, {v.configMap : v \in volumes} \ {""})
            \cup ofKind("ConfigMap"),
         secretRefs |->
            (UNION {c.envSecretRefs : c \in containers \cup initContainers})
            \cup ObjectRefs("Secret", namespace, {v.secret : v \in volumes} \ {""})
            \cup ofKind("Secret"),
         pullSecretRefs |-> ObjectRefs("Secret", namespace, spec.pullSecrets)]

\* Container names are unique in a pod, so one function holds all statuses.
ContainersWithStatus(containers, statuses) ==
    {IF c.name \in DOMAIN statuses
     THEN [c EXCEPT !.imageID = statuses[c.name].imageID,
                    !.state = statuses[c.name].state]
     ELSE c : c \in containers}

ContainersFromStatuses(statuses) ==
    {[name |-> n, image |-> statuses[n].image, imageID |-> statuses[n].imageID,
      state |-> statuses[n].state, envConfigRefs |-> {}, envSecretRefs |-> {}] :
        n \in DOMAIN statuses}

MapPod(p) ==
    LET details == PodSpecDetails(p.namespace, p.spec)
    IN  [ref |-> Ref("v1", "Pod", p),
         phase |-> p.phase,
         nodeName |-> p.spec.nodeName,
         serviceAccountName |-> p.spec.serviceAccountName,
         runtimeClassName |-> p.spec.runtimeClassName,
         containers |-> ContainersWithStatus(details.containers, p.statuses),
         initContainers |-> ContainersWithStatus(details.initContainers, p.statuses),
         ephemeralContainers |-> ContainersFromStatuses(p.ephemeralStatuses),
         volumes |-> details.volumes,
         owners |-> OwnerRefs(p)]

(***************************************************************************)
(* Workloads.                                                              *)
(***************************************************************************)
WorkloadFromTemplate(apiVersion, kind, w) ==
    LET details == PodSpecDetails(w.namespace, w.template)
    IN  [ref |-> Ref(apiVersion, kind, w),
         serviceAccountName |-> w.template.serviceAccountName,
         runtimeClassName |-> w.template.runtimeClassName,
         containers |-> details.containers,
         initContainers |-> details.initContainers,
         volumes |-> details.volumes,
         configRefs |-> details.configRefs,
         secretRefs |-> details.secretRefs,
         imagePullSecretRefs |-> details.pullSecretRefs,
         owners |-> OwnerRefs(w),
         selector |-> <<>>,
         volumeClaimTemplates |-> {},
         status |-> w.status]

\* selectorMap: only matchLabels are kept, matchExpressions are lost.
WithSelector(workload, w) == [workload EXCEPT !.selector = w.matchLabels]

MapDeployment(d) == WithSelector(WorkloadFromTemplate("apps/v1", "Deployment", d), d)
MapDaemonSet(d) == WithSelector(WorkloadFromTemplate("apps/v1", "DaemonSet", d), d)
MapReplicaSet(r) == WithSelector(WorkloadFromTemplate("apps/v1", "ReplicaSet", r), r)
MapStatefulSet(s) ==
    [WithSelector(WorkloadFromTemplate("apps/v1", "StatefulSet", s), s)
        EXCEPT !.volumeClaimTemplates =
            ObjectRefs("PersistentVolumeClaim", s.namespace, s.claimTemplates)]
MapJob(j) == WorkloadFromTemplate("batch/v1", "Job", j)
MapCronJob(c) == WorkloadFromTemplate("batch/v1", "CronJob", c)

(***************************************************************************)
(* Core objects and extensions.                                            *)
(***************************************************************************)
MapNamespace(n) ==
    [ref |-> Ref("v1", "Namespace", n), phase |-> n.phase, labels |-> n.labels]

MapNode(n) ==
    [ref |-> Ref("v1", "Node", n), providerID |-> n.providerID, labels |-> n.labels,
     ready |-> IF "Ready" \in DOMAIN n.conditions THEN n.conditions["Ready"] ELSE "",
     taints |-> n.taints, nodeInfo |-> n.nodeInfo]

MapServiceAccount(s) ==
    [ref |-> Ref("v1", "ServiceAccount", s), annotations |-> s.annotations,
     imagePullSecrets |-> s.imagePullSecrets, secrets |-> s.secrets]

MapService(s) ==
    [ref |-> Ref("v1", "Service", s), type |-> s.type, clusterIP |-> s.clusterIP,
     externalIPs |-> s.externalIPs, selector |-> s.selector, ports |-> s.ports]

MapConfigMap(c) == [ref |-> Ref("v1", "ConfigMap", c), data |-> c.data]

\* Secrets are read through the metadata client: no data reaches the snapshot.
\* Only the metadata is asked for: type and keys stay empty.
MapSecret(s) == [ref |-> Ref("v1", "Secret", s), type |-> "", keys |-> {}]

MapCRD(c) ==
    [ref |-> Ref("apiextensions.k8s.io/v1", "CustomResourceDefinition", c),
     group |-> c.group, scope |-> c.scope, kind |-> c.kindName,
     plural |-> c.plural, versions |-> c.versions]

\* The version whose instances are listed: stored and served, else stored,
\* else served; each time the first of the definition's list.
SelectedCRDVersion(crd) ==
    LET preferred == SelectSeq(crd.versions, LAMBDA v : v.storage /\ v.served)
                     \o SelectSeq(crd.versions, LAMBDA v : v.storage)
                     \o SelectSeq(crd.versions, LAMBDA v : v.served)
    IN  IF preferred = <<>> THEN "" ELSE preferred[1].name

MapCustomResourceInstance(item, crd, version) ==
    [ref |-> Ref(crd.group \o "/" \o version, crd.kind, item),
     crdName |-> crd.ref.name, crdVersion |-> version, labels |-> item.labels,
     owners |-> OwnerRefs(item)]

MapAPIService(a) ==
    [ref |-> Ref("apiregistration.k8s.io/v1", "APIService", a), group |-> a.group,
     version |-> a.version, serviceNamespace |-> a.serviceNamespace,
     serviceName |-> a.serviceName,
     available |-> IF "Available" \in DOMAIN a.conditions
                   THEN a.conditions["Available"] ELSE ""]

MapRuntimeClass(r) ==
    [ref |-> Ref("node.k8s.io/v1", "RuntimeClass", r), handler |-> r.handler]

(***************************************************************************)
(* Networking.                                                             *)
(***************************************************************************)
MapEndpointSlice(s) ==
    [ref |-> Ref("discovery.k8s.io/v1", "EndpointSlice", s),
     serviceName |-> IF "kubernetes.io/service-name" \in DOMAIN s.labels
                     THEN s.labels["kubernetes.io/service-name"] ELSE "",
     ports |-> s.ports,
     endpoints |->
        {[addresses |-> e.addresses, nodeName |-> e.nodeName, ready |-> e.ready,
          targetRef |-> IF e.targetRef.name = "" THEN NoRef
                        ELSE Ref(e.targetRef.apiVersion, e.targetRef.kind, e.targetRef)] :
            e \in s.endpoints}]

MapIngressClass(c) ==
    [ref |-> Ref("networking.k8s.io/v1", "IngressClass", c),
     controller |-> c.controller,
     parameters |-> IF c.parameters.name = "" THEN NoRef
                    ELSE RefTo(c.parameters.apiGroup, c.parameters.kind,
                               c.parameters.namespace, c.parameters.name)]

MapIngress(i) ==
    LET paths == UNION {{[host |-> r.host, path |-> p.path, serviceName |-> p.service,
                          servicePort |-> p.port] :
                            p \in {q \in r.paths : q.service # ""}} : r \in i.rules}
    IN  [ref |-> Ref("networking.k8s.io/v1", "Ingress", i),
         className |-> i.className,
         tlsHosts |-> UNION {t : t \in i.tls},
         rules |-> paths,
         backends |-> ObjectRefs("Service", i.namespace,
                        ({i.defaultBackend} \cup {p.serviceName : p \in paths}) \ {""})]

GatewayAPIVersion(item, version) ==
    IF item.apiVersion # "" THEN item.apiVersion
    ELSE "gateway.networking.k8s.io/" \o (IF version = "" THEN "v1" ELSE version)

\* A reference defaults to the namespace of the object that holds it, and a
\* backend reference to a Service.
ObjectRefFromGatewayRef(value, defaultNamespace, defaultKind) ==
    LET kind == IF value.kind = "" THEN defaultKind ELSE value.kind
        namespace == IF value.namespace = "" THEN defaultNamespace ELSE value.namespace
    IN  RefTo(IF value.group = "" /\ kind = "Service" THEN "v1" ELSE value.group,
              kind, namespace, value.name)

MapGatewayClass(item, version) ==
    [ref |-> Ref(GatewayAPIVersion(item, version), "GatewayClass", item),
     controllerName |-> item.controllerName,
     parameters |-> IF item.parametersRef.name = "" THEN NoRef
                    ELSE ObjectRefFromGatewayRef(item.parametersRef, item.namespace, "")]

MapGateway(item, version) ==
    [ref |-> Ref(GatewayAPIVersion(item, version), "Gateway", item),
     className |-> item.className,
     addresses |-> (item.specAddresses \cup item.statusAddresses) \ {""},
     listeners |-> item.listeners]

GatewayNamespaced(value, defaultNamespace) ==
    [value EXCEPT !.namespace = IF @ = "" THEN defaultNamespace ELSE @]

GatewayRouteRule(rule, namespace) ==
    [matches |-> rule.matches,
     backendRefs |-> {ObjectRefFromGatewayRef(b, namespace, "Service") : b \in rule.backendRefs}]

MapGatewayRoute(item, version, defaultKind) ==
    [ref |-> Ref(GatewayAPIVersion(item, version),
                 IF item.kind = "" THEN defaultKind ELSE item.kind, item),
     hostnames |-> item.hostnames,
     parentRefs |-> {GatewayNamespaced(p, item.namespace) : p \in item.parentRefs},
     rules |-> {GatewayRouteRule(r, item.namespace) : r \in item.rules}]

MapReferenceGrant(item, version) ==
    [ref |-> Ref(GatewayAPIVersion(item, version), "ReferenceGrant", item),
     from |-> {GatewayNamespaced(g, item.namespace) : g \in item.from},
     to |-> {GatewayNamespaced(g, item.namespace) : g \in item.to}]

MapGatewayPolicy(item, version, defaultKind) ==
    LET kind == IF item.kind = "" THEN defaultKind ELSE item.kind
        group == IF kind = "XBackendTrafficPolicy" THEN "gateway.networking.x-k8s.io"
                 ELSE "gateway.networking.k8s.io"
    IN  [ref |-> Ref(IF item.apiVersion # "" THEN item.apiVersion
                     ELSE group \o "/" \o version, kind, item),
         targetRefs |-> {ObjectRefFromGatewayRef(t, item.namespace, "") : t \in item.targetRefs},
         details |-> item.details]

(***************************************************************************)
(* Storage.                                                                *)
(***************************************************************************)
MapStorageClass(c) ==
    [ref |-> Ref("storage.k8s.io/v1", "StorageClass", c),
     provisioner |-> c.provisioner, allowVolumeExpansion |-> c.allowVolumeExpansion,
     bindingMode |-> c.bindingMode]

MapPersistentVolume(v) ==
    [ref |-> Ref("v1", "PersistentVolume", v), storageClassName |-> v.storageClassName,
     accessModes |-> v.accessModes, phase |-> v.phase, csi |-> v.csi,
     claimRef |-> IF v.claimRef.name = "" THEN NoRef
                  ELSE Ref(v.claimRef.apiVersion, v.claimRef.kind, v.claimRef)]

MapPersistentVolumeClaim(c) ==
    [ref |-> Ref("v1", "PersistentVolumeClaim", c),
     storageClassName |-> c.storageClassName, volumeName |-> c.volumeName,
     accessModes |-> c.accessModes, phase |-> c.phase]

MapCSIDriver(d) ==
    [ref |-> Ref("storage.k8s.io/v1", "CSIDriver", d), modes |-> d.modes]

MapCSINode(n) == [ref |-> Ref("storage.k8s.io/v1", "CSINode", n), drivers |-> n.drivers]

MapVolumeAttachment(a) ==
    [ref |-> Ref("storage.k8s.io/v1", "VolumeAttachment", a), attacher |-> a.attacher,
     nodeName |-> a.nodeName, pvName |-> a.pvName, attached |-> a.attached]

(***************************************************************************)
(* RBAC, policies and admission.                                           *)
(***************************************************************************)
MapRole(kind, r) ==
    [ref |-> Ref("rbac.authorization.k8s.io/v1", kind, r), rules |-> r.rules]

\* A ClusterRole is referred to without the namespace of the binding.
RBACRoleRef(roleRef, namespace) ==
    RefTo(IF roleRef.apiGroup = "" THEN "" ELSE roleRef.apiGroup \o "/v1", roleRef.kind,
          IF roleRef.kind = "ClusterRole" THEN "" ELSE namespace, roleRef.name)

MapRoleBinding(kind, b) ==
    [ref |-> Ref("rbac.authorization.k8s.io/v1", kind, b),
     roleRef |-> RBACRoleRef(b.roleRef, b.namespace), subjects |-> b.subjects]

\* Autoscalers are kept as bare references.
MapHorizontalPodAutoscaler(h) ==
    [ref |-> Ref("autoscaling/v2", "HorizontalPodAutoscaler", h)]

MapPodDisruptionBudget(p) ==
    [ref |-> Ref("policy/v1", "PodDisruptionBudget", p), selector |-> p.matchLabels,
     status |-> p.status]

MapNetworkPolicy(p) ==
    [ref |-> Ref("networking.k8s.io/v1", "NetworkPolicy", p),
     podSelector |-> p.matchLabels, policyTypes |-> p.policyTypes,
     ingressRules |-> Len(p.ingress), egressRules |-> Len(p.egress),
     ingressPeers |-> FoldSeq(LAMBDA rule, n : n + rule.peers, 0, p.ingress),
     egressPeers |-> FoldSeq(LAMBDA rule, n : n + rule.peers, 0, p.egress)]

MapResourceQuota(q) ==
    [ref |-> Ref("v1", "ResourceQuota", q), hard |-> q.hard, used |-> q.used]

MapLimitRange(l) == [ref |-> Ref("v1", "LimitRange", l), items |-> l.limits]

\* The scope of a webhook is the first one its rules state.
AdmissionWebhook(w) ==
    LET scoped == SelectSeq(w.rules, LAMBDA r : r.scope # "")
    IN  [name |-> w.name, rules |-> Len(w.rules), failurePolicy |-> w.failurePolicy,
         clientService |-> IF w.service.name = "" THEN NoRef
                           ELSE RefTo("v1", "Service", w.service.namespace, w.service.name),
         operations |-> (UNION {w.rules[i].operations : i \in DOMAIN w.rules}) \ {""},
         resources |-> (UNION {w.rules[i].resources : i \in DOMAIN w.rules}) \ {""},
         scope |-> IF scoped = <<>> THEN "" ELSE scoped[1].scope]

MapWebhookConfiguration(kind, c) ==
    [ref |-> Ref("admissionregistration.k8s.io/v1", kind, c),
     webhooks |-> {AdmissionWebhook(w) : w \in c.webhooks}]

(***************************************************************************)
(* The containers that run, indexed from the pods after all lists are in.  *)
(***************************************************************************)
ControllerOwner(refs, namespace) ==
    IF refs = <<>> THEN NoRef
    ELSE [refs[1] EXCEPT !.namespace = IF @ = "" THEN namespace ELSE @]

OwnerKey(defaultNamespace, ref) ==
    <<ref.kind, IF ref.namespace = "" THEN defaultNamespace ELSE ref.namespace, ref.name>>

MaxOwnerHops == 8

\* One hop up the owners: to the next owner, to the workload the walk ends at,
\* or nowhere when the snapshot does not hold the owner.
Hop(walk, workloads, namespace) ==
    LET found == {w \in workloads :
                    OwnerKey(w.ref.namespace, w.ref) = OwnerKey(namespace, walk.ref)}
        workload == CHOOSE w \in found : TRUE
    IN  IF walk.ended \/ found = {} THEN [walk EXCEPT !.ended = TRUE]
        ELSE IF workload.owners = <<>> \/ workload.owners[1].name = ""
        THEN [ref |-> workload.ref, ended |-> TRUE]
        ELSE [ref |-> ControllerOwner(workload.owners, workload.ref.namespace),
              ended |-> FALSE]

Climb(owner, workloads, namespace) ==
    LET walk[hops \in 0..MaxOwnerHops] ==
            IF hops = 0 THEN [ref |-> owner, ended |-> FALSE]
            ELSE Hop(walk[hops - 1], workloads, namespace)
    IN  walk[MaxOwnerHops].ref

ResolveWorkload(owner, workloads, namespace) ==
    IF owner.name = "" THEN NoRef
    ELSE Climb([owner EXCEPT !.namespace = IF @ = "" THEN namespace ELSE @],
               workloads, namespace)

RunningContainersFromPod(pod, type, containers, owner, workload) ==
    {[namespace |-> pod.ref.namespace, pod |-> pod.ref.name, nodeName |-> pod.nodeName,
      container |-> c.name, containerType |-> type,
      image |-> IF c.image = "" THEN c.imageID ELSE c.image,
      imageID |-> c.imageID, podOwner |-> owner, workload |-> workload] :
        c \in {k \in containers : k.state = "running"}}

RunningContainers(pods, workloads) ==
    UNION {LET owner == ControllerOwner(p.owners, p.ref.namespace)
               workload == ResolveWorkload(owner, workloads, p.ref.namespace)
           IN  RunningContainersFromPod(p, "app", p.containers, owner, workload)
               \cup RunningContainersFromPod(p, "init", p.initContainers, owner, workload)
               \cup RunningContainersFromPod(p, "ephemeral", p.ephemeralContainers,
                                             owner, workload) :
           p \in pods}

RunningImages(containers) ==
    {LET using == {c \in containers : c.image = image}
     IN  [image |-> image,
          containerCount |-> Cardinality(using),
          podCount |-> Cardinality({<<c.namespace, c.pod>> : c \in using}),
          imageIDs |-> {c.imageID : c \in using} \ {""},
          namespaces |-> {c.namespace : c \in using} \ {""},
          workloads |-> {c.workload : c \in {k \in using : k.workload.name # ""}}] :
        image \in {c.image : c \in containers} \ {""}}
=============================================================================
