--------------------------------- MODULE MCScan ---------------------------------
(***************************************************************************)
(* A small shop: one object of almost every kind, joined the way they are  *)
(* in a cluster, on one node of one node group; and what may happen to it  *)
(* while it is scanned.                                                    *)
(***************************************************************************)
EXTENDS Scan

MCLimits == [workloads |-> 4, images |-> 2, networkRefs |-> 2, storageRefs |-> 2,
             coverage |-> 90, advisor |-> 3, pageItems |-> 2]

Meta(namespace, name, uid) == [namespace |-> namespace, name |-> name, uid |-> uid,
                               owners |-> <<>>, labels |-> <<>>]
Global(name) == Meta("", name, "u-" \o name)
Shop(name) == Meta("shop", name, "u-" \o name)
Owner(apiVersion, kind, name, uid) ==
    [apiVersion |-> apiVersion, kind |-> kind, name |-> name, uid |-> uid]
OwnedBy(object, owner) == [object EXCEPT !.owners = <<owner>>]
Labelled(object, labels) == [object EXCEPT !.labels = labels]

Container(name, image, configMaps, secrets) ==
    [name |-> name, image |-> image, configMaps |-> configMaps, secrets |-> secrets]
Volume(name, type, source) ==
    [name |-> name, type |-> type, source |-> source, projected |-> {}]
Template(containers, volumes, account) ==
    [containers |-> containers, initContainers |-> {}, volumes |-> volumes,
     pullSecrets |-> {}, nodeName |-> "n1", serviceAccountName |-> account,
     runtimeClassName |-> ""]

WebTemplate ==
    [Template({Container("app", "web:1", {"settings"}, {})},
              {Volume("data", "persistentVolumeClaim", "data")}, "web")
        EXCEPT !.initContainers = {Container("init", "init:1", {}, {"token"})},
               !.pullSecrets = {"token"}, !.runtimeClassName = "runc"]
DbTemplate == Template({Container("db", "db:1", {}, {"token"})},
                       {Volume("conf", "configMap", "settings")}, "")
AgentTemplate ==
    Template({Container("agent", "agent:1", {}, {})},
             {[Volume("all", "projected", "")
                EXCEPT !.projected = {[kind |-> "Secret", name |-> "token"],
                                      [kind |-> "ConfigMap", name |-> "settings"]}]}, "")
NightlyTemplate == [AgentTemplate EXCEPT !.serviceAccountName = "nightly"]

Workload(object, template, labels) ==
    object @@ [template |-> template, matchLabels |-> labels, status |-> "ok",
               claimTemplates |-> {}]

RunningStatus(template) ==
    [n \in {c.name : c \in template.containers} |->
        [imageID |-> "sha-" \o n, state |-> "running", image |-> n]]
Pod(object, template) ==
    object @@ [spec |-> template, phase |-> "Running", statuses |-> RunningStatus(template),
               ephemeralStatuses |-> <<>>]

Web == [app |-> "web"]
Db == [app |-> "db"]
DbPod(uid) == Pod(OwnedBy(Meta("shop", "db-0", uid),
                          Owner("apps/v1", "StatefulSet", "db", "u-db")), DbTemplate)
WebPod == [Pod(OwnedBy(Shop("web-1"), Owner("apps/v1", "ReplicaSet", "web-rs", "u-web-rs")),
               WebTemplate)
            EXCEPT !.ephemeralStatuses = [debug |-> [imageID |-> "sha-debug",
                                            state |-> "running", image |-> ""]]]
JobPod == Pod(OwnedBy(Shop("nightly-1-x"), Owner("batch/v1", "Job", "nightly-1", "u-nightly-1")),
              NightlyTemplate)
\* A static pod is owned by its node.
ProxyPod == Pod(OwnedBy(Meta("kube-system", "proxy", "u-proxy"), Owner("v1", "Node", "n1", "u-n1")),
                AgentTemplate)

Target(kind, name, uid) ==
    [apiVersion |-> "v1", kind |-> kind, namespace |-> "shop", name |-> name, uid |-> uid]
NoTarget == [Target("", "", "") EXCEPT !.namespace = ""]
Slice(name, service, endpoints) ==
    Labelled(Shop(name), "kubernetes.io/service-name" :> service)
        @@ [ports |-> "5432", endpoints |-> endpoints]
Endpoint(address, target) ==
    [addresses |-> {address}, nodeName |-> "n1", ready |-> "true", targetRef |-> target]
DbSlice(uid) == Slice("db-a", "db", {Endpoint("10.0.0.2", Target("Pod", "db-0", uid))})
OutsideSlice == Slice("outside-a", "web", {Endpoint("192.0.2.1", NoTarget)})

Claim(uid) == Meta("shop", "data", uid)
    @@ [storageClassName |-> "files", volumeName |-> "pv1",
        accessModes |-> {"ReadWriteMany"}, phase |-> "Bound"]
PVolume(uid, claim) == Meta("", "pv1", uid)
    @@ [storageClassName |-> "files", accessModes |-> {"ReadWriteMany"}, phase |-> "Bound",
        csi |-> "efs", claimRef |-> Target("PersistentVolumeClaim", "data", claim)]

Node(name, labels) == Labelled(Global(name), labels)
    @@ [providerID |-> "aws:///" \o name, conditions |-> [Ready |-> "True"],
        taints |-> {}, nodeInfo |-> "arm64"]
InGroup == "eks.amazonaws.com/nodegroup" :> "ng1"

Service(name, selector, ips) == Meta("shop", name, "u-svc-" \o name)
    @@ [type |-> "ClusterIP", clusterIP |-> "", externalIPs |-> ips, selector |-> selector,
        ports |-> "5432"]

Gateway == "gateway.networking.k8s.io"
APIResource(group, version, resource, namespaced) ==
    [group |-> group, version |-> version, resource |-> resource,
     namespaced |-> namespaced, verbs |-> {"list"}]
GatewayRef(kind, name) == [group |-> "", kind |-> kind, namespace |-> "", name |-> name]
Item(object, kind) == object @@ [apiVersion |-> "", kind |-> kind]
Route(name) == Item(Shop(name), "")
    @@ [hostnames |-> {}, parentRefs |-> {GatewayRef("Gateway", "gw")},
        rules |-> {[matches |-> "", backendRefs |-> {GatewayRef("", "web")}]}]

Webhook == [name |-> "check", failurePolicy |-> "Fail",
            service |-> [namespace |-> "shop", name |-> "web"],
            rules |-> <<[operations |-> {"CREATE"}, resources |-> {"pods"}, scope |-> ""],
                        [operations |-> {""}, resources |-> {"jobs"}, scope |-> "*"]>>]

Namespace(name) == Global(name) @@ [phase |-> "Active"]
ConfigMap(namespace, name) ==
    Meta(namespace, name, "u-" \o namespace \o "-" \o name) @@ [data |-> ""]

\* One gateway type is served in an older version only, most have no objects.
ShopGateways ==
    [GatewayClasses |-> {Item(Global("mesh"), "") @@ [controllerName |-> "mesh",
                            parametersRef |-> GatewayRef("", "")]},
     Gateways |-> {Item(Shop("gw"), "") @@ [className |-> "mesh", specAddresses |-> {""},
                        statusAddresses |-> {"192.0.2.9"}, listeners |-> {}]},
     HTTPRoutes |-> {Route("r1")}, GRPCRoutes |-> {}, TLSRoutes |-> {Route("r2")},
     TCPRoutes |-> {}, UDPRoutes |-> {},
     ReferenceGrants |-> {Item(Shop("grant"), "") @@ [from |-> {GatewayRef("HTTPRoute", "")},
                            to |-> {GatewayRef("Service", "web")}]},
     BackendTLSPolicies |-> {Item(Shop("tls"), "") @@
                                [targetRefs |-> {GatewayRef("Service", "web")}, details |-> ""]},
     BackendTrafficPolicies |-> {}, XBackendTrafficPolicies |-> {},
     servedGateways |-> {<<"GatewayClasses", "v1">>, <<"Gateways", "v1">>,
                         <<"HTTPRoutes", "v1">>, <<"TLSRoutes", "v1alpha2">>,
                         <<"ReferenceGrants", "v1">>, <<"BackendTLSPolicies", "v1">>},
     apiResources |-> {APIResource(Gateway, "v1", "gatewayclasses", FALSE),
                       APIResource(Gateway, "v1", "gateways", TRUE),
                       APIResource("apps", "v1", "deployments", TRUE)}]

ShopCore ==
    [version |-> <<1, 31, 2>>,
     Namespaces |-> {Namespace("shop")},
     Nodes |-> {Node("n1", InGroup)},
     ServiceAccounts |-> {Meta("shop", "web", "u-sa-web") @@ [annotations |-> "", imagePullSecrets |-> {"token"},
                                          secrets |-> {}]},
     Pods |-> {WebPod, DbPod("u-db-0"), JobPod, ProxyPod},
     Services |-> {Service("web", Web, {"192.0.2.7"}), Service("db", Db, {})},
     ConfigMaps |-> {ConfigMap("shop", "settings")},
     Secrets |-> {Shop("token")},
     CustomResourceDefinitions |->
        {Global("widgets") @@ [group |-> "shop.io", scope |-> "Namespaced",
            kindName |-> "Widget", plural |-> "widgets",
            versions |-> <<[name |-> "v1beta1", storage |-> FALSE, served |-> TRUE],
                           [name |-> "v1", storage |-> TRUE, served |-> TRUE]>>],
         Global("gadgets") @@ [group |-> "shop.io", scope |-> "Namespaced",
            kindName |-> "Gadget", plural |-> "gadgets",
            versions |-> <<[name |-> "v1", storage |-> TRUE, served |-> FALSE]>>]},
     CustomResources |-> {Shop("widget") @@ [crd |-> "widgets"]},
     APIServices |-> {Global("v1.metrics") @@ [group |-> "metrics", version |-> "v1",
            serviceNamespace |-> "shop", serviceName |-> "web",
            conditions |-> [Available |-> "True"]]},
     EndpointSlices |-> {DbSlice("u-db-0"), OutsideSlice},
     IngressClasses |-> {Global("nginx") @@ [controller |-> "nginx",
                            parameters |-> [apiGroup |-> "", kind |-> "", namespace |-> "",
                                            name |-> ""]]},
     Ingresses |-> {Shop("front") @@ [className |-> "nginx", tls |-> {{"shop.io"}},
            defaultBackend |-> "web",
            rules |-> {[host |-> "shop.io", paths |-> {[path |-> "/", service |-> "web",
                                                        port |-> "80"]}]}]}]

ShopWorkloads ==
    [Deployments |-> {Workload(Shop("web"), WebTemplate, Web)},
     DaemonSets |-> {Workload(Shop("agent"), AgentTemplate, [app |-> "agent"])},
     StatefulSets |-> {[Workload(Shop("db"), DbTemplate, Db) EXCEPT !.claimTemplates = {"store"}]},
     ReplicaSets |-> {Workload(OwnedBy(Shop("web-rs"),
                            Owner("apps/v1", "Deployment", "web", "u-web")), WebTemplate, Web)},
     Jobs |-> {Workload(OwnedBy(Shop("nightly-1"),
                            Owner("batch/v1", "CronJob", "nightly", "u-nightly")),
                        NightlyTemplate, <<>>)},
     CronJobs |-> {Workload(Shop("nightly"), NightlyTemplate, <<>>)},
     RuntimeClasses |-> {Global("runc") @@ [handler |-> "runc"]},
     StorageClasses |-> {Global("files") @@ [provisioner |-> "efs",
                            allowVolumeExpansion |-> "true", bindingMode |-> "Immediate"]},
     PersistentVolumes |-> {PVolume("u-pv1", "u-data")},
     PersistentVolumeClaims |-> {Claim("u-data")},
     CSIDrivers |-> {Global("efs") @@ [modes |-> {"Persistent"}]},
     CSINodes |-> {Meta("", "n1", "u-csi-n1") @@ [drivers |-> {"efs"}]},
     VolumeAttachments |-> {Global("va1") @@ [attacher |-> "efs", nodeName |-> "n1",
                                              pvName |-> "pv1", attached |-> TRUE]}]

ShopPolicies ==
    [Roles |-> {Shop("reader") @@ [rules |-> {}]},
     RoleBindings |-> {Shop("readers") @@ [subjects |-> {"web"},
            roleRef |-> [apiGroup |-> "rbac.authorization.k8s.io", kind |-> "ClusterRole",
                         name |-> "view"]]},
     ClusterRoles |-> {Global("view") @@ [rules |-> {}]},
     ClusterRoleBindings |-> {Global("viewers") @@ [subjects |-> {"web"},
            roleRef |-> [apiGroup |-> "", kind |-> "ClusterRole", name |-> "view"]]},
     HorizontalPodAutoscalers |-> {Shop("web-hpa")},
     PodDisruptionBudgets |-> {Shop("web-pdb") @@ [matchLabels |-> Web, status |-> ""]},
     NetworkPolicies |-> {Shop("deny") @@ [matchLabels |-> Db, policyTypes |-> {"Ingress"},
            ingress |-> <<[peers |-> 2], [peers |-> 1]>>, egress |-> <<>>]},
     ResourceQuotas |-> {Shop("quota") @@ [hard |-> "", used |-> ""]},
     LimitRanges |-> {Shop("limits") @@ [limits |-> {}]},
     MutatingWebhookConfigurations |-> {Global("mutate") @@ [webhooks |-> {Webhook}]},
     ValidatingWebhookConfigurations |-> {Global("validate") @@ [webhooks |-> {Webhook}]}]

ShopAccount ==
    [Cluster |-> [name |-> "shop", arn |-> "", version |-> <<1, 31>>, vpc |-> "vpc1",
                  subnetIDs |-> {"sn1"}, publicAccess |-> TRUE, securityGroupIDs |-> {"sg1"},
                  clusterSecurityGroupID |-> "sg2"],
     Addons |-> [coredns |-> [version |-> "v1.10", status |-> "ACTIVE", issues |-> {}]],
     Nodegroups |-> [ng1 |-> [version |-> "1.31", releaseVersion |-> "1.31-a", status |-> "ACTIVE",
                        amiType |-> "AL2023", subnets |-> {"sn2"},
                        autoScalingGroups |-> {"asg1"},
                        remoteAccessSecurityGroupID |-> "", issues |-> {}]],
     Insights |-> [in1 |-> [name |-> "upgrade", category |-> "UPGRADE_READINESS",
                        kubernetesVersion |-> "1.32", status |-> "WARNING",
                        describedStatus |-> "PASSING",
                        addonCompatibility |-> {[name |-> "coredns", versions |-> {"v1.11"}]},
                        resources |-> {[uri |-> "", arn |-> "arn:r1"]}]],
     AccessEntries |-> [admin |-> [type |-> "STANDARD", groups |-> {}, policies |-> {"p1"}]],
     PodIdentityAssociations |-> [pi1 |-> [namespace |-> "shop", serviceAccount |-> "web",
                                           roleARN |-> "arn:web"]],
     AutoScalingGroups |-> [asg1 |-> [launchTemplate |-> "", mixedLaunchTemplate |-> "lt1",
                        subnetIDs |-> {"sn2"}, instances |-> [i1 |-> [launchTemplate |-> "lt1",
                                                        lifecycleState |-> "InService"]]]],
     Instances |-> [i1 |-> [privateDnsName |-> "n1", state |-> "running", vpc |-> "vpc1",
                            subnet |-> "sn2", securityGroupIDs |-> {"sg1"}]],
     VPCs |-> [vpc1 |-> [cidr |-> "10.0.0.0/16", dns |-> "enabled"]],
     Subnets |-> [sn1 |-> [vpc |-> "vpc1", zone |-> "a"], sn2 |-> [vpc |-> "vpc1", zone |-> "b"]],
     RouteTables |-> {[id |-> "rt1", vpc |-> "vpc1", main |-> TRUE, subnets |-> {},
                       natGateways |-> {}],
                      [id |-> "rt2", vpc |-> "vpc1", main |-> FALSE, subnets |-> {"sn2"},
                       natGateways |-> {"nat1"}]},
     SecurityGroups |-> [sg1 |-> [vpc |-> "vpc1", ingress |-> {}, egress |-> {}],
                         sg2 |-> [vpc |-> "vpc1", ingress |-> {}, egress |-> {}]],
     ScalingActivities |-> [asg1 |-> [recent |-> {"a1"}, older |-> FALSE]]]

MCWorld ==
    [kubernetes |-> ShopCore @@ ShopWorkloads @@ ShopPolicies @@ ShopGateways,
     aws |-> ShopAccount]

(***************************************************************************)
(* What may happen.                                                        *)
(***************************************************************************)
\* A pod of a stateful set comes back with its name and another UID.
PodReplaced(w) ==
    [w EXCEPT !.kubernetes.Pods = (@ \ {DbPod("u-db-0")}) \cup {DbPod("u-db-0-again")},
              !.kubernetes.EndpointSlices =
                    (@ \ {DbSlice("u-db-0")}) \cup {DbSlice("u-db-0-again")}]

\* A claim and its volume are restored from a backup under their names.
ClaimRestored(w) ==
    [w EXCEPT !.kubernetes.PersistentVolumeClaims = {Claim("u-data-again")},
              !.kubernetes.PersistentVolumes = {PVolume("u-pv1-again", "u-data-again")}]

NamespaceInstalled(w) ==
    [w EXCEPT !.kubernetes.Namespaces = @ \cup {Namespace("tools")},
              !.kubernetes.ConfigMaps = @ \cup {ConfigMap("tools", "settings")},
              !.kubernetes.Deployments = @ \cup
                    {Workload(Meta("tools", "bot", "u-bot"), DbTemplate, [app |-> "bot"])}]

\* The nightly task is taken over by a deployment.  When deployments are listed
\* before that and jobs after it, no list has its needs and no list has a gap.
NightlyReplaced(w) ==
    [w EXCEPT !.kubernetes.Jobs = {}, !.kubernetes.CronJobs = {},
              !.kubernetes.Pods = @ \ {JobPod},
              !.kubernetes.Deployments = @ \cup
                    {Workload(Shop("nightly-loop"), NightlyTemplate, [app |-> "loop"])}]

GroupScaled(w) ==
    [w EXCEPT !.kubernetes.Nodes = @ \cup {Node("n2", InGroup)},
              !.aws.AutoScalingGroups["asg1"].instances =
                    @ @@ [i2 |-> [launchTemplate |-> "lt1", lifecycleState |-> "Pending"]],
              !.aws.Instances = @ @@ [i2 |-> [@["i1"] EXCEPT !.privateDnsName = "n2"]]]

DefinitionRemoved(w) ==
    [w EXCEPT !.kubernetes.CustomResourceDefinitions = {c \in @ : c.name # "widgets"},
              !.kubernetes.CustomResources = {}]

AddonDeleted(w) == [w EXCEPT !.aws.Addons = <<>>]

MCSuccessors(w) == {PodReplaced(w), ClaimRestored(w), NamespaceInstalled(w), NightlyReplaced(w),
                    GroupScaled(w), DefinitionRemoved(w), AddonDeleted(w)}
=============================================================================
