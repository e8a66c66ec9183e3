------------------------------ MODULE AwsCollector ------------------------------
(***************************************************************************)
(* The EKS collector (internal/awseks/collector.go, infrastructure.go and  *)
(* activities.go).  The EKS families are listed by name and then described *)
(* one by one: a failure ends the family with what was read so far.  The   *)
(* infrastructure calls ask for what the earlier answers mentioned, so a   *)
(* gap early in the chain leaves the later requests empty.                 *)
(*                                                                         *)
(* A list answers in one page; the calls of one VPC and of one access      *)
(* entry are one step.                                                     *)
(***************************************************************************)
EXTENDS Inventory, Functions

VARIABLES
    awsTodo,        \* the requests still to make, in order
    awsScan         \* "running", "done" or "failed"

awsVars == <<eks, awsTodo, awsScan>>

AwsOutcomes == {"ok", "error"}

Families == {"Addons", "Nodegroups", "Insights", "AccessEntries",
             "PodIdentityAssociations"}

\* A request to describe one item carries what its list said of it.
Request(op) == [op |-> op, name |-> "", listed |-> {}]
Describe(family, name) ==
    [op |-> family, name |-> name, listed |-> {world.aws[family][name]}]

AwsProgram ==
    LET ops == <<"GetCallerIdentity", "DescribeCluster", "Addons", "Nodegroups",
                 "DescribeAutoScalingGroups", "DescribeInstances", "DescribeVpcs",
                 "DescribeSubnets", "DescribeRouteTables", "DescribeSecurityGroups",
                 "DescribeScalingActivities", "Insights", "AccessEntries",
                 "PodIdentityAssociations">>
    IN  [i \in DOMAIN ops |-> Request(ops[i])]

(***************************************************************************)
(* Mapping.                                                                *)
(***************************************************************************)
MapCluster(c) ==
    [name |-> c.name, arn |-> c.arn, version |-> c.version, vpc |-> c.vpc,
     subnetIDs |-> c.subnetIDs, publicAccess |-> c.publicAccess,
     securityGroupIDs |-> c.securityGroupIDs \cup ({c.clusterSecurityGroupID} \ {""})]

MapAddon(name, a) ==
    [name |-> name, version |-> a.version, status |-> a.status, issues |-> a.issues]

MapNodegroup(name, g) ==
    [name |-> name, version |-> g.version, releaseVersion |-> g.releaseVersion,
     status |-> g.status, amiType |-> g.amiType, subnets |-> g.subnets,
     autoScalingGroups |-> g.autoScalingGroups,
     remoteAccessSecurityGroupID |-> g.remoteAccessSecurityGroupID, issues |-> g.issues]

\* A listed insight knows its status but neither resources nor compatibility.
MapInsightSummary(id, i) ==
    [id |-> id, name |-> i.name, category |-> i.category,
     kubernetesVersion |-> i.kubernetesVersion, status |-> i.status,
     addonCompatibility |-> {}, resources |-> {}]

\* A described insight takes the fields it lacks from the summary.
MapInsight(id, i) ==
    [MapInsightSummary(id, i) EXCEPT
        !.status = IF i.describedStatus = "" THEN @ ELSE i.describedStatus,
        !.addonCompatibility = i.addonCompatibility,
        !.resources = i.resources]

MapAccessEntry(principal, e) ==
    [principal |-> principal, type |-> e.type, groups |-> e.groups,
     policies |-> e.policies]

MapPodIdentity(id, p) ==
    [id |-> id, namespace |-> p.namespace, serviceAccount |-> p.serviceAccount,
     roleARN |-> p.roleARN]

MapDescribed(family, name, answer) ==
    CASE family = "Addons"        -> MapAddon(name, answer)
      [] family = "Nodegroups"    -> MapNodegroup(name, answer)
      [] family = "Insights"      -> MapInsight(name, answer)
      [] family = "AccessEntries" -> MapAccessEntry(name, answer)
      [] family = "PodIdentityAssociations" -> MapPodIdentity(name, answer)

\* The launch template of a group is its own or that of its mixed policy.
MapAutoScalingGroup(name, g, nodegroup) ==
    [name |-> name, nodegroupName |-> nodegroup, instances |-> g.instances,
     instanceIDs |-> DOMAIN g.instances, subnetIDs |-> g.subnetIDs,
     launchTemplate |-> IF g.launchTemplate = "" THEN g.mixedLaunchTemplate
                        ELSE g.launchTemplate]

\* What an instance was launched from is read off its group's own record.
MapEC2Instance(id, i, group, nodegroup, actual) ==
    [instanceID |-> id, kubernetesNodeName |-> i.privateDnsName, state |-> i.state,
     vpc |-> i.vpc, subnet |-> i.subnet, securityGroupIDs |-> i.securityGroupIDs \ {""},
     autoScalingGroupName |-> group, nodegroupName |-> nodegroup,
     launchTemplate |-> actual.launchTemplate, lifecycleState |-> actual.lifecycleState]

MapVPC(id, v) == [vpcID |-> id, cidr |-> v.cidr, dns |-> v.dns]
MapSubnet(id, s) == [subnetID |-> id, vpc |-> s.vpc, zone |-> s.zone,
                     routeTableID |-> "", natGatewayIDs |-> {}]
MapSecurityGroup(id, g) == [groupID |-> id, vpc |-> g.vpc,
                            ingress |-> g.ingress, egress |-> g.egress]

(***************************************************************************)
(* The infrastructure behind the node groups.                              *)
(***************************************************************************)
TheCluster == CHOOSE c \in eks.Cluster : TRUE

NodegroupOfASG(name) ==
    LET owners == {g.name : g \in {n \in eks.Nodegroups : name \in n.autoScalingGroups}}
    IN  IF owners = {} THEN "" ELSE CHOOSE o \in owners : TRUE

RequestedASGs == (UNION {g.autoScalingGroups : g \in eks.Nodegroups}) \ {""}
RequestedInstances == UNION {g.instanceIDs : g \in eks.AutoScalingGroups}
RequestedVPCs == ({TheCluster.vpc} \cup {i.vpc : i \in eks.Instances}) \ {""}
RequestedSubnets ==
    (TheCluster.subnetIDs \cup (UNION {g.subnets : g \in eks.Nodegroups})
     \cup (UNION {g.subnetIDs : g \in eks.AutoScalingGroups})
     \cup {i.subnet : i \in eks.Instances}) \ {""}
RequestedSecurityGroups ==
    (TheCluster.securityGroupIDs
     \cup {g.remoteAccessSecurityGroupID : g \in eks.Nodegroups}
     \cup UNION {i.securityGroupIDs : i \in eks.Instances}) \ {""}

\* A subnet takes its own route table or the main one of its VPC.
ApplyRouteTables(subnets, tables) ==
    LET explicit(s) == {t \in tables : s.subnetID \in t.subnets}
        main(s) == {t \in tables : t.main /\ t.vpc = s.vpc}
        table(s) == IF explicit(s) # {} THEN explicit(s) ELSE main(s)
    IN  {IF table(s) = {} THEN s
         ELSE LET t == CHOOSE t \in table(s) : TRUE
              IN  [s EXCEPT !.routeTableID = t.id, !.natGatewayIDs = t.natGateways \ {""}] :
            s \in subnets}

(***************************************************************************)
(* The requests.                                                           *)
(***************************************************************************)
AwsRunning(op) == awsScan = "running" /\ awsTodo # <<>> /\ Head(awsTodo).op = op

AwsContinue(rest) ==
    /\ awsTodo' = rest
    /\ awsScan' = IF rest = <<>> THEN "done" ELSE awsScan

GetCallerIdentity(outcome) ==
    /\ AwsRunning("GetCallerIdentity")
    /\ coverage' = coverage \cup
         {IF outcome = "ok" THEN Complete("aws", "sts:GetCallerIdentity", 1)
          ELSE CoverageItem("aws", "sts:GetCallerIdentity", "denied", 0)}
    /\ AwsContinue(Tail(awsTodo))
    /\ UNCHANGED eks

\* Without the cluster itself the collection fails.
DescribeCluster(outcome) ==
    /\ AwsRunning("DescribeCluster")
    /\ IF outcome = "ok"
       THEN /\ eks' = [eks EXCEPT !.Cluster = {MapCluster(world.aws.Cluster)}]
            /\ coverage' = coverage \cup {Complete("eks", "DescribeCluster", 1)}
            /\ AwsContinue(Tail(awsTodo))
       ELSE /\ awsScan' = "failed"
            /\ UNCHANGED <<eks, coverage, awsTodo>>

\* The requests after those of a family, which are the next ones.
WithoutFamily(family) ==
    LET others == {i \in DOMAIN awsTodo : awsTodo[i].op # family}
    IN  IF others = {} THEN <<>> ELSE SubSeq(awsTodo, Min(others), Len(awsTodo))

\* ListAddons, ListNodegroups and so on: the names to describe.
ListFamily(outcome) ==
    /\ \E family \in Families :
        /\ AwsRunning(family) /\ Head(awsTodo).name = ""
        /\ LET names == DOMAIN world.aws[family]
               calls == SetToSeq({Describe(family, n) : n \in names})
           IN  IF outcome = "ok" /\ names # {}
               THEN AwsContinue(calls \o Tail(awsTodo)) /\ UNCHANGED coverage
               ELSE /\ AwsContinue(Tail(awsTodo))
                    /\ coverage' = coverage \cup
                         {IF outcome = "ok" THEN Complete("eks", family, 0)
                          ELSE Partial("eks", family, 0)}
    /\ UNCHANGED eks

\* DescribeAddon, DescribeNodegroup and so on.  What was deleted since it was
\* listed fails like any other request; of an insight the summary is kept.
DescribeOne(outcome) ==
    \E family \in Families :
        /\ AwsRunning(family) /\ Head(awsTodo).name # ""
        /\ LET name == Head(awsTodo).name
               found == outcome = "ok" /\ name \in DOMAIN world.aws[family]
               described == IF found THEN {MapDescribed(family, name, world.aws[family][name])}
                            ELSE IF family = "Insights"
                            THEN {MapInsightSummary(name, i) : i \in Head(awsTodo).listed}
                            ELSE {}
               items == eks[family] \cup described
               last == Len(awsTodo) = 1 \/ awsTodo[2].op # family
               count == Cardinality(items)
           IN  /\ eks' = [eks EXCEPT ![family] = items]
               /\ AwsContinue(IF found THEN Tail(awsTodo) ELSE WithoutFamily(family))
               /\ coverage' = coverage \cup
                    (IF ~found THEN {Partial("eks", family, count)}
                     ELSE IF last THEN {Complete("eks", family, count)} ELSE {})

\* Mutant: an empty answer is complete.
RecordInfrastructureEmptyIsComplete(list, area, resource, items, complete) ==
    /\ eks' = [eks EXCEPT ![list] = items]
    /\ coverage' = coverage \cup
         {CoverageItem(area, resource, IF complete \/ items = {} THEN "complete" ELSE "partial",
                       Cardinality(items))}
    /\ AwsContinue(Tail(awsTodo))

\* One infrastructure list: asked for `requested`, it got `items`; an error or
\* an identifier without an answer makes it partial.
RecordInfrastructure(list, area, resource, items, complete) ==
    /\ eks' = [eks EXCEPT ![list] = items]
    /\ coverage' = coverage \cup
         {CoverageItem(area, resource, IF complete THEN "complete" ELSE "partial",
                       Cardinality(items))}
    /\ AwsContinue(Tail(awsTodo))

\* An empty request is not sent and cannot fail.
Answered(outcome, requested, known) ==
    IF outcome = "ok" \/ requested = {} THEN requested \cap known ELSE {}

DescribeAutoScalingGroups(outcome) ==
    /\ AwsRunning("DescribeAutoScalingGroups")
    /\ LET groups == world.aws.AutoScalingGroups
           seen == Answered(outcome, RequestedASGs, DOMAIN groups)
       IN  RecordInfrastructure("AutoScalingGroups", "autoscaling",
              "DescribeAutoScalingGroups",
              {MapAutoScalingGroup(n, groups[n], NodegroupOfASG(n)) : n \in seen},
              seen = RequestedASGs)

DescribeInstances(outcome) ==
    /\ AwsRunning("DescribeInstances")
    /\ LET instances == world.aws.Instances
           seen == Answered(outcome, RequestedInstances, DOMAIN instances)
           group(id) == CHOOSE g \in eks.AutoScalingGroups : id \in g.instanceIDs
       IN  RecordInfrastructure("Instances", "ec2", "DescribeInstances",
              {MapEC2Instance(id, instances[id], group(id).name, group(id).nodegroupName,
                              group(id).instances[id]) : id \in seen},
              seen = RequestedInstances)

\* The attributes of a VPC are calls of their own: one that fails leaves the
\* VPC without them.
DescribeVpcs(outcome) ==
    /\ AwsRunning("DescribeVpcs")
    /\ \E attributes \in {outcome} \cup {"ok"} :
         LET vpcs == world.aws.VPCs
             listed == IF outcome = "ok" \/ attributes # "ok" THEN "ok" ELSE "error"
             seen == Answered(listed, RequestedVPCs, DOMAIN vpcs)
             vpc(id) == IF attributes = "ok" THEN MapVPC(id, vpcs[id])
                        ELSE [MapVPC(id, vpcs[id]) EXCEPT !.dns = ""]
         IN  RecordInfrastructure("VPCs", "ec2", "DescribeVpcs", {vpc(id) : id \in seen},
                seen = RequestedVPCs /\ (attributes = "ok" \/ seen = {}))

DescribeSubnets(outcome) ==
    /\ AwsRunning("DescribeSubnets")
    /\ LET seen == Answered(outcome, RequestedSubnets, DOMAIN world.aws.Subnets)
       IN  RecordInfrastructure("Subnets", "ec2", "DescribeSubnets",
              {MapSubnet(id, world.aws.Subnets[id]) : id \in seen}, seen = RequestedSubnets)

DescribeRouteTables(outcome) ==
    /\ AwsRunning("DescribeRouteTables")
    /\ LET ofVPCs == {t \in world.aws.RouteTables : t.vpc \in RequestedVPCs}
           answered == outcome = "ok" \/ RequestedVPCs = {}
           tables == IF answered THEN ofVPCs ELSE {}
       IN  /\ eks' = [eks EXCEPT !.Subnets = ApplyRouteTables(@, tables)]
           /\ coverage' = coverage \cup
                {CoverageItem("ec2", "DescribeRouteTables",
                    IF answered THEN "complete" ELSE "partial", Cardinality(tables))}
           /\ AwsContinue(Tail(awsTodo))

DescribeSecurityGroups(outcome) ==
    /\ AwsRunning("DescribeSecurityGroups")
    /\ LET groups == world.aws.SecurityGroups
           seen == Answered(outcome, RequestedSecurityGroups, DOMAIN groups)
       IN  RecordInfrastructure("SecurityGroups", "ec2", "DescribeSecurityGroups",
              {MapSecurityGroup(id, groups[id]) : id \in seen},
              seen = RequestedSecurityGroups)

\* The last hundred activities of each group; an older page is a gap.
DescribeScalingActivities(outcome) ==
    /\ AwsRunning("DescribeScalingActivities")
    /\ LET history == world.aws.ScalingActivities
           groups == IF outcome = "ok" THEN RequestedASGs \cap DOMAIN history ELSE {}
       IN  RecordInfrastructure("ScalingActivities", "autoscaling",
              "DescribeScalingActivities",
              UNION {{[id |-> id, group |-> g, nodegroup |-> NodegroupOfASG(g)] :
                        id \in history[g].recent} : g \in groups},
              groups = RequestedASGs /\ \A g \in groups : ~history[g].older)

AwsInit ==
    /\ eks = EmptyEKS
    /\ awsTodo = AwsProgram
    /\ awsScan = "running"

CallAws(outcome) ==
    \/ GetCallerIdentity(outcome)
    \/ DescribeCluster(outcome)
    \/ ListFamily(outcome)
    \/ DescribeOne(outcome)
    \/ DescribeAutoScalingGroups(outcome)
    \/ DescribeInstances(outcome)
    \/ DescribeVpcs(outcome)
    \/ DescribeSubnets(outcome)
    \/ DescribeRouteTables(outcome)
    \/ DescribeSecurityGroups(outcome)
    \/ DescribeScalingActivities(outcome)
=============================================================================
