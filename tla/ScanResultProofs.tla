---------------------------- MODULE ScanResultProofs ----------------------------
(***************************************************************************)
(* Proofs about what is made of a scan: what the advisor concludes and a   *)
(* comparison finds is warranted by what was read, the graph of any snapshot *)
(* refers to what it contains, and that of a scan tells all of it.         *)
(***************************************************************************)
EXTENDS ScanProofs

(***************************************************************************)
(* What was read.  A list that its coverage item calls complete holds      *)
(* everything that one world of the scan had, and nothing that no world    *)
(* had.                                                                    *)
(***************************************************************************)
\* The lists that the plain list calls fill.
PlainLists == {ListOf(r) : r \in ListCalls}

\* The lists that other steps fill.
OtherLists ==
    {"Version", "APIResources", "CustomResourceInstances", "RunningContainers", "RunningImages",
     "GatewayClasses", "Gateways", "GatewayRoutes", "ReferenceGrants", "GatewayPolicies"}

LEMMA ListNames ==
    /\ PlainLists \subseteq KubernetesLists \ OtherLists
    /\ OtherLists \subseteq KubernetesLists
    /\ \A r \in DOMAIN GatewayTypes : ListOf(r) \in OtherLists
<1>1. ASSUME NEW r \in ListCalls
      PROVE  ListOf(r) \in KubernetesLists \ OtherLists
  BY CallSets DEF ListCalls, ListOf, InCalls, KubernetesLists, OtherLists
<1>2. ASSUME NEW r \in DOMAIN GatewayTypes
      PROVE  ListOf(r) \in OtherLists
  <2>1. r \in {"GatewayClasses", "Gateways", "ReferenceGrants"} \cup ToSet(RouteCalls)
                  \cup ToSet(PolicyTypeCalls)
    BY CallSets DEF GatewayTypes
  <2> QED
    BY <2>1, CallSets DEF ListOf, InCalls, OtherLists
<1>3. OtherLists \subseteq KubernetesLists
  BY DEF OtherLists, KubernetesLists
<1> QED
  BY <1>1, <1>2, <1>3 DEF PlainLists

\* The lists that the advisor and the comparison read, but the workloads: each
\* is filled by one call.
SingleCalls ==
    {"Namespaces", "Nodes", "ServiceAccounts", "ConfigMaps", "SecretsMetadata",
     "CustomResourceDefinitions", "IngressClasses", "StorageClasses", "PersistentVolumes",
     "PersistentVolumeClaims", "CSIDrivers", "RuntimeClasses"}

LEMMA SingleCallsFillOne ==
    ASSUME NEW r \in SingleCalls
    PROVE  /\ r \in ListCalls /\ CallsOf(ListOf(r)) = {r} /\ GatewayCallsOf(ListOf(r)) = {}
           /\ ListOf(r) = IF r = "SecretsMetadata" THEN "Secrets" ELSE r
           /\ ListOf(r) \in PlainLists /\ ListOf(r) \notin OtherLists
<1>1. r \in ListCalls
  BY CallSets DEF ListCalls, SingleCalls
<1>2. ListOf(r) = IF r = "SecretsMetadata" THEN "Secrets" ELSE r
  BY CallSets DEF ListOf, InCalls, SingleCalls
<1>3. ASSUME NEW q \in ListCalls, ListOf(q) = ListOf(r)
      PROVE  q = r
  <2>1. ListOf(q) \notin {"Workloads", "GatewayRoutes", "GatewayPolicies", "AdmissionWebhooks"}
    BY <1>2, <1>3 DEF SingleCalls
  <2>2. ListOf(q) = IF q = "SecretsMetadata" THEN "Secrets" ELSE q
    BY <2>1 DEF ListOf
  <2>3. q # "Secrets"
    BY CallSets DEF ListCalls
  <2> QED
    BY <1>2, <1>3, <2>2, <2>3 DEF SingleCalls
<1>4. ListOf(r) \in PlainLists
  BY <1>1 DEF PlainLists
<1>5. ListOf(r) \notin OtherLists
  BY <1>4, ListNames
<1>6. GatewayCallsOf(ListOf(r)) = {}
  BY <1>5, ListNames DEF GatewayCallsOf
<1>7. CallsOf(ListOf(r)) = {r}
  BY <1>1, <1>3 DEF CallsOf
<1> QED
  BY <1>1, <1>2, <1>4, <1>5, <1>6, <1>7

\* What a scan without failures reads of such a list.
LEMMA IdealOfSingle ==
    ASSUME NEW r \in SingleCalls, NEW w
    PROVE  IdealList(w, ListOf(r)) = ListsOf(r, w)
<1>1. CallsOf(ListOf(r)) = {r} /\ GatewayCallsOf(ListOf(r)) = {} /\ ListOf(r) \notin OtherLists
  BY SingleCallsFillOne
<1>2. ListOf(r) \notin {"Version", "APIResources"}
  BY <1>1 DEF OtherLists
<1> QED
  BY <1>1, <1>2 DEF IdealList

LEMMA ContinueReads ==
    ASSUME NEW lists, DOMAIN lists = KubernetesLists, NEW rest, Continue(lists, rest)
    PROVE  /\ DOMAIN kubernetes' = KubernetesLists
           /\ \A l \in KubernetesLists \ {"RunningContainers", "RunningImages"} :
                    kubernetes'[l] = lists[l]
BY DEF Continue, KubernetesLists

\* The item of coverage is no gap.
Clean(c) == c.status \in {"", "complete"}

\* A step that leaves the lists alone that plain calls fill, and their items.
ReadsNothingPlain ==
    /\ \A l \in PlainLists : kubernetes'[l] = kubernetes[l]
    /\ \A r \in ListCalls : Told(coverage', "kubernetes", r) = Told(coverage, "kubernetes", r)

\* A step that adds to its list all that the world has, or tells of a gap.
ReadsPlain(r) ==
    /\ r \in ListCalls
    /\ \A l \in PlainLists \ {ListOf(r)} : kubernetes'[l] = kubernetes[l]
    /\ \A q \in ListCalls \ {r} : Told(coverage', "kubernetes", q) = Told(coverage, "kubernetes", q)
    /\ \/ /\ kubernetes'[ListOf(r)] = kubernetes[ListOf(r)]
          /\ \A c \in Told(coverage', "kubernetes", r) \ coverage : ~Clean(c)
       \/ /\ kubernetes'[ListOf(r)] = kubernetes[ListOf(r)] \cup ListsOf(r, world.kubernetes)
          /\ Told(coverage', "kubernetes", r) \ coverage
                \subseteq {c \in coverage' : c.status = "complete"}

LEMMA NotPlain ==
    /\ ListCalls \cap ({"ServerVersion", "APIResources"} \cup Totals \cup {InstanceList}
                        \cup DOMAIN GatewayTypes) = {}
BY CallSets DEF ListCalls, Totals, InstanceList, GatewayTypes

LEMMA OtherListRead ==
    ASSUME DOMAIN kubernetes = KubernetesLists, NEW l \in OtherLists, NEW items, NEW rest,
           Continue([kubernetes EXCEPT ![l] = items], rest),
           NEW told, coverage' = coverage \cup told,
           \A c \in told : c.resource \notin ListCalls
    PROVE  DOMAIN kubernetes' = KubernetesLists /\ ReadsNothingPlain
<1> DEFINE lists == [kubernetes EXCEPT ![l] = items]
<1>1. DOMAIN lists = KubernetesLists /\ \A m \in KubernetesLists \ {l} : lists[m] = kubernetes[m]
  OBVIOUS
<1>2. Continue(lists, rest)
  OBVIOUS
<1> HIDE DEF lists
<1>3. /\ DOMAIN kubernetes' = KubernetesLists
      /\ \A m \in KubernetesLists \ {"RunningContainers", "RunningImages"} :
                    kubernetes'[m] = lists[m]
  BY <1>1, <1>2, ContinueReads
<1>4. \A m \in PlainLists : kubernetes'[m] = kubernetes[m]
  <2>1. \A m \in PlainLists : m \in KubernetesLists /\ m \notin OtherLists
    BY ListNames
  <2> QED
    BY <1>1, <1>3, <2>1 DEF OtherLists
<1>5. \A r \in ListCalls : Told(coverage', "kubernetes", r) = Told(coverage, "kubernetes", r)
  BY DEF Told
<1> QED
  BY <1>3, <1>4, <1>5 DEF ReadsNothingPlain

LEMMA ListCallReads ==
    ASSUME DOMAIN kubernetes = KubernetesLists, NEW outcome, ListResource(outcome)
    PROVE  DOMAIN kubernetes' = KubernetesLists /\ ReadsPlain(Head(todo).resource)
<1> DEFINE r == Head(todo).resource
           items == IF outcome = "ok" THEN ListsOf(r, world.kubernetes) ELSE {}
           lists == [kubernetes EXCEPT ![ListOf(r)] = @ \cup items]
           item == IF outcome = "ok" THEN Complete("kubernetes", r, Cardinality(items))
                   ELSE Denied("kubernetes", r, outcome)
<1>1. /\ r \in ListCalls
      /\ \E rest : Continue(lists, rest)
      /\ \E unlistable, done :
            coverage' = coverage \cup {item} \cup Aggregate(r, lists)
                \cup IF done THEN {InstancesCovered(lists, unlistable)} ELSE {}
  BY Zenon DEF ListResource
<1> HIDE DEF r
<1>2. /\ item.resource = r /\ item.area = "kubernetes"
      /\ IF outcome = "ok" THEN item.status = "complete" ELSE ~Clean(item)
  BY DEF Complete, Denied, CoverageItem, Clean
<1>3. /\ DOMAIN lists = KubernetesLists
      /\ lists[ListOf(r)] = kubernetes[ListOf(r)] \cup items
      /\ \A m \in KubernetesLists \ {ListOf(r)} : lists[m] = kubernetes[m]
  <2>1. ListOf(r) \in KubernetesLists
    BY <1>1, ListNames DEF PlainLists
  <2> HIDE DEF items
  <2> QED
    BY <2>1
<1>4. \A c \in Aggregate(r, lists) : c.resource \notin ListCalls
  BY AggregateIsOfTotals, NotPlain
<1>5. \A unlistable : InstancesCovered(lists, unlistable).resource \notin ListCalls
  <2>1. \A unlistable : InstancesCovered(lists, unlistable).resource = InstanceList
    BY DEF InstancesCovered, Complete, Partial, CoverageItem, InstanceList
  <2> QED
    BY <2>1, NotPlain
<1> HIDE DEF item
<1>6. PICK rest : Continue(lists, rest)
  BY <1>1
<1>7. PICK extra : /\ coverage' = coverage \cup {item} \cup extra
                   /\ \A c \in extra : c.resource \notin ListCalls
  <2>1. PICK unlistable, done :
            coverage' = coverage \cup {item} \cup Aggregate(r, lists)
                \cup IF done THEN {InstancesCovered(lists, unlistable)} ELSE {}
    BY <1>1
  <2> DEFINE extra == Aggregate(r, lists)
                        \cup IF done THEN {InstancesCovered(lists, unlistable)} ELSE {}
  <2>2. \A c \in extra : c.resource \notin ListCalls
    BY <1>4, <1>5
  <2>3. coverage' = coverage \cup {item} \cup extra
    BY <2>1
  <2> HIDE DEF extra
  <2> QED
    BY <2>2, <2>3
<1> HIDE DEF lists
<1>8. /\ DOMAIN kubernetes' = KubernetesLists
      /\ \A m \in KubernetesLists \ {"RunningContainers", "RunningImages"} :
                    kubernetes'[m] = lists[m]
  BY <1>3, <1>6, ContinueReads
<1>9. \A m \in PlainLists : m \in KubernetesLists \ {"RunningContainers", "RunningImages"}
  BY ListNames DEF OtherLists
<1>10. ListOf(r) \in PlainLists
  BY <1>1 DEF PlainLists
<1>11. /\ \A l \in PlainLists \ {ListOf(r)} : kubernetes'[l] = kubernetes[l]
       /\ kubernetes'[ListOf(r)] = kubernetes[ListOf(r)] \cup items
  BY <1>3, <1>8, <1>9, <1>10
<1>12. /\ \A q \in ListCalls \ {r} :
                Told(coverage', "kubernetes", q) = Told(coverage, "kubernetes", q)
       /\ Told(coverage', "kubernetes", r) \ coverage \subseteq {item}
       /\ item \in coverage'
  BY <1>1, <1>2, <1>7 DEF Told
<1> QED
  BY <1>1, <1>2, <1>8, <1>11, <1>12 DEF ReadsPlain, r

\* Each call of the Kubernetes collector reads one plain list, or none.
LEMMA KubernetesCallReads ==
    ASSUME DOMAIN kubernetes = KubernetesLists, NEW outcome, CallKubernetes(outcome)
    PROVE  /\ DOMAIN kubernetes' = KubernetesLists
           /\ ReadsNothingPlain \/ ReadsPlain(Head(todo).resource)
<1>1. CASE CheckServerVersion(outcome)
  <2>1. CASE outcome = "ok"
    <3> DEFINE item == Complete("kubernetes", "ServerVersion", 1)
    <3>1. /\ Continue([kubernetes EXCEPT !["Version"] = {world.kubernetes.version}], Tail(todo))
          /\ coverage' = coverage \cup {item}
      BY <1>1, <2>1 DEF CheckServerVersion
    <3>2. item.resource \notin ListCalls
      BY NotPlain DEF Complete, CoverageItem
    <3>3. "Version" \in OtherLists
      BY DEF OtherLists
    <3> HIDE DEF item
    <3> DEFINE told == {item}
    <3>4. coverage' = coverage \cup told /\ \A c \in told : c.resource \notin ListCalls
      BY <3>1, <3>2
    <3> HIDE DEF told
    <3> QED
      BY <3>1, <3>3, <3>4, OtherListRead
  <2>2. CASE outcome # "ok"
    BY <1>1, <2>2 DEF CheckServerVersion, ReadsNothingPlain
  <2> QED
    BY <2>1, <2>2
<1>2. CASE DiscoverAPIResources(outcome)
  <2>1. \E found, status, count :
            /\ Continue([kubernetes EXCEPT !["APIResources"] = found], Tail(todo))
            /\ coverage' = coverage \cup {CoverageItem("kubernetes", "APIResources", status, count)}
    BY <1>2 DEF DiscoverAPIResources
  <2>2. PICK found, status, count :
            /\ Continue([kubernetes EXCEPT !["APIResources"] = found], Tail(todo))
            /\ coverage' = coverage \cup {CoverageItem("kubernetes", "APIResources", status, count)}
    BY <2>1
  <2> DEFINE told == {CoverageItem("kubernetes", "APIResources", status, count)}
  <2>3. coverage' = coverage \cup told /\ \A c \in told : c.resource \notin ListCalls
    BY <2>2, NotPlain DEF CoverageItem
  <2>4. "APIResources" \in OtherLists
    BY DEF OtherLists
  <2> HIDE DEF told
  <2> QED
    BY <2>2, <2>3, <2>4, OtherListRead
<1>3. CASE ListResource(outcome)
  BY <1>3, ListCallReads
<1>4. CASE ListInstances(outcome)
  <2>1. \E items, lists, skipped, last :
            /\ Continue([kubernetes EXCEPT !["CustomResourceInstances"] = items], Tail(todo))
            /\ coverage' = coverage \cup IF last THEN {InstancesCovered(lists, skipped)} ELSE {}
    BY <1>4 DEF ListInstances
  <2>2. PICK items, lists, skipped, last :
            /\ Continue([kubernetes EXCEPT !["CustomResourceInstances"] = items], Tail(todo))
            /\ coverage' = coverage \cup IF last THEN {InstancesCovered(lists, skipped)} ELSE {}
    BY <2>1
  <2>3. InstancesCovered(lists, skipped).resource \notin ListCalls
    <3>1. InstancesCovered(lists, skipped).resource = InstanceList
      BY DEF InstancesCovered, Complete, Partial, CoverageItem, InstanceList
    <3> QED
      BY <3>1, NotPlain
  <2> DEFINE told == IF last THEN {InstancesCovered(lists, skipped)} ELSE {}
  <2>4. coverage' = coverage \cup told /\ \A c \in told : c.resource \notin ListCalls
    BY <2>2, <2>3
  <2>5. "CustomResourceInstances" \in OtherLists
    BY DEF OtherLists
  <2> HIDE DEF told
  <2> QED
    BY <2>2, <2>4, <2>5, OtherListRead
<1>5. CASE ListGatewayResource(outcome)
  <2> DEFINE r == Head(todo).resource
  <2>1. /\ r \in DOMAIN GatewayTypes
        /\ \/ UNCHANGED <<kubernetes, coverage, scan>>
           \/ \E items, item : /\ GatewayCallEnds(r, items, item)
                               /\ \/ \E n : item = Complete("kubernetes", r, n)
                                  \/ item = Denied("kubernetes", r, outcome)
    BY <1>5, Zenon DEF ListGatewayResource
  <2> HIDE DEF r
  <2>2. CASE UNCHANGED <<kubernetes, coverage, scan>>
    BY <2>2 DEF ReadsNothingPlain
  <2>3. ASSUME NEW items, NEW item, GatewayCallEnds(r, items, item),
               \/ \E n : item = Complete("kubernetes", r, n)
               \/ item = Denied("kubernetes", r, outcome)
        PROVE  DOMAIN kubernetes' = KubernetesLists /\ ReadsNothingPlain
    <3>1. item.resource = r /\ r \notin ListCalls
      BY <2>1, <2>3, NotPlain DEF Complete, Denied, CoverageItem
    <3> DEFINE all == kubernetes[ListOf(r)] \cup items
               lists == [kubernetes EXCEPT ![ListOf(r)] = all]
    <3>2. /\ Continue(lists, Tail(todo))
          /\ coverage' = coverage \cup {item} \cup Aggregate(r, lists)
      BY <2>3 DEF GatewayCallEnds
    <3>3. \A c \in Aggregate(r, lists) : c.resource \notin ListCalls
      BY AggregateIsOfTotals, NotPlain
    <3> DEFINE told == {item} \cup Aggregate(r, lists)
    <3>4. coverage' = coverage \cup told /\ \A c \in told : c.resource \notin ListCalls
      BY <3>1, <3>2, <3>3
    <3>5. ListOf(r) \in OtherLists
      BY <2>1, ListNames
    <3> HIDE DEF told, all
    <3> QED
      BY <3>2, <3>4, <3>5, OtherListRead
  <2> QED
    BY <2>1, <2>2, <2>3
<1> QED
  BY <1>1, <1>2, <1>3, <1>4, <1>5 DEF CallKubernetes

\* All that one world of the scan had is in the list.
ReadWhole(r) == \E w \in history : ListsOf(r, w.kubernetes) \subseteq kubernetes[ListOf(r)]

\* Some world of the scan had the item.
WasThere(l, i) == \E r \in CallsOf(l), w \in history : i \in ListsOf(r, w.kubernetes)

PlainInv ==
    /\ DOMAIN kubernetes = KubernetesLists /\ world \in history
    /\ \A r \in ListCalls : \A c \in Told(coverage, "kubernetes", r) :
            Clean(c) => c.status = "complete" /\ ReadWhole(r)
    /\ \A l \in PlainLists : \A i \in kubernetes[l] : WasThere(l, i)

LEMMA NothingIsRead == Init => PlainInv
<1> SUFFICES ASSUME Init PROVE PlainInv
  OBVIOUS
<1>1. /\ kubernetes = EmptyKubernetes /\ coverage = {} /\ world \in history
  BY DEF Init, KubernetesInit
<1>2. /\ DOMAIN kubernetes = KubernetesLists
      /\ \A l \in KubernetesLists : kubernetes[l] = {}
  BY <1>1 DEF EmptyKubernetes
<1>3. \A l \in PlainLists : kubernetes[l] = {}
  BY <1>2, ListNames
<1>4. \A r : Told(coverage, "kubernetes", r) = {}
  BY <1>1 DEF Told
<1> QED
  BY <1>1, <1>2, <1>3, <1>4 DEF PlainInv

\* A world of the scan stays one.
LEMMA PastStays ==
    ASSUME history \subseteq history'
    PROVE  /\ \A l, i : WasThere(l, i) => WasThere(l, i)'
           /\ \A r : ReadWhole(r) /\ kubernetes[ListOf(r)] \subseteq kubernetes'[ListOf(r)]
                        => ReadWhole(r)'
BY DEF WasThere, ReadWhole

LEMMA NothingPlainIsRead ==
    ASSUME PlainInv, history \subseteq history', world' \in history',
           DOMAIN kubernetes' = KubernetesLists, ReadsNothingPlain
    PROVE  PlainInv'
<1>1. ASSUME NEW r \in ListCalls, NEW c \in Told(coverage', "kubernetes", r), Clean(c)
      PROVE  c.status = "complete" /\ ReadWhole(r)'
  <2>1. c \in Told(coverage, "kubernetes", r)
    BY <1>1 DEF ReadsNothingPlain
  <2>2. c.status = "complete" /\ ReadWhole(r)
    BY <1>1, <2>1 DEF PlainInv
  <2>3. kubernetes'[ListOf(r)] = kubernetes[ListOf(r)]
    BY DEF ReadsNothingPlain, PlainLists
  <2> QED
    BY <2>2, <2>3, PastStays
<1>2. ASSUME NEW l \in PlainLists, NEW i \in kubernetes'[l]
      PROVE  WasThere(l, i)'
  BY <1>2, PastStays DEF ReadsNothingPlain, PlainInv
<1> QED
  BY <1>1, <1>2 DEF PlainInv

LEMMA PlainListIsRead ==
    ASSUME PlainInv, UNCHANGED <<world, history>>, DOMAIN kubernetes' = KubernetesLists,
           NEW q, ReadsPlain(q)
    PROVE  PlainInv'
<1>1. \A l \in PlainLists : kubernetes[l] \subseteq kubernetes'[l]
  BY DEF ReadsPlain
<1>2. ASSUME NEW r \in ListCalls, NEW c \in Told(coverage', "kubernetes", r), Clean(c)
      PROVE  c.status = "complete" /\ ReadWhole(r)'
  <2>1. ListOf(r) \in PlainLists
    BY DEF PlainLists
  <2>2. CASE c \in coverage
    <3>1. c \in Told(coverage, "kubernetes", r)
      BY <2>2, <1>2 DEF Told
    <3>2. c.status = "complete" /\ ReadWhole(r)
      BY <1>2, <3>1 DEF PlainInv
    <3> QED
      BY <1>1, <2>1, <3>2, PastStays
  <2>3. CASE c \notin coverage
    <3>1. r = q
      BY <1>2, <2>3 DEF ReadsPlain, Told
    <3>2. /\ kubernetes'[ListOf(r)] = kubernetes[ListOf(r)] \cup ListsOf(r, world.kubernetes)
          /\ c.status = "complete"
      BY <1>2, <2>3, <3>1 DEF ReadsPlain
    <3>3. world \in history'
      BY DEF PlainInv
    <3> QED
      BY <3>2, <3>3 DEF ReadWhole
  <2> QED
    BY <2>2, <2>3
<1>3. ASSUME NEW l \in PlainLists, NEW i \in kubernetes'[l]
      PROVE  WasThere(l, i)'
  <2>1. CASE i \in kubernetes[l]
    BY <2>1, PastStays DEF PlainInv
  <2>2. CASE i \notin kubernetes[l]
    <3>1. l = ListOf(q) /\ q \in ListCalls /\ i \in ListsOf(q, world.kubernetes)
      BY <1>3, <2>2 DEF ReadsPlain
    <3>2. q \in CallsOf(l) /\ world \in history'
      BY <3>1 DEF CallsOf, PlainInv
    <3> QED
      BY <3>1, <3>2 DEF WasThere
  <2> QED
    BY <2>1, <2>2
<1> QED
  BY <1>2, <1>3 DEF PlainInv

\* The AWS collector tells nothing of a Kubernetes list.
LEMMA AwsTellsOthers ==
    ASSUME CoverageInv, ListsEnd(world), CollectAws
    PROVE  \A r : Told(coverage', "kubernetes", r) = Told(coverage, "kubernetes", r)
<1>1. PICK outcome : CallAws(outcome)
  BY DEF CollectAws
<1> QED
  BY <1>1, AwsCallKeepsCoverage DEF CoverageInv, ListsEnd

LEMMA HistoryGrows ==
    ASSUME world \in history, [Next]_vars
    PROVE  history \subseteq history' /\ world' \in history'
BY DEF Next, CollectAws, CollectKubernetes, Change, vars

LEMMA PlainIsKept ==
    ASSUME CoverageInv, PlainInv, ListsEnd(world), [Next]_vars
    PROVE  PlainInv'
<1>1. history \subseteq history' /\ world' \in history'
  BY HistoryGrows DEF PlainInv
<1>2. CASE CollectKubernetes
  <2>1. PICK outcome : CallKubernetes(outcome) /\ UNCHANGED <<world, history>>
    BY <1>2 DEF CollectKubernetes
  <2>2. /\ DOMAIN kubernetes' = KubernetesLists
        /\ ReadsNothingPlain \/ ReadsPlain(Head(todo).resource)
    BY <2>1, KubernetesCallReads DEF PlainInv
  <2> QED
    BY <1>1, <2>1, <2>2, NothingPlainIsRead, PlainListIsRead
<1>3. CASE CollectAws \/ Change \/ UNCHANGED vars
  <2>1. kubernetes' = kubernetes
    BY <1>3 DEF CollectAws, Change, kubernetesVars, vars
  <2>2. \A r : Told(coverage', "kubernetes", r) = Told(coverage, "kubernetes", r)
    BY <1>3, AwsTellsOthers DEF Change, vars
  <2>3. DOMAIN kubernetes' = KubernetesLists /\ ReadsNothingPlain
    BY <2>1, <2>2 DEF ReadsNothingPlain, PlainInv
  <2> QED
    BY <1>1, <2>3, NothingPlainIsRead
<1> QED
  BY <1>2, <1>3 DEF Next

\* What is ahead after a call: the rest, behind it the instances of the
\* definitions that were read, or the same gateway list in another way.
LEMMA NextCalls ==
    ASSUME KubernetesOrdered(todo), FiniteDefinitions(world), NEW outcome, CallKubernetes(outcome)
    PROVE  /\ todo # <<>>
           /\ \/ todo' \in {todo, Tail(todo)}
              \/ \E calls : /\ todo' = calls \o Tail(todo) /\ IsASeq(calls)
                            /\ \A c \in ToSet(calls) : c.resource = InstanceList
              \/ \E next : /\ todo' = <<next>> \o Tail(todo)
                           /\ next.resource = Head(todo).resource
                           /\ Head(todo).resource \in DOMAIN GatewayTypes
<1>0. todo # <<>>
  BY DEF CallKubernetes, CheckServerVersion, DiscoverAPIResources, ListResource,
         ListInstances, ListGatewayResource, Running
<1>1. CASE CheckServerVersion(outcome) /\ outcome # "ok"
  BY <1>0, <1>1 DEF CheckServerVersion
<1>2. CASE PlainAnswer
  BY <1>0, <1>2 DEF PlainAnswer
<1>3. CASE ListInstances(outcome)
  <2>1. \E lists : Continue(lists, Tail(todo))
    BY <1>3 DEF ListInstances
  <2> QED
    BY <1>0, <2>1, ContinueGoesOn
<1>4. CASE ListResource(outcome) /\ Head(todo).resource = DefinitionList
  <2> DEFINE crds == IF outcome = "ok" THEN ListsOf(DefinitionList, world.kubernetes) ELSE {}
             asked == {InstanceCall(n) : n \in {c.ref.name : c \in {d \in crds : Listable(d)}}}
             calls == SetToSeq(asked)
  <2>1. \E lists : Continue(lists, calls \o Tail(todo))
    BY <1>4 DEF ListResource, DefinitionList
  <2>2. IsFiniteSet(crds)
    BY DefinitionsAreFinite, FS_EmptySet
  <2>3. IsFiniteSet(asked)
    BY <2>2, InstanceCallsAreFinite
  <2>4. \A c \in asked : c.resource = InstanceList
    BY DEF InstanceCall, Call, InstanceList
  <2> HIDE DEF asked
  <2>5. IsASeq(calls) /\ ToSet(calls) = asked
    BY <2>3, EveryMemberOnce, SeqOfItsMembers
  <2>6. todo' = calls \o Tail(todo)
    BY <2>1, ContinueGoesOn
  <2> HIDE DEF calls
  <2> QED
    BY <1>0, <2>4, <2>5, <2>6
<1>5. CASE ListGatewayResource(outcome)
  <2> DEFINE resource == Head(todo).resource
  <2>1. resource \in DOMAIN GatewayTypes
    BY <1>5 DEF ListGatewayResource
  <2> DEFINE other(candidates, fallback) ==
                [Head(todo) EXCEPT !.candidates = candidates, !.fallback = fallback]
  <2>2. \A candidates, fallback : other(candidates, fallback).resource = resource
    BY <1>0, KubernetesTail DEF IsCall
  <2>3. \/ \E items, item : GatewayCallEnds(resource, items, item)
        \/ \E candidates, fallback : todo' = <<other(candidates, fallback)>> \o Tail(todo)
    BY <1>5, Zenon DEF ListGatewayResource
  <2> HIDE DEF other
  <2>4. CASE \E items, item : GatewayCallEnds(resource, items, item)
    <3>1. \E lists : Continue(lists, Tail(todo))
      BY <2>4 DEF GatewayCallEnds
    <3> QED
      BY <1>0, <3>1, ContinueGoesOn
  <2>5. CASE \E candidates, fallback : todo' = <<other(candidates, fallback)>> \o Tail(todo)
    <3>1. PICK next : todo' = <<next>> \o Tail(todo) /\ next.resource = resource
      BY <2>2, <2>5
    <3> QED
      BY <1>0, <2>1, <3>1
  <2> QED
    BY <2>3, <2>4, <2>5
<1> QED
  BY <1>1, <1>2, <1>3, <1>4, <1>5, PlainCalls DEF CallKubernetes

\* The calls ahead ask for the volumes before the claims.
AsksVolumes(c) == c.resource = "PersistentVolumes"
AsksClaims(c) == c.resource = "PersistentVolumeClaims"
VolumesAreNext(t) ==
    \A i, j \in DOMAIN t : AsksVolumes(t[i]) /\ AsksClaims(t[j]) => i < j

LEMMA VolumesAreFirst == VolumesAreNext(Program)
<1>1. PICK names : /\ DOMAIN Program = DOMAIN names /\ VolumesFirst(names)
                   /\ \A i \in DOMAIN Program : Program[i] = Call(names[i])
  BY ProgramIsOrdered
<1>2. \A x : Call(x).resource = x
  BY DEF Call
<1> SUFFICES ASSUME NEW i \in DOMAIN Program, NEW j \in DOMAIN Program,
                    AsksVolumes(Program[i]), AsksClaims(Program[j])
             PROVE  i < j
  BY Zenon DEF VolumesAreNext
<1>3. names[i] = "PersistentVolumes" /\ names[j] = "PersistentVolumeClaims"
  <2>1. Program[i] = Call(names[i]) /\ Program[j] = Call(names[j])
    BY <1>1
  <2> QED
    BY <1>2, <2>1, Zenon DEF AsksVolumes, AsksClaims
<1> QED
  BY <1>1, <1>3, Zenon DEF VolumesFirst

LEMMA VolumesStayNext ==
    ASSUME NEW t, IsASeq(t), t # <<>>, VolumesAreNext(t)
    PROVE  /\ VolumesAreNext(Tail(t))
           /\ \A first : IsASeq(first) /\ (\A c \in ToSet(first) : ~AsksVolumes(c) /\ ~AsksClaims(c))
                            => VolumesAreNext(first \o Tail(t))
<1>1. /\ DOMAIN Tail(t) = 1..(Len(t) - 1) /\ Len(t) \in Nat /\ IsASeq(Tail(t))
      /\ \A i \in DOMAIN Tail(t) : i + 1 \in DOMAIN t /\ Tail(t)[i] = t[i + 1]
  BY TailOf
<1>2. \A i, j \in DOMAIN t : AsksVolumes(t[i]) /\ AsksClaims(t[j]) => i < j
  BY DEF VolumesAreNext
<1>3. \A i, j \in DOMAIN Tail(t) : AsksVolumes(Tail(t)[i]) /\ AsksClaims(Tail(t)[j]) => i < j
  <2> SUFFICES ASSUME NEW i \in DOMAIN Tail(t), NEW j \in DOMAIN Tail(t),
                      AsksVolumes(Tail(t)[i]), AsksClaims(Tail(t)[j])
               PROVE  i < j
    OBVIOUS
  <2>1. i + 1 \in DOMAIN t /\ Tail(t)[i] = t[i + 1] /\ j + 1 \in DOMAIN t /\ Tail(t)[j] = t[j + 1]
    BY <1>1
  <2>2. i + 1 < j + 1
    BY <1>2, <2>1
  <2>3. i \in Nat /\ j \in Nat
    BY <1>1
  <2> QED
    BY <2>2, <2>3
<1>4. ASSUME NEW first, IsASeq(first),
             \A c \in ToSet(first) : ~AsksVolumes(c) /\ ~AsksClaims(c),
             NEW i \in DOMAIN (first \o Tail(t)), NEW j \in DOMAIN (first \o Tail(t)),
             AsksVolumes((first \o Tail(t))[i]), AsksClaims((first \o Tail(t))[j])
      PROVE  i < j
  <2> DEFINE all == first \o Tail(t)
  <2>1. /\ DOMAIN all = 1..(Len(first) + Len(Tail(t))) /\ Len(first) \in Nat /\ Len(Tail(t)) \in Nat
        /\ \A k \in DOMAIN all :
                \/ k \in DOMAIN first /\ all[k] = first[k]
                \/ /\ k > Len(first) /\ k - Len(first) \in DOMAIN Tail(t)
                   /\ all[k] = Tail(t)[k - Len(first)]
    BY <1>1, <1>4, ConcatOf
  <2>2. \A k \in DOMAIN first : first[k] \in ToSet(first)
    BY DEF ToSet
  <2>3. i \in DOMAIN all /\ j \in DOMAIN all /\ AsksVolumes(all[i]) /\ AsksClaims(all[j])
    BY <1>4
  <2> HIDE DEF all
  <2>4. /\ i - Len(first) \in DOMAIN Tail(t) /\ all[i] = Tail(t)[i - Len(first)]
        /\ j - Len(first) \in DOMAIN Tail(t) /\ all[j] = Tail(t)[j - Len(first)]
    BY <1>4, <2>1, <2>2, <2>3
  <2>5. i - Len(first) < j - Len(first)
    BY <1>3, <2>3, <2>4
  <2> QED
    BY <2>1, <2>3, <2>5
<1>5. VolumesAreNext(Tail(t))
  BY <1>3, Zenon DEF VolumesAreNext
<1>6. ASSUME NEW first, IsASeq(first), \A c \in ToSet(first) : ~AsksVolumes(c) /\ ~AsksClaims(c)
      PROVE  VolumesAreNext(first \o Tail(t))
  BY <1>4, <1>6, Zenon DEF VolumesAreNext
<1> QED
  BY <1>5, <1>6

LEMMA NoVolumesAfterClaims ==
    ASSUME NEW t, IsASeq(t), t # <<>>, VolumesAreNext(t), AsksClaims(Head(t))
    PROVE  \A c \in ToSet(t) : ~AsksVolumes(c)
<1>1. Head(t) = t[1] /\ 1 \in DOMAIN t /\ DOMAIN t = 1..Len(t) /\ Len(t) \in Nat
  BY DEF IsASeq
<1>2. \A i \in DOMAIN t : AsksVolumes(t[i]) => i < 1
  BY <1>1 DEF VolumesAreNext
<1>3. \A i \in DOMAIN t : ~AsksVolumes(t[i])
  BY <1>1, <1>2
<1> QED
  BY <1>3 DEF ToSet

LEMMA VolumesKeepNext ==
    ASSUME KubernetesOrdered(todo), VolumesAreNext(todo), FiniteDefinitions(world),
           NEW outcome, CallKubernetes(outcome)
    PROVE  VolumesAreNext(todo')
<1>1. /\ todo # <<>>
      /\ \/ todo' \in {todo, Tail(todo)}
         \/ \E calls : /\ todo' = calls \o Tail(todo) /\ IsASeq(calls)
                       /\ \A c \in ToSet(calls) : c.resource = InstanceList
         \/ \E next : /\ todo' = <<next>> \o Tail(todo)
                      /\ next.resource = Head(todo).resource
                      /\ Head(todo).resource \in DOMAIN GatewayTypes
  BY NextCalls
<1>2. IsASeq(todo)
  BY DEF KubernetesOrdered
<1>3. \A c : c.resource \in DOMAIN GatewayTypes \cup {InstanceList}
                => ~AsksVolumes(c) /\ ~AsksClaims(c)
  BY DEF InstanceList, GatewayTypes, AsksVolumes, AsksClaims
<1>4. \A next : IsASeq(<<next>>) /\ ToSet(<<next>>) = {next}
  BY DEF IsASeq, ToSet
<1>5. CASE todo' \in {todo, Tail(todo)}
  BY <1>1, <1>2, <1>5, VolumesStayNext
<1>6. ASSUME NEW calls, todo' = calls \o Tail(todo), IsASeq(calls),
             \A c \in ToSet(calls) : c.resource \in DOMAIN GatewayTypes \cup {InstanceList}
      PROVE  VolumesAreNext(todo')
  <2>1. \A c \in ToSet(calls) : ~AsksVolumes(c) /\ ~AsksClaims(c)
    BY <1>3, <1>6
  <2>2. VolumesAreNext(calls \o Tail(todo))
    BY <1>1, <1>2, <1>6, <2>1, VolumesStayNext
  <2> QED
    BY <1>6, <2>2
<1>7. ASSUME NEW next, todo' = <<next>> \o Tail(todo),
             next.resource = Head(todo).resource, Head(todo).resource \in DOMAIN GatewayTypes
      PROVE  VolumesAreNext(todo')
  <2> DEFINE calls == <<next>>
  <2>1. /\ IsASeq(calls) /\ todo' = calls \o Tail(todo)
        /\ \A c \in ToSet(calls) : c.resource \in DOMAIN GatewayTypes \cup {InstanceList}
    BY <1>4, <1>7
  <2> HIDE DEF calls
  <2> QED
    BY <1>6, <2>1
<1> QED
  BY <1>1, <1>5, <1>6, <1>7

VolumesAhead == \E c \in ToSet(todo) : AsksVolumes(c)

VolumesOf(w) == ListsOf("PersistentVolumes", w.kubernetes)
ClaimsOf(w) == ListsOf("PersistentVolumeClaims", w.kubernetes)

\* A volume was read of one world, and each claim of the same or a later one.
ReadBeforeClaims(later, v) ==
    \E w \in history :
        /\ v \in VolumesOf(w)
        /\ \A c \in kubernetes["PersistentVolumeClaims"] :
                \E x \in history : c \in ClaimsOf(x) /\ <<w, x>> \in later

BindingInv(later) ==
    /\ world \in history /\ \A w \in history : <<w, world>> \in later
    /\ VolumesAreNext(todo)
    /\ VolumesAhead => kubernetes["PersistentVolumeClaims"] = {}
    /\ \A v \in kubernetes["PersistentVolumes"] : ReadBeforeClaims(later, v)

\* The worlds follow each other: what is later than one world is so ever after,
\* and the claim that a volume of the earlier world refers to is not younger
\* than that world.  Claims have names and UIDs, and who binds a volume notes
\* the UID of its claim.
BindingsAreKept(worlds, later) ==
    /\ \A w \in worlds : <<w, w>> \in later
    /\ \A w \in worlds : \A n \in Successors(w) : <<w, n>> \in later
    /\ \A u, v, w \in worlds : <<u, v>> \in later /\ <<v, w>> \in later => <<u, w>> \in later
    /\ \A w \in worlds : \A c \in w.kubernetes.PersistentVolumeClaims : c.name # "" /\ c.uid # ""
    /\ \A w \in worlds : \A v \in w.kubernetes.PersistentVolumes :
            v.phase = "Bound" => v.claimRef.uid # ""
    /\ \A w, x \in worlds : <<w, x>> \in later =>
            \A v \in w.kubernetes.PersistentVolumes, c \in x.kubernetes.PersistentVolumeClaims :
                v.claimRef.uid = c.uid => \E d \in w.kubernetes.PersistentVolumeClaims : d.uid = c.uid

VolumeLists == {"PersistentVolumes", "PersistentVolumeClaims"}

\* The two lists are only read by their calls.
LEMMA VolumesAreRead ==
    ASSUME DOMAIN kubernetes = KubernetesLists, NEW outcome, CallKubernetes(outcome),
           NEW l \in VolumeLists
    PROVE  \/ kubernetes'[l] = kubernetes[l]
           \/ /\ Head(todo).resource = l
              /\ kubernetes'[l] = kubernetes[l] \cup ListsOf(l, world.kubernetes)
<1>1. l \in SingleCalls /\ l # "SecretsMetadata"
  BY DEF VolumeLists, SingleCalls
<1>2. ListOf(l) = l /\ l \in PlainLists /\ CallsOf(l) = {l}
  BY <1>1, SingleCallsFillOne
<1>3. CASE ReadsNothingPlain
  BY <1>2, <1>3 DEF ReadsNothingPlain
<1>4. CASE ReadsPlain(Head(todo).resource)
  <2> DEFINE r == Head(todo).resource
  <2> HIDE DEF r
  <2>1. ReadsPlain(r)
    BY <1>4 DEF r
  <2>2. CASE ListOf(r) # l
    BY <1>2, <2>1, <2>2 DEF ReadsPlain
  <2>3. CASE ListOf(r) = l
    <3>1. r \in CallsOf(l)
      BY <2>1, <2>3 DEF ReadsPlain, CallsOf
    <3>2. r = l
      BY <1>2, <3>1
    <3>3. \/ kubernetes'[ListOf(r)] = kubernetes[ListOf(r)]
          \/ kubernetes'[ListOf(r)] = kubernetes[ListOf(r)] \cup ListsOf(r, world.kubernetes)
      BY <2>1 DEF ReadsPlain
    <3> QED
      BY <2>3, <3>2, <3>3 DEF r
  <2> QED
    BY <2>2, <2>3
<1> QED
  BY <1>3, <1>4, KubernetesCallReads

LEMMA VolumesAheadWere ==
    ASSUME KubernetesOrdered(todo), FiniteDefinitions(world), NEW outcome, CallKubernetes(outcome),
           VolumesAhead'
    PROVE  /\ VolumesAhead
           /\ VolumesAreNext(todo) => ~AsksClaims(Head(todo))
<1>1. /\ todo # <<>>
      /\ \/ todo' \in {todo, Tail(todo)}
         \/ \E calls : /\ todo' = calls \o Tail(todo) /\ IsASeq(calls)
                       /\ \A c \in ToSet(calls) : c.resource = InstanceList
         \/ \E next : /\ todo' = <<next>> \o Tail(todo)
                      /\ next.resource = Head(todo).resource
                      /\ Head(todo).resource \in DOMAIN GatewayTypes
  BY NextCalls
<1>2. PICK c \in ToSet(todo') : AsksVolumes(c)
  BY DEF VolumesAhead
<1>3. ToSet(todo) = {Head(todo)} \cup ToSet(Tail(todo)) /\ IsASeq(Tail(todo))
  BY <1>1, KubernetesTail DEF KubernetesOrdered
<1>4. \A d : d.resource \in DOMAIN GatewayTypes \cup {InstanceList} => ~AsksVolumes(d)
  BY DEF InstanceList, GatewayTypes, AsksVolumes
<1>5. \A calls : IsASeq(calls) => ToSet(calls \o Tail(todo)) = ToSet(calls) \cup ToSet(Tail(todo))
  BY <1>3, ConcatOf
<1>6. \A next : IsASeq(<<next>>) /\ ToSet(<<next>>) = {next}
  BY DEF IsASeq, ToSet
<1>7. c \in ToSet(todo)
  <2>1. CASE todo' \in {todo, Tail(todo)}
    BY <1>2, <1>3, <2>1
  <2>2. ASSUME NEW calls, todo' = calls \o Tail(todo), IsASeq(calls),
               \A d \in ToSet(calls) : d.resource = InstanceList
        PROVE  c \in ToSet(todo)
    BY <1>2, <1>3, <1>4, <1>5, <2>2
  <2>3. ASSUME NEW next, todo' = <<next>> \o Tail(todo),
               next.resource = Head(todo).resource, Head(todo).resource \in DOMAIN GatewayTypes
        PROVE  c \in ToSet(todo)
    <3>1. ToSet(todo') = {next} \cup ToSet(Tail(todo))
      BY <1>5, <1>6, <2>3
    <3>2. ~AsksVolumes(next)
      BY <1>4, <2>3
    <3> QED
      BY <1>2, <1>3, <3>1, <3>2
  <2> QED
    BY <1>1, <2>1, <2>2, <2>3
<1>8. IsASeq(todo)
  BY DEF KubernetesOrdered
<1> QED
  BY <1>1, <1>2, <1>7, <1>8, NoVolumesAfterClaims DEF VolumesAhead

\* The order of the two reads is the order of their worlds.
LEMMA BindingIsKept ==
    ASSUME NEW worlds, NEW later, BindingsAreKept(worlds, later), AreWorlds(worlds),
           history \subseteq worlds, world \in worlds,
           CoverageInv, ListsEnd(world), DOMAIN kubernetes = KubernetesLists,
           BindingInv(later), [Next]_vars
    PROVE  BindingInv(later)'
<1>1. history \subseteq history' /\ world' \in history'
  BY HistoryGrows DEF BindingInv
<1>2. CASE CollectKubernetes
  <2>1. PICK outcome : CallKubernetes(outcome) /\ UNCHANGED <<world, history>>
    BY <1>2 DEF CollectKubernetes
  <2>2. KubernetesOrdered(todo) /\ FiniteDefinitions(world)
    BY DEF CoverageInv, ListsEnd
  <2>3. VolumesAreNext(todo')
    BY <2>1, <2>2, VolumesKeepNext DEF BindingInv
  <2>4. \/ kubernetes'["PersistentVolumeClaims"] = kubernetes["PersistentVolumeClaims"]
        \/ /\ Head(todo).resource = "PersistentVolumeClaims"
           /\ kubernetes'["PersistentVolumeClaims"]
                = kubernetes["PersistentVolumeClaims"] \cup ClaimsOf(world)
    BY <2>1, VolumesAreRead DEF VolumeLists, ClaimsOf
  <2>5. \/ kubernetes'["PersistentVolumes"] = kubernetes["PersistentVolumes"]
        \/ /\ Head(todo).resource = "PersistentVolumes"
           /\ kubernetes'["PersistentVolumes"]
                = kubernetes["PersistentVolumes"] \cup VolumesOf(world)
    BY <2>1, VolumesAreRead DEF VolumeLists, VolumesOf
  <2>6. VolumesAhead' => kubernetes'["PersistentVolumeClaims"] = {}
    <3> SUFFICES ASSUME VolumesAhead' PROVE kubernetes'["PersistentVolumeClaims"] = {}
      OBVIOUS
    <3>1. VolumesAhead /\ (VolumesAreNext(todo) => ~AsksClaims(Head(todo)))
      BY <2>1, <2>2, VolumesAheadWere
    <3>2. Head(todo).resource # "PersistentVolumeClaims"
      BY <3>1 DEF AsksClaims, BindingInv
    <3> QED
      BY <2>4, <3>1, <3>2 DEF BindingInv
  <2>7. ASSUME NEW v \in kubernetes'["PersistentVolumes"]
        PROVE  ReadBeforeClaims(later, v)'
    <3>1. CASE v \in kubernetes["PersistentVolumes"]
      <4>1. PICK w \in history :
                /\ v \in VolumesOf(w)
                /\ \A c \in kubernetes["PersistentVolumeClaims"] :
                        \E x \in history : c \in ClaimsOf(x) /\ <<w, x>> \in later
        BY <3>1 DEF BindingInv, ReadBeforeClaims
      <4>2. <<w, world>> \in later /\ world \in history
        BY DEF BindingInv
      <4>3. \A c \in kubernetes'["PersistentVolumeClaims"] :
                \E x \in history : c \in ClaimsOf(x) /\ <<w, x>> \in later
        BY <2>4, <4>1, <4>2
      <4> QED
        BY <2>1, <4>1, <4>3 DEF ReadBeforeClaims
    <3>2. CASE v \notin kubernetes["PersistentVolumes"]
      <4>1. Head(todo).resource = "PersistentVolumes" /\ v \in VolumesOf(world)
        BY <2>5, <2>7, <3>2
      <4>2. todo # <<>>
        BY <2>1, <2>2, NextCalls
      <4>3. VolumesAhead
        BY <2>2, <4>1, <4>2, KubernetesTail DEF VolumesAhead, AsksVolumes
      <4>4. kubernetes'["PersistentVolumeClaims"] = {}
        BY <2>4, <4>1, <4>3 DEF BindingInv
      <4> QED
        BY <2>1, <4>1, <4>4 DEF ReadBeforeClaims, BindingInv
    <3> QED
      BY <3>1, <3>2
  <2> QED
    BY <2>1, <2>3, <2>6, <2>7 DEF BindingInv
<1>3. CASE CollectAws \/ Change \/ UNCHANGED vars
  <2>1. kubernetes' = kubernetes /\ todo' = todo
    BY <1>3 DEF CollectAws, Change, kubernetesVars, vars
  <2>2. ASSUME NEW w \in history' PROVE <<w, world'>> \in later
    <3>1. CASE UNCHANGED <<world, history>>
      BY <3>1 DEF BindingInv
    <3>2. CASE Change
      <4>1. world' \in Successors(world) /\ history' = history \cup {world'}
        BY <3>2 DEF Change
      <4>2. world' \in worlds
        BY <4>1 DEF AreWorlds
      <4>3. <<world, world'>> \in later /\ <<world', world'>> \in later
        BY <4>1, <4>2 DEF BindingsAreKept
      <4>4. CASE w \in history
        BY <4>2, <4>3, <4>4 DEF BindingInv, BindingsAreKept
      <4> QED
        BY <4>1, <4>3, <4>4
    <3> QED
      BY <1>3, <3>1, <3>2 DEF CollectAws, vars
  <2>3. ASSUME NEW v \in kubernetes["PersistentVolumes"]
        PROVE  ReadBeforeClaims(later, v)'
    BY <1>1, <2>1, <2>3 DEF BindingInv, ReadBeforeClaims
  <2> QED
    BY <1>1, <2>1, <2>2, <2>3 DEF BindingInv, VolumesAhead
<1> QED
  BY <1>2, <1>3 DEF Next

LEMMA VolumesAreMapped ==
    ASSUME NEW w
    PROVE  /\ VolumesOf(w) = {MapPersistentVolume(v) : v \in w.kubernetes.PersistentVolumes}
           /\ ClaimsOf(w) = {MapPersistentVolumeClaim(c) : c \in w.kubernetes.PersistentVolumeClaims}
<1>1. \A l \in VolumeLists : ListsOf(l, w.kubernetes) = StorageListing(w.kubernetes)[l]
  BY CallSets DEF ListsOf, InCalls, VolumeLists
<1> QED
  BY <1>1 DEF VolumesOf, ClaimsOf, VolumeLists, StorageListing

LEMMA EvidenceWasBound ==
    ASSUME NEW worlds, NEW later, BindingsAreKept(worlds, later),
           history \subseteq worlds, BindingInv(later), PlainInv
    PROVE  RwxEvidenceWasBound
<1> SUFFICES ASSUME NEW class, NEW b \in BoundVolumes(Snapshot, class)
             PROVE  \E w \in history :
                        /\ \E c \in w.kubernetes.PersistentVolumeClaims : c.uid = b[1].ref.uid
                        /\ \E v \in w.kubernetes.PersistentVolumes :
                                v.uid = b[2].ref.uid /\ v.claimRef.uid = b[1].ref.uid
  BY DEF RwxEvidenceWasBound
<1> DEFINE pvc == b[1]
           pv == b[2]
<1>1. /\ pvc \in kubernetes["PersistentVolumeClaims"] /\ pv \in kubernetes["PersistentVolumes"]
      /\ pv.phase = "Bound"
      /\ pv.claimRef.name = pvc.ref.name
      /\ pv.claimRef.uid = "" \/ pvc.ref.uid = "" \/ pv.claimRef.uid = pvc.ref.uid
  BY DEF BoundVolumes, Snapshot
<1> HIDE DEF pvc, pv
<1>2. PICK w \in history :
        /\ pv \in VolumesOf(w)
        /\ \A c \in kubernetes["PersistentVolumeClaims"] :
                \E x \in history : c \in ClaimsOf(x) /\ <<w, x>> \in later
  BY <1>1 DEF BindingInv, ReadBeforeClaims
<1>3. PICK x \in history : pvc \in ClaimsOf(x) /\ <<w, x>> \in later
  BY <1>1, <1>2
<1>4. PICK v \in w.kubernetes.PersistentVolumes : pv = MapPersistentVolume(v)
  BY <1>2, VolumesAreMapped
<1>5. PICK c \in x.kubernetes.PersistentVolumeClaims : pvc = MapPersistentVolumeClaim(c)
  BY <1>3, VolumesAreMapped
<1>6. pvc.ref.name = c.name /\ pvc.ref.uid = c.uid
  BY <1>5 DEF MapPersistentVolumeClaim, Ref
<1>7. /\ pv.ref.uid = v.uid /\ pv.phase = v.phase
      /\ pv.claimRef.name # "" => pv.claimRef.uid = v.claimRef.uid
  BY <1>4 DEF MapPersistentVolume, Ref, NoRef, RefTo
<1>8. c.name # "" /\ c.uid # ""
  BY <1>3 DEF BindingsAreKept
<1>9. v.claimRef.uid # ""
  <2>1. w \in worlds /\ v.phase = "Bound"
    BY <1>1, <1>2, <1>7
  <2>2. \A u \in w.kubernetes.PersistentVolumes : u.phase = "Bound" => u.claimRef.uid # ""
    BY <2>1 DEF BindingsAreKept
  <2> QED
    BY <1>4, <2>1, <2>2
<1>10. v.claimRef.uid = c.uid
  BY <1>1, <1>6, <1>7, <1>8, <1>9
<1>11. \E d \in w.kubernetes.PersistentVolumeClaims : d.uid = c.uid
  <2>1. w \in worlds /\ x \in worlds
    BY <1>2, <1>3
  <2>2. \A vv \in w.kubernetes.PersistentVolumes, cc \in x.kubernetes.PersistentVolumeClaims :
            vv.claimRef.uid = cc.uid => \E d \in w.kubernetes.PersistentVolumeClaims : d.uid = cc.uid
    BY <1>3, <2>1 DEF BindingsAreKept
  <2> QED
    BY <1>4, <1>5, <1>10, <2>2
<1>12. /\ \E d \in w.kubernetes.PersistentVolumeClaims : d.uid = pvc.ref.uid
       /\ \E u \in w.kubernetes.PersistentVolumes :
                u.uid = pv.ref.uid /\ u.claimRef.uid = pvc.ref.uid
  BY <1>4, <1>6, <1>7, <1>10, <1>11
<1> QED
  BY <1>2, <1>12 DEF pvc, pv

LEMMA HistoryStaysAmong ==
    ASSUME NEW CONSTANT worlds, AreWorlds(worlds)
    PROVE  Spec => [](history \subseteq worlds)
<1> DEFINE Inv == history \subseteq worlds
<1>1. Init => Inv
  BY DEF Init, AreWorlds
<1>2. world \in worlds /\ Inv /\ [Next]_vars => Inv'
  BY DEF Next, CollectAws, CollectKubernetes, Change, vars, AreWorlds
<1>3. Spec => [](world \in worlds)
  BY WorldStaysAmong
<1> QED
  BY <1>1, <1>2, <1>3, PTL DEF Spec

\* The list that a call fills.
Fills(r) == IF r = "ServerVersion" THEN "Version" ELSE ListOf(r)

ReadsOne(r, items, rest, told) ==
    /\ Continue([kubernetes EXCEPT ![Fills(r)] = items], rest)
    /\ coverage' = coverage \cup told
    /\ \A c \in told : c.resource \in {r, InstanceList} \cup Totals

\* Each call changes one list at most, and tells of it, of totals or of the instances.
LEMMA CallFillsOneList ==
    ASSUME NEW outcome, CallKubernetes(outcome)
    PROVE  \/ kubernetes' = kubernetes /\ coverage' = coverage
           \/ \E items, rest, told : ReadsOne(Head(todo).resource, items, rest, told)
<1> DEFINE r == Head(todo).resource
<1>1. CASE CheckServerVersion(outcome)
  <2>1. CASE outcome = "ok"
    <3> DEFINE item == Complete("kubernetes", "ServerVersion", 1)
               items == {world.kubernetes.version}
    <3>1. /\ Continue([kubernetes EXCEPT !["Version"] = items], Tail(todo))
          /\ coverage' = coverage \cup {item} /\ r = "ServerVersion"
      BY <1>1, <2>1 DEF CheckServerVersion
    <3>2. item.resource = "ServerVersion"
      BY DEF Complete, CoverageItem
    <3> HIDE DEF item, items
    <3>3. ReadsOne(r, items, Tail(todo), {item})
      BY <3>1, <3>2 DEF Fills, ReadsOne
    <3> QED
      BY <3>3
  <2>2. CASE outcome # "ok"
    BY <1>1, <2>2 DEF CheckServerVersion
  <2> QED
    BY <2>1, <2>2
<1>2. CASE DiscoverAPIResources(outcome)
  <2>1. \E found, status, count :
            /\ Continue([kubernetes EXCEPT !["APIResources"] = found], Tail(todo))
            /\ coverage' = coverage \cup {CoverageItem("kubernetes", "APIResources", status, count)}
    BY <1>2 DEF DiscoverAPIResources
  <2>2. PICK found, status, count :
            /\ Continue([kubernetes EXCEPT !["APIResources"] = found], Tail(todo))
            /\ coverage' = coverage \cup {CoverageItem("kubernetes", "APIResources", status, count)}
    BY <2>1
  <2> DEFINE item == CoverageItem("kubernetes", "APIResources", status, count)
  <2>3. item.resource = "APIResources"
    BY DEF CoverageItem
  <2>4. r = "APIResources" /\ Fills(r) = "APIResources"
    <3>1. r = "APIResources"
      BY <1>2 DEF DiscoverAPIResources
    <3> QED
      BY <3>1, CallSets DEF Fills, ListOf, InCalls
  <2> HIDE DEF item
  <2>5. ReadsOne(r, found, Tail(todo), {item})
    BY <2>2, <2>3, <2>4 DEF item, ReadsOne
  <2> QED
    BY <2>5
<1>3. CASE ListResource(outcome)
  <2> DEFINE read == IF outcome = "ok" THEN ListsOf(r, world.kubernetes) ELSE {}
             items == kubernetes[ListOf(r)] \cup read
             lists == [kubernetes EXCEPT ![ListOf(r)] = items]
             item == IF outcome = "ok" THEN Complete("kubernetes", r, Cardinality(read))
                     ELSE Denied("kubernetes", r, outcome)
  <2>1. /\ r \in ListCalls
        /\ \E rest : Continue(lists, rest)
        /\ \E unlistable, done :
              coverage' = coverage \cup {item} \cup Aggregate(r, lists)
                  \cup IF done THEN {InstancesCovered(lists, unlistable)} ELSE {}
    BY <1>3, Zenon DEF ListResource
  <2>2. item.resource = r
    BY DEF Complete, Denied, CoverageItem
  <2>3. \A c \in Aggregate(r, lists) : c.resource \in Totals
    BY AggregateIsOfTotals
  <2>4. \A unlistable : InstancesCovered(lists, unlistable).resource = InstanceList
    BY DEF InstancesCovered, Complete, Partial, CoverageItem, InstanceList
  <2>5. Fills(r) = ListOf(r)
    BY <2>1, NotPlain DEF Fills
  <2>6. PICK rest : Continue(lists, rest)
    BY <2>1
  <2>7. PICK unlistable, done :
              coverage' = coverage \cup {item} \cup Aggregate(r, lists)
                  \cup IF done THEN {InstancesCovered(lists, unlistable)} ELSE {}
    BY <2>1
  <2> DEFINE told == {item} \cup Aggregate(r, lists)
                        \cup IF done THEN {InstancesCovered(lists, unlistable)} ELSE {}
  <2>8. coverage' = coverage \cup told
        /\ \A c \in told : c.resource \in {r, InstanceList} \cup Totals
    BY <2>2, <2>3, <2>4, <2>7
  <2> HIDE DEF told, items
  <2>9. ReadsOne(r, items, rest, told)
    BY <2>5, <2>6, <2>8 DEF ReadsOne
  <2> QED
    BY <2>9
<1>4. CASE ListInstances(outcome)
  <2>1. /\ r = "CustomResourceInstances"
        /\ \E items, lists, skipped, last :
            /\ Continue([kubernetes EXCEPT !["CustomResourceInstances"] = items], Tail(todo))
            /\ coverage' = coverage \cup IF last THEN {InstancesCovered(lists, skipped)} ELSE {}
    BY <1>4 DEF ListInstances
  <2>2. PICK items, lists, skipped, last :
            /\ Continue([kubernetes EXCEPT !["CustomResourceInstances"] = items], Tail(todo))
            /\ coverage' = coverage \cup IF last THEN {InstancesCovered(lists, skipped)} ELSE {}
    BY <2>1
  <2>3. InstancesCovered(lists, skipped).resource = InstanceList
    BY DEF InstancesCovered, Complete, Partial, CoverageItem, InstanceList
  <2>4. Fills(r) = "CustomResourceInstances"
    BY <2>1, CallSets DEF Fills, ListOf, InCalls
  <2> DEFINE told == IF last THEN {InstancesCovered(lists, skipped)} ELSE {}
  <2>5. coverage' = coverage \cup told /\ \A c \in told : c.resource = InstanceList
    BY <2>2, <2>3
  <2> HIDE DEF told
  <2>6. ReadsOne(r, items, Tail(todo), told)
    BY <2>1, <2>2, <2>4, <2>5 DEF ReadsOne
  <2> QED
    BY <2>6
<1>5. CASE ListGatewayResource(outcome)
  <2>1. /\ r \in DOMAIN GatewayTypes
        /\ \/ UNCHANGED <<kubernetes, coverage, scan>>
           \/ \E items, item : /\ GatewayCallEnds(r, items, item)
                               /\ \/ \E n : item = Complete("kubernetes", r, n)
                                  \/ item = Denied("kubernetes", r, outcome)
    BY <1>5, Zenon DEF ListGatewayResource
  <2> HIDE DEF r
  <2>2. ASSUME NEW items, NEW item, GatewayCallEnds(r, items, item),
               \/ \E n : item = Complete("kubernetes", r, n)
               \/ item = Denied("kubernetes", r, outcome)
        PROVE  \E all, rest, told : ReadsOne(r, all, rest, told)
    <3>1. item.resource = r
      BY <2>2 DEF Complete, Denied, CoverageItem
    <3> DEFINE all == kubernetes[ListOf(r)] \cup items
               lists == [kubernetes EXCEPT ![ListOf(r)] = all]
    <3>2. /\ Continue(lists, Tail(todo))
          /\ coverage' = coverage \cup {item} \cup Aggregate(r, lists)
      BY <2>2 DEF GatewayCallEnds
    <3>3. \A c \in Aggregate(r, lists) : c.resource \in Totals
      BY AggregateIsOfTotals
    <3> DEFINE told == {item} \cup Aggregate(r, lists)
    <3>4. coverage' = coverage \cup told
          /\ \A c \in told : c.resource \in {r, InstanceList} \cup Totals
      BY <3>1, <3>2, <3>3
    <3>5. Fills(r) = ListOf(r)
      BY <2>1 DEF Fills, GatewayTypes
    <3> HIDE DEF told, all
    <3>6. ReadsOne(r, all, Tail(todo), told)
      BY <3>2, <3>4, <3>5 DEF ReadsOne
    <3> QED
      BY <3>6
  <2> QED
    BY <2>1, <2>2 DEF r
<1> QED
  BY <1>1, <1>2, <1>3, <1>4, <1>5 DEF CallKubernetes

\* The versions of the gateway classes that the collector knows.
ClassVersions == {"v1", "v1beta1"}

IsClassResource(r) ==
    /\ r.group = "gateway.networking.k8s.io" /\ r.resource = "gatewayclasses"
    /\ r.version \in ClassVersions

\* Versions to try, none of them in one namespace only; one of them is served
\* if any is.
FindsClasses(candidates, served) ==
    /\ IsASeq(candidates) /\ candidates # <<>>
    /\ \A c \in ToSet(candidates) : ~c.namespaced
    /\ served # {} => \E c \in ToSet(candidates) : c.version \in served

LEMMA ClassCandidates ==
    ASSUME NEW api, NEW served \in SUBSET ClassVersions,
           \A r \in api : IsClassResource(r) => r.version \in served /\ ~r.namespaced
    PROVE  FindsClasses(GatewayCandidates("GatewayClasses", api), served)
<1> DEFINE type == GatewayTypes["GatewayClasses"]
           found(v) == {r \in api : /\ r.group = GatewayGroup("GatewayClasses")
                                    /\ r.resource = type.plural
                                    /\ r.version = v
                                    /\ "list" \in r.verbs}
           candidate(v, namespaced) == [version |-> v, namespaced |-> namespaced]
           listed(i) == IF i \in DOMAIN type.versions /\ found(type.versions[i]) # {}
                        THEN <<candidate(type.versions[i],
                                         \E r \in found(type.versions[i]) : r.namespaced)>>
                        ELSE <<>>
           all == listed(1) \o listed(2) \o listed(3)
           known == [i \in DOMAIN type.versions |->
                        candidate(type.versions[i], type.plural # "gatewayclasses")]
           candidates == GatewayCandidates("GatewayClasses", api)
<1>1. candidates = IF all # <<>> THEN all ELSE known
  BY DEF GatewayCandidates
<1>2. type = [plural |-> "gatewayclasses", kind |-> "GatewayClass",
              versions |-> <<"v1", "v1beta1">>]
  BY DEF GatewayTypes
<1>3. GatewayGroup("GatewayClasses") = "gateway.networking.k8s.io"
  BY DEF GatewayGroup
<1>4. ASSUME NEW v \in ClassVersions, found(v) # {}
      PROVE  v \in served /\ ~(\E r \in found(v) : r.namespaced)
  <2>1. \A r \in found(v) : r \in api /\ IsClassResource(r) /\ r.version = v
    BY <1>2, <1>3, <1>4 DEF IsClassResource
  <2> QED
    BY <1>4, <2>1
<1>5. /\ type.versions = <<"v1", "v1beta1">> /\ type.plural = "gatewayclasses"
      /\ DOMAIN type.versions = 1..2 /\ type.versions[1] = "v1" /\ type.versions[2] = "v1beta1"
  BY <1>2
<1> HIDE DEF found, type
<1> DEFINE good(v) == candidate(v, FALSE)
<1>6. /\ listed(1) # <<>> => listed(1) = <<good("v1")>> /\ "v1" \in served
      /\ listed(2) # <<>> => listed(2) = <<good("v1beta1")>> /\ "v1beta1" \in served
      /\ listed(3) = <<>>
  <2>1. "v1" \in ClassVersions /\ "v1beta1" \in ClassVersions
    BY DEF ClassVersions
  <2>2. 1 \in 1..2 /\ 2 \in 1..2 /\ 3 \notin 1..2
    OBVIOUS
  <2>3. listed(3) = <<>>
    BY <1>5, <2>2
  <2>4. listed(1) = IF found("v1") # {} THEN <<candidate("v1", \E r \in found("v1") : r.namespaced)>>
                    ELSE <<>>
    BY <1>5, <2>2
  <2>5. listed(2) = IF found("v1beta1") # {}
                    THEN <<candidate("v1beta1", \E r \in found("v1beta1") : r.namespaced)>>
                    ELSE <<>>
    BY <1>5, <2>2
  <2>6. found("v1") # {} => candidate("v1", \E r \in found("v1") : r.namespaced) = good("v1")
    BY <1>4, <2>1
  <2>7. found("v1beta1") # {}
            => candidate("v1beta1", \E r \in found("v1beta1") : r.namespaced) = good("v1beta1")
    BY <1>4, <2>1
  <2>8. listed(1) # <<>> => listed(1) = <<good("v1")>> /\ "v1" \in served
    <3> HIDE DEF listed, good, candidate
    <3> QED
      BY <1>4, <2>1, <2>4, <2>6
  <2>9. listed(2) # <<>> => listed(2) = <<good("v1beta1")>> /\ "v1beta1" \in served
    <3> HIDE DEF listed, good, candidate
    <3> QED
      BY <1>4, <2>1, <2>5, <2>7
  <2> HIDE DEF listed, good
  <2> QED
    BY <2>3, <2>8, <2>9
<1>7. known = <<good("v1"), good("v1beta1")>>
  <2>1. known = [i \in 1..2 |-> candidate(type.versions[i], FALSE)]
    BY <1>5
  <2> HIDE DEF candidate
  <2>2. \A f : [i \in 1..2 |-> f[i]] = <<f[1], f[2]>>
    OBVIOUS
  <2> DEFINE f == [i \in 1..2 |-> candidate(type.versions[i], FALSE)]
  <2>3. f = [i \in 1..2 |-> f[i]]
    OBVIOUS
  <2>4. f[1] = good("v1") /\ f[2] = good("v1beta1")
    <3>1. 1 \in 1..2 /\ 2 \in 1..2
      OBVIOUS
    <3>2. f[1] = candidate(type.versions[1], FALSE) /\ f[2] = candidate(type.versions[2], FALSE)
      BY <3>1
    <3> QED
      BY <1>5, <3>2
  <2> HIDE DEF f
  <2>5. f = <<good("v1"), good("v1beta1")>>
    BY <2>2, <2>3, <2>4
  <2> QED
    BY <2>1, <2>5 DEF f
<1>8. \A v : good(v).version = v /\ good(v).namespaced = FALSE
  OBVIOUS
<1> HIDE DEF listed, good, known
<1>9. \A a : IsASeq(<<a>>) /\ ToSet(<<a>>) = {a} /\ <<a>> # <<>>
  BY DEF IsASeq, ToSet
<1>10. \A a, b : IsASeq(<<a, b>>) /\ ToSet(<<a, b>>) = {a, b} /\ <<a, b>> # <<>>
  BY DEF IsASeq, ToSet
<1> DEFINE both == /\ IsASeq(candidates) /\ candidates # <<>>
                   /\ ToSet(candidates) = {good("v1"), good("v1beta1")}
<1>11. \/ both
       \/ candidates = <<good("v1")>> /\ "v1" \in served
       \/ candidates = <<good("v1beta1")>> /\ "v1beta1" \in served
  <2>2. \A s : IsASeq(s) => s \o <<>> = s /\ <<>> \o s = s
    BY DEF IsASeq
  <2>3. IsASeq(<<>>)
    BY DEF IsASeq
  <2>4. CASE listed(1) = <<>> /\ listed(2) = <<>>
    <3>1. all = <<>>
      BY <1>6, <2>2, <2>3, <2>4
    <3> QED
      BY <1>1, <1>7, <1>10, <3>1
  <2>5. CASE listed(1) # <<>> /\ listed(2) = <<>>
    <3>1. all = <<good("v1")>>
      BY <1>6, <1>9, <2>2, <2>5
    <3> QED
      BY <1>1, <1>6, <1>9, <2>5, <3>1
  <2>6. CASE listed(1) = <<>> /\ listed(2) # <<>>
    <3>1. all = <<good("v1beta1")>>
      BY <1>6, <1>9, <2>2, <2>6
    <3> QED
      BY <1>1, <1>6, <1>9, <2>6, <3>1
  <2>7. CASE listed(1) # <<>> /\ listed(2) # <<>>
    <3> DEFINE a == <<good("v1")>>
               b == <<good("v1beta1")>>
    <3>1. IsASeq(a) /\ IsASeq(b) /\ ToSet(a) = {good("v1")} /\ ToSet(b) = {good("v1beta1")}
      BY <1>9
    <3>2. listed(1) = a /\ listed(2) = b
      BY <1>6, <2>7
    <3> HIDE DEF a, b
    <3>3. IsASeq(a \o b) /\ ToSet(a \o b) = {good("v1"), good("v1beta1")}
      BY <3>1, ConcatOf
    <3>4. all = a \o b
      BY <1>6, <2>2, <3>2, <3>3
    <3>5. a \o b # <<>>
      BY <3>3 DEF ToSet
    <3> QED
      BY <1>1, <3>3, <3>4, <3>5
  <2> QED
    BY <2>4, <2>5, <2>6, <2>7
<1> HIDE DEF candidates
<1>12. both => FindsClasses(candidates, served)
  <2> SUFFICES ASSUME both PROVE FindsClasses(candidates, served)
    OBVIOUS
  <2>1. /\ IsASeq(candidates) /\ candidates # <<>>
        /\ ToSet(candidates) = {good("v1"), good("v1beta1")}
    OBVIOUS
  <2>2. \A v \in ClassVersions : good(v) \in ToSet(candidates)
    BY <2>1 DEF ClassVersions
  <2>3. served # {} => \E c \in ToSet(candidates) : c.version \in served
    BY <1>8, <2>2
  <2>4. \A c \in ToSet(candidates) : c.namespaced = FALSE
    BY <1>8, <2>1
  <2> QED
    BY <2>1, <2>3, <2>4 DEF FindsClasses
<1>13. ASSUME NEW v \in served, candidates = <<good(v)>>
       PROVE  FindsClasses(candidates, served)
  BY <1>8, <1>9, <1>13 DEF FindsClasses
<1> QED
  BY <1>11, <1>12, <1>13 DEF candidates

\* The two lists that lead to the gateway classes.
ClassLists == {"APIResources", "GatewayClasses"}

LEMMA OtherCallsLeave ==
    ASSUME DOMAIN kubernetes = KubernetesLists, NEW outcome, CallKubernetes(outcome),
           NEW l \in ClassLists, Head(todo).resource # l
    PROVE  /\ kubernetes'[l] = kubernetes[l]
           /\ Told(coverage', "kubernetes", l) = Told(coverage, "kubernetes", l)
<1> DEFINE r == Head(todo).resource
<1>1. Fills(r) # l
  <2>1. CASE Fills(r) = r
    BY <2>1
  <2>2. CASE Fills(r) # r
    BY <2>2 DEF Fills, ListOf, ClassLists
  <2> QED
    BY <2>1, <2>2
<1>2. l \in KubernetesLists \ {"RunningContainers", "RunningImages"}
      /\ l \notin {InstanceList} \cup Totals
  BY DEF ClassLists, KubernetesLists, InstanceList, Totals
<1>3. ASSUME NEW items, NEW rest, NEW told, ReadsOne(r, items, rest, told)
      PROVE  /\ kubernetes'[l] = kubernetes[l]
             /\ Told(coverage', "kubernetes", l) = Told(coverage, "kubernetes", l)
  <2> DEFINE lists == [kubernetes EXCEPT ![Fills(r)] = items]
  <2>1. DOMAIN lists = KubernetesLists /\ lists[l] = kubernetes[l]
    BY <1>1, <1>2
  <2>2. Continue(lists, rest)
    BY <1>3 DEF ReadsOne
  <2> HIDE DEF lists
  <2>3. kubernetes'[l] = kubernetes[l]
    BY <1>2, <2>1, <2>2, ContinueReads
  <2>4. coverage' = coverage \cup told /\ \A c \in told : c.resource # l
    BY <1>2, <1>3 DEF ReadsOne
  <2> QED
    BY <2>3, <2>4 DEF Told
<1> QED
  BY <1>3, CallFillsOneList

\* What discovery lists, and all of it unless it tells of a gap.
LEMMA DiscoveryReads ==
    ASSUME DOMAIN kubernetes = KubernetesLists, NEW outcome, DiscoverAPIResources(outcome)
    PROVE  /\ kubernetes'["APIResources"] \subseteq world.kubernetes.apiResources
           /\ \A c \in Told(coverage', "kubernetes", "APIResources") \ coverage :
                Clean(c) => /\ c.status = "complete"
                            /\ kubernetes'["APIResources"] = world.kubernetes.apiResources
<1> DEFINE served == world.kubernetes.apiResources
           status == IF outcome = "ok" THEN "complete" ELSE "partial"
<1>1. \E lost : /\ outcome = "ok" => lost = {}
                /\ Continue([kubernetes EXCEPT !["APIResources"] = served \ lost], Tail(todo))
                /\ coverage' = coverage \cup
                     {CoverageItem("kubernetes", "APIResources", status, Cardinality(served \ lost))}
  BY DEF DiscoverAPIResources
<1>2. PICK lost : /\ outcome = "ok" => lost = {}
                  /\ Continue([kubernetes EXCEPT !["APIResources"] = served \ lost], Tail(todo))
                  /\ coverage' = coverage \cup
                     {CoverageItem("kubernetes", "APIResources", status, Cardinality(served \ lost))}
  BY <1>1
<1> DEFINE found == served \ lost
           lists == [kubernetes EXCEPT !["APIResources"] = found]
           item == CoverageItem("kubernetes", "APIResources", status, Cardinality(found))
<1>3. DOMAIN lists = KubernetesLists /\ lists["APIResources"] = found
  BY DEF KubernetesLists
<1>4. Continue(lists, Tail(todo)) /\ coverage' = coverage \cup {item}
  BY <1>2
<1>5. item.status = IF outcome = "ok" THEN "complete" ELSE "partial"
  BY DEF CoverageItem
<1> HIDE DEF lists, item
<1>6. kubernetes'["APIResources"] = found
  BY <1>3, <1>4, ContinueReads DEF KubernetesLists
<1>7. outcome = "ok" => found = served
  BY <1>2
<1>8. \A c \in coverage' \ coverage : c = item
  BY <1>4
<1> HIDE DEF found, status
<1>9. Clean(item) => item.status = "complete" /\ found = served
  BY <1>5, <1>7 DEF Clean
<1>10. found \subseteq served
  BY DEF found
<1> QED
  BY <1>6, <1>8, <1>9, <1>10 DEF Told

AsksClasses(c) == c.resource = "GatewayClasses"

\* A request for the gateway classes is never confined to one namespace.
ClassCall(c, served) ==
    /\ {"resource", "candidates", "fallback"} \subseteq DOMAIN c /\ c.fallback = FALSE
    /\ c.candidates # <<>> => FindsClasses(c.candidates, served)

ClassesOf(w, v) ==
    {MapGatewayItem("GatewayClasses", v, i) : i \in w.kubernetes.GatewayClasses}

\* A world serves the gateway classes in the given versions, as its discovery
\* tells, and for the whole cluster; without a version there are none.
ServesClasses(w, served) ==
    /\ \A v \in ClassVersions :
            <<"GatewayClasses", v>> \in w.kubernetes.servedGateways <=> v \in served
    /\ \A r \in w.kubernetes.apiResources :
            IsClassResource(r) => r.version \in served /\ ~r.namespaced
    /\ served = {} => w.kubernetes.GatewayClasses = {}

\* The request is made again, or the classes of the world are read, or a gap is told.
LEMMA ClassesAreRead ==
    ASSUME DOMAIN kubernetes = KubernetesLists, NEW outcome, ListGatewayResource(outcome),
           AsksClasses(Head(todo)),
           NEW served \in SUBSET ClassVersions, ServesClasses(world, served),
           ClassCall(Head(todo), served),
           \A r \in kubernetes["APIResources"] :
                IsClassResource(r) => r.version \in served /\ ~r.namespaced
    PROVE  \/ /\ UNCHANGED <<kubernetes, coverage>>
              /\ \E next : /\ todo' = <<next>> \o Tail(todo)
                           /\ AsksClasses(next) /\ ClassCall(next, served)
           \/ /\ todo' = Tail(todo)
              /\ \E v, items :
                    /\ items \in {{}, ClassesOf(world, v)}
                    /\ kubernetes'["GatewayClasses"] = kubernetes["GatewayClasses"] \cup items
                    /\ \A c \in Told(coverage', "kubernetes", "GatewayClasses") \ coverage :
                            Clean(c) => c.status = "complete" /\ items = ClassesOf(world, v)
<1> DEFINE call == Head(todo)
           candidates == IF call.candidates # <<>> THEN call.candidates
                         ELSE GatewayCandidates("GatewayClasses", kubernetes["APIResources"])
           version == candidates[1].version
           isServed == <<"GatewayClasses", version>> \in world.kubernetes.servedGateways
           items == {MapGatewayItem("GatewayClasses", version, i) :
                        i \in {j \in world.kubernetes.GatewayClasses :
                                call.fallback => j.namespace = ContextNamespace}}
           again(next) == /\ todo' = <<next>> \o Tail(todo)
                          /\ UNCHANGED <<kubernetes, coverage, scan>>
<1>1. call.resource = "GatewayClasses" /\ call.fallback = FALSE
      /\ {"resource", "candidates", "fallback"} \subseteq DOMAIN call
  BY DEF AsksClasses, ClassCall
<1>2. \/ /\ outcome = "ok" /\ isServed
         /\ GatewayCallEnds("GatewayClasses", items,
                            Complete("kubernetes", "GatewayClasses", Cardinality(items)))
      \/ /\ outcome = "ok" /\ ~isServed /\ Len(candidates) > 1
         /\ again([call EXCEPT !.candidates = Tail(candidates), !.fallback = FALSE])
      \/ /\ outcome = "ok" /\ ~isServed /\ Len(candidates) = 1
         /\ GatewayCallEnds("GatewayClasses", {}, Complete("kubernetes", "GatewayClasses", 0))
      \/ candidates[1].namespaced
      \/ /\ outcome # "ok"
         /\ GatewayCallEnds("GatewayClasses", {}, Denied("kubernetes", "GatewayClasses", outcome))
  BY <1>1 DEF ListGatewayResource
<1>3. FindsClasses(candidates, served)
  <2>1. CASE call.candidates # <<>>
    BY <2>1 DEF ClassCall
  <2>2. CASE call.candidates = <<>>
    BY <2>2, ClassCandidates
  <2> QED
    BY <2>1, <2>2
<1>4. items = ClassesOf(world, version)
  BY <1>1 DEF ClassesOf
<1> HIDE DEF candidates, items
<1>5. /\ Head(candidates) = candidates[1] /\ candidates # <<>> /\ IsASeq(Tail(candidates))
      /\ Len(candidates) \in Nat /\ DOMAIN Tail(candidates) = 1..(Len(candidates) - 1)
      /\ ToSet(candidates) = {candidates[1]} \cup ToSet(Tail(candidates))
  BY <1>3, TailOf DEF FindsClasses
<1>6. ~candidates[1].namespaced
  BY <1>3, <1>5 DEF FindsClasses
<1>7. isServed \/ version \notin served
  BY DEF ServesClasses
<1> HIDE DEF call
<1>8. ASSUME NEW read, NEW item, GatewayCallEnds("GatewayClasses", read, item),
             item.resource = "GatewayClasses"
      PROVE  /\ todo' = Tail(todo)
             /\ kubernetes'["GatewayClasses"] = kubernetes["GatewayClasses"] \cup read
             /\ \A c \in Told(coverage', "kubernetes", "GatewayClasses") \ coverage : c = item
  <2> DEFINE all == kubernetes["GatewayClasses"] \cup read
             lists == [kubernetes EXCEPT !["GatewayClasses"] = all]
  <2>1. ListOf("GatewayClasses") = "GatewayClasses"
    BY CallSets DEF ListOf, InCalls
  <2>2. Continue(lists, Tail(todo))
        /\ coverage' = coverage \cup {item} \cup Aggregate("GatewayClasses", lists)
    BY <1>8, <2>1 DEF GatewayCallEnds
  <2>3. Aggregate("GatewayClasses", lists) = {}
    BY DEF Aggregate
  <2>4. DOMAIN lists = KubernetesLists /\ lists["GatewayClasses"] = all
    BY DEF KubernetesLists
  <2> HIDE DEF lists
  <2>5. kubernetes'["GatewayClasses"] = all /\ todo' = Tail(todo)
    BY <2>2, <2>4, ContinueReads, ContinueGoesOn DEF KubernetesLists
  <2> HIDE DEF all
  <2> QED
    BY <2>2, <2>3, <2>5 DEF Told, all
<1>9. CASE /\ isServed
           /\ GatewayCallEnds("GatewayClasses", items,
                              Complete("kubernetes", "GatewayClasses", Cardinality(items)))
  <2> DEFINE item == Complete("kubernetes", "GatewayClasses", Cardinality(items))
  <2>1. item.resource = "GatewayClasses" /\ item.status = "complete"
    BY DEF Complete, CoverageItem
  <2>2. GatewayCallEnds("GatewayClasses", items, item)
    BY <1>9
  <2> HIDE DEF item
  <2>3. /\ todo' = Tail(todo)
        /\ kubernetes'["GatewayClasses"] = kubernetes["GatewayClasses"] \cup items
        /\ \A c \in Told(coverage', "kubernetes", "GatewayClasses") \ coverage : c = item
    BY <1>8, <2>1, <2>2
  <2> QED
    BY <1>4, <2>1, <2>3
<1>10. CASE /\ ~isServed /\ Len(candidates) > 1
            /\ again([call EXCEPT !.candidates = Tail(candidates), !.fallback = FALSE])
  <2> DEFINE next == [call EXCEPT !.candidates = Tail(candidates), !.fallback = FALSE]
  <2>1. /\ DOMAIN next = DOMAIN call /\ next.resource = call.resource
        /\ next.candidates = Tail(candidates) /\ next.fallback = FALSE
    BY <1>1
  <2>2. UNCHANGED <<kubernetes, coverage>> /\ todo' = <<next>> \o Tail(todo)
    BY <1>10
  <2> HIDE DEF next
  <2>3. candidates[1].version \notin served
    BY <1>7, <1>10
  <2>4. Tail(candidates) # <<>>
    <3>1. 1 \in DOMAIN Tail(candidates)
      BY <1>5, <1>10
    <3> QED
      BY <3>1
  <2>5. FindsClasses(Tail(candidates), served)
    BY <1>3, <1>5, <2>3, <2>4 DEF FindsClasses
  <2>6. AsksClasses(next) /\ ClassCall(next, served)
    BY <1>1, <2>1, <2>5 DEF AsksClasses, ClassCall
  <2> QED
    BY <2>2, <2>6
<1>11. CASE /\ ~isServed /\ Len(candidates) = 1
            /\ GatewayCallEnds("GatewayClasses", {}, Complete("kubernetes", "GatewayClasses", 0))
  <2> DEFINE item == Complete("kubernetes", "GatewayClasses", 0)
  <2>1. item.resource = "GatewayClasses" /\ item.status = "complete"
    BY DEF Complete, CoverageItem
  <2>2. GatewayCallEnds("GatewayClasses", {}, item)
    BY <1>11
  <2> HIDE DEF item
  <2>3. /\ todo' = Tail(todo)
        /\ kubernetes'["GatewayClasses"] = kubernetes["GatewayClasses"] \cup {}
        /\ \A c \in Told(coverage', "kubernetes", "GatewayClasses") \ coverage : c = item
    BY <1>8, <2>1, <2>2
  <2>4. ToSet(Tail(candidates)) = {}
    <3>1. DOMAIN Tail(candidates) = {}
      BY <1>5, <1>11
    <3> QED
      BY <3>1 DEF ToSet
  <2>5. ToSet(candidates) = {candidates[1]}
    BY <1>5, <2>4
  <2>6. served = {}
    BY <1>3, <1>7, <1>11, <2>5 DEF FindsClasses
  <2>7. ClassesOf(world, version) = {}
    BY <2>6 DEF ServesClasses, ClassesOf
  <2> QED
    BY <2>1, <2>3, <2>7
<1>12. CASE /\ outcome # "ok"
            /\ GatewayCallEnds("GatewayClasses", {}, Denied("kubernetes", "GatewayClasses", outcome))
  <2> DEFINE item == Denied("kubernetes", "GatewayClasses", outcome)
  <2>1. item.resource = "GatewayClasses" /\ ~Clean(item)
    BY DEF Denied, CoverageItem, Clean
  <2>2. GatewayCallEnds("GatewayClasses", {}, item)
    BY <1>12
  <2> HIDE DEF item
  <2>3. /\ todo' = Tail(todo)
        /\ kubernetes'["GatewayClasses"] = kubernetes["GatewayClasses"] \cup {}
        /\ \A c \in Told(coverage', "kubernetes", "GatewayClasses") \ coverage : c = item
    BY <1>8, <2>1, <2>2
  <2> QED
    BY <2>1, <2>3
<1> QED
  BY <1>2, <1>6, <1>9, <1>10, <1>11, <1>12

ClassesAreAsked(t, served) == \A c \in ToSet(t) : AsksClasses(c) => ClassCall(c, served)

ResourcesRead == \E w \in history : w.kubernetes.apiResources \subseteq kubernetes["APIResources"]
ClassesRead == \E w \in history : \E v : ClassesOf(w, v) \subseteq kubernetes["GatewayClasses"]

ResourceWasThere(r) == \E w \in history : r \in w.kubernetes.apiResources
ClassWasThere(c) == \E w \in history : \E v : c \in ClassesOf(w, v)

ClassesInv(served) ==
    /\ ClassesAreAsked(todo, served)
    /\ \A r \in kubernetes["APIResources"] : ResourceWasThere(r)
    /\ \A c \in kubernetes["GatewayClasses"] : ClassWasThere(c)
    /\ \A c \in Told(coverage, "kubernetes", "APIResources") :
            Clean(c) => c.status = "complete" /\ ResourcesRead
    /\ \A c \in Told(coverage, "kubernetes", "GatewayClasses") :
            Clean(c) => c.status = "complete" /\ ClassesRead

LEMMA ClassesStart == \A served : Init => ClassesInv(served)
<1> SUFFICES ASSUME NEW served, Init PROVE ClassesInv(served)
  OBVIOUS
<1>1. /\ kubernetes = EmptyKubernetes /\ coverage = {} /\ todo = Program
  BY DEF Init, KubernetesInit
<1>2. kubernetes["APIResources"] = {} /\ kubernetes["GatewayClasses"] = {}
  BY <1>1 DEF EmptyKubernetes, KubernetesLists
<1>3. \A r : Told(coverage, "kubernetes", r) = {}
  BY <1>1 DEF Told
<1>4. PICK names : \A i \in DOMAIN Program : Program[i] = Call(names[i])
  BY ProgramIsOrdered
<1>5. \A x : /\ {"resource", "candidates", "fallback"} \subseteq DOMAIN Call(x)
             /\ Call(x).fallback = FALSE /\ Call(x).candidates = <<>>
  BY DEF Call
<1>6. \A c \in ToSet(Program) : \E x : c = Call(x)
  BY <1>4 DEF ToSet
<1>7. ClassesAreAsked(todo, served)
  BY <1>1, <1>5, <1>6 DEF ClassesAreAsked, ClassCall
<1> QED
  BY <1>2, <1>3, <1>7 DEF ClassesInv

LEMMA OthersStayAsked ==
    ASSUME KubernetesOrdered(todo), FiniteDefinitions(world), NEW outcome, CallKubernetes(outcome),
           ~AsksClasses(Head(todo)), NEW served, ClassesAreAsked(todo, served)
    PROVE  ClassesAreAsked(todo', served)
<1>1. /\ todo # <<>>
      /\ \/ todo' \in {todo, Tail(todo)}
         \/ \E calls : /\ todo' = calls \o Tail(todo) /\ IsASeq(calls)
                       /\ \A c \in ToSet(calls) : c.resource = InstanceList
         \/ \E next : /\ todo' = <<next>> \o Tail(todo)
                      /\ next.resource = Head(todo).resource
                      /\ Head(todo).resource \in DOMAIN GatewayTypes
  BY NextCalls
<1>2. ToSet(todo) = {Head(todo)} \cup ToSet(Tail(todo)) /\ IsASeq(Tail(todo))
  BY <1>1, KubernetesTail DEF KubernetesOrdered
<1>3. \A calls : IsASeq(calls) => ToSet(calls \o Tail(todo)) = ToSet(calls) \cup ToSet(Tail(todo))
  BY <1>2, ConcatOf
<1>4. \A next : IsASeq(<<next>>) /\ ToSet(<<next>>) = {next}
  BY DEF IsASeq, ToSet
<1>5. CASE todo' \in {todo, Tail(todo)}
  BY <1>2, <1>5 DEF ClassesAreAsked
<1>6. ASSUME NEW calls, todo' = calls \o Tail(todo), IsASeq(calls),
             \A c \in ToSet(calls) : ~AsksClasses(c)
      PROVE  ClassesAreAsked(todo', served)
  BY <1>2, <1>3, <1>6 DEF ClassesAreAsked
<1>7. ASSUME NEW next, todo' = <<next>> \o Tail(todo), next.resource = Head(todo).resource
      PROVE  ClassesAreAsked(todo', served)
  <2> DEFINE calls == <<next>>
  <2>1. IsASeq(calls) /\ todo' = calls \o Tail(todo) /\ ToSet(calls) = {next}
    BY <1>4, <1>7
  <2>2. ~AsksClasses(next)
    BY <1>7 DEF AsksClasses
  <2> HIDE DEF calls
  <2> QED
    BY <1>6, <2>1, <2>2
<1>8. \A c : c.resource = InstanceList => ~AsksClasses(c)
  BY DEF InstanceList, AsksClasses
<1> QED
  BY <1>1, <1>5, <1>6, <1>7, <1>8

LEMMA ClassesStayAsked ==
    ASSUME KubernetesOrdered(todo), todo # <<>>, NEW served, ClassesAreAsked(todo, served)
    PROVE  /\ ClassesAreAsked(Tail(todo), served)
           /\ \A next : ClassCall(next, served) => ClassesAreAsked(<<next>> \o Tail(todo), served)
<1>1. ToSet(todo) = {Head(todo)} \cup ToSet(Tail(todo)) /\ IsASeq(Tail(todo))
  BY KubernetesTail DEF KubernetesOrdered
<1>2. ASSUME NEW next, ClassCall(next, served)
      PROVE  ClassesAreAsked(<<next>> \o Tail(todo), served)
  <2> DEFINE calls == <<next>>
  <2>1. IsASeq(calls) /\ ToSet(calls) = {next}
    BY DEF IsASeq, ToSet
  <2> HIDE DEF calls
  <2>2. ToSet(calls \o Tail(todo)) = {next} \cup ToSet(Tail(todo))
    BY <1>1, <2>1, ConcatOf
  <2>3. ClassesAreAsked(calls \o Tail(todo), served)
    BY <1>1, <1>2, <2>2 DEF ClassesAreAsked
  <2> QED
    BY <2>3 DEF calls
<1> QED
  BY <1>1, <1>2 DEF ClassesAreAsked

LEMMA ClassesStay ==
    ASSUME history \subseteq history'
    PROVE  /\ \A r : ResourceWasThere(r) => ResourceWasThere(r)'
           /\ \A c : ClassWasThere(c) => ClassWasThere(c)'
           /\ ResourcesRead /\ kubernetes["APIResources"] \subseteq kubernetes'["APIResources"]
                => ResourcesRead'
           /\ ClassesRead /\ kubernetes["GatewayClasses"] \subseteq kubernetes'["GatewayClasses"]
                => ClassesRead'
<1>1. \A r : ResourceWasThere(r) => ResourceWasThere(r)'
  BY DEF ResourceWasThere
<1>2. \A c : ClassWasThere(c) => ClassWasThere(c)'
  BY DEF ClassWasThere, ClassesOf
<1>3. ResourcesRead /\ kubernetes["APIResources"] \subseteq kubernetes'["APIResources"]
                => ResourcesRead'
  BY DEF ResourcesRead
<1>4. ASSUME ClassesRead, kubernetes["GatewayClasses"] \subseteq kubernetes'["GatewayClasses"]
      PROVE  ClassesRead'
  <2>1. PICK w \in history : \E v : ClassesOf(w, v) \subseteq kubernetes["GatewayClasses"]
    BY <1>4 DEF ClassesRead
  <2> QED
    BY <1>4, <2>1 DEF ClassesRead
<1> QED
  BY <1>1, <1>2, <1>3, <1>4

LEMMA NotYetTold ==
    ASSUME CoverageInv, todo # <<>>, Head(todo).resource \in ProgramResources
    PROVE  Told(coverage, "kubernetes", Head(todo).resource) = {}
<1>1. Head(todo).resource \in KubernetesAhead(todo)
  BY KubernetesTail DEF CoverageInv
<1> QED
  BY <1>1 DEF CoverageInv, KubernetesTold, ListsTold

\* A call for neither of the lists.
LEMMA NoClassIsRead ==
    ASSUME NEW served, CoverageInv, ListsEnd(world), ClassesInv(served),
           DOMAIN kubernetes = KubernetesLists,
           history \subseteq history', NEW outcome, CallKubernetes(outcome),
           Head(todo).resource \notin ClassLists
    PROVE  ClassesInv(served)'
<1>1. \A l \in ClassLists : /\ kubernetes'[l] = kubernetes[l]
                            /\ Told(coverage', "kubernetes", l) = Told(coverage, "kubernetes", l)
  BY OtherCallsLeave
<1>2. ~AsksClasses(Head(todo))
  BY DEF AsksClasses, ClassLists
<1>3. ClassesAreAsked(todo', served)
  BY <1>2, OthersStayAsked DEF ClassesInv, CoverageInv, ListsEnd
<1> QED
  BY <1>1, <1>3, ClassesStay DEF ClassesInv, ClassLists

LEMMA DiscoveryIsRead ==
    ASSUME NEW served, CoverageInv, ListsEnd(world), ClassesInv(served),
           DOMAIN kubernetes = KubernetesLists, world \in history,
           history' = history, NEW outcome, CallKubernetes(outcome),
           Head(todo).resource = "APIResources"
    PROVE  ClassesInv(served)'
<1>1. DiscoverAPIResources(outcome)
  BY CallSets, NotPlain DEF CallKubernetes, CheckServerVersion, ListResource, ListInstances, ListGatewayResource, GatewayTypes
<1>2. "APIResources" \in ProgramResources
  BY ProgramIsOrdered
<1>3. Told(coverage, "kubernetes", "APIResources") = {}
  BY <1>1, <1>2, NotYetTold DEF DiscoverAPIResources, Running
<1>4. /\ kubernetes'["APIResources"] \subseteq world.kubernetes.apiResources
      /\ \A c \in Told(coverage', "kubernetes", "APIResources") \ coverage :
                Clean(c) => /\ c.status = "complete"
                            /\ kubernetes'["APIResources"] = world.kubernetes.apiResources
  BY <1>1, DiscoveryReads
<1>5. /\ kubernetes'["GatewayClasses"] = kubernetes["GatewayClasses"]
      /\ Told(coverage', "kubernetes", "GatewayClasses") = Told(coverage, "kubernetes", "GatewayClasses")
  BY OtherCallsLeave DEF ClassLists
<1>6. ClassesAreAsked(todo', served)
  BY OthersStayAsked DEF ClassesInv, CoverageInv, ListsEnd, AsksClasses
<1>7. \A r \in kubernetes'["APIResources"] : ResourceWasThere(r)'
  BY <1>4 DEF ResourceWasThere
<1>8. ASSUME NEW c \in Told(coverage', "kubernetes", "APIResources"), Clean(c)
      PROVE  c.status = "complete" /\ ResourcesRead'
  <2>1. c \notin coverage
    BY <1>3, <1>8 DEF Told
  <2> QED
    BY <1>4, <1>8, <2>1 DEF ResourcesRead
<1> QED
  BY <1>5, <1>6, <1>7, <1>8, ClassesStay DEF ClassesInv

LEMMA ClassIsRead ==
    ASSUME NEW served \in SUBSET ClassVersions, CoverageInv, ListsEnd(world), ClassesInv(served),
           DOMAIN kubernetes = KubernetesLists, world \in history,
           \A w \in history : ServesClasses(w, served),
           history' = history, NEW outcome, CallKubernetes(outcome),
           Head(todo).resource = "GatewayClasses"
    PROVE  ClassesInv(served)'
<1>1. ListGatewayResource(outcome)
  BY CallSets, NotPlain DEF CallKubernetes, CheckServerVersion, ListResource, ListInstances,
     DiscoverAPIResources, GatewayTypes
<1>2. todo # <<>> /\ KubernetesOrdered(todo)
  BY <1>1 DEF ListGatewayResource, Running, CoverageInv
<1>3. AsksClasses(Head(todo)) /\ ClassCall(Head(todo), served)
  BY <1>2, KubernetesTail DEF AsksClasses, ClassesInv, ClassesAreAsked
<1>4. \A r \in kubernetes["APIResources"] :
            IsClassResource(r) => r.version \in served /\ ~r.namespaced
  BY DEF ClassesInv, ResourceWasThere, ServesClasses
<1>5. ServesClasses(world, served)
  OBVIOUS
<1>6. /\ kubernetes'["APIResources"] = kubernetes["APIResources"]
      /\ Told(coverage', "kubernetes", "APIResources") = Told(coverage, "kubernetes", "APIResources")
  BY OtherCallsLeave DEF ClassLists
<1>7. \/ /\ UNCHANGED <<kubernetes, coverage>>
         /\ \E next : /\ todo' = <<next>> \o Tail(todo)
                      /\ AsksClasses(next) /\ ClassCall(next, served)
      \/ /\ todo' = Tail(todo)
         /\ \E v, items :
                    /\ items \in {{}, ClassesOf(world, v)}
                    /\ kubernetes'["GatewayClasses"] = kubernetes["GatewayClasses"] \cup items
                    /\ \A c \in Told(coverage', "kubernetes", "GatewayClasses") \ coverage :
                            Clean(c) => c.status = "complete" /\ items = ClassesOf(world, v)
  BY <1>1, <1>3, <1>4, <1>5, ClassesAreRead
<1>8. ClassesAreAsked(todo', served)
  BY <1>2, <1>7, ClassesStayAsked DEF ClassesInv
<1>9. CASE UNCHANGED <<kubernetes, coverage>>
  BY <1>8, <1>9, ClassesStay DEF ClassesInv
<1>10. ASSUME NEW v, NEW items, items \in {{}, ClassesOf(world, v)},
              kubernetes'["GatewayClasses"] = kubernetes["GatewayClasses"] \cup items,
              \A c \in Told(coverage', "kubernetes", "GatewayClasses") \ coverage :
                        Clean(c) => c.status = "complete" /\ items = ClassesOf(world, v)
       PROVE  ClassesInv(served)'
  <2>1. \A c \in kubernetes'["GatewayClasses"] : ClassWasThere(c)'
    <3> SUFFICES ASSUME NEW c \in kubernetes'["GatewayClasses"] PROVE ClassWasThere(c)'
      OBVIOUS
    <3>1. CASE c \in kubernetes["GatewayClasses"]
      BY <3>1, ClassesStay DEF ClassesInv
    <3>2. CASE c \in ClassesOf(world, v)
      BY <3>2 DEF ClassWasThere
    <3> QED
      BY <1>10, <3>1, <3>2
  <2>2. ASSUME NEW c \in Told(coverage', "kubernetes", "GatewayClasses"), Clean(c)
        PROVE  c.status = "complete" /\ ClassesRead'
    <3>1. CASE c \in coverage
      <4>1. c \in Told(coverage, "kubernetes", "GatewayClasses")
        BY <2>2, <3>1 DEF Told
      <4> QED
        BY <1>10, <2>2, <4>1, ClassesStay DEF ClassesInv
    <3>2. CASE c \notin coverage
      <4>1. c.status = "complete" /\ items = ClassesOf(world, v)
        BY <1>10, <2>2, <3>2
      <4> QED
        BY <1>10, <4>1 DEF ClassesRead
    <3> QED
      BY <3>1, <3>2
  <2> QED
    BY <1>6, <1>8, <2>1, <2>2, ClassesStay DEF ClassesInv
<1> QED
  BY <1>7, <1>9, <1>10

LEMMA ClassesAreKept ==
    ASSUME NEW served \in SUBSET ClassVersions, \A w \in history : ServesClasses(w, served),
           CoverageInv, PlainInv, ListsEnd(world), ClassesInv(served), [Next]_vars
    PROVE  ClassesInv(served)'
<1>1. history \subseteq history' /\ DOMAIN kubernetes = KubernetesLists /\ world \in history
  BY HistoryGrows DEF PlainInv
<1>2. CASE CollectKubernetes
  <2>1. PICK outcome : CallKubernetes(outcome) /\ history' = history
    BY <1>2 DEF CollectKubernetes
  <2> QED
    BY <1>1, <2>1, NoClassIsRead, DiscoveryIsRead, ClassIsRead DEF ClassLists
<1>3. CASE CollectAws \/ Change \/ UNCHANGED vars
  <2>1. kubernetes' = kubernetes /\ todo' = todo
    BY <1>3 DEF CollectAws, Change, kubernetesVars, vars
  <2>2. \A r : Told(coverage', "kubernetes", r) = Told(coverage, "kubernetes", r)
    BY <1>3, AwsTellsOthers DEF Change, vars
  <2>3. ClassesAreAsked(todo, served) => ClassesAreAsked(todo', served)
    BY <2>1
  <2> QED
    BY <1>1, <2>1, <2>2, <2>3, ClassesStay DEF ClassesInv
<1> QED
  BY <1>2, <1>3 DEF Next

(***************************************************************************)
(* The families of a cluster that does not change.                         *)
(***************************************************************************)
FamilyOf(w, family) ==
    {MapDescribed(family, n, w.aws[family][n]) : n \in DOMAIN w.aws[family]}

\* The item n is still to be listed or to be described.
AsksFor(t, family, n) ==
    \E c \in ToSet(t) : c.op = family /\ (DescribesOne(c) => c.name = n)

FamilyIsRead(w, family) ==
    \/ Incomplete("eks", family)
    \/ /\ eks[family] \subseteq FamilyOf(w, family)
       /\ \A n \in DOMAIN w.aws[family] :
            \/ AsksFor(awsTodo, family, n)
            \/ MapDescribed(family, n, w.aws[family][n]) \in eks[family]

FamiliesInv ==
    history = {InitialWorld} => \A f \in Families : FamilyIsRead(InitialWorld, f)

LEMMA FamiliesStart == Init => FamiliesInv
<1> SUFFICES ASSUME Init, NEW f \in Families PROVE FamilyIsRead(InitialWorld, f)
  BY DEF FamiliesInv
<1>1. eks[f] = {}
  BY DEF Init, AwsInit, EmptyEKS, EKSLists, Families
<1>2. Request(f) \in ToSet(awsTodo) /\ Request(f).op = f /\ ~DescribesOne(Request(f))
  BY AwsProgramIsOrdered, AwsOpKeys DEF Init, AwsInit, Request, DescribesOne
<1>3. \A n : AsksFor(awsTodo, f, n)
  BY <1>2 DEF AsksFor
<1> QED
  BY <1>1, <1>3 DEF FamilyIsRead

\* The calls for a family are the two that list and describe it.
LEMMA FamilyCalls ==
    ASSUME NEW outcome, CallAws(outcome), Head(awsTodo).op \in Families
    PROVE  ListFamily(outcome) \/ DescribeOne(outcome)
BY DEF CallAws, AwsRunning, GetCallerIdentity, DescribeCluster, DescribeAutoScalingGroups,
       DescribeInstances, DescribeVpcs, DescribeSubnets, DescribeRouteTables,
       DescribeSecurityGroups, DescribeScalingActivities, Families

LEMMA OtherFamiliesStay ==
    ASSUME DOMAIN eks = EKSLists, NEW outcome, CallAws(outcome),
           NEW f \in Families, Head(awsTodo).op # f
    PROVE  eks'[f] = eks[f]
<1>1. f \in DOMAIN eks
  BY DEF Families, EKSLists
<1>2. \/ eks' = eks
      \/ \E list, items : list # f /\ eks' = [eks EXCEPT ![list] = items]
  <2>1. CASE GetCallerIdentity(outcome)
    BY <2>1 DEF GetCallerIdentity
  <2>2. CASE DescribeCluster(outcome)
    <3>1. \/ eks' = eks
          \/ \E items : eks' = [eks EXCEPT !["Cluster"] = items]
      BY <2>2 DEF DescribeCluster
    <3>2. f # "Cluster"
      BY DEF Families
    <3> QED
      BY <3>1, <3>2
  <2>3. CASE ListFamily(outcome)
    BY <2>3 DEF ListFamily
  <2>4. CASE DescribeOne(outcome)
    <3>1. PICK family \in Families : /\ Head(awsTodo).op = family
                                     /\ \E items : eks' = [eks EXCEPT ![family] = items]
      BY <2>4, Zenon DEF DescribeOne, AwsRunning
    <3> QED
      BY <3>1
  <2>5. CASE \E list \in {"AutoScalingGroups", "Instances", "VPCs", "Subnets", "SecurityGroups",
                          "ScalingActivities"} : \E items : eks' = [eks EXCEPT ![list] = items]
    BY <2>5 DEF Families
  <2>6. CASE DescribeAutoScalingGroups(outcome)
    <3>1. \E items : eks' = [eks EXCEPT !["AutoScalingGroups"] = items]
      BY <2>6, Zenon DEF DescribeAutoScalingGroups, RecordInfrastructure
    <3> QED
      BY <2>5, <3>1
  <2>7. CASE DescribeInstances(outcome)
    <3>1. \E items : eks' = [eks EXCEPT !["Instances"] = items]
      BY <2>7, Zenon DEF DescribeInstances, RecordInfrastructure
    <3> QED
      BY <2>5, <3>1
  <2>8. CASE DescribeVpcs(outcome)
    <3>1. \E items : eks' = [eks EXCEPT !["VPCs"] = items]
      BY <2>8, Zenon DEF DescribeVpcs, RecordInfrastructure
    <3> QED
      BY <2>5, <3>1
  <2>9. CASE DescribeSubnets(outcome)
    <3>1. \E items : eks' = [eks EXCEPT !["Subnets"] = items]
      BY <2>9, Zenon DEF DescribeSubnets, RecordInfrastructure
    <3> QED
      BY <2>5, <3>1
  <2>10. CASE DescribeRouteTables(outcome)
    <3>1. \E tables : eks' = [eks EXCEPT !.Subnets = ApplyRouteTables(@, tables)]
      BY <2>10, Zenon DEF DescribeRouteTables
    <3>2. \E items : eks' = [eks EXCEPT !["Subnets"] = items]
      BY <3>1
    <3> QED
      BY <2>5, <3>2
  <2>11. CASE DescribeSecurityGroups(outcome)
    <3>1. \E items : eks' = [eks EXCEPT !["SecurityGroups"] = items]
      BY <2>11, Zenon DEF DescribeSecurityGroups, RecordInfrastructure
    <3> QED
      BY <2>5, <3>1
  <2>12. CASE DescribeScalingActivities(outcome)
    <3>1. \E items : eks' = [eks EXCEPT !["ScalingActivities"] = items]
      BY <2>12, Zenon DEF DescribeScalingActivities, RecordInfrastructure
    <3> QED
      BY <2>5, <3>1
  <2> QED
    BY <2>1, <2>2, <2>3, <2>4, <2>6, <2>7, <2>8, <2>9, <2>10, <2>11, <2>12 DEF CallAws
<1> QED
  BY <1>1, <1>2

LEMMA PartialIsIncomplete ==
    ASSUME NEW f, NEW count, coverage' = coverage \cup {Partial("eks", f, count)}
    PROVE  Incomplete("eks", f)'
<1> DEFINE c == Partial("eks", f, count)
<1>1. c \in coverage' /\ c.area = "eks" /\ c.resource = f /\ c.status # "complete"
  BY DEF Partial, CoverageItem
<1> HIDE DEF c
<1> QED
  BY <1>1 DEF Incomplete, Items, Snapshot

LEMMA ListedFamilyIsAsked ==
    ASSUME AwsOrdered(awsTodo), AwsNamed(world), NEW outcome, ListFamily(outcome),
           NEW f \in Families, Head(awsTodo).op = f
    PROVE  /\ eks' = eks
           /\ \/ Incomplete("eks", f)'
              \/ \A n \in DOMAIN world.aws[f] : AsksFor(awsTodo', f, n)
<1> DEFINE names == DOMAIN world.aws[f]
           asked == {Describe(f, m) : m \in names}
           rest == SetToSeq(asked) \o Tail(awsTodo)
<1>1. /\ awsTodo # <<>> /\ ~DescribesOne(Head(awsTodo))
      /\ \/ AwsContinue(rest)
         \/ names = {}
         \/ coverage' = coverage \cup {Partial("eks", f, 0)}
  <2>1. PICK family \in Families :
            /\ AwsRunning(family) /\ Head(awsTodo).name = ""
            /\ LET ns == DOMAIN world.aws[family]
               IN  \/ /\ outcome = "ok" /\ ns # {}
                      /\ AwsContinue(SetToSeq({Describe(family, m) : m \in ns}) \o Tail(awsTodo))
                   \/ /\ outcome = "ok" /\ ns = {}
                   \/ coverage' = coverage \cup {Partial("eks", family, 0)}
    BY Zenon DEF ListFamily
  <2>2. family = f /\ awsTodo # <<>>
    BY <2>1 DEF AwsRunning
  <2> QED
    BY <2>1, <2>2 DEF DescribesOne
<1>2. eks' = eks
  BY DEF ListFamily
<1>3. CASE AwsContinue(rest)
  <2>1. awsTodo' = rest
    BY <1>3 DEF AwsContinue
  <2>2. IsFiniteSet(names) /\ \A m \in names : DescribesOne(Describe(f, m))
    BY DEF AwsNamed, DescribesOne, Describe
  <2>3. ToSet(rest) = asked \cup ToSet(Tail(awsTodo))
    BY <1>1, <2>2, AwsDescribesNext
  <2> SUFFICES ASSUME NEW n \in names PROVE AsksFor(awsTodo', f, n)
    BY <1>2
  <2>4. Describe(f, n) \in asked
    OBVIOUS
  <2> HIDE DEF asked
  <2>5. ToSet(awsTodo') = ToSet(rest)
    BY <2>1
  <2>6. Describe(f, n) \in ToSet(awsTodo')
    BY <2>3, <2>4, <2>5
  <2>7. Describe(f, n).op = f /\ Describe(f, n).name = n
    BY DEF Describe
  <2> QED
    BY <2>6, <2>7 DEF AsksFor
<1>4. CASE coverage' = coverage \cup {Partial("eks", f, 0)}
  BY <1>2, <1>4, PartialIsIncomplete
<1> QED
  BY <1>1, <1>2, <1>3, <1>4

LEMMA DescribedIsRead ==
    ASSUME DOMAIN eks = EKSLists, AwsOrdered(awsTodo), NEW outcome, DescribeOne(outcome),
           NEW f \in Families, Head(awsTodo).op = f, NEW w, world = w,
           FamilyIsRead(w, f), ~Incomplete("eks", f)
    PROVE  FamilyIsRead(w, f)'
<1> DEFINE m == Head(awsTodo).name
           one == MapDescribed(f, m, w.aws[f][m])
<1>1. /\ awsTodo # <<>> /\ DescribesOne(Head(awsTodo))
      /\ \/ /\ m \in DOMAIN w.aws[f]
            /\ eks' = [eks EXCEPT ![f] = eks[f] \cup {one}]
            /\ awsTodo' = Tail(awsTodo)
         \/ \E count : coverage' = coverage \cup {Partial("eks", f, count)}
  <2>1. PICK family \in Families :
            /\ AwsRunning(family) /\ DescribesOne(Head(awsTodo))
            /\ \/ /\ Head(awsTodo).name \in DOMAIN world.aws[family]
                  /\ eks' = [eks EXCEPT ![family] = eks[family] \cup
                                {MapDescribed(family, Head(awsTodo).name,
                                              world.aws[family][Head(awsTodo).name])}]
                  /\ AwsContinue(Tail(awsTodo))
               \/ \E count : coverage' = coverage \cup {Partial("eks", family, count)}
    BY Zenon DEF DescribeOne, DescribesOne
  <2>2. family = f /\ awsTodo # <<>>
    BY <2>1 DEF AwsRunning
  <2> QED
    BY <2>1, <2>2 DEF AwsContinue
<1>2. CASE \E count : coverage' = coverage \cup {Partial("eks", f, count)}
  BY <1>2, PartialIsIncomplete DEF FamilyIsRead
<1>3. CASE /\ m \in DOMAIN w.aws[f]
           /\ eks' = [eks EXCEPT ![f] = eks[f] \cup {one}]
           /\ awsTodo' = Tail(awsTodo)
  <2>1. one \in FamilyOf(w, f)
    BY <1>3 DEF FamilyOf
  <2>2. eks[f] \subseteq FamilyOf(w, f)
    BY DEF FamilyIsRead
  <2>3. \A n \in DOMAIN w.aws[f] : m = n => MapDescribed(f, n, w.aws[f][n]) = one
    OBVIOUS
  <2> HIDE DEF one
  <2>4. eks'[f] = eks[f] \cup {one}
    <3>1. f \in DOMAIN eks
      BY DEF EKSLists, Families
    <3> QED
      BY <1>3, <3>1
  <2>5. ASSUME NEW n \in DOMAIN w.aws[f]
        PROVE  AsksFor(awsTodo', f, n) \/ MapDescribed(f, n, w.aws[f][n]) \in eks'[f]
    <3>1. CASE MapDescribed(f, n, w.aws[f][n]) \in eks[f]
      BY <2>4, <3>1
    <3>2. CASE m = n
      BY <2>3, <2>4, <3>2
    <3>3. CASE m # n /\ AsksFor(awsTodo, f, n)
      <4>1. PICK c \in ToSet(awsTodo) : c.op = f /\ (DescribesOne(c) => c.name = n)
        BY <3>3 DEF AsksFor
      <4>2. c # Head(awsTodo)
        BY <1>1, <3>3, <4>1
      <4>3. ToSet(awsTodo) = {Head(awsTodo)} \cup ToSet(Tail(awsTodo))
        BY <1>1, TailOf DEF AwsOrdered
      <4>4. c \in ToSet(Tail(awsTodo))
        BY <4>1, <4>2, <4>3
      <4>5. c \in ToSet(awsTodo')
        BY <1>3, <4>4
      <4> QED
        BY <4>1, <4>5 DEF AsksFor
    <3> QED
      BY <3>1, <3>2, <3>3 DEF FamilyIsRead
  <2> QED
    BY <2>1, <2>2, <2>4, <2>5 DEF FamilyIsRead
<1> QED
  BY <1>1, <1>2, <1>3

LEMMA FamilyStaysRead ==
    ASSUME DOMAIN eks = EKSLists, AwsOrdered(awsTodo), AwsNamed(world),
           NEW outcome, CallAws(outcome), AwsGivesUp \/ AwsGoesOn, coverage \subseteq coverage',
           NEW f \in Families, NEW w, world = w, FamilyIsRead(w, f)
    PROVE  FamilyIsRead(w, f)'
<1>1. CASE Incomplete("eks", f)
  BY <1>1, IncompleteStays DEF FamilyIsRead
<1>2. CASE Head(awsTodo).op # f /\ ~Incomplete("eks", f)
  <2>1. eks'[f] = eks[f]
    BY <1>2, OtherFamiliesStay
  <2>2. \A n : AsksFor(awsTodo, f, n) => AsksFor(awsTodo', f, n)
    <3>1. CASE AwsGivesUp
      BY <3>1 DEF AwsGivesUp
    <3>2. CASE AwsGoesOn
      BY <1>2, <3>2 DEF AwsGoesOn, AsksFor
    <3> QED
      BY <3>1, <3>2
  <2> QED
    BY <1>2, <2>1, <2>2 DEF FamilyIsRead
<1>3. CASE Head(awsTodo).op = f /\ ~Incomplete("eks", f) /\ ListFamily(outcome)
  <2>1. /\ eks' = eks
        /\ \/ Incomplete("eks", f)'
           \/ \A n \in DOMAIN w.aws[f] : AsksFor(awsTodo', f, n)
    BY <1>3, ListedFamilyIsAsked
  <2> QED
    BY <1>3, <2>1 DEF FamilyIsRead
<1>4. CASE Head(awsTodo).op = f /\ ~Incomplete("eks", f) /\ DescribeOne(outcome)
  BY <1>4, DescribedIsRead
<1> QED
  BY <1>1, <1>2, <1>3, <1>4, FamilyCalls

LEMMA FamiliesAreKept ==
    ASSUME CoverageInv, ListsEnd(world), HistoryInv, FamiliesInv, [Next]_vars
    PROVE  FamiliesInv'
<1>1. coverage \subseteq coverage'
  BY CoverageIsKept
<1>2. CASE CollectAws
  <2>1. PICK outcome : CallAws(outcome) /\ history' = history
    BY <1>2 DEF CollectAws
  <2>2. AwsGivesUp \/ AwsGoesOn
    BY <2>1, AwsCallKeepsCoverage DEF CoverageInv, ListsEnd
  <2>3. AwsOrdered(awsTodo) /\ AwsNamed(world) /\ DOMAIN eks = EKSLists
    BY DEF CoverageInv, ListsEnd, HistoryInv
  <2> SUFFICES ASSUME history = {InitialWorld}, NEW f \in Families
               PROVE  FamilyIsRead(InitialWorld, f)'
    BY <2>1 DEF FamiliesInv
  <2>4. world = InitialWorld /\ FamilyIsRead(InitialWorld, f)
    BY DEF HistoryInv, FamiliesInv
  <2> QED
    BY <1>1, <2>1, <2>2, <2>3, <2>4, FamilyStaysRead
<1>3. CASE CollectKubernetes \/ UNCHANGED vars
  <2>1. history' = history /\ awsTodo' = awsTodo /\ eks' = eks
    BY <1>3 DEF CollectKubernetes, vars, awsVars
  <2>2. \A f : Incomplete("eks", f) => Incomplete("eks", f)'
    BY <1>1, IncompleteStays
  <2> QED
    BY <2>1, <2>2 DEF FamiliesInv, FamilyIsRead
<1>4. CASE Change
  <2>1. history \subseteq history' /\ eks' = eks /\ awsTodo' = awsTodo /\ coverage' = coverage
    BY <1>4 DEF Change, awsVars
  <2>2. history' = {InitialWorld} => history = {InitialWorld}
    BY <2>1 DEF HistoryInv
  <2>3. \A f : Incomplete("eks", f) => Incomplete("eks", f)'
    BY <1>1, IncompleteStays
  <2> QED
    BY <2>1, <2>2, <2>3 DEF FamiliesInv, FamilyIsRead
<1> QED
  BY <1>2, <1>3, <1>4 DEF Next

LEMMA BindingsStart ==
    ASSUME NEW CONSTANT worlds, AreWorlds(worlds), NEW CONSTANT later, BindingsAreKept(worlds, later)
    PROVE  Init => BindingInv(later)
<1> SUFFICES ASSUME Init PROVE BindingInv(later)
  OBVIOUS
<1>1. /\ kubernetes = EmptyKubernetes /\ todo = Program
      /\ world = InitialWorld /\ history = {InitialWorld}
  BY DEF Init, KubernetesInit
<1>2. kubernetes["PersistentVolumeClaims"] = {} /\ kubernetes["PersistentVolumes"] = {}
  BY <1>1 DEF EmptyKubernetes, KubernetesLists
<1>3. <<InitialWorld, InitialWorld>> \in later
  BY DEF AreWorlds, BindingsAreKept
<1>4. VolumesAreNext(Program)
  BY VolumesAreFirst
<1> QED
  BY <1>1, <1>2, <1>3, <1>4 DEF BindingInv

(***************************************************************************)
(* The conclusions of the advisor: a rule that reads the same lists        *)
(* concludes the same.                                                     *)
(***************************************************************************)
Alike(c, i) == i.key = c.key /\ i.scope = c.scope /\ i.assessment = c.assessment

LEMMA IngressAlike ==
    ASSUME NEW s, NEW t, s.kubernetes.IngressClasses = t.kubernetes.IngressClasses,
           NEW c \in IngressCapabilities(s)
    PROVE  \E i \in IngressCapabilities(t) : Alike(c, i)
<1> DEFINE one(u, x) == Capability("networking.ingress", x.ref.name, x.controller, "supported",
                                   "declared", KubernetesCoverage(u, {"IngressClasses"}), {x.ref})
           none(u) == Capability("networking.ingress", "cluster", "", "unknown", "none",
                                 KubernetesCoverage(u, {"IngressClasses"}), {})
<1>1. \A u : IngressCapabilities(u) = IF u.kubernetes.IngressClasses = {} THEN {none(u)}
                                      ELSE {one(u, x) : x \in u.kubernetes.IngressClasses}
  BY DEF IngressCapabilities
<1>2. /\ \A x : Alike(one(s, x), one(t, x))
      /\ Alike(none(s), none(t))
  BY DEF Capability, Alike
<1> HIDE DEF one, none
<1>3. CASE s.kubernetes.IngressClasses = {}
  BY <1>1, <1>2, <1>3
<1>4. CASE s.kubernetes.IngressClasses # {}
  <2>1. PICK x \in s.kubernetes.IngressClasses : c = one(s, x)
    BY <1>1, <1>4
  <2>2. one(t, x) \in IngressCapabilities(t)
    BY <1>1, <1>4
  <2> QED
    BY <1>2, <2>1, <2>2
<1> QED
  BY <1>3, <1>4

LEMMA GatewayAlike ==
    ASSUME NEW s, NEW t, NEW c \in GatewayCapabilities(s),
           \A x \in s.kubernetes.GatewayClasses :
                \E y \in t.kubernetes.GatewayClasses : y.ref.name = x.ref.name,
           s.kubernetes.GatewayClasses = {} =>
                (c.coverage = KubernetesCoverage(s, {"GatewayClasses", "APIResources"})
                    => t.kubernetes.GatewayClasses = {})
    PROVE  \E i \in GatewayCapabilities(t) : Alike(c, i)
<1> DEFINE one(u, x) == Capability("networking.gateway", x.ref.name, x.controllerName, "supported",
                                   "declared", KubernetesCoverage(u, {"GatewayClasses"}), {x.ref})
           none(u) == Capability("networking.gateway", "cluster", "", "unknown", "none",
                                 KubernetesCoverage(u, {"GatewayClasses", "APIResources"}), {})
<1>1. \A u : GatewayCapabilities(u) = IF u.kubernetes.GatewayClasses = {} THEN {none(u)}
                                      ELSE {one(u, x) : x \in u.kubernetes.GatewayClasses}
  BY DEF GatewayCapabilities
<1>2. /\ \A x, y : y.ref.name = x.ref.name => Alike(one(s, x), one(t, y))
      /\ Alike(none(s), none(t))
      /\ none(s).coverage = KubernetesCoverage(s, {"GatewayClasses", "APIResources"})
  BY DEF Capability, Alike
<1> HIDE DEF one, none
<1>3. CASE s.kubernetes.GatewayClasses = {}
  BY <1>1, <1>2, <1>3
<1>4. CASE s.kubernetes.GatewayClasses # {}
  <2>1. PICK x \in s.kubernetes.GatewayClasses : c = one(s, x)
    BY <1>1, <1>4
  <2>2. PICK y \in t.kubernetes.GatewayClasses : y.ref.name = x.ref.name
    BY <2>1
  <2>3. one(t, y) \in GatewayCapabilities(t)
    BY <1>1, <2>2
  <2> QED
    BY <1>2, <2>1, <2>2, <2>3
<1> QED
  BY <1>3, <1>4

LEMMA StorageAlike ==
    ASSUME NEW s, NEW t, NEW c \in StorageCapabilities(s),
           s.kubernetes.StorageClasses = t.kubernetes.StorageClasses,
           c.coverage = KubernetesCoverage(s, {"StorageClasses", "PersistentVolumes",
                                               "PersistentVolumeClaims"})
                => /\ s.kubernetes.PersistentVolumes = t.kubernetes.PersistentVolumes
                   /\ s.kubernetes.PersistentVolumeClaims = t.kubernetes.PersistentVolumeClaims
    PROVE  \E i \in StorageCapabilities(t) : Alike(c, i)
<1> DEFINE none(u) == Capability("storage.rwx", "cluster", "", "unknown", "none",
                                 KubernetesCoverage(u, {"StorageClasses"}), {})
           classes == s.kubernetes.StorageClasses
<1>1. \A u : StorageCapabilities(u) =
                IF u.kubernetes.StorageClasses = {} THEN {none(u)}
                ELSE UNION {{RwxCapability(u, x), ExpansionCapability(u, x)} :
                                x \in u.kubernetes.StorageClasses}
  BY DEF StorageCapabilities
<1>2. Alike(none(s), none(t))
  BY DEF Capability, Alike
<1>3. \A x : Alike(ExpansionCapability(s, x), ExpansionCapability(t, x))
  <2> DEFINE assess(x) == CASE x.allowVolumeExpansion = ""      -> "unknown"
                            [] x.allowVolumeExpansion = "false" -> "unsupported"
                            [] x.allowVolumeExpansion = "true"  -> "supported"
  <2>1. \A u, x : ExpansionCapability(u, x) =
            Capability("storage.expansion", x.ref.name, x.provisioner, assess(x), "declared",
                       KubernetesCoverage(u, {"StorageClasses"}), {x.ref})
    BY DEF ExpansionCapability
  <2> HIDE DEF assess
  <2> QED
    BY <2>1 DEF Capability, Alike
<1>4. ASSUME NEW x, c = RwxCapability(s, x)
      PROVE  Alike(RwxCapability(s, x), RwxCapability(t, x))
  <2>1. c.coverage = KubernetesCoverage(s, {"StorageClasses", "PersistentVolumes",
                                            "PersistentVolumeClaims"})
    BY <1>4 DEF Capability, RwxCapability
  <2>2. BoundVolumes(s, x.ref.name) = BoundVolumes(t, x.ref.name)
    BY <2>1 DEF BoundVolumes
  <2> QED
    BY <2>2 DEF Capability, Alike, RwxCapability
<1> HIDE DEF none
<1>5. CASE classes = {}
  BY <1>1, <1>2, <1>5
<1>6. CASE classes # {}
  <2>1. PICK x \in classes : c \in {RwxCapability(s, x), ExpansionCapability(s, x)}
    BY <1>1, <1>6
  <2>2. {RwxCapability(t, x), ExpansionCapability(t, x)} \subseteq StorageCapabilities(t)
    BY <1>1, <1>6
  <2> QED
    BY <1>3, <1>4, <2>1, <2>2
<1> QED
  BY <1>5, <1>6

LEMMA ExtensionAlike ==
    ASSUME NEW s, NEW t, NEW c \in ExtensionCapabilities(s),
           s.kubernetes.CustomResourceDefinitions = t.kubernetes.CustomResourceDefinitions
    PROVE  \E i \in ExtensionCapabilities(t) : Alike(c, i)
<1> DEFINE covered(u) == KubernetesCoverage(u, {"CustomResourceDefinitions"})
           one(u, x) == Capability("extensions.api", x.ref.name, x.group,
                                   IF ServedVersions(x) = {} THEN "unknown" ELSE "supported",
                                   "declared", covered(u), {x.ref})
           none(u) == Capability("extensions.api", "cluster", "", "unknown", "none", covered(u), {})
<1>1. \A u : ExtensionCapabilities(u) =
                IF u.kubernetes.CustomResourceDefinitions = {} THEN {none(u)}
                ELSE {one(u, x) : x \in u.kubernetes.CustomResourceDefinitions}
  BY DEF ExtensionCapabilities
<1>2. /\ \A x : Alike(one(s, x), one(t, x))
      /\ Alike(none(s), none(t))
  BY DEF Capability, Alike
<1> HIDE DEF one, none
<1>3. CASE s.kubernetes.CustomResourceDefinitions = {}
  BY <1>1, <1>2, <1>3
<1>4. CASE s.kubernetes.CustomResourceDefinitions # {}
  <2>1. PICK x \in s.kubernetes.CustomResourceDefinitions : c = one(s, x)
    BY <1>1, <1>4
  <2>2. one(t, x) \in ExtensionCapabilities(t)
    BY <1>1, <1>4
  <2> QED
    BY <1>2, <2>1, <2>2
<1> QED
  BY <1>3, <1>4

\* How much of a conclusion's lists was read.
LEMMA CoverageOfConclusions ==
    ASSUME NEW s, NEW c
    PROVE  /\ c \in IngressCapabilities(s) =>
                    c.coverage = KubernetesCoverage(s, {"IngressClasses"})
           /\ c \in ExtensionCapabilities(s) =>
                    c.coverage = KubernetesCoverage(s, {"CustomResourceDefinitions"})
           /\ c \in StorageCapabilities(s) =>
                    c.coverage \in {KubernetesCoverage(s, {"StorageClasses"}),
                                    KubernetesCoverage(s, {"StorageClasses", "PersistentVolumes",
                                                           "PersistentVolumeClaims"})}
           /\ c \in InsightCapabilities(s) => c.coverage = CoverageArea(s, "eks", "Insights")
<1> DEFINE ingress == KubernetesCoverage(s, {"IngressClasses"})
           extension == KubernetesCoverage(s, {"CustomResourceDefinitions"})
           class == KubernetesCoverage(s, {"StorageClasses"})
           bound == KubernetesCoverage(s, {"StorageClasses", "PersistentVolumes",
                                           "PersistentVolumeClaims"})
           insight == CoverageArea(s, "eks", "Insights")
           Has(covered) == \E key, scope, implementation, assessment, basis, evidence :
                c = Capability(key, scope, implementation, assessment, basis, covered, evidence)
<1>1. \A covered : Has(covered) => c.coverage = covered
  BY DEF Capability
<1>2. c \in IngressCapabilities(s) => Has(ingress)
  BY Zenon DEF IngressCapabilities
<1>3. c \in ExtensionCapabilities(s) => Has(extension)
  BY Zenon DEF ExtensionCapabilities
<1>4. c \in InsightCapabilities(s) => Has(insight)
  BY Zenon DEF InsightCapabilities, EKSInsightCapability
<1>5. c \in StorageCapabilities(s) => Has(class) \/ Has(bound)
  <2>1. \A x : c = RwxCapability(s, x) => Has(bound)
    BY Zenon DEF RwxCapability
  <2>2. \A x : c = ExpansionCapability(s, x) => Has(class)
    BY Zenon DEF ExpansionCapability
  <2>3. c \in StorageCapabilities(s) =>
            \/ Has(class)
            \/ \E x : c \in {RwxCapability(s, x), ExpansionCapability(s, x)}
    BY Zenon DEF StorageCapabilities
  <2> HIDE DEF Has
  <2> QED
    BY <2>1, <2>2, <2>3
<1> HIDE DEF Has
<1> QED
  BY <1>1, <1>2, <1>3, <1>4, <1>5

LEMMA InsightsAlike ==
    ASSUME NEW s, NEW t, NEW c \in InsightCapabilities(s), s.eks.Insights = t.eks.Insights
    PROVE  \E i \in InsightCapabilities(t) : Alike(c, i)
<1> DEFINE none(u) == Capability("eks.insight", "cluster", "", "unknown", "none",
                                 CoverageArea(u, "eks", "Insights"), {})
<1>1. \A u : InsightCapabilities(u) =
                IF u.eks.Insights = {} THEN {none(u)}
                ELSE {EKSInsightCapability(u, x) : x \in u.eks.Insights}
  BY DEF InsightCapabilities
<1>2. /\ \A x : Alike(EKSInsightCapability(s, x), EKSInsightCapability(t, x))
      /\ Alike(none(s), none(t))
  BY DEF Capability, Alike, EKSInsightCapability
<1> HIDE DEF none
<1>3. CASE s.eks.Insights = {}
  BY <1>1, <1>2, <1>3
<1>4. CASE s.eks.Insights # {}
  <2>1. PICK x \in s.eks.Insights : c = EKSInsightCapability(s, x)
    BY <1>1, <1>4
  <2>2. EKSInsightCapability(t, x) \in InsightCapabilities(t)
    BY <1>1, <1>4
  <2> QED
    BY <1>2, <2>1, <2>2
<1> QED
  BY <1>3, <1>4

\* What is concluded of one add-on, one node group.
AddonCapability(s, a) ==
    LET compatible == CompatibleVersions(s, a)
        unhealthy == a.status \notin {"", "ACTIVE"} \/ a.issues # {}
        unlisted == compatible # {} /\ a.version \notin compatible
    IN  Capability("eks.addon", a.name, a.version,
            CASE unhealthy -> "unsupported"
              [] ~unhealthy /\ unlisted -> "unknown"
              [] OTHER -> "supported",
            IF compatible # {} THEN "aws-reported" ELSE "observed",
            CoverageArea(s, "eks", "Addons"), {RefTo("", "Addon", "", a.name)})

NodegroupCapability(s, g) ==
    LET nodes == NodesForNodegroup(s, g.name)
    IN  Capability("eks.nodegroup", g.name, g.releaseVersion, NodegroupAssessment(g, nodes),
            IF nodes = {} THEN "declared" ELSE "observed",
            CombinedCoverage(s, {<<"eks", "Nodegroups">>, <<"kubernetes", "Nodes">>}),
            {RefTo("", "Nodegroup", "", g.name)} \cup {n.ref : n \in nodes})

LEMMA AddonsAlike ==
    ASSUME NEW s, NEW t, NEW c \in AddonCapabilities(s), s.eks.Addons = t.eks.Addons
    PROVE  /\ c.key = "eks.addon" /\ c.coverage = CoverageArea(s, "eks", "Addons")
           /\ s.eks.Insights = t.eks.Insights => \E i \in AddonCapabilities(t) : Alike(c, i)
<1>1. \A u : AddonCapabilities(u) = {AddonCapability(u, a) : a \in u.eks.Addons}
  BY DEF AddonCapabilities, AddonCapability
<1>2. \A a : /\ AddonCapability(s, a).key = "eks.addon"
             /\ AddonCapability(s, a).coverage = CoverageArea(s, "eks", "Addons")
  BY DEF Capability, AddonCapability
<1>3. PICK a \in s.eks.Addons : c = AddonCapability(s, a)
  BY <1>1
<1>4. ASSUME s.eks.Insights = t.eks.Insights
      PROVE  Alike(AddonCapability(s, a), AddonCapability(t, a))
  <2>1. CompatibleVersions(s, a) = CompatibleVersions(t, a)
    BY <1>4 DEF CompatibleVersions
  <2> HIDE DEF CompatibleVersions
  <2> QED
    BY <2>1 DEF Capability, Alike, AddonCapability
<1>5. AddonCapability(t, a) \in AddonCapabilities(t)
  BY <1>1, <1>3
<1> QED
  BY <1>2, <1>3, <1>4, <1>5

LEMMA NodegroupsAlike ==
    ASSUME NEW s, NEW t, NEW c \in NodegroupCapabilities(s),
           c.coverage = CombinedCoverage(s, {<<"eks", "Nodegroups">>, <<"kubernetes", "Nodes">>})
                => s.eks.Nodegroups = t.eks.Nodegroups /\ s.kubernetes.Nodes = t.kubernetes.Nodes
    PROVE  \E i \in NodegroupCapabilities(t) : Alike(c, i)
<1>1. \A u : NodegroupCapabilities(u) = {NodegroupCapability(u, g) : g \in u.eks.Nodegroups}
  BY DEF NodegroupCapabilities, NodegroupCapability
<1>2. PICK g \in s.eks.Nodegroups : c = NodegroupCapability(s, g)
  BY <1>1
<1>3. s.eks.Nodegroups = t.eks.Nodegroups /\ s.kubernetes.Nodes = t.kubernetes.Nodes
  BY <1>2 DEF Capability, NodegroupCapability
<1>4. NodesForNodegroup(s, g.name) = NodesForNodegroup(t, g.name)
  BY <1>3 DEF NodesForNodegroup
<1>5. Alike(NodegroupCapability(s, g), NodegroupCapability(t, g))
  BY <1>4 DEF Capability, Alike, NodegroupCapability
<1>6. NodegroupCapability(t, g) \in NodegroupCapabilities(t)
  BY <1>1, <1>2, <1>3
<1> QED
  BY <1>2, <1>5, <1>6

LEMMA UnmanagedArePartial ==
    ASSUME NEW s, NEW c \in UnmanagedNodeGroups(s)
    PROVE  c.coverage = "partial"
<1> DEFINE nodes(scope) == {n \in s.kubernetes.Nodes : UnmanagedNodeScope(s, n) = scope}
           scopes == {UnmanagedNodeScope(s, n) : n \in s.kubernetes.Nodes} \ {""}
<1>1. PICK scope : c = Capability("eks.nodegroup", scope, "", "unknown", "observed", "partial",
                                  {n.ref : n \in nodes(scope)})
  <2>1. UnmanagedNodeGroups(s) =
            {Capability("eks.nodegroup", x, "", "unknown", "observed", "partial",
                        {n.ref : n \in nodes(x)}) : x \in scopes}
    BY DEF UnmanagedNodeGroups
  <2> HIDE DEF nodes, scopes
  <2> QED
    BY <2>1
<1> QED
  BY <1>1 DEF Capability

(***************************************************************************)
(* What was read completely of a cluster that does not change.             *)
(***************************************************************************)
LEMMA ItemsAreTold ==
    \A area, r : Items(Snapshot, area, r) = Told(coverage, area, r)
BY DEF Items, Snapshot, Told

LEMMA CoveredIsTold ==
    ASSUME NEW resources, KubernetesCoverage(Snapshot, resources) = "complete",
           NEW r \in resources
    PROVE  \E c \in Told(coverage, "kubernetes", r) : c.status = "complete"
<1> DEFINE l == <<"kubernetes", r>>
           lists == {<<"kubernetes", q>> : q \in resources}
<1>1. l \in lists /\ l[1] = "kubernetes" /\ l[2] = r
  OBVIOUS
<1>2. CombinedCoverage(Snapshot, lists) = "complete"
  BY DEF KubernetesCoverage
<1> HIDE DEF l, lists
<1>3. /\ Items(Snapshot, l[1], l[2]) # {}
      /\ \A c \in Items(Snapshot, l[1], l[2]) : c.status = "complete"
  BY <1>1, <1>2 DEF CombinedCoverage
<1> QED
  BY <1>1, <1>3, ItemsAreTold

LEMMA CompleteIsInitial ==
    ASSUME PlainInv, history = {InitialWorld}, NEW r \in SingleCalls,
           NEW c \in Told(coverage, "kubernetes", r), Clean(c)
    PROVE  kubernetes[ListOf(r)] = InitialSnapshot.kubernetes[ListOf(r)]
<1>1. r \in ListCalls /\ CallsOf(ListOf(r)) = {r} /\ ListOf(r) \in PlainLists
      /\ ListOf(r) \in KubernetesLists
  BY SingleCallsFillOne, ListNames
<1>2. InitialSnapshot.kubernetes[ListOf(r)] = ListsOf(r, InitialWorld.kubernetes)
  <2>1. InitialSnapshot.kubernetes[ListOf(r)] = IdealList(InitialWorld.kubernetes, ListOf(r))
    BY <1>1 DEF InitialSnapshot, Ideal
  <2> QED
    BY <2>1, IdealOfSingle
<1>3. ListsOf(r, InitialWorld.kubernetes) \subseteq kubernetes[ListOf(r)]
  BY <1>1 DEF PlainInv, ReadWhole
<1>4. kubernetes[ListOf(r)] \subseteq ListsOf(r, InitialWorld.kubernetes)
  BY <1>1 DEF PlainInv, WasThere
<1> QED
  BY <1>2, <1>3, <1>4

\* The list has the name of its call.
LEMMA CoveredIsInitial ==
    ASSUME PlainInv, history = {InitialWorld}, NEW resources,
           KubernetesCoverage(Snapshot, resources) = "complete",
           NEW r \in resources \cap (SingleCalls \ {"SecretsMetadata"})
    PROVE  Snapshot.kubernetes[r] = InitialSnapshot.kubernetes[r]
<1>1. ListOf(r) = r
  BY SingleCallsFillOne
<1>2. PICK c \in Told(coverage, "kubernetes", r) : Clean(c)
  BY CoveredIsTold DEF Clean
<1> QED
  BY <1>1, <1>2, CompleteIsInitial DEF Snapshot

LEMMA ReadFamilyIsInitial ==
    ASSUME CoverageInv, FamiliesInv, Done, history = {InitialWorld},
           NEW f \in {"Addons", "Nodegroups", "Insights"}, ~Incomplete("eks", f)
    PROVE  Snapshot.eks[f] = InitialSnapshot.eks[f]
<1>1. awsTodo = <<>>
  BY DEF CoverageInv, InOrder, Done
<1>2. \A n : ~AsksFor(awsTodo, f, n)
  BY <1>1 DEF AsksFor, ToSet
<1>3. eks[f] = FamilyOf(InitialWorld, f)
  BY <1>2 DEF FamiliesInv, FamilyIsRead, FamilyOf, Families
<1>4. InitialSnapshot.eks[f] = FamilyOf(InitialWorld, f)
  <2> DEFINE w == InitialWorld.aws
  <2>1. /\ IdealEKS(w).Addons = {MapAddon(n, w.Addons[n]) : n \in DOMAIN w.Addons}
        /\ IdealEKS(w).Nodegroups = {MapNodegroup(n, w.Nodegroups[n]) : n \in DOMAIN w.Nodegroups}
        /\ IdealEKS(w).Insights = {MapInsight(n, w.Insights[n]) : n \in DOMAIN w.Insights}
    <3>1. {"Addons", "Nodegroups", "Insights"} \subseteq DOMAIN EmptyEKS
      BY DEF EmptyEKS, EKSLists
    <3> QED
      BY <3>1, Zenon DEF IdealEKS
  <2>2. InitialSnapshot.eks = IdealEKS(w)
    BY DEF InitialSnapshot, Ideal
  <2>3. \A n, a : /\ MapDescribed("Addons", n, a) = MapAddon(n, a)
                  /\ MapDescribed("Nodegroups", n, a) = MapNodegroup(n, a)
                  /\ MapDescribed("Insights", n, a) = MapInsight(n, a)
    BY DEF MapDescribed
  <2>4. /\ FamilyOf(InitialWorld, "Addons") = {MapAddon(n, w.Addons[n]) : n \in DOMAIN w.Addons}
        /\ FamilyOf(InitialWorld, "Nodegroups")
                = {MapNodegroup(n, w.Nodegroups[n]) : n \in DOMAIN w.Nodegroups}
        /\ FamilyOf(InitialWorld, "Insights")
                = {MapInsight(n, w.Insights[n]) : n \in DOMAIN w.Insights}
    BY <2>3 DEF FamilyOf
  <2> QED
    BY <2>1, <2>2, <2>4
<1> QED
  BY <1>3, <1>4 DEF Snapshot

\* A family has one item of coverage, so that no other tells of a gap.
LEMMA CompleteFamilyHasNoGap ==
    ASSUME CoverageInv, Done, NEW f \in {"Addons", "Nodegroups", "Insights"},
           NEW c \in Items(Snapshot, "eks", f), c.status = "complete"
    PROVE  ~Incomplete("eks", f)
<1>1. awsTodo = <<>>
  BY DEF CoverageInv, InOrder, Done
<1>2. AwsAhead(awsTodo) = {}
  BY <1>1 DEF AwsAhead, ToSet
<1>3. f \in AwsOps /\ AwsArea[f] = "eks" /\ AwsResource(f) = f
  BY AwsOpKeys DEF AwsOps, AwsRank, AwsArea, AwsResource
<1>4. PICK d : Told(coverage, "eks", f) = {d}
  BY <1>2, <1>3 DEF CoverageInv, AwsTold, ToldOnce
<1> QED
  BY <1>4, ItemsAreTold DEF Incomplete

LEMMA CoveredFamilyHasNoGap ==
    ASSUME CoverageInv, Done, NEW f \in {"Addons", "Nodegroups", "Insights"},
           CoverageArea(Snapshot, "eks", f) = "complete"
    PROVE  ~Incomplete("eks", f)
<1>1. Items(Snapshot, "eks", f) # {}
  BY DEF CoverageArea
<1> DEFINE c == CHOOSE c \in Items(Snapshot, "eks", f) : TRUE
<1>2. c \in Items(Snapshot, "eks", f) /\ c.status = "complete"
  BY <1>1 DEF CoverageArea
<1> QED
  BY <1>2, CompleteFamilyHasNoGap

\* A scan without failures reads the gateway classes in the first version; their
\* names are the same in every version.
LEMMA ClassesAreNamed ==
    ASSUME NEW w
    PROVE  /\ IdealList(w.kubernetes, "GatewayClasses") = ClassesOf(w, "v1")
           /\ \A u, v : \A x \in ClassesOf(w, u) : \E y \in ClassesOf(w, v) : y.ref.name = x.ref.name
<1>1. CallsOf("GatewayClasses") = {}
  <2>1. "GatewayClasses" \notin PlainLists
    BY ListNames DEF OtherLists
  <2> QED
    BY <2>1 DEF CallsOf, PlainLists
<1>2. GatewayCallsOf("GatewayClasses") = {"GatewayClasses"}
  BY CallSets DEF GatewayCallsOf, GatewayTypes, ListOf, InCalls
<1>3. ASSUME NEW i, NEW u
      PROVE  MapGatewayItem("GatewayClasses", u, i).ref.name = i.name
  <2> DEFINE parameters == IF i.parametersRef.name = "" THEN NoRef
                           ELSE ObjectRefFromGatewayRef(i.parametersRef, i.namespace, "")
  <2>1. MapGatewayItem("GatewayClasses", u, i) = MapGatewayClass(i, u)
    BY CallSets DEF MapGatewayItem, InCalls
  <2>2. MapGatewayClass(i, u) = [ref |-> Ref(GatewayAPIVersion(i, u), "GatewayClass", i),
                                 controllerName |-> i.controllerName,
                                 parameters |-> parameters]
    BY DEF MapGatewayClass
  <2> HIDE DEF parameters
  <2>3. MapGatewayClass(i, u).ref = Ref(GatewayAPIVersion(i, u), "GatewayClass", i)
    BY <2>2
  <2>4. \A v1 : Ref(v1, "GatewayClass", i).name = i.name
    BY DEF Ref
  <2> QED
    BY <2>1, <2>3, <2>4
<1>4. IdealList(w.kubernetes, "GatewayClasses") = ClassesOf(w, "v1")
  BY <1>1, <1>2 DEF IdealList, ClassesOf
<1>5. ASSUME NEW u, NEW v, NEW x \in ClassesOf(w, u)
      PROVE  \E y \in ClassesOf(w, v) : y.ref.name = x.ref.name
  <2>1. PICK i \in w.kubernetes.GatewayClasses : x = MapGatewayItem("GatewayClasses", u, i)
    BY DEF ClassesOf
  <2>2. MapGatewayItem("GatewayClasses", v, i) \in ClassesOf(w, v)
    BY DEF ClassesOf
  <2> QED
    BY <1>3, <2>1, <2>2
<1> QED
  BY <1>4, <1>5

\* The classes of gateways that were read.
LEMMA ClassesAreInitial ==
    ASSUME NEW served, ClassesInv(served), history = {InitialWorld}
    PROVE  /\ \A x \in Snapshot.kubernetes.GatewayClasses :
                    \E y \in InitialSnapshot.kubernetes.GatewayClasses : y.ref.name = x.ref.name
           /\ Snapshot.kubernetes.GatewayClasses = {}
              /\ KubernetesCoverage(Snapshot, {"GatewayClasses", "APIResources"}) = "complete"
                => InitialSnapshot.kubernetes.GatewayClasses = {}
<1> DEFINE classes == InitialSnapshot.kubernetes.GatewayClasses
<1>1. classes = ClassesOf(InitialWorld, "v1")
  <2>1. "GatewayClasses" \in KubernetesLists
    BY DEF KubernetesLists
  <2>2. classes = IdealList(InitialWorld.kubernetes, "GatewayClasses")
    BY <2>1 DEF InitialSnapshot, Ideal
  <2> QED
    BY <2>2, ClassesAreNamed
<1>2. ASSUME NEW x \in kubernetes["GatewayClasses"]
      PROVE  \E y \in ClassesOf(InitialWorld, "v1") : y.ref.name = x.ref.name
  <2>1. PICK v : x \in ClassesOf(InitialWorld, v)
    BY DEF ClassesInv, ClassWasThere
  <2> QED
    BY <2>1, ClassesAreNamed
<1>3. ASSUME kubernetes["GatewayClasses"] = {},
             KubernetesCoverage(Snapshot, {"GatewayClasses", "APIResources"}) = "complete"
      PROVE  ClassesOf(InitialWorld, "v1") = {}
  <2>1. PICK c \in Told(coverage, "kubernetes", "GatewayClasses") : c.status = "complete"
    BY <1>3, CoveredIsTold
  <2>2. ClassesRead
    BY <2>1 DEF ClassesInv, Clean
  <2>3. PICK v : ClassesOf(InitialWorld, v) = {}
    BY <1>3, <2>2 DEF ClassesRead
  <2> QED
    BY <2>3 DEF ClassesOf
<1> HIDE DEF classes
<1>4. Snapshot.kubernetes.GatewayClasses = kubernetes["GatewayClasses"]
  BY DEF Snapshot
<1> QED
  BY <1>1, <1>2, <1>3, <1>4 DEF classes

\* What the scan has read so far is what the worlds of its history had.
ReadInv(later, served) ==
    /\ CoverageInv /\ HistoryInv /\ PlainInv /\ FamiliesInv
    /\ BindingInv(later) /\ ClassesInv(served)

\* Lists that end, volumes and claims that refer to each other by UID, gateway
\* classes as discovery tells of them.
AreReadable(worlds, later, served) ==
    /\ AreWorlds(worlds) /\ \A w \in worlds : ListsEnd(w)
    /\ BindingsAreKept(worlds, later)
    /\ served \in SUBSET ClassVersions /\ \A w \in worlds : ServesClasses(w, served)

LEMMA ReadStarts ==
    ASSUME NEW CONSTANT worlds, NEW CONSTANT later, NEW CONSTANT served,
           AreReadable(worlds, later, served)
    PROVE  Init => ReadInv(later, served)
<1>1. Init => HistoryInv
  BY ChainStarts
<1>2. Init => BindingInv(later)
  BY BindingsStart DEF AreReadable
<1>3. Init => ClassesInv(served)
  BY ClassesStart
<1> QED
  BY <1>1, <1>2, <1>3, CoverageStarts, NothingIsRead, FamiliesStart DEF ReadInv

LEMMA ReadIsKept ==
    ASSUME NEW CONSTANT worlds, NEW CONSTANT later, NEW CONSTANT served,
           AreReadable(worlds, later, served), world \in worlds, history \subseteq worlds,
           ReadInv(later, served), [Next]_vars
    PROVE  ReadInv(later, served)'
<1>1. /\ CoverageInv /\ HistoryInv /\ PlainInv /\ FamiliesInv
      /\ BindingInv(later) /\ ClassesInv(served)
  BY DEF ReadInv
<1>2. /\ AreWorlds(worlds) /\ ListsEnd(world) /\ BindingsAreKept(worlds, later)
      /\ served \in SUBSET ClassVersions /\ \A w \in history : ServesClasses(w, served)
  BY DEF AreReadable
<1>3. DOMAIN kubernetes = KubernetesLists
  BY <1>1 DEF PlainInv
<1>4. CoverageInv' /\ HistoryInv' /\ PlainInv' /\ FamiliesInv'
  BY <1>1, <1>2, CoverageIsKept, HistoryIsKept, PlainIsKept, FamiliesAreKept
<1>5. BindingInv(later)'
  BY <1>1, <1>2, <1>3, BindingIsKept
<1>6. ClassesInv(served)'
  BY <1>1, <1>2, ClassesAreKept
<1> QED
  BY <1>4, <1>5, <1>6 DEF ReadInv

LEMMA CompleteStands ==
    ASSUME NEW later, NEW served, ReadInv(later, served), Done
    PROVE  CompleteConclusionsStand
<1> SUFFICES ASSUME history = {InitialWorld}, NEW c \in Capabilities(Snapshot),
                    c.coverage = "complete",
                    ~(c.key = "eks.addon" /\ Incomplete("eks", "Insights"))
             PROVE  \E i \in Capabilities(InitialSnapshot) : Alike(c, i)
  BY DEF CompleteConclusionsStand, InitialCapabilities, Alike
<1>1. CoverageInv /\ PlainInv /\ FamiliesInv /\ ClassesInv(served)
  BY DEF ReadInv
<1>2. \A resources : KubernetesCoverage(Snapshot, resources) = "complete" =>
            \A r \in resources \cap (SingleCalls \ {"SecretsMetadata"}) :
                Snapshot.kubernetes[r] = InitialSnapshot.kubernetes[r]
  BY <1>1, CoveredIsInitial
<1>3. \A f \in {"Addons", "Nodegroups", "Insights"} :
            ~Incomplete("eks", f) => Snapshot.eks[f] = InitialSnapshot.eks[f]
  BY <1>1, ReadFamilyIsInitial
<1>4. \A f \in {"Addons", "Nodegroups", "Insights"} :
            CoverageArea(Snapshot, "eks", f) = "complete" => ~Incomplete("eks", f)
  BY <1>1, CoveredFamilyHasNoGap
<1>5. CASE c \in IngressCapabilities(Snapshot)
  <2>1. KubernetesCoverage(Snapshot, {"IngressClasses"}) = "complete"
    BY <1>5, CoverageOfConclusions
  <2>2. Snapshot.kubernetes["IngressClasses"] = InitialSnapshot.kubernetes["IngressClasses"]
    BY <1>2, <2>1 DEF SingleCalls
  <2> QED
    BY <1>5, <2>2, IngressAlike DEF Capabilities
<1>6. CASE c \in GatewayCapabilities(Snapshot)
  <2>1. PICK i \in GatewayCapabilities(InitialSnapshot) : Alike(c, i)
    BY <1>1, <1>6, ClassesAreInitial, GatewayAlike
  <2> QED
    BY <2>1 DEF Capabilities
<1>7. CASE c \in StorageCapabilities(Snapshot)
  <2> DEFINE storage == {"StorageClasses", "PersistentVolumes", "PersistentVolumeClaims"}
  <2>1. \/ KubernetesCoverage(Snapshot, storage) = "complete"
        \/ KubernetesCoverage(Snapshot, {"StorageClasses"}) = "complete"
    BY <1>7, CoverageOfConclusions
  <2>2. storage \subseteq SingleCalls \ {"SecretsMetadata"}
    BY DEF SingleCalls
  <2>3. Snapshot.kubernetes["StorageClasses"] = InitialSnapshot.kubernetes["StorageClasses"]
    BY <1>2, <2>1, <2>2
  <2>4. c.coverage = KubernetesCoverage(Snapshot, storage) =>
            \A r \in storage : Snapshot.kubernetes[r] = InitialSnapshot.kubernetes[r]
    BY <1>2, <2>2
  <2>5. PICK i \in StorageCapabilities(InitialSnapshot) : Alike(c, i)
    BY <1>7, <2>3, <2>4, StorageAlike
  <2> QED
    BY <2>5 DEF Capabilities
<1>8. CASE c \in ExtensionCapabilities(Snapshot)
  <2>1. KubernetesCoverage(Snapshot, {"CustomResourceDefinitions"}) = "complete"
    BY <1>8, CoverageOfConclusions
  <2>2. Snapshot.kubernetes["CustomResourceDefinitions"]
            = InitialSnapshot.kubernetes["CustomResourceDefinitions"]
    BY <1>2, <2>1 DEF SingleCalls
  <2> QED
    BY <1>8, <2>2, ExtensionAlike DEF Capabilities
<1>9. CASE c \in InsightCapabilities(Snapshot)
  <2>1. CoverageArea(Snapshot, "eks", "Insights") = "complete"
    BY <1>9, CoverageOfConclusions
  <2>2. Snapshot.eks["Insights"] = InitialSnapshot.eks["Insights"]
    BY <1>3, <1>4, <2>1
  <2> QED
    BY <1>9, <2>2, InsightsAlike DEF Capabilities
<1>10. CASE c \in AddonCapabilities(Snapshot)
  <2>1. PICK a \in Snapshot.eks.Addons : c = AddonCapability(Snapshot, a)
    BY <1>10 DEF AddonCapabilities, AddonCapability
  <2>2. c.key = "eks.addon" /\ CoverageArea(Snapshot, "eks", "Addons") = "complete"
    BY <2>1 DEF AddonCapability, Capability
  <2>3. Snapshot.eks["Addons"] = InitialSnapshot.eks["Addons"]
    BY <1>3, <1>4, <2>2
  <2>4. Snapshot.eks["Insights"] = InitialSnapshot.eks["Insights"]
    BY <1>3, <2>2
  <2> QED
    BY <1>10, <2>3, <2>4, AddonsAlike DEF Capabilities
<1>11. CASE c \in NodegroupCapabilities(Snapshot)
  <2> DEFINE lists == {<<"eks", "Nodegroups">>, <<"kubernetes", "Nodes">>}
  <2>1. ASSUME CombinedCoverage(Snapshot, lists) = "complete"
        PROVE  /\ Snapshot.eks["Nodegroups"] = InitialSnapshot.eks["Nodegroups"]
               /\ Snapshot.kubernetes["Nodes"] = InitialSnapshot.kubernetes["Nodes"]
    <3>1. /\ Items(Snapshot, "eks", "Nodegroups") # {}
          /\ \A d \in Items(Snapshot, "eks", "Nodegroups") : d.status = "complete"
          /\ Items(Snapshot, "kubernetes", "Nodes") # {}
          /\ \A d \in Items(Snapshot, "kubernetes", "Nodes") : d.status = "complete"
      BY <2>1 DEF CombinedCoverage
    <3>2. Snapshot.eks["Nodegroups"] = InitialSnapshot.eks["Nodegroups"]
      BY <1>3, <3>1 DEF Incomplete
    <3>3. PICK d \in Told(coverage, "kubernetes", "Nodes") : Clean(d)
      BY <3>1, ItemsAreTold DEF Clean
    <3>4. "Nodes" \in SingleCalls /\ ListOf("Nodes") = "Nodes"
      BY SingleCallsFillOne DEF SingleCalls
    <3>5. kubernetes["Nodes"] = InitialSnapshot.kubernetes["Nodes"]
      BY <1>1, <3>3, <3>4, CompleteIsInitial
    <3> QED
      BY <3>2, <3>5 DEF Snapshot
  <2> HIDE DEF lists
  <2>2. PICK i \in NodegroupCapabilities(InitialSnapshot) : Alike(c, i)
    BY <1>11, <2>1, NodegroupsAlike DEF lists
  <2> QED
    BY <2>2 DEF Capabilities
<1>12. CASE c \in UnmanagedNodeGroups(Snapshot)
  BY <1>12, UnmanagedArePartial
<1> QED
  BY <1>5, <1>6, <1>7, <1>8, <1>9, <1>10, <1>11, <1>12 DEF Capabilities

\* The conclusions of the advisor are warranted, whatever changes during the
\* scan and whichever calls fail: a claim and a volume that are evidence for
\* shared storage were bound to each other in one world, and a gap never turns a
\* conclusion into another one without lowering its coverage (advisor.go).  The
\* volumes refer to their claims by UID, and the gateway classes are served in
\* the versions that discovery tells.
THEOREM ConclusionsAlwaysWarranted ==
    ASSUME NEW CONSTANT worlds, NEW CONSTANT later, NEW CONSTANT served,
           AreReadable(worlds, later, served)
    PROVE  Spec => []ConclusionsAreWarranted
<1>1. Init => ReadInv(later, served)
  BY ReadStarts
<1>2. ReadInv(later, served) /\ world \in worlds /\ history \subseteq worlds /\ [Next]_vars
            => ReadInv(later, served)'
  BY ReadIsKept
<1>3. history \subseteq worlds /\ ReadInv(later, served) => ConclusionsAreWarranted
  <2> SUFFICES ASSUME history \subseteq worlds, ReadInv(later, served), Done
               PROVE  RwxEvidenceWasBound /\ CompleteConclusionsStand
    BY DEF ConclusionsAreWarranted
  <2>1. BindingsAreKept(worlds, later) /\ BindingInv(later) /\ PlainInv
    BY DEF AreReadable, ReadInv
  <2> QED
    BY <2>1, EvidenceWasBound, CompleteStands
<1>4. Spec => [](world \in worlds) /\ [](history \subseteq worlds)
  BY WorldStaysAmong, HistoryStaysAmong DEF AreReadable
<1> QED
  BY <1>1, <1>2, <1>3, <1>4, PTL DEF Spec

(***************************************************************************)
(* A comparison with a scanned cluster.                                    *)
(***************************************************************************)
\* A family is told of as complete or as a gap.
FamiliesTold ==
    \A f \in Families : \A c \in Told(coverage, "eks", f) : Clean(c) => c.status = "complete"

FamilyItem(c) == c.status \in {"complete", "partial"}

FamilyTells(told) == coverage' = coverage \cup told /\ \A c \in told : FamilyItem(c)

OthersTell(told) ==
    /\ coverage' = coverage \cup told
    /\ \A c \in told : \A f \in Families : ~(c.area = "eks" /\ c.resource = f)

LEMMA FamilyCallTells ==
    ASSUME NEW outcome, ListFamily(outcome) \/ DescribeOne(outcome)
    PROVE  \E told : FamilyTells(told)
<1>1. \A area, r, n : FamilyItem(Complete(area, r, n)) /\ FamilyItem(Partial(area, r, n))
  BY DEF FamilyItem, Complete, Partial, CoverageItem
<1>2. \A c : FamilyItem(c) /\ coverage' = coverage \cup {c} => FamilyTells({c})
  BY DEF FamilyTells
<1>3. coverage' = coverage => FamilyTells({})
  BY DEF FamilyTells
<1>4. \/ coverage' = coverage
      \/ \E f, n : coverage' = coverage \cup {Complete("eks", f, n)}
      \/ \E f, n : coverage' = coverage \cup {Partial("eks", f, n)}
  <2>1. CASE ListFamily(outcome)
    BY <2>1, Zenon DEF ListFamily
  <2>2. CASE DescribeOne(outcome)
    <3>1. \/ coverage' = coverage \cup {}
          \/ \E f, n : coverage' = coverage \cup {Complete("eks", f, n)}
          \/ \E f, n : coverage' = coverage \cup {Partial("eks", f, n)}
      BY <2>2, Zenon DEF DescribeOne
    <3>2. coverage \cup {} = coverage
      OBVIOUS
    <3> QED
      BY <3>1, <3>2
  <2> QED
    BY <2>1, <2>2
<1> QED
  BY <1>1, <1>2, <1>3, <1>4

LEMMA FamiliesStayTold ==
    ASSUME CoverageInv, ListsEnd(world), FamiliesTold, [Next]_vars
    PROVE  FamiliesTold'
<1>1. ASSUME NEW told, FamilyTells(told) \/ OthersTell(told)
      PROVE  FamiliesTold'
  BY <1>1 DEF FamiliesTold, Told, FamilyItem, Clean, FamilyTells, OthersTell
<1>2. CASE coverage' = coverage
  BY <1>2 DEF FamiliesTold
<1>3. CASE CollectAws
  <2>1. PICK outcome : CallAws(outcome)
    BY <1>3 DEF CollectAws
  <2>2. /\ AwsGivesUp \/ AwsRecorded \/ AwsDescribing
        /\ Head(awsTodo).op \in AwsOps
    BY <2>1, AwsCallKeepsCoverage, AwsTailIsOrdered DEF CoverageInv, ListsEnd
  <2>3. CASE AwsGivesUp \/ AwsDescribing
    BY <1>2, <2>3 DEF AwsGivesUp, AwsDescribing
  <2>4. CASE Head(awsTodo).op \in Families
    <3>1. PICK told : FamilyTells(told)
      BY <2>1, <2>4, FamilyCalls, FamilyCallTells
    <3> QED
      BY <1>1, <3>1
  <2>5. CASE AwsRecorded /\ Head(awsTodo).op \notin Families
    <3>1. PICK c : c.resource = AwsResource(Head(awsTodo).op) /\ coverage' = coverage \cup {c}
      BY <2>5 DEF AwsRecorded
    <3>2. c.resource \notin Families
      BY <2>5, <3>1 DEF AwsResource, Families
    <3>3. OthersTell({c})
      BY <3>1, <3>2 DEF OthersTell
    <3> QED
      BY <1>1, <3>3
  <2> QED
    BY <2>2, <2>3, <2>4, <2>5
<1>4. CASE CollectKubernetes
  <2>1. CoverageGrows
    BY <1>4, KubernetesKeepsCoverage
  <2> QED
    BY <2>1 DEF CoverageGrows, FamiliesTold, Told
<1>5. CASE Change \/ UNCHANGED vars
  BY <1>2, <1>5 DEF Change, vars
<1> QED
  BY <1>3, <1>4, <1>5 DEF Next

\* The keys of a category in one snapshot.
KeysOf(category, s) == Keys(InventorySets(s)[category])

\* More objects, more keys.
LEMMA KeysGrow ==
    ASSUME NEW s, NEW t, NEW category \in DOMAIN CategoryList \ {"gatewayClasses"},
           LET list == IF category = "secrets" THEN "Secrets" ELSE CategoryList[category]
           IN  s.kubernetes[list] \subseteq t.kubernetes[list]
    PROVE  KeysOf(category, s) \subseteq KeysOf(category, t)
<1>1. CASE category = "apiResources"
  BY <1>1 DEF KeysOf, Keys, InventorySets, CategoryList
<1>2. CASE category = "customResourceDefinitions"
  BY <1>2 DEF KeysOf, Keys, InventorySets, CategoryList
<1>3. CASE category = "namespaces"
  BY <1>3 DEF KeysOf, Keys, InventorySets, CategoryList
<1>4. CASE category = "ingressClasses"
  BY <1>4 DEF KeysOf, Keys, InventorySets, CategoryList
<1>5. CASE category = "storageClasses"
  BY <1>5 DEF KeysOf, Keys, InventorySets, CategoryList
<1>6. CASE category = "csiDrivers"
  BY <1>6 DEF KeysOf, Keys, InventorySets, CategoryList
<1>7. CASE category = "runtimeClasses"
  BY <1>7 DEF KeysOf, Keys, InventorySets, CategoryList
<1>8. CASE category = "nodePlatforms"
  BY <1>8 DEF KeysOf, Keys, InventorySets, CategoryList
<1>9. CASE category = "serviceAccounts"
  BY <1>9 DEF KeysOf, Keys, InventorySets, CategoryList
<1>10. CASE category = "configMaps"
  BY <1>10 DEF KeysOf, Keys, InventorySets, CategoryList
<1>11. CASE category = "secrets"
  BY <1>11 DEF KeysOf, Keys, InventorySets, CategoryList
<1>12. CASE category = "persistentVolumeClaims"
  BY <1>12 DEF KeysOf, Keys, InventorySets, CategoryList
<1> QED
  BY <1>1, <1>2, <1>3, <1>4, <1>5, <1>6, <1>7, <1>8, <1>9, <1>10, <1>11, <1>12 DEF CategoryList

LEMMA ClassKeysGrow ==
    ASSUME NEW s, NEW t,
           \A x \in s.kubernetes.GatewayClasses :
                \E y \in t.kubernetes.GatewayClasses : y.ref.name = x.ref.name
    PROVE  KeysOf("gatewayClasses", s) \subseteq KeysOf("gatewayClasses", t)
<1>1. SUFFICES ASSUME NEW x \in s.kubernetes.GatewayClasses
              PROVE  x.ref.name \in KeysOf("gatewayClasses", t)
  BY DEF KeysOf, Keys, InventorySets
<1>2. PICK y \in t.kubernetes.GatewayClasses : y.ref.name = x.ref.name
  OBVIOUS
<1>3. <<y.ref.name, y.controllerName>> \in InventorySets(t)["gatewayClasses"]
  BY DEF InventorySets
<1> QED
  BY <1>2, <1>3 DEF KeysOf, Keys

\* What a report calls missing has no key in the target.
LEMMA MissingHasNoKey ==
    ASSUME NEW s, NEW t, NEW category
    PROVE  SaidMissing(CompareReport(s, t), category) \cap KeysOf(category, t) = {}
<1>1. \A report, target : 
        /\ report.inventoryDiffs = InventoryDiffs(InventorySets(s), target)
        /\ report.missingReferences = MissingReferences(WorkloadNeeds(s), target)
        => SaidMissing(report, category) \cap Keys(target[category]) = {}
  BY DEF SaidMissing, InventoryDiffs, DiffMaps, MissingReferences
<1>2. /\ CompareReport(s, t).inventoryDiffs = InventoryDiffs(InventorySets(s), InventorySets(t))
      /\ CompareReport(s, t).missingReferences
            = MissingReferences(WorkloadNeeds(s), InventorySets(t))
  BY DEF CompareReport, ReportOf
<1> QED
  BY <1>1, <1>2 DEF KeysOf

\* Every list of the program is told of once in the end.
LEMMA AllIsTold ==
    ASSUME CoverageInv, Done
    PROVE  /\ \A r \in ProgramResources : ToldOnce(coverage, "kubernetes", r)
           /\ \A f \in Families : ToldOnce(coverage, "eks", f)
<1>1. todo = <<>> /\ awsTodo = <<>>
  BY DEF Done, CoverageInv, InOrder
<1>2. KubernetesAhead(todo) = {} /\ AwsAhead(awsTodo) = {}
  BY <1>1 DEF KubernetesAhead, AwsAhead, ToSet
<1>3. \A r \in ProgramResources : ToldOnce(coverage, "kubernetes", r)
  BY <1>2 DEF CoverageInv, KubernetesTold, ListsTold
<1>4. \A op \in AwsOps : ToldOnce(coverage, AwsArea[op], AwsResource(op))
  BY <1>2 DEF CoverageInv, AwsTold
<1>5. \A f \in Families : f \in AwsOps /\ AwsArea[f] = "eks" /\ AwsResource(f) = f
  BY DEF Families, AwsOps, AwsRank, AwsArea, AwsResource
<1> QED
  BY <1>3, <1>4, <1>5

LEMMA WarningsTellGaps ==
    ASSUME NEW s, NEW t, NEW r
    PROVE  /\ ~Warned(CompareReport(s, t), "target", {r}) =>
                    \A area : \A c \in Told(t.coverage, area, r) : Clean(c)
           /\ ~Warned(CompareReport(s, t), "source", {r}) =>
                    \A area : \A c \in Told(s.coverage, area, r) : Clean(c)
<1>1. CompareReport(s, t).coverageWarnings
            = CoverageWarnings("source", s) \cup CoverageWarnings("target", t)
  BY DEF CompareReport, ReportOf
<1>2. ASSUME NEW role, NEW u, NEW area, NEW c \in Told(u.coverage, area, r), ~Clean(c)
      PROVE  \E w \in CoverageWarnings(role, u) : w.role = role /\ w.resource = r
  <2>1. [role |-> role, area |-> c.area, resource |-> c.resource, status |-> c.status]
            \in CoverageWarnings(role, u)
    BY <1>2 DEF CoverageWarnings, Told, Clean
  <2> QED
    BY <1>2, <2>1 DEF Told
<1> QED
  BY <1>1, <1>2 DEF Warned

\* A key that is there throughout is there in each world of the scan.
LEMMA ThroughoutIsThere ==
    ASSUME NEW w \in history, NEW category
    PROVE  Throughout({Keys(x[category]) :
                x \in {InitialSets} \cup {InventorySets(s) : s \in LaterSnapshots}})
              \subseteq KeysOf(category, Ideal(w))
<1>1. InventorySets(Ideal(w)) \in {InitialSets} \cup {InventorySets(s) : s \in LaterSnapshots}
  BY DEF InitialSets, InitialSnapshot, LaterSnapshots
<1> QED
  BY <1>1 DEF Throughout, KeysOf

\* What was read without a gap has the keys of one world.
LEMMA ReadHasKeys ==
    ASSUME NEW served, CoverageInv, PlainInv, ClassesInv(served),
           NEW category \in DOMAIN CategoryList,
           NEW c \in Told(coverage, "kubernetes", CategoryList[category]), Clean(c)
    PROVE  \E w \in history : KeysOf(category, Ideal(w)) \subseteq KeysOf(category, Snapshot)
<1>0. \A w, list : list \in KubernetesLists =>
            Ideal(w).kubernetes[list] = IdealList(w.kubernetes, list)
  BY DEF Ideal
<1>1. CASE category = "apiResources"
  <2>1. PICK w \in history : w.kubernetes.apiResources \subseteq kubernetes["APIResources"]
    BY <1>1 DEF ClassesInv, ResourcesRead, CategoryList
  <2>2. IdealList(w.kubernetes, "APIResources") = w.kubernetes.apiResources
    <3>1. "APIResources" \notin PlainLists
      BY ListNames DEF OtherLists
    <3>2. CallsOf("APIResources") = {}
      BY <3>1 DEF CallsOf, PlainLists
    <3>3. GatewayCallsOf("APIResources") = {}
      BY CallSets DEF GatewayCallsOf, GatewayTypes, ListOf, InCalls
    <3> QED
      BY <3>2, <3>3 DEF IdealList
  <2>3. Ideal(w).kubernetes["APIResources"] \subseteq Snapshot.kubernetes["APIResources"]
    BY <1>0, <2>1, <2>2 DEF KubernetesLists, Snapshot
  <2> QED
    BY <1>1, <2>3, KeysGrow DEF CategoryList
<1>2. CASE category = "gatewayClasses"
  <2>1. PICK w \in history : \E v : ClassesOf(w, v) \subseteq kubernetes["GatewayClasses"]
    BY <1>2 DEF ClassesInv, ClassesRead, CategoryList
  <2>2. Ideal(w).kubernetes["GatewayClasses"] = ClassesOf(w, "v1")
    BY <1>0, ClassesAreNamed DEF KubernetesLists
  <2>3. \A x \in Ideal(w).kubernetes.GatewayClasses :
            \E y \in Snapshot.kubernetes.GatewayClasses : y.ref.name = x.ref.name
    BY <2>1, <2>2, ClassesAreNamed DEF Snapshot
  <2> QED
    BY <1>2, <2>3, ClassKeysGrow
<1>3. CASE category \notin {"apiResources", "gatewayClasses"}
  <2> DEFINE call == CategoryList[category]
  <2>1. call \in SingleCalls /\ (call = "SecretsMetadata" <=> category = "secrets")
    BY <1>3 DEF CategoryList, SingleCalls
  <2>2. /\ call \in ListCalls
        /\ ListOf(call) = IF category = "secrets" THEN "Secrets" ELSE call
        /\ ListOf(call) \in KubernetesLists
    BY <2>1, SingleCallsFillOne, ListNames
  <2>3. PICK w \in history : ListsOf(call, w.kubernetes) \subseteq kubernetes[ListOf(call)]
    BY <2>2 DEF PlainInv, ReadWhole
  <2>4. Ideal(w).kubernetes[ListOf(call)] \subseteq Snapshot.kubernetes[ListOf(call)]
    BY <1>0, <2>1, <2>2, <2>3, IdealOfSingle DEF Snapshot
  <2> QED
    BY <1>3, <2>2, <2>4, KeysGrow
<1> QED
  BY <1>1, <1>2, <1>3

\* What a comparison calls missing in the scanned cluster was not there
\* throughout, or its list has a warning.
LEMMA MissingStands ==
    ASSUME NEW served, CoverageInv, PlainInv, ClassesInv(served), Done
    PROVE  MissingIsWarned(CompareReport(InitialSnapshot, Snapshot),
               {InitialSets} \cup {InventorySets(s) : s \in LaterSnapshots})
<1> DEFINE report == CompareReport(InitialSnapshot, Snapshot)
           sets == {InitialSets} \cup {InventorySets(s) : s \in LaterSnapshots}
<1> SUFFICES ASSUME NEW category \in DOMAIN CategoryList,
                    ~Warned(report, "target", {CategoryList[category]})
             PROVE  SaidMissing(report, category)
                        \cap Throughout({Keys(s[category]) : s \in sets}) = {}
  BY DEF MissingIsWarned
<1>1. CategoryList[category] \in ProgramResources
  <2>1. CategoryList[category] \in SingleCalls \cup {"APIResources", "GatewayClasses"}
    BY DEF CategoryList, SingleCalls
  <2> QED
    BY <2>1, SingleCallsFillOne, ProgramIsOrdered
<1>2. PICK c : Told(coverage, "kubernetes", CategoryList[category]) = {c}
  BY <1>1, AllIsTold DEF ToldOnce
<1>3. Clean(c)
  <2>1. Snapshot.coverage = coverage
    BY DEF Snapshot
  <2> QED
    BY <1>2, <2>1, WarningsTellGaps
<1>4. PICK w \in history : KeysOf(category, Ideal(w)) \subseteq KeysOf(category, Snapshot)
  BY <1>2, <1>3, ReadHasKeys
<1>5. Throughout({Keys(s[category]) : s \in sets}) \subseteq KeysOf(category, Snapshot)
  BY <1>4, ThroughoutIsThere
<1>6. SaidMissing(report, category) \cap KeysOf(category, Snapshot) = {}
  BY MissingHasNoKey
<1> QED
  BY <1>5, <1>6

Needs == {"namespaces", "serviceAccounts", "runtimeClasses", "configMaps", "secrets",
          "persistentVolumeClaims"}

ClaimsOfOne(w) ==
    {<<w.ref.namespace, v.persistentVolumeClaim>> :
        v \in {u \in w.volumes : u.persistentVolumeClaim # ""}}
ClaimsNeeded(workloads) == UNION {ClaimsOfOne(w) : w \in workloads}

LEMMA NeedsGrow ==
    ASSUME NEW a, NEW b, a \subseteq b, NEW category \in Needs
    PROVE  NeedsOf(a)[category] \subseteq NeedsOf(b)[category]
<1>1. CASE category = "namespaces"
  BY <1>1 DEF NeedsOf
<1>2. CASE category = "serviceAccounts"
  BY <1>2 DEF NeedsOf
<1>3. CASE category = "runtimeClasses"
  BY <1>3 DEF NeedsOf
<1>4. CASE category = "configMaps"
  BY <1>4 DEF NeedsOf
<1>5. CASE category = "secrets"
  BY <1>5 DEF NeedsOf
<1>6. CASE category = "persistentVolumeClaims"
  <2>1. \A ws : NeedsOf(ws)["persistentVolumeClaims"] = ClaimsNeeded(ws)
    BY DEF NeedsOf, ClaimsNeeded, ClaimsOfOne
  <2>2. ClaimsNeeded(a) \subseteq ClaimsNeeded(b)
    BY DEF ClaimsNeeded
  <2> QED
    BY <1>6, <2>1, <2>2
<1> QED
  BY <1>1, <1>2, <1>3, <1>4, <1>5, <1>6 DEF Needs

\* Nothing is found in a cluster that is not there yet.
LEMMA NewClusterHasNoKeys ==
    ASSUME NEW category \in Needs
    PROVE  Keys(InventorySets(NewCluster)[category]) = {}
<1>1. \A list \in KubernetesLists : NewCluster.kubernetes[list] = {}
  BY DEF NewCluster, EmptyKubernetes
<1>2. CASE category = "namespaces"
  BY <1>1, <1>2 DEF Keys, InventorySets, KubernetesLists
<1>3. CASE category = "serviceAccounts"
  BY <1>1, <1>3 DEF Keys, InventorySets, KubernetesLists
<1>4. CASE category = "runtimeClasses"
  BY <1>1, <1>4 DEF Keys, InventorySets, KubernetesLists
<1>5. CASE category = "configMaps"
  BY <1>1, <1>5 DEF Keys, InventorySets, KubernetesLists
<1>6. CASE category = "secrets"
  <2>1. NewCluster.kubernetes.Secrets = {}
    BY <1>1 DEF KubernetesLists
  <2>2. InventorySets(NewCluster).secrets = {}
    BY <2>1, Zenon DEF InventorySets
  <2> QED
    BY <1>6, <2>2 DEF Keys
<1>7. CASE category = "persistentVolumeClaims"
  BY <1>1, <1>7 DEF Keys, InventorySets, KubernetesLists
<1> QED
  BY <1>2, <1>3, <1>4, <1>5, <1>6, <1>7 DEF Needs

\* The needs of the scanned workloads are all missing in a new cluster.
LEMMA MissingInNewCluster ==
    /\ DOMAIN CompareReport(Snapshot, NewCluster).missingReferences = Needs
    /\ \A category \in Needs :
            CompareReport(Snapshot, NewCluster).missingReferences[category]
                = NeedsOf(kubernetes["Workloads"])[category]
<1>1. CompareReport(Snapshot, NewCluster).missingReferences
        = MissingReferences(WorkloadNeeds(Snapshot), InventorySets(NewCluster))
  BY DEF CompareReport, ReportOf
<1>2. WorkloadNeeds(Snapshot) = NeedsOf(kubernetes["Workloads"])
  BY DEF WorkloadNeeds, Snapshot
<1>3. DOMAIN NeedsOf(kubernetes["Workloads"]) = Needs
  BY DEF NeedsOf, Needs
<1> QED
  BY <1>1, <1>2, <1>3, NewClusterHasNoKeys DEF MissingReferences

\* What workloads of one kind need throughout is found, or their list has a
\* warning: the list was read at some moment, and the later lists only add to it.
LEMMA NeedsStand ==
    ASSUME CoverageInv, PlainInv, Done
    PROVE  NeedsAreFound(CompareReport(Snapshot, NewCluster))
<1> DEFINE report == CompareReport(Snapshot, NewCluster)
           found == kubernetes["Workloads"]
<1> SUFFICES NeedsAreFound(report)
  OBVIOUS
<1>0. /\ DOMAIN report.missingReferences = Needs
      /\ \A category \in Needs :
            report.missingReferences[category] = NeedsOf(found)[category]
  BY MissingInNewCluster
<1> HIDE DEF report, found
<1> SUFFICES ASSUME NEW kind \in ToSet(WorkloadCalls), ~Warned(report, "source", {kind})
             PROVE  \A category \in Needs :
                        Throughout({n[category] :
                                n \in {NeedsOf(ListsOf(kind, w.kubernetes)) : w \in history}})
                            \subseteq NeedsOf(found)[category]
  BY <1>0 DEF NeedsAreFound
<1>1. kind \in ListCalls /\ kind \in ProgramResources /\ ListOf(kind) = "Workloads"
  <2>1. kind \in ListCalls
    BY DEF ListCalls
  <2>2. ListOf(kind) = "Workloads"
    BY CallSets DEF ListOf, InCalls
  <2> QED
    BY <2>1, <2>2, ProgramIsOrdered
<1>2. PICK c : Told(coverage, "kubernetes", kind) = {c}
  BY <1>1, AllIsTold DEF ToldOnce
<1>3. Clean(c)
  <2>1. Snapshot.coverage = coverage
    BY DEF Snapshot
  <2> QED
    BY <1>2, <2>1, WarningsTellGaps DEF report
<1>4. PICK w \in history : ListsOf(kind, w.kubernetes) \subseteq found
  BY <1>1, <1>2, <1>3 DEF PlainInv, ReadWhole, found
<1> SUFFICES ASSUME NEW category \in Needs
             PROVE  Throughout({n[category] :
                            n \in {NeedsOf(ListsOf(kind, v.kubernetes)) : v \in history}})
                        \subseteq NeedsOf(found)[category]
  OBVIOUS
<1>5. NeedsOf(ListsOf(kind, w.kubernetes))[category] \subseteq NeedsOf(found)[category]
  BY <1>4, NeedsGrow
<1>6. NeedsOf(ListsOf(kind, w.kubernetes))[category]
        \in {n[category] : n \in {NeedsOf(ListsOf(kind, v.kubernetes)) : v \in history}}
  OBVIOUS
<1> QED
  BY <1>5, <1>6 DEF Throughout

(***************************************************************************)
(* Two snapshots without a gap that read the same conclude the same, but   *)
(* for the gateway classes, which two versions may name.                   *)
(***************************************************************************)
IsWhole(s, area, r) ==
    Items(s, area, r) # {} /\ \A c \in Items(s, area, r) : c.status = "complete"

ConcludedFrom == {"IngressClasses", "StorageClasses", "PersistentVolumes",
                  "PersistentVolumeClaims", "CustomResourceDefinitions", "Nodes"}
ConcludedOf == {"Addons", "Nodegroups", "Insights"}

NoGaps(s) == /\ \A r \in ConcludedFrom : IsWhole(s, "kubernetes", r)
             /\ \A f \in ConcludedOf : IsWhole(s, "eks", f)

SameLists(s, t) == /\ \A r \in ConcludedFrom : s.kubernetes[r] = t.kubernetes[r]
                   /\ \A f \in ConcludedOf : s.eks[f] = t.eks[f]

LEMMA WholeIsComplete ==
    ASSUME NEW s, NoGaps(s)
    PROVE  /\ \A resources \in SUBSET ConcludedFrom :
                    KubernetesCoverage(s, resources) = "complete"
           /\ \A f \in ConcludedOf : CoverageArea(s, "eks", f) = "complete"
           /\ CombinedCoverage(s, {<<"eks", "Nodegroups">>, <<"kubernetes", "Nodes">>})
                    = "complete"
<1>1. \A resources \in SUBSET ConcludedFrom : KubernetesCoverage(s, resources) = "complete"
  BY DEF NoGaps, IsWhole, KubernetesCoverage, CombinedCoverage
<1>2. \A f \in ConcludedOf : CoverageArea(s, "eks", f) = "complete"
  BY DEF NoGaps, IsWhole, CoverageArea
<1>3. IsWhole(s, "eks", "Nodegroups") /\ IsWhole(s, "kubernetes", "Nodes")
  BY DEF NoGaps, ConcludedFrom, ConcludedOf
<1> QED
  BY <1>1, <1>2, <1>3 DEF CombinedCoverage, IsWhole

LEMMA SameClusterConclusions ==
    ASSUME NEW s, NEW t, NoGaps(s), NoGaps(t), SameLists(s, t)
    PROVE  /\ IngressCapabilities(s) = IngressCapabilities(t)
           /\ ExtensionCapabilities(s) = ExtensionCapabilities(t)
           /\ StorageCapabilities(s) = StorageCapabilities(t)
<1>1. \A resources \in SUBSET ConcludedFrom :
            KubernetesCoverage(s, resources) = KubernetesCoverage(t, resources)
  BY WholeIsComplete
<1>2. /\ s.kubernetes.IngressClasses = t.kubernetes.IngressClasses
      /\ s.kubernetes.StorageClasses = t.kubernetes.StorageClasses
      /\ s.kubernetes.PersistentVolumes = t.kubernetes.PersistentVolumes
      /\ s.kubernetes.PersistentVolumeClaims = t.kubernetes.PersistentVolumeClaims
      /\ s.kubernetes.CustomResourceDefinitions = t.kubernetes.CustomResourceDefinitions
  BY DEF SameLists, ConcludedFrom
<1>3. IngressCapabilities(s) = IngressCapabilities(t)
  <2>1. KubernetesCoverage(s, {"IngressClasses"}) = KubernetesCoverage(t, {"IngressClasses"})
    BY <1>1 DEF ConcludedFrom
  <2> QED
    BY <1>2, <2>1 DEF IngressCapabilities
<1>4. ExtensionCapabilities(s) = ExtensionCapabilities(t)
  <2>1. KubernetesCoverage(s, {"CustomResourceDefinitions"})
            = KubernetesCoverage(t, {"CustomResourceDefinitions"})
    BY <1>1 DEF ConcludedFrom
  <2> QED
    BY <1>2, <2>1 DEF ExtensionCapabilities
<1>5. StorageCapabilities(s) = StorageCapabilities(t)
  <2> DEFINE storage == {"StorageClasses", "PersistentVolumes", "PersistentVolumeClaims"}
  <2>1. /\ KubernetesCoverage(s, {"StorageClasses"}) = KubernetesCoverage(t, {"StorageClasses"})
        /\ KubernetesCoverage(s, storage) = KubernetesCoverage(t, storage)
    BY <1>1 DEF ConcludedFrom
  <2>2. \A class : BoundVolumes(s, class) = BoundVolumes(t, class)
    BY <1>2 DEF BoundVolumes
  <2>3. \A x : RwxCapability(s, x) = RwxCapability(t, x)
    <3> DEFINE conclude(class, bound, covered) ==
                    Capability("storage.rwx", class.ref.name, class.provisioner,
                        IF bound = {} THEN "unknown" ELSE "supported",
                        IF bound = {} THEN "none" ELSE "observed", covered,
                        {class.ref} \cup {b[1].ref : b \in bound} \cup {b[2].ref : b \in bound})
    <3>1. \A u, x : RwxCapability(u, x)
                        = conclude(x, BoundVolumes(u, x.ref.name), KubernetesCoverage(u, storage))
      BY DEF RwxCapability
    <3> HIDE DEF conclude
    <3> QED
      BY <2>1, <2>2, <3>1
  <2>4. \A x : ExpansionCapability(s, x) = ExpansionCapability(t, x)
    <3> DEFINE assess(x) == CASE x.allowVolumeExpansion = ""      -> "unknown"
                              [] x.allowVolumeExpansion = "false" -> "unsupported"
                              [] x.allowVolumeExpansion = "true"  -> "supported"
    <3>1. \A u, x : ExpansionCapability(u, x) =
              Capability("storage.expansion", x.ref.name, x.provisioner, assess(x), "declared",
                         KubernetesCoverage(u, {"StorageClasses"}), {x.ref})
      BY DEF ExpansionCapability
    <3> HIDE DEF assess
    <3> QED
      BY <2>1, <3>1
  <2> QED
    BY <1>2, <2>1, <2>3, <2>4 DEF StorageCapabilities
<1> QED
  BY <1>3, <1>4, <1>5

LEMMA SameAccountConclusions ==
    ASSUME NEW s, NEW t, NoGaps(s), NoGaps(t), SameLists(s, t)
    PROVE  /\ InsightCapabilities(s) = InsightCapabilities(t)
           /\ AddonCapabilities(s) = AddonCapabilities(t)
           /\ NodegroupCapabilities(s) = NodegroupCapabilities(t)
           /\ UnmanagedNodeGroups(s) = UnmanagedNodeGroups(t)
<1>1. /\ CoverageArea(s, "eks", "Addons") = CoverageArea(t, "eks", "Addons")
      /\ CoverageArea(s, "eks", "Insights") = CoverageArea(t, "eks", "Insights")
      /\ CombinedCoverage(s, {<<"eks", "Nodegroups">>, <<"kubernetes", "Nodes">>})
            = CombinedCoverage(t, {<<"eks", "Nodegroups">>, <<"kubernetes", "Nodes">>})
  BY WholeIsComplete DEF ConcludedOf
<1>2. /\ s.eks.Addons = t.eks.Addons /\ s.eks.Insights = t.eks.Insights
      /\ s.eks.Nodegroups = t.eks.Nodegroups /\ s.kubernetes.Nodes = t.kubernetes.Nodes
  BY DEF SameLists, ConcludedFrom, ConcludedOf
<1>3. InsightCapabilities(s) = InsightCapabilities(t)
  <2>1. \A x : EKSInsightCapability(s, x) = EKSInsightCapability(t, x)
    BY <1>1 DEF EKSInsightCapability
  <2> QED
    BY <1>1, <1>2, <2>1 DEF InsightCapabilities
<1>4. AddonCapabilities(s) = AddonCapabilities(t)
  <2>1. \A u : AddonCapabilities(u) = {AddonCapability(u, a) : a \in u.eks.Addons}
    BY DEF AddonCapabilities, AddonCapability
  <2>2. \A a : CompatibleVersions(s, a) = CompatibleVersions(t, a)
    BY <1>2 DEF CompatibleVersions
  <2>3. \A a : AddonCapability(s, a) = AddonCapability(t, a)
    <3> DEFINE conclude(a, compatible, covered) ==
                    LET unhealthy == a.status \notin {"", "ACTIVE"} \/ a.issues # {}
                        unlisted == compatible # {} /\ a.version \notin compatible
                    IN  Capability("eks.addon", a.name, a.version,
                            CASE unhealthy -> "unsupported"
                              [] ~unhealthy /\ unlisted -> "unknown"
                              [] OTHER -> "supported",
                            IF compatible # {} THEN "aws-reported" ELSE "observed",
                            covered, {RefTo("", "Addon", "", a.name)})
    <3>1. \A u, a : AddonCapability(u, a)
                        = conclude(a, CompatibleVersions(u, a), CoverageArea(u, "eks", "Addons"))
      BY DEF AddonCapability
    <3> HIDE DEF conclude
    <3> QED
      BY <1>1, <2>2, <3>1
  <2> QED
    BY <1>2, <2>1, <2>3
<1>5. NodegroupCapabilities(s) = NodegroupCapabilities(t)
  <2>1. \A u : NodegroupCapabilities(u) = {NodegroupCapability(u, g) : g \in u.eks.Nodegroups}
    BY DEF NodegroupCapabilities, NodegroupCapability
  <2>2. \A name : NodesForNodegroup(s, name) = NodesForNodegroup(t, name)
    BY <1>2 DEF NodesForNodegroup
  <2>3. \A g : NodegroupCapability(s, g) = NodegroupCapability(t, g)
    <3> DEFINE lists == {<<"eks", "Nodegroups">>, <<"kubernetes", "Nodes">>}
               conclude(g, nodes, covered) ==
                    Capability("eks.nodegroup", g.name, g.releaseVersion, NodegroupAssessment(g, nodes),
                        IF nodes = {} THEN "declared" ELSE "observed", covered,
                        {RefTo("", "Nodegroup", "", g.name)} \cup {n.ref : n \in nodes})
    <3>1. \A u, g : NodegroupCapability(u, g)
                        = conclude(g, NodesForNodegroup(u, g.name), CombinedCoverage(u, lists))
      BY DEF NodegroupCapability
    <3> HIDE DEF conclude
    <3> QED
      BY <1>1, <2>2, <3>1
  <2> QED
    BY <1>2, <2>1, <2>3
<1>6. UnmanagedNodeGroups(s) = UnmanagedNodeGroups(t)
  <2>1. \A n : UnmanagedNodeScope(s, n) = UnmanagedNodeScope(t, n)
    BY <1>2, Zenon DEF UnmanagedNodeScope
  <2> QED
    BY <1>2, <2>1 DEF UnmanagedNodeGroups
<1> QED
  BY <1>3, <1>4, <1>5, <1>6

\* Only one rule concludes about gateways.
LEMMA RuleKeys ==
    ASSUME NEW s, NEW c
    PROVE  /\ c \in GatewayCapabilities(s) => c.key = "networking.gateway"
           /\ c \in Capabilities(s) \ GatewayCapabilities(s) => c.key # "networking.gateway"
<1> DEFINE Has(key) == \E scope, implementation, assessment, basis, covered, evidence :
                c = Capability(key, scope, implementation, assessment, basis, covered, evidence)
<1>1. \A key : Has(key) => c.key = key
  BY DEF Capability
<1>2. c \in IngressCapabilities(s) => Has("networking.ingress")
  BY Zenon DEF IngressCapabilities
<1>3. c \in GatewayCapabilities(s) => Has("networking.gateway")
  BY Zenon DEF GatewayCapabilities
<1>4. c \in StorageCapabilities(s) => Has("storage.rwx") \/ Has("storage.expansion")
  <2>1. \A x : c = RwxCapability(s, x) => Has("storage.rwx")
    BY Zenon DEF RwxCapability
  <2>2. \A x : c = ExpansionCapability(s, x) => Has("storage.expansion")
    BY Zenon DEF ExpansionCapability
  <2>3. c \in StorageCapabilities(s) =>
            \/ Has("storage.rwx")
            \/ \E x : c \in {RwxCapability(s, x), ExpansionCapability(s, x)}
    BY Zenon DEF StorageCapabilities
  <2> HIDE DEF Has
  <2> QED
    BY <2>1, <2>2, <2>3
<1>5. c \in ExtensionCapabilities(s) => Has("extensions.api")
  BY Zenon DEF ExtensionCapabilities
<1>6. c \in InsightCapabilities(s) => Has("eks.insight")
  BY Zenon DEF InsightCapabilities, EKSInsightCapability
<1>7. c \in AddonCapabilities(s) => Has("eks.addon")
  BY Zenon DEF AddonCapabilities
<1>8. c \in NodegroupCapabilities(s) \cup UnmanagedNodeGroups(s) => Has("eks.nodegroup")
  BY Zenon DEF NodegroupCapabilities, UnmanagedNodeGroups
<1> HIDE DEF Has
<1> QED
  BY <1>1, <1>2, <1>3, <1>4, <1>5, <1>6, <1>7, <1>8 DEF Capabilities

\* The gateway classes of one have those of the other among them, by name.
LEMMA GatewaysRemain ==
    ASSUME NEW s, NEW t,
           \A x \in s.kubernetes.GatewayClasses :
                \E y \in t.kubernetes.GatewayClasses : y.ref.name = x.ref.name,
           NEW c \in GatewayCapabilities(s), c.assessment = "supported"
    PROVE  /\ \E d \in GatewayCapabilities(t) : CapabilityKey(d) = CapabilityKey(c)
           /\ \A d \in GatewayCapabilities(t) : d.assessment = "supported"
<1> DEFINE of(u, x) == Capability("networking.gateway", x.ref.name, x.controllerName, "supported",
                                  "declared", KubernetesCoverage(u, {"GatewayClasses"}), {x.ref})
           none(u) == Capability("networking.gateway", "cluster", "", "unknown", "none",
                                 KubernetesCoverage(u, {"GatewayClasses", "APIResources"}), {})
<1>1. \A u : GatewayCapabilities(u) = IF u.kubernetes.GatewayClasses = {} THEN {none(u)}
                                      ELSE {of(u, x) : x \in u.kubernetes.GatewayClasses}
  BY DEF GatewayCapabilities
<1>2. \A u, x : /\ CapabilityKey(of(u, x)) = <<"networking.gateway", x.ref.name>>
                /\ of(u, x).assessment = "supported" /\ none(u).assessment = "unknown"
  BY DEF Capability, CapabilityKey
<1> HIDE DEF of, none
<1>3. s.kubernetes.GatewayClasses # {}
  BY <1>1, <1>2
<1>4. PICK x \in s.kubernetes.GatewayClasses : c = of(s, x)
  BY <1>1, <1>3
<1>5. PICK y \in t.kubernetes.GatewayClasses : y.ref.name = x.ref.name
  OBVIOUS
<1>6. of(t, y) \in GatewayCapabilities(t)
  BY <1>1, <1>5
<1> QED
  BY <1>1, <1>2, <1>4, <1>5, <1>6

LEMMA MapChooses ==
    ASSUME NEW capabilities, NEW key
    PROVE  /\ key \in DOMAIN CapabilityMap(capabilities)
                <=> {d \in capabilities : CapabilityKey(d) = key} # {}
           /\ key \in DOMAIN CapabilityMap(capabilities) =>
                /\ CapabilityMap(capabilities)[key]
                        = CHOOSE c \in {d \in capabilities : CapabilityKey(d) = key} : TRUE
                /\ CapabilityMap(capabilities)[key] \in capabilities
                /\ CapabilityKey(CapabilityMap(capabilities)[key]) = key
BY DEF CapabilityMap

LEMMA NothingIsLost ==
    ASSUME NEW s, NEW t, NoGaps(s), NoGaps(t), SameLists(s, t),
           \A x \in s.kubernetes.GatewayClasses :
                \E y \in t.kubernetes.GatewayClasses : y.ref.name = x.ref.name
    PROVE  CapabilityFindings(CapabilityMap(Capabilities(s)), CapabilityMap(Capabilities(t))) = {}
<1> DEFINE src == CapabilityMap(Capabilities(s))
           dst == CapabilityMap(Capabilities(t))
           with(u, key) == {d \in Capabilities(u) : CapabilityKey(d) = key}
<1>1. Capabilities(s) \ GatewayCapabilities(s) = Capabilities(t) \ GatewayCapabilities(t)
  <2>1. /\ \A c \in Capabilities(s) \ GatewayCapabilities(s) : c \in Capabilities(t)
        /\ \A c \in Capabilities(t) \ GatewayCapabilities(t) : c \in Capabilities(s)
    BY SameClusterConclusions, SameAccountConclusions DEF Capabilities
  <2> QED
    BY <2>1, RuleKeys
<1>2. ASSUME NEW key \in DOMAIN src, src[key].assessment = "supported"
      PROVE  key \in DOMAIN dst /\ dst[key].assessment = "supported"
  <2>1. /\ src[key] \in Capabilities(s) /\ CapabilityKey(src[key]) = key
        /\ src[key] = CHOOSE c \in with(s, key) : TRUE
    BY MapChooses
  <2>2. /\ key \in DOMAIN dst <=> with(t, key) # {}
        /\ key \in DOMAIN dst => /\ dst[key] = CHOOSE c \in with(t, key) : TRUE
                                 /\ dst[key] \in Capabilities(t)
                                 /\ CapabilityKey(dst[key]) = key
    BY MapChooses
  <2> HIDE DEF src, dst
  <2>3. CASE src[key] \in GatewayCapabilities(s)
    <3>1. PICK d \in GatewayCapabilities(t) : CapabilityKey(d) = key
      BY <1>2, <2>1, <2>3, GatewaysRemain
    <3>2. key \in DOMAIN dst
      BY <2>2, <3>1 DEF Capabilities
    <3>3. dst[key].key = d.key
      BY <2>2, <3>1, <3>2 DEF CapabilityKey
    <3>4. dst[key] \in GatewayCapabilities(t)
      BY <2>2, <3>1, <3>2, <3>3, RuleKeys
    <3> QED
      BY <1>2, <2>3, <3>2, <3>4, GatewaysRemain
  <2>4. CASE src[key] \notin GatewayCapabilities(s)
    <3>1. src[key].key # "networking.gateway"
      BY <2>1, <2>4, RuleKeys
    <3>2. \A u : \A d \in with(u, key) : d.key # "networking.gateway"
      BY <2>1, <3>1 DEF CapabilityKey
    <3>3. with(s, key) = with(t, key)
      BY <1>1, <3>2, RuleKeys
    <3> QED
      BY <1>2, <2>1, <2>2, <3>3
  <2> QED
    BY <2>3, <2>4
<1> HIDE DEF src, dst
<1>3. CapabilityFindings(src, dst) = {}
  BY <1>2 DEF CapabilityFindings
<1> QED
  BY <1>3 DEF src, dst

LEMMA InitialHasNoGaps == NoGaps(InitialSnapshot)
<1>1. ConcludedFrom \subseteq ListCalls
  BY SingleCallsFillOne DEF ConcludedFrom, SingleCalls
<1>2. ConcludedOf \subseteq Families
  BY DEF ConcludedOf, Families
<1>3. \A area, r : Complete(area, r, 1).area = area /\ Complete(area, r, 1).resource = r
                    /\ Complete(area, r, 1).status = "complete"
  BY DEF Complete, CoverageItem
<1>4. InitialSnapshot.coverage =
        {Complete("kubernetes", r, 1) : r \in ListCalls \cup DOMAIN GatewayTypes \cup {"APIResources"}}
        \cup {Complete("eks", f, 1) : f \in Families}
  BY DEF InitialSnapshot, Ideal
<1>5. \A c \in InitialSnapshot.coverage : c.status = "complete"
  BY <1>3, <1>4
<1>6. \A r \in ConcludedFrom : Complete("kubernetes", r, 1) \in Items(InitialSnapshot, "kubernetes", r)
  BY <1>1, <1>3, <1>4 DEF Items
<1>7. \A f \in ConcludedOf : Complete("eks", f, 1) \in Items(InitialSnapshot, "eks", f)
  BY <1>2, <1>3, <1>4 DEF Items
<1> QED
  BY <1>5, <1>6, <1>7 DEF NoGaps, IsWhole, Items

LEMMA CleanHasNoGaps ==
    ASSUME CoverageInv, PlainInv, FamiliesTold, Done, \A c \in coverage : Clean(c)
    PROVE  NoGaps(Snapshot)
<1>1. \A r \in ConcludedFrom : r \in ListCalls /\ r \in ProgramResources
  BY SingleCallsFillOne, ProgramIsOrdered DEF ConcludedFrom, SingleCalls
<1>2. \A f \in ConcludedOf : f \in Families
  BY DEF ConcludedOf, Families
<1>3. \A r \in ConcludedFrom : IsWhole(Snapshot, "kubernetes", r)
  <2> TAKE r \in ConcludedFrom
  <2>1. PICK c : Told(coverage, "kubernetes", r) = {c} /\ c \in coverage
    BY <1>1, AllIsTold DEF ToldOnce
  <2>2. c.status = "complete"
    BY <1>1, <2>1 DEF PlainInv
  <2> QED
    BY <2>1, <2>2, ItemsAreTold DEF IsWhole
<1>4. \A f \in ConcludedOf : IsWhole(Snapshot, "eks", f)
  <2> TAKE f \in ConcludedOf
  <2>1. PICK c : Told(coverage, "eks", f) = {c} /\ c \in coverage
    BY <1>2, AllIsTold DEF ToldOnce
  <2>2. c.status = "complete"
    BY <1>2, <2>1 DEF FamiliesTold
  <2> QED
    BY <2>1, <2>2, ItemsAreTold DEF IsWhole
<1> QED
  BY <1>3, <1>4 DEF NoGaps

LEMMA WholeIsInitial ==
    ASSUME CoverageInv, PlainInv, FamiliesInv, Done, history = {InitialWorld}, NoGaps(Snapshot)
    PROVE  SameLists(InitialSnapshot, Snapshot)
<1>1. ASSUME NEW r \in ConcludedFrom
      PROVE  Snapshot.kubernetes[r] = InitialSnapshot.kubernetes[r]
  <2>1. r \in SingleCalls /\ r # "SecretsMetadata"
    BY DEF ConcludedFrom, SingleCalls
  <2>2. ListOf(r) = r
    BY <2>1, SingleCallsFillOne
  <2>3. PICK c \in Told(coverage, "kubernetes", r) : Clean(c)
    BY ItemsAreTold DEF NoGaps, IsWhole, Clean
  <2>4. kubernetes[r] = InitialSnapshot.kubernetes[r]
    BY <2>1, <2>2, <2>3, CompleteIsInitial
  <2> QED
    BY <2>4 DEF Snapshot
<1>2. ASSUME NEW f \in ConcludedOf
      PROVE  Snapshot.eks[f] = InitialSnapshot.eks[f]
  <2>1. ~Incomplete("eks", f)
    BY DEF NoGaps, IsWhole, Incomplete
  <2> QED
    BY <2>1, ReadFamilyIsInitial DEF ConcludedOf
<1> QED
  BY <1>1, <1>2 DEF SameLists

\* Without a warning the gateway classes of the cluster are all there, by name.
LEMMA CleanHasClasses ==
    ASSUME NEW served, CoverageInv, ClassesInv(served), Done, history = {InitialWorld},
           \A c \in coverage : Clean(c)
    PROVE  \A x \in InitialSnapshot.kubernetes.GatewayClasses :
                \E y \in Snapshot.kubernetes.GatewayClasses : y.ref.name = x.ref.name
<1>1. PICK c : Told(coverage, "kubernetes", "GatewayClasses") = {c} /\ c \in coverage
  BY ProgramIsOrdered, AllIsTold DEF ToldOnce
<1>2. ClassesRead
  BY <1>1 DEF ClassesInv
<1>3. PICK v : ClassesOf(InitialWorld, v) \subseteq kubernetes["GatewayClasses"]
  BY <1>2 DEF ClassesRead
<1>4. InitialSnapshot.kubernetes["GatewayClasses"] = ClassesOf(InitialWorld, "v1")
  <2>1. "GatewayClasses" \in KubernetesLists
    BY DEF KubernetesLists
  <2> QED
    BY <2>1, ClassesAreNamed DEF InitialSnapshot, Ideal
<1> QED
  BY <1>3, <1>4, ClassesAreNamed DEF Snapshot

\* The findings about capabilities are those of the rule.
LEMMA LossIsOfCapabilities ==
    ASSUME NEW s, NEW t, NEW f \in CompareReport(s, t).findings, f.category = "capability"
    PROVE  f \in CapabilityFindings(CapabilityMap(Capabilities(s)), CapabilityMap(Capabilities(t)))
<1>1. \A severity, category, key, names :
            Finding(severity, category, key, names).category = category
  BY DEF Finding
<1>2. \A g \in CompareVersions(s, t) : g.category = "version"
  <2>1. \A g \in CompareVersions(s, t) : \E severity, names :
            g = Finding(severity, "version", "kubernetes.version", names)
    BY Zenon DEF CompareVersions
  <2> QED
    BY <1>1, <2>1
<1>3. \A diffs : \A g \in InventoryFindings(diffs) : g.category = "inventory"
  <2>1. \A diffs : \A g \in InventoryFindings(diffs) : \E severity, key, names :
            g = Finding(severity, "inventory", key, names)
    BY Zenon DEF InventoryFindings, FindingIf
  <2> QED
    BY <1>1, <2>1
<1>4. \A missing : \A g \in WorkloadFindings(missing) : g.category = "workload"
  <2>1. \A missing : \A g \in WorkloadFindings(missing) : \E severity, key, names :
            g = Finding(severity, "workload", key, names)
    BY Zenon DEF WorkloadFindings, FindingIf
  <2> QED
    BY <1>1, <2>1
<1>5. ASSUME NEW warnings, NEW g \in {Finding("info", "coverage", w, {w}) : w \in warnings}
      PROVE  g.category = "coverage"
  <2>1. PICK w \in warnings : g = Finding("info", "coverage", w, {w})
    OBVIOUS
  <2> QED
    BY <1>1, <2>1
<1> DEFINE diffs == InventoryDiffs(InventorySets(s), InventorySets(t))
           missing == MissingReferences(WorkloadNeeds(s), InventorySets(t))
           warnings == CoverageWarnings("source", s) \cup CoverageWarnings("target", t)
<1>6. CompareReport(s, t).findings =
            CompareVersions(s, t)
            \cup CapabilityFindings(CapabilityMap(Capabilities(s)), CapabilityMap(Capabilities(t)))
            \cup InventoryFindings(diffs) \cup WorkloadFindings(missing)
            \cup {Finding("info", "coverage", w, {w}) : w \in warnings}
  BY DEF CompareReport, ReportOf
<1> HIDE DEF diffs, missing, warnings
<1> QED
  BY <1>2, <1>3, <1>4, <1>5, <1>6

LEMMA LossStands ==
    ASSUME NEW served, CoverageInv, PlainInv, FamiliesInv, FamiliesTold, ClassesInv(served), Done
    PROVE  LossIsWarned(CompareReport(InitialSnapshot, Snapshot))
<1> DEFINE report == CompareReport(InitialSnapshot, Snapshot)
<1> SUFFICES ASSUME history = {InitialWorld},
                    \A w \in report.coverageWarnings : w.role # "target",
                    NEW f \in report.findings, f.category = "capability"
             PROVE  FALSE
  BY DEF LossIsWarned
<1>1. \A c \in coverage : Clean(c)
  <2> TAKE c \in coverage
  <2>1. ~Warned(report, "target", {c.resource})
    BY DEF Warned
  <2>2. c \in Told(Snapshot.coverage, c.area, c.resource)
    BY DEF Told, Snapshot
  <2> QED
    BY <2>1, <2>2, WarningsTellGaps
<1>2. NoGaps(Snapshot) /\ NoGaps(InitialSnapshot)
  BY <1>1, CleanHasNoGaps, InitialHasNoGaps
<1>3. SameLists(InitialSnapshot, Snapshot)
  BY <1>2, WholeIsInitial
<1>4. \A x \in InitialSnapshot.kubernetes.GatewayClasses :
            \E y \in Snapshot.kubernetes.GatewayClasses : y.ref.name = x.ref.name
  BY <1>1, CleanHasClasses
<1>5. f \in CapabilityFindings(CapabilityMap(Capabilities(InitialSnapshot)),
                               CapabilityMap(Capabilities(Snapshot)))
  BY LossIsOfCapabilities
<1> QED
  BY <1>2, <1>3, <1>4, <1>5, NothingIsLost

\* Against a cluster that the scan read, and with a cluster that is not there
\* yet: a key that was there throughout is only called missing in the scanned
\* cluster when its list has a warning, a capability of an unchanged cluster is
\* only called lost with one, and what workloads of one kind need throughout is
\* found or that kind's list has one, however the other kinds change
\* (compare.go: CoverageWarnings, workloadNeeds, diffMaps).  The volumes and the
\* gateway classes are as for the conclusions.
THEOREM ComparisonAlwaysWarranted ==
    ASSUME NEW CONSTANT worlds, NEW CONSTANT later, NEW CONSTANT served,
           AreReadable(worlds, later, served)
    PROVE  Spec => []ComparisonIsWarranted
<1> DEFINE Inv == ReadInv(later, served) /\ FamiliesTold
<1>1. Init => Inv
  <2>1. Init => FamiliesTold
    BY DEF Init, FamiliesTold, Told
  <2> QED
    BY <2>1, ReadStarts
<1>2. Inv /\ world \in worlds /\ history \subseteq worlds /\ [Next]_vars => Inv'
  <2>1. ReadInv(later, served) => CoverageInv
    BY DEF ReadInv
  <2>2. world \in worlds => ListsEnd(world)
    BY DEF AreReadable
  <2> QED
    BY <2>1, <2>2, ReadIsKept, FamiliesStayTold
<1>3. Inv /\ history \subseteq worlds => ComparisonIsWarranted
  <2> SUFFICES ASSUME Inv, history \subseteq worlds, Done
               PROVE  ComparisonIsWarranted
    BY DEF ComparisonIsWarranted
  <2>1. CoverageInv /\ PlainInv /\ FamiliesInv /\ FamiliesTold /\ ClassesInv(served)
    BY DEF ReadInv
  <2>2. MissingIsWarned(CompareReport(InitialSnapshot, Snapshot),
                        {InitialSets} \cup {InventorySets(s) : s \in LaterSnapshots})
    BY <2>1, MissingStands
  <2>3. LossIsWarned(CompareReport(InitialSnapshot, Snapshot))
    BY <2>1, LossStands
  <2>4. NeedsAreFound(CompareReport(Snapshot, NewCluster))
    BY <2>1, NeedsStand
  <2> QED
    BY <2>2, <2>3, <2>4, Zenon DEF ComparisonIsWarranted
<1>4. Spec => [](world \in worlds) /\ [](history \subseteq worlds)
  BY WorldStaysAmong, HistoryStaysAmong DEF AreReadable
<1> QED
  BY <1>1, <1>2, <1>3, <1>4, PTL DEF Spec

(***************************************************************************)
(* The graph of any snapshot.                                              *)
(***************************************************************************)
\* The nodes that the lookup tables lead to.
TableIDs(ids) == {p[2] : p \in ids.uids \cup ids.names}

LEMMA LookupFinds ==
    ASSUME NEW pairs, NEW key
    PROVE  Lookup(pairs, key) \in {NoID} \cup {p[2] : p \in pairs}
  BY DEF Lookup

LEMMA FindObjectFinds ==
    ASSUME NEW ids, NEW ref
    PROVE  FindObjectID(ids, ref) \in {NoID} \cup TableIDs(ids)
<1>1. \A key : Lookup(ids.uids, key) \in {NoID} \cup TableIDs(ids)
  BY LookupFinds DEF TableIDs
<1>2. \A key : Lookup(ids.names, key) \in {NoID} \cup TableIDs(ids)
  BY LookupFinds DEF TableIDs
<1> QED
  BY <1>1, <1>2 DEF FindObjectID

LEMMA NameLookupFinds ==
    ASSUME NEW ids, NEW key
    PROVE  Lookup(ids.names, key) \in {NoID} \cup TableIDs(ids)
  BY LookupFinds DEF TableIDs

NodeIDs(nodes) == {n.id : n \in nodes}

\* An edge of a known kind between two of `ids`.
EdgeAmong(e, ids) == e.kind \in EdgeKinds /\ e.source \in ids /\ e.target \in ids

\* A placeholder or an EKS object is in the cluster or in a namespace.
PlacedIn(s, n) ==
    \/ n.parent = ClusterID(s)
    \/ n.id[3] # "" /\ n.parent = NodeID("kubernetes", "namespace", "", <<n.id[3]>>)

\* A drawing whose edges are between known nodes and its own.
Sound(s, d, known) ==
    /\ \A e \in d.edges : EdgeAmong(e, known \cup NodeIDs(d.nodes))
    /\ \A n \in d.nodes : PlacedIn(s, n)

LEMMA EdgeEnds ==
    ASSUME NEW ids, NEW kind \in EdgeKinds, NEW source \in {NoID} \cup ids,
           NEW target \in {NoID} \cup ids, NEW provider, NEW relation,
           NEW e \in Edge(kind, source, target, provider, relation)
    PROVE  EdgeAmong(e, ids)
  BY DEF Edge, EdgeAmong

LEMMA PlaceholderIsPlaced ==
    ASSUME NEW s, NEW provider, NEW kind, NEW identity, NEW namespace, NEW name
    PROVE  PlacedIn(s, Placeholder(s, provider, kind, identity, namespace, name))
  BY DEF PlacedIn, Placeholder, GraphNode, NamespaceID, PseudoNodeID, NodeID

LEMMA DrawAllIsSound ==
    ASSUME NEW s, NEW known, NEW drawings, \A d \in drawings : Sound(s, d, known)
    PROVE  Sound(s, DrawAll(drawings), known)
  BY DEF Sound, DrawAll, Drawn, EdgeAmong, NodeIDs

LEMMA ResolveFinds ==
    ASSUME NEW s, NEW ids, NEW ref, NEW namespace
    PROVE  LET r == Resolve(s, ids, ref, namespace)
           IN  /\ r.id \in TableIDs(ids) \cup NodeIDs(r.nodes)
               /\ \A n \in r.nodes : PlacedIn(s, n)
  BY FindObjectFinds, PlaceholderIsPlaced DEF Resolve, NodeIDs

LEMMA OwnerRelationsAreSound ==
    ASSUME NEW s, NEW ids, NEW item
    PROVE  Sound(s, OwnerRelations(s, ids, item), TableIDs(ids))
<1> DEFINE child == FindObjectID(ids, item.ref)
           resolved(owner) == Resolve(s, ids, owner, owner.namespace)
           owning(parent) ==
                Drawn(parent.nodes,
                      IF parent.known
                      THEN Edge("ownership", parent.id, child, "kubernetes", "owns")
                      ELSE Edge("declared", parent.id, child, "kubernetes",
                                "unresolved-owner"))
<1>1. ASSUME NEW owner
      PROVE  Sound(s, owning(resolved(owner)), TableIDs(ids))
  <2> DEFINE parent == resolved(owner)
             all == TableIDs(ids) \cup NodeIDs(parent.nodes)
  <2>1. parent.id \in all /\ \A n \in parent.nodes : PlacedIn(s, n)
    BY ResolveFinds
  <2>2. child \in {NoID} \cup all
    BY FindObjectFinds
  <2> HIDE DEF parent, child
  <2>3. \A relation : \A kind \in EdgeKinds :
            \A e \in Edge(kind, parent.id, child, "kubernetes", relation) :
                EdgeAmong(e, all)
    BY <2>1, <2>2, EdgeEnds
  <2>4. \A e \in owning(parent).edges : EdgeAmong(e, all)
    BY <2>3 DEF Drawn, EdgeKinds
  <2>5. owning(parent).nodes = parent.nodes
    BY DEF Drawn
  <2> QED
    BY <2>1, <2>4, <2>5 DEF Sound, parent
<1>2. OwnerRelations(s, ids, item)
        = DrawAll({owning(resolved(owner)) : owner \in ToSet(item.owners)})
  BY DEF OwnerRelations
<1> QED
  BY <1>1, <1>2, DrawAllIsSound

LEMMA SchedulingIsSound ==
    ASSUME NEW s, NEW ids, NEW pod
    PROVE  Sound(s, Scheduling(ids, pod), TableIDs(ids))
<1>1. \A e \in Scheduling(ids, pod).edges : EdgeAmong(e, TableIDs(ids))
  BY EdgeEnds, NameLookupFinds DEF Scheduling, NodeNamed, Drawn, EdgeKinds
<1> QED
  BY <1>1 DEF Sound, Scheduling, Drawn, EdgeAmong

LEMMA ServiceRelationsAreSound ==
    ASSUME NEW s, NEW ids, NEW service
    PROVE  Sound(s, ServiceRelations(s, ids, service), TableIDs(ids))
<1> DEFINE drawing == ServiceRelations(s, ids, service)
           id == Lookup(ids.names, ObjectKey(service.ref, "service"))
           exposed(ip) == Placeholder(s, "external", "external-endpoint", <<ip>>,
                                      service.ref.namespace, ip)
           all == TableIDs(ids) \cup NodeIDs(drawing.nodes)
<1>1. drawing.nodes = {exposed(ip) : ip \in service.externalIPs}
  BY DEF ServiceRelations, Drawn
<1>2. \A ip \in service.externalIPs : exposed(ip).id \in all
  BY <1>1 DEF NodeIDs
<1>3. id \in {NoID} \cup all
  BY NameLookupFinds
<1>4. \A ref : FindObjectID(ids, ref) \in {NoID} \cup all
  BY FindObjectFinds
<1>5. \A e \in drawing.edges :
        \/ \E w \in s.kubernetes.Workloads :
                e \in Edge("declared", id, FindObjectID(ids, w.ref), "kubernetes", "selects")
        \/ \E ip \in service.externalIPs :
                e \in Edge("declared", id, exposed(ip).id, "kubernetes", "exposes")
  BY DEF ServiceRelations, Drawn
<1>8. \A ip : PlacedIn(s, exposed(ip))
  BY PlaceholderIsPlaced
<1> HIDE DEF id, exposed, all
<1>6. \A e \in drawing.edges : EdgeAmong(e, all)
  BY <1>2, <1>3, <1>4, <1>5, EdgeEnds DEF EdgeKinds
<1>7. \A n \in drawing.nodes : PlacedIn(s, n)
  BY <1>1, <1>8
<1> QED
  BY <1>6, <1>7 DEF Sound, all

LEMMA EndpointRelationsAreSound ==
    ASSUME NEW s, NEW ids, NEW slice, NEW endpoint
    PROVE  Sound(s, EndpointRelations(s, ids, slice, endpoint), TableIDs(ids))
<1> DEFINE drawing == EndpointRelations(s, ids, slice, endpoint)
           id == Lookup(ids.names, ObjectKey(slice.ref, "endpoint-slice"))
           all == TableIDs(ids) \cup NodeIDs(drawing.nodes)
<1>1. id \in {NoID} \cup all
  BY NameLookupFinds
<1>2. CASE endpoint.targetRef.name # ""
  <2> DEFINE target == Resolve(s, ids, endpoint.targetRef, slice.ref.namespace)
  <2>1. /\ target.id \in TableIDs(ids) \cup NodeIDs(target.nodes)
        /\ \A n \in target.nodes : PlacedIn(s, n)
    BY ResolveFinds
  <2>2. drawing.nodes = target.nodes
    BY <1>2 DEF EndpointRelations, Drawn
  <2>3. drawing.edges = IF target.known
                        THEN Edge("resolved", id, target.id, "kubernetes", "targets")
                        ELSE Edge("declared", id, target.id, "kubernetes",
                                  "unresolved-target")
    BY <1>2 DEF EndpointRelations, Drawn
  <2>4. target.id \in all
    BY <2>1, <2>2
  <2> HIDE DEF id, all, target, drawing
  <2>5. \A e \in drawing.edges : EdgeAmong(e, all)
    BY <1>1, <2>3, <2>4, EdgeEnds DEF EdgeKinds
  <2> QED
    BY <2>1, <2>2, <2>5 DEF Sound, all, drawing
<1>3. CASE endpoint.targetRef.name = ""
  <2> DEFINE at(address) == Placeholder(s, "external", "external-endpoint", <<address>>,
                                        slice.ref.namespace, address)
  <2>1. drawing.nodes = {at(a) : a \in endpoint.addresses}
    BY <1>3 DEF EndpointRelations, Drawn
  <2>2. \A e \in drawing.edges : \E a \in endpoint.addresses :
            e \in Edge("resolved", id, at(a).id, "kubernetes", "addresses")
    BY <1>3 DEF EndpointRelations, Drawn
  <2>3. \A a \in endpoint.addresses : at(a).id \in all
    BY <2>1 DEF NodeIDs
  <2>6. \A a : PlacedIn(s, at(a))
    BY PlaceholderIsPlaced
  <2> HIDE DEF id, all, at
  <2>4. \A e \in drawing.edges : EdgeAmong(e, all)
    BY <1>1, <2>2, <2>3, EdgeEnds DEF EdgeKinds
  <2>5. \A n \in drawing.nodes : PlacedIn(s, n)
    BY <2>1, <2>6
  <2> QED
    BY <2>4, <2>5 DEF Sound, all
<1> QED
  BY <1>2, <1>3

LEMMA SliceRelationsAreSound ==
    ASSUME NEW s, NEW ids, NEW slice
    PROVE  Sound(s, SliceRelations(s, ids, slice), TableIDs(ids))
<1> DEFINE id == Lookup(ids.names, ObjectKey(slice.ref, "endpoint-slice"))
           service == Lookup(ids.names, <<"service", slice.ref.namespace, slice.serviceName>>)
           listed == Drawn({}, Edge("resolved", service, id, "kubernetes", "has-endpoints"))
           drawings == {listed} \cup {EndpointRelations(s, ids, slice, e) :
                                        e \in slice.endpoints}
<1>1. id \in {NoID} \cup TableIDs(ids) /\ service \in {NoID} \cup TableIDs(ids)
  BY NameLookupFinds
<1>2. \A e \in listed.edges : EdgeAmong(e, TableIDs(ids))
  <2> HIDE DEF id, service
  <2> QED
    BY <1>1, EdgeEnds DEF Drawn, EdgeKinds
<1>3. Sound(s, listed, TableIDs(ids))
  BY <1>2 DEF Sound, Drawn, EdgeAmong
<1>4. \A d \in drawings : Sound(s, d, TableIDs(ids))
  BY <1>3, EndpointRelationsAreSound
<1>5. SliceRelations(s, ids, slice) = DrawAll(drawings)
  BY DEF SliceRelations
<1> QED
  BY <1>4, <1>5, DrawAllIsSound

LEMMA KubernetesRelationsAreSound ==
    ASSUME NEW s, NEW ids
    PROVE  Sound(s, KubernetesRelations(s, ids), TableIDs(ids))
<1> DEFINE k == s.kubernetes
           drawings == {OwnerRelations(s, ids, i) : i \in k.Workloads \cup k.Pods}
                       \cup {Scheduling(ids, p) : p \in k.Pods}
                       \cup {ServiceRelations(s, ids, v) : v \in k.Services}
                       \cup {SliceRelations(s, ids, e) : e \in k.EndpointSlices}
<1>1. \A d \in drawings : Sound(s, d, TableIDs(ids))
  BY OwnerRelationsAreSound, SchedulingIsSound, ServiceRelationsAreSound,
     SliceRelationsAreSound
<1>2. KubernetesRelations(s, ids) = DrawAll(drawings)
  BY DEF KubernetesRelations
<1> QED
  BY <1>1, <1>2, DrawAllIsSound

LEMMA ContainedIsSound ==
    ASSUME NEW s, NEW kind, NEW namedBy
    PROVE  /\ Sound(s, Contained(s, kind, namedBy), {ClusterID(s)})
           /\ NodeIDs(Contained(s, kind, namedBy).nodes) = {n[2] : n \in namedBy}
<1> DEFINE drawing == Contained(s, kind, namedBy)
           all == {ClusterID(s)} \cup NodeIDs(drawing.nodes)
           nodeOf(m) == GraphNode(m[2], kind, m[1], ClusterID(s), "")
<1>0. \A m : nodeOf(m).id = m[2] /\ nodeOf(m).parent = ClusterID(s)
  BY DEF GraphNode
<1>1. drawing.nodes = {nodeOf(m) : m \in namedBy}
  BY DEF Contained, Drawn
<1> HIDE DEF nodeOf
<1>2. NodeIDs(drawing.nodes) = {n[2] : n \in namedBy}
  BY <1>0, <1>1 DEF NodeIDs
<1>3. \A e \in drawing.edges : \E n \in namedBy :
            e \in Edge("ownership", ClusterID(s), n[2], "eks", "contains")
  BY DEF Contained, Drawn
<1>4. \A n \in namedBy : n[2] \in all
  BY <1>2
<1>5. ClusterID(s) \in all
  OBVIOUS
<1> HIDE DEF all
<1>6. \A e \in drawing.edges : EdgeAmong(e, all)
  BY <1>3, <1>4, <1>5, EdgeEnds DEF EdgeKinds
<1>7. \A n \in drawing.nodes : PlacedIn(s, n)
  BY <1>0, <1>1 DEF PlacedIn
<1> QED
  BY <1>2, <1>6, <1>7 DEF Sound, all

\* What a drawing may refer to: objects of the tables, and the cluster.
Known(s, ids) == TableIDs(ids) \cup {ClusterID(s)}

LEMMA SoundForMore ==
    ASSUME NEW s, NEW d, NEW known, NEW more, known \subseteq more, Sound(s, d, known)
    PROVE  Sound(s, d, more)
  BY DEF Sound, EdgeAmong

EKSNames(s, kind) == {<<p[1][3], p[2]>> : p \in {q \in NamesOfEKS(s) : q[1][1] = kind}}

LEMMA NamesOfEKSHaveKinds ==
    ASSUME NEW s, NEW p \in NamesOfEKS(s)
    PROVE  p[1][1] \in {"nodegroup", "addon", "eksinsight"}
<1>1. \A kind, name, id : <<<<kind, "", name>>, id>>[1][1] = kind
  OBVIOUS
<1>2. PICK kind \in {"nodegroup", "addon", "eksinsight"} : \E name, id :
        p = <<<<kind, "", name>>, id>>
  BY DEF NamesOfEKS
<1>3. PICK name, id : p = <<<<kind, "", name>>, id>>
  BY <1>2
<1> QED
  BY <1>1, <1>2, <1>3

LEMMA EKSRelationsAreSound ==
    ASSUME NEW s, NEW ids
    PROVE  /\ Sound(s, EKSRelations(s, ids), Known(s, ids))
           /\ {p[2] : p \in NamesOfEKS(s)} \subseteq NodeIDs(EKSRelations(s, ids).nodes)
<1> DEFINE kinds == {"nodegroup", "addon", "eksinsight"}
           contained(kind) == Contained(s, kind, EKSNames(s, kind))
           groupOf(n) == Lookup(ids.names, <<"nodegroup", "",
                                             Label(n, "eks.amazonaws.com/nodegroup")>>)
           managed(n) == Drawn({}, Edge("resolved", groupOf(n),
                                        Lookup(ids.names, ObjectKey(n.ref, "node")),
                                        "kubernetes", "manages"))
           instanceID(i) == NodeID("aws", "ec2-instance", "", <<i.instanceID>>)
           instance(i) == GraphNode(instanceID(i), "ec2-instance", i.instanceID,
                                    ClusterID(s), "")
           backed(i) == Drawn({instance(i)},
                              Edge("resolved", NodeNamed(ids, i.kubernetesNodeName),
                                   instanceID(i), "aws", "backed-by"))
           drawings == {contained(kind) : kind \in kinds}
                       \cup {managed(n) : n \in s.kubernetes.Nodes}
                       \cup {backed(i) : i \in s.eks.Instances}
<1>1. EKSRelations(s, ids) = DrawAll(drawings)
  BY DEF EKSRelations, EKSNames
<1>2. ASSUME NEW kind \in kinds PROVE Sound(s, contained(kind), Known(s, ids))
  BY ContainedIsSound, SoundForMore DEF Known
<1>3. ASSUME NEW n PROVE Sound(s, managed(n), Known(s, ids))
  <2>1. /\ groupOf(n) \in {NoID} \cup Known(s, ids)
        /\ Lookup(ids.names, ObjectKey(n.ref, "node")) \in {NoID} \cup Known(s, ids)
    BY NameLookupFinds DEF Known
  <2>2. \A e \in managed(n).edges : EdgeAmong(e, Known(s, ids))
    <3> HIDE DEF groupOf
    <3> QED
      BY <2>1, EdgeEnds DEF Drawn, EdgeKinds
  <2> QED
    BY <2>2 DEF Sound, Drawn, EdgeAmong
<1>4. ASSUME NEW i PROVE Sound(s, backed(i), Known(s, ids))
  <2> DEFINE all == Known(s, ids) \cup NodeIDs(backed(i).nodes)
  <2>1. backed(i).nodes = {instance(i)}
    BY DEF Drawn
  <2>2. instanceID(i) \in all
    BY <2>1 DEF NodeIDs, GraphNode
  <2>3. NodeNamed(ids, i.kubernetesNodeName) \in {NoID} \cup all
    BY NameLookupFinds DEF NodeNamed, Known
  <2>4. \A e \in backed(i).edges : EdgeAmong(e, all)
    <3>1. backed(i).edges = Edge("resolved", NodeNamed(ids, i.kubernetesNodeName),
                                 instanceID(i), "aws", "backed-by")
      BY DEF Drawn
    <3> HIDE DEF backed, instanceID, all
    <3> QED
      BY <2>2, <2>3, <3>1, EdgeEnds DEF EdgeKinds
  <2>5. PlacedIn(s, instance(i))
    BY DEF PlacedIn, GraphNode
  <2> QED
    BY <2>1, <2>4, <2>5 DEF Sound
<1>5. \A d \in drawings : Sound(s, d, Known(s, ids))
  BY <1>2, <1>3, <1>4
<1>6. Sound(s, EKSRelations(s, ids), Known(s, ids))
  <2> HIDE DEF drawings
  <2> QED
    BY <1>1, <1>5, DrawAllIsSound
<1>7. ASSUME NEW p \in NamesOfEKS(s)
      PROVE  p[2] \in NodeIDs(EKSRelations(s, ids).nodes)
  <2>1. PICK kind \in kinds : p[1][1] = kind
    BY NamesOfEKSHaveKinds
  <2>2. <<p[1][3], p[2]>> \in EKSNames(s, kind)
    BY <2>1 DEF EKSNames
  <2>3. p[2] \in NodeIDs(contained(kind).nodes)
    <3>1. NodeIDs(contained(kind).nodes) = {n[2] : n \in EKSNames(s, kind)}
      BY ContainedIsSound
    <3> DEFINE n == <<p[1][3], p[2]>>
    <3>2. n[2] = p[2]
      OBVIOUS
    <3> HIDE DEF n
    <3> QED
      BY <2>2, <3>1, <3>2 DEF n
  <2>4. contained(kind) \in drawings
    OBVIOUS
  <2> HIDE DEF drawings, contained
  <2> QED
    BY <1>1, <2>3, <2>4 DEF DrawAll, Drawn, NodeIDs
<1> QED
  BY <1>6, <1>7

LEMMA InternetAccessIsSound ==
    ASSUME NEW s, NEW ids
    PROVE  Sound(s, InternetAccess(s), Known(s, ids))
<1> DEFINE internet == Placeholder(s, "external", "internet", <<"internet">>, "", "Internet")
<1>1. CASE \E c \in s.eks.Cluster : c.publicAccess
  <2> DEFINE all == Known(s, ids) \cup NodeIDs({internet})
  <2>1. InternetAccess(s)
          = Drawn({internet}, Edge("declared", ClusterID(s), internet.id, "eks",
                                   "public-api-access"))
    BY <1>1 DEF InternetAccess
  <2>2. ClusterID(s) \in all /\ internet.id \in all
    BY DEF Known, NodeIDs
  <2>3. PlacedIn(s, internet)
    BY PlaceholderIsPlaced
  <2> HIDE DEF internet, all
  <2>4. \A e \in InternetAccess(s).edges : EdgeAmong(e, all)
    BY <2>1, <2>2, EdgeEnds DEF Drawn, EdgeKinds
  <2>5. InternetAccess(s).nodes = {internet}
    BY <2>1 DEF Drawn
  <2> QED
    BY <2>3, <2>4, <2>5 DEF Sound, all
<1>2. CASE ~ \E c \in s.eks.Cluster : c.publicAccess
  BY <1>2 DEF InternetAccess, Drawn, Sound
<1> QED
  BY <1>1, <1>2

LEMMA RelationsAreSound ==
    ASSUME NEW s, NEW ids
    PROVE  /\ Sound(s, Relations(s, ids), Known(s, ids))
           /\ {p[2] : p \in NamesOfEKS(s)} \subseteq NodeIDs(Relations(s, ids).nodes)
<1> DEFINE drawings == {InternetAccess(s), KubernetesRelations(s, ids), EKSRelations(s, ids)}
<1>1. Relations(s, ids) = DrawAll(drawings)
  BY DEF Relations
<1>2. \A d \in drawings : Sound(s, d, Known(s, ids))
  BY InternetAccessIsSound, EKSRelationsAreSound, KubernetesRelationsAreSound, SoundForMore
     DEF Known
<1>3. NodeIDs(EKSRelations(s, ids).nodes) \subseteq NodeIDs(Relations(s, ids).nodes)
  BY <1>1 DEF DrawAll, Drawn, NodeIDs
<1> QED
  BY <1>1, <1>2, <1>3, DrawAllIsSound, EKSRelationsAreSound

LEMMA OnePerIDKeeps ==
    ASSUME NEW items
    PROVE  /\ OnePerID(items) \subseteq items
           /\ NodeIDs(OnePerID(items)) = NodeIDs(items)
           /\ \A a, b \in OnePerID(items) : a.id = b.id => a = b
<1> DEFINE one(id) == CHOOSE i \in items : i.id = id
<1>1. \A id \in NodeIDs(items) : one(id) \in items /\ one(id).id = id
  BY DEF NodeIDs
<1>2. OnePerID(items) = {one(id) : id \in NodeIDs(items)}
  BY DEF OnePerID, NodeIDs
<1> HIDE DEF one
<1> QED
  BY <1>1, <1>2 DEF NodeIDs

LEMMA TablesLeadToNodes ==
    ASSUME NEW s, NEW objects, NEW unique
    PROVE  TableIDs(Tables(objects, unique, NamesOfEKS(s)))
             \subseteq {ObjectID(o, unique) : o \in objects} \cup {p[2] : p \in NamesOfEKS(s)}
<1> DEFINE tables == Tables(objects, unique, NamesOfEKS(s))
           objectIDs == {ObjectID(o, unique) : o \in objects}
<1>1. \A a, b : <<a, b>>[2] = b
  OBVIOUS
<1>2. \A p \in tables.uids : p[2] \in objectIDs
  <2>1. tables.uids = {<<o.ref.uid, ObjectID(o, unique)>> :
                            o \in {q \in objects : q.ref.uid \in unique}}
    BY DEF Tables
  <2> QED
    BY <1>1, <2>1
<1>3. \A o \in objects : \A p \in ObjectNames(o, unique) : p[2] \in objectIDs
  BY <1>1 DEF ObjectNames
<1>4. tables.names = (UNION {ObjectNames(o, unique) : o \in objects}) \cup NamesOfEKS(s)
  BY DEF Tables
<1>5. \A p \in tables.names : p[2] \in objectIDs \cup {q[2] : q \in NamesOfEKS(s)}
  <2> HIDE DEF tables, objectIDs
  <2> QED
    BY <1>3, <1>4
<1> QED
  BY <1>2, <1>5 DEF TableIDs

EdgesHaveOwnIDs(graph) == \A e, f \in graph.edges : e.id = f.id => e = f

LEMMA GraphHoldsTogether ==
    ASSUME NEW s, NEW objects, NEW unique, NEW drawn, NEW known,
           known \subseteq {ObjectID(o, unique) : o \in objects} \cup {ClusterID(s)}
                             \cup NodeIDs(drawn.nodes),
           Sound(s, drawn, known)
    PROVE  LET graph == WithNamespaces(s, objects, unique, drawn)
           IN  ParentsExist(graph) /\ EdgesJoinNodes(graph) /\ EdgesHaveOwnIDs(graph)
<1> DEFINE graph == WithNamespaces(s, objects, unique, drawn)
           cluster == GraphNode(ClusterID(s), "cluster", ClusterIdentity(s), NoID, "")
           namespaces == NamespaceNodes(s, objects, drawn.nodes)
           objectNodes == {ObjectNode(s, o, unique) : o \in objects}
           containing == UNION {Edge("ownership", ClusterID(s), n.id, "kubernetes",
                                     "contains") : n \in namespaces}
           names == ({n.ref.name : n \in s.kubernetes.Namespaces}
                     \cup {o.ref.namespace : o \in objects}
                     \cup {n.id[3] : n \in {m \in drawn.nodes : m.parent # ClusterID(s)}})
                    \ {""}
           namespaceNode(n) == GraphNode(NamespaceID(s, n), "namespace", n, ClusterID(s), "")
           all == NodeIDs(graph.nodes)
<1>1. graph.nodes = {cluster} \cup namespaces \cup drawn.nodes \cup OnePerID(objectNodes)
  BY DEF WithNamespaces, GraphOf
<1>2. graph.edges = OnePerID(drawn.edges \cup containing)
  BY DEF WithNamespaces, GraphOf
<1>3. namespaces = {namespaceNode(n) : n \in names}
  BY DEF NamespaceNodes
<1>4. cluster.id = ClusterID(s) /\ cluster.parent = NoID
  BY DEF GraphNode
<1>5. \A n : namespaceNode(n).id = NamespaceID(s, n) /\ namespaceNode(n).parent = ClusterID(s)
  BY DEF GraphNode
<1>6. \A o : /\ ObjectNode(s, o, unique).id = ObjectID(o, unique)
              /\ ObjectNode(s, o, unique).parent = NamespaceID(s, o.ref.namespace)
  BY DEF ObjectNode, GraphNode
<1> HIDE DEF graph, cluster, namespaceNode, namespaces, names
<1>7. ClusterID(s) \in all
  BY <1>1, <1>4 DEF NodeIDs
<1>8. \A n \in names : NamespaceID(s, n) \in all
  BY <1>1, <1>3, <1>5 DEF NodeIDs
<1>9. NodeIDs(drawn.nodes) \subseteq all
  BY <1>1 DEF NodeIDs
<1>10. NodeIDs(objectNodes) = {ObjectID(o, unique) : o \in objects}
  BY <1>6 DEF NodeIDs
<1>11. {ObjectID(o, unique) : o \in objects} \subseteq all
  <2>1. NodeIDs(OnePerID(objectNodes)) = {ObjectID(o, unique) : o \in objects}
    BY <1>10, OnePerIDKeeps
  <2> QED
    BY <1>1, <2>1 DEF NodeIDs
<1>12. known \cup NodeIDs(drawn.nodes) \subseteq all
  BY <1>7, <1>9, <1>11
<1> HIDE DEF all
<1>13. ParentsExist(graph)
  <2> SUFFICES ASSUME NEW n \in graph.nodes
               PROVE  n.parent = NoID \/ n.parent \in all
    BY DEF ParentsExist, all, NodeIDs
  <2>1. CASE n = cluster
    BY <2>1, <1>4
  <2>2. CASE n \in namespaces
    BY <2>2, <1>3, <1>5, <1>7
  <2>3. CASE n \in drawn.nodes
    <3>1. PlacedIn(s, n)
      BY <2>3 DEF Sound
    <3>2. CASE n.parent # ClusterID(s)
      <4>1. n.id[3] # "" /\ n.parent = NodeID("kubernetes", "namespace", "", <<n.id[3]>>)
        BY <3>1, <3>2 DEF PlacedIn
      <4>2. n.id[3] \in names
        BY <2>3, <3>2, <4>1 DEF names
      <4>3. n.parent = NamespaceID(s, n.id[3])
        BY <4>1 DEF NamespaceID
      <4> QED
        BY <1>8, <4>2, <4>3
    <3> QED
      BY <3>2, <1>7
  <2>4. CASE n \in OnePerID(objectNodes)
    <3>1. PICK o \in objects : n = ObjectNode(s, o, unique)
      BY <2>4, OnePerIDKeeps
    <3>2. n.parent = NamespaceID(s, o.ref.namespace)
      BY <3>1, <1>6
    <3>3. CASE o.ref.namespace = ""
      BY <3>2, <3>3, <1>7 DEF NamespaceID
    <3>4. CASE o.ref.namespace # ""
      <4>1. o.ref.namespace \in names
        BY <3>4 DEF names
      <4> QED
        BY <3>2, <4>1, <1>8
    <3> QED
      BY <3>3, <3>4
  <2> QED
    BY <1>1, <2>1, <2>2, <2>3, <2>4
<1>14. \A e \in drawn.edges : EdgeAmong(e, all)
  BY <1>12 DEF Sound, EdgeAmong
<1>15. \A e \in containing : EdgeAmong(e, all)
  <2>1. \A n \in namespaces : n.id \in all
    BY <1>1 DEF all, NodeIDs
  <2> QED
    BY <1>7, <2>1, EdgeEnds DEF EdgeKinds
<1>16. graph.edges \subseteq drawn.edges \cup containing /\ EdgesHaveOwnIDs(graph)
  <2> DEFINE items == drawn.edges \cup containing
  <2>1. graph.edges = OnePerID(items)
    BY <1>2
  <2> HIDE DEF containing, items
  <2>2. graph.edges \subseteq items /\ \A e, f \in graph.edges : e.id = f.id => e = f
    BY <2>1, OnePerIDKeeps
  <2> QED
    BY <2>2 DEF EdgesHaveOwnIDs, items
<1>17. EdgesJoinNodes(graph)
  <2>1. \A e \in graph.edges : EdgeAmong(e, all)
    BY <1>14, <1>15, <1>16
  <2> QED
    BY <2>1 DEF EdgesJoinNodes, EdgeAmong, all, NodeIDs
<1> QED
  BY <1>13, <1>16, <1>17 DEF graph

\* The graph of any snapshot, torn or incomplete as it may be, holds together:
\* every edge joins two nodes of the graph, no two edges have one id, and every
\* parent is a node.  So Graph.Validate() never refuses a projection for a
\* dangling reference (project.go; addEdge, addObject, ensureNamespace).
THEOREM ProjectionNeverDangles ==
    ASSUME NEW s
    PROVE  LET graph == Project(s)
           IN  ParentsExist(graph) /\ EdgesJoinNodes(graph) /\ EdgesHaveOwnIDs(graph)
<1> DEFINE collected == CollectedObjects(s)
           refs == EvidenceRefs(s)
           unique == UniqueUIDs({o.ref : o \in collected} \cup refs)
           ids == Tables(collected, unique, NamesOfEKS(s))
           objects == collected \cup EvidenceObjects(ids, refs)
           drawn == Relations(s, ids)
<1>1. Project(s) = WithNamespaces(s, objects, unique, drawn)
  BY DEF Project, WithObjects, WithNames, WithRelations
<1>2. Sound(s, drawn, Known(s, ids))
  BY RelationsAreSound
<1>3. TableIDs(ids) \subseteq {ObjectID(o, unique) : o \in collected}
                              \cup {p[2] : p \in NamesOfEKS(s)}
  BY TablesLeadToNodes
<1>4. {p[2] : p \in NamesOfEKS(s)} \subseteq NodeIDs(drawn.nodes)
  BY RelationsAreSound
<1>5. {ObjectID(o, unique) : o \in collected} \subseteq {ObjectID(o, unique) : o \in objects}
  OBVIOUS
<1> HIDE DEF collected, refs, unique, ids, objects, drawn
<1>6. Known(s, ids) \subseteq {ObjectID(o, unique) : o \in objects} \cup {ClusterID(s)}
                               \cup NodeIDs(drawn.nodes)
  BY <1>3, <1>4, <1>5 DEF Known
<1> QED
  BY <1>1, <1>2, <1>6, GraphHoldsTogether

(***************************************************************************)
(* What the graph tells of a snapshot.                                     *)
(***************************************************************************)
\* The name of a node of a relation, by its id.
NameOf(s, id) ==
    CASE id[2] = "pseudo-internet"   -> "Internet"
      [] id[2] = "pseudo-unresolved" -> id[4][3]
      [] id[2] = "eksinsight"        -> InsightScope(CHOOSE i \in s.eks.Insights : <<i.id>> = id[4])
      [] OTHER                       -> id[4][1]

\* A node that is no collected object is told by its id.
Tells(s, n) ==
    /\ n = GraphNode(n.id, n.id[2], NameOf(s, n.id), NamespaceID(s, n.id[3]), "")
    /\ n.name # "" /\ n.id[4] # <<"">>
    /\ n.id[2] # "cluster" /\ (n.id[1] = "kubernetes" => n.id[2] \in {"namespace", "pseudo-unresolved"})

\* An edge is told by its id, and an ownership within Kubernetes is one of owners.
Fits(e) ==
    /\ e.id = EdgeID(e.kind, e.source, e.target, e.provider)
    /\ e.kind = "ownership" /\ e.provider = "kubernetes" => e.relation = "owns"

Telling(s, d) == (\A n \in d.nodes : Tells(s, n)) /\ (\A e \in d.edges : Fits(e))

LEMMA EdgeFits ==
    ASSUME NEW kind, NEW source, NEW target, NEW provider, NEW relation,
           kind = "ownership" /\ provider = "kubernetes" => relation = "owns",
           NEW e \in Edge(kind, source, target, provider, relation)
    PROVE  Fits(e)
  BY DEF Edge, Fits

LEMMA DrawAllIsTelling ==
    ASSUME NEW s, NEW drawings, \A d \in drawings : Telling(s, d)
    PROVE  Telling(s, DrawAll(drawings))
  BY DEF Telling, DrawAll, Drawn

LEMMA InternetTells ==
    ASSUME NEW s
    PROVE  Tells(s, Placeholder(s, "external", "internet", <<"internet">>, "", "Internet"))
  BY DEF Tells, Placeholder, GraphNode, PseudoNodeID, NodeID, PseudoKind, NameOf, NamespaceID

LEMMA AddressTells ==
    ASSUME NEW s, NEW address, address # "", NEW namespace
    PROVE  Tells(s, Placeholder(s, "external", "external-endpoint", <<address>>, namespace, address))
<1> DEFINE id == <<"external", "pseudo-external-endpoint", namespace, <<address>>>>
           n == Placeholder(s, "external", "external-endpoint", <<address>>, namespace, address)
<1>1. n = GraphNode(id, "pseudo-external-endpoint", address, NamespaceID(s, namespace), "")
  BY DEF Placeholder, PseudoNodeID, NodeID, PseudoKind
<1>2. /\ id[1] = "external" /\ id[2] = "pseudo-external-endpoint" /\ id[3] = namespace
      /\ id[4] = <<address>> /\ id[4][1] = address /\ id[4] # <<"">>
  OBVIOUS
<1> HIDE DEF id, n
<1>3. n.id = id /\ n.name = address
  BY <1>1 DEF GraphNode
<1>4. NameOf(s, id) = address
  BY <1>2 DEF NameOf
<1> QED
  BY <1>1, <1>2, <1>3, <1>4 DEF Tells, n

LEMMA UnresolvedTells ==
    ASSUME NEW s, NEW ref, ref.name # "", NEW namespace
    PROVE  Tells(s, Placeholder(s, "kubernetes", "unresolved", ObjectKey(ref, Lower(ref.kind)),
                                namespace, ref.name))
<1> DEFINE key == <<Lower(ref.kind), ref.namespace, ref.name>>
           id == <<"kubernetes", "pseudo-unresolved", namespace, key>>
           n == Placeholder(s, "kubernetes", "unresolved", ObjectKey(ref, Lower(ref.kind)),
                            namespace, ref.name)
<1>1. n = GraphNode(id, "pseudo-unresolved", ref.name, NamespaceID(s, namespace), "")
  BY DEF Placeholder, PseudoNodeID, NodeID, PseudoKind, ObjectKey
<1>2. /\ id[1] = "kubernetes" /\ id[2] = "pseudo-unresolved" /\ id[3] = namespace
      /\ id[4] = key /\ key[3] = ref.name /\ key # <<"">>
  <2>1. Len(key) = 3 /\ Len(<<"">>) = 1
    OBVIOUS
  <2> QED
    BY <2>1
<1> HIDE DEF id, n, key
<1>3. n.id = id /\ n.name = ref.name
  BY <1>1 DEF GraphNode
<1>4. NameOf(s, id) = ref.name
  BY <1>2 DEF NameOf
<1> QED
  BY <1>1, <1>2, <1>3, <1>4 DEF Tells, n

\* A node under the cluster that is named after its identity.
LEMMA NamedTells ==
    ASSUME NEW s, NEW provider \in {"eks", "aws"}, NEW kind \in {"nodegroup", "addon", "ec2-instance"},
           NEW name, name # ""
    PROVE  Tells(s, GraphNode(NodeID(provider, kind, "", <<name>>), kind, name, ClusterID(s), ""))
<1> DEFINE id == <<provider, kind, "", <<name>>>>
           n == GraphNode(NodeID(provider, kind, "", <<name>>), kind, name, ClusterID(s), "")
<1>1. n = GraphNode(id, kind, name, NamespaceID(s, ""), "")
  BY DEF NodeID, NamespaceID
<1>2. /\ id[1] = provider /\ id[2] = kind /\ id[3] = ""
      /\ id[4] = <<name>> /\ id[4][1] = name /\ id[4] # <<"">>
  OBVIOUS
<1> HIDE DEF id, n
<1>3. n.id = id /\ n.name = name
  BY <1>1 DEF GraphNode
<1>4. NameOf(s, id) = name
  BY <1>2 DEF NameOf
<1> QED
  BY <1>1, <1>2, <1>3, <1>4 DEF Tells, n

LEMMA NamespaceTells ==
    ASSUME NEW s, NEW name, name # ""
    PROVE  Tells(s, GraphNode(NamespaceID(s, name), "namespace", name, ClusterID(s), ""))
<1> DEFINE id == <<"kubernetes", "namespace", "", <<name>>>>
           n == GraphNode(NamespaceID(s, name), "namespace", name, ClusterID(s), "")
<1>1. n = GraphNode(id, "namespace", name, NamespaceID(s, ""), "")
  BY DEF NodeID, NamespaceID
<1>2. /\ id[1] = "kubernetes" /\ id[2] = "namespace" /\ id[3] = ""
      /\ id[4] = <<name>> /\ id[4][1] = name /\ id[4] # <<"">>
  OBVIOUS
<1> HIDE DEF id, n
<1>3. n.id = id /\ n.name = name
  BY <1>1 DEF GraphNode
<1>4. NameOf(s, id) = name
  BY <1>2 DEF NameOf
<1> QED
  BY <1>1, <1>2, <1>3, <1>4 DEF Tells, n

\* Nothing that a node is named after is empty, and an insight is known by its id.
AddressesAreGiven(s) ==
    /\ \A v \in s.kubernetes.Services : "" \notin v.externalIPs
    /\ \A v \in s.kubernetes.EndpointSlices : \A e \in v.endpoints : "" \notin e.addresses

OwnersAreNamed(s) ==
    \A i \in s.kubernetes.Workloads \cup s.kubernetes.Pods :
        \A owner \in ToSet(i.owners) : owner.name # ""

EKSIsNamed(s) ==
    /\ \A x \in s.eks.Nodegroups \cup s.eks.Addons : x.name # ""
    /\ \A i \in s.eks.Insights : i.id # "" /\ InsightScope(i) # ""
    /\ \A i, j \in s.eks.Insights : i.id = j.id => i = j
    /\ \A i \in s.eks.Instances : i.instanceID # ""

LEMMA InsightTells ==
    ASSUME NEW s, EKSIsNamed(s), NEW i \in s.eks.Insights
    PROVE  LET id == NodeID("eks", "eksinsight", "", <<i.id>>)
           IN  /\ NameOf(s, id) = InsightScope(i)
               /\ Tells(s, GraphNode(id, "eksinsight", InsightScope(i), ClusterID(s), ""))
<1> DEFINE id == <<"eks", "eksinsight", "", <<i.id>>>>
           scope == InsightScope(i)
           n == GraphNode(NodeID("eks", "eksinsight", "", <<i.id>>), "eksinsight", scope,
                          ClusterID(s), "")
<1>1. n = GraphNode(id, "eksinsight", scope, NamespaceID(s, ""), "")
  BY DEF NodeID, NamespaceID
<1>2. /\ id[1] = "eks" /\ id[2] = "eksinsight" /\ id[3] = "" /\ id[4] = <<i.id>>
  OBVIOUS
<1>3. <<i.id>> # <<"">> /\ scope # "" /\ \A j \in s.eks.Insights : <<j.id>> = <<i.id>> => j = i
  <2>1. \A a, b : <<a>> = <<b>> => a = b
    OBVIOUS
  <2> QED
    BY <2>1 DEF EKSIsNamed
<1>4. (CHOOSE j \in s.eks.Insights : <<j.id>> = <<i.id>>) = i
  BY <1>3
<1> HIDE DEF id, n
<1>5. NameOf(s, id) = scope
  BY <1>2, <1>4 DEF NameOf
<1> HIDE DEF scope
<1>6. n.id = id /\ n.name = scope
  BY <1>1 DEF GraphNode
<1>7. Tells(s, n)
  BY <1>1, <1>2, <1>3, <1>5, <1>6 DEF Tells
<1> QED
  BY <1>5, <1>7 DEF n, NodeID, id, scope

LEMMA ResolveTells ==
    ASSUME NEW s, NEW ids, NEW ref, ref.name # "", NEW namespace,
           NEW n \in Resolve(s, ids, ref, namespace).nodes
    PROVE  Tells(s, n)
  BY UnresolvedTells DEF Resolve

LEMMA OwnerRelationsTell ==
    ASSUME NEW s, NEW ids, NEW item, \A owner \in ToSet(item.owners) : owner.name # ""
    PROVE  Telling(s, OwnerRelations(s, ids, item))
<1> DEFINE child == FindObjectID(ids, item.ref)
           resolved(owner) == Resolve(s, ids, owner, owner.namespace)
           owning(parent) ==
                Drawn(parent.nodes,
                      IF parent.known
                      THEN Edge("ownership", parent.id, child, "kubernetes", "owns")
                      ELSE Edge("declared", parent.id, child, "kubernetes",
                                "unresolved-owner"))
<1>1. ASSUME NEW owner \in ToSet(item.owners)
      PROVE  Telling(s, owning(resolved(owner)))
  <2> DEFINE parent == resolved(owner)
  <2>1. \A n \in parent.nodes : Tells(s, n)
    BY ResolveTells
  <2> HIDE DEF parent, child
  <2>2. \A e \in Edge("ownership", parent.id, child, "kubernetes", "owns") : Fits(e)
    BY EdgeFits
  <2>3. \A e \in Edge("declared", parent.id, child, "kubernetes", "unresolved-owner") : Fits(e)
    BY EdgeFits
  <2>4. Telling(s, owning(parent))
    BY <2>1, <2>2, <2>3 DEF Telling, Drawn
  <2> QED
    BY <2>4 DEF parent
<1>2. OwnerRelations(s, ids, item)
        = DrawAll({owning(resolved(owner)) : owner \in ToSet(item.owners)})
  BY DEF OwnerRelations
<1> HIDE DEF owning, resolved
<1> QED
  BY <1>1, <1>2, DrawAllIsTelling

LEMMA SchedulingTells ==
    ASSUME NEW s, NEW ids, NEW pod
    PROVE  Telling(s, Scheduling(ids, pod))
<1>1. \A e \in Scheduling(ids, pod).edges : Fits(e)
  BY EdgeFits DEF Scheduling, Drawn
<1> QED
  BY <1>1 DEF Telling, Scheduling, Drawn

LEMMA ServiceRelationsTell ==
    ASSUME NEW s, NEW ids, NEW service, "" \notin service.externalIPs
    PROVE  Telling(s, ServiceRelations(s, ids, service))
<1> DEFINE drawing == ServiceRelations(s, ids, service)
           id == Lookup(ids.names, ObjectKey(service.ref, "service"))
           exposed(ip) == Placeholder(s, "external", "external-endpoint", <<ip>>,
                                      service.ref.namespace, ip)
<1>1. drawing.nodes = {exposed(ip) : ip \in service.externalIPs}
  BY DEF ServiceRelations, Drawn
<1>2. \A e \in drawing.edges :
        \/ \E w \in s.kubernetes.Workloads :
                e \in Edge("declared", id, FindObjectID(ids, w.ref), "kubernetes", "selects")
        \/ \E ip \in service.externalIPs :
                e \in Edge("declared", id, exposed(ip).id, "kubernetes", "exposes")
  BY DEF ServiceRelations, Drawn
<1>3. \A ip \in service.externalIPs : Tells(s, exposed(ip))
  BY AddressTells
<1> HIDE DEF id, exposed, drawing
<1>4. \A e \in drawing.edges : Fits(e)
  BY <1>2, EdgeFits
<1>5. Telling(s, drawing)
  BY <1>1, <1>3, <1>4 DEF Telling
<1> QED
  BY <1>5 DEF drawing

LEMMA EndpointRelationsTell ==
    ASSUME NEW s, NEW ids, NEW slice, NEW endpoint, "" \notin endpoint.addresses
    PROVE  Telling(s, EndpointRelations(s, ids, slice, endpoint))
<1> DEFINE drawing == EndpointRelations(s, ids, slice, endpoint)
           id == Lookup(ids.names, ObjectKey(slice.ref, "endpoint-slice"))
<1>1. CASE endpoint.targetRef.name # ""
  <2> DEFINE target == Resolve(s, ids, endpoint.targetRef, slice.ref.namespace)
  <2>1. \A n \in target.nodes : Tells(s, n)
    BY <1>1, ResolveTells
  <2>2. drawing.nodes = target.nodes
    BY <1>1 DEF EndpointRelations, Drawn
  <2>3. drawing.edges = IF target.known
                        THEN Edge("resolved", id, target.id, "kubernetes", "targets")
                        ELSE Edge("declared", id, target.id, "kubernetes",
                                  "unresolved-target")
    BY <1>1 DEF EndpointRelations, Drawn
  <2> HIDE DEF id, target, drawing
  <2>4. \A e \in drawing.edges : Fits(e)
    BY <2>3, EdgeFits
  <2>5. Telling(s, drawing)
    BY <2>1, <2>2, <2>4 DEF Telling
  <2> QED
    BY <2>5 DEF drawing
<1>2. CASE endpoint.targetRef.name = ""
  <2> DEFINE at(address) == Placeholder(s, "external", "external-endpoint", <<address>>,
                                        slice.ref.namespace, address)
  <2>1. drawing.nodes = {at(a) : a \in endpoint.addresses}
    BY <1>2 DEF EndpointRelations, Drawn
  <2>2. \A e \in drawing.edges : \E a \in endpoint.addresses :
            e \in Edge("resolved", id, at(a).id, "kubernetes", "addresses")
    BY <1>2 DEF EndpointRelations, Drawn
  <2>3. \A a \in endpoint.addresses : Tells(s, at(a))
    BY AddressTells
  <2> HIDE DEF id, at, drawing
  <2>4. \A e \in drawing.edges : Fits(e)
    BY <2>2, EdgeFits
  <2>5. Telling(s, drawing)
    BY <2>1, <2>3, <2>4 DEF Telling
  <2> QED
    BY <2>5 DEF drawing
<1> QED
  BY <1>1, <1>2

LEMMA SliceRelationsTell ==
    ASSUME NEW s, NEW ids, NEW slice, \A e \in slice.endpoints : "" \notin e.addresses
    PROVE  Telling(s, SliceRelations(s, ids, slice))
<1> DEFINE id == Lookup(ids.names, ObjectKey(slice.ref, "endpoint-slice"))
           service == Lookup(ids.names, <<"service", slice.ref.namespace, slice.serviceName>>)
           listed == Drawn({}, Edge("resolved", service, id, "kubernetes", "has-endpoints"))
           drawings == {listed} \cup {EndpointRelations(s, ids, slice, e) :
                                        e \in slice.endpoints}
<1>1. Telling(s, listed)
  <2> HIDE DEF id, service
  <2>1. \A e \in Edge("resolved", service, id, "kubernetes", "has-endpoints") : Fits(e)
    BY EdgeFits
  <2> QED
    BY <2>1 DEF Drawn, Telling
<1>4. \A e \in slice.endpoints : Telling(s, EndpointRelations(s, ids, slice, e))
  BY EndpointRelationsTell
<1>2. \A d \in drawings : Telling(s, d)
  <2> HIDE DEF listed
  <2> QED
    BY <1>1, <1>4
<1>3. SliceRelations(s, ids, slice) = DrawAll(drawings)
  BY DEF SliceRelations
<1> QED
  BY <1>2, <1>3, DrawAllIsTelling

LEMMA KubernetesRelationsTell ==
    ASSUME NEW s, NEW ids, AddressesAreGiven(s), OwnersAreNamed(s)
    PROVE  Telling(s, KubernetesRelations(s, ids))
<1> DEFINE k == s.kubernetes
           drawings == {OwnerRelations(s, ids, i) : i \in k.Workloads \cup k.Pods}
                       \cup {Scheduling(ids, p) : p \in k.Pods}
                       \cup {ServiceRelations(s, ids, v) : v \in k.Services}
                       \cup {SliceRelations(s, ids, e) : e \in k.EndpointSlices}
<1>1. \A i \in k.Workloads \cup k.Pods : Telling(s, OwnerRelations(s, ids, i))
  BY OwnerRelationsTell DEF OwnersAreNamed
<1>2. \A v \in k.Services : Telling(s, ServiceRelations(s, ids, v))
  BY ServiceRelationsTell DEF AddressesAreGiven
<1>3. \A v \in k.EndpointSlices : Telling(s, SliceRelations(s, ids, v))
  BY SliceRelationsTell DEF AddressesAreGiven
<1>4. \A d \in drawings : Telling(s, d)
  BY <1>1, <1>2, <1>3, SchedulingTells
<1>5. KubernetesRelations(s, ids) = DrawAll(drawings)
  BY DEF KubernetesRelations
<1> QED
  BY <1>4, <1>5, DrawAllIsTelling

LEMMA TripleParts ==
    \A a, b, c : <<a, b, c>>[1] = a /\ <<a, b, c>>[2] = b /\ <<a, b, c>>[3] = c
OBVIOUS

LEMMA PairParts == \A a, b : <<a, b>>[1] = a /\ <<a, b>>[2] = b
OBVIOUS

\* The name of a node group, an add-on or an insight.
KeyOf(kind, name) == <<kind, "", name>>
IDOf(kind, identity) == NodeID("eks", kind, "", <<identity>>)

LEMMA EKSNamesAre ==
    ASSUME NEW s, NEW p \in NamesOfEKS(s)
    PROVE  \/ \E kind \in {"nodegroup", "addon"} : \E x \in s.eks.Nodegroups \cup s.eks.Addons :
                p[1] = KeyOf(kind, x.name) /\ p[2] = IDOf(kind, x.name)
           \/ \E i \in s.eks.Insights :
                p[1] = KeyOf("eksinsight", InsightScope(i)) /\ p[2] = IDOf("eksinsight", i.id)
<1>1. \/ \E g \in s.eks.Nodegroups : p = <<KeyOf("nodegroup", g.name), IDOf("nodegroup", g.name)>>
      \/ \E a \in s.eks.Addons : p = <<KeyOf("addon", a.name), IDOf("addon", a.name)>>
      \/ \E i \in s.eks.Insights :
            p = <<KeyOf("eksinsight", InsightScope(i)), IDOf("eksinsight", i.id)>>
  BY Zenon DEF NamesOfEKS, KeyOf, IDOf
<1>2. \/ \E g \in s.eks.Nodegroups :
            p[1] = KeyOf("nodegroup", g.name) /\ p[2] = IDOf("nodegroup", g.name)
      \/ \E a \in s.eks.Addons : p[1] = KeyOf("addon", a.name) /\ p[2] = IDOf("addon", a.name)
      \/ \E i \in s.eks.Insights :
            p[1] = KeyOf("eksinsight", InsightScope(i)) /\ p[2] = IDOf("eksinsight", i.id)
  BY <1>1, PairParts
<1> QED
  BY <1>2

LEMMA EKSKeyParts ==
    \A kind, name : KeyOf(kind, name)[1] = kind /\ KeyOf(kind, name)[3] = name
  BY TripleParts DEF KeyOf

\* The node of a node group or an add-on.
LEMMA NamedByEKSTells ==
    ASSUME NEW s, NEW kind \in {"nodegroup", "addon"}, NEW name, name # ""
    PROVE  /\ NameOf(s, IDOf(kind, name)) = name
           /\ Tells(s, GraphNode(IDOf(kind, name), kind, name, ClusterID(s), ""))
<1> DEFINE id == IDOf(kind, name)
<1>1. Tells(s, GraphNode(id, kind, name, ClusterID(s), ""))
  BY NamedTells DEF IDOf
<1>2. id[2] = kind /\ id[4] = <<name>> /\ id[4][1] = name
  BY DEF NodeID, IDOf
<1> HIDE DEF id
<1>3. NameOf(s, id) = name
  BY <1>2 DEF NameOf
<1> QED
  BY <1>1, <1>3 DEF id

LEMMA EKSNodesTell ==
    ASSUME NEW s, EKSIsNamed(s), NEW p \in NamesOfEKS(s)
    PROVE  /\ NameOf(s, p[2]) = p[1][3]
           /\ Tells(s, GraphNode(p[2], p[1][1], p[1][3], ClusterID(s), ""))
<1> DEFINE key == p[1]
           id == p[2]
<1>1. ASSUME NEW kind \in {"nodegroup", "addon"}, NEW x \in s.eks.Nodegroups \cup s.eks.Addons,
             key = KeyOf(kind, x.name), id = IDOf(kind, x.name)
      PROVE  NameOf(s, id) = key[3] /\ Tells(s, GraphNode(id, key[1], key[3], ClusterID(s), ""))
  <2>1. x.name # ""
    BY DEF EKSIsNamed
  <2> HIDE DEF key, id
  <2>2. key[1] = kind /\ key[3] = x.name
    BY <1>1, EKSKeyParts
  <2> QED
    BY <1>1, <2>1, <2>2, NamedByEKSTells
<1>2. ASSUME NEW i \in s.eks.Insights,
             key = KeyOf("eksinsight", InsightScope(i)), id = IDOf("eksinsight", i.id)
      PROVE  NameOf(s, id) = key[3] /\ Tells(s, GraphNode(id, key[1], key[3], ClusterID(s), ""))
  <2> HIDE DEF key, id
  <2>1. key[1] = "eksinsight" /\ key[3] = InsightScope(i)
    BY <1>2, EKSKeyParts
  <2>2. /\ NameOf(s, id) = InsightScope(i)
        /\ Tells(s, GraphNode(id, "eksinsight", InsightScope(i), ClusterID(s), ""))
    BY <1>2, InsightTells DEF IDOf
  <2> QED
    BY <2>1, <2>2
<1> QED
  BY <1>1, <1>2, EKSNamesAre

LEMMA ContainedTells ==
    ASSUME NEW s, EKSIsNamed(s), NEW kind
    PROVE  Telling(s, Contained(s, kind, EKSNames(s, kind)))
<1> DEFINE drawing == Contained(s, kind, EKSNames(s, kind))
           nodeOf(m) == GraphNode(m[2], kind, m[1], ClusterID(s), "")
<1>1. drawing.nodes = {nodeOf(m) : m \in EKSNames(s, kind)}
  BY DEF Contained, Drawn
<1>2. \A e \in drawing.edges : \E n \in EKSNames(s, kind) :
            e \in Edge("ownership", ClusterID(s), n[2], "eks", "contains")
  BY DEF Contained, Drawn
<1>3. ASSUME NEW m \in EKSNames(s, kind) PROVE Tells(s, nodeOf(m))
  <2>1. PICK p \in NamesOfEKS(s) : p[1][1] = kind /\ m = <<p[1][3], p[2]>>
    BY DEF EKSNames
  <2>2. m[1] = p[1][3] /\ m[2] = p[2]
    BY <2>1
  <2> QED
    BY <2>1, <2>2, EKSNodesTell
<1> HIDE DEF drawing, nodeOf
<1>4. \A e \in drawing.edges : Fits(e)
  BY <1>2, EdgeFits
<1>5. Telling(s, drawing)
  BY <1>1, <1>3, <1>4 DEF Telling
<1> QED
  BY <1>5 DEF drawing

LEMMA EKSRelationsTell ==
    ASSUME NEW s, NEW ids, EKSIsNamed(s)
    PROVE  Telling(s, EKSRelations(s, ids))
<1> DEFINE kinds == {"nodegroup", "addon", "eksinsight"}
           contained(kind) == Contained(s, kind, EKSNames(s, kind))
           groupOf(n) == Lookup(ids.names, <<"nodegroup", "",
                                             Label(n, "eks.amazonaws.com/nodegroup")>>)
           node(n) == Lookup(ids.names, ObjectKey(n.ref, "node"))
           managed(n) == Drawn({}, Edge("resolved", groupOf(n), node(n), "kubernetes", "manages"))
           instanceID(i) == NodeID("aws", "ec2-instance", "", <<i.instanceID>>)
           instance(i) == GraphNode(instanceID(i), "ec2-instance", i.instanceID,
                                    ClusterID(s), "")
           named(i) == NodeNamed(ids, i.kubernetesNodeName)
           backed(i) == Drawn({instance(i)},
                              Edge("resolved", named(i), instanceID(i), "aws", "backed-by"))
           drawings == {contained(kind) : kind \in kinds}
                       \cup {managed(n) : n \in s.kubernetes.Nodes}
                       \cup {backed(i) : i \in s.eks.Instances}
<1>1. EKSRelations(s, ids) = DrawAll(drawings)
  BY DEF EKSRelations, EKSNames
<1>2. \A kind \in kinds : Telling(s, contained(kind))
  BY ContainedTells
<1>3. ASSUME NEW n PROVE Telling(s, managed(n))
  <2> HIDE DEF groupOf, node
  <2>1. \A e \in Edge("resolved", groupOf(n), node(n), "kubernetes", "manages") : Fits(e)
    BY EdgeFits
  <2> QED
    BY <2>1 DEF Telling, Drawn
<1>4. ASSUME NEW i \in s.eks.Instances PROVE Telling(s, backed(i))
  <2>1. Tells(s, instance(i))
    BY NamedTells DEF EKSIsNamed
  <2> HIDE DEF instance, instanceID, named
  <2>2. \A e \in Edge("resolved", named(i), instanceID(i), "aws", "backed-by") : Fits(e)
    BY EdgeFits
  <2> QED
    BY <2>1, <2>2 DEF Telling, Drawn
<1>5. Telling(s, DrawAll(drawings))
  <2> HIDE DEF contained, managed, backed
  <2>1. \A d \in drawings : Telling(s, d)
    BY <1>2, <1>3, <1>4
  <2> HIDE DEF drawings
  <2> QED
    BY <2>1, DrawAllIsTelling
<1> QED
  BY <1>1, <1>5

LEMMA InternetAccessTells ==
    ASSUME NEW s
    PROVE  Telling(s, InternetAccess(s))
<1> DEFINE internet == Placeholder(s, "external", "internet", <<"internet">>, "", "Internet")
<1>1. Tells(s, internet)
  BY InternetTells
<1> HIDE DEF internet
<1>2. \A e \in Edge("declared", ClusterID(s), internet.id, "eks", "public-api-access") : Fits(e)
  BY EdgeFits
<1>3. \/ InternetAccess(s) = Drawn({}, {})
      \/ InternetAccess(s) = Drawn({internet}, Edge("declared", ClusterID(s), internet.id, "eks",
                                                    "public-api-access"))
  BY DEF InternetAccess, internet
<1> QED
  BY <1>1, <1>2, <1>3 DEF Telling, Drawn

LEMMA RelationsTell ==
    ASSUME NEW s, NEW ids, AddressesAreGiven(s), OwnersAreNamed(s), EKSIsNamed(s)
    PROVE  Telling(s, Relations(s, ids))
<1>1. \A d \in {InternetAccess(s), KubernetesRelations(s, ids), EKSRelations(s, ids)} : Telling(s, d)
  BY InternetAccessTells, KubernetesRelationsTell, EKSRelationsTell
<1>2. Relations(s, ids)
        = DrawAll({InternetAccess(s), KubernetesRelations(s, ids), EKSRelations(s, ids)})
  BY DEF Relations
<1> QED
  BY <1>1, <1>2, DrawAllIsTelling

ObjectKinds == {"node", "workload", "pod", "service", "endpoint-slice"}

\* Objects have UIDs and names, and a UID is that of one object.  Evidence
\* that is no collected object has a kind and a UID of its own.
ObjectsAreKnown(s) ==
    /\ \A o \in CollectedObjects(s) : o.ref.uid # "" /\ o.ref.name # ""
    /\ \A o, p \in CollectedObjects(s) : o.ref.uid = p.ref.uid =>
            /\ o.kind = p.kind /\ o.ref.kind = p.ref.kind
            /\ o.ref.namespace = p.ref.namespace /\ o.ref.name = p.ref.name
    /\ \A r \in EvidenceRefs(s) \ {o.ref : o \in CollectedObjects(s)} :
            /\ Lower(r.kind) \notin ObjectKinds \cup {"cluster", "namespace", "pseudo-unresolved"}
            /\ \A o \in CollectedObjects(s) : o.ref.uid # r.uid

LEMMA CollectedKinds == \A s : \A o \in CollectedObjects(s) : o.kind \in ObjectKinds
  BY DEF CollectedObjects, ObjectKinds

\* The UIDs and the lookup tables of a snapshot.
UIDsOf(s) == UniqueUIDs({o.ref : o \in CollectedObjects(s)} \cup EvidenceRefs(s))
TablesOf(s) == Tables(CollectedObjects(s), UIDsOf(s), NamesOfEKS(s))
ObjectsOf(s) == CollectedObjects(s) \cup EvidenceObjects(TablesOf(s), EvidenceRefs(s))

LEMMA ProjectIs ==
    \A s : Project(s) = WithNamespaces(s, ObjectsOf(s), UIDsOf(s), Relations(s, TablesOf(s)))
  BY DEF Project, WithObjects, WithNames, WithRelations, ObjectsOf, TablesOf, UIDsOf

\* Whoever has the UID of a collected object is that object.
LEMMA UIDTells ==
    ASSUME NEW s, ObjectsAreKnown(s), NEW o \in CollectedObjects(s),
           NEW r \in {p.ref : p \in CollectedObjects(s)} \cup EvidenceRefs(s),
           r.uid = o.ref.uid
    PROVE  r.kind = o.ref.kind /\ r.namespace = o.ref.namespace /\ r.name = o.ref.name
<1>1. PICK p \in CollectedObjects(s) : r = p.ref
  BY DEF ObjectsAreKnown
<1> QED
  BY <1>1 DEF ObjectsAreKnown

LEMMA CollectedAreUnique ==
    ASSUME NEW s, ObjectsAreKnown(s), NEW o \in CollectedObjects(s)
    PROVE  o.ref.uid \in UIDsOf(s)
<1> DEFINE refs == {p.ref : p \in CollectedObjects(s)} \cup EvidenceRefs(s)
           claim(r) == <<r.uid, ObjectKey(r, Lower(r.kind))>>
           claims == {claim(r) : r \in {q \in refs : q.uid # "" /\ q.name # ""}}
           own == {d \in claims : \A e \in claims : e[1] = d[1] => e = d}
<1>1. \A r : claim(r)[1] = r.uid
  BY PairParts
<1>2. \A r \in refs : r.uid = o.ref.uid => claim(r) = claim(o.ref)
  BY UIDTells DEF ObjectKey
<1>3. o.ref \in refs /\ o.ref.uid # "" /\ o.ref.name # ""
  BY DEF ObjectsAreKnown
<1>4. UIDsOf(s) = {c[1] : c \in own}
  BY DEF UIDsOf, UniqueUIDs
<1> HIDE DEF claim, refs
<1>5. claim(o.ref) \in claims
  BY <1>3
<1>6. \A e \in claims : e[1] = claim(o.ref)[1] => e = claim(o.ref)
  BY <1>1, <1>2
<1>7. claim(o.ref) \in own
  BY <1>5, <1>6
<1> HIDE DEF own
<1> QED
  BY <1>1, <1>4, <1>7

\* An object is known by its UID, whatever else a reference to it says.
LEMMA OneNodePerUID ==
    ASSUME NEW s, ObjectsAreKnown(s), NEW o \in CollectedObjects(s), NEW p \in CollectedObjects(s),
           p.ref.uid = o.ref.uid, NEW unique
    PROVE  /\ ObjectID(p, unique) = ObjectID(o, unique)
           /\ ObjectNode(s, p, unique) = ObjectNode(s, o, unique)
<1>1. /\ o.kind = p.kind /\ o.ref.kind = p.ref.kind
      /\ o.ref.namespace = p.ref.namespace /\ o.ref.name = p.ref.name
  BY DEF ObjectsAreKnown
<1>2. ObjectID(p, unique) = ObjectID(o, unique)
  BY <1>1 DEF ObjectID, NameKey, NodeID
<1> QED
  BY <1>1, <1>2 DEF ObjectNode, GraphNode

\* A key that leads to one id.
LeadsOnlyTo(pairs, key, id) ==
    (\E q \in pairs : q[1] = key) /\ \A q \in pairs : q[1] = key => q[2] = id

LEMMA LookupIs ==
    ASSUME NEW pairs, NEW key, NEW id, LeadsOnlyTo(pairs, key, id)
    PROVE  Lookup(pairs, key) = id
<1> DEFINE is(q) == q \in pairs /\ q[1] = key
<1>0. \A q : is(q) => q[2] = id
  BY DEF LeadsOnlyTo
<1>1. \E q : is(q)
  BY DEF LeadsOnlyTo
<1>2. Lookup(pairs, key) = (CHOOSE q : is(q))[2]
  BY <1>1, Zenon DEF Lookup
<1> HIDE DEF is
<1>3. is(CHOOSE q : is(q))
  BY <1>1
<1> QED
  BY <1>0, <1>2, <1>3

LEMMA FindsByUID ==
    ASSUME NEW ids, NEW ref, ref.name # "", ref.uid # "", Lookup(ids.uids, ref.uid) # NoID
    PROVE  FindObjectID(ids, ref) = Lookup(ids.uids, ref.uid)
<1> DEFINE kinds == <<Lower(ref.kind), "pod", "service", "node", "endpoint-slice">>
           named(i) == Lookup(ids.names, ObjectKey(ref, kinds[i]))
           found == {i \in DOMAIN kinds : named(i) # NoID}
           byName == IF found = {} THEN NoID ELSE named(Min(found))
           byUID == Lookup(ids.uids, ref.uid)
<1>1. FindObjectID(ids, ref) =
        CASE ref.name = "" -> NoID
          [] ref.name # "" /\ ref.uid # "" /\ byUID # NoID -> byUID
          [] OTHER -> byName
  BY DEF FindObjectID
<1> HIDE DEF byName, byUID
<1>2. ref.name # "" /\ ref.uid # "" /\ byUID # NoID
  BY DEF byUID
<1>3. FindObjectID(ids, ref) = byUID
  BY <1>1, <1>2
<1> QED
  BY <1>3 DEF byUID

LEMMA FoundByUID ==
    ASSUME NEW s, ObjectsAreKnown(s), NEW o \in CollectedObjects(s),
           NEW ref, ref.name # "", ref.uid = o.ref.uid
    PROVE  FindObjectID(TablesOf(s), ref) = ObjectID(o, UIDsOf(s))
<1> DEFINE unique == UIDsOf(s)
           id(p) == ObjectID(p, unique)
           entry(p) == <<p.ref.uid, id(p)>>
           ids == TablesOf(s)
<1>1. \A p : id(p) # NoID
  <2>1. \A a, b, c, d : <<a, b, c, d>> # <<>>
    OBVIOUS
  <2> QED
    BY <2>1 DEF ObjectID, NodeID, NoID
<1>2. ids.uids = {entry(p) : p \in {q \in CollectedObjects(s) : q.ref.uid \in unique}}
  BY DEF TablesOf, Tables
<1>3. \A p \in CollectedObjects(s) : p.ref.uid = o.ref.uid => id(p) = id(o)
  BY OneNodePerUID
<1>4. o.ref.uid \in unique /\ o.ref.uid # ""
  BY CollectedAreUnique DEF ObjectsAreKnown
<1>5. \A p : entry(p)[1] = p.ref.uid /\ entry(p)[2] = id(p)
  BY PairParts
<1> HIDE DEF id, ids, unique, entry
<1>6. \A q \in ids.uids : q[1] = o.ref.uid => q[2] = id(o)
  BY <1>2, <1>3, <1>5
<1>7. \E q \in ids.uids : q[1] = o.ref.uid
  BY <1>2, <1>4, <1>5
<1>8. Lookup(ids.uids, o.ref.uid) = id(o)
  <2>1. LeadsOnlyTo(ids.uids, o.ref.uid, id(o))
    BY <1>6, <1>7 DEF LeadsOnlyTo
  <2> QED
    BY <2>1, LookupIs
<1>9. FindObjectID(ids, ref) = Lookup(ids.uids, ref.uid)
  BY <1>1, <1>4, <1>8, FindsByUID
<1> QED
  BY <1>8, <1>9 DEF id, ids, unique

LEMMA QuadParts ==
    \A a, b, c, d : LET t == <<a, b, c, d>>
                    IN  t[1] = a /\ t[2] = b /\ t[3] = c /\ t[4] = d /\ t # NoID
<1>1. \A a, b, c, d : <<a, b, c, d>> # <<>>
  OBVIOUS
<1> QED
  BY <1>1 DEF NoID

LEMMA ObjectIDParts ==
    ASSUME NEW o, NEW unique
    PROVE  LET id == ObjectID(o, unique)
           IN  /\ id[1] = "kubernetes" /\ id[2] = o.kind /\ id[3] = o.ref.namespace
               /\ id[4] = NameKey(o, unique) /\ id # NoID
<1> DEFINE key == NameKey(o, unique)
           namespace == o.ref.namespace
           kind == o.kind
<1>1. ObjectID(o, unique) = <<"kubernetes", kind, namespace, key>>
  BY DEF ObjectID, NodeID
<1> HIDE DEF key, namespace, kind
<1>2. LET id == ObjectID(o, unique)
      IN  id[1] = "kubernetes" /\ id[2] = kind /\ id[3] = namespace /\ id[4] = key /\ id # NoID
  BY <1>1, QuadParts
<1> QED
  BY <1>2 DEF key, namespace, kind

LEMMA ObjectNodeParts ==
    ASSUME NEW s, NEW o, NEW unique
    PROVE  LET n == ObjectNode(s, o, unique)
           IN  n.id = ObjectID(o, unique) /\ n.kind = o.kind /\ n.name = o.ref.name /\ n.uid = o.ref.uid
  BY DEF ObjectNode, GraphNode

\* The part of the identity that is an UID or a name.
UniqueName(o, unique) == IF o.ref.uid \in unique THEN o.ref.uid ELSE o.ref.name

LEMMA SameNameKey ==
    ASSUME NEW o, NEW p, NEW unique, o.kind = p.kind, NameKey(o, unique) = NameKey(p, unique)
    PROVE  UniqueName(o, unique) = UniqueName(p, unique)
<1> DEFINE a == UniqueName(o, unique)
           b == UniqueName(p, unique)
           ka == Lower(o.ref.kind)
           kb == Lower(p.ref.kind)
<1>1. NameKey(o, unique) = IF o.kind = "workload" THEN <<ka, a>> ELSE <<a>>
  BY DEF NameKey, UniqueName
<1>2. NameKey(p, unique) = IF p.kind = "workload" THEN <<kb, b>> ELSE <<b>>
  BY DEF NameKey, UniqueName
<1> HIDE DEF a, b, ka, kb
<1>3. <<ka, a>> = <<kb, b>> => a = b
  OBVIOUS
<1>4. <<a>> = <<b>> => a = b
  OBVIOUS
<1>5. a = b
  BY <1>1, <1>2, <1>3, <1>4
<1> QED
  BY <1>5 DEF a, b

LEMMA NameKeyIsGiven ==
    ASSUME NEW o, NEW unique, "" \notin unique, o.ref.name # ""
    PROVE  NameKey(o, unique) # <<"">>
<1> DEFINE a == UniqueName(o, unique)
           k == Lower(o.ref.kind)
<1>1. NameKey(o, unique) = IF o.kind = "workload" THEN <<k, a>> ELSE <<a>>
  BY DEF NameKey, UniqueName
<1>2. a # ""
  BY DEF UniqueName
<1> HIDE DEF a, k
<1>3. Len(<<k, a>>) = 2 /\ Len(<<"">>) = 1
  OBVIOUS
<1>4. <<a>> = <<"">> => a = ""
  OBVIOUS
<1>5. <<k, a>> # <<"">>
  BY <1>3
<1> QED
  BY <1>1, <1>2, <1>4, <1>5

LEMMA NoEmptyUID == \A s : "" \notin UIDsOf(s)
<1> SUFFICES ASSUME NEW s, "" \in UIDsOf(s) PROVE FALSE
  OBVIOUS
<1> DEFINE refs == {p.ref : p \in CollectedObjects(s)} \cup EvidenceRefs(s)
           claim(r) == <<r.uid, ObjectKey(r, Lower(r.kind))>>
           claims == {claim(r) : r \in {q \in refs : q.uid # "" /\ q.name # ""}}
           own == {d \in claims : \A e \in claims : e[1] = d[1] => e = d}
<1>1. \A r : claim(r)[1] = r.uid
  BY PairParts
<1>2. UIDsOf(s) = {c[1] : c \in own}
  BY DEF UIDsOf, UniqueUIDs
<1> HIDE DEF claim
<1>3. \A c \in own : c[1] # ""
  BY <1>1
<1> QED
  BY <1>2, <1>3

\* What the evidence adds is no collected object.
LEMMA EvidenceIsOther ==
    ASSUME NEW s, ObjectsAreKnown(s), NEW p \in EvidenceObjects(TablesOf(s), EvidenceRefs(s))
    PROVE  /\ p.ref.name # ""
           /\ p.kind \notin ObjectKinds \cup {"cluster", "namespace", "pseudo-unresolved"}
           /\ \A o \in CollectedObjects(s) : o.ref.uid # p.ref.uid
<1>1. PICK r \in EvidenceRefs(s) :
            /\ r.name # "" /\ FindObjectID(TablesOf(s), r) = NoID
            /\ p.ref = r /\ p.kind = Lower(r.kind)
  <2>1. PICK r \in EvidenceRefs(s) :
            /\ r.name # "" /\ FindObjectID(TablesOf(s), r) = NoID
            /\ p = [ref |-> r, kind |-> Lower(r.kind)]
    BY Zenon DEF EvidenceObjects
  <2> QED
    BY <2>1
<1>2. r \notin {o.ref : o \in CollectedObjects(s)}
  <2> SUFFICES ASSUME NEW o \in CollectedObjects(s), r = o.ref PROVE FALSE
    OBVIOUS
  <2>1. FindObjectID(TablesOf(s), r) = ObjectID(o, UIDsOf(s))
    BY <1>1, FoundByUID
  <2>2. ObjectID(o, UIDsOf(s)) # NoID
    BY ObjectIDParts
  <2> QED
    BY <1>1, <2>1, <2>2
<1>3. r \in EvidenceRefs(s) \ {o.ref : o \in CollectedObjects(s)}
  BY <1>1, <1>2
<1>4. /\ Lower(r.kind) \notin ObjectKinds \cup {"cluster", "namespace", "pseudo-unresolved"}
      /\ \A o \in CollectedObjects(s) : o.ref.uid # r.uid
  BY <1>3 DEF ObjectsAreKnown
<1> QED
  BY <1>1, <1>4

\* No other object has the id of a collected one, and none its UID.
LEMMA CollectedAreApart ==
    ASSUME NEW s, ObjectsAreKnown(s), NEW o \in CollectedObjects(s), NEW p \in ObjectsOf(s),
           \/ ObjectID(p, UIDsOf(s)) = ObjectID(o, UIDsOf(s))
           \/ p.ref.uid = o.ref.uid
    PROVE  ObjectNode(s, p, UIDsOf(s)) = ObjectNode(s, o, UIDsOf(s))
<1> DEFINE unique == UIDsOf(s)
<1>1. CASE p \in CollectedObjects(s)
  <2>1. CASE ObjectID(p, unique) = ObjectID(o, unique)
    <3>1. p.kind = o.kind /\ NameKey(p, unique) = NameKey(o, unique)
      BY <2>1, ObjectIDParts
    <3>2. UniqueName(p, unique) = UniqueName(o, unique)
      BY <3>1, SameNameKey
    <3>3. o.ref.uid \in unique /\ p.ref.uid \in unique
      BY <1>1, CollectedAreUnique
    <3>4. p.ref.uid = o.ref.uid
      BY <3>2, <3>3 DEF UniqueName
    <3> QED
      BY <1>1, <3>4, OneNodePerUID
  <2>2. CASE p.ref.uid = o.ref.uid
    BY <1>1, <2>2, OneNodePerUID
  <2> QED
    BY <2>1, <2>2
<1>2. CASE p \in EvidenceObjects(TablesOf(s), EvidenceRefs(s))
  <2>1. p.kind \notin ObjectKinds /\ p.ref.uid # o.ref.uid
    BY <1>2, EvidenceIsOther
  <2>2. o.kind \in ObjectKinds
    BY CollectedKinds
  <2>3. ObjectID(p, unique)[2] = p.kind /\ ObjectID(o, unique)[2] = o.kind
    BY ObjectIDParts
  <2> QED
    BY <2>1, <2>2, <2>3
<1> QED
  BY <1>1, <1>2 DEF ObjectsOf

ClusterIsNamed(s) == \A c \in s.eks.Cluster : c.name # ""

IsDrawable(s) ==
    /\ AddressesAreGiven(s) /\ OwnersAreNamed(s) /\ EKSIsNamed(s)
    /\ ObjectsAreKnown(s) /\ ClusterIsNamed(s)

\* The parts of the graph of a snapshot.
ClusterNode(s) == GraphNode(ClusterID(s), "cluster", ClusterIdentity(s), NoID, "")
ObjectNodes(s) == {ObjectNode(s, o, UIDsOf(s)) : o \in ObjectsOf(s)}
DrawnOf(s) == Relations(s, TablesOf(s))
NamespacesOf(s) == NamespaceNodes(s, ObjectsOf(s), DrawnOf(s).nodes)

LEMMA GraphIs ==
    ASSUME NEW s
    PROVE  /\ Project(s).nodes = {ClusterNode(s)} \cup NamespacesOf(s) \cup DrawnOf(s).nodes
                                 \cup OnePerID(ObjectNodes(s))
           /\ Project(s).edges = OnePerID(DrawnOf(s).edges
                   \cup UNION {Edge("ownership", ClusterID(s), n.id, "kubernetes", "contains") :
                                    n \in NamespacesOf(s)})
           /\ Project(s).coverage = MergedCoverage(s)
                  \cup {[provider |-> "external", capability |-> "runtime-connections",
                         status |-> "unavailable"]}
<1> DEFINE graph == GraphOf(s, ObjectsOf(s), UIDsOf(s), NamespacesOf(s), DrawnOf(s))
<1>1. Project(s) = graph
  BY ProjectIs DEF WithNamespaces, NamespacesOf, DrawnOf
<1>2. graph.nodes = {ClusterNode(s)} \cup NamespacesOf(s) \cup DrawnOf(s).nodes
                    \cup OnePerID(ObjectNodes(s))
  BY DEF GraphOf, ClusterNode, ObjectNodes
<1>3. graph.edges = OnePerID(DrawnOf(s).edges
            \cup UNION {Edge("ownership", ClusterID(s), n.id, "kubernetes", "contains") :
                            n \in NamespacesOf(s)})
  BY DEF GraphOf
<1>4. graph.coverage = MergedCoverage(s)
            \cup {[provider |-> "external", capability |-> "runtime-connections",
                   status |-> "unavailable"]}
  BY DEF GraphOf
<1> HIDE DEF graph
<1> QED
  BY <1>1, <1>2, <1>3, <1>4

LEMMA TellsParts ==
    ASSUME NEW s, NEW n, Tells(s, n)
    PROVE  /\ n.id[2] # "cluster" /\ n.id[2] = n.kind /\ n.uid = "" /\ n.name = NameOf(s, n.id)
           /\ n.id[1] = "kubernetes" => n.id[2] \in {"namespace", "pseudo-unresolved"}
           /\ n.name # "" /\ n.id[4] # <<"">>
<1>1. n = GraphNode(n.id, n.id[2], NameOf(s, n.id), NamespaceID(s, n.id[3]), "")
  BY DEF Tells
<1>2. n.kind = n.id[2] /\ n.name = NameOf(s, n.id) /\ n.uid = ""
  <2> DEFINE id == n.id
             name == NameOf(s, id)
             parent == NamespaceID(s, id[3])
  <2>1. n = GraphNode(id, id[2], name, parent, "")
    BY <1>1
  <2> HIDE DEF id, name, parent
  <2>2. n.kind = id[2] /\ n.name = name /\ n.uid = ""
    BY <2>1 DEF GraphNode
  <2> QED
    BY <2>2 DEF id, name
<1> QED
  BY <1>2 DEF Tells

LEMMA NamespacesTell ==
    ASSUME NEW s, NEW n \in NamespacesOf(s)
    PROVE  Tells(s, n) /\ n.kind = "namespace" /\ n.id[2] = "namespace"
<1>1. PICK name : name # "" /\ n = GraphNode(NamespaceID(s, name), "namespace", name, ClusterID(s), "")
  BY DEF NamespacesOf, NamespaceNodes
<1>2. Tells(s, n)
  BY <1>1, NamespaceTells
<1>3. n.kind = "namespace"
  BY <1>1 DEF GraphNode
<1> QED
  BY <1>2, <1>3, TellsParts

LEMMA ClusterNodeIs ==
    ASSUME NEW s, ClusterIsNamed(s)
    PROVE  LET n == ClusterNode(s)
           IN  /\ n.id[2] = "cluster" /\ n.kind = "cluster" /\ n.uid = ""
               /\ n.name # "" /\ n.id[4] # <<"">>
<1> DEFINE identity == ClusterIdentity(s)
           id == <<ClusterProvider(s), "cluster", "", <<identity>>>>
<1>1. identity # ""
  BY DEF ClusterIdentity, ClusterIsNamed
<1>2. id[2] = "cluster" /\ id[4] = <<identity>>
  OBVIOUS
<1>3. <<identity>> # <<"">>
  <2> HIDE DEF identity
  <2>1. \A a : <<a>> = <<"">> => a = ""
    OBVIOUS
  <2> QED
    BY <1>1, <2>1
<1>4. ClusterNode(s) = GraphNode(id, "cluster", identity, NoID, "")
  BY DEF ClusterNode, ClusterID, NodeID
<1> DEFINE n == ClusterNode(s)
<1> HIDE DEF id, identity
<1>7. n = GraphNode(id, "cluster", identity, NoID, "")
  BY <1>4
<1> HIDE DEF n
<1>5. n.id = id /\ n.kind = "cluster" /\ n.name = identity /\ n.uid = ""
  BY <1>7 DEF GraphNode
<1>6. /\ n.id[2] = "cluster" /\ n.kind = "cluster" /\ n.uid = ""
      /\ n.name # "" /\ n.id[4] # <<"">>
  BY <1>1, <1>2, <1>3, <1>5
<1> QED
  BY <1>6 DEF n

\* A node of the graph is that of the cluster, one told by its id, or that of
\* an object.
LEMMA NodesOfGraph ==
    ASSUME NEW s, IsDrawable(s), NEW n \in Project(s).nodes
    PROVE  n = ClusterNode(s) \/ Tells(s, n) \/ n \in OnePerID(ObjectNodes(s))
<1>1. \A m \in DrawnOf(s).nodes : Tells(s, m)
  BY RelationsTell DEF IsDrawable, DrawnOf, Telling
<1> QED
  BY <1>1, GraphIs, NamespacesTell

LEMMA ObjectNodesAre ==
    ASSUME NEW s, ObjectsAreKnown(s), NEW n \in ObjectNodes(s)
    PROVE  /\ n.id[1] = "kubernetes" /\ n.id[2] = n.kind
           /\ n.kind \notin {"cluster", "namespace", "pseudo-unresolved"}
           /\ n.name # "" /\ n.id[4] # <<"">>
<1>1. PICK o \in ObjectsOf(s) : n = ObjectNode(s, o, UIDsOf(s))
  BY DEF ObjectNodes
<1>2. o.ref.name # "" /\ o.kind \notin {"cluster", "namespace", "pseudo-unresolved"}
  <2>1. CASE o \in CollectedObjects(s)
    BY <2>1, CollectedKinds DEF ObjectsAreKnown, ObjectKinds
  <2>2. CASE o \in EvidenceObjects(TablesOf(s), EvidenceRefs(s))
    BY <2>2, EvidenceIsOther
  <2> QED
    BY <2>1, <2>2 DEF ObjectsOf
<1>3. NameKey(o, UIDsOf(s)) # <<"">>
  BY <1>2, NoEmptyUID, NameKeyIsGiven
<1>4. n.id = ObjectID(o, UIDsOf(s)) /\ n.kind = o.kind /\ n.name = o.ref.name
  BY <1>1, ObjectNodeParts
<1>5. n.id[1] = "kubernetes" /\ n.id[2] = o.kind /\ n.id[4] = NameKey(o, UIDsOf(s))
  BY <1>4, ObjectIDParts
<1> QED
  BY <1>2, <1>3, <1>4, <1>5

LEMMA NodesAreValid ==
    ASSUME NEW s, IsDrawable(s)
    PROVE  ValidNodes(Project(s))
<1> DEFINE nodes == Project(s).nodes
           one == OnePerID(ObjectNodes(s))
           cluster == ClusterNode(s)
<1>1. \A n \in nodes : n = cluster \/ Tells(s, n) \/ n \in one
  BY NodesOfGraph
<1>2. one \subseteq ObjectNodes(s) /\ \A a, b \in one : a.id = b.id => a = b
  BY OnePerIDKeeps
<1>3. \A n \in one : /\ n.id[1] = "kubernetes" /\ n.id[2] = n.kind
                     /\ n.kind \notin {"cluster", "namespace", "pseudo-unresolved"}
                     /\ n.name # "" /\ n.id[4] # <<"">>
  BY <1>2, ObjectNodesAre DEF IsDrawable
<1>4. /\ cluster.id[2] = "cluster" /\ cluster.kind = "cluster"
      /\ cluster.name # "" /\ cluster.id[4] # <<"">>
  BY ClusterNodeIs DEF IsDrawable
<1>5. \A n : Tells(s, n) =>
            /\ n.id[2] # "cluster"
            /\ n.id[1] = "kubernetes" => n.id[2] \in {"namespace", "pseudo-unresolved"}
            /\ n.name # "" /\ n.id[4] # <<"">> /\ n.id[2] = n.kind
  BY TellsParts
<1>6. \A m, n : Tells(s, m) /\ Tells(s, n) /\ m.id = n.id => m = n
  BY DEF Tells
<1>7. ParentsExist(Project(s))
  BY ProjectionNeverDangles
<1> HIDE DEF nodes, one, cluster
<1>8. \A a, b \in nodes : a.id = b.id => a = b
  <2> SUFFICES ASSUME NEW a \in nodes, NEW b \in nodes, a.id = b.id PROVE a = b
    OBVIOUS
  <2>1. a.id[2] = b.id[2] /\ a.id[1] = b.id[1]
    OBVIOUS
  <2>2. (a = cluster) = (a.id[2] = "cluster") /\ (b = cluster) = (b.id[2] = "cluster")
    BY <1>1, <1>3, <1>4, <1>5
  <2>3. CASE a # cluster
    <3>1. CASE Tells(s, a)
      <4>1. b \notin one
        BY <3>1, <2>1, <1>3, <1>5
      <4> QED
        BY <3>1, <4>1, <2>1, <2>2, <2>3, <1>1, <1>6
    <3>2. CASE a \in one
      <4>1. ~Tells(s, b)
        BY <3>2, <2>1, <1>3, <1>5
      <4> QED
        BY <3>2, <4>1, <2>1, <2>2, <2>3, <1>1, <1>2
    <3> QED
      BY <3>1, <3>2, <2>3, <1>1
  <2> QED
    BY <2>1, <2>2, <2>3
<1>9. \A n \in nodes : n.name # "" /\ n.id[4] # <<"">> /\ n.id[2] = n.kind
  BY <1>1, <1>3, <1>4, <1>5
<1> QED
  BY <1>7, <1>8, <1>9 DEF ValidNodes, nodes

\* The one node that has the UID of a collected object.
LEMMA CollectedIsDrawn ==
    ASSUME NEW s, IsDrawable(s), NEW o \in CollectedObjects(s)
    PROVE  LET n == ObjectNode(s, o, UIDsOf(s))
           IN  /\ n \in Project(s).nodes
               /\ NodesOf(Project(s), o.ref) = {n}
<1> DEFINE nodes == Project(s).nodes
           n == ObjectNode(s, o, UIDsOf(s))
           one == OnePerID(ObjectNodes(s))
<1>1. o \in ObjectsOf(s) /\ n \in ObjectNodes(s)
  BY DEF ObjectsOf, ObjectNodes
<1>2. /\ n.id = ObjectID(o, UIDsOf(s)) /\ n.name = o.ref.name /\ n.uid = o.ref.uid
      /\ n.id[3] = o.ref.namespace
  BY ObjectNodeParts, ObjectIDParts
<1>3. one \subseteq ObjectNodes(s) /\ NodeIDs(one) = NodeIDs(ObjectNodes(s))
  BY OnePerIDKeeps
<1>4. \A m \in ObjectNodes(s) : m.id = n.id \/ m.uid = n.uid => m = n
  <2> SUFFICES ASSUME NEW m \in ObjectNodes(s), m.id = n.id \/ m.uid = n.uid PROVE m = n
    OBVIOUS
  <2>1. PICK p \in ObjectsOf(s) : m = ObjectNode(s, p, UIDsOf(s))
    BY DEF ObjectNodes
  <2>2. m.id = ObjectID(p, UIDsOf(s)) /\ m.uid = p.ref.uid
    BY <2>1, ObjectNodeParts
  <2>3. ObjectID(p, UIDsOf(s)) = ObjectID(o, UIDsOf(s)) \/ p.ref.uid = o.ref.uid
    BY <2>2, <1>2
  <2> QED
    BY <2>1, <2>3, CollectedAreApart DEF IsDrawable
<1>5. n \in one
  <2>1. n.id \in NodeIDs(one)
    BY <1>1, <1>3 DEF NodeIDs
  <2>2. PICK m \in one : m.id = n.id
    BY <2>1 DEF NodeIDs
  <2> QED
    BY <2>2, <1>3, <1>4
<1>6. n \in nodes
  BY <1>5, GraphIs
<1>7. o.ref.uid # ""
  BY DEF IsDrawable, ObjectsAreKnown
<1>8. ClusterNode(s).uid = "" /\ \A m : Tells(s, m) => m.uid = ""
  BY ClusterNodeIs, TellsParts DEF IsDrawable
<1>9. \A m \in nodes : m.uid = o.ref.uid => m = n
  BY <1>2, <1>3, <1>4, <1>7, <1>8, NodesOfGraph
<1>10. NodesOf(Project(s), o.ref) = {n}
  <2> HIDE DEF n
  <2> QED
    BY <1>2, <1>6, <1>9 DEF NodesOf, nodes
<1> QED
  BY <1>6, <1>10

\* The name of an owner is that of the object that has its UID.
OwnersAreTold(s) ==
    \A i \in s.kubernetes.Workloads \cup s.kubernetes.Pods :
        \A owner \in ToSet(i.owners) :
            \A o \in CollectedObjects(s) : o.ref.uid = owner.uid => o.ref.name = owner.name

LEMMA LookupLeads ==
    ASSUME NEW pairs, NEW key, Lookup(pairs, key) # NoID
    PROVE  \E p \in pairs : p[1] = key /\ p[2] = Lookup(pairs, key)
<1> DEFINE is(q) == q \in pairs /\ q[1] = key
<1>1. \E q : is(q)
  BY DEF Lookup
<1>2. Lookup(pairs, key) = (CHOOSE q : is(q))[2]
  BY <1>1, Zenon DEF Lookup
<1>3. is(CHOOSE q : is(q))
  <2> HIDE DEF is
  <2> QED
    BY <1>1
<1> QED
  BY <1>2, <1>3

LEMMA FindsByName ==
    ASSUME NEW ids, NEW ref, FindObjectID(ids, ref) # NoID, Lookup(ids.uids, ref.uid) = NoID
    PROVE  \E kind : FindObjectID(ids, ref) = Lookup(ids.names, ObjectKey(ref, kind))
<1> DEFINE kinds == <<Lower(ref.kind), "pod", "service", "node", "endpoint-slice">>
           named(i) == Lookup(ids.names, ObjectKey(ref, kinds[i]))
           found == {i \in DOMAIN kinds : named(i) # NoID}
           byName == IF found = {} THEN NoID ELSE named(Min(found))
           byUID == Lookup(ids.uids, ref.uid)
<1>1. FindObjectID(ids, ref) =
        CASE ref.name = "" -> NoID
          [] ref.name # "" /\ ref.uid # "" /\ byUID # NoID -> byUID
          [] OTHER -> byName
  BY DEF FindObjectID
<1>2. byUID = NoID
  OBVIOUS
<1> HIDE DEF byName, byUID
<1>3. FindObjectID(ids, ref) = byName
  BY <1>1, <1>2, Zenon
<1> HIDE DEF found, named
<1>4. byName = named(Min(found))
  BY <1>3 DEF byName
<1>5. byName = Lookup(ids.names, ObjectKey(ref, kinds[Min(found)]))
  BY <1>4 DEF named
<1> QED
  BY <1>3, <1>5

LEMMA DrawAllDraws ==
    ASSUME NEW drawings, NEW d \in drawings
    PROVE  d.nodes \subseteq DrawAll(drawings).nodes /\ d.edges \subseteq DrawAll(drawings).edges
  BY DEF DrawAll, Drawn

LEMMA EdgeIs ==
    ASSUME NEW kind, NEW source, NEW target, NEW provider, NEW relation,
           source # NoID, target # NoID
    PROVE  \E e \in Edge(kind, source, target, provider, relation) :
                e.id = EdgeID(kind, source, target, provider)
  BY DEF Edge

LEMMA SameEdgeID ==
    \A a, b, c, d, k, l, m, n : EdgeID(a, b, c, d) = EdgeID(k, l, m, n) => a = k /\ b = l /\ c = m /\ d = n
<1>1. \A a, b, c, d, k, l, m, n : <<a, b, c, d>> = <<k, l, m, n>> => a = k /\ b = l /\ c = m /\ d = n
  OBVIOUS
<1> QED
  BY <1>1 DEF EdgeID

LEMMA OwnerRelationsAreDrawn ==
    ASSUME NEW s, NEW item \in s.kubernetes.Workloads \cup s.kubernetes.Pods
    PROVE  LET d == OwnerRelations(s, TablesOf(s), item)
           IN  d.nodes \subseteq DrawnOf(s).nodes /\ d.edges \subseteq DrawnOf(s).edges
<1> DEFINE ids == TablesOf(s)
           k == s.kubernetes
           d == OwnerRelations(s, ids, item)
           inner == {OwnerRelations(s, ids, i) : i \in k.Workloads \cup k.Pods}
                       \cup {Scheduling(ids, p) : p \in k.Pods}
                       \cup {ServiceRelations(s, ids, v) : v \in k.Services}
                       \cup {SliceRelations(s, ids, e) : e \in k.EndpointSlices}
           outer == {InternetAccess(s), KubernetesRelations(s, ids), EKSRelations(s, ids)}
<1>1. KubernetesRelations(s, ids) = DrawAll(inner)
  BY DEF KubernetesRelations
<1>2. DrawnOf(s) = DrawAll(outer)
  BY DEF DrawnOf, Relations
<1>3. d \in inner /\ KubernetesRelations(s, ids) \in outer
  OBVIOUS
<1> HIDE DEF d, inner, outer, ids
<1>4. d.nodes \subseteq DrawnOf(s).nodes /\ d.edges \subseteq DrawnOf(s).edges
  BY <1>1, <1>2, <1>3, DrawAllDraws
<1> QED
  BY <1>4 DEF d, ids

\* The drawing of one owner.
OwnerDrawn(s, item, owner) ==
    LET ids == TablesOf(s)
        parent == Resolve(s, ids, owner, owner.namespace)
        child == FindObjectID(ids, item.ref)
    IN  Drawn(parent.nodes,
              IF parent.known THEN Edge("ownership", parent.id, child, "kubernetes", "owns")
              ELSE Edge("declared", parent.id, child, "kubernetes", "unresolved-owner"))

LEMMA OwnerIsInDrawing ==
    ASSUME NEW s, NEW item \in s.kubernetes.Workloads \cup s.kubernetes.Pods,
           NEW owner \in ToSet(item.owners)
    PROVE  /\ OwnerDrawn(s, item, owner).nodes \subseteq DrawnOf(s).nodes
           /\ OwnerDrawn(s, item, owner).edges \subseteq DrawnOf(s).edges
<1> DEFINE drawings == {OwnerDrawn(s, item, o) : o \in ToSet(item.owners)}
<1>1. OwnerRelations(s, TablesOf(s), item) = DrawAll(drawings)
  BY DEF OwnerRelations, OwnerDrawn
<1>2. OwnerDrawn(s, item, owner) \in drawings
  OBVIOUS
<1> HIDE DEF drawings
<1> QED
  BY <1>1, <1>2, DrawAllDraws, OwnerRelationsAreDrawn

\* An edge to an object that some relation draws is in the graph, and what its
\* id tells is so.
LEMMA DrawnEdgeIsInGraph ==
    ASSUME NEW s, IsDrawable(s), NEW kind, NEW source, NEW target, NEW provider,
           target[2] # "namespace",
           \E e \in DrawnOf(s).edges : e.id = EdgeID(kind, source, target, provider)
    PROVE  \E e \in Project(s).edges :
                /\ e.source = source /\ e.target = target
                /\ kind = "ownership" /\ provider = "kubernetes" => e.relation = "owns"
<1> DEFINE containing == UNION {Edge("ownership", ClusterID(s), n.id, "kubernetes", "contains") :
                                    n \in NamespacesOf(s)}
           items == DrawnOf(s).edges \cup containing
           id == EdgeID(kind, source, target, provider)
<1>1. Project(s).edges = OnePerID(items)
  BY GraphIs
<1>2. id \in NodeIDs(items)
  BY DEF NodeIDs
<1>3. \A e \in DrawnOf(s).edges : Fits(e)
  BY RelationsTell DEF IsDrawable, DrawnOf, Telling
<1>4. \A e \in containing : \E n \in NamespacesOf(s) :
            e.id = EdgeID("ownership", ClusterID(s), n.id, "kubernetes")
  BY DEF Edge
<1> HIDE DEF containing
<1>5. \A e \in containing : e.id # id
  <2> SUFFICES ASSUME NEW e \in containing, e.id = id PROVE FALSE
    OBVIOUS
  <2>1. PICK n \in NamespacesOf(s) : e.id = EdgeID("ownership", ClusterID(s), n.id, "kubernetes")
    BY <1>4
  <2>2. n.id = target
    BY <2>1 DEF EdgeID
  <2> QED
    BY <2>2, NamespacesTell
<1> HIDE DEF items
<1>6. PICK e \in Project(s).edges : e.id = id
  <2>1. id \in NodeIDs(OnePerID(items))
    BY <1>2, OnePerIDKeeps
  <2> QED
    BY <1>1, <2>1 DEF NodeIDs
<1>7. Fits(e)
  <2>1. e \in items
    BY <1>1, <1>6, OnePerIDKeeps
  <2> QED
    BY <2>1, <1>3, <1>5, <1>6 DEF items
<1>8. e.kind = kind /\ e.source = source /\ e.target = target /\ e.provider = provider
  <2>1. EdgeID(e.kind, e.source, e.target, e.provider) = EdgeID(kind, source, target, provider)
    BY <1>6, <1>7 DEF Fits
  <2> QED
    BY <2>1 DEF EdgeID
<1> QED
  BY <1>6, <1>7, <1>8 DEF Fits

LEMMA CollectedItem ==
    ASSUME NEW s, NEW item \in s.kubernetes.Workloads \cup s.kubernetes.Pods
    PROVE  \E o \in CollectedObjects(s) : o.ref = item.ref
<1>1. [ref |-> item.ref, kind |-> "workload"] \in CollectedObjects(s)
        \/ [ref |-> item.ref, kind |-> "pod"] \in CollectedObjects(s)
  BY DEF CollectedObjects
<1> QED
  BY <1>1

\* Whatever the tables give for a name has that name.
LEMMA NamedIsDrawn ==
    ASSUME NEW s, IsDrawable(s), NEW ref, NEW kind,
           NEW p \in TablesOf(s).names, p[1] = ObjectKey(ref, kind)
    PROVE  \E n \in Project(s).nodes : n.id = p[2] /\ n.name = ref.name
<1> DEFINE unique == UIDsOf(s)
           keyOf(o, k) == ObjectKey(o.ref, k)
           idOf(o) == ObjectID(o, unique)
<1>1. TablesOf(s).names = (UNION {ObjectNames(o, unique) : o \in CollectedObjects(s)})
                            \cup NamesOfEKS(s)
  BY DEF TablesOf, Tables
<1>2. p[1][3] = ref.name
  BY TripleParts DEF ObjectKey
<1>3. CASE \E o \in CollectedObjects(s) : p \in ObjectNames(o, unique)
  <2>1. PICK o \in CollectedObjects(s) : p \in ObjectNames(o, unique)
    BY <1>3
  <2>2. PICK k : p = <<keyOf(o, k), idOf(o)>>
    BY <2>1 DEF ObjectNames
  <2>3. \A k1 : keyOf(o, k1)[3] = o.ref.name
    BY TripleParts DEF ObjectKey
  <2>4. idOf(o) = ObjectNode(s, o, unique).id /\ ObjectNode(s, o, unique).name = o.ref.name
    BY ObjectNodeParts
  <2> HIDE DEF keyOf, idOf, unique
  <2>5. p[1] = keyOf(o, k) /\ p[2] = idOf(o)
    BY <2>2, PairParts
  <2>6. o.ref.name = ref.name
    BY <1>2, <2>3, <2>5
  <2>7. ObjectNode(s, o, unique) \in Project(s).nodes
    BY CollectedIsDrawn DEF unique
  <2> QED
    BY <2>4, <2>5, <2>6, <2>7
<1>4. CASE p \in NamesOfEKS(s)
  <2>1. p[2] \in NodeIDs(DrawnOf(s).nodes)
    BY <1>4, RelationsAreSound DEF DrawnOf
  <2>2. PICK n \in DrawnOf(s).nodes : n.id = p[2]
    BY <2>1 DEF NodeIDs
  <2>3. Tells(s, n)
    BY <2>2, RelationsTell DEF IsDrawable, DrawnOf, Telling
  <2>4. NameOf(s, p[2]) = p[1][3]
    BY <1>4, EKSNodesTell DEF IsDrawable
  <2>5. n.name = ref.name
    BY <1>2, <2>2, <2>3, <2>4, TellsParts
  <2>6. n \in Project(s).nodes
    BY <2>2, GraphIs
  <2> QED
    BY <2>2, <2>5, <2>6
<1> QED
  BY <1>1, <1>3, <1>4

LEMMA UIDsLead ==
    ASSUME NEW s, NEW uid, Lookup(TablesOf(s).uids, uid) # NoID
    PROVE  \E o \in CollectedObjects(s) : o.ref.uid = uid
<1> DEFINE unique == UIDsOf(s)
           uidOf(o) == o.ref.uid
           idOf(o) == ObjectID(o, unique)
           pairs == TablesOf(s).uids
<1>1. pairs = {<<uidOf(o), idOf(o)>> : o \in {q \in CollectedObjects(s) : q.ref.uid \in unique}}
  BY DEF TablesOf, Tables
<1>2. \E p \in pairs : p[1] = uid
  BY LookupLeads
<1> HIDE DEF pairs, idOf, uidOf, unique
<1>3. \A o : <<uidOf(o), idOf(o)>>[1] = uidOf(o)
  BY PairParts
<1>4. \E o \in CollectedObjects(s) : uidOf(o) = uid
  BY <1>1, <1>2, <1>3
<1> QED
  BY <1>4 DEF uidOf

\* An owner whose UID is that of a collected object is drawn as that object,
\* any other by its name or as a placeholder.
LEMMA OwnerIsDrawn ==
    ASSUME NEW s, IsDrawable(s), OwnersAreTold(s),
           NEW item \in s.kubernetes.Pods \cup s.kubernetes.Workloads,
           NEW owner \in ToSet(item.owners)
    PROVE  \E e \in Project(s).edges :
                /\ \E n \in NodesOf(Project(s), item.ref) : n.id = e.target
                /\ \E n \in Project(s).nodes :
                    /\ n.id = e.source /\ n.name = owner.name
                    /\ IF owner.uid \in {o.ref.uid : o \in CollectedObjects(s)}
                       THEN n.uid = owner.uid /\ e.relation = "owns"
                       ELSE n.kind = "pseudo-unresolved" \/ e.relation = "owns"
<1> DEFINE ids == TablesOf(s)
           child == FindObjectID(ids, item.ref)
           found == FindObjectID(ids, owner)
           parent == Resolve(s, ids, owner, owner.namespace)
           known == owner.uid \in {o.ref.uid : o \in CollectedObjects(s)}
<1>1. owner.name # ""
  BY DEF IsDrawable, OwnersAreNamed
<1>2. PICK o \in CollectedObjects(s) : o.ref = item.ref
  BY CollectedItem
<1>3. child = ObjectID(o, UIDsOf(s))
  <2>1. o.ref.name # "" /\ ObjectsAreKnown(s)
    BY DEF IsDrawable, ObjectsAreKnown
  <2>2. FindObjectID(ids, o.ref) = ObjectID(o, UIDsOf(s))
    BY <2>1, FoundByUID
  <2> QED
    BY <1>2, <2>2
<1>4. child # NoID /\ child[2] # "namespace"
  BY <1>3, ObjectIDParts, CollectedKinds DEF ObjectKinds
<1>5. \E n \in NodesOf(Project(s), item.ref) : n.id = child
  BY <1>2, <1>3, CollectedIsDrawn, ObjectNodeParts
<1>6. /\ OwnerDrawn(s, item, owner).nodes \subseteq DrawnOf(s).nodes
      /\ OwnerDrawn(s, item, owner).edges \subseteq DrawnOf(s).edges
  BY OwnerIsInDrawing
<1>7. CASE found # NoID
  <2>1. parent.id = found /\ parent.known
    BY <1>7 DEF Resolve
  <2>2. OwnerDrawn(s, item, owner).edges = Edge("ownership", found, child, "kubernetes", "owns")
    BY <2>1 DEF OwnerDrawn, Drawn
  <2> HIDE DEF child, found, parent
  <2>3. \E e \in DrawnOf(s).edges : e.id = EdgeID("ownership", found, child, "kubernetes")
    BY <1>4, <1>6, <1>7, <2>2, EdgeIs
  <2>4. PICK e \in Project(s).edges : e.source = found /\ e.target = child /\ e.relation = "owns"
    BY <1>4, <2>3, DrawnEdgeIsInGraph
  <2>5. CASE known
    <3>1. PICK q \in CollectedObjects(s) : q.ref.uid = owner.uid
      BY <2>5
    <3>2. q.ref.name = owner.name
      BY <3>1 DEF OwnersAreTold
    <3>3. found = ObjectID(q, UIDsOf(s))
      BY <1>1, <3>1, FoundByUID DEF IsDrawable, found
    <3>4. /\ ObjectNode(s, q, UIDsOf(s)) \in Project(s).nodes
          /\ ObjectNode(s, q, UIDsOf(s)).id = found
          /\ ObjectNode(s, q, UIDsOf(s)).name = owner.name
          /\ ObjectNode(s, q, UIDsOf(s)).uid = owner.uid
      BY <3>1, <3>2, <3>3, CollectedIsDrawn, ObjectNodeParts
    <3> HIDE DEF known
    <3> QED
      BY <1>5, <2>4, <2>5, <3>4 DEF known
  <2>6. CASE ~known
    <3>1. Lookup(ids.uids, owner.uid) = NoID
      BY <2>6, UIDsLead
    <3>2. PICK kind : found = Lookup(ids.names, ObjectKey(owner, kind))
      BY <1>7, <3>1, FindsByName DEF found
    <3>3. PICK p \in ids.names : p[1] = ObjectKey(owner, kind) /\ p[2] = found
      BY <1>7, <3>2, LookupLeads
    <3>4. PICK n \in Project(s).nodes : n.id = found /\ n.name = owner.name
      BY <3>3, NamedIsDrawn
    <3> QED
      BY <1>5, <2>4, <2>6, <3>4
  <2> QED
    BY <2>5, <2>6
<1>8. CASE found = NoID
  <2> DEFINE node == Placeholder(s, "kubernetes", "unresolved",
                                 ObjectKey(owner, Lower(owner.kind)), owner.namespace, owner.name)
  <2>1. parent = [id |-> node.id, known |-> FALSE, nodes |-> {node}]
    BY <1>8 DEF Resolve
  <2>2. OwnerDrawn(s, item, owner)
          = Drawn({node}, Edge("declared", node.id, child, "kubernetes", "unresolved-owner"))
    BY <2>1 DEF OwnerDrawn
  <2>3. node.kind = "pseudo-unresolved" /\ node.name = owner.name /\ node.id # NoID
    BY QuadParts DEF Placeholder, GraphNode, PseudoKind, PseudoNodeID, NodeID
  <2>4. ~known
    <3> SUFFICES ASSUME known PROVE FALSE
      OBVIOUS
    <3>1. PICK q \in CollectedObjects(s) : q.ref.uid = owner.uid
      OBVIOUS
    <3>2. found = ObjectID(q, UIDsOf(s))
      BY <1>1, <3>1, FoundByUID DEF IsDrawable
    <3> QED
      BY <1>8, <3>2, ObjectIDParts
  <2> HIDE DEF child, found, parent, node, known
  <2>5. /\ OwnerDrawn(s, item, owner).nodes = {node}
        /\ OwnerDrawn(s, item, owner).edges
             = Edge("declared", node.id, child, "kubernetes", "unresolved-owner")
    BY <2>2 DEF Drawn
  <2>6. node \in Project(s).nodes
    BY <1>6, <2>5, GraphIs
  <2>7. \E e \in DrawnOf(s).edges : e.id = EdgeID("declared", node.id, child, "kubernetes")
    BY <1>4, <1>6, <2>3, <2>5, EdgeIs
  <2>8. PICK e \in Project(s).edges : e.source = node.id /\ e.target = child
    BY <1>4, <2>7, DrawnEdgeIsInGraph
  <2> QED
    BY <1>5, <2>3, <2>4, <2>6, <2>8 DEF known
<1> QED
  BY <1>7, <1>8

GraphStatuses == {"complete", "partial", "unavailable", "unknown"}

\* Of some statuses one is the worst.
LEMMA WorstIsOne ==
    ASSUME NEW found \in SUBSET GraphStatuses, found # {}
    PROVE  \E x \in found : \A y \in found : CoverageRank(y) <= CoverageRank(x)
<1>1. /\ CoverageRank("unavailable") = 3 /\ CoverageRank("partial") = 2
      /\ CoverageRank("unknown") = 1 /\ CoverageRank("complete") = 0
  BY DEF CoverageRank
<1>2. CASE "unavailable" \in found
  BY <1>1, <1>2 DEF GraphStatuses
<1>3. CASE "unavailable" \notin found /\ "partial" \in found
  BY <1>1, <1>3 DEF GraphStatuses
<1>4. CASE found \subseteq {"complete", "unknown"} /\ "unknown" \in found
  BY <1>1, <1>4
<1>5. CASE found = {"complete"}
  BY <1>1, <1>5
<1> QED
  BY <1>2, <1>3, <1>4, <1>5 DEF GraphStatuses

\* Coverage has one item for each list, and one for what no snapshot can tell.
LEMMA CoverageIsValid ==
    ASSUME NEW s, \A c \in s.coverage : c.area # "external"
    PROVE  ValidCoverage(Project(s))
<1> DEFINE statuses(area, resource) == {GraphStatus(c.status) : c \in Items(s, area, resource)}
           worst(found) == CHOOSE x \in found : \A y \in found : CoverageRank(y) <= CoverageRank(x)
           status(area, resource) == worst(statuses(area, resource))
           item(area, resource) == [provider |-> area, capability |-> resource,
                                    status |-> status(area, resource)]
           rest == [provider |-> "external", capability |-> "runtime-connections",
                    status |-> "unavailable"]
           all == Project(s).coverage
<1>1. all = {item(c.area, c.resource) : c \in s.coverage} \cup {rest}
  BY GraphIs DEF MergedCoverage
<1>2. ASSUME NEW c \in s.coverage
      PROVE  status(c.area, c.resource) \in GraphStatuses
  <2> DEFINE found == statuses(c.area, c.resource)
  <2>1. \A x : GraphStatus(x) \in GraphStatuses
    BY DEF GraphStatus, GraphStatuses
  <2>2. found \in SUBSET GraphStatuses /\ GraphStatus(c.status) \in found
    BY <2>1 DEF Items
  <2> HIDE DEF found
  <2>3. worst(found) \in found
    BY <2>2, WorstIsOne
  <2> QED
    BY <2>2, <2>3 DEF found
<1> HIDE DEF status
<1>3. /\ \A a, r : item(a, r).provider = a /\ item(a, r).capability = r
                   /\ item(a, r).status = status(a, r)
      /\ rest.provider = "external" /\ rest.capability = "runtime-connections"
      /\ rest.status = "unavailable"
  OBVIOUS
<1> HIDE DEF item, rest, all
<1>4. \A x \in all : x.status \in GraphStatuses
  BY <1>1, <1>2, <1>3 DEF GraphStatuses
<1>5. \A x \in all : x = rest \/ (x.provider # "external" /\ x = item(x.provider, x.capability))
  BY <1>1, <1>3
<1>6. ASSUME NEW a \in all, NEW b \in all,
             <<a.provider, a.capability>> = <<b.provider, b.capability>>
      PROVE  a = b
  <2>1. a.provider = b.provider /\ a.capability = b.capability
    BY <1>6
  <2> QED
    BY <1>3, <1>5, <2>1
<1>7. rest \in all
  BY <1>1
<1> QED
  BY <1>3, <1>4, <1>6, <1>7 DEF ValidCoverage, GraphStatuses, all

\* Each collected object is one node.
LEMMA CollectedIsOneNode ==
    ASSUME NEW s, IsDrawable(s), NEW o \in CollectedObjects(s)
    PROVE  Cardinality(NodesOf(Project(s), o.ref)) = 1
<1>1. NodesOf(Project(s), o.ref) = {ObjectNode(s, o, UIDsOf(s))}
  BY CollectedIsDrawn
<1> QED
  BY <1>1, FS_Singleton

(***************************************************************************)
(* The graph of a scan.                                                    *)
(***************************************************************************)
\* No collector takes the area of what no snapshot can tell.
AreasAreCollected == \A c \in coverage : c.area # "external"

LEMMA AreasStayCollected ==
    ASSUME CoverageInv, ListsEnd(world), AreasAreCollected, [Next]_vars
    PROVE  AreasAreCollected'
<1>1. CASE coverage' = coverage
  BY <1>1 DEF AreasAreCollected
<1>2. CASE CollectAws
  <2>1. PICK outcome : CallAws(outcome)
    BY <1>2 DEF CollectAws
  <2>2. /\ AwsGivesUp \/ AwsRecorded \/ AwsDescribing
        /\ Head(awsTodo).op \in AwsOps
    BY <2>1, AwsCallKeepsCoverage, AwsTailIsOrdered DEF CoverageInv, ListsEnd
  <2>3. CASE AwsGivesUp \/ AwsDescribing
    BY <1>1, <2>3 DEF AwsGivesUp, AwsDescribing
  <2>4. CASE AwsRecorded
    <3>1. PICK c : c.area = AwsArea[Head(awsTodo).op] /\ coverage' = coverage \cup {c}
      BY <2>4 DEF AwsRecorded
    <3>2. \A op \in AwsOps : AwsArea[op] # "external"
      BY AwsOpKeys DEF AwsArea
    <3> QED
      BY <2>2, <3>1, <3>2 DEF AreasAreCollected
  <2> QED
    BY <2>2, <2>3, <2>4
<1>3. CASE CollectKubernetes
  <2>1. CoverageGrows
    BY <1>3, KubernetesKeepsCoverage
  <2> QED
    BY <2>1 DEF CoverageGrows, AreasAreCollected
<1>4. CASE Change \/ UNCHANGED vars
  BY <1>1, <1>4 DEF Change, vars
<1> QED
  BY <1>2, <1>3, <1>4 DEF Next

(***************************************************************************)
(* What was read of the account.                                           *)
(***************************************************************************)
\* The items of the account that the graph is drawn from were there.
AccountItemsWere ==
    /\ \A c \in eks.Cluster : \E w \in history : c.name = w.aws.Cluster.name
    /\ \A f \in {"Nodegroups", "Addons"} : \A x \in eks[f] :
            \E w \in history : x.name \in DOMAIN w.aws[f]
    /\ \A i \in eks.Instances : \E w \in history : i.instanceID \in DOMAIN w.aws.Instances

InsightWas(x) ==
    \E w \in history : /\ x.id \in DOMAIN w.aws.Insights
                       /\ LET i == w.aws.Insights[x.id]
                          IN  x \in {MapInsight(x.id, i), MapInsightSummary(x.id, i)}

\* An insight that is still to be described was listed.
InsightWasListed(c) ==
    \E w \in history : c.name \in DOMAIN w.aws.Insights /\ c.listed = {w.aws.Insights[c.name]}

AsksInsight(c) == c.op = "Insights"

\* No insight is asked for twice, nor again after it was read.
OncePerName(t) ==
    \A i, j \in DOMAIN t :
        AsksInsight(t[i]) /\ AsksInsight(t[j]) /\ t[i].name = t[j].name => i = j

InsightsInv ==
    /\ OncePerName(awsTodo)
    /\ \A c \in ToSet(awsTodo) : AsksInsight(c) =>
            /\ DescribesOne(c) => InsightWasListed(c)
            /\ \A x \in eks.Insights : DescribesOne(c) /\ c.name # x.id
            /\ \A d \in ToSet(awsTodo) : AsksInsight(d) /\ DescribesOne(d) => DescribesOne(c)
    /\ \A x \in eks.Insights : InsightWas(x)
    /\ \A x, y \in eks.Insights : x.id = y.id => x = y

\* What the requests are after a call.
LEMMA NextRequests ==
    ASSUME NEW outcome, CallAws(outcome)
    PROVE  /\ awsTodo # <<>>
           /\ \/ awsTodo' \in {awsTodo, Tail(awsTodo)}
              \/ /\ Head(awsTodo).op \in Families
                 /\ awsTodo' = WithoutFamily(Head(awsTodo).op)
              \/ /\ Head(awsTodo).op \in Families /\ ~DescribesOne(Head(awsTodo))
                 /\ awsTodo' = SetToSeq({Describe(Head(awsTodo).op, n) :
                                            n \in DOMAIN world.aws[Head(awsTodo).op]})
                                \o Tail(awsTodo)
<1>1. CASE ListFamily(outcome)
  <2>1. PICK family \in Families :
            /\ AwsRunning(family) /\ Head(awsTodo).name = ""
            /\ \/ AwsContinue(SetToSeq({Describe(family, m) : m \in DOMAIN world.aws[family]})
                              \o Tail(awsTodo))
               \/ AwsContinue(Tail(awsTodo))
    BY <1>1, Zenon DEF ListFamily
  <2> QED
    BY <2>1 DEF AwsRunning, AwsContinue, DescribesOne
<1>2. CASE DescribeOne(outcome)
  <2>1. PICK family \in Families :
            /\ AwsRunning(family)
            /\ \/ AwsContinue(Tail(awsTodo))
               \/ AwsContinue(WithoutFamily(family))
    BY <1>2, Zenon DEF DescribeOne
  <2> QED
    BY <2>1 DEF AwsRunning, AwsContinue
<1>3. CASE GetCallerIdentity(outcome) \/ DescribeCluster(outcome)
  BY <1>3 DEF GetCallerIdentity, DescribeCluster, AwsRunning, AwsContinue
<1>4. CASE \/ DescribeAutoScalingGroups(outcome) \/ DescribeInstances(outcome)
           \/ DescribeVpcs(outcome) \/ DescribeSubnets(outcome)
           \/ DescribeSecurityGroups(outcome) \/ DescribeScalingActivities(outcome)
  <2>1. (\E op : AwsRunning(op)) /\ AwsContinue(Tail(awsTodo))
    BY <1>4, Zenon DEF DescribeAutoScalingGroups, DescribeInstances, DescribeVpcs, DescribeSubnets,
       DescribeSecurityGroups, DescribeScalingActivities, RecordInfrastructure
  <2> QED
    BY <2>1 DEF AwsRunning, AwsContinue
<1>5. CASE DescribeRouteTables(outcome)
  <2>1. (\E op : AwsRunning(op)) /\ AwsContinue(Tail(awsTodo))
    BY <1>5, Zenon DEF DescribeRouteTables
  <2> QED
    BY <2>1 DEF AwsRunning, AwsContinue
<1> QED
  BY <1>1, <1>2, <1>3, <1>4, <1>5 DEF CallAws

LEMMA OnceInPart ==
    ASSUME NEW t, NEW u, NEW k \in Int, OncePerName(t),
           \A i \in DOMAIN u : i \in Int /\ i + k \in DOMAIN t /\ u[i] = t[i + k]
    PROVE  OncePerName(u)
<1> SUFFICES ASSUME NEW i \in DOMAIN u, NEW j \in DOMAIN u,
                    AsksInsight(u[i]), AsksInsight(u[j]), u[i].name = u[j].name
             PROVE  i = j
  BY DEF OncePerName
<1>1. i + k \in DOMAIN t /\ j + k \in DOMAIN t /\ u[i] = t[i + k] /\ u[j] = t[j + k]
  OBVIOUS
<1>2. i + k = j + k
  BY <1>1 DEF OncePerName
<1>3. i \in Int /\ j \in Int /\ k \in Int
  OBVIOUS
<1>4. \A x, y, z \in Int : x + z = y + z => x = y
  OBVIOUS
<1> QED
  BY <1>2, <1>3, <1>4

LEMMA OnceInTail ==
    ASSUME NEW t, IsASeq(t), t # <<>>, OncePerName(t)
    PROVE  OncePerName(Tail(t))
<1> DEFINE u == Tail(t)
<1>1. DOMAIN u = 1..(Len(t) - 1) /\ \A i \in DOMAIN u : i + 1 \in DOMAIN t /\ u[i] = t[i + 1]
  BY TailOf
<1> HIDE DEF u
<1>2. 1 \in Int /\ \A i \in DOMAIN u : i \in Int
  BY <1>1
<1>3. OncePerName(u)
  BY <1>1, <1>2, OnceInPart
<1> QED
  BY <1>3 DEF u

LEMMA OnceWithoutFamily ==
    ASSUME AwsOrdered(awsTodo), awsTodo # <<>>, OncePerName(awsTodo), NEW family
    PROVE  OncePerName(WithoutFamily(family))
<1> DEFINE t == awsTodo
           others == {i \in DOMAIN t : t[i].op # family}
           m == Min(others)
           rest == SubSeq(t, m, Len(t))
<1>1. IsASeq(t) /\ Len(t) \in Nat /\ DOMAIN t = 1..Len(t)
  BY TailOf DEF AwsOrdered
<1>2. CASE others = {}
  <2>1. WithoutFamily(family) = <<>> /\ DOMAIN <<>> = {}
    BY <1>2 DEF WithoutFamily
  <2> QED
    BY <2>1 DEF OncePerName
<1>3. CASE others # {}
  <2>1. WithoutFamily(family) = rest
    BY <1>3 DEF WithoutFamily
  <2>2. others \subseteq Nat
    BY <1>1
  <2>3. m \in others
    <3> HIDE DEF others
    <3> QED
      BY <1>3, <2>2, SmallestOf
  <2> HIDE DEF m
  <2>4. m \in DOMAIN t /\ m \in Nat
    BY <1>1, <2>3
  <2>5. /\ DOMAIN rest = 1..(Len(t) - m + 1)
        /\ \A i \in DOMAIN rest : i + m - 1 \in DOMAIN t /\ rest[i] = t[i + m - 1]
    BY <1>1, <2>4, EndOf
  <2> HIDE DEF rest
  <2> DEFINE k == m - 1
  <2>6. k \in Int /\ \A i \in DOMAIN rest : i \in Int /\ i + k = i + m - 1
    BY <1>1, <2>4, <2>5
  <2> HIDE DEF k
  <2>8. \A i \in DOMAIN rest : i \in Int /\ i + k \in DOMAIN t /\ rest[i] = t[i + k]
    BY <2>5, <2>6
  <2>7. OncePerName(rest)
    BY <2>6, <2>8, OnceInPart
  <2> QED
    BY <2>1, <2>7
<1> QED
  BY <1>2, <1>3

\* Two parts, one of which asks for no insight.
LEMMA OnceInConcat ==
    ASSUME NEW a, NEW b, IsASeq(a), IsASeq(b), OncePerName(a), OncePerName(b),
           \/ \A c \in ToSet(a) : ~AsksInsight(c)
           \/ \A c \in ToSet(b) : ~AsksInsight(c)
    PROVE  OncePerName(a \o b)
<1> DEFINE t == a \o b
           n == Len(a)
<1>5. /\ DOMAIN t = 1..(Len(a) + Len(b)) /\ Len(a) \in Nat /\ Len(b) \in Nat
      /\ \A i \in DOMAIN t :
                \/ i \in DOMAIN a /\ i <= n /\ t[i] = a[i]
                \/ i > n /\ i - n \in DOMAIN b /\ t[i] = b[i - n]
  BY ConcatOf
<1> HIDE DEF t
<1>1. n \in Nat /\ \A i \in DOMAIN t : i \in Int
  BY <1>5
<1> HIDE DEF n
<1>2. \/ \A i \in DOMAIN a : ~AsksInsight(a[i])
      \/ \A i \in DOMAIN b : ~AsksInsight(b[i])
  BY DEF ToSet
<1> SUFFICES ASSUME NEW i \in DOMAIN t, NEW j \in DOMAIN t, AsksInsight(t[i]), AsksInsight(t[j]),
                    t[i].name = t[j].name
             PROVE  i = j
  BY DEF OncePerName, t
<1>3. CASE \A k \in DOMAIN a : ~AsksInsight(a[k])
  <2>1. i - n \in DOMAIN b /\ j - n \in DOMAIN b /\ t[i] = b[i - n] /\ t[j] = b[j - n]
    BY <1>1, <1>3, <1>5
  <2>2. i - n = j - n
    BY <2>1 DEF OncePerName
  <2> QED
    BY <1>1, <2>2
<1>4. CASE \A k \in DOMAIN b : ~AsksInsight(b[k])
  <2>1. i \in DOMAIN a /\ j \in DOMAIN a /\ t[i] = a[i] /\ t[j] = a[j]
    BY <1>4, <1>5
  <2> QED
    BY <2>1 DEF OncePerName
<1> QED
  BY <1>2, <1>3, <1>4

\* A list has one request for each of its names.
LEMMA DescribedOnce ==
    ASSUME NEW family, NEW names, IsFiniteSet(names)
    PROVE  LET asked == {Describe(family, n) : n \in names}
               calls == SetToSeq(asked)
           IN  IsASeq(calls) /\ ToSet(calls) = asked /\ OncePerName(calls)
<1> DEFINE f == [n \in names |-> Describe(family, n)]
           asked == {Describe(family, n) : n \in names}
           calls == SetToSeq(asked)
<1>1. IsFiniteSet(asked)
  <2>1. DOMAIN f = names /\ asked = {f[n] : n \in DOMAIN f}
    OBVIOUS
  <2> HIDE DEF f
  <2> QED
    BY <2>1, ImageIsFinite
<1>2. \A n : Describe(family, n).name = n
  BY DEF Describe
<1>3. \A c, d \in asked : c.name = d.name => c = d
  BY <1>2
<1> HIDE DEF asked
<1>4. calls \in Seq(asked) /\ ToSet(calls) = asked /\ IsInjective(calls)
  BY <1>1, EveryMemberOnce
<1>5. IsASeq(calls)
  BY <1>4, SeqOfItsMembers
<1> HIDE DEF calls
<1>6. OncePerName(calls)
  <2>1. \A i \in DOMAIN calls : calls[i] \in asked
    BY <1>4 DEF ToSet
  <2>2. \A i, j \in DOMAIN calls : calls[i] = calls[j] => i = j
    BY <1>4 DEF IsInjective
  <2> QED
    BY <1>3, <2>1, <2>2 DEF OncePerName
<1> QED
  BY <1>4, <1>5, <1>6 DEF asked, calls

LEMMA InsightsStart == Init => InsightsInv
<1> SUFFICES ASSUME Init PROVE InsightsInv
  OBVIOUS
<1>1. eks.Insights = {} /\ awsTodo = AwsProgram
  BY DEF Init, AwsInit, EmptyEKS, EKSLists
<1>2. AwsOrdered(awsTodo) /\ \A c \in ToSet(awsTodo) : ~DescribesOne(c)
  <2>1. \A op : ~DescribesOne(Request(op))
    BY DEF DescribesOne, Request
  <2>2. \A c \in ToSet(AwsProgram) : \E op : c = Request(op)
    BY DEF ToSet, AwsProgram
  <2> QED
    BY <1>1, <2>1, <2>2, AwsProgramIsOrdered
<1>3. OncePerName(awsTodo)
  <2> SUFFICES ASSUME NEW i \in DOMAIN awsTodo, NEW j \in DOMAIN awsTodo,
                      awsTodo[i].op = awsTodo[j].op
               PROVE  i = j
    BY DEF OncePerName, AsksInsight
  <2>1. ASSUME NEW k \in DOMAIN awsTodo, NEW l \in DOMAIN awsTodo, k < l
        PROVE  awsTodo[k].op # awsTodo[l].op
    BY <1>2, <2>1, RanksAreOrdered DEF AwsOrdered, ToSet
  <2>2. DOMAIN awsTodo \subseteq Nat
    BY <1>1 DEF AwsProgram
  <2>3. i < j \/ j < i \/ i = j
    BY <2>2
  <2> QED
    BY <2>1, <2>3
<1> QED
  BY <1>1, <1>2, <1>3 DEF InsightsInv

LEMMA InsightsLast ==
    ASSUME history \subseteq history'
    PROVE  /\ \A x : InsightWas(x) => InsightWas(x)'
           /\ \A c : InsightWasListed(c) => InsightWasListed(c)'
BY DEF InsightWas, InsightWasListed

\* Requests that are left and the same insights.
LEMMA FewerRequests ==
    ASSUME InsightsInv, history \subseteq history', eks'.Insights = eks.Insights,
           OncePerName(awsTodo'),
           \A c \in ToSet(awsTodo') : AsksInsight(c) => c \in ToSet(awsTodo)
    PROVE  InsightsInv'
BY InsightsLast DEF InsightsInv

LEMMA RestIsLeft ==
    ASSUME AwsOrdered(awsTodo), awsTodo # <<>>, OncePerName(awsTodo),
           awsTodo' \in {Tail(awsTodo), WithoutFamily(Head(awsTodo).op)}
    PROVE  /\ OncePerName(awsTodo') /\ ToSet(awsTodo') \subseteq ToSet(awsTodo)
           /\ AsksInsight(Head(awsTodo)) =>
                \A c \in ToSet(awsTodo') : AsksInsight(c) => c.name # Head(awsTodo).name
<1>1. IsASeq(awsTodo)
  BY DEF AwsOrdered
<1>2. CASE awsTodo' = Tail(awsTodo)
  <2>1. OncePerName(awsTodo')
    BY <1>1, <1>2, OnceInTail
  <2>2. /\ Head(awsTodo) = awsTodo[1] /\ 1 \in DOMAIN awsTodo
        /\ ToSet(awsTodo) = {Head(awsTodo)} \cup ToSet(Tail(awsTodo))
        /\ DOMAIN Tail(awsTodo) = 1..(Len(awsTodo) - 1) /\ Len(awsTodo) \in Nat
        /\ \A i \in DOMAIN Tail(awsTodo) :
                i + 1 \in DOMAIN awsTodo /\ Tail(awsTodo)[i] = awsTodo[i + 1]
    BY <1>1, TailOf
  <2>3. ASSUME AsksInsight(Head(awsTodo)), NEW c \in ToSet(Tail(awsTodo)), AsksInsight(c)
        PROVE  c.name # Head(awsTodo).name
    <3>1. PICK i \in DOMAIN Tail(awsTodo) : c = Tail(awsTodo)[i]
      BY <2>3 DEF ToSet
    <3>2. i + 1 # 1 /\ i + 1 \in DOMAIN awsTodo /\ c = awsTodo[i + 1]
      BY <2>2, <3>1
    <3> QED
      BY <2>2, <2>3, <3>2 DEF OncePerName
  <2> QED
    BY <1>2, <2>1, <2>2, <2>3
<1>3. CASE awsTodo' = WithoutFamily(Head(awsTodo).op)
  <2>1. ToSet(awsTodo') = {c \in ToSet(awsTodo) : c.op # Head(awsTodo).op}
    BY <1>3, AwsRestOfFamily
  <2> QED
    BY <1>3, <2>1, OnceWithoutFamily DEF AsksInsight
<1> QED
  BY <1>2, <1>3

\* The insights are listed when none has been read.
LEMMA InsightsAreListed ==
    ASSUME AwsOrdered(awsTodo), AwsNamed(world), world \in history, history' = history,
           InsightsInv, awsTodo # <<>>, eks'.Insights = eks.Insights,
           Head(awsTodo).op = "Insights", ~DescribesOne(Head(awsTodo)),
           awsTodo' = SetToSeq({Describe("Insights", n) : n \in DOMAIN world.aws["Insights"]})
                        \o Tail(awsTodo)
    PROVE  InsightsInv'
<1> DEFINE names == DOMAIN world.aws["Insights"]
           asked == {Describe("Insights", n) : n \in names}
           calls == SetToSeq(asked)
<1>1. IsFiniteSet(names) /\ "" \notin names
  BY DEF AwsNamed, Families
<1>2. IsASeq(calls) /\ ToSet(calls) = asked /\ OncePerName(calls)
  BY <1>1, DescribedOnce
<1>3. IsASeq(Tail(awsTodo)) /\ OncePerName(Tail(awsTodo)) /\ Head(awsTodo) \in ToSet(awsTodo)
  BY TailOf, OnceInTail DEF AwsOrdered, InsightsInv
<1>4. \A c \in ToSet(Tail(awsTodo)) : ~AsksInsight(c)
  BY AwsTailIsOrdered, RanksAreOrdered DEF AsksInsight
<1>5. eks.Insights = {}
  BY <1>3 DEF InsightsInv, AsksInsight
<1>6. \A n \in names : LET c == Describe("Insights", n)
                       IN  DescribesOne(c) /\ c.name = n /\ c.listed = {world.aws["Insights"][n]}
  BY <1>1 DEF Describe, DescribesOne
<1>7. \A c \in asked : DescribesOne(c) /\ InsightWasListed(c)'
  BY <1>6 DEF InsightWasListed
<1> HIDE DEF asked, calls
<1>8. OncePerName(awsTodo') /\ ToSet(awsTodo') = asked \cup ToSet(Tail(awsTodo))
  <2>1. awsTodo' = calls \o Tail(awsTodo)
    BY DEF calls, asked
  <2> QED
    BY <1>2, <1>3, <1>4, <2>1, OnceInConcat, ConcatOf
<1> QED
  BY <1>4, <1>5, <1>7, <1>8 DEF InsightsInv

\* An insight that is described, or taken from its summary, was in the account.
LEMMA DescribedInsight ==
    ASSUME NEW outcome, DescribeOne(outcome), Head(awsTodo).op = "Insights",
           DOMAIN eks = EKSLists, InsightsInv, AwsOrdered(awsTodo), world \in history
    PROVE  /\ awsTodo # <<>> /\ DescribesOne(Head(awsTodo))
           /\ awsTodo' \in {Tail(awsTodo), WithoutFamily(Head(awsTodo).op)}
           /\ \E new : /\ eks'.Insights = eks.Insights \cup new
                       /\ \A x \in new : x.id = Head(awsTodo).name /\ InsightWas(x)
                       /\ \A x, y \in new : x = y
<1> DEFINE m == Head(awsTodo).name
<1>1. PICK family \in Families :
            /\ AwsRunning(family) /\ Head(awsTodo).name # ""
            /\ \/ /\ Head(awsTodo).name \in DOMAIN world.aws[family]
                  /\ eks' = [eks EXCEPT ![family] = eks[family] \cup
                                {MapDescribed(family, Head(awsTodo).name,
                                              world.aws[family][Head(awsTodo).name])}]
               \/ family = "Insights" /\
                  eks' = [eks EXCEPT ![family] = eks[family] \cup
                             {MapInsightSummary(Head(awsTodo).name, i) : i \in Head(awsTodo).listed}]
               \/ family # "Insights"
            /\ AwsContinue(Tail(awsTodo)) \/ AwsContinue(WithoutFamily(family))
  BY Zenon DEF DescribeOne
<1>2. family = "Insights" /\ awsTodo # <<>>
  BY <1>1 DEF AwsRunning
<1>3. /\ DescribesOne(Head(awsTodo))
      /\ awsTodo' \in {Tail(awsTodo), WithoutFamily(Head(awsTodo).op)}
  BY <1>1, <1>2 DEF DescribesOne, AwsContinue
<1>4. "Insights" \in DOMAIN eks
  BY DEF EKSLists
<1>5. CASE /\ m \in DOMAIN world.aws["Insights"]
           /\ eks' = [eks EXCEPT !["Insights"] = eks["Insights"] \cup
                          {MapDescribed("Insights", m, world.aws["Insights"][m])}]
  <2> DEFINE x == MapDescribed("Insights", m, world.aws["Insights"][m])
  <2>1. x = MapInsight(m, world.aws.Insights[m])
    BY Zenon DEF MapDescribed
  <2>2. x.id = m
    BY <2>1 DEF MapInsight, MapInsightSummary
  <2>3. InsightWas(x)
    BY <1>5, <2>1, <2>2 DEF InsightWas
  <2> HIDE DEF x, m
  <2>4. eks'.Insights = eks.Insights \cup {x}
    BY <1>4, <1>5 DEF x
  <2> DEFINE new == {x}
  <2>5. \A y \in new : y.id = Head(awsTodo).name /\ InsightWas(y)
    BY <2>2, <2>3 DEF m
  <2>6. \A y, z \in new : y = z
    OBVIOUS
  <2>7. eks'.Insights = eks.Insights \cup new
    BY <2>4
  <2> HIDE DEF new
  <2> QED
    BY <1>2, <1>3, <2>5, <2>6, <2>7
<1>6. CASE eks' = [eks EXCEPT !["Insights"] = eks["Insights"] \cup
                       {MapInsightSummary(m, i) : i \in Head(awsTodo).listed}]
  <2>1. Head(awsTodo) \in ToSet(awsTodo)
    BY <1>2, TailOf DEF AwsOrdered
  <2>2. InsightWasListed(Head(awsTodo))
    BY <1>3, <2>1 DEF InsightsInv, AsksInsight
  <2>3. PICK w \in history : m \in DOMAIN w.aws.Insights /\ Head(awsTodo).listed = {w.aws.Insights[m]}
    BY <2>2 DEF InsightWasListed
  <2> DEFINE x == MapInsightSummary(m, w.aws.Insights[m])
  <2>4. x.id = m
    BY DEF MapInsightSummary
  <2>5. InsightWas(x)
    BY <2>3, <2>4 DEF InsightWas
  <2>6. {MapInsightSummary(m, i) : i \in Head(awsTodo).listed} = {x}
    BY <2>3
  <2> HIDE DEF x, m
  <2>7. eks'.Insights = eks.Insights \cup {x}
    BY <1>4, <1>6, <2>6
  <2> DEFINE new == {x}
  <2>8. \A y \in new : y.id = Head(awsTodo).name /\ InsightWas(y)
    BY <2>4, <2>5 DEF m
  <2>9. \A y, z \in new : y = z
    OBVIOUS
  <2>10. eks'.Insights = eks.Insights \cup new
    BY <2>7
  <2> HIDE DEF new
  <2> QED
    BY <1>2, <1>3, <2>8, <2>9, <2>10
<1> QED
  BY <1>1, <1>2, <1>5, <1>6

LEMMA InsightIsDescribed ==
    ASSUME NEW outcome, DescribeOne(outcome), Head(awsTodo).op = "Insights",
           DOMAIN eks = EKSLists, InsightsInv, AwsOrdered(awsTodo), world \in history,
           history' = history
    PROVE  InsightsInv'
<1>1. /\ awsTodo # <<>> /\ DescribesOne(Head(awsTodo)) /\ AsksInsight(Head(awsTodo))
      /\ awsTodo' \in {Tail(awsTodo), WithoutFamily(Head(awsTodo).op)}
  BY DescribedInsight DEF AsksInsight
<1>2. PICK new : /\ eks'.Insights = eks.Insights \cup new
                 /\ \A x \in new : x.id = Head(awsTodo).name /\ InsightWas(x)
                 /\ \A x, y \in new : x = y
  BY DescribedInsight
<1>3. /\ OncePerName(awsTodo') /\ ToSet(awsTodo') \subseteq ToSet(awsTodo)
      /\ \A c \in ToSet(awsTodo') : AsksInsight(c) => c.name # Head(awsTodo).name
  BY <1>1, RestIsLeft DEF InsightsInv
<1>4. Head(awsTodo) \in ToSet(awsTodo)
  BY <1>1, TailOf DEF AwsOrdered
<1>5. (\A x : InsightWas(x) => InsightWas(x)') /\ \A c : InsightWasListed(c) => InsightWasListed(c)'
  BY InsightsLast
<1>6. ASSUME NEW c \in ToSet(awsTodo'), AsksInsight(c)
      PROVE  /\ DescribesOne(c) /\ InsightWasListed(c)'
             /\ \A x \in eks'.Insights : c.name # x.id
  BY <1>1, <1>2, <1>3, <1>4, <1>5, <1>6 DEF InsightsInv
<1>7. \A x \in eks'.Insights : InsightWas(x)'
  BY <1>2, <1>5 DEF InsightsInv
<1>8. \A x, y \in eks'.Insights : x.id = y.id => x = y
  BY <1>1, <1>2, <1>4 DEF InsightsInv
<1> QED
  BY <1>3, <1>6, <1>7, <1>8 DEF InsightsInv

\* A call for something else leaves the insights and the requests for them.
LEMMA OthersLeaveInsights ==
    ASSUME NEW outcome, CallAws(outcome), Head(awsTodo).op # "Insights",
           DOMAIN eks = EKSLists, InsightsInv, AwsOrdered(awsTodo), AwsNamed(world),
           history' = history
    PROVE  InsightsInv'
<1>1. eks'.Insights = eks.Insights
  <2>1. "Insights" \in Families
    BY DEF Families
  <2> QED
    BY <2>1, OtherFamiliesStay
<1>2. awsTodo # <<>>
  BY NextRequests
<1>3. OncePerName(awsTodo') /\ \A c \in ToSet(awsTodo') : AsksInsight(c) => c \in ToSet(awsTodo)
  <2>1. CASE awsTodo' = awsTodo
    BY <2>1 DEF InsightsInv
  <2>2. CASE awsTodo' \in {Tail(awsTodo), WithoutFamily(Head(awsTodo).op)}
    BY <1>2, <2>2, RestIsLeft DEF InsightsInv
  <2>3. ASSUME Head(awsTodo).op \in Families,
               awsTodo' = SetToSeq({Describe(Head(awsTodo).op, n) :
                                       n \in DOMAIN world.aws[Head(awsTodo).op]}) \o Tail(awsTodo)
        PROVE  OncePerName(awsTodo') /\ \A c \in ToSet(awsTodo') : AsksInsight(c) => c \in ToSet(awsTodo)
    <3> DEFINE family == Head(awsTodo).op
               names == DOMAIN world.aws[family]
               asked == {Describe(family, n) : n \in names}
               calls == SetToSeq(asked)
    <3>1. IsFiniteSet(names)
      BY <2>3 DEF AwsNamed
    <3> HIDE DEF names, family
    <3>2. IsASeq(calls) /\ ToSet(calls) = asked /\ OncePerName(calls)
      BY <3>1, DescribedOnce
    <3>3. \A c \in asked : ~AsksInsight(c)
      BY DEF Describe, AsksInsight, family
    <3>4. /\ IsASeq(Tail(awsTodo)) /\ OncePerName(Tail(awsTodo))
          /\ ToSet(Tail(awsTodo)) \subseteq ToSet(awsTodo)
      BY <1>2, TailOf, OnceInTail DEF AwsOrdered, InsightsInv
    <3>5. awsTodo' = calls \o Tail(awsTodo)
      BY <2>3 DEF family, names
    <3> HIDE DEF asked, calls
    <3>6. OncePerName(awsTodo') /\ ToSet(awsTodo') = asked \cup ToSet(Tail(awsTodo))
      BY <3>2, <3>3, <3>4, <3>5, OnceInConcat, ConcatOf
    <3> QED
      BY <3>3, <3>4, <3>6
  <2> QED
    BY <2>1, <2>2, <2>3, NextRequests
<1> QED
  BY <1>1, <1>3, FewerRequests

LEMMA InsightsAreKept ==
    ASSUME CoverageInv, HistoryInv, ListsEnd(world), InsightsInv, [Next]_vars
    PROVE  InsightsInv'
<1>1. CASE CollectAws
  <2>1. PICK outcome : CallAws(outcome) /\ history' = history
    BY <1>1 DEF CollectAws
  <2>2. /\ AwsOrdered(awsTodo) /\ AwsNamed(world) /\ DOMAIN eks = EKSLists /\ world \in history
        /\ awsTodo # <<>>
    BY <2>1, NextRequests DEF CoverageInv, ListsEnd, HistoryInv
  <2>3. CASE Head(awsTodo).op # "Insights"
    BY <2>1, <2>2, <2>3, OthersLeaveInsights
  <2>4. CASE Head(awsTodo).op = "Insights" /\ DescribeOne(outcome)
    BY <2>1, <2>2, <2>4, InsightIsDescribed
  <2>5. CASE Head(awsTodo).op = "Insights" /\ ListFamily(outcome)
    <3>1. eks'.Insights = eks.Insights /\ ~DescribesOne(Head(awsTodo))
      BY <2>5 DEF ListFamily, DescribesOne
    <3>2. CASE awsTodo' \in {Tail(awsTodo), WithoutFamily(Head(awsTodo).op)}
      BY <2>1, <2>2, <3>1, <3>2, RestIsLeft, FewerRequests DEF InsightsInv
    <3>3. CASE awsTodo' = awsTodo
      BY <2>1, <3>1, <3>3, FewerRequests DEF InsightsInv
    <3>4. CASE awsTodo' = SetToSeq({Describe(Head(awsTodo).op, n) :
                                       n \in DOMAIN world.aws[Head(awsTodo).op]}) \o Tail(awsTodo)
      <4>1. awsTodo' = SetToSeq({Describe("Insights", n) : n \in DOMAIN world.aws["Insights"]})
                         \o Tail(awsTodo)
        BY <2>5, <3>4
      <4> QED
        BY <2>1, <2>2, <2>5, <3>1, <4>1, InsightsAreListed
    <3> QED
      BY <2>1, <3>2, <3>3, <3>4, NextRequests
  <2> QED
    <3>1. "Insights" \in Families
      BY DEF Families
    <3> QED
      BY <2>1, <2>3, <2>4, <2>5, <3>1, FamilyCalls
<1>2. CASE CollectKubernetes \/ Change \/ UNCHANGED vars
  <2>1. eks' = eks /\ awsTodo' = awsTodo
    BY <1>2 DEF CollectKubernetes, Change, awsVars, vars
  <2>2. history \subseteq history'
    BY HistoryGrows DEF HistoryInv
  <2> QED
    BY <2>1, <2>2, FewerRequests DEF InsightsInv
<1> QED
  BY <1>1, <1>2 DEF Next

\* The cluster of the snapshot is the one that was described.
LEMMA ClusterIsDescribed ==
    ASSUME DOMAIN eks = EKSLists, NEW outcome, CallAws(outcome)
    PROVE  eks'.Cluster \in {eks.Cluster, {MapCluster(world.aws.Cluster)}}
<1>1. "Cluster" \in DOMAIN eks
  BY DEF EKSLists
<1>2. \/ eks' = eks
      \/ eks' = [eks EXCEPT !["Cluster"] = {MapCluster(world.aws.Cluster)}]
      \/ \E list, items : list # "Cluster" /\ eks' = [eks EXCEPT ![list] = items]
  <2>1. CASE GetCallerIdentity(outcome)
    BY <2>1 DEF GetCallerIdentity
  <2>2. CASE DescribeCluster(outcome)
    BY <2>2 DEF DescribeCluster
  <2>3. CASE ListFamily(outcome)
    BY <2>3 DEF ListFamily
  <2>4. CASE DescribeOne(outcome)
    <3>1. PICK family \in Families : \E items : eks' = [eks EXCEPT ![family] = items]
      BY <2>4, Zenon DEF DescribeOne
    <3>2. family # "Cluster"
      BY DEF Families
    <3> QED
      BY <3>1, <3>2
  <2>5. CASE \E list \in {"AutoScalingGroups", "Instances", "VPCs", "Subnets", "SecurityGroups",
                          "ScalingActivities"} : \E items : eks' = [eks EXCEPT ![list] = items]
    BY <2>5
  <2>6. CASE DescribeAutoScalingGroups(outcome)
    <3>1. \E items : eks' = [eks EXCEPT !["AutoScalingGroups"] = items]
      BY <2>6, Zenon DEF DescribeAutoScalingGroups, RecordInfrastructure
    <3> QED
      BY <2>5, <3>1
  <2>7. CASE DescribeInstances(outcome)
    <3>1. \E items : eks' = [eks EXCEPT !["Instances"] = items]
      BY <2>7, Zenon DEF DescribeInstances, RecordInfrastructure
    <3> QED
      BY <2>5, <3>1
  <2>8. CASE DescribeVpcs(outcome)
    <3>1. \E items : eks' = [eks EXCEPT !["VPCs"] = items]
      BY <2>8, Zenon DEF DescribeVpcs, RecordInfrastructure
    <3> QED
      BY <2>5, <3>1
  <2>9. CASE DescribeSubnets(outcome)
    <3>1. \E items : eks' = [eks EXCEPT !["Subnets"] = items]
      BY <2>9, Zenon DEF DescribeSubnets, RecordInfrastructure
    <3> QED
      BY <2>5, <3>1
  <2>10. CASE DescribeRouteTables(outcome)
    <3>1. \E tables : eks' = [eks EXCEPT !.Subnets = ApplyRouteTables(@, tables)]
      BY <2>10, Zenon DEF DescribeRouteTables
    <3>2. \E items : eks' = [eks EXCEPT !["Subnets"] = items]
      BY <3>1
    <3> QED
      BY <2>5, <3>2
  <2>11. CASE DescribeSecurityGroups(outcome)
    <3>1. \E items : eks' = [eks EXCEPT !["SecurityGroups"] = items]
      BY <2>11, Zenon DEF DescribeSecurityGroups, RecordInfrastructure
    <3> QED
      BY <2>5, <3>1
  <2>12. CASE DescribeScalingActivities(outcome)
    <3>1. \E items : eks' = [eks EXCEPT !["ScalingActivities"] = items]
      BY <2>12, Zenon DEF DescribeScalingActivities, RecordInfrastructure
    <3> QED
      BY <2>5, <3>1
  <2> QED
    BY <2>1, <2>2, <2>3, <2>4, <2>6, <2>7, <2>8, <2>9, <2>10, <2>11, <2>12 DEF CallAws
<1> QED
  BY <1>1, <1>2

\* Add-ons and node groups are described by the names of the world.
LEMMA NamesAreDescribed ==
    ASSUME DOMAIN eks = EKSLists, NEW outcome, CallAws(outcome), NEW f \in {"Nodegroups", "Addons"},
           NEW x \in eks'[f], x \notin eks[f]
    PROVE  x.name \in DOMAIN world.aws[f]
<1>1. f \in Families /\ f \in DOMAIN eks /\ f # "Insights"
  BY DEF Families, EKSLists
<1>2. Head(awsTodo).op = f
  BY <1>1, OtherFamiliesStay
<1>3. DescribeOne(outcome)
  <2>1. CASE ListFamily(outcome)
    BY <2>1 DEF ListFamily
  <2> QED
    BY <1>1, <1>2, <2>1, FamilyCalls
<1>4. PICK family \in Families :
            /\ AwsRunning(family)
            /\ \/ /\ Head(awsTodo).name \in DOMAIN world.aws[family]
                  /\ eks' = [eks EXCEPT ![family] = eks[family] \cup
                                {MapDescribed(family, Head(awsTodo).name,
                                              world.aws[family][Head(awsTodo).name])}]
               \/ family = "Insights"
               \/ eks' = [eks EXCEPT ![family] = eks[family] \cup {}]
  BY <1>3, Zenon DEF DescribeOne
<1>5. family = f
  BY <1>2, <1>4 DEF AwsRunning
<1> DEFINE m == Head(awsTodo).name
           one == MapDescribed(f, m, world.aws[f][m])
<1>6. m \in DOMAIN world.aws[f] /\ x = one
  <2> HIDE DEF one
  <2>1. \/ m \in DOMAIN world.aws[f] /\ eks' = [eks EXCEPT ![f] = eks[f] \cup {one}]
        \/ eks' = [eks EXCEPT ![f] = eks[f] \cup {}]
    BY <1>1, <1>4, <1>5 DEF one
  <2> QED
    BY <1>1, <2>1
<1>7. one.name = m
  <2>1. CASE f = "Nodegroups"
    <3>1. one = MapNodegroup(m, world.aws[f][m])
      BY <2>1, Zenon DEF MapDescribed
    <3> QED
      BY <3>1 DEF MapNodegroup
  <2>2. CASE f = "Addons"
    <3>1. one = MapAddon(m, world.aws[f][m])
      BY <2>2, Zenon DEF MapDescribed
    <3> QED
      BY <3>1 DEF MapAddon
  <2> QED
    BY <2>1, <2>2
<1> QED
  BY <1>6, <1>7

LEMMA InstancesAreDescribed ==
    ASSUME DOMAIN eks = EKSLists, NEW outcome, CallAws(outcome),
           NEW x \in eks'.Instances, x \notin eks.Instances
    PROVE  x.instanceID \in DOMAIN world.aws.Instances
<1>1. Head(awsTodo).op = "DescribeInstances"
  BY CallsChangeOwnLists DEF OnlyOwnListChanges
<1>2. DescribeInstances(outcome)
  <2>1. Head(awsTodo).op \notin Families
    BY <1>1 DEF Families
  <2> QED
    BY <1>1, <2>1 DEF CallAws, AwsRunning, GetCallerIdentity, DescribeCluster,
       DescribeAutoScalingGroups, ListFamily, DescribeOne, DescribeVpcs, DescribeSubnets,
       DescribeRouteTables, DescribeSecurityGroups, DescribeScalingActivities
<1> DEFINE seen == Answered(outcome, RequestedInstances, DOMAIN world.aws.Instances)
<1> DEFINE group(id) == CHOOSE g \in eks.AutoScalingGroups : id \in g.instanceIDs
           read(id) == MapEC2Instance(id, world.aws.Instances[id], group(id).name,
                                      group(id).nodegroupName, group(id).instances[id])
<1>3. eks' = [eks EXCEPT !["Instances"] = {read(id) : id \in seen}]
  BY <1>2, Zenon DEF DescribeInstances, RecordInfrastructure
<1>4. \A id \in seen : read(id).instanceID = id
  BY DEF MapEC2Instance
<1>5. seen \subseteq DOMAIN world.aws.Instances
  BY DEF Answered
<1> HIDE DEF seen, read
<1>6. eks'.Instances = {read(id) : id \in seen}
  BY <1>3 DEF EKSLists
<1> QED
  BY <1>4, <1>5, <1>6

LEMMA AccountItemsStay ==
    ASSUME HistoryInv, AccountItemsWere, [Next]_vars
    PROVE  AccountItemsWere'
<1>1. history \subseteq history' /\ world \in history
  BY HistoryGrows DEF HistoryInv
<1>2. CASE CollectAws
  <2>1. PICK outcome : CallAws(outcome) /\ history' = history
    BY <1>2 DEF CollectAws
  <2>2. DOMAIN eks = EKSLists
    BY DEF HistoryInv
  <2>3. \A c \in eks'.Cluster : \E w \in history : c.name = w.aws.Cluster.name
    <3>1. MapCluster(world.aws.Cluster).name = world.aws.Cluster.name
      BY DEF MapCluster
    <3>2. eks'.Cluster \in {eks.Cluster, {MapCluster(world.aws.Cluster)}}
      BY <2>1, <2>2, ClusterIsDescribed
    <3> QED
      BY <1>1, <3>1, <3>2 DEF AccountItemsWere
  <2>4. ASSUME NEW f \in {"Nodegroups", "Addons"}, NEW x \in eks'[f]
        PROVE  \E w \in history : x.name \in DOMAIN w.aws[f]
    BY <1>1, <2>1, <2>2, NamesAreDescribed DEF AccountItemsWere
  <2>5. ASSUME NEW x \in eks'.Instances
        PROVE  \E w \in history : x.instanceID \in DOMAIN w.aws.Instances
    BY <1>1, <2>1, <2>2, InstancesAreDescribed DEF AccountItemsWere
  <2> QED
    BY <2>1, <2>3, <2>4, <2>5 DEF AccountItemsWere
<1>3. CASE CollectKubernetes \/ Change \/ UNCHANGED vars
  <2>1. eks' = eks
    BY <1>3 DEF CollectKubernetes, Change, awsVars, vars
  <2> QED
    BY <1>1, <2>1 DEF AccountItemsWere
<1> QED
  BY <1>2, <1>3 DEF Next

(***************************************************************************)
(* The gateway classes.                                                    *)
(***************************************************************************)
IsAClass(w, c) == \E v : c \in ClassesOf(w, v)

ClassItemsWere == \A c \in kubernetes["GatewayClasses"] : \E w \in history : IsAClass(w, c)

LEMMA OnlyClassesAreAdded ==
    ASSUME DOMAIN kubernetes = KubernetesLists, NEW outcome, ListGatewayResource(outcome),
           Head(todo).resource = "GatewayClasses",
           NEW c \in kubernetes'["GatewayClasses"], c \notin kubernetes["GatewayClasses"]
    PROVE  IsAClass(world, c)
<1> DEFINE call == Head(todo)
           visible == {i \in world.kubernetes["GatewayClasses"] :
                            call.fallback => i.namespace = ContextNamespace}
           candidates == IF call.candidates # <<>> THEN call.candidates
                         ELSE GatewayCandidates("GatewayClasses", kubernetes.APIResources)
           version == candidates[1].version
           items == {MapGatewayItem("GatewayClasses", version, i) : i \in visible}
<1>1. \/ UNCHANGED <<kubernetes, coverage, scan>>
      \/ GatewayCallEnds("GatewayClasses", items,
                         Complete("kubernetes", "GatewayClasses", Cardinality(items)))
      \/ \E item : GatewayCallEnds("GatewayClasses", {}, item)
  BY DEF ListGatewayResource
<1>2. ASSUME NEW read, NEW item, GatewayCallEnds("GatewayClasses", read, item)
      PROVE  kubernetes'["GatewayClasses"] = kubernetes["GatewayClasses"] \cup read
  <2> DEFINE all == kubernetes["GatewayClasses"] \cup read
             lists == [kubernetes EXCEPT !["GatewayClasses"] = all]
  <2>1. ListOf("GatewayClasses") = "GatewayClasses"
    BY CallSets DEF ListOf, InCalls
  <2>2. Continue(lists, Tail(todo))
    BY <1>2, <2>1 DEF GatewayCallEnds
  <2>3. DOMAIN lists = KubernetesLists /\ lists["GatewayClasses"] = all
    BY DEF KubernetesLists
  <2> HIDE DEF lists
  <2> QED
    BY <2>2, <2>3, ContinueReads DEF KubernetesLists
<1>3. CASE GatewayCallEnds("GatewayClasses", items,
                              Complete("kubernetes", "GatewayClasses", Cardinality(items)))
  <2>1. items \subseteq ClassesOf(world, version)
    BY DEF ClassesOf
  <2> HIDE DEF items, version
  <2>2. kubernetes'["GatewayClasses"] = kubernetes["GatewayClasses"] \cup items
    BY <1>2, <1>3
  <2> QED
    BY <2>1, <2>2 DEF IsAClass
<1>4. CASE \E item : GatewayCallEnds("GatewayClasses", {}, item)
  <2>1. PICK item : GatewayCallEnds("GatewayClasses", {}, item)
    BY <1>4
  <2>2. kubernetes'["GatewayClasses"] = kubernetes["GatewayClasses"] \cup {}
    BY <1>2, <2>1
  <2> QED
    BY <2>2
<1> QED
  BY <1>1, <1>3, <1>4

LEMMA ClassItemsStay ==
    ASSUME PlainInv, ClassItemsWere, [Next]_vars
    PROVE  ClassItemsWere'
<1>1. history \subseteq history' /\ world \in history
  BY HistoryGrows DEF PlainInv
<1>2. CASE CollectKubernetes
  <2>1. PICK outcome : CallKubernetes(outcome)
    BY <1>2 DEF CollectKubernetes
  <2>2. DOMAIN kubernetes = KubernetesLists
    BY DEF PlainInv
  <2>3. CASE Head(todo).resource # "GatewayClasses"
    <3>1. "GatewayClasses" \in ClassLists
      BY DEF ClassLists
    <3>2. kubernetes'["GatewayClasses"] = kubernetes["GatewayClasses"]
      BY <2>1, <2>2, <2>3, <3>1, OtherCallsLeave
    <3> QED
      BY <1>1, <3>2 DEF ClassItemsWere, IsAClass, ClassesOf
  <2>4. CASE Head(todo).resource = "GatewayClasses"
    <3>1. ListGatewayResource(outcome)
      BY <2>1, <2>4, CallSets, NotPlain DEF CallKubernetes, CheckServerVersion, ListResource,
         ListInstances, DiscoverAPIResources, GatewayTypes
    <3>2. \A c \in kubernetes'["GatewayClasses"] :
                c \in kubernetes["GatewayClasses"] \/ IsAClass(world, c)
      BY <2>2, <2>4, <3>1, OnlyClassesAreAdded
    <3> QED
      BY <1>1, <3>2 DEF ClassItemsWere, IsAClass, ClassesOf
  <2> QED
    BY <2>3, <2>4
<1>3. CASE CollectAws \/ Change \/ UNCHANGED vars
  <2>1. kubernetes' = kubernetes
    BY <1>3 DEF CollectAws, Change, kubernetesVars, vars
  <2> QED
    BY <1>1, <2>1 DEF ClassItemsWere, IsAClass, ClassesOf
<1> QED
  BY <1>2, <1>3 DEF Next

(***************************************************************************)
(* What the evidence of the advisor names.                                 *)
(***************************************************************************)
\* The lists whose items are evidence, with the kind of their items.
EvidenceKinds ==
    [IngressClasses |-> "IngressClass", GatewayClasses |-> "GatewayClass",
     StorageClasses |-> "StorageClass", PersistentVolumes |-> "PersistentVolume",
     PersistentVolumeClaims |-> "PersistentVolumeClaim",
     CustomResourceDefinitions |-> "CustomResourceDefinition"]

\* An item of such a list, a node, or what an API of AWS names.
IsEvidence(s, r) ==
    \/ \E l \in DOMAIN EvidenceKinds : \E i \in s.kubernetes[l] : r = i.ref
    \/ \E n \in s.kubernetes.Nodes : r = n.ref
    \/ r.uid = "" /\ r.kind \in {"EKSInsight", "EKSInsightResource", "Addon", "Nodegroup"}

\* A conclusion rests on the given evidence.
RestsOn(c, evidence) ==
    \E key, scope, implementation, assessment, basis, covered :
        c = Capability(key, scope, implementation, assessment, basis, covered, evidence)

LEMMA RestsOnEvidence ==
    \A c, evidence : RestsOn(c, evidence) => c.evidence = evidence
BY DEF RestsOn, Capability

LEMMA ClassEvidence ==
    ASSUME NEW s, NEW c, c \in IngressCapabilities(s) \cup GatewayCapabilities(s)
                                \cup ExtensionCapabilities(s)
    PROVE  \A e \in c.evidence : IsEvidence(s, e)
<1> DEFINE k == s.kubernetes
<1>1. c \in IngressCapabilities(s) =>
        RestsOn(c, {}) \/ \E i \in k.IngressClasses : RestsOn(c, {i.ref})
  BY Zenon DEF IngressCapabilities, RestsOn
<1>2. c \in GatewayCapabilities(s) =>
        RestsOn(c, {}) \/ \E i \in k.GatewayClasses : RestsOn(c, {i.ref})
  BY Zenon DEF GatewayCapabilities, RestsOn
<1>3. c \in ExtensionCapabilities(s) =>
        RestsOn(c, {}) \/ \E i \in k.CustomResourceDefinitions : RestsOn(c, {i.ref})
  BY Zenon DEF ExtensionCapabilities, RestsOn
<1>4. \/ RestsOn(c, {})
      \/ \E i \in k.IngressClasses \cup k.GatewayClasses \cup k.CustomResourceDefinitions :
            RestsOn(c, {i.ref})
  BY <1>1, <1>2, <1>3
<1>5. \A i \in k.IngressClasses \cup k.GatewayClasses \cup k.CustomResourceDefinitions :
            IsEvidence(s, i.ref)
  BY DEF IsEvidence, EvidenceKinds
<1> QED
  BY <1>4, <1>5, RestsOnEvidence

LEMMA StorageEvidence ==
    ASSUME NEW s, NEW c \in StorageCapabilities(s)
    PROVE  \A e \in c.evidence : IsEvidence(s, e)
<1> DEFINE k == s.kubernetes
           bound(x) == BoundVolumes(s, x.ref.name)
           all(x) == {x.ref} \cup {b[1].ref : b \in bound(x)} \cup {b[2].ref : b \in bound(x)}
<1>1. /\ \A i \in k.StorageClasses : IsEvidence(s, i.ref)
      /\ \A i \in k.PersistentVolumeClaims : IsEvidence(s, i.ref)
      /\ \A i \in k.PersistentVolumes : IsEvidence(s, i.ref)
  BY DEF IsEvidence, EvidenceKinds
<1>2. \A x : c = RwxCapability(s, x) => RestsOn(c, all(x))
  BY Zenon DEF RwxCapability, RestsOn
<1>3. \A x : c = ExpansionCapability(s, x) => RestsOn(c, {x.ref})
  BY Zenon DEF ExpansionCapability, RestsOn
<1>4. \A x : \A b \in bound(x) : b[1] \in k.PersistentVolumeClaims /\ b[2] \in k.PersistentVolumes
  BY DEF BoundVolumes
<1> HIDE DEF bound
<1>5. \A x \in k.StorageClasses : \A e \in all(x) : IsEvidence(s, e)
  BY <1>1, <1>4
<1>6. \/ RestsOn(c, {})
      \/ \E x \in k.StorageClasses : c \in {RwxCapability(s, x), ExpansionCapability(s, x)}
  BY Zenon DEF StorageCapabilities, RestsOn
<1> HIDE DEF all
<1>7. \/ RestsOn(c, {})
      \/ \E x \in k.StorageClasses : RestsOn(c, all(x)) \/ RestsOn(c, {x.ref})
  BY <1>2, <1>3, <1>6
<1> QED
  BY <1>1, <1>5, <1>7, RestsOnEvidence

\* References by name have no UID.
LEMMA NamedEvidence ==
    \A s, name :
        /\ IsEvidence(s, RefTo("", "EKSInsight", "", name))
        /\ IsEvidence(s, RefTo("", "EKSInsightResource", "", name))
        /\ IsEvidence(s, RefTo("", "Addon", "", name))
        /\ IsEvidence(s, RefTo("", "Nodegroup", "", name))
BY DEF IsEvidence, RefTo

LEMMA EKSEvidence ==
    ASSUME NEW s, NEW c, c \in InsightCapabilities(s) \cup AddonCapabilities(s)
    PROVE  \A e \in c.evidence : IsEvidence(s, e)
<1> DEFINE named(kind, name) == RefTo("", kind, "", name)
           ofInsight(i) == {named("EKSInsight", InsightScope(i))}
                                \cup {InsightResourceRef(r) : r \in i.resources}
<1>1. c \in InsightCapabilities(s) => RestsOn(c, {}) \/ \E i : RestsOn(c, ofInsight(i))
  BY Zenon DEF InsightCapabilities, EKSInsightCapability, RestsOn
<1>2. c \in AddonCapabilities(s) => \E a : RestsOn(c, {named("Addon", a.name)})
  BY Zenon DEF AddonCapabilities, RestsOn
<1>3. \A name : IsEvidence(s, named("Addon", name)) /\ IsEvidence(s, named("EKSInsight", name))
                /\ IsEvidence(s, named("EKSInsightResource", name))
  BY NamedEvidence
<1>4. \A r : \E name : InsightResourceRef(r) = named("EKSInsightResource", name)
  BY Zenon DEF InsightResourceRef
<1> HIDE DEF named
<1>5. \A i : \A e \in ofInsight(i) : IsEvidence(s, e)
  BY <1>3, <1>4
<1> HIDE DEF ofInsight
<1> QED
  BY <1>1, <1>2, <1>3, <1>5, RestsOnEvidence

LEMMA NodegroupEvidence ==
    ASSUME NEW s, NEW c, c \in NodegroupCapabilities(s) \cup UnmanagedNodeGroups(s)
    PROVE  \A e \in c.evidence : IsEvidence(s, e)
<1> DEFINE named(name) == RefTo("", "Nodegroup", "", name)
           nodes(scope) == {n \in s.kubernetes.Nodes : UnmanagedNodeScope(s, n) = scope}
           ofGroup(g) == {named(g.name)} \cup {n.ref : n \in NodesForNodegroup(s, g.name)}
<1>1. c \in NodegroupCapabilities(s) => \E g : RestsOn(c, ofGroup(g))
  BY Zenon DEF NodegroupCapabilities, RestsOn
<1>2. c \in UnmanagedNodeGroups(s) => \E scope : RestsOn(c, {n.ref : n \in nodes(scope)})
  BY Zenon DEF UnmanagedNodeGroups, RestsOn
<1>3. \A n \in s.kubernetes.Nodes : IsEvidence(s, n.ref)
  BY DEF IsEvidence
<1>4. \A name : IsEvidence(s, named(name))
  BY NamedEvidence
<1>5. \A name : NodesForNodegroup(s, name) \subseteq s.kubernetes.Nodes
  BY DEF NodesForNodegroup
<1> HIDE DEF named
<1>6. \A g : \A e \in ofGroup(g) : IsEvidence(s, e)
  BY <1>3, <1>4, <1>5
<1>7. \A scope : \A e \in {n.ref : n \in nodes(scope)} : IsEvidence(s, e)
  BY <1>3
<1> HIDE DEF ofGroup, nodes
<1> QED
  BY <1>1, <1>2, <1>6, <1>7, RestsOnEvidence

LEMMA EvidenceIs ==
    ASSUME NEW s, NEW r \in EvidenceRefs(s)
    PROVE  IsEvidence(s, r)
<1>1. PICK c \in Capabilities(s) : r \in c.evidence
  BY DEF EvidenceRefs
<1> QED
  BY <1>1, ClassEvidence, StorageEvidence, EKSEvidence, NodegroupEvidence DEF Capabilities

(***************************************************************************)
(* What was read is known.                                                 *)
(***************************************************************************)
\* The lists of the objects of the graph, with the kind of their nodes.
ObjectLists ==
    [Nodes |-> "node", Workloads |-> "workload", Pods |-> "pod", Services |-> "service",
     EndpointSlices |-> "endpoint-slice"]

LEMMA CollectedIs ==
    ASSUME NEW s, NEW o
    PROVE  o \in CollectedObjects(s) <=>
                \E l \in DOMAIN ObjectLists : \E i \in s.kubernetes[l] :
                    o = [ref |-> i.ref, kind |-> ObjectLists[l]]
BY DEF CollectedObjects, ObjectLists

LEMMA GraphLists == DOMAIN ObjectLists \subseteq PlainLists /\ DOMAIN ObjectLists \subseteq KubernetesLists
<1>1. \A l \in DOMAIN ObjectLists : \E r \in ListCalls : ListOf(r) = l
  <2>1. {"Nodes", "Deployments", "Pods", "Services", "EndpointSlices"} \subseteq ListCalls
    BY CallSets DEF ListCalls
  <2>2. /\ ListOf("Nodes") = "Nodes" /\ ListOf("Deployments") = "Workloads" /\ ListOf("Pods") = "Pods"
        /\ ListOf("Services") = "Services" /\ ListOf("EndpointSlices") = "EndpointSlices"
    BY CallSets DEF ListOf, InCalls
  <2> QED
    BY <2>1, <2>2 DEF ObjectLists
<1>2. DOMAIN ObjectLists \subseteq KubernetesLists
  BY DEF ObjectLists, KubernetesLists
<1> QED
  BY <1>1, <1>2 DEF PlainLists

LEMMA ReadIsIdeal ==
    ASSUME PlainInv, NEW l \in PlainLists, NEW i \in kubernetes[l]
    PROVE  \E w \in history : i \in Ideal(w).kubernetes[l]
<1>1. PICK r \in CallsOf(l), w \in history : i \in ListsOf(r, w.kubernetes)
  BY DEF PlainInv, WasThere
<1>2. i \in IdealList(w.kubernetes, l)
  BY <1>1 DEF IdealList
<1>3. l \in KubernetesLists
  BY ListNames
<1> QED
  BY <1>1, <1>2, <1>3 DEF Ideal

\* The objects of some worlds.
WorldObjects(worlds) == UNION {CollectedObjects(Ideal(w)) : w \in worlds}

LEMMA ObjectsWereThere ==
    ASSUME PlainInv, NEW o \in CollectedObjects(Snapshot)
    PROVE  o \in WorldObjects(history)
<1>1. PICK l \in DOMAIN ObjectLists : \E i \in Snapshot.kubernetes[l] :
                    o = [ref |-> i.ref, kind |-> ObjectLists[l]]
  BY CollectedIs
<1>2. PICK i \in kubernetes[l] : o = [ref |-> i.ref, kind |-> ObjectLists[l]]
  BY <1>1 DEF Snapshot
<1>3. PICK w \in history : i \in Ideal(w).kubernetes[l]
  BY GraphLists, ReadIsIdeal
<1>4. o \in CollectedObjects(Ideal(w))
  BY <1>2, <1>3, CollectedIs
<1> QED
  BY <1>3, <1>4 DEF WorldObjects

\* The UIDs of what only the evidence names.
EvidenceUIDs(w) == UNION {{i.uid : i \in w.kubernetes[l]} : l \in DOMAIN EvidenceKinds}

LEMMA EvidenceIsMapped ==
    ASSUME NEW k, NEW l \in DOMAIN EvidenceKinds \ {"GatewayClasses"}, NEW i \in ListsOf(l, k)
    PROVE  \E x \in k[l] : \E v : i.ref = Ref(v, EvidenceKinds[l], x)
<1>1. CASE l = "IngressClasses"
  <2>1. ListsOf("IngressClasses", k) = NetworkListing(k)["IngressClasses"]
    BY CallSets, NetworkingCallSet DEF ListsOf, InCalls
  <2>2. NetworkListing(k)["IngressClasses"] = {MapIngressClass(x) : x \in k.IngressClasses}
    BY DEF NetworkListing
  <2>3. PICK x \in k.IngressClasses : i = MapIngressClass(x)
    BY <1>1, <2>1, <2>2
  <2>4. i.ref = Ref("networking.k8s.io/v1", "IngressClass", x)
    BY <2>3 DEF MapIngressClass
  <2>5. EvidenceKinds[l] = "IngressClass"
    BY <1>1 DEF EvidenceKinds
  <2> QED
    BY <1>1, <2>4, <2>5
<1>2. CASE l = "CustomResourceDefinitions"
  <2>1. ListsOf("CustomResourceDefinitions", k) = ExtensionListing(k)["CustomResourceDefinitions"]
    BY CallSets, NetworkingCallSet DEF ListsOf, InCalls
  <2>2. ExtensionListing(k)["CustomResourceDefinitions"] = {MapCRD(x) : x \in k.CustomResourceDefinitions}
    BY DEF ExtensionListing
  <2>3. PICK x \in k.CustomResourceDefinitions : i = MapCRD(x)
    BY <1>2, <2>1, <2>2
  <2>4. i.ref = Ref("apiextensions.k8s.io/v1", "CustomResourceDefinition", x)
    BY <2>3 DEF MapCRD
  <2>5. EvidenceKinds[l] = "CustomResourceDefinition"
    BY <1>2 DEF EvidenceKinds
  <2> QED
    BY <1>2, <2>4, <2>5
<1>3. CASE l = "StorageClasses"
  <2>1. ListsOf("StorageClasses", k) = StorageListing(k)["StorageClasses"]
    BY CallSets, NetworkingCallSet DEF ListsOf, InCalls
  <2>2. StorageListing(k)["StorageClasses"] = {MapStorageClass(x) : x \in k.StorageClasses}
    BY DEF StorageListing
  <2>3. PICK x \in k.StorageClasses : i = MapStorageClass(x)
    BY <1>3, <2>1, <2>2
  <2>4. i.ref = Ref("storage.k8s.io/v1", "StorageClass", x)
    BY <2>3 DEF MapStorageClass
  <2>5. EvidenceKinds[l] = "StorageClass"
    BY <1>3 DEF EvidenceKinds
  <2> QED
    BY <1>3, <2>4, <2>5
<1>4. CASE l = "PersistentVolumes"
  <2>1. ListsOf("PersistentVolumes", k) = StorageListing(k)["PersistentVolumes"]
    BY CallSets, NetworkingCallSet DEF ListsOf, InCalls
  <2>2. StorageListing(k)["PersistentVolumes"] = {MapPersistentVolume(x) : x \in k.PersistentVolumes}
    BY DEF StorageListing
  <2>3. PICK x \in k.PersistentVolumes : i = MapPersistentVolume(x)
    BY <1>4, <2>1, <2>2
  <2>4. i.ref = Ref("v1", "PersistentVolume", x)
    BY <2>3 DEF MapPersistentVolume
  <2>5. EvidenceKinds[l] = "PersistentVolume"
    BY <1>4 DEF EvidenceKinds
  <2> QED
    BY <1>4, <2>4, <2>5
<1>5. CASE l = "PersistentVolumeClaims"
  <2>1. ListsOf("PersistentVolumeClaims", k) = StorageListing(k)["PersistentVolumeClaims"]
    BY CallSets, NetworkingCallSet DEF ListsOf, InCalls
  <2>2. StorageListing(k)["PersistentVolumeClaims"] = {MapPersistentVolumeClaim(x) : x \in k.PersistentVolumeClaims}
    BY DEF StorageListing
  <2>3. PICK x \in k.PersistentVolumeClaims : i = MapPersistentVolumeClaim(x)
    BY <1>5, <2>1, <2>2
  <2>4. i.ref = Ref("v1", "PersistentVolumeClaim", x)
    BY <2>3 DEF MapPersistentVolumeClaim
  <2>5. EvidenceKinds[l] = "PersistentVolumeClaim"
    BY <1>5 DEF EvidenceKinds
  <2> QED
    BY <1>5, <2>4, <2>5
<1> QED
  BY <1>1, <1>2, <1>3, <1>4, <1>5 DEF EvidenceKinds

LEMMA EvidenceWasThere ==
    ASSUME PlainInv, ClassItemsWere, NEW l \in DOMAIN EvidenceKinds, NEW i \in kubernetes[l]
    PROVE  /\ i.ref.kind = EvidenceKinds[l]
           /\ \E w \in history : i.ref.uid \in EvidenceUIDs(w)
<1>1. PICK w \in history : \E x \in w.kubernetes[l] : \E v : i.ref = Ref(v, EvidenceKinds[l], x)
  <2>1. CASE l = "GatewayClasses"
    <3>1. PICK w \in history : \E v : i \in ClassesOf(w, v)
      BY <2>1 DEF ClassItemsWere, IsAClass
    <3>5. PICK v : i \in ClassesOf(w, v)
      BY <3>1
    <3>2. PICK x \in w.kubernetes.GatewayClasses : i = MapGatewayItem("GatewayClasses", v, x)
      BY <3>5 DEF ClassesOf
    <3>3. i = MapGatewayClass(x, v)
      BY <3>2, CallSets DEF MapGatewayItem, InCalls
    <3>4. i.ref = Ref(GatewayAPIVersion(x, v), "GatewayClass", x)
      BY <3>3 DEF MapGatewayClass
    <3> QED
      BY <2>1, <3>2, <3>4 DEF EvidenceKinds
  <2>2. CASE l # "GatewayClasses"
    <3>1. l \in SingleCalls /\ l # "SecretsMetadata"
      BY <2>2 DEF EvidenceKinds, SingleCalls
    <3>2. CallsOf(l) = {l} /\ l \in PlainLists
      BY <3>1, SingleCallsFillOne
    <3>3. PICK w \in history : i \in ListsOf(l, w.kubernetes)
      BY <3>2 DEF PlainInv, WasThere
    <3>4. \E x \in w.kubernetes[l] : \E v : i.ref = Ref(v, EvidenceKinds[l], x)
      BY <2>2, <3>3, EvidenceIsMapped
    <3> QED
      BY <3>4
  <2> QED
    BY <2>1, <2>2
<1>2. PICK x \in w.kubernetes[l] : \E v : i.ref = Ref(v, EvidenceKinds[l], x)
  BY <1>1
<1>3. i.ref.kind = EvidenceKinds[l] /\ i.ref.uid = x.uid
  BY <1>2 DEF Ref
<1> QED
  BY <1>2, <1>3 DEF EvidenceUIDs

(***************************************************************************)
(* A snapshot of worlds whose objects keep their identities can be drawn.  *)
(***************************************************************************)
\* A UID stands for one object throughout, and never for two kinds of them.
IdentitiesHold(worlds) ==
    /\ \A o \in WorldObjects(worlds) : o.ref.uid # "" /\ o.ref.name # ""
    /\ \A o, p \in WorldObjects(worlds) : o.ref.uid = p.ref.uid =>
            /\ o.kind = p.kind /\ o.ref.kind = p.ref.kind
            /\ o.ref.namespace = p.ref.namespace /\ o.ref.name = p.ref.name
    /\ \A w \in worlds : \A o \in WorldObjects(worlds) : o.ref.uid \notin EvidenceUIDs(w)

\* An owner is given by the name of the object that has its UID.
OwnersHold(worlds) ==
    \A w \in worlds :
        \A i \in Ideal(w).kubernetes.Workloads \cup Ideal(w).kubernetes.Pods :
            \A owner \in ToSet(i.owners) :
                /\ owner.name # ""
                /\ \A o \in WorldObjects(worlds) :
                        o.ref.uid = owner.uid => o.ref.name = owner.name

\* No address is empty, nor a name of what EKS tells.
NamesHold(w) ==
    /\ AddressesAreGiven(Ideal(w))
    /\ w.aws.Cluster.name # ""
    /\ "" \notin DOMAIN w.aws.Instances
    /\ \A id \in DOMAIN w.aws.Insights :
            /\ InsightScope(MapInsight(id, w.aws.Insights[id])) # ""
            /\ InsightScope(MapInsightSummary(id, w.aws.Insights[id])) # ""

AreDrawable(worlds) ==
    /\ AreWorlds(worlds) /\ \A w \in worlds : ListsEnd(w) /\ NamesHold(w)
    /\ IdentitiesHold(worlds) /\ OwnersHold(worlds)

SeenInv ==
    /\ CoverageInv /\ HistoryInv /\ PlainInv /\ AreasAreCollected
    /\ AccountItemsWere /\ InsightsInv /\ ClassItemsWere

LEMMA SeenStarts == Init => SeenInv
<1> SUFFICES ASSUME Init PROVE SeenInv
  OBVIOUS
<1>1. CoverageInv /\ HistoryInv /\ PlainInv /\ InsightsInv
  BY CoverageStarts, ChainStarts, NothingIsRead, InsightsStart
<1>2. coverage = {} /\ eks = EmptyEKS /\ kubernetes = EmptyKubernetes
  BY DEF Init, AwsInit, KubernetesInit
<1>3. AreasAreCollected
  BY <1>2 DEF AreasAreCollected
<1>4. AccountItemsWere
  <2>1. /\ eks.Cluster = {} /\ eks.Nodegroups = {} /\ eks.Addons = {} /\ eks.Instances = {}
    BY <1>2 DEF EmptyEKS, EKSLists
  <2> QED
    BY <2>1 DEF AccountItemsWere
<1>5. ClassItemsWere
  <2>1. kubernetes.GatewayClasses = {}
    BY <1>2 DEF EmptyKubernetes, KubernetesLists
  <2> QED
    BY <2>1 DEF ClassItemsWere
<1> QED
  BY <1>1, <1>3, <1>4, <1>5 DEF SeenInv

LEMMA SeenIsKept ==
    ASSUME SeenInv, ListsEnd(world), [Next]_vars
    PROVE  SeenInv'
<1>1. /\ CoverageInv /\ HistoryInv /\ PlainInv /\ AreasAreCollected
      /\ AccountItemsWere /\ InsightsInv /\ ClassItemsWere
  BY DEF SeenInv
<1>2. CoverageInv' /\ HistoryInv' /\ PlainInv'
  BY <1>1, CoverageIsKept, HistoryIsKept, PlainIsKept
<1>3. AreasAreCollected' /\ AccountItemsWere' /\ InsightsInv' /\ ClassItemsWere'
  BY <1>1, AreasStayCollected, AccountItemsStay, InsightsAreKept, ClassItemsStay
<1> QED
  BY <1>2, <1>3 DEF SeenInv

LEMMA SeenAreOfWorlds ==
    ASSUME SeenInv, NEW worlds, history \subseteq worlds
    PROVE  CollectedObjects(Snapshot) \subseteq WorldObjects(worlds)
<1>1. \A o \in CollectedObjects(Snapshot) : o \in WorldObjects(history)
  BY ObjectsWereThere DEF SeenInv
<1>2. WorldObjects(history) \subseteq WorldObjects(worlds)
  BY DEF WorldObjects
<1> QED
  BY <1>1, <1>2

LEMMA SeenEvidenceIsOther ==
    ASSUME SeenInv, NEW worlds, history \subseteq worlds, IdentitiesHold(worlds),
           NEW r \in EvidenceRefs(Snapshot) \ {o.ref : o \in CollectedObjects(Snapshot)}
    PROVE  /\ Lower(r.kind) \notin ObjectKinds \cup {"cluster", "namespace", "pseudo-unresolved"}
           /\ \A o \in CollectedObjects(Snapshot) : o.ref.uid # r.uid
<1>1. IsEvidence(Snapshot, r)
  BY EvidenceIs
<1>2. \A o \in CollectedObjects(Snapshot) : o \in WorldObjects(worlds) /\ o.ref.uid # ""
  BY SeenAreOfWorlds DEF IdentitiesHold
<1>3. ASSUME NEW l \in DOMAIN EvidenceKinds, NEW i \in kubernetes[l], r = i.ref
      PROVE  r.kind = EvidenceKinds[l] /\ \A o \in CollectedObjects(Snapshot) : o.ref.uid # r.uid
  <2>1. r.kind = EvidenceKinds[l] /\ \E w \in history : r.uid \in EvidenceUIDs(w)
    BY <1>3, EvidenceWasThere DEF SeenInv
  <2> QED
    BY <1>2, <2>1 DEF IdentitiesHold
<1>4. ~\E n \in Snapshot.kubernetes.Nodes : r = n.ref
  <2> SUFFICES ASSUME NEW n \in Snapshot.kubernetes.Nodes, r = n.ref PROVE FALSE
    OBVIOUS
  <2> DEFINE o == [ref |-> n.ref, kind |-> "node"]
  <2>1. o \in CollectedObjects(Snapshot) /\ o.ref = r
    BY CollectedIs DEF ObjectLists
  <2> HIDE DEF o
  <2> QED
    BY <2>1
<1>5. CASE \E l \in DOMAIN EvidenceKinds : \E i \in Snapshot.kubernetes[l] : r = i.ref
  <2>1. PICK l \in DOMAIN EvidenceKinds : \E i \in kubernetes[l] : r = i.ref
    BY <1>5 DEF Snapshot
  <2>2. r.kind = EvidenceKinds[l] /\ \A o \in CollectedObjects(Snapshot) : o.ref.uid # r.uid
    BY <1>3, <2>1
  <2>3. r.kind \in {"IngressClass", "GatewayClass", "StorageClass", "PersistentVolume",
                    "PersistentVolumeClaim", "CustomResourceDefinition"}
    BY <2>1, <2>2 DEF EvidenceKinds
  <2>4. Lower(r.kind) \in {"ingressclass", "gatewayclass", "storageclass", "persistentvolume",
                           "persistentvolumeclaim", "customresourcedefinition"}
    BY <2>3 DEF Lower, LowerKinds
  <2> QED
    BY <2>2, <2>4 DEF ObjectKinds
<1>6. CASE r.uid = "" /\ r.kind \in {"EKSInsight", "EKSInsightResource", "Addon", "Nodegroup"}
  <2>1. /\ Lower("EKSInsight") = "eksinsight" /\ Lower("Addon") = "addon"
        /\ Lower("EKSInsightResource") = "eksinsightresource" /\ Lower("Nodegroup") = "nodegroup"
    BY DEF Lower, LowerKinds
  <2>2. Lower(r.kind) \in {"eksinsight", "eksinsightresource", "addon", "nodegroup"}
    BY <1>6, <2>1
  <2> QED
    BY <1>2, <1>6, <2>2 DEF ObjectKinds
<1> QED
  BY <1>1, <1>4, <1>5, <1>6 DEF IsEvidence

LEMMA SeenObjectsAreKnown ==
    ASSUME SeenInv, NEW worlds, history \subseteq worlds, IdentitiesHold(worlds)
    PROVE  ObjectsAreKnown(Snapshot)
<1>1. \A o \in CollectedObjects(Snapshot) : o \in WorldObjects(worlds)
  BY SeenAreOfWorlds
<1> QED
  BY <1>1, SeenEvidenceIsOther DEF ObjectsAreKnown, IdentitiesHold

\* An object that was read was there.
LEMMA SeenWasThere ==
    ASSUME SeenInv, NEW worlds, history \subseteq worlds, NEW l \in DOMAIN ObjectLists,
           NEW i \in Snapshot.kubernetes[l]
    PROVE  \E w \in worlds : i \in Ideal(w).kubernetes[l]
<1>1. i \in kubernetes[l] /\ l \in PlainLists
  BY GraphLists DEF Snapshot
<1> QED
  BY <1>1, ReadIsIdeal DEF SeenInv

LEMMA SeenOwnersAreTold ==
    ASSUME SeenInv, NEW worlds, history \subseteq worlds, OwnersHold(worlds)
    PROVE  OwnersAreNamed(Snapshot) /\ OwnersAreTold(Snapshot)
<1>1. ASSUME NEW i \in Snapshot.kubernetes.Workloads \cup Snapshot.kubernetes.Pods,
             NEW owner \in ToSet(i.owners)
      PROVE  /\ owner.name # ""
             /\ \A o \in CollectedObjects(Snapshot) : o.ref.uid = owner.uid => o.ref.name = owner.name
  <2>1. {"Workloads", "Pods"} \subseteq DOMAIN ObjectLists
    BY DEF ObjectLists
  <2>2. PICK w \in worlds : i \in Ideal(w).kubernetes.Workloads \cup Ideal(w).kubernetes.Pods
    BY <2>1, SeenWasThere
  <2> QED
    BY <2>2, SeenAreOfWorlds DEF OwnersHold
<1> QED
  BY <1>1 DEF OwnersAreNamed, OwnersAreTold

LEMMA SeenAddressesAreGiven ==
    ASSUME SeenInv, NEW worlds, history \subseteq worlds, \A w \in worlds : NamesHold(w)
    PROVE  AddressesAreGiven(Snapshot)
<1>1. {"Services", "EndpointSlices"} \subseteq DOMAIN ObjectLists
  BY DEF ObjectLists
<1>2. ASSUME NEW i \in Snapshot.kubernetes.Services PROVE "" \notin i.externalIPs
  <2>1. PICK w \in worlds : i \in Ideal(w).kubernetes.Services
    BY <1>1, SeenWasThere
  <2> QED
    BY <2>1 DEF NamesHold, AddressesAreGiven
<1>3. ASSUME NEW i \in Snapshot.kubernetes.EndpointSlices
      PROVE  \A e \in i.endpoints : "" \notin e.addresses
  <2>1. PICK w \in worlds : i \in Ideal(w).kubernetes.EndpointSlices
    BY <1>1, SeenWasThere
  <2> QED
    BY <2>1 DEF NamesHold, AddressesAreGiven
<1> QED
  BY <1>2, <1>3 DEF AddressesAreGiven

LEMMA SeenEKSIsNamed ==
    ASSUME SeenInv, NEW worlds, history \subseteq worlds,
           \A w \in worlds : ListsEnd(w) /\ NamesHold(w)
    PROVE  EKSIsNamed(Snapshot) /\ ClusterIsNamed(Snapshot)
<1>1. AccountItemsWere /\ InsightsInv /\ Snapshot.eks = eks
  BY DEF SeenInv, Snapshot
<1>2. \A w \in worlds : \A f \in {"Nodegroups", "Addons", "Insights"} : "" \notin DOMAIN w.aws[f]
  <2>1. {"Nodegroups", "Addons", "Insights"} \subseteq Families
    BY DEF Families
  <2> QED
    BY <2>1 DEF ListsEnd, AwsNamed
<1>3. \A x \in eks.Nodegroups \cup eks.Addons : x.name # ""
  <2>1. /\ \A x \in eks["Nodegroups"] : \E w \in history : x.name \in DOMAIN w.aws["Nodegroups"]
        /\ \A x \in eks["Addons"] : \E w \in history : x.name \in DOMAIN w.aws["Addons"]
    BY <1>1 DEF AccountItemsWere
  <2> QED
    BY <1>2, <2>1
<1>4. ASSUME NEW x \in eks.Insights PROVE x.id # "" /\ InsightScope(x) # ""
  <2>1. InsightWas(x)
    BY <1>1 DEF InsightsInv
  <2>2. PICK w \in history : /\ x.id \in DOMAIN w.aws.Insights
                             /\ \/ x = MapInsight(x.id, w.aws.Insights[x.id])
                                \/ x = MapInsightSummary(x.id, w.aws.Insights[x.id])
    BY <2>1 DEF InsightWas
  <2>3. NamesHold(w) /\ w \in worlds
    OBVIOUS
  <2>4. InsightScope(x) # ""
    BY <2>2, <2>3 DEF NamesHold
  <2> QED
    BY <1>2, <2>2, <2>3, <2>4
<1>5. \A i, j \in eks.Insights : i.id = j.id => i = j
  BY <1>1 DEF InsightsInv
<1>6. \A i \in eks.Instances : i.instanceID # ""
  BY <1>1 DEF AccountItemsWere, NamesHold
<1>7. \A c \in eks.Cluster : c.name # ""
  BY <1>1 DEF AccountItemsWere, NamesHold
<1> QED
  BY <1>1, <1>3, <1>4, <1>5, <1>6, <1>7 DEF EKSIsNamed, ClusterIsNamed

\* However torn or incomplete a snapshot is, its graph tells all of it: the
\* graph is valid (unique ids, no dangling edge or parent), every object that
\* was collected is one node, and every owner is drawn as the object that has
\* its UID when that was collected (project.go; Graph.Validate of model.go).
\* Of the cluster it is asked that a UID stays with one object, and that what
\* Kubernetes and EKS require a name of has one.
THEOREM GraphAlwaysTellsAll ==
    ASSUME NEW CONSTANT worlds, AreDrawable(worlds)
    PROVE  Spec => []GraphTellsAll
<1>1. Init => SeenInv
  BY SeenStarts
<1>2. SeenInv /\ world \in worlds /\ [Next]_vars => SeenInv'
  BY SeenIsKept DEF AreDrawable
<1>3. SeenInv /\ history \subseteq worlds => GraphTellsAll
  <2> SUFFICES ASSUME SeenInv, history \subseteq worlds
               PROVE  LET graph == Project(Snapshot)
                      IN  Validate(graph) /\ ObjectsAreDrawn(graph) /\ OwnersAreDrawn(graph)
    BY DEF GraphTellsAll
  <2> DEFINE graph == Project(Snapshot)
  <2>1. IsDrawable(Snapshot) /\ OwnersAreTold(Snapshot)
    BY SeenObjectsAreKnown, SeenOwnersAreTold, SeenAddressesAreGiven, SeenEKSIsNamed
       DEF IsDrawable, AreDrawable
  <2>2. ValidNodes(graph)
    BY <2>1, NodesAreValid
  <2>3. ValidEdges(graph)
    BY ProjectionNeverDangles DEF ValidEdges, EdgesHaveOwnIDs
  <2>4. ValidCoverage(graph)
    BY CoverageIsValid DEF SeenInv, AreasAreCollected, Snapshot
  <2>5. ObjectsAreDrawn(graph)
    BY <2>1, CollectedIsOneNode DEF ObjectsAreDrawn
  <2>6. OwnersAreDrawn(graph)
    <3> DEFINE objects == CollectedObjects(Snapshot)
               told == {o.ref.uid : o \in objects}
               drawn(item, owner, uids) ==
                    \E e \in graph.edges :
                        /\ \E n \in NodesOf(graph, item.ref) : n.id = e.target
                        /\ \E n \in graph.nodes :
                            /\ n.id = e.source /\ n.name = owner.name
                            /\ IF owner.uid \in uids
                               THEN n.uid = owner.uid /\ e.relation = "owns"
                               ELSE n.kind = "pseudo-unresolved" \/ e.relation = "owns"
    <3>1. \A item \in kubernetes.Pods \cup kubernetes.Workloads :
                \A owner \in ToSet(item.owners) : drawn(item, owner, told)
      <4>1. Snapshot.kubernetes = kubernetes
        BY DEF Snapshot
      <4> QED
        BY <2>1, <4>1, OwnerIsDrawn
    <3>2. told = {r.uid : r \in {o.ref : o \in objects}}
      OBVIOUS
    <3> HIDE DEF graph, told, objects
    <3>3. (\A item \in kubernetes.Pods \cup kubernetes.Workloads :
                \A owner \in ToSet(item.owners) :
                    drawn(item, owner, {r.uid : r \in {o.ref : o \in objects}}))
            <=> OwnersAreDrawn(graph)
      BY Zenon DEF OwnersAreDrawn, objects
    <3> QED
      BY <3>1, <3>2, <3>3
  <2> QED
    BY <2>2, <2>3, <2>4, <2>5, <2>6 DEF Validate
<1>4. Spec => [](world \in worlds) /\ [](history \subseteq worlds)
  BY WorldStaysAmong, HistoryStaysAmong DEF AreDrawable
<1> QED
  BY <1>1, <1>2, <1>3, <1>4, PTL DEF Spec
=============================================================================
