---------------------------- MODULE WatchRuntime ----------------------------
(***************************************************************************)
(* The Kubernetes watch runtime (internal/k8s/watch.go): informers that    *)
(* keep a cache per resource, event handlers that ask for a rebuild over a *)
(* one-place channel, error handlers that publish health, and the loop     *)
(* that waits, debounces, reads the caches one after another and publishes *)
(* a snapshot through publishWatchUpdate (internal/cli/serve.go).          *)
(*                                                                         *)
(* What a resource holds is a version number: 0 is the empty list.  The    *)
(* live store is what it shows of this source (LiveStore has the rest).    *)
(***************************************************************************)
EXTENDS Integers, FiniteSets

CONSTANTS Core,        \* resources that are read from their informer's cache
          Dynamic,     \* resources that are listed again in every rebuild
          MaxChanges,  \* bound: changes in the cluster
          MaxFailures  \* bound: failures of list or watch calls of informers

\* the informers of coreInformers, all of which Run waits for
CoreInformers ==
  {"Namespaces", "Nodes", "ServiceAccounts", "Pods", "Services", "Deployments",
   "DaemonSets", "StatefulSets", "ReplicaSets", "Jobs", "CronJobs", "EndpointSlices",
   "IngressClasses", "Ingresses", "PersistentVolumes", "PersistentVolumeClaims",
   "StorageClasses", "PodDisruptionBudgets", "NetworkPolicies", "ResourceQuotas",
   "LimitRanges", "HorizontalPodAutoscalers"}

\* watched whatever the discovery says
AlwaysDynamic == {"CustomResourceDefinitions", "APIServices"}

\* watched if the discovery at the start listed them with the verb "watch"
GatewayInformers ==
  {"GatewayClasses", "Gateways", "HTTPRoutes", "GRPCRoutes", "TLSRoutes", "TCPRoutes",
   "UDPRoutes", "ReferenceGrants", "BackendTLSPolicies", "BackendTrafficPolicies",
   "XBackendTrafficPolicies"}

ASSUME WatchAssumption ==
  /\ Core \subseteq CoreInformers
  /\ Dynamic \subseteq AlwaysDynamic \cup GatewayInformers
  /\ MaxChanges \in Nat /\ MaxFailures \in Nat

Resources == Core \cup Dynamic

VARIABLES
  ctx,        \* "live" or "cancelled"
  world,      \* what the API server holds of each resource
  watched,    \* the resources that have an informer
  cache,      \* the informers' stores
  reflector,  \* the list and watch loop of each informer
  changes,    \* changes in the cluster so far
  failures,   \* failed list and watch calls so far
  undelivered,\* events not yet handed to the event handler
  handler,    \* the event handler of each informer
  dirty,      \* whether the channel of that name is full
  synced,     \* Run's flag
  health,     \* watchHealthState.state; its error is set when it is "stale"
  loop,       \* where Run is
  toRead,     \* what the rebuild under way has still to read
  draft,      \* the content, the discovery and the error of the last rebuild
  shown       \* the live store's content, discovery and state of the source

watchVars == <<ctx, world, watched, cache, reflector, changes, failures, undelivered, handler,
               dirty, synced, health, loop, toRead, draft, shown>>
apiVars == <<world, watched, changes, failures>>
informerVars == <<cache, reflector, undelivered, handler>>
loopVars == <<loop, toRead, draft>>

Unlisted == -1   \* no list has succeeded
NoContent == [r \in Resources |-> Unlisted]

\* the coverage of APIResources: the discovery found all of them, some of them
\* and an error, or nothing
Discovery == {"all", "some", "none"}

WatchInit ==
  /\ ctx = "live"
  /\ world = [r \in Resources |-> 0] /\ changes = 0
  /\ watched \in {w \in SUBSET Resources : Resources \cap (CoreInformers \cup AlwaysDynamic) \subseteq w}
  /\ cache = [r \in Resources |-> Unlisted]
  /\ reflector = [r \in Resources |-> "connecting"]
  /\ failures = 0
  /\ undelivered = [r \in Resources |-> 0]
  /\ handler = [r \in Resources |-> "idle"]
  /\ dirty = FALSE /\ synced = FALSE
  /\ health = "loading" /\ loop = "syncing" /\ toRead = {}
  /\ draft = [content |-> NoContent, found |-> "none", err |-> FALSE]
  /\ shown = [content |-> NoContent, found |-> "none", state |-> "loading"]

-----------------------------------------------------------------------------
\* somebody changes an object in the cluster
Change(r) ==
  /\ changes < MaxChanges /\ changes' = changes + 1
  /\ world' = [world EXCEPT ![r] = @ + 1]
  /\ UNCHANGED <<ctx, watched, failures, informerVars, dirty, synced, health, loopVars, shown>>

\* a list or watch call answers: the cache takes the version first, then the
\* event is queued for the handler; an unchanged list queues nothing
Receive(r) ==
  /\ r \in watched /\ reflector[r] \in {"connecting", "watching"}
  /\ \E v \in cache[r] + 1 .. world[r] :
       /\ cache' = [cache EXCEPT ![r] = v]
       /\ undelivered' = [undelivered EXCEPT ![r] = @ + (IF v = 0 THEN 0 ELSE 1)]
  /\ reflector' = [reflector EXCEPT ![r] = "watching"]
  /\ UNCHANGED <<ctx, apiVars, handler, dirty, synced, health, loopVars, shown>>

\* the watch is established again and brings nothing new
Reconnect(r) ==
  /\ reflector[r] = "connecting" /\ cache[r] = world[r]
  /\ reflector' = [reflector EXCEPT ![r] = "watching"]
  /\ UNCHANGED <<ctx, apiVars, cache, undelivered, handler, dirty, synced, health, loopVars, shown>>

\* a list or watch call fails, which calls the error handler: it records the error ...
Fail(r) ==
  /\ r \in watched /\ reflector[r] \in {"connecting", "watching"} /\ failures < MaxFailures
  /\ failures' = failures + 1
  /\ reflector' = [reflector EXCEPT ![r] = "reporting"]
  /\ health' = "stale"
  /\ UNCHANGED <<ctx, world, watched, changes, cache, undelivered, handler, dirty, synced, loopVars, shown>>

\* ... and publishes an update without a snapshot, which the live store answers
\* by keeping what it has
PublishHealth(r) ==
  /\ reflector[r] = "reporting"
  /\ reflector' = [reflector EXCEPT ![r] = "connecting"]
  /\ shown' = [shown EXCEPT !.state = IF shown.content = NoContent THEN "error" ELSE "stale"]
  /\ UNCHANGED <<ctx, apiVars, cache, undelivered, handler, dirty, synced, health, loopVars>>

\* AddFunc, UpdateFunc and DeleteFunc: recordEvent, then schedule reads the flag ...
HandleEvent(r) ==
  /\ handler[r] = "idle" /\ undelivered[r] > 0
  /\ undelivered' = [undelivered EXCEPT ![r] = @ - 1]
  /\ handler' = [handler EXCEPT ![r] = IF synced THEN "sending" ELSE "idle"]
  /\ UNCHANGED <<ctx, apiVars, cache, reflector, dirty, synced, health, loopVars, shown>>

\* ... and sends unless the channel is full
Schedule(r) ==
  /\ handler[r] = "sending"
  /\ handler' = [handler EXCEPT ![r] = "idle"]
  /\ dirty' = TRUE
  /\ UNCHANGED <<ctx, apiVars, cache, reflector, undelivered, synced, health, loopVars, shown>>

-----------------------------------------------------------------------------
\* WaitForCacheSync, for the core informers only, and recordRelist
CachesSyncAtOnce ==  \* mutant: nobody waits for the first lists
  /\ loop = "syncing" /\ loop' = "relisted" /\ health' = "ready"
  /\ UNCHANGED <<ctx, apiVars, informerVars, dirty, synced, toRead, draft, shown>>
CachesSync ==
  /\ loop = "syncing" /\ \A r \in Core : cache[r] # Unlisted
  /\ loop' = "relisted" /\ health' = "ready"
  /\ UNCHANGED <<ctx, apiVars, informerVars, dirty, synced, toRead, draft, shown>>

\* buildUpdate begins with the discovery, whose error is that of the update
BeginBuild == \E found \in Discovery :
  /\ loop' = "building" /\ toRead' = Resources
  /\ draft' = [draft EXCEPT !.found = found, !.err = found # "all"]

\* events are scheduled from here on, and the first rebuild begins
SetSynced ==
  /\ loop = "relisted" /\ synced' = TRUE /\ BeginBuild
  /\ UNCHANGED <<ctx, apiVars, informerVars, dirty, health, shown>>

\* addInformerData for one core informer, all of them before the dynamic lists
ReadCache(r) ==
  /\ loop = "building" /\ r \in toRead \cap Core
  /\ draft' = [draft EXCEPT !.content[r] = cache[r]]
  /\ toRead' = toRead \ {r}
  /\ UNCHANGED <<ctx, apiVars, informerVars, dirty, synced, health, loop, shown>>

\* collectExtensions and collectGateways list again; a list may fail, which
\* leaves the resource unlisted in this snapshot
ListAgain(r) ==
  /\ loop = "building" /\ r \in toRead /\ toRead \cap Core = {}
  /\ \E v \in {world[r], Unlisted} : draft' = [draft EXCEPT !.content[r] = v]
  /\ toRead' = toRead \ {r}
  /\ UNCHANGED <<ctx, apiVars, informerVars, dirty, synced, health, loop, shown>>

\* recordReady: whichever informer is failing, its error is cleared ...
RecordReady ==
  /\ loop = "building" /\ toRead = {}
  /\ loop' = "recorded" /\ health' = "ready"
  /\ UNCHANGED <<ctx, apiVars, informerVars, dirty, synced, toRead, draft, shown>>

\* ... and the health is read back, maybe with an error recorded meanwhile
TakeHealth ==
  /\ loop = "recorded" /\ loop' = "publishing"
  /\ draft' = [draft EXCEPT !.err = @ \/ health = "stale"]
  /\ UNCHANGED <<ctx, apiVars, informerVars, dirty, synced, health, toRead, shown>>

\* PublishSource: a resource that was listed and no longer is keeps the whole
\* snapshot out, and so does a discovery that fails after one that found
\* something; otherwise errors and gaps make the state partial
Unlists(old, new) == \E r \in Resources : old[r] # Unlisted /\ new[r] = Unlisted
Regresses == \/ Unlists(shown.content, draft.content)
             \/ shown.found # "none" /\ draft.found # "all"
PublishBuildUngraded ==  \* mutant: gaps of the coverage do not count
  /\ loop = "publishing" /\ loop' = "waiting"
  /\ shown' = [content |-> draft.content, found |-> draft.found,
               state |-> IF draft.err THEN "partial" ELSE "ready"]
  /\ UNCHANGED <<ctx, apiVars, informerVars, dirty, synced, health, toRead, draft>>
PublishBuild ==
  /\ loop = "publishing" /\ loop' = "waiting"
  /\ shown' = IF Regresses THEN [shown EXCEPT !.state = "stale"]
              ELSE [content |-> draft.content, found |-> draft.found,
                    state |-> IF draft.err \/ \E r \in Resources : draft.content[r] = Unlisted
                              THEN "partial" ELSE "ready"]
  /\ UNCHANGED <<ctx, apiVars, informerVars, dirty, synced, health, toRead, draft>>

\* the loop takes the token and waits for the debounce timer
TakeDirtyLate ==  \* mutant: the token is taken only when the rebuild has been published
  \/ loop = "waiting" /\ dirty /\ loop' = "debouncing"
     /\ UNCHANGED <<ctx, apiVars, informerVars, dirty, synced, health, toRead, draft, shown>>
  \/ loop = "publishing" /\ dirty /\ dirty' = FALSE
     /\ UNCHANGED <<ctx, apiVars, informerVars, synced, health, loopVars, shown>>
TakeDirty ==
  /\ loop = "waiting" /\ dirty /\ dirty' = FALSE /\ loop' = "debouncing"
  /\ UNCHANGED <<ctx, apiVars, informerVars, synced, health, toRead, draft, shown>>

TimerFires ==
  /\ loop = "debouncing" /\ BeginBuild
  /\ UNCHANGED <<ctx, apiVars, informerVars, dirty, synced, health, shown>>

Cancel ==
  /\ ctx = "live" /\ ctx' = "cancelled"
  /\ UNCHANGED <<apiVars, informerVars, dirty, synced, health, loopVars, shown>>

\* the three places where Run looks at its context
Return ==
  /\ ctx = "cancelled" /\ loop \in {"syncing", "waiting", "debouncing"} /\ loop' = "done"
  /\ UNCHANGED <<ctx, apiVars, informerVars, dirty, synced, health, toRead, draft, shown>>

Informer(r) == Receive(r) \/ Reconnect(r)
Handlers(r) == PublishHealth(r) \/ HandleEvent(r) \/ Schedule(r)
Loop ==
  \/ CachesSync \/ SetSynced \/ RecordReady \/ TakeHealth \/ PublishBuild
  \/ TakeDirty \/ TimerFires \/ Return
  \/ \E r \in Resources : ReadCache(r) \/ ListAgain(r)

WatchNext ==
  \/ \E r \in Resources : Change(r) \/ Informer(r) \/ Fail(r) \/ Handlers(r)
  \/ Loop
  \/ Cancel

WatchSpec == WatchInit /\ [][WatchNext]_watchVars

\* The reflectors retry for ever and the API server answers in the end; the
\* handlers and the loop run.  Changes, failures and the signal need not come.
WatchFairness ==
  /\ \A r \in Resources : WF_watchVars(Informer(r)) /\ WF_watchVars(Handlers(r))
  /\ WF_watchVars(Loop)
FairWatchSpec == WatchSpec /\ WatchFairness

-----------------------------------------------------------------------------
Content == [Resources -> Nat \cup {Unlisted}]

WatchTypeOK ==
  /\ ctx \in {"live", "cancelled"}
  /\ world \in [Resources -> Nat] /\ watched \in SUBSET Resources
  /\ cache \in Content /\ draft \in [content : Content, found : Discovery, err : BOOLEAN]
  /\ reflector \in [Resources -> {"connecting", "watching", "reporting"}]
  /\ changes \in 0..MaxChanges /\ failures \in 0..MaxFailures
  /\ undelivered \in [Resources -> Nat]
  /\ handler \in [Resources -> {"idle", "sending"}]
  /\ dirty \in BOOLEAN /\ synced \in BOOLEAN
  /\ health \in {"loading", "ready", "stale"}
  /\ loop \in {"syncing", "relisted", "building", "recorded", "publishing", "waiting",
               "debouncing", "done"}
  /\ toRead \in SUBSET Resources
  /\ shown \in [content : Content, found : Discovery,
                state : {"loading", "ready", "partial", "stale", "error"}]

\* No snapshot is published before every core informer has listed once: an
\* empty cache is never reported as an empty, completely listed resource.
OnlyListedIsShown ==
  shown.content # NoContent => \A r \in Core : shown.content[r] # Unlisted

\* A rebuild that has read an older version of a resource than its informer
\* now holds is followed by another one: the event is waiting for its handler,
\* the handler is about to send, the token is in the channel, or the loop has
\* taken it and has not read this resource yet.
RebuildOwed(r) ==
  \/ undelivered[r] > 0 \/ handler[r] = "sending" \/ dirty
  \/ loop \in {"syncing", "relisted", "debouncing", "done"}
  \/ loop = "building" /\ r \in toRead
NothingForgotten ==
  \A r \in Resources : draft.content[r] # Unlisted /\ draft.content[r] < cache[r] => RebuildOwed(r)

\* While the loop waits, a source that is not stale shows each resource as its
\* informer holds it, or the rebuild that will is owed.
WaitingIsCurrent ==
  loop = "waiting" /\ shown.state \in {"ready", "partial"} =>
    \A r \in Core : shown.content[r] = cache[r] \/ RebuildOwed(r)

\* Informers read at different times, lists that fail and rebuilds that are kept
\* out never bring back an older version of a resource, nor unlist one.
Published(r) == shown.content[r] <= shown'.content[r]
PublishedNeverGoesBack == [][\A r \in Resources : Published(r)]_watchVars

\* Once the cluster is quiet, a source that says it is ready shows the cluster
\* as it is, as far as it is watched.  Lost rebuilds, failed lists and failing
\* watches end in another state of the source or in a rebuild.
ReadyIsCurrent ==
  <>[](\/ ctx = "cancelled" \/ shown.state # "ready"
       \/ \A r \in watched : shown.content[r] = world[r])
=============================================================================
