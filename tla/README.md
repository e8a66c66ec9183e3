# Teleskope in TLA+

Teleskope collects an inventory of a Kubernetes cluster and, for EKS, of the
AWS resources around it, and serves it as a report. `teleskope scan` does so
once: two collectors fill a snapshot, and a topology graph, an advisor, a
comparison with another snapshot and an analysis by a language model are made
of it. `teleskope serve` keeps the report live: sources are polled or watched,
each result is published into an in-memory store, browsers poll the store, and
a collector may forward every publication to a hub that shows a fleet of
clusters. The modules in this directory specify both paths, TLC checks them on
small instances, and TLAPS proves the main invariants of both paths for every
value of the constants.

All paths below are relative to the repository's root, and `live.go:377` means
line 377 of `internal/live/live.go`.

## 1. Inventory

| Part | State | Operations | Interacts with | Hard behaviour | What makes it correct |
|---|---|---|---|---|---|
| Live store (`internal/live/live.go`) | status and snapshot of each source, revision, events, graph history, encoded body | `New`, `begin`, `PublishSource`, `AddEvent`, `View`, `TopologyUpdate`, HTTP handlers | called by workers, watch callers and handlers; calls the publish hook | degraded answers, retention, bounded histories, several publishers | the status tells the truth about the data; what was shown is not lost; one revision is one state of the data |
| Live scheduling (`Store.Run`, `cli/serve.go`) | goroutines, contexts, timers, hook goroutines | poll, time out, publish, hand over to the hook, stop | store, collectors, hub writer | the view is read after the unlock, unordered hooks, shutdown | no overlap; polling goes on; every update reaches the hook; everything stops |
| Kubernetes watch runtime (`internal/k8s/watch.go`) | informer caches, `synced`, dirty channel, health | informer events and errors, debounce, rebuild | publishes through `publishWatchUpdate` | events before sync, coalescing, error and recovery racing | the last event leads to a rebuild; a source that says ready shows the cluster |
| Run cache (`internal/analysis/runner.go`) | stored responses, running markers | `get`, `begin`, `finish` within `Run` | live and hub analysis handlers, the LLM client | three critical sections per run, deferred release | one run per key; no key locked for ever |
| Hub store (`internal/hub/store.go`, `model.go`) | latest envelope and graph history of each cluster, fleet revision | `Put`, `Get`, `Fleet`, `TopologyUpdate` | collectors over HTTP, browsers | late, repeated and reordered envelopes, restarts | rows only advance; history belongs to the row |
| Hub writer (`internal/hub/client.go`) | one-place channel, pending envelope | `Publish`, `run`, `send` | live hook, hub over the network | racing `Publish` calls, lost answers, retries, restarts on both ends | the newest envelope is not lost; the hub catches up |
| Topology deltas (`internal/topology/update.go`, `web/src/runtime/topology-update.ts`) | none | `Diff`, `Apply`, `applyTopologyUpdate` | live and hub `TopologyUpdate`, browser | missed and repeated updates | `Apply` of a `Diff` gives the current graph, on both sides |
| Browser report store (`web/src/runtime/report-store.ts`) | displayed report, ETag, busy flag, pause, analysis under way | `refresh`, `apply`, `analyze`, `poll`, pause | live and hub HTTP | requests that race and fail, server restarts, two endpoints | what is shown is one publication; the page catches up |
| Kubernetes collector (`internal/k8s/collector.go`) | the snapshot being filled | `Collect`: some fifty lists in a fixed order | Kubernetes API | no resource version ties the lists together; each may fail; fallbacks | coverage tells what was read; what is read is mapped without loss |
| EKS and AWS collector (`internal/awseks`) | the snapshot being filled | `Collect`: lists, descriptions, a chain of infrastructure requests | AWS APIs | each request asks for what earlier answers mentioned | a gap is recorded where it arose |
| Topology projection (`internal/topology/project.go`, `model.go`) | none | `Project`, `Validate` | collectors' snapshot, store, hub | torn and partial snapshots, recreated objects | the graph is valid, complete, and joins by UID |
| Advisor (`internal/advisor`) | none | `Analyze`: one rule per capability | snapshot, coverage | partial evidence, evidence from two moments | no conclusion without evidence and coverage |
| Comparison (`internal/compare`) | none | `Analyze` on two snapshots | snapshots, advisor | a gap looks like a missing object | missing means missing, or there is a warning |
| Analysis context (`internal/analysis/context.go`) | none | `buildScanContext` | snapshot, advisor, the reader's selection | a selection older than the snapshot, limits | the answer is about what was selected |
| Hub HTTP (`internal/hub/http.go`, `search.go`) | none of its own | post, read, search, analyze | hub store, run cache | stale analysis keys | answers agree with the store |
| LLM client, advisory, reports, rendering, CLI, browser views, scripts | none that lasts | pure functions and I/O | | | formatting |

`PROJECT.json` lists all of these with their files, and the hazards of the code
line by line with the properties that watch each of them.

## 2. Modules

    Retention <---- LiveStore <---- LiveRun             RunCache
    (promise)          |               |                   |
                 LiveStoreProofs <- LiveRunProofs     RunCacheProofs

    HubStore <---- RemoteWrite          TopologyUpdate <---- ReportStore
                       |                                         |
                 RemoteWriteProofs                    ReportStoreProofs

    WatchRuntime <---- WatchRuntimeProofs

    Inventory <-- KubernetesMapping <-- KubernetesCollector <--+
        ^------- AwsCollector <--------------------------------+
        ^------- Advisor <-- Projection <----------------------+-- Scan
                    ^------- Compare <-- AnalysisContext <-----+     |
                                                                     |
                                        ScanResultProofs --> ScanProofs

An arrow is EXTENDS, or INSTANCE in the case of `Retention`. Each `MC*` module
extends one specification and gives TLC the values a cfg cannot write.
Operators whose comment says "mutant" are wrong variants of the definition that
follows them (a dropped guard, a missing reset); nothing refers to them. A
property is kept only if substituting one of them makes TLC report it.

### LiveStore - `internal/live/live.go`

Every method of `Store` that writes holds the mutex until it has re-encoded the
response, so each is one action.

| Variable | Code |
|---|---|
| `status`, `snapshot` | `entries[name].status`, `.snapshot` (`NoSnapshot` for nil) |
| `events`, `eventSeq` | the same fields; an event is its sequence number |
| `revision`, `graphs` | the same fields |
| `body` | the encoded response (`Response`), which `View` and the handlers read |

| Action | Code |
|---|---|
| `Begin(s)` | `begin` 331-339 |
| `PublishSource(s, new, err)` | `PublishSource` and `publishSourceLocked` 250-260, 377-451: `Replace` is the publishing branch, `Keep` the other |
| `AddEvent` | 262-282 |
| `Encode` (part of each) | `encode` 454-499 with `rememberGraphLocked` and `combinedModeLocked` |

A snapshot is the coverage of each resource (complete; incomplete with objects;
incomplete and empty; not listed) and whether its projection validates. That is
all `publishSourceLocked`, `coverageRegression` and `encode` branch on.
Inventory contents, times and error texts are left out; an error is the kind of
its cause. The JSON copy of a snapshot at publication (419-424) cannot fail for
this type and is not an error path here. `PublishSource` with an unknown name
changes nothing and is not an action. The event counter starts again at
`SeqLimit`, which only keeps the states finite.

### LiveRun - `Store.Run`, `cli/serve.go`, the callers in `k8s/watch.go`

Adds a program counter per thread. A polling worker goes through `Start`,
`BeginAttempt`, `CollectReturns`, `Finish`, `PublishLatest`, `Report`,
`TimerFires` (live.go:155-185). The watch loop (a *rebuilder*) and the informer
error handlers (*reflectors*) go through `WatchUpdate`, `Finish`,
`PublishLatest`, `Report` (serve.go:266-275, 478-499). `Finish` is the locked
part of `PublishSource`; `PublishLatest` reads the view again, without the
lock, and adds a goroutine to `hooks`, which runs at any later time
(`RunHook`). `WatchLoopFails` and `ReportLoopFailure` are a watch loop that
returns an error and the publication of that error (serve.go:270-273). `Cancel`
ends the serve context, and `Exit` the process once the workers and the watch
loop have returned (serve.go:276-304): informers and hooks that have not run by
then never do. `OtherEvent` stands for the calls
of `AddEvent` that no thread here makes: start and shutdown of `serve`, and the
analysis handler's. What the collectors and the watch runtime return is any
member of `Inputs`, with or without an error; a collector may return after its
deadline, in which case the deadline replaces its error (164-166) and the
snapshot is still published.

### RunCache - `internal/analysis/runner.go`

One thread per request, running `Runner.Run`: `Arrive`, `Get`, `Begin`, then
`Complete` (the `finish` that stores) or `Fail`, then `Unwind` (the deferred
`finish`). Each is one critical section; between them others run. `NoKey` is
the empty key, which `get`, `begin` and `finish` ignore.

### HubStore and RemoteWrite - `internal/hub`

`HubStore` has one action, `Put`, whose guard `Complete` is `CompleteEnvelope`
with `mergeCluster` (model.go:95-158): identity, positive revision, and a graph
that validates and carries the envelope's revision and cluster. `Newer` is the
revision test of store.go:46-49.

`RemoteWrite` extends it with one collector over a network. Its live store is
reduced to the revision, to the identities in its data (`known`: an EKS source
brings its ARN, or nothing when `DescribeCluster` failed; `DerivedId` is
model.go:62-92) and to whether the graph of that data validates (`projects`).
`Published` is the update and its unlock, `ReadView` the later read of the view
and the start of the hook (live.go:255-256, 236-248), so an envelope may be of a
later revision than the publication it was made for. The hook asks nothing of
what it sends (serve.go:246-257): an envelope may have no identity or a graph
that does not validate. `hooks` are goroutines in `Publish`; `Offer`, `Drain` and
`Reoffer` are its three channel operations. `Take`, `Post`, `Refuse`, `Replace`
and `Retry` are `run` with `send`; `Refuse` is `CompleteEnvelope` failing before
any request is made (client.go:114-117), after which the envelope is tried again
like any other. `Deliver`, `Lose` and `TimeOut` are the three fates of a request.
A request whose client gave up stays on the wire and may be delivered later. A
refusal before `Put`, such as a failed authorization, is a `Lose`. `Restart`
empties the collector's memory and `HubRestart` the hub's; requests on the wire
survive both. `acked` and `ackedBy`, the last envelope answered with success and
the start of the hub that answered, are kept for the properties only.

### WatchRuntime - `internal/k8s/watch.go`

| Goroutine | Actions | Code |
|---|---|---|
| each informer's reflector | `Receive`, `Reconnect`, `Fail` | client-go's list and watch loop as `watch.go` uses it: the cache takes a version, an event is queued, a failure calls the error handler |
| each informer's handlers | `PublishHealth`; `HandleEvent`, `Schedule` | `recordError` with its publication; `recordEvent`, the test of `synced`, the send to the one-place channel |
| `Run` | `CachesSync`, `SetSynced`, `ReadCache`, `ListAgain`, `RecordReady`, `TakeHealth`, `PublishBuild`, `TakeDirty`, `TimerFires`, `Return` | wait for the core informers, set the flag, read the caches one by one, list extensions and gateways again, record readiness, read the health back, publish, wait, debounce |

What a resource holds is a version number. A rebuild begins with a discovery of
the API resources (`BeginBuild`), which may find all of them, some, or none; a
discovery that fails after one that found something is a regression and keeps the
rebuild out (`Regresses`), as a list that fails does. `shown` is what the live store makes
of this source's publications (`LiveStore` has the rest of the store).

### TopologyUpdate and ReportStore - `internal/topology/update.go`, `web/src/runtime`

`TopologyUpdate` has `Diff`, `Apply` and the browser's `ClientApply` as
operators on graphs whose nodes and edges are functions from their ids, with
every refusal that leads to a full update.

`ReportStore` is one page and the server it polls. `refresh` is cut at each
await: `Ask`, `AnswerSnapshot`, `Unmodified` or `Read`, `AnswerDelta`,
`ApplyDelta`, `Finish`; `Fail` is a request that fails or times out at any of
them. The server goes on publishing in between (`Publish`, `ChangeStatus`) and
may be restarted (`Restart`), which makes its revisions start again. `Pause` is
the button, and `AskAnalysis` to `CloseAnalysis` are `analyze` with the
handler's and the page's revision tests. A publication is named by its server
process and its revision, so the properties can tell two processes apart where
the code cannot.

### The scan - nine modules

`Inventory` is the snapshot: the two collectors' lists and the coverage items,
and `world`, what the API servers hold. `KubernetesCollector` is `Collect` as a
program of API calls (`todo` is the rest of it) with one action for each way a
call is made: `CheckServerVersion`, `DiscoverAPIResources`, `ListResource`,
`ListInstances` (of one custom resource definition), `ListGatewayResource`
(with the fallback to an older version and to the namespace of the context).
`KubernetesMapping` has the map functions. `AwsCollector` does the same for the
EKS families, which are listed and then described one by one, and for the chain
node group, auto scaling group, instance, subnet and VPC, security group.
`Scan` runs one collector after the other, as `scan eks` does, lets the cluster
and the account change at any point and calls fail, and states what
`Projection` (the topology graph), `Advisor`, `Compare` and `AnalysisContext`
may make of the result; these four have no state and are operators on a
snapshot. `MCScan` is the world that is scanned.

Abstractions: a list whose order nobody reads is a set; texts, quantities, times
and counters travel as one opaque value; ids are tuples instead of escaped
strings; a list that is cut at a limit keeps some of its items, since which ones
depends on an order the model does not have; the pages of one list and the
batches of one request are one step. A secret has no keys and no type here,
because the collector lists the metadata of secrets only, so two secrets of one
name never differ. The projection adds node groups, add-ons, insights and
instances without a test for duplicates; its sets would merge two equal ones,
which a single listing of AWS does not contain. `Scan` compares with the *ideal* snapshots
of the worlds there were during the scan, taken at once and without failures.

### Retention

What the live store owes its readers, without locks, states or errors: the
revision counts accepted updates one at a time, each is of one source, and a
resource a source has shown is never lost from what is served. `LiveStore` and
`LiveRun` implement it with `showing` = the sources that have a snapshot and
`held[s]` = the resources that snapshot read.

## 3. Runs

| Run | Shows |
|---|---|
| `live_store` | all the store's properties, and the refinement of `Retention`, for a watched and a polled source of two resources under any sequence of calls |
| `live_run` | attempts do not overlap and refreshing marks are honest; retention under every interleaving; updates reach the hook unless the process exits first, polling goes on, shutdown ends with the exit |
| `run_cache` | single flight until a response is stored; no marker without a run; requests end |
| `hub_store` | rows only advance, histories match rows, the fleet revision is exact, whatever is posted |
| `remote_write` | one hook at a time, with losses, timeouts and a restart of the collector and of the hub: a success answer means a row at least as new in that hub; the newest envelope is kept until it is answered; of two rows of one collector the fallback's is the older; the hub catches up with what it has not answered for, unless the writer is left with an envelope that is not complete |
| `watch_runtime` | nothing unlisted is shown as listed; no event is forgotten; a source that stays ready shows the cluster, through failed lists, failing watches and cancellation |
| `report_sync` | a page shows one publication of its server, every delta base leads to the current graph, an analysis belongs to the snapshot beside it, the page catches up whatever requests fail |
| `scan` | of a torn or incomplete snapshot: the graph is valid, complete and joined by UID; the advisor's evidence belongs to one moment and its complete conclusions stand; the comparison calls nothing missing without a warning; every gap is recorded; an analysis is about what was selected |
| `run_cache_repeat`, `remote_hooks`, `remote_restart`, `report_restart` | the disagreements of section 5 |

**Bounds.** Two sources are all the program has. `MaxRevision` bounds
publications: 3 for the store, enough to fill a graph history of 2 and drop
from it, 2 with threads, enough for a hook to be overtaken. The inputs of `live_store`
are a complete snapshot and a refused, missing or half-read resource beside a
complete one, the last with a projection that does not validate; with a missing
snapshot they reach every branch of `publishSourceLocked`, let a regression
affect one resource of two, and let valid and invalid projections alternate.
`MaxEvents` 2 lets the event log be cut, and `SeqLimit` 3 tells its entries
apart; with threads they are 1, since no property of `LiveRun` is about events. There, two threads publish to the Kubernetes source
and one to EKS, so each pair of callers meets; the only snapshot is a complete
one and the rejected publications are those without a snapshot, because the
store's answers to other inputs do not depend on who calls (`live_store` has
them, and the theorem `InterleavingsKeepPromise` all of them together).
Run-cache requests are reused, so three threads stand for any number of
requests of which three are in flight; the third is what the disagreement
needs. The hub runs use two clusters (three identities for one collector),
three revisions (two in `remote_write`, three in the runs of section 5) and
histories of two. `MaxWire` 2 allows an abandoned request beside an awaited one,
`MaxStarts` 2 and `MaxHubStarts` 2 one restart of each process, also both in
either order; two revisions let a retry be replaced, arrive late, and be
overtaken by the other process's. `MaxHooks` counts publications whose view is not
yet read together with hooks. Racing hooks (`MaxHooks` 2) are in
`remote_hooks`; their safety is proved (section 4). Runs of `RemoteWrite` switch
deadlock checking off: a collector that has made its `MaxRevision` publications
and delivered them does nothing. So do `watch_runtime`, whose loop returns
after the signal, `live_run`, whose process exits, and `scan`, which ends.

`watch_runtime` has one resource read from its cache and one listed again in
every rebuild, any outcome of each discovery and of each list, two changes and one
failing call of an informer: enough for an event before the
sync, one during a rebuild, and a failure on either side of them. `report_sync`
has three publications by two server processes, a history of two, graphs of two
nodes and an edge (one of which does not validate), one status change and one
failing request: a page can miss a publication, have a base that is no longer
kept, and meet its own revision in another process. `scan` has one object of
almost every kind, joined as in a real cluster, the change of the world and the
failing call at every point of the scan, in either order; the changes are a
replaced pod, a claim restored under its name, an installed namespace, a scaled
node group, a removed definition, a deleted add-on, and a nightly job taken over
by a deployment, whose needs are then in no list of workloads when deployments were
listed before and jobs after it. The limits of
`AnalysisContext` are small enough that some lists are cut.

**Fairness.** In `LiveRun`: as long as the process lives the Go scheduler runs each
goroutine that can run, `Collect` ends because its context has a deadline, timers
fire. Nothing runs after the exit, which waits for no hook:
`EveryUpdateReachesTheHook` allows an update to be lost to it. Cluster events,
watch failures and the signal have no fairness. In `RunCache`: a request keeps
going, and the analyzer returns because its client has a timeout. In
`RemoteWrite`: hooks and writer run, a request on the wire is delivered or lost
in the end, and strong fairness says that a hub asked again and again answers
some time. Without it a hub that is down for ever refutes `HubCatchesUp`, as
it should. After a failed `send` the writer waits for the channel or for the timer;
strong fairness of `Replace` says that it does not miss a queued envelope each
time, as its timer is longer than the instant a select takes. An envelope that is
not complete is retried for ever and can only be replaced by the next one, so
`HubCatchesUp` allows the writer to be left with one, but not that it holds up a
complete envelope that is newer. In `WatchRuntime`: client-go's reflectors retry for ever, so each
informer catches up in the end, and handlers and loop run; changes, failures and
the signal need not come. In `ReportStore`: the poll timer fires again after
each refresh and each request ends. The page's own timeout covers the wait for
the headers and is cleared when they arrive (report-store.ts:40-53); the body is
bounded by the server's `WriteTimeout` alone (serve.go:281), so a server that
vanishes in the middle of a body, without closing the connection, is not covered.
The server need not publish and the reader need not click. `Scan` has no liveness property.
`HubCatchesUp` and `NewestRetained` are checked with one hook call
at a time, because the race of `remote_hooks` refutes them otherwise.

## 4. Proofs

`TLAPS` checks the following for every set of sources within the program's two,
every mode, resources, inputs, limits and number of threads, from the named
ASSUMEs of the modules only.

* **LiveStoreProofs** - all properties of `live_store` and the refinement of
  `Retention`. The invariant is
  `StoreInv == TypeOK /\ StatusTellsData /\ GraphHistory /\ HistoryIsCurrent /\ ServedIsCurrent`.
  `GraphHistory` alone is not inductive: `Remember` skips a graph when the last
  one has the same revision, which is right only because a graph of the present
  revision shows the present data, and appends in order only because no
  retained graph is newer. `HistoryIsCurrent` says that when data is served and
  its projection is valid the history ends in that projection, and with
  `ServedIsCurrent` (the body is what the state encodes to) gives
  `EndpointsAgree`. `StatusTellsData` needs no strengthening but its cases on
  the two branches of `publishSourceLocked` are the bulk of the proof.
  Lemmas on `LastN`, `Remember` and `Encode` state what the cuts keep. The
  refinement rests on `AcceptedKeepsHeld`: an update that is not a regression
  reads at least the resources already shown.
* **LiveRunProofs** - each step of a goroutine is a step of the store or leaves
  it unchanged (`RunStepsAreStoreSteps`), so the store's invariant carries over
  and every interleaving implements `Retention`. `RefreshingMeansAttempt`
  relates the status to the program counters; `NewestReachesAHook` needs that
  the served body is current, because the hook's view is read from it.
* **RunCacheProofs** - single flight needs, besides `TypeOK`, that a marked key
  has a run and a running request's key is marked as long as nothing is stored:
  the second `finish` can only hurt afterwards.
* **RemoteWriteProofs** - of the hub store, types, history and monotonic rows;
  and `FleetRevisionCountsRows`: the revision of the fleet, by which a browser
  decides to reload it, changes exactly when a row does, whoever posts and
  however many posts the hub refuses. Of the collector and the hub, for any
  number of requests on the wire and starts of both processes and, but for the
  last two, any number of racing hooks, which is more than `remote_write`
  explores:
  * `RemoteInv == HubInv /\ Traffic /\ Answering /\ OnTheWire /\ AcknowledgedIsCovered`.
    `AcknowledgedIsCovered` needs that only the request being awaited can answer
    and that it carries the pending envelope (`OnTheWire`), that whatever is
    sent passes the hub's checks, while what is queued need not (`OnTheWire`,
    `Traffic`), and that a restarted hub has answered for nothing (`Answering`). `PutCovers` and `PutKeepsCovered`
    are the two facts about `Put` it rests on: a success leaves a row at least
    as new, and later posts keep it.
  * `FallbackAlwaysSuperseded`, from `IdentityInv == FallbackFirst /\ OfThePast`.
    The two rows of one collector say nothing of the envelopes that are still to
    arrive, so the order of the two identities is stated of everything that can
    still speak (`Seen`): hooks, channel, the pending envelope, requests that
    were given up, and rows.
    A view is read after the unlock, so an envelope's identity is that of the
    data when it was read (`ReadIdentity`).
  * `NewestAlwaysRetained` assumes `MaxHooks = 1`, and has to: `remote_hooks`
    refutes it with two. `NewestInv` says where the newest envelope is, in the
    order unread publication, hook, channel, pending, acknowledged.
  * `HubIsOnlyPutTo`: between two restarts of the hub every step of the whole
    system is a step of the hub store's specification, or none of it. With a
    hub that is never restarted (`MaxHubStarts = 1`) that is the refinement
    `RemoteImplementsHub == RemoteSpec => HubSpec`; with a restart it is false,
    because the store starts empty again.
* **WatchRuntimeProofs** - for any resources, changes and failures.
  `WatchInv == WatchTypeOK /\ LoopInv /\ OnlyListedIsShown /\ NothingForgotten`,
  where `LoopInv` says what the loop's place tells of the caches: behind the
  sync all core caches are listed, and what a rebuild has read of them is.
  `VersionsInv` adds that a rebuild starts from the last one and that caches
  only advance. It gives `WatchNeverGoesBack` (no publication shows an older
  version of a resource than the one before) and `WatchWaitingIsCurrent`, the
  safety half of `ReadyIsCurrent`: a loop at rest shows its informers' caches
  unless an event, a handler, the token or the timer will wake it.
* **ReportStoreProofs** - for any graphs, publications and restarts.
  `PatchGivesNew` and `UpdateRoundTrip` state that applying a `Diff` gives the
  current graph, for the reference and for the browser, and `HistoryInv` that
  the server keeps valid graphs in the order of their revisions; with them
  `EveryBaseAlwaysCatchesUp`, and `NoAnswerEverMisleads`: an update made for
  another graph than the browser holds is refused or leads to the newest one.
  The page's invariant is `ReportInv == BodyInv /\ PageInv /\ DataInv /\ AnalysisInv`.
  `PageOfOneServer` is not inductive: the page combines two responses that were
  fetched at different moments, so `DataInv` follows them from the request to
  the page, through a delta that may be computed from a newer graph than the
  status beside it, as long as the server is the one the page was loaded from.
* **ScanProofs** - `SelectionAlwaysAnswered` is about every scan of every set of
  worlds closed under `Successors`, with any call failing: what was selected is
  in the request, or its list is announced as cut. It needs `ReferenceInv` (the
  items of the lists carry their references, and no workload is outside of a
  namespace) and, of the API server, that it keeps none there.
  * `GapsAlwaysRecorded` is about the same scans, with
    `GapsInv == CoverageInv /\ HistoryInv /\ ChainsInv`. That a list has exactly
    one item is a statement about the requests that remain: `CoverageInv` says
    that neither collector comes back to a list (`AwsOrdered`,
    `KubernetesOrdered`: the requests of one family are next to each other and
    all but the last describe an item; the instances of all definitions come
    next to each other), that a list ahead has no item yet, and that one behind
    has one, through the early end of a family after a failure
    (`AwsRestOfFamily`) and the requests that an answer inserts
    (`AwsDescribesNext`, `InstancesComeNext`).
  * `ChainsInv` follows an instance that was there all the time: each step of
    its chain (node group, auto scaling group, instance) is still to be asked
    for, was read, or has an incomplete item. It needs the order of the requests
    again: the groups are only asked for when no node group is ahead.
  * Its hypotheses (`AreListable`) are that the lists of the servers are finite
    and their names not empty, and that the route from a node group to an
    instance is the same in every world that has one. The last is essential: an
    instance that is moved to a group of another node group between two requests
    is missed by a scan all of whose lists are complete.
* **ScanResultProofs** - what is made of a scan, in the same generality.
  * `ConclusionsAlwaysWarranted` is about what the advisor concludes from a scan,
    and `ReadInv == CoverageInv /\ HistoryInv /\ PlainInv /\ FamiliesInv /\
    BindingInv /\ ClassesInv` says where everything it reads comes from: each
    item of a list stems from a world of the scan (`PlainInv`), a list told as
    complete is all of one world's (and, when nothing changed, the initial
    one's), and the lists that are read in parts (families of EKS, volumes and
    claims, classes of three API versions) have an invariant each. The proof
    that a conclusion with complete coverage is the one without failures goes
    through each capability of `Advisor`: what an incomplete list can hide lowers
    the coverage of every conclusion that reads the list.
  * Its hypotheses (`AreReadable`) are, besides lists that end: a bound volume
    names its claim by UID, and that claim is not younger than the world in which
    the volume names it (`BindingsAreKept`), or a volume of one moment could be
    joined to a claim of another; and gateway classes are served in the versions that
    discovery tells, the same throughout (`ServesClasses`), because the collector
    tries the versions in order and takes the absence of all of them for a
    cluster without gateway classes.
  * `ComparisonAlwaysWarranted` has the same invariant with `FamiliesTold`, and
    the same hypotheses. The kinds of workloads are listed by separate calls, so
    a need that moves between kinds against the order of the calls is in no list:
    the comparison does not look for it, and no coverage item tells of that. What
    holds, and is proved, is the statement for each kind: what the workloads of
    one kind need in every world of the scan is found, or the list of that kind
    has a warning. The change of the nightly job in `scan` reaches the case, and
    refutes the statement about all kinds together.
  * `ProjectionNeverDangles` is about any snapshot whatever, torn, partial or
    inconsistent: parents and ends of edges are nodes of the graph and edges of
    one identifier are one edge. It goes through every drawing of `Projection`
    (`Sound`).
  * `GraphAlwaysTellsAll` is about the graph of a scan, and
    `SeenInv == CoverageInv /\ HistoryInv /\ PlainInv /\ AreasAreCollected /\
    AccountItemsWere /\ InsightsInv /\ ClassItemsWere` says that whatever a node
    is made of was there at one moment of the scan. It has two halves. The one is
    about any snapshot (`NodesAreValid`, `CollectedIsOneNode`, `OwnerIsDrawn`,
    `CoverageIsValid`): when its references are consistent (`IsDrawable`), no two
    nodes of its graph have one id: neither two objects nor two placeholders, nor
    nodes of the cluster, the namespaces, what EKS tells and the advisor's
    evidence with one another. The other is that no scan makes an inconsistent
    snapshot, however many worlds it mixes (`SeenObjectsAreKnown`). For the insights that takes the order of the
    requests once more: each is described once, from the list it was in, and
    none is asked for after it was read (`InsightsInv`).
  * Its hypotheses (`AreDrawable`) are, besides lists that end: a UID belongs to
    one object throughout, of whatever kind (`IdentitiesHold`), an owner reference
    with the UID of an object has that object's name (`OwnersHold`), and names,
    addresses and scopes of insights are not empty (`NamesHold`). An object may be deleted
    and another created under its name at any time.
* The hypotheses of the theorems of both modules were checked by TLC on every
  world that `scan` can reach (128 worlds, and each of the 2187 pairs of a world
  and a later one), so none of them is empty; and `SeenInv`, with the drawability
  it gives, on every state of `scan`.

The theorems rest on the constants' ASSUMEs alone, and on the hypotheses they
state. `StoredAssumption` and its like are met by the values of every run that
extends the module. Properties that only theorems state (`PublishedNeverGoesBack`,
`WaitingIsCurrent`, `NoAnswerMisleads`, `HubStepsArePuts`) and the inductive
invariants were checked on the instances of the runs before they were proved.

Only model-checked: all liveness properties, which need fairness and `ENABLED`
(`EveryUpdateReachesTheHook`, `PollingGoesOn`, `ShutdownCompletes`,
`EveryRequestEnds`, `HubCatchesUp`, `ReadyIsCurrent`, `PageCatchesUp`); and the
runs of section 5. No module here has a RECURSIVE operator; what the recursive
functions compute (`Climb` up the owners) is not proved, since the prover has no
induction over data.

## 5. Where code and documentation disagree

1. **Two runs of one key** (`run_cache_repeat`). A successful run removes its
   marker twice, in `finish(.., true)` and in the deferred `finish(.., false)`
   (runner.go:166, 213). A request that had missed the cache before the store
   can set its own marker between the two; the second removal takes it away,
   and a third such request runs beside it. runner.go:54: "rejects duplicate
   concurrent runs".
2. **The newest envelope can be dropped** (`remote_hooks`). `Publish` drains
   and refills the channel in separate steps, and hooks are concurrent
   goroutines (live.go:247), so they also run out of order. README.md:342-344:
   "only the newest pending envelope retained";
   docs/event-based-kubernetes-updates.md:245: "Hub publish hooks see monotonic
   revisions only after usable publications."
3. **Acknowledged but not shown after a restart** (`remote_restart`). A new
   collector process counts from 1 and the hub ignores its envelopes, with a
   success answer, until it passes the old revision. README.md:328-329: "stores
   only the latest reported envelope for each cluster". `AcknowledgedIsCovered`
   (`remote_write`) is what does hold.
4. **A page made of two processes' publications** (`report_restart`). Revisions
   start again with the server process and nothing names the process: a page
   that outlives it can ask for a delta from its old graph's revision, get one
   from the new process's graph of that revision, and accept the result, as
   cluster and revision match (report-store.ts:92-98). report-store.ts:93: "The
   separate endpoint may already have advanced. Keep the publication atomic."
   `PageOfOneServer` (`report_sync`) is what does hold.

Behaviour that the modules show and that no sentence of the repository denies:

* The totals of workloads, gateway routes and policies are recorded as complete
  whatever became of their parts (k8s/collector.go:440, 515, 548), and a gateway
  list that was refused for the cluster is recorded as complete with the objects
  of one namespace. The parts have items of their own.
* A refused list of custom resource definitions leaves no item about their
  instances (`EveryListIsCovered` states the exception).
* The coverage of the advisor's `eks.addon` is that of the add-ons, while its
  conclusion also rests on the insights (`CompleteConclusionsStand`).
* Links between workloads and what they use are collected by namespace and name
  without the kind (analysis/context.go:526): two workloads of one name share
  them (`Namesakes`).
* A server version has three parts and an EKS version two, and the comparison
  ranks by the parts there are (compare.go:721).
* What a workload needs is missed without a warning when the workload changes its
  kind during a scan (compare.go:408, `NeedsAreFound` is about one kind).
* An envelope that `CompleteEnvelope` refuses, because its graph does not validate
  or nothing identifies the cluster, is retried until the next publication
  (client.go:94-117); the hook sends it unchecked.
* Updates published shortly before the process exits may reach no hook, and so no
  hub (live.go:247, serve.go:300).
* A discovery that fails in every rebuild after it had found something, a removed
  API group among others, keeps the source stale and its data as it was
  (watch.go:373, live.go:349-357). So does a stale mark published just after the
  rebuild that recovered, until the next event.
* The hub is only told of publications (live.go:256): a source that turns stale or
  fails keeps its last good status there.
* After a hub restart an envelope that was answered before is not sent again
  until the next publication (`HubCatchesUp` excludes it; README.md:328-330
  announces the empty fleet).

## 6. Not modelled, and what is left

* Hub HTTP handlers (`http.go`, `search.go`): routing, authorization and
  read-only projections of the modelled hub store. `Put` and `Lose` have the
  post's outcomes, `ReportStore` the reads; the analysis key without a model
  name (http.go:310) needs the configuration file in the model.
* The construction of collectors and of recorded sources in `cli/serve.go`,
  kubeconfig loading, pagination, flags and files.
* Reports, rendering, advisory texts, the LLM client and the browser's drawing:
  formatting and I/O over data that the modules abstract. `node-watch.ts` is a
  pure algorithm that could be added.
* Metrics, metadata and evidence texts of graph nodes, and the references from
  nodes to the advisor's conclusions.

Left to do, in order: single flight of the cache for two requests; source
statuses in the envelopes of `RemoteWrite`; a comparison of a snapshot without
its Kubernetes half with a full one; lemmas about the operators of `Compare`.
