----------------------------- MODULE ReportStore -----------------------------
(***************************************************************************)
(* A report page in the browser (web/src/runtime/report-store.ts) and the  *)
(* server it polls: the snapshot, topology and analyze handlers of         *)
(* internal/live/live.go, which serve the encoded response and the bounded *)
(* graph history of the live store.  A hub page works the same over one    *)
(* cluster's latest envelope (internal/hub/http.go, store.go), but for the *)
(* ETag.                                                                   *)
(*                                                                         *)
(* A publication is named by the server process and its revision.  The     *)
(* server may be restarted, a request may fail or time out at any time,    *)
(* and the server goes on publishing between the requests of a refresh.    *)
(***************************************************************************)
EXTENDS TopologyUpdate, Sequences, FiniteSets

CONSTANTS Contents,      \* graphs, without a revision, a publication may carry
          MaxGraphs,     \* graphs the server keeps (16)
          MaxPublications, \* bound: publications of all processes
          MaxStarts,     \* bound: starts of the server
          MaxEvents,     \* bound: status changes and events
          MaxFailures    \* bound: failed requests

ASSUME ReportAssumption ==
  /\ Contents \subseteq [cluster : GraphClusters, revision : {0}, nodes : Nodes,
                          edges : Edges, coverage : Attributes]
  /\ MaxGraphs \in Nat \ {0} /\ {MaxPublications, MaxStarts, MaxEvents, MaxFailures} \subseteq Nat

VARIABLES
  body,      \* the encoded response of the server, named by its process and revision
  published, \* publications of all processes so far
  history,   \* the graphs the server keeps, oldest first
  page,      \* what the browser shows: the snapshot's name, its graph and the revision,
             \* and, for the properties, the process it was first loaded from
  etag,      \* the ETag it sends
  paused,    \* the pause button
  failures,  \* failed requests so far
  refresh,   \* where the refresh under way is, and what it has received
  analysis   \* the analysis request under way and its answer

serverVars == <<body, published, history>>
browserVars == <<page, etag, paused, failures, refresh, analysis>>
reportVars == <<serverVars, browserVars>>

Name(b) == <<b.process, b.revision>>
ETagOf(b) == <<b.process, b.revision, b.events>>
NoETag == <<>>
NoSnapshot == <<0, 0>>
Idle == [at |-> "idle"]

ReportInit ==
  /\ body = [process |-> 1, revision |-> 0, events |-> 0, graph |-> NoGraph]
  /\ history = <<>> /\ published = 0
  /\ page = [snapshot |-> NoSnapshot, graph |-> NoGraph, revision |-> 0, loading |-> TRUE,
             stale |-> FALSE, from |-> 0]
  /\ etag = NoETag /\ paused = FALSE /\ failures = 0
  /\ refresh = Idle /\ analysis = Idle

-----------------------------------------------------------------------------
\* the live store accepts an update: encode leaves an invalid graph out of the
\* response, and rememberGraphLocked keeps the newest ones
Publish(content) ==
  LET g == [content EXCEPT !.revision = body.revision + 1]
      kept == Append(history, g)
  IN  /\ published < MaxPublications /\ published' = published + 1
      /\ body' = [process |-> body.process, revision |-> g.revision, events |-> body.events,
                  graph |-> IfValid(g)]
      /\ history' = IF ~Valid(g) THEN history
                    ELSE IF Len(kept) > MaxGraphs THEN SubSeq(kept, 2, Len(kept)) ELSE kept
      /\ UNCHANGED browserVars

\* a status or an event changes the response, and its hash, but no revision
ChangeStatus ==
  /\ body.events < MaxEvents
  /\ body' = [body EXCEPT !.events = @ + 1]
  /\ UNCHANGED <<published, history, browserVars>>

Restart ==
  /\ body.process < MaxStarts
  /\ body' = [process |-> body.process + 1, revision |-> 0,
              events |-> body.events, graph |-> NoGraph]
  /\ history' = <<>>
  /\ UNCHANGED <<published, browserVars>>

\* TopologyUpdate: Diff from the kept graph of that revision, if there is one
Base(since) ==
  LET I == {i \in 1..Len(history) : history[i].revision = since}
  IN  IF I = {} THEN NoGraph ELSE history[CHOOSE i \in I : TRUE]
Served(since) == Diff(Base(since), history[Len(history)])

-----------------------------------------------------------------------------
\* refresh: nothing is asked while the page is paused or a refresh is busy
Ask ==
  /\ refresh = Idle /\ ~paused
  /\ refresh' = [at |-> "snapshot", etag |-> etag]
  /\ UNCHANGED <<serverVars, page, etag, paused, failures, analysis>>

\* the snapshot handler: not modified, or the encoded response.  A hub page has
\* no ETag and is always answered in full.
AnswerSnapshot ==
  /\ refresh.at = "snapshot"
  /\ \/ refresh.etag = ETagOf(body) /\ refresh' = [at |-> "unmodified"]
     \/ refresh' = [at |-> "received", data |-> body]
  /\ UNCHANGED <<serverVars, page, etag, paused, failures, analysis>>

Unmodified ==
  /\ refresh.at = "unmodified" /\ refresh' = Idle
  /\ page' = [page EXCEPT !.stale = FALSE]
  /\ UNCHANGED <<serverVars, etag, paused, failures, analysis>>

\* a request or its answer is lost or times out.  Without the snapshot the
\* refresh ends with an error; without the delta the publication's own graph is used.
FailBusy ==  \* mutant: busy is only reset by a refresh that succeeds
  /\ failures < MaxFailures /\ failures' = failures + 1
  /\ refresh.at \in {"snapshot", "unmodified", "received"}
  /\ refresh' = [at |-> "failed"] /\ etag' = NoETag /\ page' = [page EXCEPT !.stale = TRUE]
  /\ UNCHANGED <<serverVars, paused, analysis>>
Fail ==
  /\ failures < MaxFailures /\ failures' = failures + 1
  /\ \/ /\ refresh.at \in {"snapshot", "unmodified", "received"}
        /\ refresh' = Idle /\ etag' = NoETag /\ page' = [page EXCEPT !.stale = TRUE]
     \/ /\ refresh.at \in {"delta", "answered"}
        /\ refresh' = [at |-> "ready", data |-> refresh.data]
        /\ UNCHANGED <<page, etag>>
  /\ UNCHANGED <<serverVars, paused, analysis>>

\* the body is read: a delta from the shown graph is asked for if there is one
Read ==
  /\ refresh.at = "received"
  /\ refresh' = IF page.graph # NoGraph /\ refresh.data.revision # page.revision
                THEN [at |-> "delta", data |-> refresh.data, since |-> page.graph.revision]
                ELSE [at |-> "ready", data |-> refresh.data]
  /\ UNCHANGED <<serverVars, page, etag, paused, failures, analysis>>

\* the topology handler answers, later: the store may have moved on
AnswerDelta ==
  /\ refresh.at = "delta"
  /\ refresh' = IF history = <<>> THEN [at |-> "ready", data |-> refresh.data]
                ELSE [at |-> "answered", data |-> refresh.data, update |-> Served(refresh.since)]
  /\ UNCHANGED <<serverVars, page, etag, paused, failures, analysis>>

\* the graph is taken if it is the one of the publication received before
MergeAny(data, g) ==  \* mutant: whatever the second endpoint answered is shown
  IF g # NoGraph THEN [data EXCEPT !.graph = g] ELSE data
Merge(data, g) ==
  IF g # NoGraph /\ data.graph # NoGraph
  THEN IF g.revision = data.revision /\ g.cluster = data.graph.cluster
       THEN [data EXCEPT !.graph = g] ELSE data
  ELSE data
ApplyDelta ==
  /\ refresh.at = "answered"
  /\ refresh' = [at |-> "ready",
                 data |-> Merge(refresh.data, ClientApply(page.graph, refresh.update))]
  /\ UNCHANGED <<serverVars, page, etag, paused, failures, analysis>>

\* apply: older publications are dropped, without a word, and the same
\* revision only refreshes the sources and the events
Shown(data) ==
  IF data.revision < page.revision THEN page
  ELSE LET fresh == page.loading \/ data.revision # page.revision
       IN  [snapshot |-> IF fresh THEN Name(data) ELSE page.snapshot,
            graph |-> IF fresh THEN data.graph ELSE page.graph,
            revision |-> data.revision, loading |-> FALSE,
            stale |-> FALSE,
            from |-> IF page.loading THEN data.process ELSE page.from]
\* the end of a refresh: a page paused meanwhile is left alone, and a response
\* without a snapshot is an error
Finish ==
  /\ refresh.at = "ready" /\ refresh' = Idle
  /\ \/ paused /\ UNCHANGED <<page, etag>>
     \/ /\ ~paused /\ refresh.data.revision = 0
        /\ etag' = NoETag /\ page' = [page EXCEPT !.stale = TRUE]
     \/ /\ ~paused /\ refresh.data.revision > 0
        /\ page' = Shown(refresh.data) /\ etag' = ETagOf(refresh.data)
  /\ UNCHANGED <<serverVars, paused, failures, analysis>>

\* the pause button forgets the ETag in both positions
Pause ==
  /\ paused' = ~paused /\ etag' = NoETag
  /\ UNCHANGED <<serverVars, page, failures, refresh, analysis>>

-----------------------------------------------------------------------------
\* analyze: the request carries the revision the page shows
AskAnalysis ==
  /\ analysis = Idle /\ ~page.loading
  /\ analysis' = [at |-> "asked", revision |-> page.revision]
  /\ UNCHANGED <<serverVars, page, etag, paused, failures, refresh>>

\* handleAnalyze: refused without a snapshot or for another revision; else an
\* analysis of the snapshot of this response begins
AnswerAnalysisUnchecked ==  \* mutant: the revision is not validated
  /\ analysis.at = "asked"
  /\ analysis' = IF body.revision = 0 THEN Idle
                 ELSE [at |-> "answered", revision |-> analysis.revision, of |-> Name(body)]
  /\ UNCHANGED <<serverVars, page, etag, paused, failures, refresh>>
AnswerAnalysis ==
  /\ analysis.at = "asked"
  /\ analysis' = IF body.revision = 0 \/ body.revision # analysis.revision THEN Idle
                 ELSE [at |-> "answered", revision |-> analysis.revision, of |-> Name(body)]
  /\ UNCHANGED <<serverVars, page, etag, paused, failures, refresh>>

\* the answer is dropped if the page shows another revision by now
ReceiveAnalysis ==
  /\ analysis.at = "answered"
  /\ analysis' = IF analysis.revision # page.revision THEN Idle
                 ELSE [at |-> "displayed", of |-> analysis.of, beside |-> page.snapshot]
  /\ UNCHANGED <<serverVars, page, etag, paused, failures, refresh>>

\* another analysis may be asked for
CloseAnalysis ==
  /\ analysis.at = "displayed" /\ analysis' = Idle
  /\ UNCHANGED <<serverVars, page, etag, paused, failures, refresh>>

Server == (\E c \in Contents : Publish(c)) \/ ChangeStatus \/ Restart
Refresh ==
  Ask \/ AnswerSnapshot \/ Unmodified \/ Read \/ AnswerDelta \/ ApplyDelta \/ Finish
Analyze == AskAnalysis \/ AnswerAnalysis \/ ReceiveAnalysis \/ CloseAnalysis

ReportNext == Server \/ Refresh \/ Fail \/ Pause \/ Analyze

ReportSpec == ReportInit /\ [][ReportNext]_reportVars

\* The poll timer fires again after each refresh and every request ends: its
\* headers by the page's own timeout, its body by the server's, which closes a
\* connection that it writes to for too long.  The server's publications, failures
\* and the user's clicks need not happen.
FairReportSpec == ReportSpec /\ WF_reportVars(Refresh)

-----------------------------------------------------------------------------
\* what the page shows belongs together: the snapshot, the revision and the
\* graph, which is the server's own graph of that revision
OnePublication ==
  /\ page.snapshot[2] = page.revision
  /\ page.graph # NoGraph => page.graph.revision = page.revision
  /\ page.snapshot[1] = body.process =>
       \A i \in 1..Len(history) :
         history[i].revision = page.revision => page.graph = history[i]

\* "The separate endpoint may already have advanced. Keep the publication
\* atomic." (report-store.ts:93): a page shows one publication, even if its
\* graph was put together from an older one and a delta computed later than
\* the snapshot was read.
PageIsOnePublication == ~page.loading => OnePublication

\* ... and it does unless it outlives the server process it was loaded from.
PageOfOneServer == ~page.loading /\ body.process = page.from => OnePublication

\* From any graph the server still keeps, the update it serves leads to its
\* newest graph, for the reference Apply and for the browser alike; from a base
\* that is no longer kept, too.
EveryBaseCatchesUp ==
  history # <<>> =>
    LET newest == history[Len(history)]
    IN  /\ \A i \in 1..Len(history) :
             LET u == Served(history[i].revision)
             IN  Apply(history[i], u) = newest /\ ClientApply(history[i], u) = newest
        /\ Apply(NoGraph, Served(0)) = newest /\ ClientApply(NoGraph, Served(0)) = newest

\* An analysis is shown beside the snapshot it was made of, whatever was
\* published while the model was thinking, unless the server was restarted.
AnalysisFitsPage ==
  analysis.at = "displayed" /\ body.process = page.from => analysis.of = analysis.beside

\* A page that is not paused comes to show the newest publication, whatever
\* requests fail, unless it outlives the server it was loaded from.
PageCatchesUp ==
  \A n \in 1..MaxPublications :
    body.revision = n /\ ~paused ~> page.revision >= n \/ paused \/ body.process > 1
=============================================================================
