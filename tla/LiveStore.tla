----------------------------- MODULE LiveStore -----------------------------
(***************************************************************************)
(* The in-memory store behind `teleskope serve` (internal/live/live.go).   *)
(*                                                                         *)
(* Every mutating method runs under one mutex and ends by re-encoding the  *)
(* served response, so each method is one action.  Here any sequence of    *)
(* calls a source can make is allowed; LiveRun adds the goroutines that    *)
(* make them and the publish hooks that run outside the mutex.             *)
(*                                                                         *)
(* A snapshot is its coverage (what each resource list returned) and       *)
(* whether topology.Project of it validates; inventory contents, times and *)
(* error texts are not told apart.                                         *)
(***************************************************************************)
EXTENDS Integers, Sequences, SequencesExt

CONSTANTS Sources,      \* Store.order: the configured source names
          Mode,         \* Mode[s]: "poll", "watch" or "recorded"
          Resources,    \* coverage keys (area/resource) of one source
          Inputs,       \* snapshots the collectors may return
          MaxEvents,    \* maxEvents in the code (200)
          MaxGraphs,    \* maxGraphRevisions in the code (16)
          SeqLimit,     \* bound: event numbers are told apart modulo SeqLimit
          MaxRevision   \* bound of the exploration, on accepted updates

\* An item of snapshot.Coverage: complete, incomplete although some objects
\* were read, incomplete and empty, or not listed at all.
Coverage == {"complete", "degraded", "denied", "absent"}
Snapshot == [cov : [Resources -> Coverage], valid : BOOLEAN]
NoSnapshot == [cov |-> <<>>, valid |-> FALSE]
NoCoverage == <<>>

ASSUME SourcesAssumption == Sources # {} /\ Sources \subseteq {"kubernetes", "eks"}
ASSUME ModeAssumption == Mode \in [Sources -> {"poll", "watch", "recorded"}]
ASSUME InputsAssumption == Inputs \subseteq Snapshot /\ NoSnapshot \notin Snapshot
ASSUME BoundsAssumption ==
  /\ MaxEvents \in Nat \ {0} /\ MaxGraphs \in Nat \ {0}
  /\ SeqLimit \in Nat \ {0} /\ MaxRevision \in Nat

VARIABLES status,       \* entries[s].status
          snapshot,     \* entries[s].snapshot, NoSnapshot when nil
          events,       \* the sequence numbers of the retained events
          eventSeq,     \* the last sequence number given out
          revision,     \* number of accepted publications
          graphs,       \* retained topology graphs, oldest first
          body          \* the encoded response every reader is served

vars == <<status, snapshot, events, eventSeq, revision, graphs, body>>

Polled == {s \in Sources : Mode[s] = "poll"}
Errors == {"failed", "timeout", "empty", "regressed"}

-----------------------------------------------------------------------------
(* encode: the response is rebuilt from the entries after every change.    *)

HasData(snap) == \E s \in Sources : snap[s] # NoSnapshot

\* topology.Project of the combined snapshot, stamped with the revision
Project(snap, rev) == [revision |-> rev, parts |-> snap]
ValidGraph(g) == \A s \in Sources : g.parts[s] # NoSnapshot => g.parts[s].valid
NoGraph == [revision |-> 0, parts |-> <<>>]

\* combinedModeLocked
CombinedMode(snap, st) ==
  LET modes == {st[s].mode : s \in {x \in Sources : snap[x] # NoSnapshot}}
  IN  IF modes = {} THEN "live/poll"
      ELSE IF \A m, n \in modes : m = n
           THEN CASE "watch" \in modes -> "live/watch"
                  [] "recorded" \in modes -> "recorded"
                  [] OTHER -> "live/poll"
           ELSE "live/mixed"

\* Advisor.SetFreshness argument: the Kubernetes source's state
Freshness(st) == IF "kubernetes" \in Sources THEN st["kubernetes"].state ELSE "unavailable"

Response ==
  [revision  |-> revision,
   sources   |-> status,
   snapshot  |-> snapshot,
   mode      |-> CombinedMode(snapshot, status),
   graph     |-> IF HasData(snapshot) /\ ValidGraph(Project(snapshot, revision))
                 THEN Project(snapshot, revision) ELSE NoGraph,
   freshness |-> IF HasData(snapshot) THEN Freshness(status) ELSE "none",
   events    |-> events]

\* rememberGraphLocked: one graph per revision, the oldest ones dropped
FirstN(q, n) == IF Len(q) > n THEN SubSeq(q, 1, n) ELSE q  \* mutant of LastN
LastN(q, n) == IF Len(q) > n THEN SubSeq(q, Len(q) - n + 1, Len(q)) ELSE q
\* mutants: the revision is not looked at; a full history is updated in place
RememberAlways(gs, g) == LastN(Append(gs, g), MaxGraphs)
RememberInPlace(gs, g) ==
  IF Len(gs) = MaxGraphs THEN [gs EXCEPT ![Len(gs)].parts = g.parts]
  ELSE IF gs # <<>> /\ Last(gs).revision = g.revision THEN gs ELSE Append(gs, g)
Remember(gs, g) ==
  IF gs # <<>> /\ Last(gs).revision = g.revision THEN gs ELSE LastN(Append(gs, g), MaxGraphs)

Encode ==
  /\ graphs' = IF HasData(snapshot') /\ ValidGraph(Project(snapshot', revision'))
               THEN Remember(graphs, Project(snapshot', revision')) ELSE graphs
  /\ body' = Response'

-----------------------------------------------------------------------------
(* The operations.                                                         *)

InitialStatusUnset ==  \* mutant: the state keeps the empty string a new entry has
  [state |-> "", mode |-> "", refreshing |-> FALSE, attempted |-> FALSE,
   succeeded |-> FALSE, scheduled |-> FALSE, error |-> "", coverage |-> NoCoverage]
InitialStatus ==
  [state |-> "loading", mode |-> "", refreshing |-> FALSE, attempted |-> FALSE,
   succeeded |-> FALSE, scheduled |-> FALSE, error |-> "", coverage |-> NoCoverage]

Init ==
  /\ status = [s \in Sources |-> InitialStatus]
  /\ snapshot = [s \in Sources |-> NoSnapshot]
  /\ events = <<>> /\ eventSeq = 0 /\ revision = 0 /\ graphs = <<>>
  /\ body = Response

\* begin: a polling attempt starts
BeginAnew(s) ==  \* mutant: the last error is cleared as well
  /\ s \in Polled
  /\ status' = [status EXCEPT ![s].mode = "poll", ![s].refreshing = TRUE, ![s].error = "",
                              ![s].attempted = TRUE, ![s].scheduled = FALSE]
  /\ UNCHANGED <<snapshot, events, eventSeq, revision>>
  /\ Encode
Begin(s) ==
  /\ s \in Polled
  /\ status' = [status EXCEPT ![s].mode = "poll", ![s].refreshing = TRUE,
                              ![s].attempted = TRUE, ![s].scheduled = FALSE]
  /\ UNCHANGED <<snapshot, events, eventSeq, revision>>
  /\ Encode

\* coverageRegression: a resource already observed can no longer be read
Observed(snap) == IF snap = NoSnapshot THEN {}
                  ELSE {r \in Resources : snap.cov[r] \in {"complete", "degraded"}}
\* mutant: only the loss of every resource counts
RegressesWhenEmpty(old, new) ==
  Observed(old) # {} /\ \A r \in Observed(old) : new.cov[r] # "complete"
Regresses(old, new) == \E r \in Observed(old) : new.cov[r] # "complete"

\* publishSourceLocked replaces the source's data, or not
Accepted(s, new) == new # NoSnapshot /\ ~Regresses(snapshot[s], new)

\* the error recorded when the update is not published
RejectError(s, new, err) ==
  IF new # NoSnapshot /\ Regresses(snapshot[s], new) THEN "regressed"
  ELSE IF err = "" THEN "empty" ELSE err

\* the fields publishSourceLocked sets whatever the outcome
ReportedUnfinished(s) ==  \* mutant: Refreshing is left set
  [status[s] EXCEPT !.mode = Mode[s], !.scheduled = (s \in Polled), !.attempted = TRUE]
Reported(s) ==
  [status[s] EXCEPT !.mode = Mode[s], !.refreshing = FALSE,
                    !.scheduled = (s \in Polled), !.attempted = TRUE]

\* the state of a source whose data is published
GradeByDenials(new, err) ==  \* mutant
  IF err # "" \/ \E r \in Resources : new.cov[r] = "denied" THEN "partial" ELSE "ready"
Grade(new, err) ==
  IF err # "" \/ \E r \in Resources : new.cov[r] \in {"degraded", "denied"}
  THEN "partial" ELSE "ready"

Replace(s, new, err) ==
  /\ snapshot' = [snapshot EXCEPT ![s] = new]
  /\ revision' = revision + 1
  /\ status' = [status EXCEPT ![s] =
       [Reported(s) EXCEPT !.succeeded = TRUE, !.error = err,
                           !.coverage = new.cov, !.state = Grade(new, err)]]

Keep(s, new, err) ==
  /\ status' = [status EXCEPT ![s] =
       [Reported(s) EXCEPT !.error = RejectError(s, new, err),
                           !.state = IF snapshot[s] = NoSnapshot THEN "error" ELSE "stale",
                           !.coverage = snapshot[s].cov]]
  /\ UNCHANGED <<snapshot, revision>>

PublishCounted(s, new, err) ==  \* mutant: every attempt counts as a revision
  IF Accepted(s, new) THEN Replace(s, new, err)
  ELSE /\ status' = [status EXCEPT ![s] =
            [Reported(s) EXCEPT !.error = RejectError(s, new, err), !.state = "stale"]]
       /\ revision' = revision + 1 /\ UNCHANGED snapshot
Publish(s, new, err) ==
  IF Accepted(s, new) THEN Replace(s, new, err) ELSE Keep(s, new, err)

\* PublishSource, the locked part.  Only a polling worker passes the time of a
\* next attempt; an unknown source name changes nothing.
PublishSourceUnencoded(s, new, err) ==  \* mutant: encode is forgotten
  Publish(s, new, err) /\ UNCHANGED <<events, eventSeq, graphs, body>>
PublishSource(s, new, err) ==
  /\ Publish(s, new, err)
  /\ UNCHANGED <<events, eventSeq>>
  /\ Encode

\* AddEvent.  The code's uint64 counts on; the modulus keeps the states of an
\* endless process finite, and tells the retained events apart as long as
\* SeqLimit is larger than MaxEvents.
AddEventBefore ==  \* mutant: numbered before counting
  /\ eventSeq' = (eventSeq + 1) % SeqLimit
  /\ events' = LastN(Append(events, eventSeq), MaxEvents)
  /\ UNCHANGED <<status, snapshot, revision>>
  /\ Encode
AddEvent ==
  /\ eventSeq' = (eventSeq + 1) % SeqLimit
  /\ events' = LastN(Append(events, eventSeq'), MaxEvents)
  /\ UNCHANGED <<status, snapshot, revision>>
  /\ Encode

\* every call a source can make: a collector or the watch runtime may report
\* any input, with or without an error, or no snapshot at all
Step ==
  \/ \E s \in Sources : Begin(s)
  \/ \E s \in Sources, new \in Inputs \cup {NoSnapshot}, err \in {"", "failed", "timeout"} :
       PublishSource(s, new, err)
  \/ AddEvent

Next == Step /\ revision' <= MaxRevision

Spec == Init /\ [][Next]_vars

-----------------------------------------------------------------------------
(* Properties.                                                             *)

Status ==
  [state : {"loading", "ready", "partial", "stale", "error"},
   mode : {"", "poll", "watch", "recorded"}, refreshing : BOOLEAN,
   attempted : BOOLEAN, succeeded : BOOLEAN, scheduled : BOOLEAN,
   error : Errors \cup {""}, coverage : [Resources -> Coverage] \cup {NoCoverage}]
Entries == [Sources -> Snapshot \cup {NoSnapshot}]
Graph == [revision : Nat, parts : Entries]

\* The store's fields keep the types live.go declares.
TypeOK ==
  /\ status \in [Sources -> Status]
  /\ snapshot \in Entries
  /\ eventSeq \in 0..(SeqLimit - 1) /\ events \in Seq(0..(SeqLimit - 1))
  /\ revision \in Nat
  /\ graphs \in Seq(Graph)

\* What /api/snapshot serves is at every moment the response the present state
\* encodes to: no method changes an entry and leaves the old body behind.
ServedIsCurrent == body = Response

\* The status a source reports describes the data served for it: only a stale
\* or failed attempt shows an error without new data, the coverage listed is
\* that of the data on display, and "ready" hides nothing incomplete.
DescribesData(st, snap) ==
  /\ (snap = NoSnapshot) <=> (st.state \in {"loading", "error"})
  /\ st.coverage = snap.cov
  /\ st.state \in {"stale", "error"} => st.error # ""
  /\ st.state = "ready" =>
       /\ st.error = ""
       /\ \A r \in Resources : snap.cov[r] \in {"complete", "absent"}
  /\ st.state = "partial" =>
       st.error # "" \/ \E r \in Resources : snap.cov[r] \in {"degraded", "denied"}
StatusTellsData == \A s \in Sources : DescribesData(status[s], snapshot[s])

\* The topology history holds at most MaxGraphs graphs in revision order, none
\* newer than the data, and a graph that carries the present revision is the
\* projection of the present data: /api/topology never answers for a revision
\* with another revision's graph.
Ordered(gs) == \A i, j \in 1..Len(gs) : i < j => gs[i].revision < gs[j].revision
GraphHistory ==
  /\ Len(graphs) <= MaxGraphs
  /\ Ordered(graphs)
  /\ \A i \in 1..Len(graphs) :
       /\ graphs[i].revision <= revision
       /\ graphs[i].revision = revision => graphs[i].parts = snapshot

\* Whenever the response carries a graph, the delta endpoint answers from the
\* same graph: a browser that compares the two revisions never mixes them.
EndpointsAgree == body.graph # NoGraph => graphs # <<>> /\ Last(graphs) = body.graph

\* The retained events are the last ones emitted, without a gap (numbers are
\* compared modulo the bound SeqLimit).
EventLog ==
  /\ Len(events) <= MaxEvents
  /\ events # <<>> => Last(events) = eventSeq
  /\ \A i \in 1..(Len(events) - 1) : events[i + 1] = (events[i] + 1) % SeqLimit

\* The revision counts replacements of one source's data, which leave the
\* other source's data and status alone; nothing else moves it, so equal
\* revisions mean equal data within a process.
RevisionCountsUpdates ==
  [][IF revision' = revision THEN snapshot' = snapshot
     ELSE /\ revision' = revision + 1
          /\ \E s \in Sources :
               /\ status'[s].state \in {"ready", "partial"}
               /\ \A t \in Sources \ {s} : snapshot'[t] = snapshot[t] /\ status'[t] = status[t]]_vars

\* An error stays on display until that very source publishes data again:
\* starting another attempt, an event or the other source does not clear it.
ErrorsPersist ==
  [][\A s \in Sources :
       status[s].error # "" /\ status'[s].error = "" =>
         /\ revision' = revision + 1 /\ status'[s].state \in {"ready", "partial"}
         /\ \A t \in Sources \ {s} : status'[t] = status[t]]_vars

\* A retained graph is never rewritten: a revision handed out as a delta
\* baseline keeps meaning the same graph for as long as it is retained.
RetainedGraphsFixed ==
  [][\A i \in 1..Len(graphs), j \in 1..Len(graphs') :
       graphs[i].revision = graphs'[j].revision => graphs[i] = graphs'[j]]_vars

\* The store implements the abstract promise to its readers.
Held == [s \in Sources |-> Observed(snapshot[s])]
Promise == INSTANCE Retention WITH
  showing <- {s \in Sources : snapshot[s] # NoSnapshot}, held <- Held
KeepsPromise == Promise!RetentionSpec
=============================================================================
