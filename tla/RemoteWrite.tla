----------------------------- MODULE RemoteWrite -----------------------------
(***************************************************************************)
(* One collector writing to the hub.  The publish hook of cli/serve.go     *)
(* turns a live view into an envelope and offers it to the RemoteWriter's  *)
(* one-place channel (internal/hub/client.go); the writer goroutine checks *)
(* what it finds there and posts it, over a network that may lose, delay   *)
(* and reorder requests and answers, to the HubStore.                      *)
(*                                                                         *)
(* The live store is its revision counter here (LiveStore checks what a    *)
(* revision means), the identities DeriveCluster finds in its data and     *)
(* whether the graph of that data validates, which the hook does not ask:  *)
(* an envelope may be one that neither end accepts.  A restart of the      *)
(* collector or of the hub loses all of its state; what is on the wire     *)
(* stays there.                                                            *)
(***************************************************************************)
EXTENDS HubStore, FiniteSets

CONSTANTS ExplicitId,   \* --cluster-id was given
          MaxRevision,  \* bound: publications of one process
          MaxHooks,     \* bound: publications whose hook has not ended, at a time
          MaxWire,      \* bound: requests on the wire at a time
          MaxStarts,    \* bound: starts of the collector process
          MaxHubStarts  \* bound: starts of the hub process

ASSUME RemoteAssumption ==
  /\ ExplicitId \in BOOLEAN
  /\ {MaxRevision, MaxHooks, MaxWire, MaxStarts, MaxHubStarts} \subseteq Nat \ {0}
  /\ 0..MaxRevision \subseteq Revisions /\ 1..MaxStarts \subseteq Tags
  /\ {"given", "arn", "server", "unknown"} \subseteq Clusters

VARIABLES hub,          \* how many times the hub was started
          revision,     \* the live store's revision
          known,        \* the identities in the data that is retained
          projects,     \* whether the graph of that data validates
          process,      \* how many times the collector was started
          unread,       \* publications whose publisher has not read the view again
          hooks,        \* hook goroutines: the envelope and the step of Publish
          channel,      \* RemoteWriter.latest: at most one envelope
          pending,      \* run's pending envelope
          writer,       \* where run is
          wire,         \* POST requests the hub has not handled
          acked,        \* the last envelope answered with success
          ackedBy       \* and the start of the hub that answered; 0 for none

storeVars == <<revision, known, projects, unread>>
collectorVars == <<storeVars, process, hooks, channel, pending, writer, wire, acked, ackedBy>>
allVars == <<hubVars, hub, collectorVars>>

Nothing == NoEnvelope

RemoteInit ==
  /\ HubInit /\ hub = 1
  /\ revision = 0 /\ known = {} /\ projects = TRUE /\ unread = {} /\ process = 1
  /\ hooks = {} /\ channel = Nothing /\ pending = Nothing
  /\ writer = "take" /\ wire = {} /\ acked = Nothing /\ ackedBy = 0

\* DeriveCluster: the explicit id, else the ARN of a described EKS cluster, else
\* the fallback made from the Kubernetes server.  Data of an EKS cluster that
\* could not be described, alone, has no identity.
DerivedId(ids) ==
  IF ExplicitId THEN "given"
  ELSE IF "arn" \in ids THEN "arn" ELSE IF "server" \in ids THEN "server" ELSE NoId

\* the envelope serve's hook builds of a view, whose graph it does not validate;
\* the graph of a view without an identity names the cluster "unknown"
EnvelopeOf(rev, id, ok) ==
  [id |-> id, revision |-> rev, tag |-> process, snapshot |-> TRUE,
   derived |-> id, projects |-> ok,
   graph |-> [cluster |-> IF id = NoId THEN "unknown" ELSE id,
              revision |-> rev, valid |-> ok]]

\* what the update of one source brings: Kubernetes its server, EKS its ARN or,
\* if DescribeCluster failed, nothing
Sightings == {{"server"}, {"arn"}, {}}

\* PublishSource accepted an update of a source and unlocked the store.  Its data
\* joins what the other source published; an EKS cluster that was described and
\* no longer is would be a regression of the coverage, which is not accepted.
PublishedAlone(ids, ok) ==  \* mutant: the view has the data of the updated source alone
  /\ revision < MaxRevision /\ Cardinality(unread) + Cardinality(hooks) < MaxHooks
  /\ ids = {} => "arn" \notin known
  /\ revision' = revision + 1 /\ known' = ids /\ projects' = ok
  /\ unread' = unread \cup {revision'}
  /\ UNCHANGED <<hubVars, hub, process, hooks, channel, pending, writer, wire, acked, ackedBy>>
Published(ids, ok) ==
  /\ revision < MaxRevision /\ Cardinality(unread) + Cardinality(hooks) < MaxHooks
  /\ ids = {} => "arn" \notin known
  /\ revision' = revision + 1 /\ known' = known \cup ids /\ projects' = ok
  /\ unread' = unread \cup {revision'}
  /\ UNCHANGED <<hubVars, hub, process, hooks, channel, pending, writer, wire, acked, ackedBy>>

\* publishLatest reads the view again, maybe a later one, and starts the hook
ReadView(n) ==
  /\ n \in unread /\ unread' = unread \ {n}
  /\ hooks' = hooks \cup
       {[of |-> n, env |-> EnvelopeOf(revision, DerivedId(known), projects), at |-> "offer"]}
  /\ UNCHANGED <<hubVars, hub, revision, known, projects, process, channel, pending, writer,
                 wire, acked, ackedBy>>

Step(h, at) == hooks' = (hooks \ {h}) \cup {[h EXCEPT !.at = at]}
Ends(h) == hooks' = hooks \ {h}

\* Publish, first select: the channel takes the envelope if it is empty
OfferOnce(h) ==  \* mutant: a full channel drops the new envelope
  /\ h.at = "offer" /\ Ends(h)
  /\ channel' = IF channel = Nothing THEN h.env ELSE channel
Offer(h) ==
  /\ h.at = "offer"
  /\ IF channel = Nothing THEN channel' = h.env /\ Ends(h) ELSE Step(h, "drain") /\ UNCHANGED channel
\* default branch: drop whatever is queued
Drain(h) == h.at = "drain" /\ channel' = Nothing /\ Step(h, "reoffer")
\* and offer again, giving up if the channel was filled meanwhile
Reoffer(h) ==
  /\ h.at = "reoffer" /\ Ends(h)
  /\ channel' = IF channel = Nothing THEN h.env ELSE channel

PublishStep(h) ==
  /\ Offer(h) \/ Drain(h) \/ Reoffer(h)
  /\ UNCHANGED <<hubVars, hub, storeVars, process, pending, writer, wire, acked, ackedBy>>

\* run: pending is nil, wait for the channel
Take ==
  /\ writer = "take" /\ channel # Nothing
  /\ pending' = channel /\ channel' = Nothing /\ writer' = "send"
  /\ UNCHANGED <<hubVars, hub, storeVars, process, hooks, wire, acked, ackedBy>>

\* send: the envelope is complete, the request leaves and its answer is awaited
Post ==
  /\ writer = "send" /\ Complete(pending) /\ writer' = "answer"
  /\ Cardinality(wire) < MaxWire
  /\ wire' = wire \cup {[env |-> pending, awaited |-> TRUE]}
  /\ UNCHANGED <<hubVars, hub, storeVars, process, hooks, channel, pending, acked, ackedBy>>

\* the answer is a success: the hub accepted or ignored the envelope
Succeed == writer' = "take" /\ acked' = pending /\ ackedBy' = hub /\ pending' = Nothing
\* an error, a refusal or the client's timeout: wait for the retry timer
FailSendForgets ==  \* mutant: no retry
  writer' = "take" /\ pending' = Nothing /\ UNCHANGED <<acked, ackedBy>>
FailSend == writer' = "retry" /\ UNCHANGED <<pending, acked, ackedBy>>

\* send: CompleteEnvelope fails, which is an error like that of a request
Refuse ==
  /\ writer = "send" /\ ~Complete(pending) /\ FailSend
  /\ UNCHANGED <<hubVars, hub, storeVars, process, hooks, channel, wire>>

\* the hub handles a request; an awaited answer reaches the writer or is lost
Deliver(q) ==
  /\ wire' = wire \ {q}
  /\ Put(q.env)
  /\ \/ q.awaited /\ Succeed
     \/ q.awaited /\ FailSend
     \/ ~q.awaited /\ UNCHANGED <<writer, pending, acked, ackedBy>>
  /\ UNCHANGED <<hub, storeVars, process, hooks, channel>>

\* the request is lost, or refused before it reaches Put
LoseUnnoticed(q) ==  \* mutant: the answer's status is not looked at
  /\ wire' = wire \ {q}
  /\ IF q.awaited THEN Succeed ELSE UNCHANGED <<writer, pending, acked, ackedBy>>
  /\ UNCHANGED <<hubVars, hub, storeVars, process, hooks, channel>>
Lose(q) ==
  /\ wire' = wire \ {q}
  /\ IF q.awaited THEN FailSend ELSE UNCHANGED <<writer, pending, acked, ackedBy>>
  /\ UNCHANGED <<hubVars, hub, storeVars, process, hooks, channel>>

\* nobody waits any more for the requests on the wire
Abandoned == {[q EXCEPT !.awaited = FALSE] : q \in wire}

\* the client's timeout passes while the request is still under way
TimeOutAwaiting ==  \* mutant: the old request may still answer
  /\ writer = "answer" /\ FailSend
  /\ UNCHANGED <<hubVars, hub, storeVars, process, hooks, channel, wire>>
TimeOut ==
  /\ writer = "answer" /\ FailSend /\ wire' = Abandoned
  /\ UNCHANGED <<hubVars, hub, storeVars, process, hooks, channel>>

\* run, after an error: a queued envelope replaces the pending one ...
Replace ==
  /\ writer = "retry" /\ channel # Nothing
  /\ pending' = channel /\ channel' = Nothing /\ writer' = "send"
  /\ UNCHANGED <<hubVars, hub, storeVars, process, hooks, wire, acked, ackedBy>>
\* ... or the retry timer fires and the same one is sent again
Retry ==
  /\ writer = "retry" /\ writer' = "send"
  /\ UNCHANGED <<hubVars, hub, storeVars, process, hooks, channel, pending, wire, acked, ackedBy>>

\* the collector stops, in any state, and is started again
Restart ==
  /\ process < MaxStarts /\ process' = process + 1
  /\ revision' = 0 /\ known' = {} /\ projects' = TRUE /\ unread' = {}
  /\ hooks' = {} /\ channel' = Nothing /\ pending' = Nothing /\ writer' = "take"
  /\ acked' = Nothing /\ ackedBy' = 0 /\ wire' = Abandoned
  /\ UNCHANGED <<hubVars, hub>>

\* the hub stops and is started again, with the zero Store.  A request
\* under way may still reach the new process, or time out.
HubRestart ==
  /\ hub < MaxHubStarts /\ hub' = hub + 1
  /\ latest' = [c \in Clusters |-> NoEnvelope]
  /\ graphs' = [c \in Clusters |-> <<>>] /\ fleet' = 0
  /\ UNCHANGED collectorVars

Writes == Take \/ Post \/ Refuse \/ Replace \/ Retry

RemoteNext ==
  \/ \E ids \in Sightings, ok \in BOOLEAN : Published(ids, ok)
  \/ \E n \in unread : ReadView(n)
  \/ \E h \in hooks : PublishStep(h)
  \/ Writes
  \/ TimeOut
  \/ \E q \in wire : Deliver(q) \/ Lose(q)
  \/ Restart \/ HubRestart

RemoteSpec == RemoteInit /\ [][RemoteNext]_allVars

\* The goroutines run, requests end one way or the other, and a hub that is
\* asked again and again answers at some point.  After an error the writer takes
\* what is queued by then, not the timer.
RemoteFairness ==
  /\ WF_allVars(\E n \in unread : ReadView(n))
  /\ WF_allVars(\E h \in hooks : PublishStep(h))
  /\ WF_allVars(Writes)
  /\ WF_allVars(\E q \in wire : Deliver(q) \/ Lose(q))
  /\ SF_allVars(Replace)
  /\ SF_allVars(\E q \in wire : Deliver(q) /\ acked' = q.env /\ writer' = "take")
FairRemoteSpec == RemoteSpec /\ RemoteFairness

-----------------------------------------------------------------------------
Queued == Envelope \cup {Nothing}

RemoteTypeOK ==
  /\ HubTypeOK
  /\ revision \in 0..MaxRevision /\ process \in 1..MaxStarts
  /\ known \subseteq {"arn", "server"} /\ projects \in BOOLEAN /\ unread \subseteq 1..revision
  /\ \A h \in hooks :
       h.of \in 1..revision /\ h.env \in Envelope /\ h.at \in {"offer", "drain", "reoffer"}
  /\ channel \in Queued /\ pending \in Queued /\ acked \in Queued
  /\ hub \in 1..MaxHubStarts /\ ackedBy \in 0..hub /\ (ackedBy = 0 <=> acked = Nothing)
  /\ writer \in {"take", "send", "answer", "retry"}
  /\ wire \subseteq [env : Envelope, awaited : BOOLEAN] /\ \A q \in wire : Complete(q.env)
  /\ (writer = "take") <=> (pending = Nothing)
  /\ \A q \in wire : q.awaited => writer = "answer" /\ q.env = pending

\* the newest revision of the running process is about to be read, queued, being
\* sent, or the hub's answer to it (or to a newer one) was a success
AtLeast(env, rev) == env # Nothing /\ env.tag = process /\ env.revision >= rev
NewestKept ==
  \/ AtLeast(channel, revision) \/ AtLeast(pending, revision) \/ AtLeast(acked, revision)
  \/ unread # {} \/ \E h \in hooks : AtLeast(h.env, revision)

\* "Hub writes are best-effort and retried asynchronously with only the newest
\* pending envelope retained" (README.md:342-344): whatever fails, the newest
\* revision is not dropped before the hub has answered for it.
NewestRetained == revision > 0 => NewestKept

\* Unless one of the two processes is restarted, the hub comes to show each
\* revision that it has not answered for, or a newer one, or else the writer is at
\* an envelope of that revision or a newer one which is not complete, and which it
\* would try for ever: only the next publication can replace it.  An incomplete
\* envelope never holds up a complete one that is newer.  What an earlier hub has
\* answered for is not sent again: after a restart the hub shows nothing until the
\* next publication.
Shown(rev) == \E c \in Clusters : latest[c] # NoEnvelope /\ latest[c].revision >= rev
HubCatchesUp ==
  \A n \in 1..MaxRevision, p \in 1..MaxStarts, h \in 1..MaxHubStarts :
    (revision = n /\ process = p /\ hub = h /\ ~AtLeast(acked, n))
      ~> (\/ Shown(n) \/ (AtLeast(pending, n) /\ ~Complete(pending))
          \/ process # p \/ hub # h)

\* Which identity an envelope carries depends on the sources that had published
\* when its hook ran (DeriveCluster), so one collector can leave two rows.  The
\* row of the fallback identity is always the older one of the two, however
\* late and in whatever order the envelopes arrive.
FallbackIsSuperseded ==
  LET fallback == latest["server"]
      current == latest["arn"]
  IN  fallback # NoEnvelope /\ current # NoEnvelope /\ fallback.tag = current.tag
        => fallback.revision < current.revision

\* As long as the hub runs, nothing that a collector does moves a row back.
RowsLostByRestartOnly == [][hub' = hub => \A c \in Clusters : Advances(c)]_allVars

\* An answer with success means that the hub that gave it shows this envelope
\* or one at least as new: a newer one of the same process or, after a restart, the
\* envelope of an earlier process that stands in its way.
AcknowledgedIsCovered ==
  acked # Nothing /\ ackedBy = hub =>
    LET row == latest[ClusterOf(acked)]
    IN  /\ row # NoEnvelope
        /\ row.revision >= acked.revision

\* "stores only the latest reported envelope for each cluster" (README.md:328):
\* what the hub acknowledged is what it shows, or something newer of the same
\* process.
AcknowledgedIsShown ==
  acked # Nothing /\ ackedBy = hub =>
    LET row == latest[ClusterOf(acked)]
    IN  row.tag = acked.tag /\ row.revision >= acked.revision
=============================================================================
