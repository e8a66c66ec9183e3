------------------------------ MODULE LiveRun ------------------------------
(***************************************************************************)
(* The goroutines around the live store: one polling worker per polled     *)
(* source (Store.Run), the watch runtime's two kinds of callers            *)
(* (publishWatchUpdate in cli/serve.go), the publish hook that             *)
(* PublishSource starts after it has released the mutex, and shutdown.     *)
(***************************************************************************)
EXTENDS LiveStore, FiniteSets

CONSTANTS Rebuilders,   \* the watch loop, which publishes rebuilt snapshots
          Reflectors    \* informer error handlers, which publish health only

Watchers == Rebuilders \cup Reflectors
Threads == Polled \cup Watchers
SourceOf(t) == IF t \in Polled THEN t ELSE "kubernetes"

ASSUME ThreadsAssumption ==
  /\ Watchers \cap Polled = {} /\ Rebuilders \cap Reflectors = {}
  /\ Watchers # {} => "kubernetes" \in Sources /\ Mode["kubernetes"] = "watch"

VARIABLES ctx,      \* the serve context: "live" or "cancelled"; "exited" with the process
          pc,       \* where each thread is
          attempt,  \* the snapshot and error a thread is about to publish
          hooks,    \* started hook goroutines, with the view each captured
          seen      \* the newest revision the hook function has been called with

runVars == <<ctx, pc, attempt, hooks, seen>>
allVars == <<vars, runVars>>

NoAttempt == [snapshot |-> NoSnapshot, err |-> ""]

RunInit ==
  /\ Init
  /\ ctx = "live"
  /\ pc = [t \in Threads |-> "idle"]
  /\ attempt = [t \in Threads |-> NoAttempt]
  /\ hooks = {}
  /\ seen = 0

\* at most MaxRevision updates, those under way included
Bounded(new) ==
  new # NoSnapshot =>
    revision + Cardinality({t \in Threads : attempt[t].snapshot # NoSnapshot}) < MaxRevision

Goto(t, from, to) == ctx # "exited" /\ pc[t] = from /\ pc' = [pc EXCEPT ![t] = to]

\* loop head: announce the refresh
Start(s) ==
  /\ ctx = "live" /\ Goto(s, "idle", "started")
  /\ AddEvent /\ UNCHANGED <<ctx, attempt, hooks, seen>>

BeginAttempt(s) ==
  /\ Goto(s, "started", "collecting")
  /\ Begin(s) /\ UNCHANGED <<ctx, attempt, hooks, seen>>

\* Collect returns.  An answer that arrives after the attempt's deadline keeps
\* its snapshot but takes the deadline's error; a cancelled worker drops it.
CollectReturnsOnce(s, new, err, late) ==  \* mutant: the deadline ends the worker
  /\ Bounded(new)
  /\ IF ctx = "cancelled" \/ late THEN Goto(s, "collecting", "done") /\ UNCHANGED attempt
     ELSE /\ Goto(s, "collecting", "returned")
          /\ attempt' = [attempt EXCEPT ![s] = [snapshot |-> new, err |-> err]]
  /\ UNCHANGED <<vars, ctx, hooks, seen>>
CollectReturns(s, new, err, late) ==
  /\ Bounded(new)
  /\ IF ctx = "cancelled" THEN Goto(s, "collecting", "done") /\ UNCHANGED attempt
     ELSE /\ Goto(s, "collecting", "returned")
          /\ attempt' = [attempt EXCEPT ![s] =
               [snapshot |-> new, err |-> IF late THEN "timeout" ELSE err]]
  /\ UNCHANGED <<vars, ctx, hooks, seen>>

\* the watch runtime hands over a rebuilt snapshot, or only its failing health
WatchUpdate(t, new, err) ==
  /\ ctx = "live" /\ Bounded(new)
  /\ IF t \in Rebuilders THEN new # NoSnapshot ELSE new = NoSnapshot /\ err # ""
  /\ Goto(t, "idle", "returned")
  /\ attempt' = [attempt EXCEPT ![t] = [snapshot |-> new, err |-> err]]
  /\ UNCHANGED <<vars, ctx, hooks, seen>>

\* finish / publishWatchUpdate: the locked part of PublishSource
FinishQuietly(t) ==  \* mutant: the hook is only for updates without an error
  LET s == SourceOf(t) IN
  /\ Goto(t, "returned", IF /\ Accepted(s, attempt[t].snapshot)
                            /\ attempt[t].err = "" THEN "published" ELSE "reporting")
  /\ PublishSource(s, attempt[t].snapshot, attempt[t].err)
  /\ attempt' = [attempt EXCEPT ![t] = NoAttempt]
  /\ UNCHANGED <<ctx, hooks, seen>>
Finish(t) ==
  LET s == SourceOf(t) IN
  /\ Goto(t, "returned",
          IF Accepted(s, attempt[t].snapshot) THEN "published" ELSE "reporting")
  /\ PublishSource(s, attempt[t].snapshot, attempt[t].err)
  /\ attempt' = [attempt EXCEPT ![t] = NoAttempt]
  /\ UNCHANGED <<ctx, hooks, seen>>

\* watcher.Run returns an error, which it only does before its first snapshot ...
WatchLoopFails(t) ==
  /\ ctx = "live" /\ snapshot["kubernetes"] = NoSnapshot
  /\ Goto(t, "idle", "failing")
  /\ UNCHANGED <<vars, ctx, attempt, hooks, seen>>

\* ... and its goroutine publishes the error and ends
ReportLoopFailure(t) ==
  /\ Goto(t, "failing", "done")
  /\ PublishSource("kubernetes", NoSnapshot, "failed")
  /\ UNCHANGED <<ctx, attempt, hooks, seen>>

\* publishLatest: the view is read again, after the mutex was released, and
\* handed to a new goroutine
PublishLatest(t) ==
  /\ Goto(t, "published", "reporting")
  /\ hooks' = hooks \cup {[thread |-> t, revision |-> body.revision]}
  /\ UNCHANGED <<vars, ctx, attempt, seen>>

Report(t) ==
  /\ Goto(t, "reporting", IF t \in Polled THEN "waiting" ELSE "idle")
  /\ AddEvent /\ UNCHANGED <<ctx, attempt, hooks, seen>>

\* the interval timer; select may prefer it to a cancelled context
TimerFires(s) ==
  /\ Goto(s, "waiting", "idle")
  /\ UNCHANGED <<vars, ctx, attempt, hooks, seen>>

StopWaiting(t) ==  \* mutant: only the timer's select looks at the context
  /\ ctx = "cancelled" /\ Goto(t, "waiting", "done")
  /\ UNCHANGED <<vars, ctx, attempt, hooks, seen>>
Stop(t) ==
  /\ ctx = "cancelled"
  /\ Goto(t, "idle", "done") \/ Goto(t, "waiting", "done")
  /\ UNCHANGED <<vars, ctx, attempt, hooks, seen>>

\* a hook goroutine runs: nothing orders it after the ones started before it
RunHook(h) ==
  /\ ctx # "exited" /\ h \in hooks /\ hooks' = hooks \ {h}
  /\ seen' = IF h.revision > seen THEN h.revision ELSE seen
  /\ UNCHANGED <<vars, ctx, pc, attempt>>

\* the signal handler's context ends
Cancel ==
  /\ ctx = "live" /\ ctx' = "cancelled"
  /\ UNCHANGED <<vars, pc, attempt, hooks, seen>>

\* serve waits for the workers and the watch loop, not for informers and hooks,
\* and the process ends: whatever still waits to run never does
Exit ==
  /\ ctx = "cancelled" /\ \A t \in Polled \cup Rebuilders : pc[t] = "done"
  /\ ctx' = "exited"
  /\ UNCHANGED <<vars, pc, attempt, hooks, seen>>

\* serve logs its start and its shutdown as events, the watch runtime and
\* the analysis handler their steps
OtherEvent == ctx # "exited" /\ AddEvent /\ UNCHANGED runVars

Collects(s) ==
  \E new \in Inputs \cup {NoSnapshot}, err \in {"", "failed"}, late \in BOOLEAN :
    CollectReturns(s, new, err, late)

Worker(s) == \/ Start(s) \/ BeginAttempt(s) \/ Collects(s) \/ TimerFires(s)
Publisher(t) == \/ Finish(t) \/ PublishLatest(t) \/ Report(t) \/ Stop(t)
Watching(t) == \E new \in Inputs \cup {NoSnapshot}, err \in {"", "failed"} :
                 WatchUpdate(t, new, err)

RunNext ==
  \/ \E s \in Polled : Worker(s)
  \/ \E t \in Threads : Publisher(t)
  \/ \E t \in Watchers : Watching(t)
  \/ \E t \in Rebuilders : WatchLoopFails(t) \/ ReportLoopFailure(t)
  \/ \E h \in hooks : RunHook(h)
  \/ Cancel \/ Exit
  \/ OtherEvent

RunSpec == RunInit /\ [][RunNext]_allVars

\* As long as the process lives, Go runs every goroutine that can run, Collect
\* returns because its context has a deadline, and timers fire.  Cluster events,
\* failures, other events and the signal need never come.
Fairness ==
  /\ \A s \in Polled : WF_allVars(Worker(s))
  /\ \A t \in Threads : WF_allVars(Publisher(t))
  /\ \A t \in Rebuilders : WF_allVars(ReportLoopFailure(t))
  /\ WF_allVars(\E h \in hooks : RunHook(h))
  /\ WF_allVars(Exit)
FairSpec == RunSpec /\ Fairness

-----------------------------------------------------------------------------
RunTypeOK ==
  /\ TypeOK
  /\ ctx \in {"live", "cancelled", "exited"}
  /\ pc \in [Threads -> {"idle", "started", "collecting", "returned",
                         "published", "reporting", "waiting", "failing", "done"}]
  /\ attempt \in [Threads -> [snapshot : Snapshot \cup {NoSnapshot},
                              err : {"", "failed", "timeout"}]]
  /\ hooks \subseteq [thread : Threads, revision : Nat]
  /\ seen \in Nat

\* "Refreshing" in the status means that an attempt of this source is under
\* way: attempts never overlap, none is left marked after it ended unless the
\* process is shutting down.
RefreshingIsHonest ==
  \A s \in Polled :
    /\ pc[s] \in {"collecting", "returned"} => status[s].refreshing
    /\ status[s].refreshing => pc[s] \in {"collecting", "returned"} \/ ctx # "live"

\* Once no publisher is between its update and its view, the newest revision
\* has been handed to a hook goroutine: reading the view again outside the
\* mutex can skip a revision but never the last one.
NewestIsHandedOver ==
  revision > 0 /\ (\A t \in Threads : pc[t] # "published") =>
    seen = revision \/ \E h \in hooks : h.revision = revision

\* The store's operations are the only way the goroutines change it: whatever
\* the interleaving, the store keeps its promise to the readers.
RunKeepsPromise == Promise!RetentionSpec

\* Every accepted update reaches the publish hook, itself or a later one, unless
\* the process exits first: the last update before the signal may reach nobody,
\* because the exit does not wait for the hooks.
EveryUpdateReachesTheHook ==
  \A n \in 1..MaxRevision : (revision = n) ~> (seen >= n \/ ctx = "exited")

\* Polling goes on for as long as the context lives, whatever the attempts return.
PollingGoesOn == \A s \in Polled : []<>(pc[s] = "collecting" \/ ctx # "live")

\* After the signal every worker and the watch loop return, from whatever they
\* were waiting for, and the process exits.
ShutdownCompletes == (ctx = "cancelled") ~> (ctx = "exited")
=============================================================================
