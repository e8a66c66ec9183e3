--------------------------- MODULE LiveRunProofs ---------------------------
(***************************************************************************)
(* Proofs about LiveRun for any number of watch callers, sources, inputs   *)
(* and bounds.  The store's own invariant is used as it is: the first      *)
(* lemma shows that goroutines only ever take its steps.                   *)
(***************************************************************************)
EXTENDS LiveRun, LiveStoreProofs

Stages == {"idle", "started", "collecting", "returned",
           "published", "reporting", "waiting", "failing", "done"}
Attempts == [snapshot : Inputs \cup {NoSnapshot}, err : {"", "failed", "timeout"}]

\* The goroutines' own variables; what a collector is about to publish is one
\* of the inputs.
ThreadsOK ==
  /\ ctx \in {"live", "cancelled", "exited"}
  /\ pc \in [Threads -> Stages]
  /\ attempt \in [Threads -> Attempts]
  /\ hooks \subseteq [thread : Threads, revision : Nat]
  /\ seen \in Nat

\* A worker or a watch caller publishes for a configured source.
LEMMA SourceOfThread ==
  ASSUME NEW t \in Threads
  PROVE  /\ SourceOf(t) \in Sources
         /\ t \in Watchers => SourceOf(t) \notin Polled
         /\ t \in Polled => SourceOf(t) = t
  BY ThreadsAssumption DEF SourceOf, Threads, Polled

\* The watch loop publishes for a configured source that nobody polls.
LEMMA SourceOfLoop ==
  ASSUME NEW t \in Rebuilders
  PROVE  /\ t \in Threads /\ t \notin Polled
         /\ "kubernetes" \in Sources /\ "kubernetes" \notin Polled
  BY ThreadsAssumption DEF Threads, Watchers, Polled

\* A goroutine's step is a step of the store or leaves the store alone.
LEMMA RunStepsAreStoreSteps ==
  ASSUME ThreadsOK, RunNext
  PROVE  Step \/ UNCHANGED vars
<1>1. ASSUME NEW s \in Polled, Worker(s) PROVE Step \/ UNCHANGED vars
  <2>1. s \in Sources
    BY DEF Polled
  <2>2. CASE Start(s)
    BY <2>2 DEF Start, Step
  <2>3. CASE BeginAttempt(s)
    BY <2>1, <2>3 DEF BeginAttempt, Step
  <2>4. CASE Collects(s)
    BY <2>4 DEF Collects, CollectReturns
  <2>5. CASE TimerFires(s)
    BY <2>5 DEF TimerFires
  <2>6. QED
    BY <1>1, <2>2, <2>3, <2>4, <2>5 DEF Worker
<1>2. ASSUME NEW t \in Threads, Publisher(t) PROVE Step \/ UNCHANGED vars
  <2>1. CASE Finish(t)
    <3>1. PublishSource(SourceOf(t), attempt[t].snapshot, attempt[t].err)
      BY <2>1 DEF Finish
    <3>2. /\ SourceOf(t) \in Sources /\ attempt[t].snapshot \in Inputs \cup {NoSnapshot}
          /\ attempt[t].err \in {"", "failed", "timeout"}
      BY SourceOfThread DEF ThreadsOK, Attempts
    <3>3. QED
      BY <3>1, <3>2 DEF Step
  <2>2. CASE PublishLatest(t)
    BY <2>2 DEF PublishLatest
  <2>3. CASE Report(t)
    BY <2>3 DEF Report, Step
  <2>4. CASE Stop(t)
    BY <2>4 DEF Stop
  <2>5. QED
    BY <1>2, <2>1, <2>2, <2>3, <2>4 DEF Publisher
<1>3. ASSUME NEW t \in Watchers, Watching(t) PROVE UNCHANGED vars
  BY <1>3 DEF Watching, WatchUpdate
<1>4. ASSUME NEW h \in hooks, RunHook(h) PROVE UNCHANGED vars
  BY <1>4 DEF RunHook
<1>5. CASE Cancel \/ Exit \/ OtherEvent
  BY <1>5 DEF Cancel, Exit, OtherEvent, Step
<1>6. ASSUME NEW t \in Rebuilders, WatchLoopFails(t) PROVE UNCHANGED vars
  BY <1>6 DEF WatchLoopFails
<1>7. ASSUME NEW t \in Rebuilders, ReportLoopFailure(t) PROVE Step
  <2>1. PublishSource("kubernetes", NoSnapshot, "failed") /\ "kubernetes" \in Sources
    BY <1>7, SourceOfLoop DEF ReportLoopFailure
  <2>2. QED
    BY <2>1 DEF Step
<1>8. QED
  BY <1>1, <1>2, <1>3, <1>4, <1>5, <1>6, <1>7 DEF RunNext

LEMMA ThreadsStep == StoreInv /\ ThreadsOK /\ [RunNext]_allVars => ThreadsOK'
<1> SUFFICES ASSUME StoreInv, ThreadsOK, [RunNext]_allVars PROVE ThreadsOK'
  OBVIOUS
<1> USE DEF ThreadsOK, Stages, Goto
<1>1. ASSUME NEW s \in Polled, Worker(s) PROVE ThreadsOK'
  <2>1. s \in Threads
    BY DEF Threads
  <2>2. CASE Start(s) \/ BeginAttempt(s) \/ TimerFires(s)
    BY <2>1, <2>2 DEF Start, BeginAttempt, TimerFires
  <2>3. ASSUME NEW new \in Inputs \cup {NoSnapshot}, NEW err \in {"", "failed"},
               NEW late \in BOOLEAN, CollectReturns(s, new, err, late)
        PROVE  ThreadsOK'
    <3>1. [snapshot |-> new, err |-> IF late THEN "timeout" ELSE err] \in Attempts
      BY DEF Attempts
    <3>2. QED
      BY <2>1, <2>3, <3>1 DEF CollectReturns
  <2>4. QED
    BY <1>1, <2>2, <2>3 DEF Worker, Collects
<1>2. ASSUME NEW t \in Threads, Publisher(t) PROVE ThreadsOK'
  <2>1. CASE Finish(t)
    <3>1. NoAttempt \in Attempts
      BY DEF NoAttempt, Attempts
    <3>2. QED
      BY <2>1, <3>1 DEF Finish
  <2>2. CASE PublishLatest(t)
    <3>1. body.revision \in Nat
      BY DEF StoreInv, ServedIsCurrent, Response, TypeOK
    <3>2. [thread |-> t, revision |-> body.revision] \in [thread : Threads, revision : Nat]
      BY <3>1
    <3>3. QED
      BY <2>2, <3>2 DEF PublishLatest
  <2>3. CASE Report(t) \/ Stop(t)
    BY <2>3 DEF Report, Stop
  <2>4. QED
    BY <1>2, <2>1, <2>2, <2>3 DEF Publisher
<1>3. ASSUME NEW t \in Watchers, Watching(t) PROVE ThreadsOK'
  <2>1. PICK new \in Inputs \cup {NoSnapshot}, err \in {"", "failed"} : WatchUpdate(t, new, err)
    BY <1>3 DEF Watching
  <2>2. [snapshot |-> new, err |-> err] \in Attempts /\ t \in Threads
    BY DEF Attempts, Threads
  <2>3. QED
    BY <2>1, <2>2 DEF WatchUpdate
<1>4. ASSUME NEW h \in hooks, RunHook(h) PROVE ThreadsOK'
  BY <1>4 DEF RunHook
<1>5. CASE Cancel \/ Exit \/ OtherEvent
  BY <1>5 DEF Cancel, Exit, OtherEvent, runVars
<1>6. CASE UNCHANGED allVars
  BY <1>6 DEF allVars, runVars
<1>7. ASSUME NEW t \in Rebuilders, WatchLoopFails(t) \/ ReportLoopFailure(t) PROVE ThreadsOK'
  BY <1>7, SourceOfLoop DEF WatchLoopFails, ReportLoopFailure
<1>8. QED
  BY <1>1, <1>2, <1>3, <1>4, <1>5, <1>6, <1>7 DEF RunNext

LEMMA RunInvariant == RunSpec => [](StoreInv /\ EventLog /\ ThreadsOK)
<1>1. RunInit => StoreInv /\ EventLog /\ ThreadsOK
  <2> SUFFICES ASSUME RunInit PROVE StoreInv /\ EventLog /\ ThreadsOK
    OBVIOUS
  <2>1. StoreInv /\ EventLog
    BY StoreStarts DEF RunInit
  <2>2. NoAttempt \in Attempts
    BY DEF NoAttempt, Attempts
  <2>3. ThreadsOK
    BY <2>2 DEF RunInit, ThreadsOK, Stages
  <2>4. QED
    BY <2>1, <2>3
<1>2. StoreInv /\ EventLog /\ ThreadsOK /\ [RunNext]_allVars => StoreInv' /\ EventLog'
  <2> SUFFICES ASSUME StoreInv, EventLog, ThreadsOK, [RunNext]_allVars
               PROVE  StoreInv' /\ EventLog'
    OBVIOUS
  <2>1. Step \/ UNCHANGED vars
    BY RunStepsAreStoreSteps DEF allVars
  <2>2. QED
    BY <2>1, StoreStep, StoreStutter
<1>3. QED
  BY <1>1, <1>2, ThreadsStep, PTL DEF RunSpec

\* The types of the store and of the goroutines around it.
THEOREM RunTypeCorrect == RunSpec => []RunTypeOK
<1>1. StoreInv /\ ThreadsOK => RunTypeOK
  <2> SUFFICES ASSUME StoreInv, ThreadsOK PROVE RunTypeOK
    OBVIOUS
  <2>1. Attempts \subseteq [snapshot : Snapshot \cup {NoSnapshot}, err : {"", "failed", "timeout"}]
    BY InputsAssumption DEF Attempts
  <2>2. QED
    BY <2>1 DEF StoreInv, ThreadsOK, Stages, RunTypeOK
<1>2. QED
  BY <1>1, RunInvariant, PTL

\* However the workers, the watch callers, the hooks and shutdown interleave,
\* the readers are kept the store's promise.
THEOREM InterleavingsKeepPromise == RunSpec => RunKeepsPromise
<1>1. StoreInv /\ ThreadsOK /\ [RunNext]_allVars => [Promise!RetentionNext]_(Promise!rvars)
  <2> SUFFICES ASSUME StoreInv, ThreadsOK, [RunNext]_allVars
               PROVE  [Promise!RetentionNext]_(Promise!rvars)
    OBVIOUS
  <2>1. Step \/ UNCHANGED vars
    BY RunStepsAreStoreSteps DEF allVars
  <2>2. QED
    BY <2>1, PromiseStep
<1>2. RunInit => Promise!RetentionInit
  BY PromiseStarts DEF RunInit
<1>3. QED
  BY <1>1, <1>2, RunInvariant, PTL DEF RunSpec, RunKeepsPromise, Promise!RetentionSpec

-----------------------------------------------------------------------------
(* "Refreshing" means an attempt is under way.                             *)

\* Only a worker's own begin and finish touch the flag of a polled source.
LEMMA RefreshingStep ==
  ThreadsOK /\ TypeOK /\ RefreshingIsHonest /\ [RunNext]_allVars => RefreshingIsHonest'
<1> SUFFICES ASSUME ThreadsOK, TypeOK, RefreshingIsHonest, [RunNext]_allVars, NEW s \in Polled
             PROVE  /\ pc'[s] \in {"collecting", "returned"} => status'[s].refreshing
                    /\ status'[s].refreshing =>
                         pc'[s] \in {"collecting", "returned"} \/ ctx' # "live"
  BY DEF RefreshingIsHonest
<1> DEFINE Honest == /\ pc'[s] \in {"collecting", "returned"} => status'[s].refreshing
                     /\ status'[s].refreshing =>
                          pc'[s] \in {"collecting", "returned"} \/ ctx' # "live"
<1>1. /\ pc \in [Threads -> Stages] /\ ctx \in {"live", "cancelled", "exited"}
      /\ status \in [Sources -> Status] /\ s \in Threads /\ s \in Sources
  BY DEF ThreadsOK, TypeOK, Threads, Polled
<1>2. /\ pc[s] \in {"collecting", "returned"} => status[s].refreshing
      /\ status[s].refreshing => pc[s] \in {"collecting", "returned"} \/ ctx # "live"
  BY DEF RefreshingIsHonest
<1>3. ASSUME status' = status, pc'[s] = pc[s], ctx' \in {ctx, "cancelled", "exited"} PROVE Honest
  BY <1>2, <1>3
<1>4. ASSUME NEW p \in Polled, Worker(p) PROVE Honest
  <2>1. p \in Threads /\ p \in Sources
    BY DEF Threads, Polled
  <2>2. CASE Start(p) \/ TimerFires(p)
    <3>1. status' = status /\ ctx' = ctx
      BY <2>2 DEF Start, TimerFires, AddEvent, vars
    <3>2. p = s => pc[s] \notin {"collecting", "returned"} /\ pc'[s] \notin {"collecting", "returned"}
      BY <1>1, <2>2 DEF Start, TimerFires, Goto
    <3>3. p # s => pc'[s] = pc[s]
      BY <1>1, <2>2 DEF Start, TimerFires, Goto
    <3>4. QED
      BY <1>2, <1>3, <3>1, <3>2, <3>3
  <2>3. CASE BeginAttempt(p)
    <3>1. ctx' = ctx /\ Begin(p) /\ pc' = [pc EXCEPT ![p] = "collecting"]
      BY <2>3 DEF BeginAttempt, Goto
    <3>2. CASE p = s
      <4>1. status'[s].refreshing = TRUE
        BY <1>1, <3>1, <3>2 DEF Begin, Status
      <4>2. pc'[s] = "collecting"
        BY <1>1, <3>1, <3>2
      <4>3. QED
        BY <4>1, <4>2
    <3>3. CASE p # s
      <4>1. status'[s] = status[s] /\ pc'[s] = pc[s]
        BY <1>1, <3>1, <3>3 DEF Begin
      <4>2. QED
        BY <1>2, <3>1, <4>1
    <3>4. QED
      BY <3>2, <3>3
  <2>4. CASE Collects(p)
    <3>1. status' = status /\ ctx' = ctx
      BY <2>4 DEF Collects, CollectReturns, vars
    <3>2. p = s => /\ pc[s] = "collecting"
                   /\ pc'[s] = "returned" \/ (pc'[s] = "done" /\ ctx = "cancelled")
      BY <1>1, <2>4 DEF Collects, CollectReturns, Goto
    <3>3. p # s => pc'[s] = pc[s]
      BY <1>1, <2>4 DEF Collects, CollectReturns, Goto
    <3>4. QED
      BY <1>2, <1>3, <3>1, <3>2, <3>3
  <2>5. QED
    BY <1>4, <2>2, <2>3, <2>4 DEF Worker
<1>5. ASSUME NEW t \in Threads, Publisher(t) PROVE Honest
  <2>1. CASE Finish(t)
    <3>1. /\ PublishSource(SourceOf(t), attempt[t].snapshot, attempt[t].err) /\ ctx' = ctx
          /\ pc[t] = "returned" /\ pc'[t] \in {"published", "reporting"}
          /\ \A u \in Threads \ {t} : pc'[u] = pc[u]
      BY <1>1, <2>1 DEF Finish, Goto
    <3>2. CASE t = s
      <4>1. SourceOf(t) = s
        BY <3>2, SourceOfThread
      <4>2. status'[s].refreshing = FALSE
        BY <1>1, <3>1, <4>1 DEF PublishSource, Publish, Replace, Keep, Reported, Status
      <4>3. QED
        BY <3>1, <3>2, <4>2
    <3>3. CASE t # s
      <4>1. SourceOf(t) # s /\ SourceOf(t) \in Sources
        BY <3>3, SourceOfThread DEF Threads
      <4>2. status'[s] = status[s]
        BY <1>1, <3>1, <4>1 DEF PublishSource, Publish, Replace, Keep
      <4>3. QED
        BY <1>1, <1>2, <3>1, <3>3, <4>2
    <3>4. QED
      BY <3>2, <3>3
  <2>2. CASE PublishLatest(t) \/ Report(t) \/ Stop(t)
    <3>1. status' = status /\ ctx' = ctx
      BY <2>2 DEF PublishLatest, Report, Stop, AddEvent, vars
    <3>2. t = s => pc[s] \notin {"collecting", "returned"} /\ pc'[s] \notin {"collecting", "returned"}
      BY <1>1, <2>2 DEF PublishLatest, Report, Stop, Goto
    <3>3. t # s => pc'[s] = pc[s]
      BY <1>1, <2>2 DEF PublishLatest, Report, Stop, Goto
    <3>4. QED
      BY <1>2, <1>3, <3>1, <3>2, <3>3
  <2>3. QED
    BY <1>5, <2>1, <2>2 DEF Publisher
<1>6. ASSUME NEW t \in Watchers, Watching(t) PROVE Honest
  <2>1. t # s /\ t \in Threads
    BY ThreadsAssumption DEF Threads
  <2>2. status' = status /\ ctx' = ctx /\ pc'[s] = pc[s]
    BY <1>1, <1>6, <2>1 DEF Watching, WatchUpdate, Goto, vars
  <2>3. QED
    BY <1>3, <2>2
<1>7. CASE \E h \in hooks : RunHook(h)
  BY <1>3, <1>7 DEF RunHook, vars
<1>8. CASE Cancel \/ Exit \/ OtherEvent
  BY <1>3, <1>8 DEF Cancel, Exit, OtherEvent, AddEvent, vars, runVars
<1>9. CASE UNCHANGED allVars
  BY <1>3, <1>9 DEF allVars, vars, runVars
<1>10. ASSUME NEW t \in Rebuilders, WatchLoopFails(t) \/ ReportLoopFailure(t) PROVE Honest
  <2>1. pc'[s] = pc[s] /\ ctx' = ctx
    BY <1>1, <1>10, SourceOfLoop DEF WatchLoopFails, ReportLoopFailure, Goto
  <2>2. status'[s] = status[s]
    <3>1. CASE WatchLoopFails(t)
      BY <3>1 DEF WatchLoopFails, vars
    <3>2. CASE ReportLoopFailure(t)
      <4>1. PublishSource("kubernetes", NoSnapshot, "failed") /\ s # "kubernetes"
        BY <3>2, SourceOfLoop DEF ReportLoopFailure
      <4>2. QED
        BY <1>1, <4>1, SourceOfLoop DEF PublishSource, Publish, Replace, Keep
    <3>3. QED
      BY <1>10, <3>1, <3>2
  <2>3. QED
    BY <1>2, <2>1, <2>2
<1>11. QED
  BY <1>4, <1>5, <1>6, <1>7, <1>8, <1>9, <1>10 DEF RunNext

\* Attempts of a source never overlap and none is left marked as refreshing
\* after it ended, unless the process is shutting down or gone.
THEOREM RefreshingMeansAttempt == RunSpec => []RefreshingIsHonest
<1>1. RunInit => RefreshingIsHonest
  <2> SUFFICES ASSUME RunInit, NEW s \in Polled
               PROVE  pc[s] = "idle" /\ ~status[s].refreshing
    BY DEF RefreshingIsHonest
  <2>1. s \in Threads /\ s \in Sources
    BY DEF Threads, Polled
  <2>2. pc[s] = "idle" /\ status[s] = InitialStatus
    BY <2>1 DEF RunInit, Init
  <2>3. ~InitialStatus.refreshing
    BY DEF InitialStatus
  <2>4. QED
    BY <2>2, <2>3
<1>2. StoreInv => TypeOK
  BY DEF StoreInv
<1>3. QED
  BY <1>1, <1>2, RunInvariant, RefreshingStep, PTL DEF RunSpec

-----------------------------------------------------------------------------
(* The newest revision reaches a hook.                                     *)

\* Hooks are handed revisions of the past and the present only.
HooksBehind == seen <= revision /\ \A h \in hooks : h.revision <= revision

LEMMA HandOverStep ==
  ASSUME StoreInv, ThreadsOK, HooksBehind, NewestIsHandedOver, [RunNext]_allVars
  PROVE  HooksBehind' /\ NewestIsHandedOver'
<1> DEFINE Handed == seen = revision \/ \E h \in hooks : h.revision = revision
           Calm == revision > 0 /\ \A t \in Threads : pc[t] # "published"
<1>1. /\ pc \in [Threads -> Stages] /\ seen \in Nat /\ revision \in Nat
      /\ \A h \in hooks : h.revision \in Nat
  BY DEF ThreadsOK, StoreInv, TypeOK
<1>2. /\ seen <= revision /\ \A h \in hooks : h.revision <= revision
      /\ Calm => Handed
  BY DEF HooksBehind, NewestIsHandedOver
<1>3. ASSUME revision' = revision, seen' = seen, hooks' = hooks,
             \A t \in Threads : pc[t] = "published" => pc'[t] = "published"
      PROVE  HooksBehind' /\ NewestIsHandedOver'
  BY <1>2, <1>3 DEF HooksBehind, NewestIsHandedOver
<1>4. ASSUME NEW t \in Threads, NEW from \in Stages \ {"published"}, NEW to \in Stages, Goto(t, from, to)
      PROVE  \A u \in Threads : pc[u] = "published" => pc'[u] = "published"
  BY <1>1, <1>4 DEF Goto
<1>5. ASSUME NEW s \in Polled, Worker(s) PROVE HooksBehind' /\ NewestIsHandedOver'
  <2>1. s \in Threads
    BY DEF Threads
  <2>2. revision' = revision /\ seen' = seen /\ hooks' = hooks
    BY <1>5 DEF Worker, Start, BeginAttempt, Collects, CollectReturns, TimerFires,
                AddEvent, Begin, vars
  <2>3. \E from \in Stages \ {"published"}, to \in Stages : Goto(s, from, to)
    BY <1>5 DEF Worker, Start, BeginAttempt, Collects, CollectReturns, TimerFires, Stages
  <2>4. QED
    BY <1>3, <1>4, <2>1, <2>2, <2>3
<1>6. ASSUME NEW t \in Threads, Finish(t) PROVE HooksBehind' /\ NewestIsHandedOver'
  <2>1. PublishSource(SourceOf(t), attempt[t].snapshot, attempt[t].err)
        /\ seen' = seen /\ hooks' = hooks
    BY <1>6 DEF Finish
  <2>2. CASE Accepted(SourceOf(t), attempt[t].snapshot)
    <3>1. revision' = revision + 1
      BY <2>1, <2>2 DEF PublishSource, Publish, Replace, Keep
    <3>2. pc'[t] = "published"
      BY <1>1, <1>6, <2>2 DEF Finish, Goto
    <3>3. QED
      BY <1>1, <1>2, <2>1, <3>1, <3>2 DEF HooksBehind, NewestIsHandedOver
  <2>3. CASE ~Accepted(SourceOf(t), attempt[t].snapshot)
    <3>1. revision' = revision
      BY <2>1, <2>3 DEF PublishSource, Publish, Replace, Keep
    <3>2. Goto(t, "returned", "reporting")
      BY <1>6, <2>3 DEF Finish
    <3>3. QED
      BY <1>3, <1>4, <2>1, <3>1, <3>2 DEF Stages
  <2>4. QED
    BY <2>2, <2>3
<1>7. ASSUME NEW t \in Threads, PublishLatest(t) PROVE HooksBehind' /\ NewestIsHandedOver'
  <2>1. body.revision = revision
    BY DEF StoreInv, ServedIsCurrent, Response
  <2>2. /\ revision' = revision /\ seen' = seen
        /\ hooks' = hooks \cup {[thread |-> t, revision |-> revision]}
    BY <1>7, <2>1 DEF PublishLatest, vars
  <2>3. \E h \in hooks' : h.revision = revision'
    <3> DEFINE handed == [thread |-> t, revision |-> revision]
    <3>1. handed \in hooks' /\ handed.revision = revision'
      BY <2>2
    <3>2. QED
      BY <3>1
  <2>4. QED
    BY <1>1, <1>2, <2>2, <2>3 DEF HooksBehind, NewestIsHandedOver
<1>8. ASSUME NEW t \in Threads, Report(t) \/ Stop(t) PROVE HooksBehind' /\ NewestIsHandedOver'
  <2>1. revision' = revision /\ seen' = seen /\ hooks' = hooks
    BY <1>8 DEF Report, Stop, AddEvent, vars
  <2>2. \E from \in Stages \ {"published"}, to \in Stages : Goto(t, from, to)
    BY <1>8 DEF Report, Stop, Stages
  <2>3. QED
    BY <1>3, <1>4, <2>1, <2>2
<1>9. ASSUME NEW t \in Watchers, Watching(t) PROVE HooksBehind' /\ NewestIsHandedOver'
  <2>1. Goto(t, "idle", "returned") /\ revision' = revision /\ seen' = seen /\ hooks' = hooks
    BY <1>9 DEF Watching, WatchUpdate, vars
  <2>2. t \in Threads /\ "idle" \in Stages \ {"published"} /\ "returned" \in Stages
    BY DEF Threads, Stages
  <2>3. QED
    BY <1>3, <1>4, <2>1, <2>2
<1>10. ASSUME NEW h \in hooks, RunHook(h) PROVE HooksBehind' /\ NewestIsHandedOver'
  <2>1. /\ revision' = revision /\ pc' = pc /\ hooks' = hooks \ {h}
        /\ seen' = IF h.revision > seen THEN h.revision ELSE seen
    BY <1>10 DEF RunHook, vars
  <2>2. HooksBehind'
    BY <1>1, <1>2, <2>1 DEF HooksBehind
  <2>3. Handed => seen' = revision' \/ \E k \in hooks' : k.revision = revision'
    BY <1>1, <1>2, <2>1
  <2>4. QED
    BY <1>2, <2>1, <2>2, <2>3 DEF NewestIsHandedOver
<1>11. CASE Cancel \/ Exit \/ OtherEvent
  BY <1>3, <1>11 DEF Cancel, Exit, OtherEvent, AddEvent, vars, runVars
<1>12. CASE UNCHANGED allVars
  BY <1>3, <1>12 DEF allVars, vars, runVars
<1>13. ASSUME NEW t \in Rebuilders, WatchLoopFails(t) \/ ReportLoopFailure(t)
       PROVE  HooksBehind' /\ NewestIsHandedOver'
  <2>1. seen' = seen /\ hooks' = hooks
    BY <1>13 DEF WatchLoopFails, ReportLoopFailure
  <2>2. revision' = revision
    <3>1. CASE WatchLoopFails(t)
      BY <3>1 DEF WatchLoopFails, vars
    <3>2. CASE ReportLoopFailure(t)
      BY <3>2 DEF ReportLoopFailure, PublishSource, Publish, Accepted, Keep
    <3>3. QED
      BY <1>13, <3>1, <3>2
  <2>3. \E from \in Stages \ {"published"}, to \in Stages : Goto(t, from, to)
    BY <1>13 DEF WatchLoopFails, ReportLoopFailure, Stages
  <2>4. QED
    BY <1>3, <1>4, <2>1, <2>2, <2>3, SourceOfLoop
<1>14. QED
  BY <1>5, <1>6, <1>7, <1>8, <1>9, <1>10, <1>11, <1>12, <1>13 DEF RunNext, Publisher

\* Reading the view again outside the mutex may skip a revision, but once no
\* publisher is in between the newest one has been handed to a hook.
THEOREM NewestReachesAHook == RunSpec => []NewestIsHandedOver
<1>1. RunInit => HooksBehind /\ NewestIsHandedOver
  BY DEF RunInit, Init, HooksBehind, NewestIsHandedOver
<1>2. StoreInv /\ ThreadsOK /\ HooksBehind /\ NewestIsHandedOver /\ [RunNext]_allVars
        => HooksBehind' /\ NewestIsHandedOver'
  BY HandOverStep
<1>3. QED
  BY <1>1, <1>2, RunInvariant, PTL DEF RunSpec
=============================================================================
