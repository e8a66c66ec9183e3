------------------------- MODULE WatchRuntimeProofs -------------------------
(***************************************************************************)
(* Proofs about WatchRuntime for any resources and any number of changes   *)
(* and failures: nothing unlisted is published as listed, no event is      *)
(* forgotten between its informer and the next rebuild, what is shown      *)
(* never goes back, and a loop at rest shows its caches or owes a rebuild. *)
(***************************************************************************)
EXTENDS WatchRuntime, TLAPS

\* What the loop and the flag tell about the caches and the last rebuild.
LoopInv ==
  /\ \A r \in Resources : cache[r] <= world[r]
  /\ loop \notin {"syncing", "done"} => \A r \in Core : cache[r] # Unlisted
  /\ loop \in {"building", "recorded", "publishing", "waiting", "debouncing"} =>
       \A r \in Core \ toRead : draft.content[r] # Unlisted
  /\ loop \in {"recorded", "publishing"} => toRead = {}
  /\ synced \/ loop \in {"syncing", "relisted", "done"}

WatchInv == WatchTypeOK /\ LoopInv /\ OnlyListedIsShown /\ NothingForgotten

\* The informers' and the API server's side of the steps.
InformerStep == \E r \in Resources : Change(r) \/ Informer(r) \/ Fail(r) \/ Handlers(r)

\* Types are preserved by every step.
LEMMA WatchTypePreserved ==
  ASSUME WatchTypeOK, [WatchNext]_watchVars
  PROVE  WatchTypeOK'
<1> USE WatchAssumption DEF WatchTypeOK, Content, Unlisted, apiVars, informerVars, loopVars
<1>1. ASSUME NEW r \in Resources, Change(r) PROVE WatchTypeOK'
  BY <1>1 DEF Change
<1>2. ASSUME NEW r \in Resources, Informer(r) PROVE WatchTypeOK'
  <2>1. CASE Receive(r)
    <3>1. PICK v \in cache[r] + 1 .. world[r] :
            /\ cache' = [cache EXCEPT ![r] = v]
            /\ undelivered' = [undelivered EXCEPT ![r] = @ + (IF v = 0 THEN 0 ELSE 1)]
      BY <2>1 DEF Receive
    <3>2. v \in Nat
      BY <3>1
    <3>3. QED
      BY <2>1, <3>1, <3>2 DEF Receive
  <2>2. CASE Reconnect(r)
    BY <2>2 DEF Reconnect
  <2>3. QED
    BY <1>2, <2>1, <2>2 DEF Informer
<1>3. ASSUME NEW r \in Resources, Fail(r) PROVE WatchTypeOK'
  BY <1>3 DEF Fail
<1>4. ASSUME NEW r \in Resources, Handlers(r) PROVE WatchTypeOK'
  <2>1. CASE PublishHealth(r)
    BY <2>1 DEF PublishHealth
  <2>2. CASE HandleEvent(r)
    BY <2>2 DEF HandleEvent
  <2>3. CASE Schedule(r)
    BY <2>3 DEF Schedule
  <2>4. QED
    BY <1>4, <2>1, <2>2, <2>3 DEF Handlers
<1>5. ASSUME Loop PROVE WatchTypeOK'
  <2>1. CASE CachesSync
    BY <2>1 DEF CachesSync
  <2>2. CASE SetSynced
    BY <2>2 DEF SetSynced, BeginBuild
  <2>3. CASE RecordReady \/ TakeHealth
    BY <2>3 DEF RecordReady, TakeHealth
  <2>4. CASE PublishBuild
    BY <2>4 DEF PublishBuild
  <2>5. CASE TakeDirty \/ Return
    BY <2>5 DEF TakeDirty, Return
  <2>6. CASE TimerFires
    BY <2>6 DEF TimerFires, BeginBuild
  <2>7. ASSUME NEW r \in Resources, ReadCache(r) \/ ListAgain(r) PROVE WatchTypeOK'
    BY <2>7 DEF ReadCache, ListAgain
  <2>8. QED
    BY <1>5, <2>1, <2>2, <2>3, <2>4, <2>5, <2>6, <2>7 DEF Loop
<1>6. CASE Cancel
  BY <1>6 DEF Cancel
<1>7. CASE UNCHANGED watchVars
  BY <1>7 DEF watchVars
<1>8. QED
  BY <1>1, <1>2, <1>3, <1>4, <1>5, <1>6, <1>7 DEF WatchNext

\* Informers and handlers do not touch the rebuild and leave it owed.
LEMMA InformersPreserve ==
  ASSUME WatchInv, WatchTypeOK', InformerStep
  PROVE  LoopInv' /\ OnlyListedIsShown' /\ NothingForgotten'
<1> USE DEF WatchInv, WatchTypeOK, Content, Unlisted, apiVars, informerVars, loopVars,
            LoopInv, OnlyListedIsShown, NoContent, NothingForgotten, RebuildOwed, Resources
<1>1. ASSUME NEW r \in Resources, Change(r)
      PROVE  LoopInv' /\ OnlyListedIsShown' /\ NothingForgotten'
  BY <1>1 DEF Change
<1>2. ASSUME NEW r \in Resources, Receive(r)
      PROVE  LoopInv' /\ OnlyListedIsShown' /\ NothingForgotten'
  <2>1. PICK v \in cache[r] + 1 .. world[r] :
          /\ cache' = [cache EXCEPT ![r] = v]
          /\ undelivered' = [undelivered EXCEPT ![r] = @ + (IF v = 0 THEN 0 ELSE 1)]
    BY <1>2 DEF Receive
  <2>2. v \in Nat /\ cache'[r] = v /\ \A q \in Resources \ {r} : cache'[q] = cache[q]
    BY <2>1
  <2>3. UNCHANGED <<world, loop, toRead, draft, shown, synced, dirty, handler>>
    BY <1>2 DEF Receive
  <2>4. LoopInv' /\ OnlyListedIsShown'
    BY <2>1, <2>2, <2>3
  <2>5. \A q \in Resources : undelivered'[q] >= undelivered[q]
    BY <2>1
  <2>6. v > 0 => undelivered'[r] > 0
    BY <2>1
  <2>7. NothingForgotten'
    BY <2>2, <2>3, <2>5, <2>6
  <2>8. QED
    BY <2>4, <2>7
<1>3. ASSUME NEW r \in Resources, Reconnect(r) \/ Fail(r) \/ PublishHealth(r) \/ Schedule(r)
      PROVE  LoopInv' /\ OnlyListedIsShown' /\ NothingForgotten'
  BY <1>3 DEF Reconnect, Fail, PublishHealth, Schedule
<1>4. ASSUME NEW r \in Resources, HandleEvent(r)
      PROVE  LoopInv' /\ OnlyListedIsShown' /\ NothingForgotten'
  <2>1. LoopInv' /\ OnlyListedIsShown'
    BY <1>4 DEF HandleEvent
  <2>2. \A q \in Resources : RebuildOwed(q) => RebuildOwed(q)'
    BY <1>4 DEF HandleEvent
  <2>3. QED
    BY <1>4, <2>1, <2>2 DEF HandleEvent
<1>5. QED
  BY <1>1, <1>2, <1>3, <1>4 DEF InformerStep, Informer, Handlers

\* The loop reads every resource anew once it has taken the token.
LEMMA LoopPreserves ==
  ASSUME WatchInv, WatchTypeOK', Loop
  PROVE  LoopInv' /\ OnlyListedIsShown' /\ NothingForgotten'
<1> USE DEF WatchInv, WatchTypeOK, Content, Unlisted, apiVars, informerVars, loopVars,
            LoopInv, OnlyListedIsShown, NoContent, NothingForgotten, RebuildOwed, Resources
<1>1. CASE CachesSync
  BY <1>1 DEF CachesSync
<1>2. CASE SetSynced
  BY <1>2 DEF SetSynced, BeginBuild
<1>3. CASE RecordReady \/ TakeHealth
  BY <1>3 DEF RecordReady, TakeHealth
<1>4. CASE PublishBuild
  BY <1>4 DEF PublishBuild
<1>5. CASE TakeDirty \/ Return
  BY <1>5 DEF TakeDirty, Return
<1>6. CASE TimerFires
  BY <1>6 DEF TimerFires, BeginBuild
<1>7. ASSUME NEW r \in Resources, ReadCache(r)
      PROVE  LoopInv' /\ OnlyListedIsShown' /\ NothingForgotten'
  BY <1>7 DEF ReadCache
<1>8. ASSUME NEW r \in Resources, ListAgain(r)
      PROVE  LoopInv' /\ OnlyListedIsShown' /\ NothingForgotten'
  <2>1. PICK v \in {world[r], Unlisted} : draft' = [draft EXCEPT !.content[r] = v]
    BY <1>8 DEF ListAgain
  <2>2. r \notin Core
    BY <1>8 DEF ListAgain
  <2>3. QED
    BY <1>8, <2>1, <2>2 DEF ListAgain
<1>9. QED
  BY <1>1, <1>2, <1>3, <1>4, <1>5, <1>6, <1>7, <1>8 DEF Loop

\* The invariant holds throughout.
LEMMA WatchInvariant == WatchSpec => []WatchInv
<1>1. ASSUME WatchInit PROVE WatchInv
  <2>1. WatchTypeOK
    <3>1. NoContent \in Content /\ cache \in Content
      BY <1>1 DEF WatchInit, NoContent, Content, Unlisted
    <3>2. watched \in SUBSET Resources
      BY <1>1 DEF WatchInit
    <3>3. world \in [Resources -> Nat] /\ undelivered \in [Resources -> Nat]
          /\ changes \in 0..MaxChanges /\ failures \in 0..MaxFailures
      BY <1>1, WatchAssumption DEF WatchInit
    <3>4. /\ draft \in [content : Content, found : Discovery, err : BOOLEAN]
          /\ shown \in [content : Content, found : Discovery,
                        state : {"loading", "ready", "partial", "stale", "error"}]
      BY <1>1, <3>1 DEF WatchInit, Discovery
    <3>5. QED
      BY <1>1, <3>1, <3>2, <3>3, <3>4 DEF WatchInit, WatchTypeOK
  <2>2. LoopInv
    BY <1>1 DEF WatchInit, LoopInv, Unlisted
  <2>3. OnlyListedIsShown /\ NothingForgotten
    BY <1>1 DEF WatchInit, OnlyListedIsShown, NothingForgotten, NoContent
  <2>4. QED
    BY <2>1, <2>2, <2>3 DEF WatchInv
<1>2. WatchInv /\ [WatchNext]_watchVars => WatchInv'
  <2> SUFFICES ASSUME WatchInv, [WatchNext]_watchVars PROVE WatchInv'
    OBVIOUS
  <2>1. WatchTypeOK'
    BY WatchTypePreserved DEF WatchInv
  <2>2. CASE InformerStep
    BY <2>1, <2>2, InformersPreserve DEF WatchInv
  <2>3. CASE Loop
    BY <2>1, <2>3, LoopPreserves DEF WatchInv
  <2>4. CASE Cancel
    BY <2>1, <2>4 DEF Cancel, WatchInv, apiVars, informerVars, loopVars, LoopInv,
                      OnlyListedIsShown, NothingForgotten, RebuildOwed
  <2>5. CASE UNCHANGED watchVars
    BY <2>1, <2>5 DEF watchVars, WatchInv, LoopInv, OnlyListedIsShown, NothingForgotten, RebuildOwed
  <2>6. QED
    BY <2>2, <2>3, <2>4, <2>5 DEF WatchNext, InformerStep
<1>3. QED
  BY <1>1, <1>2, PTL DEF WatchSpec

\* No snapshot is published before every core informer has listed once.
THEOREM WatchShowsListed == WatchSpec => []OnlyListedIsShown
<1>1. WatchInv => OnlyListedIsShown
  BY DEF WatchInv
<1>2. QED
  BY <1>1, WatchInvariant, PTL

\* No change that reached an informer is left out of the rebuilds for good.
THEOREM WatchForgetsNothing == WatchSpec => []NothingForgotten
<1>1. WatchInv => NothingForgotten
  BY DEF WatchInv
<1>2. QED
  BY <1>1, WatchInvariant, PTL
-----------------------------------------------------------------------------
\* A rebuild starts from the last one, so nothing in it is older than what is
\* shown; caches and lists are never ahead of the cluster.
VersionInv ==
  /\ \A r \in Resources :
       /\ shown.content[r] <= world[r] /\ draft.content[r] <= world[r]
       /\ draft.content[r] # Unlisted => shown.content[r] <= draft.content[r]
  /\ \A r \in Core : shown.content[r] <= draft.content[r] /\ draft.content[r] <= cache[r]

\* While the loop waits, what is shown and not stale is the last rebuild.
WaitingInv ==
  /\ loop = "waiting" => toRead = {}
  /\ loop = "waiting" /\ shown.state \in {"ready", "partial"} => shown.content = draft.content
VersionsInv == VersionInv /\ WaitingInv

\* Steps of the informers, the handlers and the API server.
LEMMA InformersKeepVersions ==
  ASSUME WatchInv, VersionsInv, InformerStep \/ Cancel \/ UNCHANGED watchVars
  PROVE  VersionsInv' /\ UNCHANGED <<shown.content, draft>>
<1> USE DEF WatchInv, WatchTypeOK, Content, Unlisted, apiVars, informerVars, loopVars,
            VersionsInv, VersionInv, WaitingInv, Resources
<1>1. ASSUME NEW r \in Resources, Change(r)
      PROVE  VersionsInv' /\ UNCHANGED <<shown.content, draft>>
  BY <1>1 DEF Change
<1>2. ASSUME NEW r \in Resources, Receive(r)
      PROVE  VersionsInv' /\ UNCHANGED <<shown.content, draft>>
  <2>1. PICK v \in cache[r] + 1 .. world[r] : cache' = [cache EXCEPT ![r] = v]
    BY <1>2 DEF Receive
  <2>2. UNCHANGED <<world, loop, toRead, draft, shown>>
    BY <1>2 DEF Receive
  <2>3. \A q \in Resources : cache[q] \in Int /\ cache'[q] \in Int /\ cache[q] <= cache'[q]
    BY <2>1
  <2>4. \A q \in Core : draft.content[q] \in Int /\ draft.content[q] <= cache'[q]
    BY <2>3
  <2>5. VersionInv'
    BY <2>2, <2>4
  <2>6. WaitingInv'
    BY <2>2
  <2>7. QED
    BY <2>2, <2>5, <2>6
<1>3. ASSUME NEW r \in Resources, Reconnect(r) \/ Fail(r) \/ HandleEvent(r) \/ Schedule(r)
      PROVE  VersionsInv' /\ UNCHANGED <<shown.content, draft>>
  BY <1>3 DEF Reconnect, Fail, HandleEvent, Schedule
<1>4. ASSUME NEW r \in Resources, PublishHealth(r)
      PROVE  VersionsInv' /\ UNCHANGED <<shown.content, draft>>
  <2>1. UNCHANGED <<world, cache, loop, toRead, draft>> /\ shown'.content = shown.content
        /\ shown'.state \in {"stale", "error"}
    BY <1>4 DEF PublishHealth
  <2>2. QED
    BY <2>1
<1>5. CASE Cancel \/ UNCHANGED watchVars
  BY <1>5 DEF Cancel, watchVars
<1>6. QED
  BY <1>1, <1>2, <1>3, <1>4, <1>5 DEF InformerStep, Informer, Handlers

\* Steps of the loop; only PublishBuild changes what is shown.
LEMMA LoopKeepsVersions ==
  ASSUME WatchInv, VersionsInv, Loop
  PROVE  VersionsInv' /\ \A r \in Resources : Published(r)
<1> USE DEF WatchInv, WatchTypeOK, Content, Unlisted, apiVars, informerVars, loopVars,
            VersionsInv, VersionInv, WaitingInv, Resources, Published
<1>1. CASE CachesSync \/ RecordReady \/ TakeDirty \/ Return
  BY <1>1 DEF CachesSync, RecordReady, TakeDirty, Return
<1>2. CASE SetSynced \/ TimerFires
  <2>1. UNCHANGED <<world, cache, shown>> /\ loop' = "building"
    BY <1>2 DEF SetSynced, TimerFires, BeginBuild
  <2>2. draft'.content = draft.content
    BY <1>2 DEF SetSynced, TimerFires, BeginBuild
  <2>3. QED
    BY <2>1, <2>2
<1>3. CASE TakeHealth
  BY <1>3 DEF TakeHealth
<1>4. CASE PublishBuild
  <2>1. UNCHANGED <<world, cache, draft, toRead>> /\ toRead = {}
    BY <1>4 DEF PublishBuild, LoopInv
  <2>2. CASE Regresses
    <3>1. shown'.content = shown.content /\ shown'.state = "stale"
      BY <1>4, <2>2 DEF PublishBuild
    <3>2. QED
      BY <2>1, <3>1
  <2>3. CASE ~Regresses
    <3>1. shown'.content = draft.content
      BY <1>4, <2>3 DEF PublishBuild
    <3>2. \A r \in Resources : shown.content[r] <= draft.content[r]
      BY <2>3 DEF Regresses, Unlists
    <3>3. QED
      BY <2>1, <3>1, <3>2
  <2>4. QED
    BY <2>2, <2>3
<1>5. ASSUME NEW r \in Resources, ReadCache(r)
      PROVE  VersionsInv' /\ \A q \in Resources : Published(q)
  <2>1. r \in Core /\ UNCHANGED <<world, cache, shown>> /\ loop = "building" /\ loop' = "building"
    BY <1>5 DEF ReadCache
  <2>2. draft'.content = [draft.content EXCEPT ![r] = cache[r]]
    BY <1>5 DEF ReadCache
  <2>3. cache[r] <= world[r]
    BY DEF LoopInv
  <2>4. QED
    BY <2>1, <2>2, <2>3
<1>6. ASSUME NEW r \in Resources, ListAgain(r)
      PROVE  VersionsInv' /\ \A q \in Resources : Published(q)
  <2>1. PICK v \in {world[r], Unlisted} : draft' = [draft EXCEPT !.content[r] = v]
    BY <1>6 DEF ListAgain
  <2>2. r \notin Core /\ UNCHANGED <<world, cache, shown>> /\ loop = "building" /\ loop' = "building"
    BY <1>6 DEF ListAgain
  <2>3. draft'.content = [draft.content EXCEPT ![r] = v]
    BY <2>1
  <2>4. QED
    BY <2>1, <2>2, <2>3
<1>7. QED
  BY <1>1, <1>2, <1>3, <1>4, <1>5, <1>6 DEF Loop

LEMMA VersionsStep ==
  ASSUME WatchInv, VersionsInv, [WatchNext]_watchVars
  PROVE  VersionsInv' /\ \A r \in Resources : Published(r)
<1>1. CASE Loop
  BY <1>1, LoopKeepsVersions
<1>2. CASE InformerStep \/ Cancel \/ UNCHANGED watchVars
  <2>1. VersionsInv' /\ shown'.content = shown.content
    BY <1>2, InformersKeepVersions
  <2>2. \A r \in Resources : shown.content[r] \in Int
    BY DEF WatchInv, WatchTypeOK, Content, Unlisted
  <2>3. QED
    BY <2>1, <2>2 DEF Published
<1>3. QED
  BY <1>1, <1>2 DEF WatchNext, InformerStep

LEMMA VersionsInvariant == WatchSpec => []VersionsInv
<1>1. WatchInit => VersionsInv
  BY DEF WatchInit, VersionsInv, VersionInv, WaitingInv, NoContent, Unlisted, Resources
<1>2. QED
  BY <1>1, VersionsStep, WatchInvariant, PTL DEF WatchSpec

\* The informers, the loop and the live store's view keep their types.
THEOREM WatchTypeCorrect == WatchSpec => []WatchTypeOK
<1>1. WatchInv => WatchTypeOK
  BY DEF WatchInv
<1>2. QED
  BY <1>1, WatchInvariant, PTL

\* However the reads of a rebuild fall between the informers' updates, and
\* whichever lists fail: no published snapshot takes a resource back.
THEOREM WatchNeverGoesBack == WatchSpec => PublishedNeverGoesBack
<1>1. WatchInv /\ VersionsInv /\ [WatchNext]_watchVars => [\A r \in Resources : Published(r)]_watchVars
  BY VersionsStep
<1>2. QED
  BY <1>1, WatchInvariant, VersionsInvariant, PTL DEF WatchSpec, PublishedNeverGoesBack, Published

\* What ReadyIsCurrent rests on: a loop at rest shows its informers' caches, or
\* an event, a handler, the token or its own timer will make it rebuild.
THEOREM WatchWaitingIsCurrent == WatchSpec => []WaitingIsCurrent
<1>1. WatchInv /\ VersionsInv => WaitingIsCurrent
  <2> SUFFICES ASSUME WatchInv, VersionsInv, loop = "waiting", shown.state \in {"ready", "partial"},
                      NEW r \in Core, ~RebuildOwed(r)
               PROVE  shown.content[r] = cache[r]
    BY DEF WaitingIsCurrent
  <2>1. shown.content = draft.content /\ draft.content[r] <= cache[r]
    BY DEF VersionsInv, VersionInv, WaitingInv
  <2>2. r \in Resources /\ cache[r] \in Int /\ draft.content[r] \in Int
    BY DEF Resources, WatchInv, WatchTypeOK, Content, Unlisted
  <2>3. toRead = {}
    BY DEF VersionsInv, WaitingInv
  <2>4. draft.content[r] # Unlisted
    BY <2>3 DEF WatchInv, LoopInv
  <2>5. ~(draft.content[r] < cache[r])
    BY <2>2, <2>4 DEF WatchInv, NothingForgotten
  <2>6. QED
    BY <2>1, <2>2, <2>5
<1>2. QED
  BY <1>1, WatchInvariant, VersionsInvariant, PTL
=============================================================================
