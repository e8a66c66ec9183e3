-------------------------- MODULE LiveStoreProofs --------------------------
(***************************************************************************)
(* Proofs about LiveStore for any sources, resources, inputs and bounds.   *)
(* Everything rests on one inductive invariant, StoreInv.                  *)
(***************************************************************************)
EXTENDS LiveStore, TLAPS

(* What keeping the last n elements of a sequence leaves of it.            *)
LEMMA LastNTail ==
  ASSUME NEW S, NEW q \in Seq(S), NEW n \in Nat \ {0}
  PROVE  /\ LastN(q, n) \in Seq(S)
         /\ Len(LastN(q, n)) <= n
         /\ Len(q) - Len(LastN(q, n)) \in Nat
         /\ q # <<>> => Len(LastN(q, n)) \in Nat \ {0}
         /\ \A i \in 1..Len(LastN(q, n)) :
              /\ i + (Len(q) - Len(LastN(q, n))) \in 1..Len(q)
              /\ LastN(q, n)[i] = q[i + (Len(q) - Len(LastN(q, n)))]
<1>1. CASE Len(q) > n
  <2> DEFINE kept == SubSeq(q, Len(q) - n + 1, Len(q))
  <2>1. LastN(q, n) = kept
    BY <1>1 DEF LastN
  <2>2. kept \in Seq(S) /\ Len(kept) = n
        /\ \A i \in 1..n : kept[i] = q[i + (Len(q) - n)]
    BY <1>1
  <2> HIDE DEF kept
  <2>3. \A i \in 1..n : i + (Len(q) - n) \in 1..Len(q)
    BY <1>1
  <2>4. Len(q) - n \in Nat
    BY <1>1
  <2>5. QED
    BY <2>1, <2>2, <2>3, <2>4
<1>2. CASE ~(Len(q) > n)
  <2>1. LastN(q, n) = q
    BY <1>2 DEF LastN
  <2>2. Len(q) - Len(q) = 0 /\ Len(q) \in Nat /\ \A i \in 1..Len(q) : i + 0 = i
    OBVIOUS
  <2>3. q # <<>> => Len(q) # 0
    OBVIOUS
  <2>4. QED
    BY <1>2, <2>1, <2>2, <2>3
<1>3. QED
  BY <1>1, <1>2

\* A retained graph is a graph, and its revision a number.
LEMMA GraphsAreTyped ==
  ASSUME NEW gs \in Seq(Graph)
  PROVE  \A i \in 1..Len(gs) : gs[i] \in Graph /\ gs[i].revision \in Nat
<1> TAKE i \in 1..Len(gs)
<1>1. gs[i] \in Graph
  OBVIOUS
<1>2. QED
  BY <1>1 DEF Graph

(* The newest retained graph is the projection of the data on display      *)
(* whenever that projection is valid.  Neither this nor GraphHistory can   *)
(* be proved without the other: a graph is only re-used for a revision     *)
(* because that revision's data has not changed since.                     *)
HistoryIsCurrent ==
  HasData(snapshot) /\ ValidGraph(Project(snapshot, revision)) =>
    graphs # <<>> /\ graphs[Len(graphs)] = Project(snapshot, revision)

StoreInv == TypeOK /\ StatusTellsData /\ GraphHistory /\ HistoryIsCurrent /\ ServedIsCurrent

\* Appending the graph of a newer revision keeps the history bounded, ordered
\* and current.
LEMMA RememberNewer ==
  ASSUME NEW gs \in Seq(Graph), NEW g \in Graph, Len(gs) <= MaxGraphs, Ordered(gs),
         \A i \in 1..Len(gs) : gs[i].revision < g.revision
  PROVE  LET e == Remember(gs, g) IN
         /\ e \in Seq(Graph) /\ Len(e) <= MaxGraphs /\ e # <<>> /\ Ordered(e)
         /\ e[Len(e)] = g
         /\ \A i \in 1..(Len(e) - 1) : \E j \in 1..Len(gs) : e[i] = gs[j]
<1> DEFINE q == Append(gs, g)
           e == LastN(q, MaxGraphs)
           d == Len(q) - Len(e)
<1>1. g.revision \in Nat /\ \A i \in 1..Len(gs) : gs[i] \in Graph /\ gs[i].revision \in Nat
  BY GraphsAreTyped DEF Graph
<1>2. Remember(gs, g) = e
  BY <1>1 DEF Remember, Last
<1>3. q \in Seq(Graph) /\ q # <<>> /\ Len(q) = Len(gs) + 1 /\ q[Len(q)] = g
      /\ \A i \in 1..Len(gs) : q[i] = gs[i]
  OBVIOUS
<1> HIDE DEF q
<1>4. /\ e \in Seq(Graph) /\ Len(e) <= MaxGraphs /\ Len(e) \in Nat \ {0} /\ d \in Nat
      /\ \A i \in 1..Len(e) : i + d \in 1..Len(q) /\ e[i] = q[i + d]
  BY <1>3, LastNTail, BoundsAssumption
<1> HIDE DEF e
<1>5. Len(e) + d = Len(q)
  BY <1>3, <1>4
<1> HIDE DEF d
<1>6. e[Len(e)] = g
  BY <1>3, <1>4, <1>5
<1>7. \A i \in 1..(Len(e) - 1) : i + d \in 1..Len(gs) /\ e[i] = gs[i + d]
  BY <1>3, <1>4, <1>5
<1>8. ASSUME NEW i \in 1..Len(e), NEW j \in 1..Len(e), i < j
      PROVE  e[i].revision < e[j].revision
  <2>1. i \in 1..(Len(e) - 1)
    BY <1>4, <1>8
  <2>2. CASE j = Len(e)
    BY <1>6, <1>7, <2>1, <2>2
  <2>3. CASE j # Len(e)
    <3>1. j \in 1..(Len(e) - 1) /\ i + d < j + d
      BY <1>4, <1>8, <2>3
    <3>2. QED
      BY <1>7, <2>1, <3>1 DEF Ordered
  <2>4. QED
    BY <2>2, <2>3
<1>9. Ordered(e) /\ e # <<>>
  BY <1>4, <1>8 DEF Ordered
<1>10. QED
  BY <1>2, <1>4, <1>6, <1>7, <1>9

\* encode, run at the end of every method, restores the three invariants about
\* the history and the served body.
LEMMA EncodeStep ==
  ASSUME TypeOK, GraphHistory, HistoryIsCurrent, Encode,
         snapshot' \in Entries,
         (revision' = revision /\ snapshot' = snapshot) \/ revision' = revision + 1
  PROVE  /\ graphs' \in Seq(Graph) /\ GraphHistory' /\ HistoryIsCurrent' /\ ServedIsCurrent'
         /\ \A j \in 1..Len(graphs') :
              \/ \E k \in 1..Len(graphs) : graphs'[j] = graphs[k]
              \/ \A i \in 1..Len(graphs) : graphs[i].revision < graphs'[j].revision
<1> DEFINE g == Project(snapshot', revision')
           valid == HasData(snapshot') /\ ValidGraph(g)
<1>1. revision \in Nat /\ revision' \in Nat /\ graphs \in Seq(Graph)
  BY DEF TypeOK
<1>2. g \in Graph /\ g.revision = revision' /\ g.parts = snapshot'
  BY <1>1 DEF Project, Graph
<1>3. \A i \in 1..Len(graphs) : graphs[i] \in Graph /\ graphs[i].revision \in Nat
  BY <1>1, GraphsAreTyped
<1>4. ServedIsCurrent'
  BY DEF Encode, ServedIsCurrent
<1>5. graphs' = IF valid THEN Remember(graphs, g) ELSE graphs
  BY DEF Encode
<1>6. HistoryIsCurrent' <=> (valid => graphs' # <<>> /\ graphs'[Len(graphs')] = g)
  BY DEF HistoryIsCurrent, HasData, ValidGraph, Project
<1>7. CASE revision' = revision /\ snapshot' = snapshot
  <2>1. valid => graphs # <<>> /\ graphs[Len(graphs)] = g
    BY <1>7 DEF HistoryIsCurrent
  <2>2. graphs' = graphs
    BY <1>2, <1>5, <1>7, <2>1 DEF Remember, Last
  <2>3. GraphHistory'
    BY <1>7, <2>2 DEF GraphHistory, Ordered
  <2>4. QED
    BY <1>1, <1>4, <1>6, <2>1, <2>2, <2>3
<1>8. CASE revision' = revision + 1
  <2>1. \A i \in 1..Len(graphs) : graphs[i].revision < revision'
    BY <1>1, <1>3, <1>8 DEF GraphHistory
  <2> HIDE DEF g, valid
  <2>2. CASE valid
    <3> DEFINE e == Remember(graphs, g)
    <3>1. /\ e \in Seq(Graph) /\ Len(e) <= MaxGraphs /\ e # <<>> /\ Ordered(e)
          /\ e[Len(e)] = g
          /\ \A i \in 1..(Len(e) - 1) : \E j \in 1..Len(graphs) : e[i] = graphs[j]
      BY <1>1, <1>2, <2>1, RememberNewer DEF GraphHistory
    <3>2. graphs' = e
      BY <1>5, <2>2
    <3> HIDE DEF e
    <3>3. ASSUME NEW i \in 1..Len(e)
          PROVE  e[i].revision <= revision' /\ (e[i].revision = revision' => e[i].parts = snapshot')
      <4>1. CASE i = Len(e)
        BY <1>1, <1>2, <3>1, <4>1
      <4>2. CASE i # Len(e)
        <5>1. i \in 1..(Len(e) - 1)
          BY <3>1, <4>2
        <5>2. PICK j \in 1..Len(graphs) : e[i] = graphs[j]
          BY <3>1, <5>1
        <5>3. QED
          BY <1>1, <1>3, <2>1, <5>2
      <4>3. QED
        BY <4>1, <4>2
    <3>4. GraphHistory'
      BY <3>1, <3>2, <3>3 DEF GraphHistory, Ordered
    <3>5. ASSUME NEW j \in 1..Len(e)
          PROVE  \/ \E k \in 1..Len(graphs) : e[j] = graphs[k]
                 \/ \A i \in 1..Len(graphs) : graphs[i].revision < e[j].revision
      <4>1. CASE j = Len(e)
        BY <1>2, <2>1, <3>1, <4>1
      <4>2. CASE j # Len(e)
        <5>1. j \in 1..(Len(e) - 1)
          BY <3>1, <4>2
        <5>2. QED
          BY <3>1, <5>1
      <4>3. QED
        BY <4>1, <4>2
    <3>6. QED
      BY <1>4, <1>6, <3>1, <3>2, <3>4, <3>5
  <2>3. CASE ~valid
    <3>1. graphs' = graphs
      BY <1>5, <2>3
    <3>2. GraphHistory'
      BY <1>1, <1>3, <2>1, <3>1 DEF GraphHistory, Ordered
    <3>3. QED
      BY <1>1, <1>4, <1>6, <2>3, <3>1, <3>2
  <2>4. QED
    BY <2>2, <2>3
<1>9. QED
  BY <1>7, <1>8

-----------------------------------------------------------------------------
(* What each operation does to the entries.                                *)

LEMMA BeginEntries ==
  ASSUME TypeOK, StatusTellsData, NEW s \in Sources, Begin(s)
  PROVE  /\ status' \in [Sources -> Status] /\ StatusTellsData'
         /\ snapshot' = snapshot /\ revision' = revision
         /\ events' = events /\ eventSeq' = eventSeq /\ Encode
         /\ \A t \in Sources : status'[t].error = status[t].error
<1> DEFINE new == [status[s] EXCEPT !.mode = "poll", !.refreshing = TRUE,
                                    !.attempted = TRUE, !.scheduled = FALSE]
<1>1. status \in [Sources -> Status] /\ status[s] \in Status
  BY DEF TypeOK
<1>2. status' = [status EXCEPT ![s] = new]
  BY <1>1 DEF Begin
<1>3. new \in Status /\ new.state = status[s].state /\ new.error = status[s].error
      /\ new.coverage = status[s].coverage
  BY <1>1 DEF Status
<1> HIDE DEF new
<1>4. status' \in [Sources -> Status]
  BY <1>1, <1>2, <1>3
<1>5. snapshot' = snapshot /\ revision' = revision /\ events' = events
      /\ eventSeq' = eventSeq /\ Encode
  BY DEF Begin
<1>6. ASSUME NEW t \in Sources PROVE DescribesData(status'[t], snapshot'[t])
  BY <1>1, <1>2, <1>3, <1>5 DEF StatusTellsData, DescribesData
<1>7. \A t \in Sources : status'[t].error = status[t].error
  BY <1>1, <1>2, <1>3
<1>8. QED
  BY <1>4, <1>5, <1>6, <1>7 DEF StatusTellsData

\* Reported sets a mode the source has, and booleans.
LEMMA ReportedIsStatus ==
  ASSUME NEW s \in Sources, status[s] \in Status
  PROVE  Reported(s) \in Status
<1> DEFINE b == s \in Polled
           m == Mode[s]
<1>1. b \in BOOLEAN
  OBVIOUS
<1>2. m \in {"poll", "watch", "recorded"}
  BY ModeAssumption
<1>3. Reported(s) = [status[s] EXCEPT !.mode = m, !.refreshing = FALSE,
                                      !.scheduled = b, !.attempted = TRUE]
  BY Zenon DEF Reported
<1> HIDE DEF b, m
<1>4. [status[s] EXCEPT !.mode = m, !.refreshing = FALSE,
                        !.scheduled = b, !.attempted = TRUE] \in Status
  BY <1>1, <1>2 DEF Status
<1>5. QED
  BY <1>3, <1>4

\* publishSourceLocked, when it takes the snapshot over
LEMMA AcceptedEntries ==
  ASSUME TypeOK, StatusTellsData, NEW s \in Sources, NEW new \in Inputs \cup {NoSnapshot},
         NEW err \in {"", "failed", "timeout"}, Publish(s, new, err), Accepted(s, new)
  PROVE  /\ status' \in [Sources -> Status] /\ StatusTellsData'
         /\ snapshot' = [snapshot EXCEPT ![s] = new] /\ snapshot' \in Entries
         /\ revision' = revision + 1
         /\ status'[s].state \in {"ready", "partial"}
         /\ \A t \in Sources \ {s} : status'[t] = status[t]
<1> DEFINE incomplete == \E r \in Resources : new.cov[r] \in {"degraded", "denied"}
           st == [Reported(s) EXCEPT
                    !.succeeded = TRUE, !.error = err, !.coverage = new.cov,
                    !.state = IF err # "" \/ incomplete THEN "partial" ELSE "ready"]
<1>1. status \in [Sources -> Status] /\ status[s] \in Status /\ snapshot \in Entries
  BY DEF TypeOK
<1>2. new \in Snapshot /\ new # NoSnapshot /\ new.cov \in [Resources -> Coverage]
  BY InputsAssumption DEF Accepted, Snapshot
<1>3. Reported(s) \in Status
  BY <1>1, ReportedIsStatus
<1>4. st \in Status /\ st.error = err /\ st.coverage = new.cov
      /\ st.state = IF err # "" \/ incomplete THEN "partial" ELSE "ready"
  BY <1>2, <1>3 DEF Status, Errors
<1>5. /\ status' = [status EXCEPT ![s] = st]
      /\ snapshot' = [snapshot EXCEPT ![s] = new] /\ revision' = revision + 1
  BY DEF Publish, Replace, Keep, Grade
<1> HIDE DEF st
<1>6. status' \in [Sources -> Status] /\ snapshot' \in Entries
  BY <1>1, <1>2, <1>4, <1>5 DEF Entries
<1>7. DescribesData(st, new)
  BY <1>2, <1>4 DEF DescribesData, Coverage
<1>8. ASSUME NEW t \in Sources PROVE DescribesData(status'[t], snapshot'[t])
  <2>1. CASE t = s
    <3>1. status'[t] = st /\ snapshot'[t] = new
      BY <1>1, <1>5, <2>1 DEF Entries
    <3>2. QED
      BY <1>7, <3>1
  <2>2. CASE t # s
    <3>1. status'[t] = status[t] /\ snapshot'[t] = snapshot[t]
      BY <1>1, <1>5, <2>2 DEF Entries
    <3>2. QED
      BY <3>1 DEF StatusTellsData
  <2>3. QED
    BY <2>1, <2>2
<1>9. QED
  BY <1>1, <1>4, <1>5, <1>6, <1>8 DEF StatusTellsData

\* ... and when it keeps the previous one
LEMMA RejectedEntries ==
  ASSUME TypeOK, StatusTellsData, NEW s \in Sources, NEW new \in Inputs \cup {NoSnapshot},
         NEW err \in {"", "failed", "timeout"}, Publish(s, new, err), ~Accepted(s, new)
  PROVE  /\ status' \in [Sources -> Status] /\ StatusTellsData'
         /\ snapshot' = snapshot /\ revision' = revision
         /\ status'[s].error # ""
         /\ \A t \in Sources \ {s} : status'[t] = status[t]
<1> DEFINE st == [Reported(s) EXCEPT
                    !.error = RejectError(s, new, err),
                    !.state = IF snapshot[s] = NoSnapshot THEN "error" ELSE "stale",
                    !.coverage = snapshot[s].cov]
<1>1. status \in [Sources -> Status] /\ status[s] \in Status /\ snapshot \in Entries
  BY DEF TypeOK
<1>2. snapshot[s].cov \in [Resources -> Coverage] \cup {NoCoverage}
  <2>1. CASE snapshot[s] = NoSnapshot
    <3>1. NoSnapshot.cov = NoCoverage
      BY Zenon DEF NoSnapshot, NoCoverage
    <3>2. QED
      BY <2>1, <3>1
  <2>2. CASE snapshot[s] # NoSnapshot
    <3>1. snapshot[s] \in Snapshot
      BY <1>1, <2>2 DEF Entries
    <3>2. QED
      BY <3>1 DEF Snapshot
  <2>3. QED
    BY <2>1, <2>2
<1>3. Reported(s) \in Status
  BY <1>1, ReportedIsStatus
<1>4. RejectError(s, new, err) \in Errors
  BY DEF RejectError, Accepted, Errors
<1>5. "" \notin Errors
  BY DEF Errors
<1>6. st \in Status /\ st.error # "" /\ st.coverage = snapshot[s].cov
      /\ st.state = IF snapshot[s] = NoSnapshot THEN "error" ELSE "stale"
  BY <1>2, <1>3, <1>4, <1>5 DEF Status
<1>7. status' = [status EXCEPT ![s] = st] /\ snapshot' = snapshot /\ revision' = revision
  BY DEF Publish, Replace, Keep, Grade
<1> HIDE DEF st
<1>8. status' \in [Sources -> Status]
  BY <1>1, <1>6, <1>7
<1>9. ASSUME NEW t \in Sources PROVE DescribesData(status'[t], snapshot'[t])
  BY <1>1, <1>6, <1>7 DEF StatusTellsData, DescribesData
<1>10. QED
  BY <1>1, <1>6, <1>7, <1>8, <1>9 DEF StatusTellsData

-----------------------------------------------------------------------------
(* The event log.                                                          *)

\* The sequence number is a counter modulo SeqLimit.
LEMMA SequenceWraps ==
  ASSUME NEW n \in 0..(SeqLimit - 1)
  PROVE  (n + 1) % SeqLimit \in 0..(SeqLimit - 1)
  BY BoundsAssumption

\* AddEvent keeps the log bounded, gap-free and up to the last number.
LEMMA AddEventLog ==
  ASSUME eventSeq \in 0..(SeqLimit - 1), events \in Seq(0..(SeqLimit - 1)), EventLog, AddEvent
  PROVE  /\ eventSeq' \in 0..(SeqLimit - 1) /\ events' \in Seq(0..(SeqLimit - 1))
         /\ EventLog'
<1> DEFINE n == (eventSeq + 1) % SeqLimit
           q == Append(events, n)
           e == LastN(q, MaxEvents)
           d == Len(q) - Len(e)
<1>1. eventSeq' = n /\ events' = e
  BY DEF AddEvent
<1>2. n \in 0..(SeqLimit - 1)
  BY SequenceWraps
<1> HIDE DEF n
<1>3. /\ q \in Seq(0..(SeqLimit - 1)) /\ q # <<>> /\ Len(q) = Len(events) + 1
      /\ q[Len(q)] = n /\ \A i \in 1..Len(events) : q[i] = events[i]
  BY <1>2
<1>4. \A i \in 1..(Len(q) - 1) : q[i + 1] = (q[i] + 1) % SeqLimit
  <2> HIDE DEF q
  <2> TAKE i \in 1..(Len(q) - 1)
  <2>1. CASE i = Len(events)
    <3>1. events # <<>> /\ q[i] = eventSeq
      BY <1>3, <2>1 DEF EventLog, Last
    <3>2. q[i + 1] = n
      BY <1>3, <2>1
    <3>3. QED
      BY <3>1, <3>2 DEF n
  <2>2. CASE i # Len(events)
    <3>1. i \in 1..(Len(events) - 1) /\ q[i] = events[i] /\ q[i + 1] = events[i + 1]
      BY <1>3, <2>2
    <3>2. QED
      BY <3>1 DEF EventLog
  <2>3. QED
    BY <2>1, <2>2
<1> HIDE DEF q
<1>5. /\ e \in Seq(0..(SeqLimit - 1)) /\ Len(e) <= MaxEvents /\ Len(e) \in Nat \ {0} /\ d \in Nat
      /\ \A i \in 1..Len(e) : i + d \in 1..Len(q) /\ e[i] = q[i + d]
  BY <1>3, LastNTail, BoundsAssumption
<1> HIDE DEF e
<1>6. Len(e) + d = Len(q)
  BY <1>3, <1>5
<1> HIDE DEF d
<1>7. e[Len(e)] = n
  BY <1>3, <1>5, <1>6
<1>8. ASSUME NEW i \in 1..(Len(e) - 1) PROVE e[i + 1] = (e[i] + 1) % SeqLimit
  <2>1. i + d \in 1..(Len(q) - 1) /\ (i + 1) + d = (i + d) + 1
    BY <1>3, <1>5, <1>6
  <2>2. e[i] = q[i + d] /\ e[i + 1] = q[(i + 1) + d]
    BY <1>5
  <2>3. QED
    BY <1>4, <2>1, <2>2
<1>9. EventLog'
  BY <1>1, <1>5, <1>7, <1>8 DEF EventLog, Last
<1>10. QED
  BY <1>1, <1>2, <1>5, <1>9

-----------------------------------------------------------------------------
(* The invariant.                                                          *)

\* No operation of the store breaks the invariant, whoever calls it.
LEMMA StoreStep == StoreInv /\ EventLog /\ Step => StoreInv' /\ EventLog'
<1> SUFFICES ASSUME StoreInv, EventLog, Step PROVE StoreInv' /\ EventLog'
  OBVIOUS
<1> DEFINE Entered == status' \in [Sources -> Status] /\ StatusTellsData' /\ Encode
                      /\ snapshot' \in Entries
                      /\ ((revision' = revision /\ snapshot' = snapshot) \/ revision' = revision + 1)
           Logged == /\ eventSeq' \in 0..(SeqLimit - 1)
                     /\ events' \in Seq(0..(SeqLimit - 1)) /\ EventLog'
<1>1. TypeOK /\ StatusTellsData /\ GraphHistory /\ HistoryIsCurrent
  BY DEF StoreInv
<1>2. ASSUME events' = events, eventSeq' = eventSeq PROVE Logged
  BY <1>1, <1>2 DEF TypeOK, EventLog
<1>3. ASSUME NEW s \in Sources, Begin(s) PROVE Entered /\ Logged
  BY <1>1, <1>2, <1>3, BeginEntries DEF TypeOK
<1>4. ASSUME NEW s \in Sources, NEW new \in Inputs \cup {NoSnapshot},
             NEW err \in {"", "failed", "timeout"}, PublishSource(s, new, err)
      PROVE  Entered /\ Logged
  <2>1. Publish(s, new, err) /\ Encode /\ events' = events /\ eventSeq' = eventSeq
    BY <1>4 DEF PublishSource
  <2>2. CASE Accepted(s, new)
    <3>1. /\ status' \in [Sources -> Status] /\ StatusTellsData'
          /\ snapshot' \in Entries /\ revision' = revision + 1
      BY <1>1, <2>1, <2>2, AcceptedEntries
    <3>2. QED
      BY <1>2, <2>1, <3>1
  <2>3. CASE ~Accepted(s, new)
    BY <1>1, <1>2, <2>1, <2>3, RejectedEntries DEF TypeOK
  <2>4. QED
    BY <2>2, <2>3
<1>5. ASSUME AddEvent PROVE Entered /\ Logged
  <2>1. status' = status /\ snapshot' = snapshot /\ revision' = revision /\ Encode
    BY <1>5 DEF AddEvent
  <2>2. Entered
    <3>1. StatusTellsData'
      BY <1>1, <2>1 DEF StatusTellsData
    <3>2. status' \in [Sources -> Status] /\ snapshot' \in Entries
      BY <1>1, <2>1 DEF TypeOK
    <3>3. QED
      BY <2>1, <3>1, <3>2
  <2>3. Logged
    <3>1. eventSeq \in 0..(SeqLimit - 1) /\ events \in Seq(0..(SeqLimit - 1))
      BY <1>1 DEF TypeOK
    <3>2. QED
      BY <1>5, <3>1, AddEventLog
  <2> HIDE DEF Entered, Logged
  <2>4. QED
    BY <2>2, <2>3
<1> HIDE DEF Entered, Logged
<1>6. Entered /\ Logged
  BY <1>3, <1>4, <1>5 DEF Step
<1>7. graphs' \in Seq(Graph) /\ GraphHistory' /\ HistoryIsCurrent' /\ ServedIsCurrent'
  BY <1>1, <1>6, EncodeStep DEF Entered
<1>8. revision' \in Nat
  BY <1>1, <1>6 DEF TypeOK, Entered
<1>9. TypeOK'
  BY <1>6, <1>7, <1>8 DEF TypeOK, Entered, Logged
<1>10. QED
  BY <1>6, <1>7, <1>9 DEF StoreInv, Entered, Logged

LEMMA StoreStutter == StoreInv /\ EventLog /\ UNCHANGED vars => StoreInv' /\ EventLog'
<1> SUFFICES ASSUME StoreInv, EventLog, UNCHANGED vars PROVE StoreInv' /\ EventLog'
  OBVIOUS
<1>1. /\ status' = status /\ snapshot' = snapshot /\ events' = events /\ eventSeq' = eventSeq
      /\ revision' = revision /\ graphs' = graphs /\ body' = body
  BY DEF vars
<1>2. TypeOK' /\ StatusTellsData'
  BY <1>1 DEF StoreInv, TypeOK, StatusTellsData
<1>3. GraphHistory' /\ HistoryIsCurrent'
  BY <1>1 DEF StoreInv, GraphHistory, HistoryIsCurrent
<1>4. ServedIsCurrent'
  BY <1>1 DEF StoreInv, ServedIsCurrent, Response
<1>5. EventLog'
  BY <1>1 DEF EventLog
<1>6. QED
  BY <1>2, <1>3, <1>4, <1>5 DEF StoreInv

LEMMA StoreStarts == Init => StoreInv /\ EventLog
<1> SUFFICES ASSUME Init PROVE StoreInv /\ EventLog
  OBVIOUS
<1>1. /\ status = [s \in Sources |-> InitialStatus] /\ snapshot = [s \in Sources |-> NoSnapshot]
      /\ events = <<>> /\ eventSeq = 0 /\ revision = 0 /\ graphs = <<>> /\ body = Response
  BY DEF Init
<1>2. InitialStatus \in Status
  BY DEF InitialStatus, Status
<1>3. TypeOK
  BY <1>1, <1>2, BoundsAssumption DEF TypeOK, Entries
<1>4. NoSnapshot.cov = NoCoverage
  BY Zenon DEF NoSnapshot, NoCoverage
<1>5. StatusTellsData
  BY <1>1, <1>4 DEF StatusTellsData, DescribesData, InitialStatus
<1>6. GraphHistory /\ HistoryIsCurrent /\ ServedIsCurrent
  BY <1>1, BoundsAssumption
     DEF GraphHistory, Ordered, HistoryIsCurrent, HasData, ServedIsCurrent
<1>7. EventLog
  BY <1>1, BoundsAssumption DEF EventLog
<1>8. QED
  BY <1>3, <1>5, <1>6, <1>7 DEF StoreInv

LEMMA StoreInvariant == Spec => [](StoreInv /\ EventLog)
<1>1. StoreInv /\ EventLog /\ [Next]_vars => StoreInv' /\ EventLog'
  BY StoreStep, StoreStutter DEF Next
<1>2. QED
  BY <1>1, StoreStarts, PTL DEF Spec

-----------------------------------------------------------------------------
(* The theorems.                                                           *)

\* The store's fields keep their types through every sequence of calls.
THEOREM StoreTypeCorrect == Spec => []TypeOK
<1>1. StoreInv => TypeOK
  BY DEF StoreInv
<1>2. QED
  BY <1>1, StoreInvariant, PTL

\* Whatever the sources return and whenever they fail, the status shown for a
\* source describes the data shown for it.
THEOREM StatusIsTruthful == Spec => []StatusTellsData
<1>1. StoreInv => StatusTellsData
  BY DEF StoreInv
<1>2. QED
  BY <1>1, StoreInvariant, PTL

\* The retained topology graphs are bounded, in revision order, and the one
\* with the present revision is the projection of the present data.
THEOREM HistoryIsSound == Spec => []GraphHistory
<1>1. StoreInv => GraphHistory
  BY DEF StoreInv
<1>2. QED
  BY <1>1, StoreInvariant, PTL

\* The delta endpoint and the snapshot endpoint answer from the same graph.
THEOREM EndpointsShareGraph == Spec => []EndpointsAgree
<1>1. StoreInv => EndpointsAgree
  <2> SUFFICES ASSUME StoreInv, body.graph # NoGraph
               PROVE  graphs # <<>> /\ Last(graphs) = body.graph
    BY DEF EndpointsAgree
  <2> DEFINE valid == HasData(snapshot) /\ ValidGraph(Project(snapshot, revision))
  <2>1. body.graph = IF valid THEN Project(snapshot, revision) ELSE NoGraph
    BY DEF StoreInv, ServedIsCurrent, Response
  <2>2. valid => graphs # <<>> /\ graphs[Len(graphs)] = Project(snapshot, revision)
    BY DEF StoreInv, HistoryIsCurrent
  <2> HIDE DEF valid
  <2>3. QED
    BY <2>1, <2>2 DEF Last
<1>2. QED
  BY <1>1, StoreInvariant, PTL

\* The event log holds the last events, without a gap, across the wrap-around
\* of the sequence number.
THEOREM EventsAreTheLast == Spec => []EventLog
<1>1. QED
  BY StoreInvariant, PTL

\* What a step of the store does to the entries of each source.
LEMMA StepShape ==
  ASSUME StoreInv, Step
  PROVE  \/ /\ snapshot' = snapshot /\ revision' = revision
            /\ \A s \in Sources : status[s].error # "" => status'[s].error # ""
         \/ \E s \in Sources, new \in Inputs :
              /\ Accepted(s, new)
              /\ snapshot' = [snapshot EXCEPT ![s] = new] /\ revision' = revision + 1
              /\ status'[s].state \in {"ready", "partial"}
              /\ \A t \in Sources \ {s} : status'[t] = status[t]
<1>1. TypeOK /\ StatusTellsData /\ status \in [Sources -> Status]
  BY DEF StoreInv, TypeOK
<1>2. ASSUME NEW s \in Sources, Begin(s)
      PROVE  /\ snapshot' = snapshot /\ revision' = revision
             /\ \A t \in Sources : status'[t].error = status[t].error
  BY <1>1, <1>2, BeginEntries
<1>3. CASE AddEvent
  BY <1>3 DEF AddEvent
<1>4. ASSUME NEW s \in Sources, NEW new \in Inputs \cup {NoSnapshot},
             NEW err \in {"", "failed", "timeout"}, Publish(s, new, err), ~Accepted(s, new)
      PROVE  /\ snapshot' = snapshot /\ revision' = revision
             /\ \A t \in Sources : status[t].error # "" => status'[t].error # ""
  BY <1>1, <1>4, RejectedEntries
<1>5. ASSUME NEW s \in Sources, NEW new \in Inputs \cup {NoSnapshot},
             NEW err \in {"", "failed", "timeout"}, Publish(s, new, err), Accepted(s, new)
      PROVE  /\ new \in Inputs
             /\ snapshot' = [snapshot EXCEPT ![s] = new] /\ revision' = revision + 1
             /\ status'[s].state \in {"ready", "partial"}
             /\ \A t \in Sources \ {s} : status'[t] = status[t]
  <2>1. new \in Inputs
    BY <1>5 DEF Accepted
  <2>2. QED
    BY <1>1, <1>5, <2>1, AcceptedEntries
<1>6. ASSUME NEW s \in Sources, Begin(s)
      PROVE  /\ snapshot' = snapshot /\ revision' = revision
             /\ \A t \in Sources : status[t].error # "" => status'[t].error # ""
  BY <1>2, <1>6
<1>7. ASSUME NEW s \in Sources, NEW new \in Inputs \cup {NoSnapshot},
             NEW err \in {"", "failed", "timeout"}, PublishSource(s, new, err)
      PROVE  Publish(s, new, err)
  BY <1>7 DEF PublishSource
<1>8. CASE \E s \in Sources : Begin(s)
  BY <1>6, <1>8
<1>9. CASE \E s \in Sources, new \in Inputs \cup {NoSnapshot}, err \in {"", "failed", "timeout"} :
             PublishSource(s, new, err)
  <2>1. PICK s \in Sources, new \in Inputs \cup {NoSnapshot}, err \in {"", "failed", "timeout"} :
               PublishSource(s, new, err)
    BY <1>9
  <2>2. CASE Accepted(s, new)
    BY <1>5, <1>7, <2>1, <2>2
  <2>3. CASE ~Accepted(s, new)
    BY <1>4, <1>7, <2>1, <2>3
  <2>4. QED
    BY <2>2, <2>3
<1>10. QED
  BY <1>3, <1>8, <1>9 DEF Step

\* Equal revisions mean equal data: the revision moves by one with the data of
\* one source and never otherwise.
THEOREM RevisionsCountUpdates == Spec => RevisionCountsUpdates
<1> DEFINE Counts ==
      IF revision' = revision THEN snapshot' = snapshot
      ELSE /\ revision' = revision + 1
           /\ \E s \in Sources :
                /\ status'[s].state \in {"ready", "partial"}
                /\ \A t \in Sources \ {s} : snapshot'[t] = snapshot[t] /\ status'[t] = status[t]
<1>1. StoreInv /\ [Next]_vars => [Counts]_vars
  <2> SUFFICES ASSUME StoreInv, Step PROVE Counts
    BY DEF Next
  <2>1. snapshot \in Entries /\ revision \in Nat
    BY DEF StoreInv, TypeOK
  <2>2. CASE snapshot' = snapshot /\ revision' = revision
    BY <2>2
  <2>3. ASSUME NEW s \in Sources, NEW new \in Inputs,
               snapshot' = [snapshot EXCEPT ![s] = new], revision' = revision + 1,
               status'[s].state \in {"ready", "partial"},
               \A t \in Sources \ {s} : status'[t] = status[t]
        PROVE  Counts
    <3>1. \A t \in Sources \ {s} : snapshot'[t] = snapshot[t]
      BY <2>1, <2>3 DEF Entries
    <3>2. QED
      BY <2>1, <2>3, <3>1
  <2>4. QED
    BY <2>2, <2>3, StepShape
<1>2. QED
  BY <1>1, StoreInvariant, PTL DEF Spec, RevisionCountsUpdates

\* An error shown for a source is cleared by that source's next data only.
THEOREM ErrorsStay == Spec => ErrorsPersist
<1> DEFINE Stays ==
      \A s \in Sources :
        status[s].error # "" /\ status'[s].error = "" =>
          /\ revision' = revision + 1 /\ status'[s].state \in {"ready", "partial"}
          /\ \A t \in Sources \ {s} : status'[t] = status[t]
<1>1. StoreInv /\ [Next]_vars => [Stays]_vars
  BY StepShape DEF Next
<1>2. QED
  BY <1>1, StoreInvariant, PTL DEF Spec, ErrorsPersist

\* A revision handed out as a delta baseline keeps meaning the same graph.
THEOREM RetainedStaysFixed == Spec => RetainedGraphsFixed
<1> DEFINE Fixed ==
      \A i \in 1..Len(graphs), j \in 1..Len(graphs') :
        graphs[i].revision = graphs'[j].revision => graphs[i] = graphs'[j]
<1>1. StoreInv /\ [Next]_vars => [Fixed]_vars
  <2> SUFFICES ASSUME StoreInv, Step,
                      NEW i \in 1..Len(graphs), NEW j \in 1..Len(graphs'),
                      graphs[i].revision = graphs'[j].revision
               PROVE  graphs[i] = graphs'[j]
    BY DEF Next
  <2>1. /\ graphs \in Seq(Graph) /\ Ordered(graphs)
        /\ \A k \in 1..Len(graphs) : graphs[k].revision \in Nat
    BY GraphsAreTyped DEF StoreInv, TypeOK, GraphHistory
  <2>2. Encode
    BY DEF Step, Begin, PublishSource, AddEvent
  <2>3. snapshot' \in Entries
        /\ ((revision' = revision /\ snapshot' = snapshot) \/ revision' = revision + 1)
    BY StepShape, InputsAssumption DEF StoreInv, TypeOK, Entries
  <2>4. CASE \E k \in 1..Len(graphs) : graphs'[j] = graphs[k]
    <3>1. PICK k \in 1..Len(graphs) : graphs'[j] = graphs[k]
      BY <2>4
    <3>2. ~(i < k) /\ ~(k < i)
      BY <2>1, <3>1 DEF Ordered
    <3>3. QED
      BY <3>1, <3>2
  <2>5. CASE \A k \in 1..Len(graphs) : graphs[k].revision < graphs'[j].revision
    <3>1. graphs[i].revision < graphs[i].revision
      BY <2>5
    <3>2. QED
      BY <2>1, <3>1
  <2>6. TypeOK /\ GraphHistory /\ HistoryIsCurrent
    BY DEF StoreInv
  <2>7. \/ \E k \in 1..Len(graphs) : graphs'[j] = graphs[k]
        \/ \A k \in 1..Len(graphs) : graphs[k].revision < graphs'[j].revision
    BY <2>2, <2>3, <2>6, EncodeStep
  <2>8. QED
    BY <2>4, <2>5, <2>7
<1>2. QED
  BY <1>1, StoreInvariant, PTL DEF Spec, RetainedGraphsFixed

-----------------------------------------------------------------------------
(* Refinement of Retention.                                                *)

\* An accepted update shows at least what the source has shown before.
LEMMA AcceptedKeepsHeld ==
  ASSUME NEW s \in Sources, NEW new \in Inputs, Accepted(s, new)
  PROVE  /\ Observed(snapshot[s]) \subseteq Observed(new)
         /\ Observed(new) \subseteq Resources
  BY DEF Accepted, Regresses, Observed

\* Every step of the store is a step of the promise, or changes nothing of it.
LEMMA PromiseStep ==
  ASSUME StoreInv, Step \/ UNCHANGED vars
  PROVE  [Promise!RetentionNext]_(Promise!rvars)
<1> DEFINE showing == {s \in Sources : snapshot[s] # NoSnapshot}
<1>1. snapshot \in Entries
  BY DEF StoreInv, TypeOK
<1>2. CASE snapshot' = snapshot /\ revision' = revision
  BY <1>2 DEF Promise!rvars, Held
<1>3. ASSUME NEW s \in Sources, NEW new \in Inputs, Accepted(s, new),
             snapshot' = [snapshot EXCEPT ![s] = new], revision' = revision + 1
      PROVE  Promise!RetentionNext
  <2>1. /\ Observed(snapshot[s]) \subseteq Observed(new) /\ Observed(new) \in SUBSET Resources
    BY <1>3, AcceptedKeepsHeld
  <2>2. \A t \in Sources : snapshot'[t] = IF t = s THEN new ELSE snapshot[t]
    BY <1>1, <1>3 DEF Entries
  <2>3. Held' = [Held EXCEPT ![s] = Observed(new)] /\ Held[s] = Observed(snapshot[s])
    BY <2>2 DEF Held
  <2>4. new # NoSnapshot
    BY <1>3 DEF Accepted
  <2>5. showing' = showing \cup {s}
    BY <2>2, <2>4
  <2>6. Promise!Accept(s)
    BY <1>3, <2>1, <2>3, <2>5 DEF Promise!Accept
  <2>7. QED
    BY <2>6 DEF Promise!RetentionNext
<1>4. CASE UNCHANGED vars
  BY <1>2, <1>4 DEF vars
<1>5. CASE Step
  BY <1>2, <1>3, <1>5, StepShape
<1>6. QED
  BY <1>4, <1>5

LEMMA PromiseStarts == Init => Promise!RetentionInit
<1> SUFFICES ASSUME Init PROVE Promise!RetentionInit
  OBVIOUS
<1>1. \A s \in Sources : snapshot[s] = NoSnapshot
  BY DEF Init
<1>2. revision = 0
  BY DEF Init
<1>3. {s \in Sources : snapshot[s] # NoSnapshot} = {}
  BY <1>1
<1>4. Held = [s \in Sources |-> {}]
  BY <1>1 DEF Held, Observed
<1>5. QED
  BY <1>2, <1>3, <1>4 DEF Promise!RetentionInit

\* live.go keeps its promise to the readers: revisions count the accepted
\* updates, each of one source, and no resource once shown is lost.
THEOREM StoreKeepsPromise == Spec => KeepsPromise
<1>1. StoreInv /\ [Next]_vars => [Promise!RetentionNext]_(Promise!rvars)
  BY PromiseStep DEF Next
<1>2. QED
  BY <1>1, PromiseStarts, StoreInvariant, PTL DEF Spec, KeepsPromise, Promise!RetentionSpec
=============================================================================
