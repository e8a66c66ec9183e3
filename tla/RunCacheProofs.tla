--------------------------- MODULE RunCacheProofs ---------------------------
(***************************************************************************)
(* Proofs about RunCache for any number of requests and keys.              *)
(***************************************************************************)
EXTENDS RunCache, TLAPS

\* Type correctness of RunCache and Runner.Run's control state.
THEOREM TypeCorrect == Spec => []TypeOK
<1>1. Init => TypeOK
  BY CacheAssumption DEF Init, TypeOK
<1>2. TypeOK /\ [Next]_vars => TypeOK'
  <2> SUFFICES ASSUME TypeOK, [Next]_vars PROVE TypeOK'
    OBVIOUS
  <2> USE DEF TypeOK, Goto, Answer
  <2>1. ASSUME NEW r \in Requests, NEW k \in Keys \cup {NoKey}, Arrive(r, k) PROVE TypeOK'
    BY <2>1 DEF Arrive
  <2>2. ASSUME NEW r \in Requests, Get(r) PROVE TypeOK'
    BY <2>2 DEF Get
  <2>3. ASSUME NEW r \in Requests, Begin(r) PROVE TypeOK'
    BY <2>3 DEF Begin, Valid
  <2>4. ASSUME NEW r \in Requests, Complete(r) PROVE TypeOK'
    BY <2>4 DEF Complete, Valid
  <2>5. ASSUME NEW r \in Requests, Fail(r) PROVE TypeOK'
    BY <2>5 DEF Fail
  <2>6. ASSUME NEW r \in Requests, Unwind(r) PROVE TypeOK'
    BY <2>6 DEF Unwind
  <2>7. CASE UNCHANGED vars
    BY <2>7 DEF vars
  <2>8. QED
    BY <2>1, <2>2, <2>3, <2>4, <2>5, <2>6, <2>7 DEF Next, Process
<1>3. QED
  BY <1>1, <1>2, PTL DEF Spec

-----------------------------------------------------------------------------
(* A request "holds" a key from begin until its deferred finish, unless it *)
(* has stored a response.  While nothing is stored for the key, the marker *)
(* is there exactly when one request holds it, and only one does: nobody   *)
(* has yet run the second, unowned delete.                                 *)
Holds(r, k) == pc[r] \in {"running", "failed"} /\ key[r] = k

Exclusive(k) ==
  /\ \A r \in Requests : Holds(r, k) => k \in running
  /\ \A r, q \in Requests : Holds(r, k) /\ Holds(q, k) => r = q
  /\ \A r \in Requests : ~(pc[r] = "stored" /\ key[r] = k)

FlightInv ==
  /\ \A k \in Keys : values[k] = NoResult => Exclusive(k)
  /\ \A k \in running : \E r \in Requests : Holds(r, k)

\* Runner.Run keeps the exclusion of a key that has no stored response, and
\* every marker has a run behind it.
LEMMA FlightStep == TypeOK /\ FlightInv /\ [Next]_vars => FlightInv'
<1> SUFFICES ASSUME TypeOK, FlightInv, [Next]_vars PROVE FlightInv'
  OBVIOUS
<1> USE CacheAssumption DEF TypeOK, FlightInv, Exclusive, Holds, Goto, Answer, Valid
<1>1. ASSUME NEW r \in Requests, NEW k \in Keys \cup {NoKey}, Arrive(r, k) PROVE FlightInv'
  BY <1>1 DEF Arrive
<1>2. ASSUME NEW r \in Requests, Get(r) PROVE FlightInv'
  BY <1>2 DEF Get
<1>3. ASSUME NEW r \in Requests, Begin(r) PROVE FlightInv'
  BY <1>3 DEF Begin
<1>4. ASSUME NEW r \in Requests, Complete(r) PROVE FlightInv'
  BY <1>4 DEF Complete
<1>5. ASSUME NEW r \in Requests, Fail(r) PROVE FlightInv'
  BY <1>5 DEF Fail
<1>6. ASSUME NEW r \in Requests, Unwind(r) PROVE FlightInv'
  BY <1>6 DEF Unwind
<1>7. CASE UNCHANGED vars
  BY <1>7 DEF vars
<1>8. QED
  BY <1>1, <1>2, <1>3, <1>4, <1>5, <1>6, <1>7 DEF Next, Process

THEOREM FlightInvariant == Spec => []FlightInv
<1>1. Init => FlightInv
  BY DEF Init, FlightInv, Exclusive, Holds
<1>2. QED
  BY <1>1, FlightStep, TypeCorrect, PTL DEF Spec

\* However many requests race for a key, only one has the model analyse it
\* for as long as no response is stored.
THEOREM SingleFlight == Spec => []SingleFlightUntilStored
<1>1. FlightInv => SingleFlightUntilStored
  BY DEF FlightInv, Exclusive, Holds, SingleFlightUntilStored, Analysing
<1>2. QED
  BY <1>1, FlightInvariant, PTL

\* No key stays marked as running without a run: none is locked for ever.
THEOREM MarkersHaveRuns == Spec => []MarkerHasRun
<1>1. FlightInv => MarkerHasRun
  BY DEF FlightInv, Holds, MarkerHasRun
<1>2. QED
  BY <1>1, FlightInvariant, PTL
=============================================================================
