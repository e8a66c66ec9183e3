------------------------------ MODULE RunCache ------------------------------
(***************************************************************************)
(* Runner.Run and the RunCache that live and hub handlers share            *)
(* (internal/analysis/runner.go).  Every HTTP request runs it in its own   *)
(* goroutine; get, begin and finish each hold the cache's mutex, nothing   *)
(* holds it between them.  The analyzer is a call that answers or fails.   *)
(***************************************************************************)
EXTENDS Naturals

CONSTANTS Requests,   \* request goroutines, each used again after its answer
          Keys,       \* valid cache keys
          NoKey,      \* the empty CacheKey of an uncached job
          NoResult    \* absence of a stored response

ASSUME CacheAssumption == NoKey \notin Keys /\ NoResult \notin Requests

VARIABLES pc,         \* where each request is in Run
          key,        \* Job.Key of each request
          values,     \* the request whose response is stored for a key
          running,    \* RunCache.running, the keys being analysed
          reply       \* how Run ended for each request

vars == <<pc, key, values, running, reply>>

Init ==
  /\ pc = [r \in Requests |-> "idle"]
  /\ key = [r \in Requests |-> NoKey]
  /\ values = [k \in Keys |-> NoResult]
  /\ running = {}
  /\ reply = [r \in Requests |-> "none"]

Goto(r, from, to) == pc[r] = from /\ pc' = [pc EXCEPT ![r] = to]
Answer(r, how) == reply' = [reply EXCEPT ![r] = how]

\* CacheKey.valid
Valid(k) == k # NoKey
Stored(k) == Valid(k) /\ values[k] # NoResult

Arrive(r, k) ==
  /\ Goto(r, "idle", "lookup")
  /\ key' = [key EXCEPT ![r] = k]
  /\ Answer(r, "none") /\ UNCHANGED <<values, running>>

\* get: a hit ends the run, a miss goes on to begin
Get(r) ==
  /\ IF Stored(key[r]) THEN Goto(r, "lookup", "idle") /\ Answer(r, "cached")
     ELSE Goto(r, "lookup", "claim") /\ UNCHANGED reply
  /\ UNCHANGED <<key, values, running>>

\* begin: one marker per key; the stored values are not looked at again
BeginUnkeyed(r) ==  \* mutant: uncached jobs are marked too
  /\ IF key[r] \in running
     THEN Goto(r, "claim", "idle") /\ Answer(r, "rejected") /\ UNCHANGED running
     ELSE Goto(r, "claim", "running") /\ UNCHANGED reply /\ running' = running \cup {key[r]}
  /\ UNCHANGED <<key, values>>
BeginPatiently(r) ==  \* mutant: a duplicate waits for the marker to go
  /\ key[r] \notin running /\ Goto(r, "claim", "running")
  /\ running' = IF Valid(key[r]) THEN running \cup {key[r]} ELSE running
  /\ UNCHANGED <<key, values, reply>>
Begin(r) ==
  /\ IF key[r] \in running
     THEN Goto(r, "claim", "idle") /\ Answer(r, "rejected") /\ UNCHANGED running
     ELSE /\ Goto(r, "claim", "running") /\ UNCHANGED reply
          /\ running' = IF Valid(key[r]) THEN running \cup {key[r]} ELSE running
  /\ UNCHANGED <<key, values>>

\* the analyzer answered: finish(key, out, true) stores it and drops the marker
Complete(r) ==
  /\ Goto(r, "running", "stored")
  /\ Answer(r, "fresh")
  /\ running' = running \ {key[r]}
  /\ values' = IF Valid(key[r]) THEN [values EXCEPT ![key[r]] = r] ELSE values
  /\ UNCHANGED key

\* loading the configuration or the analyzer failed
FailEarly(r) ==  \* mutant: finish is called here and by the deferred call
  /\ Goto(r, "running", "failed") /\ Answer(r, "error")
  /\ running' = running \ {key[r]} /\ UNCHANGED <<key, values>>
Fail(r) ==
  /\ Goto(r, "running", "failed")
  /\ Answer(r, "error") /\ UNCHANGED <<key, values, running>>

\* the deferred finish(key, {}, false) runs however Run returns, and drops the
\* key's marker whoever set it
UnwindStored(r) ==  \* mutant: no deferred finish, only the one that stores
  /\ Goto(r, "stored", "idle") \/ Goto(r, "failed", "idle")
  /\ UNCHANGED <<key, values, running, reply>>
Unwind(r) ==
  /\ Goto(r, "stored", "idle") \/ Goto(r, "failed", "idle")
  /\ running' = running \ {key[r]}
  /\ UNCHANGED <<key, values, reply>>

Process(r) == Get(r) \/ Begin(r) \/ Complete(r) \/ Fail(r) \/ Unwind(r)

Next ==
  \/ \E r \in Requests, k \in Keys \cup {NoKey} : Arrive(r, k)
  \/ \E r \in Requests : Process(r)

Spec == Init /\ [][Next]_vars

\* a request goroutine that can run does; the analyzer has a timeout
FairSpec == Spec /\ \A r \in Requests : WF_vars(Process(r))

-----------------------------------------------------------------------------
TypeOK ==
  /\ pc \in [Requests -> {"idle", "lookup", "claim", "running", "stored", "failed"}]
  /\ key \in [Requests -> Keys \cup {NoKey}]
  /\ values \in [Keys -> Requests \cup {NoResult}]
  /\ running \subseteq Keys
  /\ reply \in [Requests -> {"none", "cached", "rejected", "fresh", "error"}]

Analysing(r, k) == pc[r] = "running" /\ key[r] = k

\* As long as no response is stored for a key, at most one request has the
\* model analyse it: the double unlock of finish cannot yet hurt.
SingleFlightUntilStored ==
  \A k \in Keys : values[k] = NoResult =>
    \A r, q \in Requests : Analysing(r, k) /\ Analysing(q, k) => r = q

\* A marker never outlives the runs of its key: a request is rejected as
\* "already running" only while one is, so no key stays locked for ever.
MarkerHasRun ==
  \A k \in running : \E r \in Requests : pc[r] \in {"running", "failed"} /\ key[r] = k

\* Every request ends: with the stored response, its own, or an error.
EveryRequestEnds == \A r \in Requests : (pc[r] = "lookup") ~> (pc[r] = "idle")

\* "RunCache stores completed results and rejects duplicate concurrent runs."
\* (runner.go:54)
OneRunPerKey ==
  \A k \in Keys : \A r, q \in Requests : Analysing(r, k) /\ Analysing(q, k) => r = q
=============================================================================
