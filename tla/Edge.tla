-------------------------------- MODULE Edge --------------------------------
(***************************************************************************)
(* The edge proxy (services/edge-go): client requests are forwarded to one *)
(* of several API backends, with retries for idempotent requests; probes   *)
(* and the outcome of every forward keep, for each backend, a health flag, *)
(* a count of consecutive failures and a circuit breaker.                  *)
(*                                                                         *)
(* A request goroutine, a probe goroutine and the clock interleave between *)
(* the critical sections of backend.mu; the health flag is an atomic that  *)
(* setHealth writes before it takes the mutex.  inflight.Add(1) is part of *)
(* the step that selects the backend, inflight.Add(-1) of the one that     *)
(* records the outcome.                                                    *)
(***************************************************************************)
EXTENDS Integers, FiniteSets

CONSTANTS
  N,             \* number of backends, numbered from 0 as in pool.backends
  Requests,      \* client requests that may be in the proxy at a time
  Policy,        \* HELIOS_EDGE_BALANCE_POLICY
  RetryAttempts, \* HELIOS_EDGE_RETRY_ATTEMPTS
  Threshold,     \* HELIOS_EDGE_CIRCUIT_FAIL_THRESHOLD; failures are counted up to it
  MaxFaults      \* bound: failed forwards to a backend that is up

ASSUME EdgeAssumption ==
  /\ N \in Nat \ {0}
  /\ IsFiniteSet(Requests)
  /\ Policy \in {"round_robin", "least_conn"}
  /\ RetryAttempts \in Nat \ {0}
  /\ Threshold \in Nat \ {0}
  /\ MaxFaults \in Nat

Backends == 0..(N - 1)
None == -1

VARIABLES
  (* backend *)
  healthy,    \* healthy.Load()
  inflight,   \* inflight.Load()
  failures,   \* consecutiveFailures, counted up to Threshold
  lastError,  \* lastError is not empty
  circuit,    \* circuitOpenUntil: "closed" (zero), "open" or "expired"
  (* pool *)
  counter,    \* the round-robin counter, modulo N
  (* requests *)
  pc,         \* where each request is
  attempts,   \* how many forwards it may use
  excluded,   \* backends it has been given
  at,         \* the backend that is forwarding it
  (* probes *)
  probe,      \* the health check of each backend: "idle", "asking", "up", "down"
  (* environment *)
  up,         \* the backend serves
  faults      \* how many more forwards to a backend that is up may fail

backendVars == <<healthy, inflight, failures, lastError, circuit>>
requestVars == <<pc, attempts, excluded, at>>
vars == <<backendVars, counter, requestVars, probe, up, faults>>

(* isAvailable *)
Available(b) == healthy[b] /\ circuit[b] # "open"

Outcomes == {"ok", "error", "build", "retryable", "5xx"}

TypeOK ==
  /\ healthy \in [Backends -> BOOLEAN]
  /\ inflight \in [Backends -> Nat]
  /\ failures \in [Backends -> 0..Threshold]
  /\ lastError \in [Backends -> BOOLEAN]
  /\ circuit \in [Backends -> {"closed", "open", "expired"}]
  /\ counter \in Backends
  /\ pc \in [Requests -> {"idle", "select", "fallback", "forward"} \cup Outcomes]
  /\ attempts \in [Requests -> 1..RetryAttempts]
  /\ excluded \in [Requests -> SUBSET Backends]
  /\ at \in [Requests -> Backends \cup {None}]
  /\ \A r \in Requests : at[r] = None <=> pc[r] \in {"idle", "select", "fallback"}
  /\ probe \in [Backends -> {"idle", "asking", "up", "down"}]
  /\ up \in [Backends -> BOOLEAN]
  /\ faults \in 0..MaxFaults

Init ==
  /\ healthy = [b \in Backends |-> TRUE]
  /\ inflight = [b \in Backends |-> 0]
  /\ failures = [b \in Backends |-> 0]
  /\ lastError = [b \in Backends |-> FALSE]
  /\ circuit = [b \in Backends |-> "closed"]
  /\ counter = 0
  /\ pc = [r \in Requests |-> "idle"]
  /\ attempts = [r \in Requests |-> 1]
  /\ excluded = [r \in Requests |-> {}]
  /\ at = [r \in Requests |-> None]
  /\ probe = [b \in Backends |-> "idle"]
  /\ up \in [Backends -> BOOLEAN]
  /\ faults = MaxFaults

-----------------------------------------------------------------------------
(* The environment                                                         *)

Fault == /\ faults > 0
         /\ faults' = faults - 1

(* A backend comes up or goes down. *)
Toggle(b) ==
  /\ up' = [up EXCEPT ![b] = ~@]
  /\ UNCHANGED <<backendVars, counter, requestVars, probe, faults>>

(* circuitOpenUntil passes. *)
Expire(b) ==
  /\ circuit[b] = "open"
  /\ circuit' = [circuit EXCEPT ![b] = "expired"]
  /\ UNCHANGED <<healthy, inflight, failures, lastError, counter, requestVars,
                 probe, up, faults>>

-----------------------------------------------------------------------------
(* What is recorded of a backend, each under its mutex.                    *)

(* Mutant: the flag is left to the probes. *)
TripCircuitOnly(b) ==
  circuit' = [circuit EXCEPT ![b] = "open"] /\ UNCHANGED healthy

(* The threshold is reached. *)
Trip(b) ==
  /\ circuit' = [circuit EXCEPT ![b] = "open"]
  /\ healthy' = [healthy EXCEPT ![b] = FALSE]

(* recordFailure: one failure more, and the breaker trips at the threshold. *)
RecordFailure(b) ==
  /\ failures' = [failures EXCEPT ![b] = IF @ < Threshold THEN @ + 1 ELSE @]
  /\ lastError' = [lastError EXCEPT ![b] = TRUE]
  /\ IF failures'[b] >= Threshold THEN Trip(b) ELSE UNCHANGED <<circuit, healthy>>

(* recordResponse of a status below 500. *)
RecordSuccess(b) ==
  /\ failures' = [failures EXCEPT ![b] = 0]
  /\ lastError' = [lastError EXCEPT ![b] = FALSE]
  /\ circuit' = [circuit EXCEPT ![b] = "closed"]
  /\ healthy' = [healthy EXCEPT ![b] = TRUE]

-----------------------------------------------------------------------------
(* A request: proxyWithPolicy and forwardOnce.                             *)

(* The client's request comes in; only a GET, HEAD or OPTIONS that declares no
   length of a body may use more than one attempt. *)
Arrive(r) ==
  /\ pc[r] = "idle"
  /\ pc' = [pc EXCEPT ![r] = "select"]
  /\ \E n \in {1, RetryAttempts} : attempts' = [attempts EXCEPT ![r] = n]
  /\ UNCHANGED <<backendVars, counter, excluded, at, probe, up, faults>>

Candidates(r) == {b \in Backends \ excluded[r] : Available(b)}

(* nextRoundRobin: the first candidate from start on, cyclically. *)
RoundRobin(r, start) ==
  LET distance(b) == (b + N - start) % N
  IN  {b \in Candidates(r) : \A c \in Candidates(r) : distance(b) <= distance(c)}

(* nextLeastConn: the first candidate with the fewest requests in flight. *)
LeastConn(r) ==
  {b \in Candidates(r) : \A c \in Candidates(r) :
     \/ inflight[b] < inflight[c]
     \/ inflight[b] = inflight[c] /\ b <= c}

(* The answer to the client, and the end of the request. *)
AnswerClient(r) ==
  /\ pc' = [pc EXCEPT ![r] = "idle"]
  /\ attempts' = [attempts EXCEPT ![r] = 1]
  /\ excluded' = [excluded EXCEPT ![r] = {}]
  /\ at' = [at EXCEPT ![r] = None]

(* The request is given to backend b, which it will not be given again. *)
Forward(r, b) ==
  /\ pc' = [pc EXCEPT ![r] = "forward"]
  /\ excluded' = [excluded EXCEPT ![r] = @ \cup {b}]
  /\ at' = [at EXCEPT ![r] = b]
  /\ inflight' = [inflight EXCEPT ![b] = @ + 1]
  /\ UNCHANGED <<healthy, failures, lastError, circuit, attempts>>

(* Mutant: the request waits for a backend. *)
GiveUpLater(r) ==
  /\ pc' = [pc EXCEPT ![r] = "select"]
  /\ UNCHANGED <<attempts, excluded, at>>

(* No backend can be selected: the client gets 503, or 502 if one was tried. *)
GiveUp(r) == AnswerClient(r)

(* next: the configured policy is asked first, then the other one; each scans
   the backends anew. *)
Select(r) ==
  /\ pc[r] \in {"select", "fallback"}
  /\ LET first == pc[r] = "select"
         robin == (Policy = "round_robin") <=> first
         start == IF robin THEN (counter + 1) % N ELSE counter
         choice == IF robin THEN RoundRobin(r, start) ELSE LeastConn(r)
     IN /\ counter' = start
        /\ \/ \E b \in choice : Forward(r, b)
           \/ /\ choice = {} /\ first
              /\ pc' = [pc EXCEPT ![r] = "fallback"]
              /\ UNCHANGED <<backendVars, attempts, excluded, at>>
           \/ /\ choice = {} /\ ~first
              /\ GiveUp(r)
              /\ UNCHANGED backendVars
  /\ UNCHANGED <<probe, up, faults>>

(* The upstream answers, or not.  A backend that is up answers well; it fails a
   forward only by a fault (an error of its own, a request that cannot be
   built, a client that goes away). *)
Upstream(r) ==
  /\ pc[r] = "forward"
  /\ \/ up[at[r]] /\ pc' = [pc EXCEPT ![r] = "ok"] /\ UNCHANGED faults
     \/ ~up[at[r]] /\ UNCHANGED faults
        /\ \E o \in {"error", "retryable", "5xx"} : pc' = [pc EXCEPT ![r] = o]
     \/ up[at[r]] /\ Fault
        /\ \E o \in Outcomes \ {"ok"} : pc' = [pc EXCEPT ![r] = o]
  /\ UNCHANGED <<backendVars, counter, attempts, excluded, at, probe, up>>

(* Mutant: the forward is repeated whatever the request. *)
AllowRetryAlways(r) == Cardinality(excluded[r]) < RetryAttempts

(* allowRetry: one backend has been excluded per attempt. *)
AllowRetry(r) == Cardinality(excluded[r]) < attempts[r]

(* Mutants: only an answered forward leaves; the count is given back twice. *)
LeaveIfOk(r) ==
  inflight' = [inflight EXCEPT ![at[r]] = IF pc[r] = "ok" THEN @ - 1 ELSE @]
LeaveTwice(r) == inflight' = [inflight EXCEPT ![at[r]] = @ - 2]

(* The deferred inflight.Add(-1). *)
Leave(r) == inflight' = [inflight EXCEPT ![at[r]] = @ - 1]

(* The next attempt. *)
TryNext(r) ==
  /\ pc' = [pc EXCEPT ![r] = "select"]
  /\ at' = [at EXCEPT ![r] = None]
  /\ UNCHANGED <<attempts, excluded>>

(* The rest of forwardOnce: record the outcome, then retry or answer. *)
Finish(r) ==
  /\ pc[r] \in Outcomes
  /\ Leave(r)
  /\ IF pc[r] = "ok" THEN RecordSuccess(at[r]) ELSE RecordFailure(at[r])
  /\ \/ /\ pc[r] \in {"error", "retryable"} /\ AllowRetry(r)
        /\ TryNext(r)
     \/ /\ pc[r] \in {"ok", "5xx", "build"} \/ ~AllowRetry(r)
        /\ AnswerClient(r)
  /\ UNCHANGED <<counter, probe, up, faults>>

-----------------------------------------------------------------------------
(* The health loop: all backends are probed at once, and the next round waits
   for all of them.                                                        *)

StartRound ==
  /\ \A b \in Backends : probe[b] = "idle"
  /\ probe' = [b \in Backends |-> "asking"]
  /\ UNCHANGED <<backendVars, counter, requestVars, up, faults>>

(* Mutants: a good probe does not set the flag; a bad one does not clear it. *)
ProbedIfHealthy(b) == up[b] /\ healthy[b]
ProbedOrHealthy(b) == up[b] \/ healthy[b]

(* What the probe of b finds. *)
Probed(b) == up[b]

(* checkBackend has its answer; setHealth stores the flag. *)
SetHealthFlag(b) ==
  /\ probe[b] = "asking"
  /\ probe' = [probe EXCEPT ![b] = IF up[b] THEN "up" ELSE "down"]
  /\ healthy' = [healthy EXCEPT ![b] = Probed(b)]
  /\ UNCHANGED <<inflight, failures, lastError, circuit, counter, requestVars, up, faults>>

(* The rest of setHealth, under the mutex. *)
SetHealthRest(b) ==
  /\ probe[b] \in {"up", "down"}
  /\ lastError' = [lastError EXCEPT ![b] = probe[b] = "down"]
  /\ IF probe[b] = "up"
     THEN /\ failures' = [failures EXCEPT ![b] = 0]
          /\ circuit' = [circuit EXCEPT ![b] = "closed"]
     ELSE UNCHANGED <<failures, circuit>>
  /\ probe' = [probe EXCEPT ![b] = "idle"]
  /\ UNCHANGED <<healthy, inflight, counter, requestVars, up, faults>>

Next ==
  \/ \E r \in Requests : Arrive(r) \/ Select(r) \/ Upstream(r) \/ Finish(r)
  \/ \E b \in Backends : SetHealthFlag(b) \/ SetHealthRest(b) \/ Toggle(b) \/ Expire(b)
  \/ StartRound

Spec == Init /\ [][Next]_vars

(* Goroutines run, upstream calls and probes end by BackendTimeout, the ticker
   ticks and circuitOpenUntil passes.  Nothing makes clients send requests. *)
Fairness ==
  /\ \A r \in Requests : WF_vars(Select(r)) /\ WF_vars(Upstream(r)) /\ WF_vars(Finish(r))
  /\ \A b \in Backends : /\ WF_vars(SetHealthFlag(b)) /\ WF_vars(SetHealthRest(b))
                         /\ WF_vars(Expire(b))
  /\ WF_vars(StartRound)

FairSpec == Spec /\ Fairness

-----------------------------------------------------------------------------
(* Properties *)

(* inflight counts the requests a backend is serving: every way out of a
   forward gives its count back, so least_conn never shuns an idle backend. *)
InflightExact ==
  \A b \in Backends :
    inflight[b] = Cardinality({r \in Requests : at[r] = b})

(* A good probe is between its two halves. *)
Recovering(b) == probe[b] = "up"

(* The passive breaker: once Threshold failures in a row are recorded, the
   backend is not selected until a success or a good probe says otherwise; a
   healthy backend has a closed circuit and failures to spare, except between
   the two halves of a good probe's setHealth. *)
BreakerHolds ==
  \A b \in Backends :
    healthy[b] /\ ~Recovering(b) => circuit[b] = "closed" /\ failures[b] < Threshold

(* A request is given to no more backends than it has attempts: one that may
   not be repeated (a POST, say) reaches a single backend. *)
SentWithinAttempts ==
  \A r \in Requests :
    Cardinality(excluded[r]) <= attempts[r]

(* A backend that is out of rotation has an error to show for it once no probe
   of it is running: "backend should recover after successful health check". *)
NoUnexplainedOutage ==
  \A b \in Backends :
    probe[b] = "idle" /\ ~healthy[b] => lastError[b]

(* A backend that stays up is selectable in the end, and stays so, whatever
   late failures, open circuits and interleaved probes came before. *)
BackendRecovers ==
  \A b \in Backends : <>[](up[b]) => <>[]Available(b)

(* A backend that stays down leaves the rotation for good: late successes of
   slow requests do not bring it back for ever. *)
DeadBackendRemoved ==
  \A b \in Backends : <>[](~up[b]) => <>[](~Available(b))

(* Every request is answered: retries, selections and fallbacks end. *)
RequestAnswered ==
  \A r \in Requests : pc[r] = "select" ~> pc[r] = "idle"

=============================================================================
