----------------------------- MODULE Forwarding -----------------------------
(***************************************************************************)
(* What a request goes through in the edge process (services/edge-go): its *)
(* body is read by the backend it is forwarded to, or only in part, and    *)
(* what is left of it goes to the next; answers are discarded or passed    *)
(* on; the metrics are written one lock at a time; the process may be told *)
(* to stop.  Which backend is selected is the subject of Edge: here any    *)
(* backend that was not tried may be, or none.                             *)
(***************************************************************************)
EXTENDS Integers, FiniteSets

CONSTANTS
  Backends,
  Requests,       \* the requests of a run of the process
  RetryAttempts,  \* HELIOS_EDGE_RETRY_ATTEMPTS
  Kinds           \* the requests clients make

(* A body that is not there, of a declared length, of a declared length beyond
   HELIOS_EDGE_MAX_BODY_BYTES, or in chunks. *)
Bodies == {"none", "sized", "large", "chunked"}
NoKind == [method |-> "GET", body |-> "none"]

ASSUME ForwardingAssumption ==
  /\ IsFiniteSet(Backends) /\ IsFiniteSet(Requests)
  /\ RetryAttempts \in Nat \ {0}
  /\ \A k \in Kinds : k.body \in Bodies

VARIABLES
  mode,     \* the process: "serving", "stopping" or "exited"
  (* requests *)
  pc,       \* where each request is in proxyWithPolicy and forwardOnce
  req,      \* its method and body
  left,     \* what the next read of its body finds: "whole", "eof" or "closed"
  tried,    \* the backends it was given
  at,       \* the backend it is with, a set of at most one
  result,   \* how that forward went
  guilty,   \* it went wrong by the backend's doing
  gone,     \* its client has gone away
  answer,   \* what the client got: "none", "passed", "truncated" or "own"
  (* backends, as a reader of them sees it all *)
  got,      \* what of each request's body: "no", "nothing", "whole", "part" or "empty"
  heard,    \* the statuses each request was answered
  wronged,  \* the backends that were charged with a failure of others
  (* edgeMetrics *)
  requests, \* answers passed on, by backend and class
  errors,   \* failures, by backend and kind
  latency   \* latency samples, by backend

forwardVars == <<left, tried, at, result, guilty, gone, answer, got, heard, wronged>>
metricVars == <<requests, errors, latency>>
vars == <<mode, pc, req, forwardVars, metricVars>>

Statuses == {"2xx", "4xx", "500", "503"}
Results == Statuses \cup {"transport", "build"}
ErrorKinds == {"transport", "request_build", "upstream_50x", "upstream_5xx"}
Classes == {"2xx", "4xx", "5xx"}

TypeOK ==
  /\ mode \in {"serving", "stopping", "exited"}
  /\ pc \in [Requests -> {"idle", "select", "forward", "count", "charge", "leave",
                          "done", "cut"}]
  /\ req \in [Requests -> Kinds \cup {NoKind}]
  /\ left \in [Requests -> {"whole", "eof", "closed"}]
  /\ tried \in [Requests -> SUBSET Backends]
  /\ at \in [Requests -> {{}} \cup {{b} : b \in Backends}]
  /\ \A r \in Requests : at[r] \subseteq tried[r]
  /\ \A r \in Requests :
       /\ pc[r] \in {"forward", "count", "charge", "leave"} => at[r] # {}
       /\ pc[r] \in {"idle", "select", "done"} => at[r] = {}
  /\ result \in [Requests -> Results \cup {"none"}]
  /\ guilty \in [Requests -> BOOLEAN]
  /\ gone \in [Requests -> BOOLEAN]
  /\ answer \in [Requests -> {"none", "passed", "truncated", "own"}]
  /\ got \in [Requests -> [Backends -> {"no", "nothing", "whole", "part", "empty"}]]
  /\ heard \in [Requests -> SUBSET Statuses]
  /\ wronged \in [Requests -> SUBSET Backends]
  /\ requests \in [Backends -> [Classes -> Nat]]
  /\ errors \in [Backends -> [ErrorKinds -> Nat]]
  /\ latency \in [Backends -> Nat]

Init ==
  /\ mode = "serving"
  /\ pc = [r \in Requests |-> "idle"]
  /\ req = [r \in Requests |-> NoKind]
  /\ left = [r \in Requests |-> "eof"]
  /\ tried = [r \in Requests |-> {}]
  /\ at = [r \in Requests |-> {}]
  /\ result = [r \in Requests |-> "none"]
  /\ guilty = [r \in Requests |-> FALSE]
  /\ gone = [r \in Requests |-> FALSE]
  /\ answer = [r \in Requests |-> "none"]
  /\ got = [r \in Requests |-> [b \in Backends |-> "no"]]
  /\ heard = [r \in Requests |-> {}]
  /\ wronged = [r \in Requests |-> {}]
  /\ requests = [b \in Backends |-> [c \in Classes |-> 0]]
  /\ errors = [b \in Backends |-> [k \in ErrorKinds |-> 0]]
  /\ latency = [b \in Backends |-> 0]

-----------------------------------------------------------------------------
(* proxyWithPolicy *)

Idempotent(method) == method \in {"GET", "HEAD", "OPTIONS"}

(* Mutant: the body is not looked at. *)
CanRetryAnyBody(k) == Idempotent(k.method)

(* canRetryRequest: ContentLength is -1 for a body in chunks. *)
CanRetry(k) == Idempotent(k.method) /\ k.body \notin {"sized", "large"}

Attempts(r) == IF CanRetry(req[r]) THEN RetryAttempts ELSE 1

(* allowRetry *)
AllowRetry(r) == Cardinality(tried[r]) < Attempts(r)

(* ServeHTTP: a request that is neither for the edge itself nor lacks an API key. *)
Accept(r) ==
  /\ mode = "serving" /\ pc[r] = "idle"
  /\ \E k \in Kinds :
       /\ req' = [req EXCEPT ![r] = k]
       /\ left' = [left EXCEPT ![r] = IF k.body = "none" THEN "eof" ELSE "whole"]
  /\ pc' = [pc EXCEPT ![r] = "select"]
  /\ UNCHANGED <<mode, tried, at, result, guilty, gone, answer, got, heard, wronged, metricVars>>

(* The edge's own answer: 503 if no backend was tried, else 502. *)
GiveUp(r) ==
  /\ pc' = [pc EXCEPT ![r] = "done"]
  /\ answer' = [answer EXCEPT ![r] = "own"]

(* pool.next: a backend that was not tried, or none. *)
Select(r) ==
  /\ pc[r] = "select"
  /\ \/ \E b \in Backends \ tried[r] :
          /\ tried' = [tried EXCEPT ![r] = @ \cup {b}]
          /\ at' = [at EXCEPT ![r] = {b}]
          /\ pc' = [pc EXCEPT ![r] = "forward"]
          /\ UNCHANGED answer
     \/ GiveUp(r) /\ UNCHANGED <<tried, at>>
  /\ UNCHANGED <<mode, req, left, result, guilty, gone, got, heard, wronged, metricVars>>

-----------------------------------------------------------------------------
(* forwardOnce: the exchange with a backend *)

(* The first read to the end leaves EOF, to be found again; a body that is closed
   before its end cannot be read again. *)
Closed(l) == IF l = "whole" THEN "closed" ELSE l

(* The exchange of r with b ends with result x, by the backend's doing or not. *)
Ends(r, b, x, bodyGot, bodyLeft, byBackend) ==
  /\ result' = [result EXCEPT ![r] = x]
  /\ guilty' = [guilty EXCEPT ![r] = byBackend]
  /\ got' = [got EXCEPT ![r][b] = bodyGot]
  /\ left' = [left EXCEPT ![r] = bodyLeft]

(* prepareUpstreamRequest: the request cannot be built for b. *)
Unbuildable(r, b) == Ends(r, b, "build", "no", left[r], FALSE)

(* The request cannot be built, cannot be sent, or is not answered in time. *)
NoAnswer(r, b) ==
  /\ UNCHANGED <<heard, answer>>
  /\ pc' = [pc EXCEPT ![r] = "charge"]
  /\ \/ Unbuildable(r, b) /\ UNCHANGED gone
     \/ (* No connection: the body is closed. *)
        /\ ~gone[r] /\ UNCHANGED gone
        /\ Ends(r, b, "transport", "no", Closed(left[r]), TRUE)
     \/ (* The client goes away and takes the upstream call with it, or has gone. *)
        /\ gone' = [gone EXCEPT ![r] = TRUE]
        /\ Ends(r, b, "transport", IF gone[r] THEN "no" ELSE "part", Closed(left[r]), FALSE)
     \/ (* The body is too large, or was closed by the last attempt. *)
        /\ req[r].body = "large" \/ left[r] = "closed"
        /\ ~gone[r] /\ UNCHANGED gone
        /\ Ends(r, b, "transport", "part", "closed", FALSE)
     \/ (* The client stays, but its body stalls until upstreamClient's time is over,
           or is malformed. *)
        /\ left[r] = "whole"
        /\ ~gone[r] /\ UNCHANGED gone
        /\ Ends(r, b, "transport", "part", "closed", FALSE)
     \/ (* The backend breaks off, or does not answer in time. *)
        /\ ~gone[r] /\ UNCHANGED gone
        /\ left[r] # "closed"
        /\ Ends(r, b, "transport", "part", Closed(left[r]), TRUE)

(* What the backend makes of the body. *)
BodyAtBackend(r) ==
  IF req[r].body = "none" THEN "nothing"
  ELSE IF left[r] = "whole" THEN "whole" ELSE "empty"

(* Mutant: every server error is tried elsewhere. *)
RetryableAny(status) == status \in {"500", "503"}

(* isRetryableStatus: 502, 503 and 504, for which "503" stands. *)
Retryable(status) == status = "503"

(* Mutant: a client's error is held against the backend. *)
FailureFrom400(status) == status # "2xx"

(* recordResponse: 500 and above. *)
Failure(status) == status \in {"500", "503"}

(* copyResponse: an answer whose body breaks off breaks off at the client too, and
   the forward goes on as if it had not. *)
PassOn(r) == \E a \in {"passed", "truncated"} : answer' = [answer EXCEPT ![r] = a]

(* The backend answers, and the answer is discarded or passed on. *)
Response(r, b) ==
  /\ ~gone[r] /\ left[r] # "closed"
  /\ \E status \in Statuses :
       /\ heard' = [heard EXCEPT ![r] = @ \cup {status}]
       /\ \/ /\ req[r].body # "large"
             /\ Ends(r, b, status, BodyAtBackend(r), "eof", status \in {"500", "503"})
          \/ /\ left[r] = "whole"
             /\ Ends(r, b, status, "part", "closed", status \in {"500", "503"})
       /\ IF AllowRetry(r) /\ Retryable(status)
          THEN /\ pc' = [pc EXCEPT ![r] = "charge"]
               /\ UNCHANGED answer
          ELSE /\ pc' = [pc EXCEPT ![r] = "count"]
               /\ PassOn(r)
  /\ UNCHANGED gone

Forward(r) ==
  /\ pc[r] = "forward"
  /\ \E b \in at[r] : NoAnswer(r, b) \/ Response(r, b)
  /\ UNCHANGED <<mode, req, tried, at, wronged, metricVars>>

-----------------------------------------------------------------------------
(* forwardOnce: what is recorded, one lock at a time *)

ClassOf(status) == IF status \in {"500", "503"} THEN "5xx" ELSE status

(* incRequest and incError: one more of kind k for b, under the metrics' lock. *)
Incremented(metric, b, k) == [metric EXCEPT ![b][k] = @ + 1]

(* recordResponse, to the end of incRequest. *)
Count(r) ==
  /\ pc[r] = "count"
  /\ \E b \in at[r] : requests' = Incremented(requests, b, ClassOf(result[r]))
  /\ pc' = [pc EXCEPT ![r] = IF Failure(result[r]) THEN "charge" ELSE "leave"]
  /\ UNCHANGED <<mode, req, forwardVars, errors, latency>>

(* The kind of a failure: an answer that was passed on is one of its own. *)
KindOf(r) ==
  CASE result[r] = "transport" -> "transport"
    [] result[r] = "build" -> "request_build"
    [] result[r] \in Statuses /\ answer[r] = "none" -> "upstream_50x"
    [] OTHER -> "upstream_5xx"

(* recordFailure: the backend is charged, then its metric; both locks are free
   in between, but nothing here reads the backend's record. *)
Charge(r) ==
  /\ pc[r] = "charge"
  /\ \E b \in at[r] :
       /\ errors' = Incremented(errors, b, KindOf(r))
       /\ wronged' = [wronged EXCEPT ![r] = IF guilty[r] THEN @ ELSE @ \cup {b}]
  /\ pc' = [pc EXCEPT ![r] = "leave"]
  /\ UNCHANGED <<mode, req, left, tried, at, result, guilty, gone, answer, got, heard,
                 requests, latency>>

(* Mutant: only answers are timed. *)
SamplesOfAnswers(r) == IF result[r] \in Statuses THEN 1 ELSE 0

(* The deferred observeLatency is called on every way out. *)
Samples(r) == 1

(* Mutant: a backend is left when its answer is passed on. *)
LeftIfAnswered(r) == IF answer[r] # "none" THEN {} ELSE at[r]

(* The deferred inflight.Add(-1), on every way out. *)
Left(r) == {}

(* The end of a forward: the next attempt, the edge's own 502, or the end. *)
Leave(r) ==
  /\ pc[r] = "leave"
  /\ \E b \in at[r] : latency' = [latency EXCEPT ![b] = @ + Samples(r)]
  /\ at' = [at EXCEPT ![r] = Left(r)]
  /\ \/ /\ answer[r] # "none"
        /\ pc' = [pc EXCEPT ![r] = "done"] /\ UNCHANGED answer
     \/ /\ answer[r] = "none" /\ result[r] # "build" /\ AllowRetry(r)
        /\ pc' = [pc EXCEPT ![r] = "select"] /\ UNCHANGED answer
     \/ /\ answer[r] = "none" /\ (result[r] = "build" \/ ~AllowRetry(r))
        /\ GiveUp(r)
  /\ UNCHANGED <<mode, req, left, tried, result, guilty, gone, got, heard, wronged,
                 requests, errors>>

(* render: the counters of b, all read under one read lock. *)
Exposed(b) ==
  [answers |-> requests[b]["2xx"] + requests[b]["4xx"] + requests[b]["5xx"],
   answers5xx |-> requests[b]["5xx"],
   failed5xx |-> errors[b]["upstream_5xx"],
   unanswered |-> errors[b]["transport"] + errors[b]["request_build"]
                    + errors[b]["upstream_50x"],
   samples |-> latency[b]]

-----------------------------------------------------------------------------
(* main *)

(* SIGTERM: Shutdown closes the listener, ListenAndServe returns, and the health
   loop ends. *)
Stop ==
  /\ mode = "serving"
  /\ mode' = "stopping"
  /\ UNCHANGED <<pc, req, forwardVars, metricVars>>

(* main returns without waiting for Shutdown: what is in flight is cut. *)
Exit ==
  /\ mode = "stopping"
  /\ mode' = "exited"
  /\ pc' = [r \in Requests |-> IF pc[r] \in {"idle", "done"} THEN pc[r] ELSE "cut"]
  /\ UNCHANGED <<req, forwardVars, metricVars>>

Next ==
  \/ \E r \in Requests :
       Accept(r) \/ Select(r) \/ Forward(r) \/ Count(r) \/ Charge(r) \/ Leave(r)
  \/ Stop
  \/ Exit

Spec == Init /\ [][Next]_vars

-----------------------------------------------------------------------------
(* Properties *)

(* A body reaches no more than one backend as a whole, and a request that may not
   be repeated reaches no more than one at all.  Only a repeated request with a
   body in chunks, which one backend has read, reaches another without it. *)
BodyIntact ==
  \A r \in Requests :
    LET reached == {b \in Backends : got[r][b] # "no"}
        wholly == {b \in Backends : got[r][b] = "whole"}
    IN  /\ Cardinality(wholly) <= 1
        /\ ~Idempotent(req[r].method) => Cardinality(reached) <= 1
        /\ \A b \in Backends : got[r][b] = "empty" => req[r].body = "chunked" /\ reached # {b}

(* What excuses the charge of b for a failure of others: the request could not be
   built for b, its client has gone away, or it has a body, of which b was not
   given all. *)
Excused(r, b) ==
  \/ result[r] = "build" /\ got[r][b] = "no"
  \/ gone[r]
  \/ req[r].body # "none" /\ got[r][b] = "part"

(* A backend that was given the whole of a request, by a client who waits for the
   answer, is charged with failures of its own only, however the attempt before
   or after it at another backend went. *)
ChargedJustly == \A r \in Requests : \A b \in wronged[r] : Excused(r, b)

(* A request that comes to its end has an answer, and only the exit of the process
   cuts one off.  The edge answers for itself only if every answer it got was a
   502, 503 or 504, and it had an attempt left when it got the last of them. *)
AnswerHonest ==
  \A r \in Requests :
    /\ pc[r] = "done" => answer[r] # "none"
    /\ pc[r] = "cut" => mode = "exited"
    /\ answer[r] = "own" =>
         /\ heard[r] \subseteq {"503"}
         /\ result[r] = "503" => Cardinality(tried[r]) < Attempts(r)

(* What /metrics shows adds up at any moment: for each backend, answers passed on
   and other failures are the latency samples and the forwards between their
   count and their sample; 5xx answers are the upstream_5xx failures and the
   forwards between the two. *)
Between(b, where) == Cardinality({r \in Requests : at[r] = {b} /\ where[r]})

MetricsBalance ==
  mode # "exited" =>
    \A b \in Backends :
      LET shown == Exposed(b)
          charging == [r \in Requests |-> pc[r] = "charge" /\ answer[r] # "none"]
      IN  /\ shown.answers + shown.unanswered
               = shown.samples
                 + Between(b, [r \in Requests |-> pc[r] = "leave" \/ charging[r]])
          /\ shown.answers5xx = shown.failed5xx + Between(b, charging)

=============================================================================
