---------------------------- MODULE RedisLimiter ----------------------------
(***************************************************************************)
(* The API's rate limiter over Redis (services/api-go, redisRateLimiter):  *)
(* one counter per client and window of the clock, shared by all replicas. *)
(* Allow is two commands, INCR and, for the request that created the key,  *)
(* EXPIRE; each request dials a connection of its own, so the commands of  *)
(* different requests interleave and any of them may fail or come late.    *)
(* The model is of one client's key; the replicas' clocks agree.           *)
(***************************************************************************)
EXTENDS Integers, FiniteSets

CONSTANTS
  Requests,  \* the client's requests, on any replica
  Limit,     \* HELIOS_RATE_LIMIT_BURST
  Window,    \* HELIOS_RATE_LIMIT_WINDOW in seconds, rounded up
  MaxDelay,  \* bound: seconds from reading the clock to the last command
  MaxTime    \* bound: the clock stops there

ASSUME LimiterAssumption ==
  /\ IsFiniteSet(Requests)
  /\ Limit \in Nat \ {0}
  /\ Window \in Nat \ {0}
  /\ MaxDelay \in Nat
  /\ MaxTime \in Nat

Times == 0..MaxTime
Windows == Times     \* as many as can be named
Never == -1

VARIABLES
  now,     \* seconds
  (* Redis: the client's key of each window *)
  count,   \* its value, 0 if there is no key
  expiry,  \* when it expires, or Never
  (* requests *)
  pc,      \* where each request is in Allow, or what Allow returned
  readAt,  \* when it read the clock
  bucket,  \* the window that gave it
  reply,   \* the answer to its INCR, 0 if it was not executed
  incrAt   \* when its INCR was executed, for the properties

redisVars == <<count, expiry>>
requestVars == <<pc, readAt, bucket, reply, incrAt>>
vars == <<now, redisVars, requestVars>>

TypeOK ==
  /\ now \in Times
  /\ count \in [Windows -> Nat]
  /\ expiry \in [Windows -> Nat \cup {Never}]
  /\ pc \in [Requests -> {"idle", "incr", "expire", "allowed", "denied", "error"}]
  /\ readAt \in [Requests -> Times]
  /\ bucket \in [Requests -> Windows]
  /\ reply \in [Requests -> Nat]
  /\ incrAt \in [Requests -> Times \cup {Never}]
  /\ \A r \in Requests : pc[r] = "allowed" => reply[r] \in 1..Limit

Init ==
  /\ now = 0
  /\ count = [w \in Windows |-> 0]
  /\ expiry = [w \in Windows |-> Never]
  /\ pc = [r \in Requests |-> "idle"]
  /\ readAt = [r \in Requests |-> 0]
  /\ bucket = [r \in Requests |-> 0]
  /\ reply = [r \in Requests |-> 0]
  /\ incrAt = [r \in Requests |-> Never]

-----------------------------------------------------------------------------
(* Allow *)

(* The request reads the clock and names its key. *)
ReadClock(r) ==
  /\ pc[r] = "idle"
  /\ pc' = [pc EXCEPT ![r] = "incr"]
  /\ readAt' = [readAt EXCEPT ![r] = now]
  /\ bucket' = [bucket EXCEPT ![r] = now \div Window]
  /\ UNCHANGED <<now, redisVars, reply, incrAt>>

(* Connecting, AUTH, SELECT or INCR fails before Redis has counted. *)
FailEarly(r) ==
  /\ pc[r] = "incr"
  /\ pc' = [pc EXCEPT ![r] = "error"]
  /\ UNCHANGED <<now, redisVars, readAt, bucket, reply, incrAt>>

(* Mutants: the limit is one too low, or one too high; the second request sets
   the expiry. *)
VerdictTooStrict(n) == IF n = 1 THEN "expire" ELSE IF n >= Limit THEN "denied" ELSE "allowed"
VerdictTooLax(n) == IF n = 1 THEN "expire" ELSE IF n > Limit + 1 THEN "denied" ELSE "allowed"
VerdictLate(n) == IF n = 2 THEN "expire" ELSE IF n > Limit THEN "denied" ELSE "allowed"

(* What a request does with the answer n to its INCR. *)
Verdict(n) == IF n = 1 THEN "expire" ELSE IF n > Limit THEN "denied" ELSE "allowed"

(* Redis executes the INCR; its answer may be lost. *)
Incr(r) ==
  /\ pc[r] = "incr"
  /\ count' = [count EXCEPT ![bucket[r]] = @ + 1]
  /\ reply' = [reply EXCEPT ![r] = count'[bucket[r]]]
  /\ incrAt' = [incrAt EXCEPT ![r] = now]
  /\ \E next \in {Verdict(reply'[r]), "error"} : pc' = [pc EXCEPT ![r] = next]
  /\ UNCHANGED <<now, expiry, readAt, bucket>>

(* Mutant: the key lives for one window. *)
LifetimeOfWindow == Window

(* windowSeconds+1 *)
Lifetime == Window + 1

(* Redis executes the EXPIRE of the request that created the key; its answer
   may be lost. *)
Expire(r) ==
  /\ pc[r] = "expire"
  /\ expiry' = IF count[bucket[r]] > 0
               THEN [expiry EXCEPT ![bucket[r]] = now + Lifetime]
               ELSE expiry
  /\ \E next \in {"allowed", "error"} : pc' = [pc EXCEPT ![r] = next]
  /\ UNCHANGED <<now, count, readAt, bucket, reply, incrAt>>

(* The EXPIRE never reaches Redis. *)
FailLate(r) ==
  /\ pc[r] = "expire"
  /\ pc' = [pc EXCEPT ![r] = "error"]
  /\ UNCHANGED <<now, redisVars, readAt, bucket, reply, incrAt>>

-----------------------------------------------------------------------------
(* Time.  Redis drops the keys that expire; the deadlines of the connection
   bound how long a request can take. *)

Expires(w, t) == expiry[w] # Never /\ expiry[w] <= t

Tick ==
  /\ now < MaxTime
  /\ \A r \in Requests : pc[r] \in {"incr", "expire"} => now - readAt[r] < MaxDelay
  /\ now' = now + 1
  /\ count' = [w \in Windows |-> IF Expires(w, now') THEN 0 ELSE count[w]]
  /\ expiry' = [w \in Windows |-> IF Expires(w, now') THEN Never ELSE expiry[w]]
  /\ UNCHANGED requestVars

Next ==
  \/ \E r \in Requests :
       ReadClock(r) \/ FailEarly(r) \/ Incr(r) \/ Expire(r) \/ FailLate(r)
  \/ Tick

Spec == Init /\ [][Next]_vars

-----------------------------------------------------------------------------
(* Properties *)

Counted(r) == incrAt[r] # Never

(* The first second after window w. *)
End(w) == (w + 1) * Window

(* The INCR ran at most a second after the end of the window. *)
Prompt(r) == Counted(r) /\ incrAt[r] <= End(bucket[r])

PromptlyAllowed(w) ==
  {r \in Requests : pc[r] = "allowed" /\ Prompt(r) /\ bucket[r] = w}

CountedIn(w) == {r \in Requests : Counted(r) /\ bucket[r] = w}

(* The requests of a window are within the limit, whatever the interleaving,
   failures and late requests: the key lives a second longer than the window,
   so that requests up to a second late meet it.  Later ones may meet a new
   key, and a full limit. *)
PromptWithinLimit ==
  \A w \in Windows :
    Cardinality(PromptlyAllowed(w)) <= Limit

(* A request is turned away with 429 only if Redis has counted more requests of
   its window than the limit: no request is held against another window, and
   none is counted twice. *)
DenialJustified ==
  \A r \in Requests :
    pc[r] = "denied" =>
      Cardinality(CountedIn(bucket[r])) > Limit

(* A key without an expiry is about to get one, or the request that created it
   has failed: the only way for a key to stay in Redis for ever. *)
UnexpiringKeyExplained ==
  \A w \in Windows :
    count[w] > 0 /\ expiry[w] = Never =>
      \E r \in Requests :
        pc[r] \in {"expire", "error"} /\ bucket[r] = w /\ reply[r] = 1

=============================================================================
