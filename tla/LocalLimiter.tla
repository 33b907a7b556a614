---------------------------- MODULE LocalLimiter ----------------------------
(***************************************************************************)
(* The API's rate limiter in memory (services/api-go, localRateLimiter):   *)
(* a map from addresses to token buckets.  get reads the clock, then takes *)
(* the lock to find or make the bucket of the address; the token is taken  *)
(* after the lock is released.  A cleanup wakes up every Period, reads the *)
(* clock and, under the lock, drops the buckets not seen for TTL.          *)
(* The model is of one address; the library's limiter is taken for what it *)
(* documents, a bucket that starts full and fills at a steady rate.        *)
(***************************************************************************)
EXTENDS Integers

CONSTANTS
  Requests,  \* the requests of the address, each again and again
  Limiters,  \* names of the limiters; those out of use are used again
  None,      \* there is no bucket
  Burst,     \* HELIOS_RATE_LIMIT_BURST, in units of a limiter's level
  Refill,    \* HELIOS_RATE_LIMIT_RPS: what flows in at a tick
  Cost,      \* what a request takes
  TTL,       \* how long a bucket is kept, in ticks
  Period,    \* the cleanup's ticker
  MaxDelay,  \* bound: ticks a goroutine may need from its clock reading to its end
  MaxTime    \* bound: the clock stops there

(* Goroutines are not later than the ticker's period and half the time a bucket is
   kept, a minute and five minutes.  Nothing is assumed of rate and burst. *)
ASSUME LocalAssumption ==
  /\ None \notin Limiters
  /\ Burst \in Nat /\ Refill \in Nat /\ Cost \in Nat \ {0}
  /\ TTL \in Nat /\ Period \in Nat \ {0} /\ MaxDelay \in Nat /\ MaxTime \in Nat
  /\ MaxDelay < Period
  /\ 2 * MaxDelay <= TTL

Times == 0..MaxTime
Never == -1

VARIABLES
  now,
  (* the map *)
  entry,     \* the limiter in the bucket of the address, or None
  lastSeen,  \* and its time stamp, or Never
  level,     \* what is in each limiter
  (* requests *)
  pc,        \* where each request is in Allow, or what Allow returned
  readAt,    \* when it read the clock
  holds,     \* the limiter get returned to it
  (* the cleanup *)
  due,       \* when the ticker fires next
  sweep,     \* when the cleanup that runs read the clock, or Never
  (* of the properties alone *)
  used       \* when a token was taken last

mapVars == <<entry, lastSeen>>
requestVars == <<pc, readAt, holds>>
cleanupVars == <<due, sweep>>
vars == <<now, mapVars, level, requestVars, cleanupVars, used>>

TypeOK ==
  /\ now \in Times
  /\ entry \in Limiters \cup {None}
  /\ lastSeen \in Times \cup {Never}
  /\ entry = None <=> lastSeen = Never
  /\ level \in [Limiters -> 0..Burst]
  /\ pc \in [Requests -> {"idle", "get", "use", "allowed", "denied"}]
  /\ readAt \in [Requests -> Times]
  /\ holds \in [Requests -> Limiters \cup {None}]
  /\ \A r \in Requests : pc[r] = "use" => holds[r] \in Limiters
  /\ due \in Nat
  /\ sweep \in Times \cup {Never}
  /\ used \in Times

Init ==
  /\ now = 0
  /\ entry = None
  /\ lastSeen = Never
  /\ level = [l \in Limiters |-> Burst]
  /\ pc = [r \in Requests |-> "idle"]
  /\ readAt = [r \in Requests |-> 0]
  /\ holds = [r \in Requests |-> None]
  /\ due = Period
  /\ sweep = Never
  /\ used = 0

-----------------------------------------------------------------------------
(* Allow *)

(* A request arrives, and get reads the clock before it takes the lock. *)
ReadClock(r) ==
  /\ pc[r] \in {"idle", "allowed", "denied"}
  /\ pc' = [pc EXCEPT ![r] = "get"]
  /\ readAt' = [readAt EXCEPT ![r] = now]
  /\ UNCHANGED <<now, mapVars, level, holds, cleanupVars, used>>

InUse(l) == l = entry \/ \E r \in Requests : pc[r] = "use" /\ holds[r] = l

(* Mutant: a new bucket is not stamped. *)
StampIfOld(t) == IF entry = None THEN Never ELSE t

(* The bucket is marked as seen at the clock reading, which may be older than
   the one that is there. *)
Stamp(t) == t

(* get, under the lock: the bucket of the address, or a new and full one. *)
Get(r) ==
  /\ pc[r] = "get"
  /\ lastSeen' = Stamp(readAt[r])
  /\ \/ /\ entry # None
        /\ UNCHANGED <<entry, level>>
     \/ /\ entry = None
        /\ \E l \in Limiters :
             /\ ~InUse(l)
             /\ entry' = l
             /\ level' = [level EXCEPT ![l] = Burst]
  /\ holds' = [holds EXCEPT ![r] = entry']
  /\ pc' = [pc EXCEPT ![r] = "use"]
  /\ UNCHANGED <<now, readAt, cleanupVars, used>>

(* Out of the lock, the library takes a token from the limiter, if it can; the
   middleware serves the request or answers 429. *)
Use(r) ==
  /\ pc[r] = "use"
  /\ \/ /\ level[holds[r]] >= Cost
        /\ level' = [level EXCEPT ![holds[r]] = @ - Cost]
        /\ pc' = [pc EXCEPT ![r] = "allowed"]
        /\ used' = now
     \/ /\ level[holds[r]] < Cost
        /\ pc' = [pc EXCEPT ![r] = "denied"]
        /\ UNCHANGED <<level, used>>
  /\ UNCHANGED <<now, mapVars, readAt, holds, cleanupVars>>

-----------------------------------------------------------------------------
(* cleanupLoop *)

(* The ticker fires and the cleanup reads the clock. *)
BeginSweep ==
  /\ sweep = Never
  /\ now >= due
  /\ sweep' = now
  /\ due' = due + Period
  /\ UNCHANGED <<now, mapVars, level, requestVars, used>>

(* Mutants: the comparison is the wrong way round; the cutoff is off by one;
   nothing is old enough. *)
ExpiredYoung == lastSeen # Never /\ lastSeen >= sweep - TTL
ExpiredAtCutoff == lastSeen # Never /\ lastSeen <= sweep - TTL
ExpiredNever == FALSE

(* The bucket was last seen before the cutoff. *)
Expired == lastSeen # Never /\ lastSeen < sweep - TTL

(* Under the lock, the bucket is dropped if it is old. *)
EndSweep ==
  /\ sweep # Never
  /\ entry' = IF Expired THEN None ELSE entry
  /\ lastSeen' = IF Expired THEN Never ELSE lastSeen
  /\ sweep' = Never
  /\ UNCHANGED <<now, level, requestVars, due, used>>

-----------------------------------------------------------------------------
(* Time *)

Filled(n) == IF n + Refill > Burst THEN Burst ELSE n + Refill

(* The limiters fill; no goroutine is later than MaxDelay. *)
Tick ==
  /\ now < MaxTime
  /\ \A r \in Requests : pc[r] \in {"get", "use"} => now - readAt[r] < MaxDelay
  /\ sweep # Never => now - sweep < MaxDelay
  /\ sweep = Never => now - due < MaxDelay
  /\ now' = now + 1
  /\ level' = [l \in Limiters |-> Filled(level[l])]
  /\ UNCHANGED <<mapVars, requestVars, cleanupVars, used>>

Next ==
  \/ \E r \in Requests : ReadClock(r) \/ Get(r) \/ Use(r)
  \/ BeginSweep
  \/ EndSweep
  \/ Tick

Spec == Init /\ [][Next]_vars

-----------------------------------------------------------------------------
(* Properties *)

(* The limiter a request is about to take a token from is still the one in the
   map: none is dropped between the unlock in get and Allow, so two requests of
   an address never draw on two limiters at a time. *)
HeldIsCurrent ==
  \A r \in Requests : pc[r] = "use" => holds[r] = entry

(* The map forgets an address that sends nothing: a bucket is dropped no later
   than TTL, a period of the ticker and the lateness of the cleanup after the
   last time stamp. *)
ForgetsIdle ==
  entry # None => now <= lastSeen + TTL + Period + 2 * MaxDelay

(* A bucket that is dropped was last taken from so long ago: its time stamp is
   older than the TTL, and at most two delays older than the last use. *)
Kept == TTL + 1 - 2 * MaxDelay

(* HELIOS_RATE_LIMIT_BURST is small enough for HELIOS_RATE_LIMIT_RPS. *)
FillsWhileKept == Burst <= Refill * Kept

(* One bucket, on the same clock; one that is not in the map is a full one. *)
Bucket == INSTANCE TokenBucket WITH
  level <- IF entry = None THEN Burst ELSE level[entry],
  verdict <- [r \in Requests |->
                IF pc[r] \in {"allowed", "denied"} THEN pc[r] ELSE "none"]

(* Whatever rate and burst are configured, and however requests and cleanup
   interleave, verdicts are those of a single bucket that fills only with the clock;
   but when a client has taken nothing for as long as a bucket is kept, the cleanup may
   give it a full one before it has filled. *)
ImplementsForgetfulBucket == Bucket!ForgetfulSpec

(* If FillsWhileKept (the defaults, 60 tokens at 30 a second kept for 600 seconds, do
   by far), the client cannot tell that buckets are dropped: the bucket is never given
   out but as the clock has filled it. *)
ImplementsTokenBucket == Bucket!Spec

=============================================================================
