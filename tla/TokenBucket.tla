----------------------------- MODULE TokenBucket -----------------------------
(***************************************************************************)
(* What an in-memory rate limiter promises a client: one bucket that fills *)
(* by Refill at every tick of the clock and at no other moment, and from   *)
(* which every request that is let through takes its share.  Spec is a     *)
(* bucket that is never forgotten; ForgetfulSpec one that may be filled    *)
(* up when nothing was taken from it for Kept ticks.  Nothing is said of   *)
(* addresses, maps or cleanups.                                            *)
(***************************************************************************)
EXTENDS Integers

CONSTANTS
  Requests,  \* whose requests come again and again
  Burst,     \* what the bucket holds
  Refill,    \* what flows in at a tick of the clock
  Cost,      \* what a request takes
  Kept       \* for how many ticks after it was taken from a bucket is kept

VARIABLES
  now,     \* the clock
  level,   \* what is in the bucket
  used,    \* when it was taken from last
  verdict  \* of each request, "none" until it has one

vars == <<now, level, used, verdict>>

Init ==
  /\ now = 0
  /\ level = Burst
  /\ used = 0
  /\ verdict = [r \in Requests |-> "none"]

Ask(r) ==
  /\ verdict' = [verdict EXCEPT ![r] = "none"]
  /\ UNCHANGED <<now, level, used>>

Allow(r) ==
  /\ verdict[r] = "none"
  /\ level >= Cost
  /\ level' = level - Cost
  /\ used' = now
  /\ verdict' = [verdict EXCEPT ![r] = "allowed"]
  /\ UNCHANGED now

Deny(r) ==
  /\ verdict[r] = "none"
  /\ level < Cost
  /\ verdict' = [verdict EXCEPT ![r] = "denied"]
  /\ UNCHANGED <<now, level, used>>

Pour ==
  /\ now' = now + 1
  /\ level' = IF level + Refill > Burst THEN Burst ELSE level + Refill
  /\ UNCHANGED <<used, verdict>>

Forget ==
  /\ now >= used + Kept
  /\ level' = Burst
  /\ UNCHANGED <<now, used, verdict>>

Next ==
  \/ \E r \in Requests : Ask(r) \/ Allow(r) \/ Deny(r)
  \/ Pour

Spec == Init /\ [][Next]_vars

ForgetfulSpec == Init /\ [][Next \/ Forget]_vars

=============================================================================
