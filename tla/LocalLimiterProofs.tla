------------------------- MODULE LocalLimiterProofs -------------------------
(***************************************************************************)
(* LocalLimiter's types, and that its client sees a single bucket: one that *)
(* is never dropped if buckets fill while they are kept, and else one that  *)
(* may be filled up when it was not used.  The argument: a bucket that is   *)
(* dropped was last used so long ago that no request can still be holding   *)
(* it, and has been filling ever since.                                     *)
(***************************************************************************)
EXTENDS LocalLimiter, TLAPS

USE LocalAssumption DEF Times, Never

(* Nobody is later than MaxDelay, and the ticker is never far away. *)
Punctual ==
  /\ \A r \in Requests :
       pc[r] \in {"get", "use"} => readAt[r] <= now /\ now <= readAt[r] + MaxDelay
  /\ due <= now + Period
  /\ sweep = Never => now <= due + MaxDelay
  /\ sweep # Never => /\ sweep <= now
                      /\ now <= sweep + MaxDelay
                      /\ due <= sweep + Period
                      /\ sweep + Period <= due + MaxDelay

(* The next cleanup comes in time for the bucket that is there. *)
SeenRecently ==
  entry # None =>
    /\ lastSeen <= now
    /\ sweep = Never => due <= lastSeen + TTL + Period
    /\ sweep # Never => sweep <= lastSeen + TTL + Period + MaxDelay

(* A request that holds a limiter holds the one in the map, and is not much
   younger than its time stamp. *)
HeldRecently ==
  \A r \in Requests :
    pc[r] = "use" =>
      /\ entry # None
      /\ holds[r] = entry
      /\ readAt[r] <= lastSeen + MaxDelay

(* The last use is at most two delays after the time stamp. *)
UsedRecently ==
  /\ used <= now
  /\ entry # None => used <= lastSeen + 2 * MaxDelay

(* The bucket has been filling since the last use. *)
FillingSince ==
  entry # None =>
    \/ level[entry] = Burst
    \/ level[entry] >= Refill * (now - used)

LocalInv ==
  TypeOK /\ Punctual /\ SeenRecently /\ HeldRecently /\ UsedRecently /\ FillingSince

(* What has flowed into a bucket in d ticks. *)
LEMMA FlowIsMonotonic ==
  ASSUME NEW d \in Int, NEW e \in Int, d <= e
  PROVE  /\ Refill * d \in Int /\ Refill * e \in Int
         /\ Refill * d <= Refill * e
         /\ Refill * (d + 1) = Refill * d + Refill
         /\ d <= 0 => Refill * d <= 0
OBVIOUS

LEMMA InitInv == Init => LocalInv
BY DEF Init, LocalInv, TypeOK, Punctual, SeenRecently, HeldRecently, UsedRecently, FillingSince

(* A request that arrives is on time. *)
LEMMA ReadClockInv ==
  ASSUME LocalInv, NEW r \in Requests, ReadClock(r)
  PROVE  LocalInv'
<1> USE DEF LocalInv
<1>1. /\ UNCHANGED <<now, entry, lastSeen, level, holds, due, sweep, used>>
      /\ pc' = [pc EXCEPT ![r] = "get"]
      /\ readAt' = [readAt EXCEPT ![r] = now]
  BY DEF ReadClock, mapVars, cleanupVars
<1>2. TypeOK'
  BY <1>1 DEF TypeOK
<1>3. Punctual'
  BY <1>1 DEF TypeOK, Punctual
<1>4. SeenRecently' /\ UsedRecently' /\ FillingSince'
  BY <1>1 DEF SeenRecently, UsedRecently, FillingSince
<1>5. HeldRecently'
  BY <1>1 DEF TypeOK, HeldRecently
<1> QED
  BY <1>2, <1>3, <1>4, <1>5

(* get finds the bucket or makes a full one; its time stamp may go back, by no
   more than a delay. *)
LEMMA GetInv ==
  ASSUME LocalInv, NEW r \in Requests, Get(r)
  PROVE  LocalInv'
<1> USE DEF LocalInv
<1>1. /\ UNCHANGED <<now, readAt, due, sweep, used>>
      /\ pc[r] = "get"
      /\ lastSeen' = readAt[r]
      /\ pc' = [pc EXCEPT ![r] = "use"]
      /\ holds' = [holds EXCEPT ![r] = entry']
      /\ entry' \in Limiters
      /\ entry # None => entry' = entry
  BY DEF Get, Stamp, cleanupVars, TypeOK
<1>2. /\ level' \in [Limiters -> 0..Burst]
      /\ level'[entry'] = IF entry = None THEN Burst ELSE level[entry']
  BY <1>1 DEF Get, TypeOK
<1>3. readAt[r] \in Times /\ readAt[r] <= now /\ now <= readAt[r] + MaxDelay
  BY <1>1 DEF TypeOK, Punctual
<1>4. TypeOK'
  BY <1>1, <1>2, <1>3 DEF TypeOK
<1>5. Punctual'
  BY <1>1 DEF TypeOK, Punctual
<1>6. SeenRecently'
  BY <1>1, <1>3 DEF TypeOK, SeenRecently, Punctual
<1>7. HeldRecently'
  <2> SUFFICES ASSUME NEW q \in Requests, pc'[q] = "use"
               PROVE  /\ entry' # None
                      /\ holds'[q] = entry'
                      /\ readAt'[q] <= lastSeen' + MaxDelay
    BY DEF HeldRecently
  <2>1. CASE q = r
    BY <1>1, <1>3, <2>1 DEF TypeOK
  <2>2. CASE q # r
    <3>1. pc[q] = "use" /\ readAt[q] <= now /\ readAt[q] \in Times
      BY <1>1, <2>2 DEF TypeOK, Punctual
    <3>2. entry # None /\ holds[q] = entry
      BY <3>1 DEF HeldRecently
    <3> QED
      BY <1>1, <1>3, <2>2, <3>1, <3>2 DEF TypeOK
  <2> QED
    BY <2>1, <2>2
<1>8. UsedRecently'
  BY <1>1, <1>3 DEF TypeOK, UsedRecently
<1>9. FillingSince'
  BY <1>1, <1>2 DEF FillingSince
<1> QED
  BY <1>4, <1>5, <1>6, <1>7, <1>8, <1>9

(* A token is taken no later than two delays after the time stamp. *)
LEMMA UseInv ==
  ASSUME LocalInv, NEW r \in Requests, Use(r)
  PROVE  LocalInv'
<1> USE DEF LocalInv
<1>1. /\ UNCHANGED <<now, entry, lastSeen, readAt, holds, due, sweep>>
      /\ pc[r] = "use"
      /\ \A q \in Requests : pc'[q] \in {"get", "use"} => pc'[q] = pc[q]
      /\ pc' \in [Requests -> {"idle", "get", "use", "allowed", "denied"}]
  BY DEF Use, mapVars, cleanupVars, TypeOK
<1>2. /\ entry \in Limiters /\ holds[r] = entry
      /\ readAt[r] \in Times /\ now <= readAt[r] + MaxDelay
      /\ readAt[r] <= lastSeen + MaxDelay
      /\ lastSeen \in Times
  BY <1>1 DEF TypeOK, Punctual, HeldRecently
<1>3. level' \in [Limiters -> 0..Burst]
  BY <1>2 DEF Use, TypeOK
<1>4. \/ used' = now
      \/ used' = used /\ level' = level
  BY DEF Use
<1>5. TypeOK'
  BY <1>1, <1>3, <1>4 DEF TypeOK
<1>6. Punctual' /\ SeenRecently' /\ HeldRecently'
  BY <1>1 DEF Punctual, SeenRecently, HeldRecently
<1>7. UsedRecently'
  BY <1>1, <1>2, <1>4 DEF TypeOK, UsedRecently
<1>8. FillingSince'
  <2>1. CASE used' = now
    <3>1. level'[entry] \in 0..Burst /\ now' - used' = 0 /\ Refill * 0 = 0
      BY <1>1, <1>2, <1>3, <2>1 DEF TypeOK
    <3> QED
      BY <1>1, <3>1 DEF FillingSince
  <2>2. CASE used' = used /\ level' = level
    BY <1>1, <2>2 DEF FillingSince
  <2> QED
    BY <1>4, <2>1, <2>2
<1> QED
  BY <1>5, <1>6, <1>7, <1>8

(* The cleanup starts on time and so sets the ticker. *)
LEMMA BeginSweepInv ==
  ASSUME LocalInv, BeginSweep
  PROVE  LocalInv'
<1> USE DEF LocalInv
<1>1. /\ UNCHANGED <<now, entry, lastSeen, level, pc, readAt, holds, used>>
      /\ sweep = Never /\ now >= due /\ sweep' = now /\ due' = due + Period
  BY DEF BeginSweep, mapVars, requestVars
<1>2. TypeOK'
  BY <1>1 DEF TypeOK
<1>3. Punctual'
  BY <1>1 DEF TypeOK, Punctual
<1>4. SeenRecently'
  BY <1>1 DEF TypeOK, SeenRecently, Punctual
<1>5. HeldRecently' /\ UsedRecently' /\ FillingSince'
  BY <1>1 DEF HeldRecently, UsedRecently, FillingSince
<1> QED
  BY <1>2, <1>3, <1>4, <1>5

(* A bucket that expires was not used for as long as it is kept, which may be time
   enough to fill, and no request holds it. *)
LEMMA ExpiredIsIdle ==
  ASSUME LocalInv, sweep # Never, Expired
  PROVE  /\ entry # None
         /\ now >= used + Kept
         /\ FillsWhileKept => level[entry] = Burst
         /\ \A r \in Requests : pc[r] # "use"
<1> USE DEF LocalInv
<1>1. /\ entry \in Limiters /\ entry # None
      /\ lastSeen \in Times /\ sweep \in Times /\ now \in Times /\ used \in Times
      /\ lastSeen + TTL < sweep /\ sweep <= now
      /\ used <= lastSeen + 2 * MaxDelay
  BY DEF Expired, TypeOK, Punctual, UsedRecently
<1>2. Kept \in Int /\ now >= used + Kept
  BY <1>1 DEF Kept
<1>3. ASSUME FillsWhileKept PROVE level[entry] = Burst
  <2> DEFINE e == now - used
  <2>1. e \in Int /\ Kept <= e
    BY <1>1, <1>2
  <2>2. level[entry] = Burst \/ level[entry] >= Refill * e
    BY <1>1 DEF FillingSince
  <2> HIDE DEF e
  <2>3. Refill * Kept <= Refill * e /\ Refill * Kept \in Int /\ Refill * e \in Int
    BY <1>2, <2>1, FlowIsMonotonic
  <2>4. level[entry] \in 0..Burst
    BY <1>1 DEF TypeOK
  <2> QED
    BY <1>3, <2>2, <2>3, <2>4 DEF FillsWhileKept
<1>4. ASSUME NEW r \in Requests, pc[r] = "use" PROVE FALSE
  <2>1. readAt[r] \in Times /\ now <= readAt[r] + MaxDelay /\ readAt[r] <= lastSeen + MaxDelay
    BY <1>4 DEF TypeOK, Punctual, HeldRecently
  <2> QED
    BY <1>1, <2>1
<1> QED
  BY <1>1, <1>2, <1>3, <1>4

(* The cleanup drops nothing that is in use, and keeps what was seen since the
   cutoff. *)
LEMMA EndSweepInv ==
  ASSUME LocalInv, EndSweep
  PROVE  LocalInv'
<1> USE DEF LocalInv
<1>1. /\ UNCHANGED <<now, level, pc, readAt, holds, due, used>>
      /\ sweep # Never /\ sweep' = Never
      /\ entry' = IF Expired THEN None ELSE entry
      /\ lastSeen' = IF Expired THEN Never ELSE lastSeen
  BY DEF EndSweep, requestVars
<1>2. TypeOK'
  BY <1>1 DEF TypeOK
<1>3. Punctual'
  BY <1>1 DEF TypeOK, Punctual
<1>4. SeenRecently'
  BY <1>1 DEF TypeOK, SeenRecently, Punctual, Expired
<1>5. HeldRecently'
  BY <1>1, ExpiredIsIdle DEF HeldRecently
<1>6. UsedRecently' /\ FillingSince'
  BY <1>1 DEF UsedRecently, FillingSince
<1> QED
  BY <1>2, <1>3, <1>4, <1>5, <1>6

(* Nobody gets late, and what is not full has filled. *)
LEMMA TickInv ==
  ASSUME LocalInv, Tick
  PROVE  LocalInv'
<1> USE DEF LocalInv
<1>1. /\ UNCHANGED <<entry, lastSeen, pc, readAt, holds, due, sweep, used>>
      /\ now < MaxTime /\ now' = now + 1
      /\ \A r \in Requests : pc[r] \in {"get", "use"} => now - readAt[r] < MaxDelay
      /\ sweep # Never => now - sweep < MaxDelay
      /\ sweep = Never => now - due < MaxDelay
      /\ level' = [l \in Limiters |-> Filled(level[l])]
  BY DEF Tick, mapVars, requestVars, cleanupVars
<1>2. TypeOK'
  BY <1>1 DEF TypeOK, Filled
<1>3. Punctual'
  BY <1>1 DEF TypeOK, Punctual
<1>4. SeenRecently' /\ HeldRecently' /\ UsedRecently'
  BY <1>1 DEF TypeOK, SeenRecently, HeldRecently, UsedRecently
<1>5. FillingSince'
  <2> SUFFICES ASSUME entry # None, level'[entry] # Burst
               PROVE  level'[entry] >= Refill * (now' - used)
    BY <1>1 DEF FillingSince
  <2> DEFINE d == now - used
  <2>1. /\ d \in Int /\ now' - used = d + 1
        /\ entry \in Limiters
    BY <1>1 DEF TypeOK
  <2>2. level[entry] \in 0..Burst /\ level'[entry] = Filled(level[entry])
    BY <1>1, <2>1 DEF TypeOK
  <2>3. level[entry] = Burst \/ level[entry] >= Refill * d
    BY DEF FillingSince
  <2> HIDE DEF d
  <2>4. Refill * (d + 1) = Refill * d + Refill /\ Refill * d \in Int
    BY <2>1, FlowIsMonotonic
  <2>5. level'[entry] = level[entry] + Refill /\ level[entry] # Burst
    BY <2>2 DEF Filled
  <2>6. level'[entry] >= Refill * (d + 1)
    BY <2>2, <2>3, <2>4, <2>5
  <2> QED
    BY <2>1, <2>6
<1> QED
  BY <1>2, <1>3, <1>4, <1>5

LEMMA NextInv == LocalInv /\ [Next]_vars => LocalInv'
<1> SUFFICES ASSUME LocalInv, [Next]_vars
             PROVE  LocalInv'
  OBVIOUS
<1>1. CASE \E r \in Requests : ReadClock(r) \/ Get(r) \/ Use(r)
  BY <1>1, ReadClockInv, GetInv, UseInv
<1>2. CASE BeginSweep
  BY <1>2, BeginSweepInv
<1>3. CASE EndSweep
  BY <1>3, EndSweepInv
<1>4. CASE Tick
  BY <1>4, TickInv
<1>5. CASE UNCHANGED vars
  BY <1>5 DEF vars, mapVars, requestVars, cleanupVars, LocalInv, TypeOK, Punctual,
         SeenRecently, HeldRecently, UsedRecently, FillingSince
<1> QED
  BY <1>1, <1>2, <1>3, <1>4, <1>5 DEF Next

LEMMA SpecInv == Spec => []LocalInv
BY InitInv, NextInv, PTL DEF Spec

-----------------------------------------------------------------------------
(* Theorems *)

(* The limiter stays in its types: levels are within the burst, and there is a
   time stamp exactly if there is a bucket. *)
THEOREM LocalTypeCorrect == Spec => []TypeOK
<1>1. LocalInv => TypeOK
  BY DEF LocalInv
<1> QED
  BY <1>1, SpecInv, PTL

(* No request is left with a limiter that the cleanup has dropped. *)
THEOREM LocalHeldIsCurrent == Spec => []HeldIsCurrent
<1>1. LocalInv => HeldIsCurrent
  BY DEF LocalInv, HeldRecently, HeldIsCurrent
<1> QED
  BY <1>1, SpecInv, PTL

(* The bucket of an address that sends nothing is forgotten in time. *)
THEOREM LocalForgetsIdle == Spec => []ForgetsIdle
<1>1. LocalInv => ForgetsIdle
  BY DEF LocalInv, TypeOK, Punctual, SeenRecently, ForgetsIdle
<1> QED
  BY <1>1, SpecInv, PTL

-----------------------------------------------------------------------------
(* Refinement *)

(* What the client sees of the state. *)
Level == IF entry = None THEN Burst ELSE level[entry]
Verdict == [r \in Requests |->
              IF pc[r] \in {"allowed", "denied"} THEN pc[r] ELSE "none"]

(* Arriving and finding the bucket are at most a new question; a new bucket is
   as full as one that is not there. *)
LEMMA AskRefines ==
  ASSUME LocalInv, NEW r \in Requests, ReadClock(r) \/ Get(r)
  PROVE  Bucket!Ask(r)
<1> USE DEF LocalInv
<1>1. Verdict' = [Verdict EXCEPT ![r] = "none"]
  BY DEF Verdict, ReadClock, Get, TypeOK
<1>2. Level' = Level /\ now' = now /\ used' = used
  BY DEF Level, ReadClock, Get, mapVars, TypeOK
<1> QED
  BY <1>1, <1>2 DEF Bucket!Ask, Level, Verdict

(* A token comes from the bucket in the map. *)
LEMMA UseRefines ==
  ASSUME LocalInv, NEW r \in Requests, Use(r)
  PROVE  Bucket!Allow(r) \/ Bucket!Deny(r)
<1> USE DEF LocalInv
<1>1. /\ pc[r] = "use" /\ holds[r] = entry /\ entry \in Limiters /\ entry # None
      /\ entry' = entry /\ now' = now
      /\ Verdict[r] = "none"
  BY DEF Use, mapVars, HeldRecently, TypeOK, Verdict
<1>2. CASE /\ level[holds[r]] >= Cost
           /\ level' = [level EXCEPT ![holds[r]] = @ - Cost]
           /\ pc' = [pc EXCEPT ![r] = "allowed"]
           /\ used' = now
  <2>1. Level >= Cost /\ Level' = Level - Cost
    BY <1>1, <1>2 DEF Level, TypeOK
  <2>2. Verdict' = [Verdict EXCEPT ![r] = "allowed"]
    BY <1>2 DEF Verdict, TypeOK
  <2> QED
    BY <1>1, <1>2, <2>1, <2>2 DEF Bucket!Allow, Level, Verdict
<1>3. CASE /\ level[holds[r]] < Cost
           /\ pc' = [pc EXCEPT ![r] = "denied"]
           /\ UNCHANGED <<level, used>>
  <2>1. Level < Cost /\ Level' = Level
    BY <1>1, <1>3 DEF Level
  <2>2. Verdict' = [Verdict EXCEPT ![r] = "denied"]
    BY <1>3 DEF Verdict, TypeOK
  <2> QED
    BY <1>1, <1>3, <2>1, <2>2 DEF Bucket!Deny, Level, Verdict
<1> QED
  BY <1>2, <1>3 DEF Use

(* The cleanup is invisible where what it drops is full, and else forgets. *)
LEMMA SweepRefines ==
  ASSUME LocalInv, BeginSweep \/ EndSweep
  PROVE  /\ UNCHANGED Bucket!vars \/ Bucket!Forget
         /\ FillsWhileKept => UNCHANGED Bucket!vars
<1>1. Verdict' = Verdict /\ now' = now /\ used' = used
  BY DEF Verdict, BeginSweep, EndSweep, requestVars
<1>2. CASE BeginSweep \/ ~Expired
  <2>1. Level' = Level
    BY <1>2 DEF Level, BeginSweep, EndSweep, mapVars
  <2> QED
    BY <1>1, <2>1 DEF Bucket!vars, Level, Verdict
<1>3. CASE EndSweep /\ Expired
  <2>1. /\ Level' = Burst /\ now >= used + Kept
        /\ FillsWhileKept => Level = Burst
    BY <1>3, ExpiredIsIdle DEF Level, EndSweep
  <2> QED
    BY <1>1, <2>1 DEF Bucket!vars, Bucket!Forget, Level, Verdict
<1> QED
  BY <1>2, <1>3

(* A tick pours into the bucket, there or not. *)
LEMMA TickRefines ==
  ASSUME LocalInv, Tick
  PROVE  Bucket!Pour
<1>1. Verdict' = Verdict /\ now' = now + 1 /\ used' = used
  BY DEF Verdict, Tick, requestVars
<1>2. Level' = IF Level + Refill > Burst THEN Burst ELSE Level + Refill
  BY DEF Level, Tick, mapVars, Filled, LocalInv, TypeOK
<1> QED
  BY <1>1, <1>2 DEF Bucket!Pour, Level, Verdict

LEMMA NextRefines ==
  LocalInv /\ [Next]_vars =>
    /\ [Bucket!Next \/ Bucket!Forget]_(Bucket!vars)
    /\ FillsWhileKept => [Bucket!Next]_(Bucket!vars)
<1> SUFFICES ASSUME LocalInv, [Next]_vars
             PROVE  /\ [Bucket!Next \/ Bucket!Forget]_(Bucket!vars)
                    /\ FillsWhileKept => [Bucket!Next]_(Bucket!vars)
  OBVIOUS
<1>1. CASE \E r \in Requests : ReadClock(r) \/ Get(r) \/ Use(r)
  BY <1>1, AskRefines, UseRefines DEF Bucket!Next
<1>2. CASE BeginSweep \/ EndSweep
  BY <1>2, SweepRefines
<1>3. CASE Tick
  BY <1>3, TickRefines DEF Bucket!Next
<1>4. CASE UNCHANGED vars
  BY <1>4 DEF vars, mapVars, requestVars, Bucket!vars
<1> QED
  BY <1>1, <1>2, <1>3, <1>4 DEF Next

LEMMA InitRefines == Init => Bucket!Init
BY DEF Init, Bucket!Init

(* Whatever rate and burst are configured, the client sees one bucket that fills
   with the clock and may be filled up only when it was not used for as long as
   buckets are kept. *)
THEOREM LocalImplementsForgetful == Spec => ImplementsForgetfulBucket
<1>1. LocalInv /\ [Next]_vars => [Bucket!Next \/ Bucket!Forget]_(Bucket!vars)
  BY NextRefines
<1> QED
  BY <1>1, InitRefines, SpecInv, PTL DEF Spec, ImplementsForgetfulBucket, Bucket!ForgetfulSpec

(* If a bucket fills in the time it is kept, the client cannot tell the map and its
   cleanup from one bucket that is never dropped: what is dropped is full. *)
THEOREM LocalImplementsBucket ==
  ASSUME FillsWhileKept
  PROVE  Spec => ImplementsTokenBucket
<1>1. LocalInv /\ [Next]_vars => [Bucket!Next]_(Bucket!vars)
  BY NextRefines
<1> QED
  BY <1>1, InitRefines, SpecInv, PTL DEF Spec, ImplementsTokenBucket, Bucket!Spec

=============================================================================
