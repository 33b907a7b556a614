----------------------------- MODULE EdgeProofs -----------------------------
(***************************************************************************)
(* Proofs about Edge, for every number of backends and requests, both      *)
(* policies and every threshold: the type invariant with InflightExact     *)
(* (neither holds without the other: a count that were off could be taken  *)
(* below zero), and BreakerHolds.                                          *)
(***************************************************************************)
EXTENDS Edge, FiniteSetTheorems, TLAPS

(* The requests backend b is serving. *)
Serving(b) == {r \in Requests : at[r] = b}

EdgeInv == TypeOK /\ InflightExact /\ BreakerHolds

LEMMA ServingFinite ==
  ASSUME NEW b
  PROVE  IsFiniteSet(Serving(b))
<1>1. Serving(b) \subseteq Requests
  BY DEF Serving
<1> QED
  BY <1>1, FS_Subset, EdgeAssumption

LEMMA ThresholdIsNat == Threshold \in Nat /\ Threshold >= 1
  BY EdgeAssumption

LEMMA NoneIsNoBackend == None \notin Backends
  BY DEF None, Backends

LEMMA InitEdgeInv == Init => EdgeInv
<1> SUFFICES ASSUME Init PROVE EdgeInv
  OBVIOUS
<1>1. 0 \in Backends /\ 1 \in 1..RetryAttempts /\ MaxFaults \in 0..MaxFaults
  BY EdgeAssumption DEF Backends
<1>2. TypeOK
  BY <1>1, ThresholdIsNat DEF Init, TypeOK
<1>3. \A b \in Backends : Serving(b) = {}
  BY NoneIsNoBackend DEF Init, Serving
<1>4. InflightExact
  BY <1>3, FS_EmptySet DEF Init, InflightExact, Serving
<1>5. BreakerHolds
  BY ThresholdIsNat DEF Init, BreakerHolds
<1> QED
  BY <1>2, <1>4, <1>5 DEF EdgeInv

-----------------------------------------------------------------------------
(* The counts *)

(* A request that is at no backend is put at b. *)
LEMMA EnterCounts ==
  ASSUME TypeOK, InflightExact, NEW r \in Requests, NEW b \in Backends,
         at[r] = None, at' = [at EXCEPT ![r] = b],
         inflight' = [inflight EXCEPT ![b] = @ + 1]
  PROVE  InflightExact' /\ inflight' \in [Backends -> Nat]
<1>1. inflight \in [Backends -> Nat] /\ at \in [Requests -> Backends \cup {None}]
  BY DEF TypeOK
<1>2. inflight' \in [Backends -> Nat]
  BY <1>1
<1>3. ASSUME NEW c \in Backends
      PROVE  inflight'[c] = Cardinality(Serving(c)')
  <2>1. inflight[c] = Cardinality(Serving(c))
    BY DEF InflightExact, Serving
  <2>2. CASE c = b
    <3>1. r \notin Serving(b) /\ Serving(b)' = Serving(b) \cup {r}
      BY <1>1, NoneIsNoBackend DEF Serving
    <3>2. Cardinality(Serving(b) \cup {r}) = Cardinality(Serving(b)) + 1
      BY <3>1, ServingFinite, FS_AddElement
    <3> QED
      BY <1>1, <2>1, <2>2, <3>1, <3>2
  <2>3. CASE c # b
    <3>1. Serving(c)' = Serving(c)
      BY <1>1, <2>3, NoneIsNoBackend DEF Serving
    <3> QED
      BY <1>1, <2>1, <2>3, <3>1
  <2> QED
    BY <2>2, <2>3
<1> QED
  BY <1>2, <1>3 DEF InflightExact, Serving

(* A request leaves its backend: the count it gives back is its own. *)
LEMMA LeaveCounts ==
  ASSUME TypeOK, InflightExact, NEW r \in Requests, NEW b \in Backends,
         at[r] = b, at' = [at EXCEPT ![r] = None],
         inflight' = [inflight EXCEPT ![b] = @ - 1]
  PROVE  InflightExact' /\ inflight' \in [Backends -> Nat]
<1>1. inflight \in [Backends -> Nat] /\ at \in [Requests -> Backends \cup {None}]
  BY DEF TypeOK
<1>2. inflight'[b] = inflight[b] - 1
  BY <1>1
<1>3. r \in Serving(b) /\ Serving(b)' = Serving(b) \ {r}
  BY <1>1, NoneIsNoBackend DEF Serving
<1>4. IsFiniteSet(Serving(b)) /\ IsFiniteSet(Serving(b) \ {r})
  BY ServingFinite, FS_RemoveElement
<1>5. Cardinality(Serving(b) \ {r}) = Cardinality(Serving(b)) - 1
  BY <1>3, <1>4, FS_RemoveElement
<1>6. Cardinality(Serving(b) \ {r}) \in Nat
  BY <1>4, FS_CardinalityType
<1>7. ASSUME NEW c \in Backends
      PROVE  inflight'[c] = Cardinality(Serving(c)') /\ inflight'[c] \in Nat
  <2>1. inflight[c] = Cardinality(Serving(c))
    BY DEF InflightExact, Serving
  <2>2. CASE c = b
    BY <1>2, <1>3, <1>5, <1>6, <2>1, <2>2
  <2>3. CASE c # b
    <3>1. Serving(c)' = Serving(c)
      BY <1>1, <2>3, NoneIsNoBackend DEF Serving
    <3>2. inflight'[c] = inflight[c]
      BY <1>1, <2>3
    <3> QED
      BY <1>1, <2>1, <3>1, <3>2
  <2> QED
    BY <2>2, <2>3
<1>8. inflight' \in [Backends -> Nat]
  <2>1. inflight' = [c \in Backends |-> inflight'[c]]
    BY <1>1
  <2> QED
    BY <1>7, <2>1
<1> QED
  BY <1>7, <1>8 DEF InflightExact, Serving

-----------------------------------------------------------------------------
(* What is recorded of a backend *)

Recorded == <<healthy, failures, lastError, circuit>>

RecordedTypes ==
  /\ healthy \in [Backends -> BOOLEAN]
  /\ failures \in [Backends -> 0..Threshold]
  /\ lastError \in [Backends -> BOOLEAN]
  /\ circuit \in [Backends -> {"closed", "open", "expired"}]

(* A failure is counted, or trips the breaker. *)
LEMMA FailureRecorded ==
  ASSUME RecordedTypes, BreakerHolds, NEW b \in Backends,
         RecordFailure(b), probe' = probe
  PROVE  RecordedTypes' /\ BreakerHolds'
<1>1. /\ failures' \in [Backends -> 0..Threshold]
      /\ failures'[b] = IF failures[b] < Threshold THEN failures[b] + 1 ELSE failures[b]
      /\ \A c \in Backends : c # b => failures'[c] = failures[c]
  BY ThresholdIsNat DEF RecordFailure, RecordedTypes
<1>2. lastError' \in [Backends -> BOOLEAN]
  BY Zenon DEF RecordFailure, RecordedTypes
<1>3. CASE failures'[b] >= Threshold
  <2>1. /\ circuit' = [circuit EXCEPT ![b] = "open"]
        /\ healthy' = [healthy EXCEPT ![b] = FALSE]
    BY <1>3, Zenon DEF RecordFailure, Trip
  <2>2. RecordedTypes'
    BY <1>1, <1>2, <2>1 DEF RecordedTypes
  <2>3. BreakerHolds'
    BY <1>1, <2>1 DEF BreakerHolds, Recovering, RecordedTypes
  <2> QED
    BY <2>2, <2>3
<1>4. CASE ~(failures'[b] >= Threshold)
  <2>1. UNCHANGED <<circuit, healthy>>
    BY <1>4, Zenon DEF RecordFailure
  <2>2. RecordedTypes'
    BY <1>1, <1>2, <2>1 DEF RecordedTypes
  <2>3. failures'[b] < Threshold
    BY <1>1, <1>4, ThresholdIsNat
  <2>4. BreakerHolds'
    BY <1>1, <2>1, <2>3 DEF BreakerHolds, Recovering, RecordedTypes
  <2> QED
    BY <2>2, <2>4
<1> QED
  BY <1>3, <1>4

(* A success closes the circuit and forgets the failures with it. *)
LEMMA SuccessRecorded ==
  ASSUME RecordedTypes, BreakerHolds, NEW b \in Backends,
         RecordSuccess(b), probe' = probe
  PROVE  RecordedTypes' /\ BreakerHolds'
<1>1. RecordedTypes'
  BY ThresholdIsNat DEF RecordSuccess, RecordedTypes
<1>2. BreakerHolds'
  BY ThresholdIsNat DEF RecordSuccess, BreakerHolds, Recovering, RecordedTypes
<1> QED
  BY <1>1, <1>2

-----------------------------------------------------------------------------
(* The steps *)

RequestTypes ==
  /\ pc \in [Requests -> {"idle", "select", "fallback", "forward"} \cup Outcomes]
  /\ attempts \in [Requests -> 1..RetryAttempts]
  /\ excluded \in [Requests -> SUBSET Backends]
  /\ at \in [Requests -> Backends \cup {None}]
  /\ \A r \in Requests : at[r] = None <=> pc[r] \in {"idle", "select", "fallback"}

OtherTypes ==
  /\ counter \in Backends
  /\ probe \in [Backends -> {"idle", "asking", "up", "down"}]
  /\ up \in [Backends -> BOOLEAN]
  /\ faults \in 0..MaxFaults

CountTypes == inflight \in [Backends -> Nat]

LEMMA TypesInParts ==
  TypeOK <=> RecordedTypes /\ RequestTypes /\ OtherTypes /\ CountTypes
  BY DEF TypeOK, RecordedTypes, RequestTypes, OtherTypes, CountTypes

LEMMA TypesInPartsNext ==
  TypeOK' <=> RecordedTypes' /\ RequestTypes' /\ OtherTypes' /\ CountTypes'
  BY DEF TypeOK, RecordedTypes, RequestTypes, OtherTypes, CountTypes

LEMMA FaultType ==
  ASSUME OtherTypes, Fault
  PROVE  faults' \in 0..MaxFaults
  BY EdgeAssumption DEF OtherTypes, Fault

LEMMA AnswerTypes ==
  ASSUME RequestTypes, NEW r \in Requests, AnswerClient(r)
  PROVE  RequestTypes'
<1>1. 1 \in 1..RetryAttempts
  BY EdgeAssumption
<1> QED
  BY <1>1 DEF RequestTypes, AnswerClient

LEMMA ArriveStep ==
  ASSUME EdgeInv, NEW r \in Requests, Arrive(r)
  PROVE  EdgeInv'
<1> USE DEF EdgeInv
<1>1. RequestTypes'
  <2>1. PICK n \in {1, RetryAttempts} : attempts' = [attempts EXCEPT ![r] = n]
    BY DEF Arrive
  <2>2. n \in 1..RetryAttempts
    BY EdgeAssumption
  <2> QED
    BY <2>1, <2>2, TypesInParts DEF Arrive, RequestTypes
<1>2. RecordedTypes' /\ OtherTypes' /\ CountTypes'
  BY TypesInParts DEF Arrive, backendVars, RecordedTypes, OtherTypes, CountTypes
<1>3. InflightExact'
  BY DEF Arrive, backendVars, InflightExact
<1>4. BreakerHolds'
  BY DEF Arrive, backendVars, BreakerHolds, Recovering
<1> QED
  BY <1>1, <1>2, <1>3, <1>4, TypesInPartsNext

LEMMA SelectStep ==
  ASSUME EdgeInv, NEW r \in Requests, Select(r)
  PROVE  EdgeInv'
<1> USE DEF EdgeInv
<1> DEFINE start == IF (Policy = "round_robin") <=> pc[r] = "select"
                    THEN (counter + 1) % N ELSE counter
           choice == IF (Policy = "round_robin") <=> pc[r] = "select"
                     THEN RoundRobin(r, start) ELSE LeastConn(r)
<1>1. counter' = start /\ UNCHANGED <<probe, up, faults>>
  BY Zenon DEF Select
<1>2. pc[r] \in {"select", "fallback"} /\ at[r] = None
  BY TypesInParts DEF Select, RequestTypes
<1>3. choice \subseteq Backends
  BY DEF RoundRobin, LeastConn, Candidates
<1>4. \/ \E b \in choice : Forward(r, b)
      \/ pc' = [pc EXCEPT ![r] = "fallback"] /\ UNCHANGED <<backendVars, attempts, excluded, at>>
      \/ GiveUp(r) /\ UNCHANGED backendVars
  BY Zenon DEF Select
<1>5. start \in Backends
  BY TypesInParts, EdgeAssumption DEF OtherTypes, Backends
<1>6. OtherTypes'
  BY <1>1, <1>5, TypesInParts DEF OtherTypes
<1>7. CASE \E b \in choice : Forward(r, b)
  <2>1. PICK b \in Backends : Forward(r, b)
    BY <1>3, <1>7, Zenon
  <2>2. UNCHANGED Recorded
    BY <2>1 DEF Forward, Recorded
  <2>3. RecordedTypes' /\ BreakerHolds'
    BY <1>1, <2>2, TypesInParts DEF Recorded, RecordedTypes, BreakerHolds, Recovering
  <2>4. RequestTypes'
    BY <2>1, TypesInParts, NoneIsNoBackend DEF Forward, RequestTypes
  <2>5. InflightExact' /\ CountTypes'
    BY <1>2, <2>1, EnterCounts DEF Forward, CountTypes
  <2> QED
    BY <1>6, <2>3, <2>4, <2>5, TypesInPartsNext
<1>8. CASE pc' = [pc EXCEPT ![r] = "fallback"] /\ UNCHANGED <<backendVars, attempts, excluded, at>>
  <2>1. RecordedTypes' /\ CountTypes' /\ BreakerHolds' /\ InflightExact'
    BY <1>1, <1>8, TypesInParts
    DEF backendVars, RecordedTypes, CountTypes, BreakerHolds, Recovering, InflightExact
  <2>2. RequestTypes'
    BY <1>2, <1>8, TypesInParts DEF RequestTypes
  <2> QED
    BY <1>6, <2>1, <2>2, TypesInPartsNext
<1>9. CASE GiveUp(r) /\ UNCHANGED backendVars
  <2>1. at' = at
    BY <1>2, <1>9, TypesInParts DEF GiveUp, AnswerClient, RequestTypes
  <2>2. RecordedTypes' /\ CountTypes' /\ BreakerHolds' /\ InflightExact'
    BY <1>1, <1>9, <2>1, TypesInParts
    DEF backendVars, RecordedTypes, CountTypes, BreakerHolds, Recovering, InflightExact
  <2>3. RequestTypes'
    BY <1>9, TypesInParts, AnswerTypes DEF GiveUp
  <2> QED
    BY <1>6, <2>2, <2>3, TypesInPartsNext
<1> QED
  BY <1>4, <1>7, <1>8, <1>9

LEMMA UpstreamStep ==
  ASSUME EdgeInv, NEW r \in Requests, Upstream(r)
  PROVE  EdgeInv'
<1> USE DEF EdgeInv
<1>1. PICK o \in Outcomes : pc' = [pc EXCEPT ![r] = o]
  BY DEF Upstream, Outcomes
<1>2. pc[r] = "forward" /\ UNCHANGED <<backendVars, counter, attempts, excluded, at, probe, up>>
  BY DEF Upstream
<1>3. faults' \in 0..MaxFaults
  BY TypesInParts, FaultType DEF Upstream, OtherTypes
<1>4. RequestTypes'
  BY <1>1, <1>2, TypesInParts DEF RequestTypes, Outcomes
<1>5. RecordedTypes' /\ OtherTypes' /\ CountTypes' /\ BreakerHolds' /\ InflightExact'
  BY <1>2, <1>3, TypesInParts
  DEF backendVars, RecordedTypes, OtherTypes, CountTypes, BreakerHolds, Recovering, InflightExact
<1> QED
  BY <1>4, <1>5, TypesInPartsNext

LEMMA FinishStep ==
  ASSUME EdgeInv, NEW r \in Requests, Finish(r)
  PROVE  EdgeInv'
<1> USE DEF EdgeInv
<1>1. pc[r] \in Outcomes /\ Leave(r) /\ UNCHANGED <<counter, probe, up, faults>>
  BY DEF Finish
<1>2. RecordSuccess(at[r]) \/ RecordFailure(at[r])
  BY Zenon DEF Finish
<1>3. TryNext(r) \/ AnswerClient(r)
  BY Zenon DEF Finish
<1>4. at[r] \in Backends
  BY <1>1, TypesInParts DEF RequestTypes, Outcomes
<1>5. at' = [at EXCEPT ![r] = None]
  BY <1>3 DEF TryNext, AnswerClient
<1>6. OtherTypes'
  BY <1>1, TypesInParts DEF OtherTypes
<1>7. RecordedTypes' /\ BreakerHolds'
  BY <1>1, <1>2, <1>4, TypesInParts, FailureRecorded, SuccessRecorded
<1>8. InflightExact' /\ CountTypes'
  BY <1>1, <1>4, <1>5, LeaveCounts DEF Leave, CountTypes
<1>9. RequestTypes'
  <2>1. CASE TryNext(r)
    BY <2>1, TypesInParts DEF TryNext, RequestTypes
  <2>2. CASE AnswerClient(r)
    BY <2>2, TypesInParts, AnswerTypes
  <2> QED
    BY <1>3, <2>1, <2>2
<1> QED
  BY <1>6, <1>7, <1>8, <1>9, TypesInPartsNext

(* The health loop, the clock and the environment touch no request. *)
LEMMA ProbeStep ==
  ASSUME EdgeInv, NEW b \in Backends,
         SetHealthFlag(b) \/ SetHealthRest(b) \/ Toggle(b) \/ Expire(b) \/ StartRound
  PROVE  EdgeInv'
<1> USE DEF EdgeInv
<1>1. UNCHANGED <<requestVars, inflight, counter>>
  BY DEF SetHealthFlag, SetHealthRest, Toggle, Expire, StartRound, backendVars
<1>2. RequestTypes' /\ CountTypes' /\ InflightExact'
  BY <1>1, TypesInParts DEF requestVars, RequestTypes, CountTypes, InflightExact
<1>3. CASE SetHealthFlag(b)
  <2>1. RecordedTypes' /\ OtherTypes'
    BY <1>3, TypesInParts DEF SetHealthFlag, Probed, RecordedTypes, OtherTypes
  <2>2. BreakerHolds'
    BY <1>3, TypesInParts
    DEF SetHealthFlag, Probed, BreakerHolds, Recovering, RecordedTypes, OtherTypes
  <2> QED
    BY <1>2, <2>1, <2>2, TypesInPartsNext
<1>4. CASE SetHealthRest(b)
  <2>1. RecordedTypes' /\ OtherTypes'
    BY <1>4, TypesInParts, ThresholdIsNat DEF SetHealthRest, RecordedTypes, OtherTypes
  <2>2. BreakerHolds'
    BY <1>4, TypesInParts, ThresholdIsNat
    DEF SetHealthRest, BreakerHolds, Recovering, RecordedTypes, OtherTypes
  <2> QED
    BY <1>2, <2>1, <2>2, TypesInPartsNext
<1>5. CASE Toggle(b)
  <2>1. RecordedTypes' /\ OtherTypes' /\ BreakerHolds'
    BY <1>5, TypesInParts
    DEF Toggle, backendVars, RecordedTypes, OtherTypes, BreakerHolds, Recovering
  <2> QED
    BY <1>2, <2>1, TypesInPartsNext
<1>6. CASE Expire(b)
  <2>1. RecordedTypes' /\ OtherTypes' /\ BreakerHolds'
    BY <1>6, TypesInParts DEF Expire, RecordedTypes, OtherTypes, BreakerHolds, Recovering
  <2> QED
    BY <1>2, <2>1, TypesInPartsNext
<1>7. CASE StartRound
  <2>1. RecordedTypes' /\ OtherTypes' /\ BreakerHolds'
    BY <1>7, TypesInParts
    DEF StartRound, backendVars, RecordedTypes, OtherTypes, BreakerHolds, Recovering
  <2> QED
    BY <1>2, <2>1, TypesInPartsNext
<1> QED
  BY <1>3, <1>4, <1>5, <1>6, <1>7

LEMMA NextEdgeInv == EdgeInv /\ [Next]_vars => EdgeInv'
<1> SUFFICES ASSUME EdgeInv, [Next]_vars PROVE EdgeInv'
  OBVIOUS
<1>1. ASSUME NEW r \in Requests, Arrive(r) \/ Select(r) \/ Upstream(r) \/ Finish(r)
      PROVE  EdgeInv'
  BY <1>1, ArriveStep, SelectStep, UpstreamStep, FinishStep
<1>2. ASSUME NEW b \in Backends,
             SetHealthFlag(b) \/ SetHealthRest(b) \/ Toggle(b) \/ Expire(b)
      PROVE  EdgeInv'
  BY <1>2, ProbeStep
<1>3. CASE StartRound
  <2>1. 0 \in Backends
    BY EdgeAssumption DEF Backends
  <2> QED
    BY <1>3, <2>1, ProbeStep
<1>4. CASE UNCHANGED vars
  BY <1>4 DEF vars, backendVars, requestVars, EdgeInv, TypeOK, InflightExact,
              BreakerHolds, Recovering
<1> QED
  BY <1>1, <1>2, <1>3, <1>4, Zenon DEF Next

LEMMA SpecEdgeInv == Spec => []EdgeInv
  BY InitEdgeInv, NextEdgeInv, PTL DEF Spec

-----------------------------------------------------------------------------
(* The theorems *)

(* Type correctness: in particular no backend's in-flight count is ever below
   zero, and a request is at a backend exactly while it is being forwarded. *)
THEOREM EdgeTypeCorrect == Spec => []TypeOK
<1>1. EdgeInv => TypeOK
  BY DEF EdgeInv
<1> QED
  BY <1>1, SpecEdgeInv, PTL

(* However requests, probes and failures interleave, the in-flight count that
   least_conn reads is the number of requests at the backend. *)
THEOREM EdgeInflightExact == Spec => []InflightExact
<1>1. EdgeInv => InflightExact
  BY DEF EdgeInv
<1> QED
  BY <1>1, SpecEdgeInv, PTL

(* The passive breaker holds whatever late outcomes arrive: a backend whose
   failures reached the threshold is out until a success or a good probe. *)
THEOREM EdgeBreakerHolds == Spec => []BreakerHolds
<1>1. EdgeInv => BreakerHolds
  BY DEF EdgeInv
<1> QED
  BY <1>1, SpecEdgeInv, PTL

-----------------------------------------------------------------------------
(* Retries *)

(* A request that is to be given to one more backend has an attempt left. *)
AttemptLeft(r) ==
  /\ Cardinality(excluded[r]) <= attempts[r]
  /\ pc[r] \in {"select", "fallback"} => Cardinality(excluded[r]) < attempts[r]
  /\ pc[r] = "idle" => excluded[r] = {}

SentInv == \A r \in Requests : AttemptLeft(r)

LEMMA ExcludedFinite ==
  ASSUME TypeOK, NEW r \in Requests
  PROVE  /\ IsFiniteSet(excluded[r]) /\ Cardinality(excluded[r]) \in Nat
         /\ attempts[r] \in Nat \ {0}
<1>1. IsFiniteSet(Backends)
  BY EdgeAssumption, FS_Interval DEF Backends
<1>2. excluded[r] \subseteq Backends /\ attempts[r] \in 1..RetryAttempts
  BY DEF TypeOK
<1> QED
  BY <1>1, <1>2, FS_Subset, FS_CardinalityType, EdgeAssumption

(* Only the request that takes a step is disturbed by it. *)
LEMMA SentOthers ==
  ASSUME SentInv, NEW r \in Requests, AttemptLeft(r)',
         \A q \in Requests \ {r} :
           pc'[q] = pc[q] /\ excluded'[q] = excluded[q] /\ attempts'[q] = attempts[q]
  PROVE  SentInv'
<1> SUFFICES ASSUME NEW q \in Requests PROVE AttemptLeft(q)'
  BY DEF SentInv
<1>1. CASE q = r
  BY <1>1
<1>2. CASE q # r
  BY <1>2 DEF SentInv, AttemptLeft
<1> QED
  BY <1>1, <1>2

(* A request that has been answered starts anew. *)
LEMMA AnsweredSent ==
  ASSUME TypeOK, SentInv, NEW r \in Requests, AnswerClient(r)
  PROVE  SentInv'
<1>1. excluded'[r] = {} /\ attempts'[r] = 1 /\ pc'[r] = "idle"
  BY DEF AnswerClient, TypeOK
<1>2. AttemptLeft(r)'
  BY <1>1, FS_EmptySet DEF AttemptLeft
<1> QED
  BY <1>2, SentOthers DEF AnswerClient, TypeOK

LEMMA SelectSent ==
  ASSUME TypeOK, SentInv, NEW r \in Requests, Select(r)
  PROVE  SentInv'
<1>1. pc[r] \in {"select", "fallback"}
  BY DEF Select
<1>2. /\ IsFiniteSet(excluded[r]) /\ Cardinality(excluded[r]) \in Nat
      /\ attempts[r] \in Nat /\ Cardinality(excluded[r]) < attempts[r]
  BY <1>1, ExcludedFinite DEF SentInv, AttemptLeft
<1>3. \/ \E b : Forward(r, b)
      \/ pc' = [pc EXCEPT ![r] = "fallback"] /\ UNCHANGED <<attempts, excluded>>
      \/ AnswerClient(r)
  BY Zenon DEF Select, GiveUp
<1>4. ASSUME NEW b, Forward(r, b)
      PROVE  SentInv'
  <2>1. Cardinality(excluded[r] \cup {b}) <= Cardinality(excluded[r]) + 1
    BY <1>2, FS_AddElement
  <2>2. IsFiniteSet(excluded[r] \cup {b}) /\ Cardinality(excluded[r] \cup {b}) \in Nat
    BY <1>2, FS_AddElement, FS_CardinalityType
  <2>3. excluded'[r] = excluded[r] \cup {b} /\ attempts' = attempts /\ pc'[r] = "forward"
    BY <1>4 DEF Forward, TypeOK
  <2>4. AttemptLeft(r)'
    BY <1>2, <2>1, <2>2, <2>3 DEF AttemptLeft
  <2> QED
    BY <1>4, <2>4, SentOthers DEF Forward, TypeOK
<1>5. CASE pc' = [pc EXCEPT ![r] = "fallback"] /\ UNCHANGED <<attempts, excluded>>
  <2>1. AttemptLeft(r)'
    BY <1>2, <1>5 DEF AttemptLeft, TypeOK
  <2> QED
    BY <1>5, <2>1, SentOthers DEF TypeOK
<1>6. CASE AnswerClient(r)
  BY <1>6, AnsweredSent
<1> QED
  BY <1>3, <1>4, <1>5, <1>6

LEMMA FinishSent ==
  ASSUME TypeOK, SentInv, NEW r \in Requests, Finish(r)
  PROVE  SentInv'
<1>1. \/ AllowRetry(r) /\ TryNext(r)
      \/ AnswerClient(r)
  BY Zenon DEF Finish
<1>2. CASE AllowRetry(r) /\ TryNext(r)
  <2>1. AttemptLeft(r)'
    BY <1>2, ExcludedFinite DEF AllowRetry, TryNext, AttemptLeft, TypeOK
  <2> QED
    BY <1>2, <2>1, SentOthers DEF TryNext, TypeOK
<1>3. CASE AnswerClient(r)
  BY <1>3, AnsweredSent
<1> QED
  BY <1>1, <1>2, <1>3

LEMMA NextSent == TypeOK /\ SentInv /\ [Next]_vars => SentInv'
<1> SUFFICES ASSUME TypeOK, SentInv, [Next]_vars
             PROVE  SentInv'
  OBVIOUS
<1>1. ASSUME UNCHANGED <<pc, excluded, attempts>>
      PROVE  SentInv'
  BY <1>1 DEF SentInv, AttemptLeft
<1>2. ASSUME NEW r \in Requests, Arrive(r)
      PROVE  SentInv'
  <2>1. PICK n \in {1, RetryAttempts} : attempts' = [attempts EXCEPT ![r] = n]
    BY <1>2 DEF Arrive
  <2>2. attempts'[r] = n /\ n \in Nat \ {0}
    BY <2>1, EdgeAssumption DEF TypeOK
  <2>3. excluded'[r] = {} /\ pc'[r] = "select"
    BY <1>2 DEF Arrive, SentInv, AttemptLeft, TypeOK
  <2>4. AttemptLeft(r)'
    BY <2>2, <2>3, FS_EmptySet DEF AttemptLeft
  <2> QED
    BY <1>2, <2>1, <2>4, SentOthers DEF Arrive, TypeOK
<1>3. ASSUME NEW r \in Requests, Upstream(r)
      PROVE  SentInv'
  <2>1. PICK o \in Outcomes : pc' = [pc EXCEPT ![r] = o]
    BY <1>3 DEF Upstream, Outcomes
  <2>2. UNCHANGED <<attempts, excluded>>
    BY <1>3 DEF Upstream
  <2>3. AttemptLeft(r)'
    BY <2>1, <2>2 DEF AttemptLeft, SentInv, TypeOK, Outcomes
  <2> QED
    BY <2>1, <2>2, <2>3, SentOthers DEF TypeOK
<1>4. ASSUME NEW r \in Requests, Select(r) \/ Finish(r)
      PROVE  SentInv'
  BY <1>4, SelectSent, FinishSent
<1>5. CASE UNCHANGED vars
  BY <1>1, <1>5 DEF vars, requestVars
<1>6. ASSUME NEW b \in Backends,
             SetHealthFlag(b) \/ SetHealthRest(b) \/ Toggle(b) \/ Expire(b)
      PROVE  SentInv'
  BY <1>1, <1>6 DEF SetHealthFlag, SetHealthRest, Toggle, Expire, requestVars
<1>7. CASE StartRound
  BY <1>1, <1>7 DEF StartRound, requestVars
<1> QED
  BY <1>2, <1>3, <1>4, <1>5, <1>6, <1>7, Zenon DEF Next

(* A request that may not be repeated reaches one backend, and no request more
   than it has attempts, whatever is selected, fails and is retried meanwhile. *)
THEOREM EdgeSentWithinAttempts == Spec => []SentWithinAttempts
<1>1. Init => SentInv
  <2> SUFFICES ASSUME Init, NEW r \in Requests PROVE AttemptLeft(r)
    BY DEF SentInv
  <2>1. excluded[r] = {} /\ attempts[r] = 1 /\ pc[r] = "idle"
    BY DEF Init
  <2> QED
    BY <2>1, FS_EmptySet DEF AttemptLeft
<1>2. SentInv => SentWithinAttempts
  BY DEF SentInv, AttemptLeft, SentWithinAttempts
<1> QED
  BY <1>1, <1>2, NextSent, EdgeTypeCorrect, PTL DEF Spec

=============================================================================
