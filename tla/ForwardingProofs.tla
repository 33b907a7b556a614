-------------------------- MODULE ForwardingProofs --------------------------
(***************************************************************************)
(* Proofs about Forwarding, for all numbers of backends, requests and      *)
(* attempts: its types, what becomes of bodies and answers, whom failures  *)
(* are charged to, and that the metrics add up.  What a request is and     *)
(* what has become of it is one invariant per request; a step changes one  *)
(* request, and the counters are followed through it.                      *)
(***************************************************************************)
EXTENDS Forwarding, FiniteSetTheorems, TLAPS

(* A request has backends left to try while it is about to select one, and was
   never given more than it may try. *)
AttemptsKept(r) ==
  /\ pc[r] = "idle" => tried[r] = {}
  /\ Cardinality(tried[r]) <= Attempts(r)
  /\ pc[r] = "select" => AllowRetry(r)

(* What is left of a body tells what the backends have got: all of it is left only
   while none got it whole, its end only after one got it, and it is closed only
   after an attempt. *)
BodyTracked(r) ==
  /\ pc[r] = "idle" => left[r] = "eof" /\ req[r] = NoKind
  /\ req[r].body = "none" => left[r] = "eof"
  /\ \A b \in Backends : got[r][b] # "no" => b \in tried[r]
  /\ pc[r] = "forward" => \A b \in at[r] : got[r][b] = "no"
  /\ left[r] = "whole" => \A b \in Backends : got[r][b] # "whole"
  /\ left[r] = "eof" /\ req[r].body # "none" => \E b \in Backends : got[r][b] # "no"
  /\ left[r] = "closed" => tried[r] # {}
  /\ pc[r] = "forward" /\ left[r] = "closed" => Cardinality(tried[r]) > 1

(* A body got whole by one backend only, and an empty one only after another's. *)
BodyShared(r) ==
  /\ \A b, c \in Backends : got[r][b] = "whole" /\ got[r][c] = "whole" => b = c
  /\ \A b \in Backends : got[r][b] = "empty" =>
       req[r].body = "chunked" /\ \E c \in Backends \ {b} : got[r][c] # "no"

(* What an attempt is like at each point of forwardOnce. *)
AttemptJudged(r) ==
  /\ pc[r] \in {"idle", "select", "forward"} =>
       answer[r] = "none" /\ result[r] # "build"
  /\ pc[r] = "count" => answer[r] \in {"passed", "truncated"} /\ result[r] \in Statuses
  /\ pc[r] \in {"charge", "leave"} =>
       /\ result[r] \in Results
       /\ answer[r] # "none" => result[r] \in Statuses /\ answer[r] # "own"
       /\ answer[r] = "none" /\ result[r] \in Statuses =>
            result[r] = "503" /\ AllowRetry(r)
  /\ pc[r] = "charge" /\ result[r] \in Statuses => result[r] \in {"500", "503"}
  /\ pc[r] \in {"count", "charge"} /\ result[r] \in {"500", "503"} => guilty[r]

(* AnswerHonest of a request, and the answers it has heard so far. *)
Answered(r) ==
  /\ pc[r] = "done" => answer[r] # "none"
  /\ pc[r] = "cut" => mode = "exited"
  /\ answer[r] \in {"none", "own"} => heard[r] \subseteq {"503"}
  /\ answer[r] = "own" /\ result[r] = "503" => AllowRetry(r)

(* ChargedJustly of a request, and of the charge that is coming.  Before b is given
   the request only a client that has gone excuses a charge of b. *)
Charged(r) ==
  /\ wronged[r] \subseteq tried[r]
  /\ \A b \in wronged[r] : Excused(r, b)
  /\ pc[r] = "charge" /\ ~guilty[r] => \A b \in at[r] : Excused(r, b)

RequestInv(r) ==
  /\ AttemptsKept(r) /\ BodyTracked(r) /\ BodyShared(r)
  /\ AttemptJudged(r) /\ Answered(r) /\ Charged(r)

RequestsInv == \A r \in Requests : RequestInv(r)

-----------------------------------------------------------------------------
(* Sets of backends *)

LEMMA TriedFinite ==
  ASSUME NEW S \in SUBSET Backends
  PROVE  IsFiniteSet(S) /\ Cardinality(S) \in Nat
  BY FS_Subset, FS_CardinalityType, ForwardingAssumption

LEMMA TriedAnother ==
  ASSUME NEW S \in SUBSET Backends, NEW b \in Backends \ S
  PROVE  Cardinality(S \cup {b}) = Cardinality(S) + 1
  BY TriedFinite, FS_AddElement

LEMMA SmallerThanSet ==
  ASSUME NEW S \in SUBSET Backends, NEW T \in SUBSET S
  PROVE  Cardinality(T) <= Cardinality(S)
  BY TriedFinite, FS_Subset

LEMMA AtMostOne ==
  ASSUME NEW S \in SUBSET Backends, \A b, c \in S : b = c
  PROVE  Cardinality(S) <= 1
<1>1. CASE S = {}
  BY <1>1, FS_EmptySet
<1>2. CASE S # {}
  <2> PICK b \in S : TRUE
    BY <1>2
  <2>1. S = {b}
    OBVIOUS
  <2> QED
    BY <2>1, FS_Singleton
<1> QED
  BY <1>1, <1>2

(* A request that may be repeated has no body, or one in chunks. *)
LEMMA AttemptsPositive ==
  ASSUME TypeOK, NEW r \in Requests
  PROVE  /\ Attempts(r) \in Nat /\ Attempts(r) >= 1
         /\ req[r].body \in Bodies
         /\ Attempts(r) > 1 => Idempotent(req[r].method) /\ req[r].body \in {"none", "chunked"}
<1>1. req[r] \in Kinds \cup {NoKind}
  BY DEF TypeOK
<1>2. req[r].body \in Bodies
  BY <1>1, ForwardingAssumption DEF NoKind, Bodies
<1> QED
  BY <1>2, ForwardingAssumption DEF Attempts, CanRetry, Bodies

-----------------------------------------------------------------------------
(* A step changes one request. *)

RequestOf(r) ==
  <<pc[r], req[r], left[r], tried[r], at[r], result[r], guilty[r], gone[r],
    answer[r], got[r], heard[r], wronged[r]>>

LEMMA OthersKept ==
  ASSUME NEW r \in Requests, UNCHANGED RequestOf(r), RequestInv(r),
         mode = "exited" => mode' = "exited"
  PROVE  RequestInv(r)'
BY DEF RequestOf, RequestInv, AttemptsKept, BodyTracked, BodyShared, AttemptJudged,
       Answered, Charged, Excused, AllowRetry, Attempts, CanRetry

LEMMA OneChanges ==
  ASSUME RequestsInv, NEW r \in Requests, RequestInv(r)',
         \A q \in Requests \ {r} : UNCHANGED RequestOf(q),
         mode = "exited" => mode' = "exited"
  PROVE  RequestsInv'
BY OthersKept DEF RequestsInv

LEMMA InitRequests == Init => TypeOK /\ RequestsInv
<1> SUFFICES ASSUME Init PROVE TypeOK /\ RequestsInv
  OBVIOUS
<1>1. TypeOK
  BY DEF Init, TypeOK
<1>2. ASSUME NEW r \in Requests PROVE RequestInv(r)
  <2>1. tried[r] = {} /\ Cardinality({}) = 0
    BY FS_EmptySet DEF Init
  <2>2. Attempts(r) \in Nat /\ Attempts(r) >= 1
    BY <1>1, AttemptsPositive
  <2>3. AttemptsKept(r)
    BY <2>1, <2>2 DEF Init, AttemptsKept
  <2>4. BodyTracked(r) /\ BodyShared(r)
    BY DEF Init, BodyTracked, BodyShared, NoKind
  <2>5. AttemptJudged(r) /\ Answered(r) /\ Charged(r)
    BY DEF Init, AttemptJudged, Answered, Charged
  <2> QED
    BY <2>3, <2>4, <2>5 DEF RequestInv
<1> QED
  BY <1>1, <1>2 DEF RequestsInv

LEMMA AcceptStep ==
  ASSUME TypeOK, RequestsInv, NEW r \in Requests, Accept(r)
  PROVE  TypeOK' /\ RequestsInv'
<1>0. RequestInv(r) /\ pc[r] = "idle"
  BY DEF RequestsInv, Accept
<1>1. PICK k \in Kinds : /\ req' = [req EXCEPT ![r] = k]
                         /\ left' = [left EXCEPT ![r] = IF k.body = "none" THEN "eof" ELSE "whole"]
  BY DEF Accept
<1>2. TypeOK'
  BY <1>1 DEF Accept, TypeOK, metricVars
<1>3. \A q \in Requests \ {r} : UNCHANGED RequestOf(q)
  BY <1>1 DEF Accept, TypeOK, RequestOf
<1>4. /\ pc'[r] = "select" /\ req'[r] = k /\ tried[r] = {}
      /\ left'[r] = IF k.body = "none" THEN "eof" ELSE "whole"
      /\ UNCHANGED <<mode, tried, at, result, guilty, gone, answer, got, heard, wronged>>
  BY <1>0, <1>1 DEF Accept, TypeOK, RequestInv, AttemptsKept
<1>5. AttemptsKept(r)'
  <2>1. Attempts(r)' >= 1 /\ Attempts(r)' \in Nat
    BY <1>2, AttemptsPositive, ForwardingAssumption DEF Attempts
  <2> QED
    BY <1>4, <2>1, FS_EmptySet DEF AttemptsKept, AllowRetry
<1>6. \A b \in Backends : got[r][b] = "no"
  BY <1>0, <1>4 DEF RequestInv, BodyTracked
<1>7. BodyTracked(r)' /\ BodyShared(r)'
  BY <1>4, <1>6 DEF BodyTracked, BodyShared
<1>8. AttemptJudged(r)' /\ Answered(r)'
  BY <1>0, <1>4 DEF RequestInv, AttemptJudged, Answered
<1>9. Charged(r)'
  <2>1. wronged[r] = {}
    BY <1>0, <1>4 DEF RequestInv, Charged
  <2> QED
    BY <1>4, <2>1 DEF Charged
<1> QED
  BY <1>2, <1>3, <1>4, <1>5, <1>7, <1>8, <1>9, OneChanges DEF RequestInv

LEMMA SelectStep ==
  ASSUME TypeOK, RequestsInv, NEW r \in Requests, Select(r)
  PROVE  TypeOK' /\ RequestsInv'
<1>0. RequestInv(r) /\ pc[r] = "select"
  BY DEF RequestsInv, Select
<1>1. /\ UNCHANGED <<mode, req, left, result, guilty, gone, got, heard, wronged, metricVars>>
      /\ tried[r] \in SUBSET Backends /\ at[r] = {}
  BY <1>0 DEF Select, TypeOK
<1>2. CASE \E b \in Backends \ tried[r] :
             /\ tried' = [tried EXCEPT ![r] = @ \cup {b}]
             /\ at' = [at EXCEPT ![r] = {b}]
             /\ pc' = [pc EXCEPT ![r] = "forward"]
             /\ UNCHANGED answer
  <2> PICK b \in Backends \ tried[r] :
             /\ tried' = [tried EXCEPT ![r] = tried[r] \cup {b}]
             /\ at' = [at EXCEPT ![r] = {b}]
             /\ pc' = [pc EXCEPT ![r] = "forward"]
             /\ UNCHANGED answer
    BY <1>2
  <2>1. TypeOK'
    BY <1>1 DEF TypeOK, metricVars
  <2>2. \A q \in Requests \ {r} : UNCHANGED RequestOf(q)
    BY <1>1 DEF TypeOK, RequestOf
  <2>3. /\ pc'[r] = "forward" /\ at'[r] = {b} /\ tried'[r] = tried[r] \cup {b}
        /\ Cardinality(tried'[r]) = Cardinality(tried[r]) + 1
        /\ Cardinality(tried[r]) \in Nat
    BY <1>1, TriedAnother, TriedFinite DEF TypeOK
  <2>4. Attempts(r)' = Attempts(r) /\ Attempts(r) \in Nat
    BY <1>1, AttemptsPositive DEF Attempts
  <2>5. AttemptsKept(r)'
    BY <1>0, <2>3, <2>4 DEF RequestInv, AttemptsKept, AllowRetry
  <2>6. left[r] = "closed" => Cardinality(tried[r]) >= 1
    <3>1. left[r] = "closed" => tried[r] # {}
      BY <1>0 DEF RequestInv, BodyTracked
    <3>2. tried[r] # {} => Cardinality(tried[r]) # 0
      BY <1>1, TriedFinite, FS_EmptySet
    <3> QED
      BY <2>3, <3>1, <3>2
  <2>7. BodyTracked(r)' /\ BodyShared(r)'
    BY <1>0, <1>1, <2>3, <2>6 DEF RequestInv, BodyTracked, BodyShared
  <2>8. AttemptJudged(r)' /\ Answered(r)'
    BY <1>0, <1>1, <2>3 DEF RequestInv, AttemptJudged, Answered
  <2>9. Charged(r)'
    BY <1>0, <1>1, <2>3 DEF RequestInv, Charged, Excused
  <2> QED
    BY <1>1, <2>1, <2>2, <2>5, <2>7, <2>8, <2>9, OneChanges DEF RequestInv
<1>3. CASE GiveUp(r) /\ UNCHANGED <<tried, at>>
  <2>1. TypeOK'
    BY <1>1, <1>3 DEF TypeOK, GiveUp, metricVars
  <2>2. \A q \in Requests \ {r} : UNCHANGED RequestOf(q)
    BY <1>1, <1>3 DEF TypeOK, GiveUp, RequestOf
  <2>3. pc'[r] = "done" /\ answer'[r] = "own" /\ answer[r] = "none"
    BY <1>0, <1>3 DEF TypeOK, GiveUp, RequestInv, AttemptJudged
  <2>4. Attempts(r)' = Attempts(r) /\ AllowRetry(r)'
    BY <1>0, <1>1, <1>3 DEF Attempts, RequestInv, AttemptsKept, AllowRetry
  <2>5. AttemptsKept(r)' /\ BodyTracked(r)' /\ BodyShared(r)'
    BY <1>0, <1>1, <1>3, <2>3, <2>4 DEF RequestInv, AttemptsKept, BodyTracked, BodyShared
  <2>6. AttemptJudged(r)' /\ Answered(r)' /\ Charged(r)'
    BY <1>0, <1>1, <1>3, <2>3, <2>4 DEF RequestInv, AttemptJudged, Answered, Charged, Excused
  <2> QED
    BY <1>1, <2>1, <2>2, <2>5, <2>6, OneChanges DEF RequestInv
<1> QED
  BY <1>2, <1>3 DEF Select

(* An exchange of r with b changes only what there is of r, and keeps its types. *)
ExchangeOf(r, b) ==
  /\ \E x \in Results : result' = [result EXCEPT ![r] = x]
  /\ \E x \in BOOLEAN : guilty' = [guilty EXCEPT ![r] = x]
  /\ \E x \in {"no", "nothing", "whole", "part", "empty"} :
       got' = [got EXCEPT ![r] = [got[r] EXCEPT ![b] = x]]
  /\ \E x \in {"whole", "eof", "closed"} : left' = [left EXCEPT ![r] = x]
  /\ \E x \in {"charge", "count"} : pc' = [pc EXCEPT ![r] = x]
  /\ \E x \in {"none", "passed", "truncated"} : answer' = [answer EXCEPT ![r] = x]
  /\ \E x \in BOOLEAN : gone' = [gone EXCEPT ![r] = x]
  /\ \E x \in SUBSET Statuses : heard' = [heard EXCEPT ![r] = x]
  /\ UNCHANGED <<mode, req, tried, at, wronged, metricVars>>

LEMMA ExchangeFrame ==
  ASSUME TypeOK, RequestsInv, NEW r \in Requests, NEW b \in Backends, at[r] = {b},
         pc[r] = "forward", ExchangeOf(r, b)
  PROVE  /\ TypeOK'
         /\ \A q \in Requests \ {r} : UNCHANGED RequestOf(q)
         /\ AttemptsKept(r)'
         /\ b \in tried[r] /\ got[r][b] = "no"
<1>1. got \in [Requests -> [Backends -> {"no", "nothing", "whole", "part", "empty"}]]
  BY DEF TypeOK
<1>2. got' \in [Requests -> [Backends -> {"no", "nothing", "whole", "part", "empty"}]]
  BY <1>1 DEF ExchangeOf
<1>3. TypeOK'
  <2>1. /\ pc' \in [Requests -> {"idle", "select", "forward", "count", "charge", "leave",
                                "done", "cut"}]
        /\ result' \in [Requests -> Results \cup {"none"}]
        /\ answer' \in [Requests -> {"none", "passed", "truncated", "own"}]
    BY DEF ExchangeOf, TypeOK
  <2>2. /\ left' \in [Requests -> {"whole", "eof", "closed"}]
        /\ heard' \in [Requests -> SUBSET Statuses]
        /\ guilty' \in [Requests -> BOOLEAN]
        /\ gone' \in [Requests -> BOOLEAN]
    BY DEF ExchangeOf, TypeOK
  <2>3. \A q \in Requests :
          /\ pc'[q] \in {"forward", "count", "charge", "leave"} => at[q] # {}
          /\ pc'[q] \in {"idle", "select", "done"} => at[q] = {}
    BY DEF ExchangeOf, TypeOK
  <2> QED
    BY <1>2, <2>1, <2>2, <2>3 DEF ExchangeOf, TypeOK, metricVars
<1>4. \A q \in Requests \ {r} : UNCHANGED RequestOf(q)
  <2>1. ASSUME NEW q \in Requests \ {r} PROVE UNCHANGED RequestOf(q)
    <3>1. UNCHANGED <<pc[q], result[q], answer[q], left[q], heard[q], guilty[q], gone[q]>>
      BY DEF ExchangeOf, TypeOK
    <3>2. UNCHANGED got[q]
      BY <1>1 DEF ExchangeOf
    <3> QED
      BY <3>1, <3>2 DEF ExchangeOf, RequestOf
  <2> QED
    BY <2>1
<1>5. Attempts(r)' = Attempts(r)
  BY DEF ExchangeOf, Attempts
<1>6. AttemptsKept(r)'
  BY <1>5 DEF ExchangeOf, TypeOK, RequestsInv, RequestInv, AttemptsKept, AllowRetry
<1>7. b \in tried[r] /\ got[r][b] = "no"
  BY DEF TypeOK, RequestsInv, RequestInv, BodyTracked
<1> QED
  BY <1>3, <1>4, <1>6, <1>7

(* An exchange of r with b, which has got nothing of it yet, leaves the excuses for
   earlier charges. *)
LEMMA ExcuseKept ==
  ASSUME NEW r \in Requests, NEW b \in Backends, NEW c \in Backends, NEW x,
         Excused(r, c), result[r] # "build", got[r][b] = "no",
         got[r] \in [Backends -> {"no", "nothing", "whole", "part", "empty"}],
         got'[r] = [got[r] EXCEPT ![b] = x],
         gone[r] => gone'[r], UNCHANGED req
  PROVE  Excused(r, c)'
BY DEF Excused

(* No answer: the body is left as it was, or closed. *)
LEMMA NoAnswerStep ==
  ASSUME TypeOK, RequestsInv, NEW r \in Requests, NEW b \in Backends, at[r] = {b},
         pc[r] = "forward", NoAnswer(r, b),
         UNCHANGED <<mode, req, tried, at, wronged, metricVars>>
  PROVE  TypeOK' /\ RequestsInv'
<1>0. RequestInv(r)
  BY DEF RequestsInv
<1>1. /\ left[r] \in {"whole", "eof", "closed"} /\ Closed(left[r]) \in {"eof", "closed"}
      /\ Closed(left[r]) = "eof" <=> left[r] = "eof"
      /\ gone[r] \in BOOLEAN /\ answer[r] = "none" /\ heard[r] \in SUBSET Statuses
      /\ req[r].body \in Bodies
  BY <1>0, AttemptsPositive DEF TypeOK, Closed, RequestInv, AttemptJudged
<1>2. PICK x \in {"build", "transport"}, bodyGot \in {"no", "part"},
           bodyLeft \in {left[r], Closed(left[r]), "closed"}, byBackend \in BOOLEAN, g \in BOOLEAN :
        /\ Ends(r, b, x, bodyGot, bodyLeft, byBackend)
        /\ gone' = [gone EXCEPT ![r] = g]
        /\ bodyLeft = "closed" => req[r].body # "none" \/ left[r] = "closed"
        /\ bodyLeft = "eof" => left[r] = "eof"
        /\ bodyLeft = "whole" => left[r] = "whole"
        /\ gone[r] => g
        /\ x = "build" => bodyGot = "no"
        /\ x # "build" /\ ~byBackend /\ ~g => req[r].body # "none" /\ bodyGot = "part"
  <2>1. CASE Unbuildable(r, b) /\ UNCHANGED gone
    <3>1. gone' = [gone EXCEPT ![r] = gone[r]]
      BY <2>1 DEF TypeOK
    <3> QED
      BY <1>1, <2>1, <3>1 DEF Unbuildable
  <2>2. CASE /\ ~gone[r] /\ UNCHANGED gone
             /\ Ends(r, b, "transport", "no", Closed(left[r]), TRUE)
    <3>1. gone' = [gone EXCEPT ![r] = gone[r]]
      BY <2>2 DEF TypeOK
    <3>2. Closed(left[r]) = "closed" => req[r].body # "none" \/ left[r] = "closed"
      BY <1>0, <1>1 DEF Closed, RequestInv, BodyTracked
    <3> QED
      BY <1>1, <2>2, <3>1, <3>2
  <2>3. CASE /\ gone' = [gone EXCEPT ![r] = TRUE]
             /\ Ends(r, b, "transport", IF gone[r] THEN "no" ELSE "part", Closed(left[r]), FALSE)
    <3>1. Closed(left[r]) = "closed" => req[r].body # "none" \/ left[r] = "closed"
      BY <1>0, <1>1 DEF Closed, RequestInv, BodyTracked
    <3> QED
      BY <1>1, <2>3, <3>1
  <2>4. CASE /\ req[r].body = "large" \/ left[r] = "closed"
             /\ ~gone[r] /\ UNCHANGED gone
             /\ Ends(r, b, "transport", "part", "closed", FALSE)
    <3>1. gone' = [gone EXCEPT ![r] = gone[r]]
      BY <2>4 DEF TypeOK
    <3>2. req[r].body # "none"
      BY <1>0, <2>4 DEF RequestInv, BodyTracked
    <3> QED
      BY <1>1, <2>4, <3>1, <3>2
  <2>5. CASE /\ left[r] = "whole"
             /\ ~gone[r] /\ UNCHANGED gone
             /\ Ends(r, b, "transport", "part", "closed", FALSE)
    <3>1. gone' = [gone EXCEPT ![r] = gone[r]]
      BY <2>5 DEF TypeOK
    <3>2. req[r].body # "none"
      BY <1>0, <2>5 DEF RequestInv, BodyTracked
    <3> QED
      BY <1>1, <2>5, <3>1, <3>2
  <2>6. CASE /\ ~gone[r] /\ UNCHANGED gone
             /\ left[r] # "closed"
             /\ Ends(r, b, "transport", "part", Closed(left[r]), TRUE)
    <3>1. gone' = [gone EXCEPT ![r] = gone[r]]
      BY <2>6 DEF TypeOK
    <3>2. Closed(left[r]) = "closed" => req[r].body # "none" \/ left[r] = "closed"
      BY <1>0, <1>1 DEF Closed, RequestInv, BodyTracked
    <3> QED
      BY <1>1, <2>6, <3>1, <3>2
  <2> QED
    BY <2>1, <2>2, <2>3, <2>4, <2>5, <2>6 DEF NoAnswer
<1>3. /\ result'[r] = x /\ guilty'[r] = byBackend /\ left'[r] = bodyLeft
      /\ got'[r] = [got[r] EXCEPT ![b] = bodyGot] /\ got'[r][b] = bodyGot
      /\ got[r] \in [Backends -> {"no", "nothing", "whole", "part", "empty"}]
      /\ pc'[r] = "charge" /\ answer'[r] = "none" /\ gone'[r] = g /\ heard'[r] = heard[r]
  <2>1. /\ result'[r] = x /\ guilty'[r] = byBackend /\ left'[r] = bodyLeft
        /\ got'[r] = [got[r] EXCEPT ![b] = bodyGot] /\ got'[r][b] = bodyGot
    <3>1. got \in [Requests -> [Backends -> {"no", "nothing", "whole", "part", "empty"}]]
      BY DEF TypeOK
    <3> QED
      BY <1>2, <3>1 DEF Ends, TypeOK
  <2>2. got[r] \in [Backends -> {"no", "nothing", "whole", "part", "empty"}]
    BY DEF TypeOK
  <2>3. pc'[r] = "charge" /\ answer'[r] = "none" /\ gone'[r] = g /\ heard'[r] = heard[r]
    BY <1>1, <1>2 DEF NoAnswer, TypeOK
  <2> QED
    BY <2>1, <2>2, <2>3
<1>4. /\ TypeOK'
      /\ \A q \in Requests \ {r} : UNCHANGED RequestOf(q)
      /\ AttemptsKept(r)'
      /\ b \in tried[r] /\ got[r][b] = "no"
  <2>1. pc' = [pc EXCEPT ![r] = "charge"] /\ UNCHANGED <<heard, answer>>
    BY DEF NoAnswer
  <2>2. answer' = [answer EXCEPT ![r] = "none"] /\ heard' = [heard EXCEPT ![r] = heard[r]]
    BY <1>1, <2>1 DEF TypeOK
  <2>3. ExchangeOf(r, b)
    <3>1. /\ x \in Results /\ bodyLeft \in {"whole", "eof", "closed"}
          /\ bodyGot \in {"no", "nothing", "whole", "part", "empty"}
      BY <1>1 DEF Results
    <3>2. /\ \E y \in Results : result' = [result EXCEPT ![r] = y]
          /\ \E y \in {"no", "nothing", "whole", "part", "empty"} :
               got' = [got EXCEPT ![r] = [got[r] EXCEPT ![b] = y]]
          /\ \E y \in {"whole", "eof", "closed"} : left' = [left EXCEPT ![r] = y]
      BY <1>2, <3>1 DEF Ends
    <3>3. /\ \E y \in BOOLEAN : guilty' = [guilty EXCEPT ![r] = y]
          /\ \E y \in BOOLEAN : gone' = [gone EXCEPT ![r] = y]
      BY <1>2, Zenon DEF Ends
    <3> QED
      BY <1>1, <2>1, <2>2, <3>2, <3>3 DEF ExchangeOf
  <2> QED
    BY <2>3, ExchangeFrame
<1>5. BodyTracked(r)'
  BY <1>0, <1>1, <1>2, <1>3, <1>4 DEF RequestInv, BodyTracked
<1>6. BodyShared(r)'
  BY <1>0, <1>1, <1>2, <1>3, <1>4 DEF RequestInv, BodyShared
<1>7. AttemptJudged(r)' /\ Answered(r)'
  BY <1>0, <1>1, <1>3, <1>4 DEF RequestInv, AttemptJudged, Answered, Statuses, Results
<1>8. Charged(r)'
  <2>1. ASSUME NEW c \in wronged[r] PROVE Excused(r, c)'
    <3>1. c \in Backends /\ Excused(r, c) /\ result[r] # "build"
      BY <1>0 DEF TypeOK, RequestInv, AttemptJudged, Charged
    <3> QED
      BY <1>2, <1>3, <1>4, <3>1, ExcuseKept
  <2>2. ~byBackend => Excused(r, b)'
    BY <1>2, <1>3 DEF Excused
  <2> QED
    BY <1>0, <1>3, <2>1, <2>2 DEF RequestInv, Charged
<1> QED
  BY <1>0, <1>4, <1>5, <1>6, <1>7, <1>8, OneChanges DEF RequestInv

(* An answer: the body was read to its end, or in part. *)
LEMMA ResponseStep ==
  ASSUME TypeOK, RequestsInv, NEW r \in Requests, NEW b \in Backends, at[r] = {b},
         pc[r] = "forward", Response(r, b),
         UNCHANGED <<mode, req, tried, at, wronged, metricVars>>
  PROVE  TypeOK' /\ RequestsInv'
<1>0. RequestInv(r)
  BY DEF RequestsInv
<1>1. /\ left[r] \in {"whole", "eof"} /\ gone' = gone /\ gone \in [Requests -> BOOLEAN]
      /\ answer[r] = "none" /\ heard[r] \in SUBSET Statuses
      /\ req[r].body \in Bodies
  BY <1>0, AttemptsPositive DEF TypeOK, Response, RequestInv, AttemptJudged
<1>2. PICK status \in Statuses :
        /\ heard' = [heard EXCEPT ![r] = heard[r] \cup {status}]
        /\ \/ /\ req[r].body # "large"
              /\ Ends(r, b, status, BodyAtBackend(r), "eof", status \in {"500", "503"})
           \/ /\ left[r] = "whole"
              /\ Ends(r, b, status, "part", "closed", status \in {"500", "503"})
        /\ IF AllowRetry(r) /\ Retryable(status)
           THEN /\ pc' = [pc EXCEPT ![r] = "charge"]
                /\ UNCHANGED answer
           ELSE /\ pc' = [pc EXCEPT ![r] = "count"]
                /\ PassOn(r)
  BY DEF Response
<1>3. PICK bodyGot \in {"nothing", "whole", "part", "empty"}, bodyLeft \in {"eof", "closed"} :
        /\ Ends(r, b, status, bodyGot, bodyLeft, status \in {"500", "503"})
        /\ bodyLeft = "closed" => left[r] = "whole"
        /\ bodyGot = "whole" => left[r] = "whole"
        /\ bodyGot = "empty" => left[r] = "eof" /\ req[r].body \notin {"none", "large"}
  BY <1>1, <1>2 DEF BodyAtBackend
<1>4. /\ result'[r] = status /\ guilty'[r] = (status \in {"500", "503"}) /\ left'[r] = bodyLeft
      /\ got'[r] = [got[r] EXCEPT ![b] = bodyGot] /\ got'[r][b] = bodyGot
      /\ got[r] \in [Backends -> {"no", "nothing", "whole", "part", "empty"}]
      /\ gone'[r] = gone[r] /\ heard'[r] = heard[r] \cup {status}
  <2>1. got \in [Requests -> [Backends -> {"no", "nothing", "whole", "part", "empty"}]]
    BY DEF TypeOK
  <2>2. /\ result'[r] = status /\ guilty'[r] = (status \in {"500", "503"}) /\ left'[r] = bodyLeft
        /\ got'[r] = [got[r] EXCEPT ![b] = bodyGot] /\ got'[r][b] = bodyGot
    BY <1>3, <2>1 DEF Ends, TypeOK
  <2> QED
    BY <1>1, <1>2, <2>1, <2>2 DEF TypeOK
<1>5. PICK next \in {"charge", "count"}, a \in {"none", "passed", "truncated"} :
        /\ pc' = [pc EXCEPT ![r] = next] /\ answer' = [answer EXCEPT ![r] = a]
        /\ next = "charge" => status = "503" /\ AllowRetry(r) /\ a = "none"
        /\ next = "count" => a # "none"
  <2>1. CASE AllowRetry(r) /\ Retryable(status)
    <3>1. answer' = [answer EXCEPT ![r] = "none"]
      BY <1>1, <1>2, <2>1 DEF TypeOK
    <3> QED
      BY <1>2, <2>1, <3>1 DEF Retryable
  <2>2. CASE ~(AllowRetry(r) /\ Retryable(status))
    BY <1>2, <2>2 DEF PassOn
  <2> QED
    BY <2>1, <2>2
<1>6. pc'[r] = next /\ answer'[r] = a
  BY <1>5 DEF TypeOK
<1>7. /\ TypeOK'
      /\ \A q \in Requests \ {r} : UNCHANGED RequestOf(q)
      /\ AttemptsKept(r)'
      /\ b \in tried[r] /\ got[r][b] = "no"
  <2>1. /\ \E y \in Results : result' = [result EXCEPT ![r] = y]
        /\ \E y \in {"no", "nothing", "whole", "part", "empty"} :
             got' = [got EXCEPT ![r] = [got[r] EXCEPT ![b] = y]]
        /\ \E y \in {"whole", "eof", "closed"} : left' = [left EXCEPT ![r] = y]
    <3>1. status \in Results
      BY DEF Results
    <3> QED
      BY <1>3, <3>1 DEF Ends
  <2>2. \E y \in BOOLEAN : guilty' = [guilty EXCEPT ![r] = y]
    <3>1. guilty' = [guilty EXCEPT ![r] = status \in {"500", "503"}]
      BY <1>3 DEF Ends
    <3>2. (status \in {"500", "503"}) \in BOOLEAN
      OBVIOUS
    <3> QED
      BY <3>1, <3>2, Zenon
  <2>3. \E y \in BOOLEAN : gone' = [gone EXCEPT ![r] = y]
    BY <1>1
  <2>4. \E y \in SUBSET Statuses : heard' = [heard EXCEPT ![r] = y]
    BY <1>1, <1>2
  <2>5. ExchangeOf(r, b)
    BY <1>5, <2>1, <2>2, <2>3, <2>4 DEF ExchangeOf
  <2> QED
    BY <2>5, ExchangeFrame
<1>8. BodyTracked(r)'
  BY <1>0, <1>1, <1>3, <1>4, <1>6, <1>7 DEF RequestInv, BodyTracked
<1>9. BodyShared(r)'
  <2>1. bodyGot = "empty" => req[r].body = "chunked" /\ \E c \in Backends \ {b} : got[r][c] # "no"
    <3> SUFFICES ASSUME bodyGot = "empty"
                 PROVE  req[r].body = "chunked" /\ \E c \in Backends \ {b} : got[r][c] # "no"
      OBVIOUS
    <3>1. left[r] = "eof" /\ req[r].body \notin {"none", "large"}
      BY <1>3
    <3>2. PICK c \in Backends : got[r][c] # "no"
      BY <1>0, <3>1 DEF RequestInv, BodyTracked
    <3>3. b # c /\ b \in tried[r] /\ c \in tried[r]
      BY <1>0, <1>7, <3>2 DEF RequestInv, BodyTracked
    <3>4. Attempts(r) > 1
      <4>1. tried[r] \in SUBSET Backends /\ Cardinality(tried[r]) <= Attempts(r)
        BY <1>0 DEF TypeOK, RequestInv, AttemptsKept
      <4>2. {b} \in SUBSET tried[r] /\ c \in Backends \ {b}
        BY <3>3
      <4>3. Cardinality({b} \cup {c}) = 2 /\ {b} \cup {c} \in SUBSET tried[r]
        <5>1. {b} \in SUBSET Backends /\ Cardinality({b}) = 1
          BY FS_Singleton
        <5> QED
          BY <3>3, <4>2, <5>1, TriedAnother
      <4>4. 2 <= Cardinality(tried[r])
        BY <4>1, <4>3, SmallerThanSet
      <4> QED
        BY <4>1, <4>4, TriedFinite, AttemptsPositive
    <3>5. req[r].body \in {"none", "chunked"}
      BY <3>4, AttemptsPositive
    <3> QED
      BY <3>1, <3>2, <3>3, <3>5
  <2> QED
    BY <1>0, <1>1, <1>3, <1>4, <1>7, <2>1 DEF RequestInv, BodyShared, BodyTracked
<1>10. AttemptJudged(r)' /\ Answered(r)'
  <2>1. Attempts(r)' = Attempts(r) /\ (AllowRetry(r)' <=> AllowRetry(r))
    BY DEF Attempts, AllowRetry
  <2> QED
    BY <1>0, <1>1, <1>4, <1>5, <1>6, <2>1
    DEF RequestInv, AttemptJudged, Answered, Statuses, Results
<1>11. Charged(r)'
  <2>1. pc'[r] = "charge" => guilty'[r]
    BY <1>4, <1>5, <1>6
  <2>2. ASSUME NEW c \in wronged[r] PROVE Excused(r, c)'
    <3>1. c \in Backends /\ Excused(r, c) /\ result[r] # "build"
      BY <1>0 DEF TypeOK, RequestInv, AttemptJudged, Charged
    <3> QED
      BY <1>4, <1>7, <3>1, ExcuseKept
  <2> QED
    BY <1>0, <2>1, <2>2 DEF RequestInv, Charged
<1> QED
  BY <1>0, <1>7, <1>8, <1>9, <1>10, <1>11, OneChanges DEF RequestInv

LEMMA ForwardStep ==
  ASSUME TypeOK, RequestsInv, NEW r \in Requests, Forward(r)
  PROVE  TypeOK' /\ RequestsInv'
<1>1. PICK b \in at[r] : NoAnswer(r, b) \/ Response(r, b)
  BY DEF Forward
<1>2. b \in Backends /\ at[r] = {b}
  <2>1. at[r] \in {{}} \cup {{c} : c \in Backends}
    BY DEF TypeOK
  <2> QED
    BY <2>1
<1> QED
  BY <1>1, <1>2, NoAnswerStep, ResponseStep DEF Forward

(* A request that is with a backend, and which. *)
LEMMA BackendOf ==
  ASSUME TypeOK, NEW r \in Requests, NEW b \in at[r]
  PROVE  b \in Backends /\ at[r] = {b}
<1>1. at[r] \in {{}} \cup {{c} : c \in Backends}
  BY DEF TypeOK
<1> QED
  BY <1>1

LEMMA CountStep ==
  ASSUME TypeOK, RequestsInv, NEW r \in Requests, Count(r)
  PROVE  TypeOK' /\ RequestsInv'
<1>0. RequestInv(r) /\ pc[r] = "count"
  BY DEF RequestsInv, Count
<1>1. PICK b \in at[r] : requests' = Incremented(requests, b, ClassOf(result[r]))
  BY DEF Count
<1>2. b \in Backends /\ ClassOf(result[r]) \in Classes
  BY <1>0, BackendOf DEF RequestInv, AttemptJudged, ClassOf, Classes, Statuses
<1>3. requests' \in [Backends -> [Classes -> Nat]]
  <2>1. requests \in [Backends -> [Classes -> Nat]]
    BY DEF TypeOK
  <2> QED
    BY <1>1, <1>2, <2>1 DEF Incremented
<1>4. PICK next \in {"charge", "leave"} :
        /\ pc' = [pc EXCEPT ![r] = next]
        /\ next = "charge" <=> result[r] \in {"500", "503"}
  BY DEF Count, Failure
<1>5. /\ UNCHANGED <<mode, req, left, tried, at, result, guilty, gone, answer, got,
                     heard, wronged, errors, latency>>
      /\ pc'[r] = next
  BY <1>4 DEF Count, forwardVars, TypeOK
<1>6. TypeOK'
  BY <1>0, <1>3, <1>4, <1>5 DEF TypeOK
<1>7. \A q \in Requests \ {r} : UNCHANGED RequestOf(q)
  BY <1>4, <1>5 DEF TypeOK, RequestOf
<1>8. Attempts(r)' = Attempts(r) /\ (AllowRetry(r)' <=> AllowRetry(r))
  BY <1>5 DEF Attempts, AllowRetry
<1>9. AttemptsKept(r)' /\ BodyTracked(r)' /\ BodyShared(r)'
  BY <1>0, <1>5, <1>8 DEF RequestInv, AttemptsKept, BodyTracked, BodyShared
<1>10. AttemptJudged(r)' /\ Answered(r)'
  BY <1>0, <1>4, <1>5, <1>8 DEF RequestInv, AttemptJudged, Answered, Statuses, Results
<1>11. Charged(r)'
  BY <1>0, <1>4, <1>5 DEF RequestInv, AttemptJudged, Charged, Excused
<1> QED
  BY <1>5, <1>6, <1>7, <1>9, <1>10, <1>11, OneChanges DEF RequestInv

LEMMA ChargeStep ==
  ASSUME TypeOK, RequestsInv, NEW r \in Requests, Charge(r)
  PROVE  TypeOK' /\ RequestsInv'
<1>0. RequestInv(r) /\ pc[r] = "charge"
  BY DEF RequestsInv, Charge
<1>1. PICK b \in at[r] :
        /\ errors' = Incremented(errors, b, KindOf(r))
        /\ wronged' = [wronged EXCEPT ![r] = IF guilty[r] THEN wronged[r] ELSE wronged[r] \cup {b}]
  BY DEF Charge
<1>2. b \in Backends /\ KindOf(r) \in ErrorKinds
  BY BackendOf DEF KindOf, ErrorKinds
<1>3. errors' \in [Backends -> [ErrorKinds -> Nat]]
  <2>1. errors \in [Backends -> [ErrorKinds -> Nat]]
    BY DEF TypeOK
  <2> QED
    BY <1>1, <1>2, <2>1 DEF Incremented
<1>4. /\ wronged' \in [Requests -> SUBSET Backends]
      /\ \A q \in Requests \ {r} : wronged'[q] = wronged[q]
      /\ wronged'[r] \subseteq wronged[r] \cup at[r]
      /\ guilty[r] => wronged'[r] = wronged[r]
  BY <1>1, <1>2 DEF TypeOK
<1>5. /\ pc' = [pc EXCEPT ![r] = "leave"] /\ pc'[r] = "leave"
      /\ UNCHANGED <<mode, req, left, tried, at, result, guilty, gone, answer, got,
                     heard, requests, latency>>
  BY DEF Charge, TypeOK
<1>6. TypeOK'
  BY <1>0, <1>3, <1>4, <1>5 DEF TypeOK
<1>7. \A q \in Requests \ {r} : UNCHANGED RequestOf(q)
  BY <1>4, <1>5 DEF TypeOK, RequestOf
<1>8. Attempts(r)' = Attempts(r) /\ (AllowRetry(r)' <=> AllowRetry(r))
  BY <1>5 DEF Attempts, AllowRetry
<1>9. AttemptsKept(r)' /\ BodyTracked(r)' /\ BodyShared(r)'
  BY <1>0, <1>5, <1>8 DEF RequestInv, AttemptsKept, BodyTracked, BodyShared
<1>10. AttemptJudged(r)' /\ Answered(r)'
  BY <1>0, <1>5, <1>8 DEF RequestInv, AttemptJudged, Answered
<1>11. Charged(r)'
  <2>1. wronged'[r] \subseteq tried[r]
    BY <1>0, <1>4 DEF TypeOK, RequestInv, Charged
  <2>2. ASSUME NEW c \in wronged'[r] PROVE Excused(r, c)
    BY <1>0, <1>4, <2>2 DEF RequestInv, Charged, TypeOK
  <2>3. \A c \in Backends : Excused(r, c)' <=> Excused(r, c)
    BY <1>5 DEF Excused
  <2> QED
    BY <1>4, <1>5, <2>1, <2>2, <2>3 DEF Charged, TypeOK
<1> QED
  BY <1>5, <1>6, <1>7, <1>9, <1>10, <1>11, OneChanges DEF RequestInv

LEMMA LeaveStep ==
  ASSUME TypeOK, RequestsInv, NEW r \in Requests, Leave(r)
  PROVE  TypeOK' /\ RequestsInv'
<1>0. RequestInv(r) /\ pc[r] = "leave"
  BY DEF RequestsInv, Leave
<1>1. PICK b \in at[r] : latency' = [latency EXCEPT ![b] = latency[b] + Samples(r)]
  BY DEF Leave
<1>2. latency' \in [Backends -> Nat]
  BY <1>1, BackendOf DEF TypeOK, Samples
<1>3. /\ at' = [at EXCEPT ![r] = {}] /\ at'[r] = {}
      /\ UNCHANGED <<mode, req, left, tried, result, guilty, gone, got, heard, wronged,
                     requests, errors>>
  BY DEF Leave, Left, TypeOK
<1>4. PICK next \in {"done", "select"}, a \in {"none", "passed", "truncated", "own"} :
        /\ pc' = [pc EXCEPT ![r] = next] /\ answer' = [answer EXCEPT ![r] = a]
        /\ \/ next = "done" /\ answer[r] # "none" /\ a = answer[r]
           \/ next = "select" /\ answer[r] = "none" /\ a = "none" /\ result[r] # "build" /\ AllowRetry(r)
           \/ next = "done" /\ answer[r] = "none" /\ a = "own" /\ (result[r] = "build" \/ ~AllowRetry(r))
  <2>1. answer' = answer => answer' = [answer EXCEPT ![r] = answer[r]]
    BY DEF TypeOK
  <2>2. answer[r] \in {"none", "passed", "truncated", "own"}
    BY DEF TypeOK
  <2> QED
    BY <2>1, <2>2 DEF Leave, GiveUp
<1>5. pc'[r] = next /\ answer'[r] = a
  BY <1>4 DEF TypeOK
<1>6. TypeOK'
  BY <1>0, <1>2, <1>3, <1>4 DEF TypeOK
<1>7. \A q \in Requests \ {r} : UNCHANGED RequestOf(q)
  BY <1>3, <1>4 DEF TypeOK, RequestOf
<1>8. Attempts(r)' = Attempts(r) /\ (AllowRetry(r)' <=> AllowRetry(r))
  BY <1>3 DEF Attempts, AllowRetry
<1>9. AttemptsKept(r)' /\ BodyTracked(r)' /\ BodyShared(r)'
  BY <1>0, <1>3, <1>4, <1>5, <1>8 DEF RequestInv, AttemptsKept, BodyTracked, BodyShared
<1>10. AttemptJudged(r)' /\ Answered(r)'
  BY <1>0, <1>3, <1>4, <1>5, <1>8 DEF RequestInv, AttemptJudged, Answered, Statuses
<1>11. Charged(r)'
  BY <1>0, <1>3, <1>5 DEF RequestInv, Charged, Excused
<1> QED
  BY <1>3, <1>6, <1>7, <1>9, <1>10, <1>11, OneChanges DEF RequestInv

LEMMA ProcessStep ==
  ASSUME TypeOK, RequestsInv, Stop \/ Exit \/ UNCHANGED vars
  PROVE  TypeOK' /\ RequestsInv'
<1>1. CASE Stop
  <2>1. \A r \in Requests : UNCHANGED RequestOf(r)
    BY <1>1 DEF Stop, RequestOf, forwardVars
  <2>2. mode # "exited" /\ TypeOK'
    BY <1>1 DEF Stop, TypeOK, forwardVars, metricVars
  <2> QED
    BY <2>1, <2>2, OthersKept DEF RequestsInv
<1>2. CASE Exit
  <2>1. /\ mode' = "exited"
        /\ UNCHANGED <<req, left, tried, at, result, guilty, gone, answer, got, heard, wronged>>
        /\ \A r \in Requests : (pc'[r] = pc[r] /\ pc[r] \in {"idle", "done"}) \/ pc'[r] = "cut"
    BY <1>2 DEF Exit, forwardVars
  <2>2. TypeOK'
    BY <1>2 DEF Exit, TypeOK, forwardVars, metricVars
  <2>3. ASSUME NEW r \in Requests PROVE RequestInv(r)'
    <3>1. RequestInv(r)
      BY DEF RequestsInv
    <3>2. Attempts(r)' = Attempts(r) /\ (AllowRetry(r)' <=> AllowRetry(r))
      BY <2>1 DEF Attempts, AllowRetry
    <3>3. AttemptsKept(r)' /\ BodyTracked(r)' /\ BodyShared(r)'
      BY <2>1, <3>1, <3>2 DEF RequestInv, AttemptsKept, BodyTracked, BodyShared
    <3>4. AttemptJudged(r)' /\ Answered(r)' /\ Charged(r)'
      BY <2>1, <3>1, <3>2 DEF RequestInv, AttemptJudged, Answered, Charged, Excused
    <3> QED
      BY <3>3, <3>4 DEF RequestInv
  <2> QED
    BY <2>2, <2>3 DEF RequestsInv
<1>3. CASE UNCHANGED vars
  <2>1. \A r \in Requests : UNCHANGED RequestOf(r)
    BY <1>3 DEF vars, RequestOf, forwardVars
  <2>2. UNCHANGED mode /\ TypeOK'
    BY <1>3 DEF vars, TypeOK, forwardVars, metricVars
  <2> QED
    BY <2>1, <2>2, OthersKept DEF RequestsInv
<1> QED
  BY <1>1, <1>2, <1>3

LEMMA NextRequests ==
  ASSUME TypeOK, RequestsInv, [Next]_vars
  PROVE  TypeOK' /\ RequestsInv'
BY AcceptStep, SelectStep, ForwardStep, CountStep, ChargeStep, LeaveStep, ProcessStep DEF Next

(* Every variable keeps its type: a request that is being forwarded is with one
   backend, which it was given before, and the metrics never go below zero. *)
THEOREM ForwardingTypeCorrect == Spec => []TypeOK
BY InitRequests, NextRequests, PTL DEF Spec

LEMMA ForwardingInvariant == Spec => [](TypeOK /\ RequestsInv)
BY InitRequests, NextRequests, PTL DEF Spec

-----------------------------------------------------------------------------
(* What follows for bodies, charges and answers. *)

LEMMA InvBodyIntact == TypeOK /\ RequestsInv => BodyIntact
<1> SUFFICES ASSUME TypeOK, RequestsInv, NEW r \in Requests
             PROVE  /\ Cardinality({b \in Backends : got[r][b] = "whole"}) <= 1
                    /\ ~Idempotent(req[r].method) =>
                         Cardinality({b \in Backends : got[r][b] # "no"}) <= 1
                    /\ \A b \in Backends : got[r][b] = "empty" =>
                         req[r].body = "chunked" /\ {c \in Backends : got[r][c] # "no"} # {b}
  BY Zenon DEF BodyIntact
<1>0. RequestInv(r)
  BY DEF RequestsInv
<1>1. Cardinality({b \in Backends : got[r][b] = "whole"}) <= 1
  BY <1>0, AtMostOne DEF RequestInv, BodyShared
<1>2. ASSUME ~Idempotent(req[r].method)
      PROVE  Cardinality({b \in Backends : got[r][b] # "no"}) <= 1
  <2>1. tried[r] \in SUBSET Backends /\ Cardinality(tried[r]) <= Attempts(r)
    BY <1>0 DEF TypeOK, RequestInv, AttemptsKept
  <2>2. {b \in Backends : got[r][b] # "no"} \in SUBSET tried[r]
    BY <1>0 DEF RequestInv, BodyTracked
  <2>3. Attempts(r) = 1
    BY <1>2 DEF Attempts, CanRetry
  <2>4. {b \in Backends : got[r][b] # "no"} \in SUBSET Backends
    OBVIOUS
  <2>5. /\ Cardinality({b \in Backends : got[r][b] # "no"}) \in Nat
        /\ Cardinality(tried[r]) \in Nat
        /\ Cardinality({b \in Backends : got[r][b] # "no"}) <= Cardinality(tried[r])
    BY <2>1, <2>2, <2>4, TriedFinite, SmallerThanSet
  <2> QED
    BY <2>1, <2>3, <2>5
<1>3. \A b \in Backends : got[r][b] = "empty" =>
         req[r].body = "chunked" /\ {c \in Backends : got[r][c] # "no"} # {b}
  BY <1>0 DEF RequestInv, BodyShared
<1> QED
  BY <1>1, <1>2, <1>3

(* However clients, backends and retries behave, a body reaches one backend as a
   whole at most, one that may not be repeated reaches one backend at most, and
   only the second reader of a body in chunks finds it empty. *)
THEOREM ForwardingBodyIntact == Spec => []BodyIntact
BY ForwardingInvariant, InvBodyIntact, PTL

(* Whom a backend can blame for a failure it had no part in. *)
THEOREM ForwardingChargedJustly == Spec => []ChargedJustly
<1>1. RequestsInv => ChargedJustly
  BY DEF RequestsInv, RequestInv, Charged, Excused, ChargedJustly
<1> QED
  BY <1>1, ForwardingInvariant, PTL

(* No request is lost but by the exit, and the edge answers for itself only what
   the backends made it answer. *)
THEOREM ForwardingAnswerHonest == Spec => []AnswerHonest
<1>1. RequestsInv => AnswerHonest
  BY DEF RequestsInv, RequestInv, Answered, AnswerHonest, AllowRetry
<1> QED
  BY <1>1, ForwardingInvariant, PTL

-----------------------------------------------------------------------------
(* The metrics *)

(* The forwards of b between an answer's count and its failure, and those between
   their count and their sample. *)
Charging(b) == {r \in Requests : at[r] = {b} /\ pc[r] = "charge" /\ answer[r] # "none"}
Unsampled(b) ==
  {r \in Requests : at[r] = {b} /\ (pc[r] = "leave" \/ (pc[r] = "charge" /\ answer[r] # "none"))}

Balance(b) ==
  /\ Exposed(b).answers + Exposed(b).unanswered
       = Exposed(b).samples + Cardinality(Unsampled(b))
  /\ Exposed(b).answers5xx = Exposed(b).failed5xx + Cardinality(Charging(b))

(* While the process runs; its exit cuts the forwards that are under way. *)
Balanced == mode # "exited" => \A b \in Backends : Balance(b)

LEMMA BalancedIsProperty == Balanced <=> MetricsBalance
<1>1. ASSUME NEW b \in Backends
      PROVE  LET charging == [r \in Requests |-> pc[r] = "charge" /\ answer[r] # "none"]
             IN  /\ Between(b, charging) = Cardinality(Charging(b))
                 /\ Between(b, [r \in Requests |-> pc[r] = "leave" \/ charging[r]])
                      = Cardinality(Unsampled(b))
  <2> DEFINE charging == [r \in Requests |-> pc[r] = "charge" /\ answer[r] # "none"]
             where == [r \in Requests |-> pc[r] = "leave" \/ charging[r]]
  <2>1. \A r \in Requests : charging[r] <=> pc[r] = "charge" /\ answer[r] # "none"
    BY Zenon
  <2>2. \A r \in Requests : where[r] <=> pc[r] = "leave" \/ charging[r]
    BY Zenon
  <2> HIDE DEF charging, where
  <2>3. {r \in Requests : at[r] = {b} /\ charging[r]} = Charging(b)
    BY <2>1, Zenon DEF Charging
  <2>4. {r \in Requests : at[r] = {b} /\ where[r]} = Unsampled(b)
    BY <2>1, <2>2, Zenon DEF Unsampled
  <2>5. /\ Between(b, charging) = Cardinality(Charging(b))
        /\ Between(b, where) = Cardinality(Unsampled(b))
    BY <2>3, <2>4, Zenon DEF Between
  <2> QED
    BY <2>5, Zenon DEF charging, where
<1> QED
  BY <1>1, Zenon DEF Balanced, Balance, MetricsBalance

LEMMA RequestsFinite ==
  ASSUME NEW S \in SUBSET Requests, NEW r \in Requests
  PROVE  /\ IsFiniteSet(S) /\ Cardinality(S) \in Nat
         /\ r \notin S => Cardinality(S \cup {r}) = Cardinality(S) + 1
         /\ r \in S => Cardinality(S \ {r}) = Cardinality(S) - 1
BY FS_Subset, FS_CardinalityType, FS_AddElement, FS_RemoveElement, ForwardingAssumption

(* A step of r moves r alone between the sets of b. *)
LEMMA OthersStay ==
  ASSUME NEW r \in Requests, NEW b \in Backends,
         \A q \in Requests \ {r} : UNCHANGED <<pc[q], at[q], answer[q]>>
  PROVE  /\ Charging(b)' \ {r} = Charging(b) \ {r}
         /\ Unsampled(b)' \ {r} = Unsampled(b) \ {r}
BY DEF Charging, Unsampled

LEMMA SameBalance ==
  ASSUME NEW b \in Backends, Balance(b),
         UNCHANGED <<requests[b], errors[b], latency[b]>>,
         Charging(b)' = Charging(b), Unsampled(b)' = Unsampled(b)
  PROVE  Balance(b)'
BY DEF Balance, Exposed

(* The counters of b are numbers. *)
LEMMA CountersAreNat ==
  ASSUME TypeOK, NEW b \in Backends
  PROVE  /\ requests[b] \in [Classes -> Nat] /\ errors[b] \in [ErrorKinds -> Nat]
         /\ latency[b] \in Nat
         /\ \A c \in Classes : requests[b][c] \in Nat
         /\ \A k \in ErrorKinds : errors[b][k] \in Nat
BY DEF TypeOK

LEMMA ExposedAreNat ==
  ASSUME TypeOK, NEW b \in Backends
  PROVE  /\ Cardinality(Unsampled(b)) \in Nat /\ Cardinality(Charging(b)) \in Nat
         /\ Exposed(b).answers \in Nat /\ Exposed(b).answers5xx \in Nat
         /\ Exposed(b).unanswered \in Nat /\ Exposed(b).failed5xx \in Nat
         /\ Exposed(b).samples \in Nat
<1>1. Charging(b) \in SUBSET Requests /\ Unsampled(b) \in SUBSET Requests
  BY DEF Charging, Unsampled
<1>2. Cardinality(Unsampled(b)) \in Nat /\ Cardinality(Charging(b)) \in Nat
  BY <1>1, FS_Subset, FS_CardinalityType, ForwardingAssumption
<1> QED
  BY <1>2, CountersAreNat DEF Exposed, Classes, ErrorKinds

LEMMA InitBalanced == Init => Balanced
<1> SUFFICES ASSUME Init, NEW b \in Backends PROVE Balance(b)
  BY DEF Balanced
<1>1. Charging(b) = {} /\ Unsampled(b) = {}
  BY DEF Init, Charging, Unsampled
<1> QED
  BY <1>1, FS_EmptySet DEF Init, Balance, Exposed, Classes, ErrorKinds

(* A request that has no share in the metrics before the step or after it. *)
LEMMA QuietStep ==
  ASSUME Balanced, NEW r \in Requests,
         UNCHANGED <<mode, requests, errors, latency>>,
         \A q \in Requests \ {r} : UNCHANGED <<pc[q], at[q], answer[q]>>,
         \A b \in Backends : r \notin Unsampled(b) /\ r \notin Unsampled(b)'
  PROVE  Balanced'
<1> SUFFICES ASSUME mode # "exited", NEW b \in Backends PROVE Balance(b)'
  BY DEF Balanced
<1>1. Charging(b)' = Charging(b) /\ Unsampled(b)' = Unsampled(b)
  BY DEF Charging, Unsampled
<1>2. Balance(b) /\ UNCHANGED <<requests[b], errors[b], latency[b]>>
  BY DEF Balanced
<1> QED
  BY <1>1, <1>2, SameBalance

LEMMA EarlyBalance ==
  ASSUME TypeOK, RequestsInv, Balanced, NEW r \in Requests,
         Accept(r) \/ Select(r) \/ Forward(r)
  PROVE  Balanced'
<1>1. pc[r] \in {"idle", "select", "forward"} /\ answer[r] = "none"
  BY DEF Accept, Select, Forward, RequestsInv, RequestInv, AttemptJudged
<1>2. UNCHANGED <<mode, requests, errors, latency>>
  BY DEF Accept, Select, Forward, metricVars
<1>3. /\ \A q \in Requests \ {r} : UNCHANGED <<pc[q], at[q], answer[q]>>
      /\ pc'[r] \in {"select", "forward", "done", "charge", "count"}
      /\ pc'[r] = "charge" => answer'[r] = "none"
  <2>1. CASE Accept(r)
    BY <2>1 DEF Accept, TypeOK
  <2>2. CASE Select(r)
    BY <2>2 DEF Select, GiveUp, TypeOK
  <2>3. ASSUME NEW b \in at[r], NoAnswer(r, b), UNCHANGED at
        PROVE  <1>3
    BY <1>1, <2>3 DEF NoAnswer, TypeOK
  <2>4. ASSUME NEW b \in at[r], Response(r, b), UNCHANGED at
        PROVE  <1>3
    BY <1>1, <2>4 DEF Response, PassOn, TypeOK
  <2>5. CASE Forward(r)
    BY <2>3, <2>4, <2>5 DEF Forward
  <2> QED
    BY <2>1, <2>2, <2>5
<1>4. \A b \in Backends : r \notin Unsampled(b) /\ r \notin Unsampled(b)'
  BY <1>1, <1>3 DEF Unsampled
<1> QED
  BY <1>2, <1>3, <1>4, QuietStep

LEMMA CountBalance ==
  ASSUME TypeOK, RequestsInv, Balanced, NEW r \in Requests, Count(r)
  PROVE  Balanced'
<1> SUFFICES ASSUME mode # "exited", NEW b \in Backends PROVE Balance(b)'
  BY DEF Balanced, Count
<1>0. /\ pc[r] = "count" /\ answer[r] # "none" /\ result[r] \in Statuses
      /\ Balance(b)
  BY DEF Count, RequestsInv, RequestInv, AttemptJudged, Balanced
<1>1. PICK c \in Backends :
        /\ at[r] = {c} /\ requests' = Incremented(requests, c, ClassOf(result[r]))
  BY BackendOf DEF Count
<1>2. /\ UNCHANGED <<at, answer, errors, latency>>
      /\ \A q \in Requests \ {r} : UNCHANGED <<pc[q], at[q], answer[q]>>
      /\ pc'[r] = IF Failure(result[r]) THEN "charge" ELSE "leave"
  BY DEF Count, forwardVars, TypeOK
<1>3. CASE b # c
  <2>1. requests'[b] = requests[b]
    BY <1>1, <1>3 DEF Incremented, TypeOK
  <2>2. Charging(b)' = Charging(b) /\ Unsampled(b)' = Unsampled(b)
    <3>1. r \notin Charging(b) /\ r \notin Charging(b)' /\ r \notin Unsampled(b) /\ r \notin Unsampled(b)'
      BY <1>1, <1>2, <1>3 DEF Charging, Unsampled
    <3> QED
      BY <1>2, <3>1, OthersStay
  <2> QED
    BY <1>0, <1>2, <2>1, <2>2, SameBalance
<1>4. CASE b = c
  <2>1. ClassOf(result[r]) \in Classes /\ (ClassOf(result[r]) = "5xx" <=> Failure(result[r]))
    BY <1>0 DEF ClassOf, Classes, Statuses, Failure
  <2>2. requests'[b] = [requests[b] EXCEPT ![ClassOf(result[r])] = requests[b][ClassOf(result[r])] + 1]
    BY <1>1, <1>4 DEF Incremented, TypeOK
  <2>3. r \notin Unsampled(b) /\ Unsampled(b)' = Unsampled(b) \cup {r}
    <3>1. r \notin Unsampled(b) /\ r \in Unsampled(b)'
      BY <1>0, <1>1, <1>2, <1>4 DEF Unsampled
    <3> QED
      BY <1>2, <3>1, OthersStay
  <2>4. /\ r \notin Charging(b)
        /\ Charging(b)' = IF Failure(result[r]) THEN Charging(b) \cup {r} ELSE Charging(b)
    <3>1. r \notin Charging(b) /\ (r \in Charging(b)' <=> Failure(result[r]))
      BY <1>0, <1>1, <1>2, <1>4 DEF Charging
    <3> QED
      BY <1>2, <3>1, OthersStay
  <2>5. Cardinality(Unsampled(b)') = Cardinality(Unsampled(b)) + 1
    BY <2>3, RequestsFinite DEF Unsampled
  <2>6. Cardinality(Charging(b)') = Cardinality(Charging(b)) + IF Failure(result[r]) THEN 1 ELSE 0
    <3>1. Charging(b) \in SUBSET Requests
      BY DEF Charging
    <3> QED
      BY <2>4, <3>1, RequestsFinite
  <2>7. /\ Exposed(b)'.answers = Exposed(b).answers + 1
        /\ Exposed(b)'.answers5xx = Exposed(b).answers5xx + IF Failure(result[r]) THEN 1 ELSE 0
        /\ Exposed(b)'.unanswered = Exposed(b).unanswered
        /\ Exposed(b)'.failed5xx = Exposed(b).failed5xx
        /\ Exposed(b)'.samples = Exposed(b).samples
    BY <1>2, <2>1, <2>2, CountersAreNat DEF Exposed, Classes
  <2> QED
    BY <1>0, <2>5, <2>6, <2>7, ExposedAreNat DEF Balance
<1> QED
  BY <1>3, <1>4

LEMMA ChargeBalance ==
  ASSUME TypeOK, RequestsInv, Balanced, NEW r \in Requests, Charge(r)
  PROVE  Balanced'
<1> SUFFICES ASSUME mode # "exited", NEW b \in Backends PROVE Balance(b)'
  BY DEF Balanced, Charge
<1>0. /\ pc[r] = "charge" /\ result[r] \in Results /\ Balance(b)
      /\ answer[r] # "none" => result[r] \in Statuses
  BY DEF Charge, RequestsInv, RequestInv, AttemptJudged, Balanced
<1>1. PICK c \in Backends : at[r] = {c} /\ errors' = Incremented(errors, c, KindOf(r))
  BY BackendOf DEF Charge
<1>2. /\ UNCHANGED <<at, answer, requests, latency>>
      /\ \A q \in Requests \ {r} : UNCHANGED <<pc[q], at[q], answer[q]>>
      /\ pc'[r] = "leave"
  BY DEF Charge, TypeOK
<1>3. CASE b # c
  <2>1. errors'[b] = errors[b]
    BY <1>1, <1>3 DEF Incremented, TypeOK
  <2>2. Charging(b)' = Charging(b) /\ Unsampled(b)' = Unsampled(b)
    <3>1. r \notin Charging(b) /\ r \notin Charging(b)' /\ r \notin Unsampled(b) /\ r \notin Unsampled(b)'
      BY <1>1, <1>2, <1>3 DEF Charging, Unsampled
    <3> QED
      BY <1>2, <3>1, OthersStay
  <2> QED
    BY <1>0, <1>2, <2>1, <2>2, SameBalance
<1>4. CASE b = c
  <2>0. KindOf(r) \in ErrorKinds /\ (KindOf(r) = "upstream_5xx" <=> answer[r] # "none")
    <3>1. CASE answer[r] # "none"
      BY <1>0, <3>1 DEF KindOf, ErrorKinds, Statuses
    <3>2. CASE answer[r] = "none"
      BY <1>0, <3>2 DEF KindOf, ErrorKinds, Results, Statuses
    <3> QED
      BY <3>1, <3>2
  <2>1. errors'[b] = [errors[b] EXCEPT ![KindOf(r)] = errors[b][KindOf(r)] + 1]
    BY <1>1, <1>4 DEF Incremented, TypeOK
  <2>2. Unsampled(b)' = Unsampled(b) \cup {r} /\ (r \in Unsampled(b) <=> answer[r] # "none")
    <3>1. r \in Unsampled(b)' /\ (r \in Unsampled(b) <=> answer[r] # "none")
      BY <1>0, <1>1, <1>2, <1>4 DEF Unsampled
    <3> QED
      BY <1>2, <3>1, OthersStay
  <2>3. Charging(b)' = Charging(b) \ {r} /\ (r \in Charging(b) <=> answer[r] # "none")
    <3>1. r \notin Charging(b)' /\ (r \in Charging(b) <=> answer[r] # "none")
      BY <1>0, <1>1, <1>2, <1>4 DEF Charging
    <3> QED
      BY <1>2, <3>1, OthersStay
  <2>4. Charging(b) \in SUBSET Requests /\ Unsampled(b) \in SUBSET Requests
    BY DEF Charging, Unsampled
  <2>5. /\ Exposed(b)'.answers = Exposed(b).answers
        /\ Exposed(b)'.answers5xx = Exposed(b).answers5xx
        /\ Exposed(b)'.samples = Exposed(b).samples
    BY <1>2 DEF Exposed
  <2>6. CASE answer[r] # "none"
    <3>1. /\ Exposed(b)'.unanswered = Exposed(b).unanswered
          /\ Exposed(b)'.failed5xx = Exposed(b).failed5xx + 1
      BY <2>0, <2>1, <2>6, CountersAreNat DEF Exposed, ErrorKinds
    <3>2. Unsampled(b)' = Unsampled(b)
      BY <2>2, <2>6
    <3>3. Cardinality(Charging(b)') = Cardinality(Charging(b)) - 1
      BY <2>3, <2>4, <2>6, RequestsFinite
    <3> QED
      BY <1>0, <2>5, <3>1, <3>2, <3>3, ExposedAreNat DEF Balance
  <2>7. CASE answer[r] = "none"
    <3>1. /\ Exposed(b)'.unanswered = Exposed(b).unanswered + 1
          /\ Exposed(b)'.failed5xx = Exposed(b).failed5xx
      BY <2>0, <2>1, <2>7, CountersAreNat DEF Exposed, ErrorKinds
    <3>2. Charging(b)' = Charging(b)
      BY <2>3, <2>7
    <3>3. Cardinality(Unsampled(b)') = Cardinality(Unsampled(b)) + 1
      BY <2>2, <2>4, <2>7, RequestsFinite
    <3> QED
      BY <1>0, <2>5, <3>1, <3>2, <3>3, ExposedAreNat DEF Balance
  <2> QED
    BY <2>6, <2>7
<1> QED
  BY <1>3, <1>4

LEMMA LeaveBalance ==
  ASSUME TypeOK, RequestsInv, Balanced, NEW r \in Requests, Leave(r)
  PROVE  Balanced'
<1> SUFFICES ASSUME mode # "exited", NEW b \in Backends PROVE Balance(b)'
  BY DEF Balanced, Leave
<1>0. pc[r] = "leave" /\ Balance(b)
  BY DEF Leave, Balanced
<1>1. PICK c \in Backends : at[r] = {c} /\ latency' = [latency EXCEPT ![c] = latency[c] + 1]
  BY BackendOf DEF Leave, Samples
<1>2. /\ UNCHANGED <<requests, errors>> /\ at'[r] = {}
      /\ \A q \in Requests \ {r} : UNCHANGED <<pc[q], at[q], answer[q]>>
  <2>1. \A q \in Requests \ {r} : UNCHANGED <<pc[q], answer[q]>>
    BY DEF Leave, GiveUp, TypeOK
  <2> QED
    BY <2>1 DEF Leave, Left, TypeOK
<1>3. r \notin Charging(b) /\ r \notin Charging(b)' /\ r \notin Unsampled(b)'
  BY <1>0, <1>2 DEF Charging, Unsampled
<1>4. Charging(b)' = Charging(b) /\ Unsampled(b)' = Unsampled(b) \ {r}
  BY <1>2, <1>3, OthersStay
<1>5. CASE b # c
  <2>1. latency'[b] = latency[b] /\ r \notin Unsampled(b)
    BY <1>1, <1>5 DEF TypeOK, Unsampled
  <2> QED
    BY <1>0, <1>2, <1>4, <2>1, SameBalance
<1>6. CASE b = c
  <2>1. r \in Unsampled(b) /\ Unsampled(b) \in SUBSET Requests
    BY <1>0, <1>1, <1>6 DEF Unsampled
  <2>2. Cardinality(Unsampled(b)') = Cardinality(Unsampled(b)) - 1
    BY <1>4, <2>1, RequestsFinite
  <2>3. /\ Exposed(b)'.samples = Exposed(b).samples + 1
        /\ Exposed(b)'.answers = Exposed(b).answers
        /\ Exposed(b)'.answers5xx = Exposed(b).answers5xx
        /\ Exposed(b)'.unanswered = Exposed(b).unanswered
        /\ Exposed(b)'.failed5xx = Exposed(b).failed5xx
    BY <1>1, <1>2, <1>6 DEF Exposed, TypeOK
  <2> QED
    BY <1>0, <1>4, <2>2, <2>3, ExposedAreNat DEF Balance
<1> QED
  BY <1>5, <1>6

LEMMA ProcessBalance ==
  ASSUME Balanced, Stop \/ Exit \/ UNCHANGED vars
  PROVE  Balanced'
<1>1. CASE Stop \/ UNCHANGED vars
  <2>1. /\ UNCHANGED <<pc, at, answer, requests, errors, latency>>
        /\ mode = "exited" => mode' = "exited"
    BY <1>1 DEF Stop, vars, forwardVars, metricVars
  <2>2. \A b \in Backends : Charging(b)' = Charging(b) /\ Unsampled(b)' = Unsampled(b)
    BY <2>1 DEF Charging, Unsampled
  <2>3. \A b \in Backends : Balance(b) => Balance(b)'
    BY <2>1, <2>2, SameBalance
  <2> QED
    BY <2>1, <2>3 DEF Balanced
<1>2. CASE Exit
  BY <1>2 DEF Exit, Balanced
<1> QED
  BY <1>1, <1>2

LEMMA NextBalanced ==
  ASSUME TypeOK, RequestsInv, Balanced, [Next]_vars
  PROVE  Balanced'
BY EarlyBalance, CountBalance, ChargeBalance, LeaveBalance, ProcessBalance DEF Next

(* Whatever the requests do at once, a reader of /metrics finds that the counters
   of a backend differ from each other by no more than the forwards that are
   between two of its locks. *)
THEOREM ForwardingMetricsBalance == Spec => []MetricsBalance
BY InitBalanced, NextBalanced, ForwardingInvariant, BalancedIsProperty, PTL DEF Spec

=============================================================================
