------------------------- MODULE RedisLimiterProofs -------------------------
(***************************************************************************)
(* RedisLimiter's types, that a window's requests stay within the limit as *)
(* long as they are prompt, that a denial counts the requests of its own   *)
(* window, and whose key can be left without an expiry.  The argument for  *)
(* the limit: the first key of a window cannot expire while a request may  *)
(* still be prompt, so prompt requests count on one key and get different  *)
(* answers to their INCR; the answers that allow a request are the numbers *)
(* up to Limit.                                                            *)
(***************************************************************************)
EXTENDS RedisLimiter, FiniteSetTheorems, TLAPS

USE LimiterAssumption DEF Windows, Times, Never

(* A window starts no later than the clock reading that gave it. *)
LEMMA WindowOfTime ==
  ASSUME NEW t \in Times
  PROVE  /\ t \div Window \in Windows
         /\ (t \div Window) * Window <= t
<1>1. t \div Window \in Nat /\ (t \div Window) * Window <= t
  OBVIOUS
<1>2. t \div Window <= t
  OBVIOUS
<1> QED BY <1>1, <1>2

(* Windows have a length. *)
LEMMA EndAfterStart ==
  ASSUME NEW w \in Windows
  PROVE  End(w) \in Nat /\ End(w) = w * Window + Window
BY DEF End

(* The state of a request and what is recorded of it agree. *)
Recorded ==
  \A r \in Requests :
    /\ bucket[r] * Window <= readAt[r] /\ readAt[r] <= now
    /\ pc[r] \in {"idle", "incr"} => ~Counted(r)
    /\ pc[r] \in {"expire", "allowed", "denied"} => Counted(r)
    /\ Counted(r) => reply[r] > 0 /\ incrAt[r] <= now
    /\ pc[r] = "expire" => reply[r] = 1

(* A key outlives its window by a second. *)
KeyOutlivesWindow ==
  \A w \in Windows : expiry[w] # Never => expiry[w] > End(w)

(* While requests of a window may be prompt, all were counted on the same key. *)
OneKey ==
  \A r \in Requests :
    Counted(r) /\ now <= End(bucket[r]) => reply[r] <= count[bucket[r]]

(* Prompt requests of a window got different answers. *)
AnswersDiffer ==
  \A r, q \in Requests :
    r # q /\ Prompt(r) /\ Prompt(q) /\ bucket[r] = bucket[q] => reply[r] # reply[q]

LimiterInv == TypeOK /\ Recorded /\ KeyOutlivesWindow /\ OneKey /\ AnswersDiffer

LEMMA InitInv == Init => LimiterInv
BY DEF Init, LimiterInv, TypeOK, Recorded, KeyOutlivesWindow, OneKey,
       AnswersDiffer, Counted, Prompt

(* Reading the clock and failing touch neither the keys nor what is counted. *)
LEMMA QuietInv ==
  ASSUME LimiterInv, NEW r \in Requests, ReadClock(r) \/ FailEarly(r) \/ FailLate(r)
  PROVE  LimiterInv'
<1> USE DEF LimiterInv
<1>1. TypeOK'
  <2>1. CASE ReadClock(r)
    BY <2>1, WindowOfTime DEF ReadClock, TypeOK, redisVars
  <2>2. CASE FailEarly(r) \/ FailLate(r)
    BY <2>2 DEF FailEarly, FailLate, TypeOK, redisVars
  <2> QED BY <2>1, <2>2
<1>2. /\ UNCHANGED <<now, count, expiry, reply, incrAt>>
      /\ \A q \in Requests : q # r \/ Counted(q) => bucket'[q] = bucket[q]
  <2>1. CASE ReadClock(r)
    BY <2>1 DEF ReadClock, TypeOK, redisVars, Recorded
  <2>2. CASE FailEarly(r) \/ FailLate(r)
    BY <2>2 DEF FailEarly, FailLate, redisVars
  <2> QED BY <2>1, <2>2
<1>3. \A q \in Requests : (Counted(q)' <=> Counted(q)) /\ (Prompt(q)' <=> Prompt(q))
  BY <1>2 DEF Counted, Prompt, End
<1>4. Recorded'
  <2>1. CASE ReadClock(r)
    <3>1. PICK w \in Windows :
            /\ w * Window <= now
            /\ bucket' = [bucket EXCEPT ![r] = w]
            /\ readAt' = [readAt EXCEPT ![r] = now]
            /\ pc' = [pc EXCEPT ![r] = "incr"]
            /\ pc[r] = "idle"
      BY <2>1, WindowOfTime DEF ReadClock, TypeOK
    <3>2. ~Counted(r) /\ now \in Nat
      BY <3>1 DEF Recorded, TypeOK
    <3>3. ASSUME NEW q \in Requests, q # r
          PROVE  bucket'[q] = bucket[q] /\ readAt'[q] = readAt[q] /\ pc'[q] = pc[q]
      BY <3>1, <3>3 DEF TypeOK
    <3>4. bucket'[r] = w /\ readAt'[r] = now /\ pc'[r] = "incr"
      BY <3>1 DEF TypeOK
    <3>5. ASSUME NEW q \in Requests
          PROVE  bucket'[q] * Window <= readAt'[q] /\ readAt'[q] <= now
      <4>1. CASE q = r
        BY <3>1, <3>2, <3>4, <4>1
      <4>2. CASE q # r
        BY <3>3, <4>2 DEF Recorded
      <4> QED BY <4>1, <4>2
    <3> QED BY <1>2, <1>3, <3>2, <3>3, <3>4, <3>5 DEF Recorded
  <2>2. CASE FailEarly(r) \/ FailLate(r)
    BY <2>2, <1>3 DEF FailEarly, FailLate, TypeOK, redisVars, Recorded
  <2> QED BY <2>1, <2>2
<1>5. KeyOutlivesWindow'
  BY <1>2 DEF KeyOutlivesWindow, End
<1>6. OneKey'
  BY <1>2, <1>3 DEF OneKey, End
<1>7. AnswersDiffer'
  BY <1>2, <1>3 DEF AnswersDiffer, Prompt
<1> QED BY <1>1, <1>4, <1>5, <1>6, <1>7

(* INCR: the counter is at least the largest answer of a prompt request, so the
   new answer is larger. *)
LEMMA IncrInv ==
  ASSUME LimiterInv, NEW r \in Requests, Incr(r)
  PROVE  LimiterInv'
<1> USE DEF LimiterInv
<1> DEFINE w == bucket[r]
           n == count[w] + 1
<1>1. /\ w \in Windows /\ n \in Nat \ {0}
      /\ count' = [count EXCEPT ![w] = n]
      /\ reply' = [reply EXCEPT ![r] = n]
      /\ incrAt' = [incrAt EXCEPT ![r] = now]
      /\ UNCHANGED <<now, expiry, readAt, bucket>>
  <2>1. w \in Windows /\ n \in Nat \ {0}
    BY DEF TypeOK
  <2>2. count' = [count EXCEPT ![w] = n] /\ count'[w] = n
    BY <2>1 DEF Incr, TypeOK
  <2> QED BY <2>1, <2>2 DEF Incr
<1>2. /\ pc' \in [Requests -> {"idle", "incr", "expire", "allowed", "denied", "error"}]
      /\ \A q \in Requests : q # r => pc'[q] = pc[q]
      /\ pc'[r] \in {"expire", "allowed", "denied", "error"}
      /\ pc'[r] = "allowed" => n <= Limit
      /\ pc'[r] = "expire" => n = 1
  <2>1. PICK next \in {Verdict(n), "error"} : pc' = [pc EXCEPT ![r] = next]
    BY <1>1 DEF Incr, TypeOK
  <2>2. /\ next \in {"expire", "allowed", "denied", "error"}
        /\ next = "allowed" => n <= Limit
        /\ next = "expire" => n = 1
    BY <1>1, <2>1 DEF Verdict
  <2> HIDE DEF n
  <2> QED BY <2>1, <2>2 DEF TypeOK
<1>3. TypeOK'
  <2>1. n <= Limit => n \in 1..Limit
    BY <1>1
  <2> HIDE DEF n
  <2>2. \A q \in Requests : pc'[q] = "allowed" => reply'[q] \in 1..Limit
    <3>1. reply'[r] = n /\ \A q \in Requests : q # r => reply'[q] = reply[q]
      BY <1>1 DEF TypeOK
    <3> QED BY <1>2, <2>1, <3>1 DEF TypeOK
  <2>3. count' \in [Windows -> Nat] /\ reply' \in [Requests -> Nat]
    BY <1>1 DEF TypeOK
  <2>4. incrAt' \in [Requests -> Times \cup {Never}]
    BY <1>1 DEF TypeOK
  <2> QED BY <1>1, <1>2, <2>2, <2>3, <2>4 DEF TypeOK
<1>4. \A q \in Requests :
        /\ q # r => (Counted(q)' <=> Counted(q)) /\ (Prompt(q)' <=> Prompt(q))
        /\ Counted(r)' /\ ~Counted(r)
  BY <1>1 DEF Counted, Prompt, End, TypeOK, Recorded, Incr
<1>5. Recorded'
  <2> SUFFICES ASSUME NEW q \in Requests
               PROVE  /\ bucket[q] * Window <= readAt[q] /\ readAt[q] <= now
                      /\ pc'[q] \in {"idle", "incr"} => ~Counted(q)'
                      /\ pc'[q] \in {"expire", "allowed", "denied"} => Counted(q)'
                      /\ Counted(q)' => reply'[q] > 0 /\ incrAt'[q] <= now
                      /\ pc'[q] = "expire" => reply'[q] = 1
    BY <1>1 DEF Recorded
  <2>1. bucket[q] * Window <= readAt[q] /\ readAt[q] <= now
    BY DEF Recorded
  <2>2. CASE q = r
    BY <1>1, <1>2, <1>4, <2>1, <2>2 DEF TypeOK
  <2>3. CASE q # r
    BY <1>1, <1>2, <1>4, <2>1, <2>3 DEF Recorded, TypeOK
  <2> QED BY <2>2, <2>3
<1>6. KeyOutlivesWindow'
  BY <1>1 DEF KeyOutlivesWindow, End
<1>7. OneKey'
  <2> SUFFICES ASSUME NEW q \in Requests, Counted(q)', now <= End(bucket[q])
               PROVE  reply'[q] <= count'[bucket[q]]
    BY <1>1 DEF OneKey, End
  <2>1. CASE q = r
    BY <1>1, <2>1 DEF TypeOK
  <2>2. CASE q # r
    BY <1>1, <1>4, <2>2 DEF TypeOK, OneKey
  <2> QED BY <2>1, <2>2
<1>8. AnswersDiffer'
  <2>1. ASSUME NEW q \in Requests, q # r, Prompt(r)', Prompt(q)', bucket[q] = w
        PROVE  reply[q] < n
    <3>1. now <= End(w)
      BY <1>1, <2>1 DEF Prompt, TypeOK, End
    <3>2. Counted(q)
      BY <1>4, <2>1 DEF Prompt
    <3> QED BY <1>1, <2>1, <3>1, <3>2 DEF OneKey, TypeOK
  <2> SUFFICES ASSUME NEW q1 \in Requests, NEW q2 \in Requests, q1 # q2,
                      Prompt(q1)', Prompt(q2)', bucket[q1] = bucket[q2]
               PROVE  reply'[q1] # reply'[q2]
    BY <1>1 DEF AnswersDiffer
  <2>2. CASE q1 # r /\ q2 # r
    BY <1>1, <1>4, <2>2 DEF AnswersDiffer, TypeOK
  <2>3. CASE q1 = r
    BY <1>1, <2>1, <2>3 DEF TypeOK
  <2>4. CASE q2 = r
    BY <1>1, <2>1, <2>4 DEF TypeOK
  <2> QED BY <2>2, <2>3, <2>4
<1> QED BY <1>3, <1>5, <1>6, <1>7, <1>8

(* EXPIRE: now is not before the window, so the key outlives it. *)
LEMMA ExpireInv ==
  ASSUME LimiterInv, NEW r \in Requests, Expire(r)
  PROVE  LimiterInv'
<1> USE DEF LimiterInv
<1>1. /\ UNCHANGED <<now, count, readAt, bucket, reply, incrAt>>
      /\ pc[r] = "expire" /\ reply[r] = 1
      /\ \A q \in Requests : q # r => pc'[q] = pc[q]
      /\ pc' \in [Requests -> {"idle", "incr", "expire", "allowed", "denied", "error"}]
      /\ pc'[r] \in {"allowed", "error"}
  BY DEF Expire, TypeOK, Recorded
<1>2. \A q \in Requests : (Counted(q)' <=> Counted(q)) /\ (Prompt(q)' <=> Prompt(q))
  BY <1>1 DEF Counted, Prompt, End
<1>3. /\ expiry' \in [Windows -> Nat \cup {Never}]
      /\ \A w \in Windows : expiry'[w] = expiry[w] \/ (w = bucket[r] /\ expiry'[w] = now + Window + 1)
  BY DEF Expire, TypeOK, Lifetime
<1>4. TypeOK'
  BY <1>1, <1>3 DEF TypeOK
<1>5. Recorded'
  BY <1>1, <1>2 DEF Recorded, TypeOK
<1>6. KeyOutlivesWindow'
  <2>1. now + Window + 1 > End(bucket[r])
    <3>1. bucket[r] \in Windows /\ bucket[r] * Window <= now
      BY DEF TypeOK, Recorded
    <3>2. bucket[r] * Window \in Int
      BY <3>1
    <3> QED BY <3>1, <3>2, EndAfterStart DEF TypeOK
  <2> QED BY <1>3, <2>1 DEF KeyOutlivesWindow, End
<1>7. OneKey'
  BY <1>1, <1>2 DEF OneKey, End
<1>8. AnswersDiffer'
  BY <1>1, <1>2 DEF AnswersDiffer
<1> QED BY <1>4, <1>5, <1>6, <1>7, <1>8

(* Time: a key that expires leaves its window more than a second behind. *)
LEMMA TickInv ==
  ASSUME LimiterInv, Tick
  PROVE  LimiterInv'
<1> USE DEF LimiterInv
<1>1. /\ now' = now + 1 /\ now' \in Times
      /\ UNCHANGED <<pc, readAt, bucket, reply, incrAt>>
  BY DEF Tick, TypeOK, requestVars
<1>2. \A q \in Requests : (Counted(q)' <=> Counted(q)) /\ (Prompt(q)' <=> Prompt(q))
  BY <1>1 DEF Counted, Prompt, End
<1>3. \A w \in Windows :
        \/ count'[w] = count[w] /\ expiry'[w] = expiry[w]
        \/ expiry[w] # Never /\ expiry[w] <= now' /\ expiry'[w] = Never
  BY DEF Tick, Expires
<1>4. TypeOK'
  <2>1. /\ count' \in [Windows -> Nat]
        /\ expiry' \in [Windows -> Nat \cup {Never}]
    BY DEF TypeOK, Tick
  <2> QED BY <1>1, <2>1 DEF TypeOK
<1>5. Recorded'
  <2> SUFFICES ASSUME NEW q \in Requests
               PROVE  /\ bucket[q] * Window <= readAt[q] /\ readAt[q] <= now'
                      /\ pc[q] \in {"idle", "incr"} => ~Counted(q)
                      /\ pc[q] \in {"expire", "allowed", "denied"} => Counted(q)
                      /\ Counted(q) => reply[q] > 0 /\ incrAt[q] <= now'
                      /\ pc[q] = "expire" => reply[q] = 1
    BY <1>1, <1>2 DEF Recorded
  <2>1. readAt[q] \in Int /\ (Counted(q) => incrAt[q] \in Int) /\ now \in Int
    BY DEF TypeOK
  <2>2. bucket[q] * Window <= readAt[q]
    BY DEF Recorded
  <2> QED BY <1>1, <2>1, <2>2 DEF Recorded
<1>6. KeyOutlivesWindow'
  BY <1>3 DEF KeyOutlivesWindow, End
<1>7. OneKey'
  <2> SUFFICES ASSUME NEW q \in Requests, Counted(q), now' <= End(bucket[q])
               PROVE  reply[q] <= count'[bucket[q]]
    BY <1>1, <1>2 DEF OneKey, End
  <2>1. bucket[q] \in Windows /\ End(bucket[q]) \in Nat
    BY EndAfterStart DEF TypeOK
  <2>2. ~(expiry[bucket[q]] # Never /\ expiry[bucket[q]] <= now')
    BY <1>1, <2>1 DEF KeyOutlivesWindow, TypeOK
  <2>3. now <= End(bucket[q])
    BY <1>1, <2>1 DEF TypeOK
  <2> QED BY <1>3, <2>1, <2>2, <2>3 DEF OneKey
<1>8. AnswersDiffer'
  BY <1>1, <1>2 DEF AnswersDiffer
<1> QED BY <1>4, <1>5, <1>6, <1>7, <1>8

LEMMA StepInv == LimiterInv /\ [Next]_vars => LimiterInv'
<1> SUFFICES ASSUME LimiterInv, [Next]_vars
             PROVE  LimiterInv'
  OBVIOUS
<1>1. CASE UNCHANGED vars
  BY <1>1 DEF vars, redisVars, requestVars, LimiterInv, TypeOK, Recorded,
              KeyOutlivesWindow, OneKey, AnswersDiffer, Counted, Prompt, End
<1>2. ASSUME NEW r \in Requests, ReadClock(r) \/ FailEarly(r) \/ FailLate(r)
      PROVE  LimiterInv'
  BY <1>2, QuietInv
<1>3. ASSUME NEW r \in Requests, Incr(r)
      PROVE  LimiterInv'
  BY <1>3, IncrInv
<1>4. ASSUME NEW r \in Requests, Expire(r)
      PROVE  LimiterInv'
  BY <1>4, ExpireInv
<1>5. CASE Tick
  BY <1>5, TickInv
<1> QED BY <1>1, <1>2, <1>3, <1>4, <1>5 DEF Next

(* Every variable keeps its type, and a request is allowed only on an answer
   within the limit. *)
THEOREM LimiterTypeCorrect == Spec => []TypeOK
<1>1. LimiterInv => TypeOK
  BY DEF LimiterInv
<1> QED BY <1>1, InitInv, StepInv, PTL DEF Spec

(* Different numbers up to the limit are at most limit many. *)
LEMMA InvLimits == LimiterInv => PromptWithinLimit
<1> SUFFICES ASSUME LimiterInv, NEW w \in Windows
             PROVE  Cardinality(PromptlyAllowed(w)) <= Limit
  BY DEF PromptWithinLimit
<1> DEFINE P == PromptlyAllowed(w)
           f == [r \in P |-> reply[r]]
<1>1. f \in Injection(P, 1..Limit)
  <2>1. \A r \in P : reply[r] \in 1..Limit
    BY DEF LimiterInv, TypeOK, PromptlyAllowed
  <2>2. \A r, q \in P : r # q => reply[r] # reply[q]
    BY DEF LimiterInv, AnswersDiffer, PromptlyAllowed
  <2> QED BY <2>1, <2>2 DEF Injection, IsInjective
<1>2. IsFiniteSet(1..Limit) /\ Cardinality(1..Limit) = Limit
  BY FS_Interval
<1> HIDE DEF P, f
<1>3. Cardinality(P) <= Cardinality(1..Limit)
  BY <1>1, <1>2, FS_Injection
<1> QED BY <1>2, <1>3 DEF P

(* The requests of a window are within the limit as long as they are at most a
   second late, for every number of requests, limit, window and delay. *)
THEOREM LimiterKeepsLimit == Spec => []PromptWithinLimit
BY InitInv, StepInv, InvLimits, PTL DEF Spec

-----------------------------------------------------------------------------
(* Denials *)

(* A key never counts more than was asked of it. *)
CountBounded ==
  \A w \in Windows : count[w] <= Cardinality(CountedIn(w))

DenialInv == CountBounded /\ DenialJustified

LEMMA CountedFinite ==
  ASSUME NEW w
  PROVE  /\ IsFiniteSet(CountedIn(w))
         /\ Cardinality(CountedIn(w)) \in Nat
BY FS_Subset, FS_CardinalityType DEF CountedIn

(* A step that counts no request leaves both parts alone. *)
LEMMA DenialQuiet ==
  ASSUME LimiterInv, DenialInv,
         \A w \in Windows : CountedIn(w)' = CountedIn(w),
         \A w \in Windows : count'[w] = count[w] \/ count'[w] = 0,
         \A r \in Requests : pc'[r] = "denied" => pc[r] = "denied" /\ bucket'[r] = bucket[r]
  PROVE  DenialInv'
<1>1. CountBounded'
  BY CountedFinite DEF DenialInv, CountBounded
<1>2. DenialJustified'
  BY DEF DenialInv, DenialJustified, LimiterInv, TypeOK
<1> QED BY <1>1, <1>2 DEF DenialInv

(* INCR counts one request more, and denies it on a count above the limit. *)
LEMMA DenialIncr ==
  ASSUME LimiterInv, DenialInv, NEW r \in Requests, Incr(r)
  PROVE  DenialInv'
<1>0. PICK v \in Windows : v = bucket[r]
  BY DEF LimiterInv, TypeOK
<1> DEFINE C(w) == CountedIn(w)
<1>1. /\ count' = [count EXCEPT ![v] = count[v] + 1]
      /\ count'[v] = count[v] + 1 /\ count[v] \in Nat
      /\ incrAt' = [incrAt EXCEPT ![r] = now] /\ now # Never
      /\ reply'[r] = count[v] + 1
      /\ bucket' = bucket
      /\ pc[r] = "incr"
  BY <1>0 DEF Incr, LimiterInv, TypeOK
<1>2. ~Counted(r)
  BY <1>1 DEF LimiterInv, Recorded
<1>3. /\ CountedIn(v)' = C(v) \cup {r} /\ r \notin C(v)
      /\ \A w \in Windows : w # v => CountedIn(w)' = C(w)
  BY <1>0, <1>1, <1>2 DEF CountedIn, Counted, LimiterInv, TypeOK
<1>4. Cardinality(CountedIn(v)') = Cardinality(C(v)) + 1
  BY <1>3, CountedFinite, FS_AddElement
<1>5. CountBounded'
  <2> SUFFICES ASSUME NEW w \in Windows
               PROVE  count'[w] <= Cardinality(CountedIn(w)')
    BY DEF CountBounded
  <2>1. count[w] <= Cardinality(C(w)) /\ Cardinality(C(w)) \in Nat /\ count[w] \in Nat
    BY CountedFinite DEF DenialInv, CountBounded, LimiterInv, TypeOK
  <2>2. CASE w = v
    BY <1>1, <1>4, <2>1, <2>2
  <2>3. CASE w # v
    BY <1>1, <1>3, <2>1, <2>3 DEF LimiterInv, TypeOK
  <2> QED BY <2>2, <2>3
<1>6. DenialJustified'
  <2> SUFFICES ASSUME NEW q \in Requests, pc'[q] = "denied"
               PROVE  Cardinality(CountedIn(bucket[q])') > Limit
    BY <1>1 DEF DenialJustified
  <2>1. CASE q = r
    <3>1. count[v] + 1 > Limit
      <4>1. PICK next \in {Verdict(reply'[r]), "error"} : pc' = [pc EXCEPT ![r] = next]
        BY DEF Incr
      <4>2. next = "denied"
        BY <1>1, <2>1, <4>1 DEF LimiterInv, TypeOK
      <4> QED BY <1>1, <4>1, <4>2 DEF Verdict
    <3>2. count[v] + 1 <= Cardinality(CountedIn(v)')
      BY <1>1, <1>5 DEF CountBounded
    <3>3. Cardinality(CountedIn(v)') \in Nat
      BY <1>4, CountedFinite
    <3>4. CountedIn(bucket[q])' = CountedIn(v)'
      BY <1>0, <1>1, <2>1 DEF CountedIn
    <3> QED BY <1>1, <3>1, <3>2, <3>3, <3>4
  <2>2. CASE q # r
    <3>1. pc[q] = "denied"
      <4>1. PICK next \in {Verdict(reply'[r]), "error"} : pc' = [pc EXCEPT ![r] = next]
        BY DEF Incr
      <4> QED BY <2>2, <4>1 DEF LimiterInv, TypeOK
    <3>2. Cardinality(C(bucket[q])) > Limit /\ bucket[q] \in Windows
      BY <3>1 DEF DenialInv, DenialJustified, LimiterInv, TypeOK
    <3>3. Cardinality(C(bucket[q])) \in Nat
      BY CountedFinite
    <3>4. Cardinality(CountedIn(v)) > Limit => Cardinality(CountedIn(v)') > Limit
      BY <1>4, CountedFinite
    <3>5. PICK w \in Windows : w = bucket[q]
      BY <3>2
    <3>6. Cardinality(CountedIn(w)') > Limit
      <4>1. CASE w = v
        BY <3>2, <3>4, <3>5, <4>1
      <4>2. CASE w # v
        BY <1>3, <3>2, <3>5, <4>2
      <4> QED BY <4>1, <4>2
    <3> QED BY <1>1, <3>5, <3>6
  <2> QED BY <2>1, <2>2
<1> QED BY <1>5, <1>6 DEF DenialInv

LEMMA DenialStep == LimiterInv /\ DenialInv /\ [Next]_vars => DenialInv'
<1> SUFFICES ASSUME LimiterInv, DenialInv, [Next]_vars
             PROVE  DenialInv'
  OBVIOUS
<1>1. CASE UNCHANGED vars
  BY <1>1, DenialQuiet DEF vars, redisVars, requestVars, CountedIn, Counted
<1>2. ASSUME NEW r \in Requests, ReadClock(r)
      PROVE  DenialInv'
  <2>1. ~Counted(r) /\ incrAt' = incrAt /\ count' = count
    BY <1>2 DEF ReadClock, redisVars, LimiterInv, Recorded
  <2>2. \A q \in Requests : Counted(q) => bucket'[q] = bucket[q]
    BY <1>2, <2>1 DEF ReadClock, LimiterInv, TypeOK
  <2>3. \A w \in Windows : CountedIn(w)' = CountedIn(w)
    BY <2>1, <2>2 DEF CountedIn, Counted
  <2>4. \A q \in Requests : pc'[q] = "denied" => pc[q] = "denied" /\ bucket'[q] = bucket[q]
    BY <1>2 DEF ReadClock, LimiterInv, TypeOK
  <2> QED BY <2>1, <2>3, <2>4, DenialQuiet
<1>3. ASSUME NEW r \in Requests, FailEarly(r) \/ FailLate(r) \/ Expire(r)
      PROVE  DenialInv'
  <2>1. UNCHANGED <<count, bucket, incrAt>>
    BY <1>3 DEF FailEarly, FailLate, Expire, redisVars
  <2>2. \A q \in Requests : pc'[q] = "denied" => pc[q] = "denied"
    BY <1>3 DEF FailEarly, FailLate, Expire, LimiterInv, TypeOK
  <2>3. \A w \in Windows : CountedIn(w)' = CountedIn(w)
    BY <2>1 DEF CountedIn, Counted
  <2> QED BY <2>1, <2>2, <2>3, DenialQuiet
<1>4. ASSUME NEW r \in Requests, Incr(r)
      PROVE  DenialInv'
  BY <1>4, DenialIncr
<1>5. CASE Tick
  <2>1. UNCHANGED <<pc, bucket, incrAt>>
    BY <1>5 DEF Tick, requestVars
  <2>2. \A w \in Windows : count'[w] = count[w] \/ count'[w] = 0
    BY <1>5 DEF Tick
  <2>3. \A w \in Windows : CountedIn(w)' = CountedIn(w)
    BY <2>1 DEF CountedIn, Counted
  <2> QED BY <2>1, <2>2, <2>3, DenialQuiet
<1> QED BY <1>1, <1>2, <1>3, <1>4, <1>5 DEF Next

LEMMA DenialInit == Init => DenialInv
<1> SUFFICES ASSUME Init
             PROVE  DenialInv
  OBVIOUS
<1>1. CountBounded
  BY CountedFinite DEF Init, CountBounded
<1>2. DenialJustified
  BY DEF Init, DenialJustified
<1> QED BY <1>1, <1>2 DEF DenialInv

(* Nobody is turned away before more requests of the window than the limit were
   counted. *)
THEOREM LimiterDeniesJustly == Spec => []DenialJustified
<1>1. DenialInv => DenialJustified
  BY DEF DenialInv
<1> QED BY <1>1, InitInv, StepInv, DenialInit, DenialStep, PTL DEF Spec

-----------------------------------------------------------------------------
(* Keys without an expiry *)

(* A request that explains the key of window w, whether or not that has an
   expiry: it created the key, and has still to set the expiry or failed. *)
Explains(q, w) ==
  pc[q] \in {"expire", "error"} /\ bucket[q] = w /\ reply[q] = 1

(* A step that neither counts nor sets an expiry keeps every explanation. *)
LEMMA ExplainedQuiet ==
  ASSUME UnexpiringKeyExplained,
         \A w \in Windows : count'[w] > 0 /\ expiry'[w] = Never =>
                              count[w] > 0 /\ expiry[w] = Never,
         \A q \in Requests, w \in Windows : Explains(q, w) => Explains(q, w)'
  PROVE  UnexpiringKeyExplained'
BY DEF UnexpiringKeyExplained, Explains

(* INCR: a key that was there is explained as before; a new one, on which the
   answer is 1, is explained by the request itself. *)
LEMMA ExplainedIncr ==
  ASSUME LimiterInv, UnexpiringKeyExplained, NEW r \in Requests, Incr(r)
  PROVE  UnexpiringKeyExplained'
<1>0. PICK v \in Windows : v = bucket[r]
  BY DEF LimiterInv, TypeOK
<1>1. /\ count' = [count EXCEPT ![v] = count[v] + 1]
      /\ count'[v] = count[v] + 1 /\ count[v] \in Nat
      /\ reply' = [reply EXCEPT ![r] = count[v] + 1]
      /\ bucket' = bucket /\ expiry' = expiry
      /\ pc[r] = "incr"
  BY <1>0 DEF Incr, LimiterInv, TypeOK
<1>2. PICK next \in {Verdict(reply'[r]), "error"} : pc' = [pc EXCEPT ![r] = next]
  BY DEF Incr
<1>3. \A q \in Requests, w \in Windows : Explains(q, w) => Explains(q, w)'
  <2> SUFFICES ASSUME NEW q \in Requests, NEW w \in Windows, Explains(q, w)
               PROVE  Explains(q, w)'
    OBVIOUS
  <2>1. q # r
    BY <1>1 DEF Explains
  <2> QED BY <1>1, <1>2, <2>1 DEF Explains, LimiterInv, TypeOK
<1> SUFFICES ASSUME NEW w \in Windows, count'[w] > 0, expiry'[w] = Never
             PROVE  \E q \in Requests : Explains(q, w)'
  BY DEF UnexpiringKeyExplained, Explains
<1>4. CASE count[w] > 0
  <2>1. \E q \in Requests : Explains(q, w)
    BY <1>1, <1>4 DEF UnexpiringKeyExplained, Explains
  <2> QED BY <1>3, <2>1
<1>5. CASE ~(count[w] > 0)
  <2>1. w = v /\ count[v] = 0
    BY <1>1, <1>5 DEF LimiterInv, TypeOK
  <2>2. reply'[r] = 1
    BY <1>1, <2>1 DEF LimiterInv, TypeOK
  <2>3. pc'[r] \in {"expire", "error"}
    <3>1. next \in {"expire", "error"}
      BY <1>2, <2>2 DEF Verdict
    <3> QED BY <1>2, <3>1 DEF LimiterInv, TypeOK
  <2>4. Explains(r, w)'
    BY <1>0, <1>1, <2>1, <2>2, <2>3 DEF Explains
  <2> QED BY <2>4
<1> QED BY <1>4, <1>5

(* EXPIRE: the key of the request that leaves gets an expiry, if it is there. *)
LEMMA ExplainedExpire ==
  ASSUME LimiterInv, UnexpiringKeyExplained, NEW r \in Requests, Expire(r)
  PROVE  UnexpiringKeyExplained'
<1>1. /\ UNCHANGED <<count, bucket, reply>>
      /\ \A q \in Requests : q # r => pc'[q] = pc[q]
  BY DEF Expire, LimiterInv, TypeOK
<1>2. \A w \in Windows :
        IF w = bucket[r] /\ count[w] > 0
        THEN expiry'[w] # Never
        ELSE expiry'[w] = expiry[w]
  BY DEF Expire, Lifetime, LimiterInv, TypeOK
<1> SUFFICES ASSUME NEW w \in Windows, count'[w] > 0, expiry'[w] = Never
             PROVE  \E q \in Requests : Explains(q, w)'
  BY DEF UnexpiringKeyExplained, Explains
<1>3. w # bucket[r] /\ count[w] > 0 /\ expiry[w] = Never
  BY <1>1, <1>2
<1>4. PICK q \in Requests : Explains(q, w)
  BY <1>3 DEF UnexpiringKeyExplained, Explains
<1>5. q # r
  BY <1>3, <1>4 DEF Explains
<1> QED BY <1>1, <1>4, <1>5 DEF Explains

LEMMA ExplainedStep ==
  LimiterInv /\ UnexpiringKeyExplained /\ [Next]_vars => UnexpiringKeyExplained'
<1> SUFFICES ASSUME LimiterInv, UnexpiringKeyExplained, [Next]_vars
             PROVE  UnexpiringKeyExplained'
  OBVIOUS
<1>1. CASE UNCHANGED vars
  BY <1>1 DEF vars, redisVars, requestVars, UnexpiringKeyExplained
<1>2. ASSUME NEW r \in Requests, ReadClock(r) \/ FailEarly(r) \/ FailLate(r)
      PROVE  UnexpiringKeyExplained'
  <2>1. UNCHANGED <<count, expiry, reply>>
    BY <1>2 DEF ReadClock, FailEarly, FailLate, redisVars
  <2>2. \A q \in Requests, w \in Windows : Explains(q, w) => Explains(q, w)'
    <3>1. CASE ReadClock(r)
      BY <3>1 DEF ReadClock, Explains, LimiterInv, TypeOK
    <3>2. CASE FailEarly(r) \/ FailLate(r)
      BY <3>2 DEF FailEarly, FailLate, Explains, LimiterInv, TypeOK
    <3> QED BY <1>2, <3>1, <3>2
  <2> QED BY <2>1, <2>2, ExplainedQuiet
<1>3. ASSUME NEW r \in Requests, Incr(r)
      PROVE  UnexpiringKeyExplained'
  BY <1>3, ExplainedIncr
<1>4. ASSUME NEW r \in Requests, Expire(r)
      PROVE  UnexpiringKeyExplained'
  BY <1>4, ExplainedExpire
<1>5. CASE Tick
  <2>1. UNCHANGED <<pc, bucket, reply>>
    BY <1>5 DEF Tick, requestVars
  <2>2. \A w \in Windows : count'[w] > 0 /\ expiry'[w] = Never =>
                             count[w] > 0 /\ expiry[w] = Never
    BY <1>5 DEF Tick, Expires
  <2>3. \A q \in Requests, w \in Windows : Explains(q, w) => Explains(q, w)'
    BY <2>1 DEF Explains
  <2> QED BY <2>2, <2>3, ExplainedQuiet
<1> QED BY <1>1, <1>2, <1>3, <1>4, <1>5 DEF Next

(* A key can stay for ever only if the request that created it failed before
   its EXPIRE. *)
THEOREM LimiterExplainsKeys == Spec => []UnexpiringKeyExplained
<1>1. Init => UnexpiringKeyExplained
  BY DEF Init, UnexpiringKeyExplained
<1> QED BY <1>1, InitInv, StepInv, ExplainedStep, PTL DEF Spec

=============================================================================
