------------------------------ MODULE ApiProofs ------------------------------
(***************************************************************************)
(* What the API and the replay command do, for any number of runs,         *)
(* requests and connections: the pool is given back exactly, jobs are      *)
(* doubled only by runs that could not tell, and a listing has the rows it *)
(* should have.  The argument for the listings: the rows that the query    *)
(* chose are the youngest that match, the reader has a prefix of them, and *)
(* later jobs, which are younger, change neither.                          *)
(***************************************************************************)
EXTENDS Api, FiniteSetTheorems, TLAPS

USE ApiAssumption

-----------------------------------------------------------------------------
(* The replay command and its rows *)

RunsTyped ==
  /\ run \in [Runs -> {"idle", "connecting", "sent", "enqueued", "rejected", "failed"}]
  /\ args \in [Runs -> Ranges \cup {NoArgs}]
  /\ up \in BOOLEAN
  /\ txn \in [Runs -> {"none", "open", "committed", "aborted"}]

(* The transaction of a run begins when it sends its INSERT, and a run that says
   "enqueued" is right. *)
RunsKnow ==
  \A c \in Runs :
    /\ run[c] \in {"idle", "connecting", "rejected"} => txn[c] = "none"
    /\ run[c] = "sent" => txn[c] # "none"
    /\ run[c] = "enqueued" => txn[c] = "committed"

(* Of two runs for the same range one has ended without a job that it knows of. *)
OneAsk ==
  \A c, d \in Runs :
    c # d /\ run[c] # "idle" /\ run[d] # "idle" /\ args[c] = args[d] =>
      run[c] \in {"rejected", "failed"} \/ run[d] \in {"rejected", "failed"}

RunsInv == RunsTyped /\ RunsKnow /\ OneAsk

LEMMA RunsInit == Init => RunsInv
BY DEF Init, RunsInv, RunsTyped, RunsKnow, OneAsk

LEMMA LaunchRuns ==
  ASSUME RunsInv, NEW c \in Runs, Launch(c)
  PROVE  RunsInv'
<1> USE DEF RunsInv
<1>1. /\ run[c] = "idle"
      /\ UNCHANGED <<up, txn>>
  BY DEF Launch, dbVars
<1>2. PICK a \in Ranges, to \in {"connecting", "rejected"} :
        /\ MayAsk(a)
        /\ args' = [args EXCEPT ![c] = a]
        /\ run' = [run EXCEPT ![c] = to]
  BY DEF Launch
<1>3. RunsTyped'
  BY <1>1, <1>2 DEF RunsTyped
<1>4. RunsKnow'
  BY <1>1, <1>2 DEF RunsTyped, RunsKnow
<1>5. OneAsk'
  <2>1. \A d \in Runs : d # c => run'[d] = run[d] /\ args'[d] = args[d]
    BY <1>2 DEF RunsTyped
  <2>2. \A d \in Runs : d # c /\ args[d] = args'[c] => run[d] \in {"rejected", "failed"}
    BY <1>2 DEF RunsTyped, MayAsk
  <2> QED BY <2>1, <2>2 DEF OneAsk
<1> QED BY <1>3, <1>4, <1>5

(* A run that is on its way changes its own state only. *)
LEMMA RunMoves ==
  ASSUME RunsInv, NEW c \in Runs,
         Insert(c) \/ EndTransaction(c) \/ Enqueued(c) \/ InsertFails(c)
  PROVE  RunsInv'
<1> USE DEF RunsInv
<1>1. UNCHANGED <<args, up>>
  BY DEF Insert, EndTransaction, Enqueued, InsertFails, runVars, dbVars
<1>2. CASE Insert(c)
  <2>1. run' = [run EXCEPT ![c] = "sent"] /\ txn' = [txn EXCEPT ![c] = "open"]
    BY <1>2 DEF Insert
  <2>2. run[c] = "connecting"
    BY <1>2 DEF Insert
  <2> QED BY <1>1, <2>1, <2>2 DEF RunsTyped, RunsKnow, OneAsk
<1>3. CASE EndTransaction(c)
  <2>1. run' = run /\ txn[c] = "open"
    BY <1>3 DEF EndTransaction, runVars
  <2>2. PICK end \in {"committed", "aborted"} : txn' = [txn EXCEPT ![c] = end]
    BY <1>3 DEF EndTransaction
  <2> QED BY <1>1, <2>1, <2>2 DEF RunsTyped, RunsKnow, OneAsk
<1>4. CASE Enqueued(c)
  <2>1. run' = [run EXCEPT ![c] = "enqueued"] /\ txn' = txn
    BY <1>4 DEF Enqueued, dbVars
  <2>2. run[c] = "sent" /\ txn[c] = "committed"
    BY <1>4 DEF Enqueued, Succeeds
  <2> QED BY <1>1, <2>1, <2>2 DEF RunsTyped, RunsKnow, OneAsk
<1>5. CASE InsertFails(c)
  <2>1. run' = [run EXCEPT ![c] = "failed"] /\ txn' = txn
    BY <1>5 DEF InsertFails, dbVars
  <2>2. run[c] \in {"connecting", "sent"}
    BY <1>5 DEF InsertFails
  <2> QED BY <1>1, <2>1, <2>2 DEF RunsTyped, RunsKnow, OneAsk
<1> QED BY <1>2, <1>3, <1>4, <1>5

(* What a request does. *)
RequestStep(r) ==
  Arrive(r) \/ Leave(r) \/ Acquire(r) \/ HandleList(r) \/ HandleReady(r)

(* Requests only read what the runs write. *)
LEMMA RequestsRead ==
  ASSUME NEW r \in Requests, RequestStep(r)
  PROVE  UNCHANGED <<runVars, dbVars>>
BY DEF RequestStep, Arrive, Leave, Acquire, HandleList, RunQuery, QueryFails, ReadRow,
       ScanFails, Listed, HandleReady

LEMMA RunsStep == ASSUME RunsInv, [Next]_vars PROVE RunsInv'
<1>1. ASSUME NEW c \in Runs,
             Launch(c) \/ Insert(c) \/ EndTransaction(c) \/ Enqueued(c) \/ InsertFails(c)
      PROVE  RunsInv'
  BY <1>1, LaunchRuns, RunMoves
<1>2. ASSUME UNCHANGED <<runVars, txn>>, up' \in BOOLEAN
      PROVE  RunsInv'
  BY <1>2 DEF runVars, RunsInv, RunsTyped, RunsKnow, OneAsk
<1>3. ASSUME NEW r \in Requests, RequestStep(r)
      PROVE  RunsInv'
  BY <1>2, <1>3, RequestsRead DEF dbVars, RunsInv, RunsTyped
<1>4. CASE Toggle
  BY <1>2, <1>4 DEF Toggle
<1>5. CASE UNCHANGED vars
  BY <1>2, <1>5 DEF vars, dbVars, RunsInv, RunsTyped
<1> QED BY <1>1, <1>3, <1>4, <1>5 DEF Next, RequestStep

LEMMA RunsInvariant == Spec => []RunsInv
BY RunsInit, RunsStep, PTL DEF Spec

(* A run that says "enqueued" has its job, and two jobs for what an operator
   wanted once exist only if a run before could not tell what became of its
   INSERT. *)
THEOREM ApiJobsAccounted == Spec => []JobsAccounted
<1>1. RunsInv => JobsAccounted
  BY DEF RunsInv, RunsTyped, RunsKnow, OneAsk, JobsAccounted, Jobs
<1> QED BY <1>1, RunsInvariant, PTL

-----------------------------------------------------------------------------
(* The pool *)

Holders == {r \in Requests : pc[r] \in {"query", "reading"}}

PcTyped == pc \in [Requests -> {"idle", "acquire", "query", "reading", "listed"}]

(* However many requests there are, finitely many have a connection. *)
PoolInv ==
  /\ PcTyped
  /\ free \in Nat
  /\ IsFiniteSet(Holders)
  /\ free + Cardinality(Holders) = MaxConns

LEMMA PoolInit == Init => PoolInv
<1> SUFFICES ASSUME Init PROVE PoolInv
  OBVIOUS
<1>1. Holders = {}
  BY DEF Init, Holders
<1> QED BY <1>1, FS_EmptySet DEF Init, PoolInv, PcTyped

(* A request takes a connection only when one is free. *)
LEMMA TakesOne ==
  ASSUME PoolInv, NEW r \in Requests, Acquire(r)
  PROVE  PoolInv'
<1>1. /\ pc[r] = "acquire" /\ free > 0 /\ free' = free - 1
      /\ pc' = [pc EXCEPT ![r] = "query"]
  BY DEF Acquire
<1>2. PcTyped' /\ Holders' = Holders \cup {r} /\ r \notin Holders
  BY <1>1 DEF PoolInv, PcTyped, Holders
<1>3. IsFiniteSet(Holders) /\ Cardinality(Holders) \in Nat
  BY FS_CardinalityType DEF PoolInv
<1>4. IsFiniteSet(Holders') /\ Cardinality(Holders') = Cardinality(Holders) + 1
  BY <1>2, <1>3, FS_AddElement
<1> QED BY <1>1, <1>2, <1>3, <1>4 DEF PoolInv

(* A request that leaves its handler gives back what it has. *)
LEMMA GivesBack ==
  ASSUME PoolInv, NEW r \in Requests, NEW to \in {"idle", "listed"},
         pc' = [pc EXCEPT ![r] = to], free' = free + GivenBack(r)
  PROVE  PoolInv'
<1>1. PcTyped' /\ Holders' = Holders \ {r}
  BY DEF PoolInv, PcTyped, Holders
<1>2. IsFiniteSet(Holders) /\ Cardinality(Holders) \in Nat
  BY FS_CardinalityType DEF PoolInv
<1>3. /\ IsFiniteSet(Holders')
      /\ Cardinality(Holders') = IF r \in Holders THEN Cardinality(Holders) - 1
                                                  ELSE Cardinality(Holders)
  BY <1>1, <1>2, FS_RemoveElement
<1>4. free' = IF r \in Holders THEN free + 1 ELSE free
  BY DEF GivenBack, Holders, PoolInv
<1> QED BY <1>1, <1>2, <1>3, <1>4 DEF PoolInv

(* A request that keeps what it has. *)
LEMMA KeepsIt ==
  ASSUME PoolInv, PcTyped', Holders' = Holders, free' = free
  PROVE  PoolInv'
BY DEF PoolInv

LEMMA PoolStep == ASSUME PoolInv, [Next]_vars PROVE PoolInv'
<1>1. ASSUME UNCHANGED <<pc, free>>
      PROVE  PoolInv'
  BY <1>1, KeepsIt DEF PoolInv, PcTyped, Holders
<1>2. ASSUME NEW c \in Runs,
             Launch(c) \/ Insert(c) \/ EndTransaction(c) \/ Enqueued(c) \/ InsertFails(c)
      PROVE  PoolInv'
  BY <1>1, <1>2 DEF Launch, Insert, EndTransaction, Enqueued, InsertFails
<1>3. ASSUME NEW r \in Requests, RequestStep(r)
      PROVE  PoolInv'
  <2>1. CASE Arrive(r)
    BY <2>1, KeepsIt DEF Arrive, PoolInv, PcTyped, Holders
  <2>2. CASE Leave(r)
    BY <2>2, KeepsIt DEF Leave, Answer, PoolInv, PcTyped, Holders
  <2>3. CASE Acquire(r)
    BY <2>3, TakesOne
  <2>4. CASE RunQuery(r)
    BY <2>4, KeepsIt DEF RunQuery, PoolInv, PcTyped, Holders
  <2>5. CASE ReadRow(r)
    BY <2>5, <1>1 DEF ReadRow
  <2>6. CASE QueryFails(r) \/ ScanFails(r) \/ HandleReady(r)
    BY <2>6, GivesBack DEF QueryFails, ScanFails, HandleReady, Answer
  <2>7. CASE \E broken \in BOOLEAN : Listed(r, broken)
    BY <2>7, GivesBack DEF Listed
  <2> QED BY <1>3, <2>1, <2>2, <2>3, <2>4, <2>5, <2>6, <2>7 DEF RequestStep, HandleList
<1>4. CASE Toggle \/ UNCHANGED vars
  BY <1>1, <1>4 DEF Toggle, vars
<1> QED BY <1>2, <1>3, <1>4 DEF Next, RequestStep

LEMMA PoolInvariant == Spec => []PoolInv
BY PoolInit, PoolStep, PTL DEF Spec

(* Every connection is free or with a request that uses it: none is lost on any
   way out of a handler, and none is given back twice. *)
THEOREM ApiPoolExact == Spec => []PoolExact
<1>1. PoolInv => PoolExact
  BY DEF PoolInv, PoolExact, Holders
<1> QED BY <1>1, PoolInvariant, PTL

-----------------------------------------------------------------------------
(* Order and limit of a query *)

(* Places of a sequence are finitely many positive numbers. *)
LEMMA PlacesFinite ==
  ASSUME NEW S, NEW s \in Seq(S), NEW P \in SUBSET DOMAIN s
  PROVE  /\ P \subseteq Nat \ {0}
         /\ IsFiniteSet(P)
<1>1. DOMAIN s = 1..Len(s) /\ Len(s) \in Nat
  OBVIOUS
<1>2. IsFiniteSet(1..Len(s))
  BY <1>1, FS_Interval
<1> QED BY <1>1, <1>2, FS_Subset

(* The rank of a place is less than the number of places, and grows with it. *)
LEMMA RankGrows ==
  ASSUME NEW P \in SUBSET Nat, IsFiniteSet(P)
  PROVE  /\ Cardinality(P) \in Nat
         /\ \A p \in P : Rank(P, p) \in 0..(Cardinality(P) - 1)
         /\ \A p, q \in P : p < q => Rank(P, p) < Rank(P, q)
<1> DEFINE Below(p) == {x \in P : x < p}
<1>1. Cardinality(P) \in Nat
  BY FS_CardinalityType
<1>2. ASSUME NEW p \in P, NEW Q \in SUBSET P, p \in Q, Below(p) \subseteq Q
      PROVE  /\ Rank(P, p) \in Nat /\ Cardinality(Q) \in Nat
             /\ Rank(P, p) < Cardinality(Q)
  <2>1. IsFiniteSet(Q) /\ Cardinality(Q) \in Nat
    BY FS_Subset, FS_CardinalityType
  <2>2. IsFiniteSet(Below(p))
    BY FS_Subset
  <2>3. p \notin Below(p)
    OBVIOUS
  <2>4. Cardinality(Below(p)) \in Nat
    BY <2>2, FS_CardinalityType
  <2>5. Cardinality(Below(p) \cup {p}) = Cardinality(Below(p)) + 1
    BY <2>2, <2>3, FS_AddElement
  <2>6. Below(p) \cup {p} \in SUBSET Q
    BY <1>2
  <2>7. Cardinality(Below(p) \cup {p}) <= Cardinality(Q)
    BY <2>1, <2>6, FS_Subset
  <2> HIDE DEF Below
  <2>8. Cardinality(Below(p)) < Cardinality(Q)
    BY <2>1, <2>4, <2>5, <2>7
  <2> QED BY <2>1, <2>4, <2>8 DEF Rank, Below
<1>3. ASSUME NEW p \in P
      PROVE  Rank(P, p) \in 0..(Cardinality(P) - 1)
  <2>1. P \in SUBSET P /\ Below(p) \subseteq P
    OBVIOUS
  <2>2. Rank(P, p) \in Nat /\ Rank(P, p) < Cardinality(P)
    BY <1>2, <2>1
  <2> QED BY <1>1, <2>2
<1>4. ASSUME NEW p \in P, NEW q \in P, p < q
      PROVE  Rank(P, p) < Rank(P, q)
  <2>0. \A x \in P : x < p => x < q
    BY <1>4
  <2>1. Below(q) \in SUBSET P /\ p \in Below(q) /\ Below(p) \subseteq Below(q)
    BY <1>4, <2>0
  <2>2. Rank(P, p) < Cardinality(Below(q))
    BY <1>2, <2>1
  <2> QED BY <2>2 DEF Rank
<1> QED BY <1>1, <1>3, <1>4

(* Every number below that of the places is the rank of one of them: ranks are
   different, and there are no more of them. *)
LEMMA RankReaches ==
  ASSUME NEW P \in SUBSET Nat, IsFiniteSet(P), NEW k \in 0..(Cardinality(P) - 1)
  PROVE  \E p \in P : Rank(P, p) = k
<1> DEFINE n == Cardinality(P)
           T == 0..(n - 1)
           f == [p \in P |-> Rank(P, p)]
<1>1. n \in Nat
  BY RankGrows
<1>2. \A p, q \in P : Rank(P, p) = Rank(P, q) => p = q
  <2> SUFFICES ASSUME NEW p \in P, NEW q \in P, Rank(P, p) = Rank(P, q), p # q
               PROVE  FALSE
    OBVIOUS
  <2>1. p < q \/ q < p
    OBVIOUS
  <2>2. Rank(P, p) \in Int /\ Rank(P, q) \in Int
    BY <1>1, RankGrows
  <2>3. Rank(P, p) < Rank(P, q) \/ Rank(P, q) < Rank(P, p)
    BY <2>1, RankGrows
  <2> QED BY <2>2, <2>3
<1>3. f \in Injection(P, T)
  BY <1>2, RankGrows DEF Injection, IsInjective
<1>4. IsFiniteSet(T) /\ Cardinality(T) = n
  <2>1. n - 1 \in Int
    BY <1>1
  <2> QED BY <1>1, <2>1, FS_Interval
<1> HIDE DEF f, T
<1>5. f \in Surjection(P, T)
  BY <1>3, <1>4, FS_Injection DEF n
<1>6. k \in T
  BY DEF T
<1>7. PICK p \in P : f[p] = k
  BY <1>5, <1>6 DEF Surjection
<1> QED BY <1>7 DEF f

(* The place with i - 1 places before it. *)
Nth(P, i) == CHOOSE p \in P : Rank(P, p) = i - 1

(* F has the rows of s at growing places, no more than n, and a place that it
   leaves out comes after all of them, with the limit used up. *)
AreFirst(F, s, P, n) ==
  /\ Len(F) <= n
  /\ \A i \in DOMAIN F : Nth(P, i) \in P /\ F[i] = s[Nth(P, i)]
  /\ \A i, j \in DOMAIN F : i < j => Nth(P, i) < Nth(P, j)
  /\ \A p \in P : \/ \E i \in DOMAIN F : Nth(P, i) = p
                  \/ Len(F) = n /\ \A i \in DOMAIN F : Nth(P, i) < p

(* What FirstRows returns. *)
LEMMA FirstRowsAre ==
  ASSUME NEW S, NEW s \in Seq(S), NEW P \in SUBSET DOMAIN s, NEW n \in Nat,
         NEW F, F = FirstRows(s, P, n)
  PROVE  F \in Seq(S) /\ AreFirst(F, s, P, n)
<1> DEFINE k == IF Cardinality(P) < n THEN Cardinality(P) ELSE n
<1>1. P \in SUBSET Nat /\ IsFiniteSet(P)
  BY PlacesFinite
<1>2. Cardinality(P) \in Nat /\ k \in Nat /\ k <= Cardinality(P) /\ k <= n
  BY <1>1, RankGrows
<1>3. \A i \in 1..k : Nth(P, i) \in P /\ Rank(P, Nth(P, i)) = i - 1
  <2> SUFFICES ASSUME NEW i \in 1..k
               PROVE  Nth(P, i) \in P /\ Rank(P, Nth(P, i)) = i - 1
    OBVIOUS
  <2>1. i - 1 \in 0..(Cardinality(P) - 1)
    BY <1>2
  <2>2. \E p \in P : Rank(P, p) = i - 1
    BY <1>1, <2>1, RankReaches
  <2> QED BY <2>2 DEF Nth
<1>4. F = [i \in 1..k |-> s[Nth(P, i)]]
  BY DEF FirstRows, Nth
<1>5. \A p \in P : p \in DOMAIN s /\ s[p] \in S
  OBVIOUS
<1> HIDE DEF k
<1>6. \A i \in 1..k : s[Nth(P, i)] \in S
  BY <1>3, <1>5
<1>7. F \in Seq(S) /\ Len(F) = k /\ DOMAIN F = 1..k
  BY <1>2, <1>4, <1>6
<1>8. \A i \in DOMAIN F : Nth(P, i) \in P /\ F[i] = s[Nth(P, i)]
  BY <1>3, <1>4, <1>7
<1>9. \A p, q \in P : Rank(P, p) < Rank(P, q) => p < q
  <2> SUFFICES ASSUME NEW p \in P, NEW q \in P, Rank(P, p) < Rank(P, q)
               PROVE  p < q
    OBVIOUS
  <2>1. Rank(P, p) \in Int /\ Rank(P, q) \in Int /\ p \in Int /\ q \in Int
    <3>1. Rank(P, p) \in 0..(Cardinality(P) - 1) /\ Rank(P, q) \in 0..(Cardinality(P) - 1)
      BY <1>1, RankGrows
    <3>2. p \in Nat /\ q \in Nat
      BY <1>1
    <3> QED BY <1>2, <3>1, <3>2
  <2>2. q < p => Rank(P, q) < Rank(P, p)
    BY <1>1, RankGrows
  <2>3. p # q
    BY <2>1
  <2> QED BY <2>1, <2>2, <2>3
<1>10. ASSUME NEW i \in DOMAIN F, NEW j \in DOMAIN F, i < j
       PROVE  Nth(P, i) < Nth(P, j)
  <2>1. i \in 1..k /\ j \in 1..k
    BY <1>7
  <2>2. Rank(P, Nth(P, i)) < Rank(P, Nth(P, j))
    BY <1>2, <1>3, <1>10, <2>1
  <2> QED BY <1>3, <1>9, <2>1, <2>2
<1>11. ASSUME NEW p \in P
       PROVE  \/ \E i \in DOMAIN F : Nth(P, i) = p
              \/ Len(F) = n /\ \A i \in DOMAIN F : Nth(P, i) < p
  <2> DEFINE m == Rank(P, p)
  <2>1. m \in Nat /\ m < Cardinality(P)
    <3>1. m \in 0..(Cardinality(P) - 1)
      BY <1>1, RankGrows
    <3> QED BY <1>2, <3>1
  <2> HIDE DEF m
  <2>2. CASE m < k
    <3>1. m + 1 \in 1..k
      BY <1>2, <2>1, <2>2
    <3>2. Nth(P, m + 1) \in P /\ Rank(P, Nth(P, m + 1)) = m
      BY <1>3, <2>1, <3>1
    <3>3. Nth(P, m + 1) = p
      <4>1. \A q \in P : Rank(P, q) = m => ~(q < p) /\ ~(p < q)
        BY <1>1, <2>1, RankGrows DEF m
      <4> QED BY <1>1, <3>2, <4>1
    <3> QED BY <1>7, <3>1, <3>3
  <2>3. CASE ~(m < k)
    <3>1. k = n
      BY <1>2, <2>1, <2>3 DEF k
    <3>2. \A i \in 1..k : i - 1 < m
      BY <1>2, <2>1, <2>3
    <3>3. \A i \in 1..k : Nth(P, i) < p
      BY <1>3, <1>9, <3>2 DEF m
    <3> QED BY <1>7, <3>1, <3>3
  <2> QED BY <2>2, <2>3
<1>12. Len(F) <= n
  BY <1>2, <1>7
<1> QED BY <1>7, <1>8, <1>10, <1>11, <1>12 DEF AreFirst

-----------------------------------------------------------------------------
(* The order of created_at *)

(* The runs that have begun a transaction, once each. *)
OrderInv ==
  /\ order \in Seq(Runs)
  /\ \A i, j \in DOMAIN order : order[i] = order[j] => i = j
  /\ \A c \in Runs : txn[c] # "none" <=> \E i \in DOMAIN order : order[i] = c

LEMMA OrderInit == Init => OrderInv
BY DEF Init, OrderInv

(* Only an INSERT adds to the order, at its end. *)
LEMMA OrderGrows ==
  ASSUME RunsInv, OrderInv, [Next]_vars
  PROVE  /\ OrderInv'
         /\ \A i \in DOMAIN order : i \in DOMAIN order' /\ order'[i] = order[i]
<1>1. ASSUME order' = order, \A c \in Runs : txn'[c] # "none" <=> txn[c] # "none"
      PROVE  /\ OrderInv'
             /\ \A i \in DOMAIN order : i \in DOMAIN order' /\ order'[i] = order[i]
  BY <1>1 DEF OrderInv
<1>2. ASSUME NEW c \in Runs, Insert(c)
      PROVE  /\ OrderInv'
             /\ \A i \in DOMAIN order : i \in DOMAIN order' /\ order'[i] = order[i]
  <2>1. /\ order' = Append(order, c)
        /\ txn' = [txn EXCEPT ![c] = "open"]
        /\ txn[c] = "none"
    BY <1>2 DEF Insert, RunsInv, RunsKnow
  <2>2. \A i \in DOMAIN order : order[i] # c
    BY <2>1 DEF OrderInv
  <2>3. /\ order' \in Seq(Runs) /\ DOMAIN order = 1..Len(order) /\ Len(order) \in Nat
        /\ DOMAIN order' = 1..(Len(order) + 1)
        /\ order'[Len(order) + 1] = c
        /\ \A i \in DOMAIN order : order'[i] = order[i]
    BY <2>1 DEF OrderInv
  <2>4. \A i \in DOMAIN order' : i \in DOMAIN order \/ i = Len(order) + 1
    BY <2>3
  <2>5. \A i, j \in DOMAIN order' : order'[i] = order'[j] => i = j
    BY <2>2, <2>3, <2>4 DEF OrderInv
  <2>6. \A i \in DOMAIN order : i \in DOMAIN order'
    BY <2>3
  <2>7. Len(order) + 1 \in DOMAIN order'
    BY <2>3
  <2>8. \A d \in Runs : txn'[d] # "none" <=> \E i \in DOMAIN order' : order'[i] = d
    <3> SUFFICES ASSUME NEW d \in Runs
                 PROVE  txn'[d] # "none" <=> \E i \in DOMAIN order' : order'[i] = d
      OBVIOUS
    <3>1. CASE d = c
      BY <2>1, <2>3, <2>7, <3>1 DEF RunsInv, RunsTyped
    <3>2. CASE d # c
      <4>1. txn'[d] = txn[d]
        BY <2>1, <3>2 DEF RunsInv, RunsTyped
      <4>2. (\E i \in DOMAIN order' : order'[i] = d) <=> (\E i \in DOMAIN order : order[i] = d)
        BY <2>3, <2>4, <2>6, <3>2
      <4> QED BY <4>1, <4>2 DEF OrderInv
    <3> QED BY <3>1, <3>2
  <2> QED BY <2>3, <2>5, <2>6, <2>8 DEF OrderInv
<1>3. ASSUME NEW c \in Runs, EndTransaction(c)
      PROVE  order' = order /\ \A d \in Runs : txn'[d] # "none" <=> txn[d] # "none"
  BY <1>3 DEF EndTransaction, RunsInv, RunsTyped
<1>4. ASSUME NEW c \in Runs, Launch(c) \/ Enqueued(c) \/ InsertFails(c)
      PROVE  UNCHANGED <<order, txn>>
  BY <1>4 DEF Launch, Enqueued, InsertFails, dbVars
<1>5. ASSUME NEW r \in Requests, RequestStep(r)
      PROVE  UNCHANGED <<order, txn>>
  BY <1>5, RequestsRead DEF dbVars
<1>6. CASE Toggle \/ UNCHANGED vars
  BY <1>1, <1>6 DEF Toggle, vars, dbVars
<1> QED BY <1>1, <1>2, <1>3, <1>4, <1>5, <1>6 DEF Next, RequestStep

(* Who is younger does not change. *)
LEMMA YoungerStays ==
  ASSUME RunsInv, OrderInv, [Next]_vars, NEW c, NEW d, Younger(c, d)
  PROVE  Younger(c, d)'
BY OrderGrows DEF Younger

-----------------------------------------------------------------------------
(* Listings *)

ListsTyped ==
  /\ query \in [Requests -> Asked \cup {NoQuery}]
  /\ rows \in [Requests -> Seq(Listable)]
  /\ out \in [Requests -> Seq(Listable)]
  /\ cut \in [Requests -> BOOLEAN]
  /\ known \in [Requests -> SUBSET Runs]

(* A request that asks for rows passed the checks of its parameters, and knows
   of no job that is not in the table. *)
Checked(r) ==
  /\ query[r].endpoint \in Lists => query[r] \in Handled
  /\ known[r] \subseteq Jobs

(* The rows S are an answer to request r: they match, the youngest first, and every
   job that matches and was there when the request came is among them unless the
   limit is used up by younger ones. *)
Answers(r, S) ==
  LET q == query[r]
  IN  /\ Len(S) <= LimitOf(q)
      /\ \A i \in DOMAIN S : Matches(q, S[i])
      /\ \A i, j \in DOMAIN S : i < j => Younger(S[i], S[j])
      /\ \A c \in known[r] : Matches(q, c) =>
           \/ \E i \in DOMAIN S : S[i] = c
           \/ Len(S) = LimitOf(q) /\ \A i \in DOMAIN S : Younger(S[i], c)

(* What was read and what is to be read are an answer, and all of it was read
   unless the reading was cut. *)
Reads(r) ==
  pc[r] \in {"reading", "listed"} /\ query[r].endpoint = "jobs" =>
    /\ Answers(r, out[r] \o rows[r])
    /\ pc[r] = "listed" /\ ~cut[r] => rows[r] = <<>>

ListSound(r) ==
  /\ Checked(r)
  /\ Reads(r)
  /\ pc[r] \in {"idle", "acquire", "query"} => out[r] = <<>>

ListsInv == ListsTyped /\ \A r \in Requests : ListSound(r)

LEMMA ListsInit == Init => ListsInv
BY DEF Init, ListsInv, ListsTyped, ListSound, Checked, Reads, NoQuery, Lists

(* The limit of a query that was let through. *)
LEMMA LimitsBound ==
  ASSUME NEW q \in Handled, q.endpoint \in Lists
  PROVE  LimitOf(q) \in Nat /\ LimitOf(q) <= MaxLimit[q.endpoint]
<1>1. ValidLimit(q) /\ MaxLimit[q.endpoint] \in Nat
  BY DEF Handled, ValidQuery
<1>2. DefaultLimit[q.endpoint] \in 1..MaxLimit[q.endpoint]
  OBVIOUS
<1> QED BY <1>1, <1>2 DEF LimitOf, ValidLimit

(* The rows that the query for jobs chooses. *)
LEMMA SelectedAnswers ==
  ASSUME RunsInv, OrderInv, NEW r \in Requests, Checked(r), query[r].endpoint = "jobs"
  PROVE  /\ SelectedJobs(query[r]) \in Seq(Runs)
         /\ Answers(r, SelectedJobs(query[r]))
<1> DEFINE q == query[r]
           s == Reverse(order)
           P == Places(q, s)
           n == LimitOf(q)
           S == SelectedJobs(q)
<1>1. n \in Nat
  BY LimitsBound DEF Checked, Lists
<1>2. /\ order \in Seq(Runs) /\ Len(order) \in Nat /\ DOMAIN order = 1..Len(order)
      /\ s \in Seq(Runs) /\ DOMAIN s = 1..Len(order)
      /\ \A i \in DOMAIN s : s[i] = order[(Len(order) - i) + 1]
  BY DEF OrderInv, Reverse
<1>3. P \in SUBSET DOMAIN s
  BY DEF Places
<1>4. S = FirstRows(s, P, n)
  BY DEF SelectedJobs
<1> HIDE DEF s, P, n, S
<1>5. /\ S \in Seq(Runs) /\ Len(S) <= n
      /\ \A i \in DOMAIN S : Nth(P, i) \in P /\ S[i] = s[Nth(P, i)]
      /\ \A i, j \in DOMAIN S : i < j => Nth(P, i) < Nth(P, j)
      /\ \A p \in P : \/ \E i \in DOMAIN S : Nth(P, i) = p
                      \/ Len(S) = n /\ \A i \in DOMAIN S : Nth(P, i) < p
  <2>1. s \in Seq(Runs) /\ P \in SUBSET DOMAIN s /\ n \in Nat /\ S = FirstRows(s, P, n)
    BY <1>1, <1>2, <1>3, <1>4
  <2>2. S \in Seq(Runs) /\ AreFirst(S, s, P, n)
    BY <2>1, FirstRowsAre
  <2> QED BY <2>2 DEF AreFirst
<1>6. \A i, j \in DOMAIN s : i < j => Younger(s[i], s[j])
  <2> SUFFICES ASSUME NEW i \in DOMAIN s, NEW j \in DOMAIN s, i < j
               PROVE  Younger(s[i], s[j])
    OBVIOUS
  <2> DEFINE k == (Len(order) - i) + 1
             l == (Len(order) - j) + 1
  <2>1. k \in DOMAIN order /\ l \in DOMAIN order /\ k > l
    BY <1>2
  <2>2. s[i] = order[k] /\ s[j] = order[l]
    BY <1>2
  <2> HIDE DEF k, l
  <2> QED BY <2>1, <2>2 DEF Younger
<1>7. \A i, j \in DOMAIN S : i < j => Younger(S[i], S[j])
  BY <1>3, <1>5, <1>6
<1>8. ASSUME NEW c \in known[r], Matches(q, c)
      PROVE  \/ \E i \in DOMAIN S : S[i] = c
             \/ Len(S) = n /\ \A i \in DOMAIN S : Younger(S[i], c)
  <2>1. c \in Runs /\ txn[c] # "none"
    BY <1>8 DEF Matches, Jobs
  <2>2. PICK i \in DOMAIN order : order[i] = c
    BY <2>1 DEF OrderInv
  <2> DEFINE p == (Len(order) - i) + 1
  <2>3. p \in DOMAIN s /\ s[p] = c
    <3>1. p \in 1..Len(order) /\ (Len(order) - p) + 1 = i
      BY <1>2
    <3> QED BY <1>2, <2>2, <3>1
  <2> HIDE DEF p
  <2>4. p \in P
    BY <1>8, <2>3 DEF P, Places
  <2>5. CASE \E j \in DOMAIN S : Nth(P, j) = p
    BY <1>5, <2>3, <2>5
  <2>6. CASE Len(S) = n /\ \A j \in DOMAIN S : Nth(P, j) < p
    <3>1. \A j \in DOMAIN S : Younger(S[j], c)
      BY <1>3, <1>5, <1>6, <2>3, <2>6
    <3> QED BY <2>6, <3>1
  <2> QED BY <1>5, <2>4, <2>5, <2>6
<1>9. \A i \in DOMAIN S : Matches(q, S[i])
  BY <1>5 DEF P, Places
<1> QED BY <1>5, <1>7, <1>8, <1>9 DEF Answers, n, S

(* Rows that are in the table stay there as they are. *)
LEMMA JobsStay ==
  ASSUME RunsInv, [Next]_vars, NEW c \in Jobs
  PROVE  c \in Jobs' /\ args'[c] = args[c]
<1> USE DEF RunsInv
<1>1. c \in Runs /\ txn[c] = "committed" /\ run[c] \notin {"idle", "connecting", "rejected"}
  BY DEF Jobs, RunsKnow
<1>2. ASSUME UNCHANGED <<args, txn>>
      PROVE  c \in Jobs' /\ args'[c] = args[c]
  BY <1>1, <1>2 DEF Jobs
<1>3. ASSUME NEW d \in Runs, Launch(d)
      PROVE  c \in Jobs' /\ args'[c] = args[c]
  BY <1>1, <1>3 DEF Launch, Jobs, RunsTyped, dbVars
<1>4. ASSUME NEW d \in Runs, Insert(d) \/ EndTransaction(d)
      PROVE  c \in Jobs' /\ args'[c] = args[c]
  BY <1>1, <1>4 DEF Insert, EndTransaction, Jobs, RunsTyped, runVars
<1>5. ASSUME NEW d \in Runs, Enqueued(d) \/ InsertFails(d)
      PROVE  c \in Jobs' /\ args'[c] = args[c]
  BY <1>2, <1>5 DEF Enqueued, InsertFails, dbVars
<1>6. ASSUME NEW r \in Requests, RequestStep(r)
      PROVE  c \in Jobs' /\ args'[c] = args[c]
  BY <1>2, <1>6, RequestsRead DEF runVars, dbVars
<1>7. CASE Toggle \/ UNCHANGED vars
  BY <1>2, <1>7 DEF Toggle, vars, runVars, dbVars
<1> QED BY <1>3, <1>4, <1>5, <1>6, <1>7 DEF Next, RequestStep

(* What was an answer remains one: the jobs that the request knows of match as
   before, and later ones are none of its business. *)
LEMMA AnswersStay ==
  ASSUME RunsInv, OrderInv, [Next]_vars, NEW r \in Requests, known[r] \subseteq Jobs,
         known'[r] = known[r], query'[r] = query[r], NEW S, Answers(r, S)
  PROVE  Answers(r, S)'
<1> DEFINE q == query[r]
<1>1. \A c, d : Younger(c, d) => Younger(c, d)'
  BY YoungerStays
<1>2. ASSUME NEW c \in Jobs
      PROVE  Matches(q, c)' <=> Matches(q, c)
  <2>1. c \in Jobs' /\ args'[c] = args[c]
    BY JobsStay
  <2> QED BY <2>1 DEF Matches
<1>3. LimitOf(q)' = LimitOf(q)
  BY DEF LimitOf
<1>4. Len(S) <= LimitOf(q)' /\ \A i, j \in DOMAIN S : i < j => Younger(S[i], S[j])'
  BY <1>1, <1>3 DEF Answers
<1>5. \A c \in known'[r] : Matches(q, c)' =>
        \/ \E i \in DOMAIN S : S[i] = c
        \/ Len(S) = LimitOf(q)' /\ \A i \in DOMAIN S : Younger(S[i], c)'
  BY <1>1, <1>2, <1>3 DEF Answers
<1>6. \A i \in DOMAIN S : Matches(q, S[i])'
  <2> SUFFICES ASSUME NEW i \in DOMAIN S
               PROVE  Matches(q, S[i])'
    OBVIOUS
  <2>1. Matches(q, S[i]) /\ S[i] \in Jobs
    BY DEF Answers, Matches
  <2> QED BY <1>2, <2>1
<1> QED BY <1>4, <1>5, <1>6 DEF Answers

LEMMA CheckedStays ==
  ASSUME RunsInv, [Next]_vars, NEW r \in Requests, Checked(r),
         known'[r] = known[r], query'[r] = query[r]
  PROVE  Checked(r)'
BY JobsStay DEF Checked

(* Nothing that others do makes a listing wrong. *)
LEMMA ListStays ==
  ASSUME RunsInv, OrderInv, [Next]_vars, NEW r \in Requests, ListSound(r),
         pc'[r] = pc[r], query'[r] = query[r], rows'[r] = rows[r], out'[r] = out[r],
         cut'[r] = cut[r], known'[r] = known[r]
  PROVE  ListSound(r)'
<1>1. Checked(r)'
  BY CheckedStays DEF ListSound
<1>2. PICK S : S = out[r] \o rows[r]
  OBVIOUS
<1>3. Answers(r, S) => Answers(r, S)'
  BY AnswersStay DEF ListSound, Checked
<1>4. Reads(r)'
  BY <1>2, <1>3 DEF ListSound, Reads
<1> QED BY <1>1, <1>4 DEF ListSound

(* Appending the first of the rows that remain changes nothing overall. *)
LEMMA ReadKeeps ==
  ASSUME NEW X, NEW s \in Seq(X), NEW t \in Seq(X), t # <<>>
  PROVE  Append(s, Head(t)) \o Tail(t) = s \o t
<1> DEFINE u == Append(s, Head(t)) \o Tail(t)
           v == s \o t
<1>1. Head(t) \in X /\ Tail(t) \in Seq(X) /\ Len(t) >= 1 /\ Len(Tail(t)) = Len(t) - 1
      /\ Head(t) = t[1] /\ \A i \in 1..(Len(t) - 1) : Tail(t)[i] = t[i + 1]
  OBVIOUS
<1>2. Append(s, Head(t)) \in Seq(X) /\ Len(Append(s, Head(t))) = Len(s) + 1
  BY <1>1
<1>3. u \in Seq(X) /\ v \in Seq(X) /\ Len(u) = Len(s) + Len(t) /\ Len(v) = Len(s) + Len(t)
  BY <1>1, <1>2
<1>4. ASSUME NEW i \in 1..(Len(s) + Len(t))
      PROVE  u[i] = v[i]
  <2>1. CASE i <= Len(s)
    BY <1>1, <1>2, <2>1
  <2>2. CASE i = Len(s) + 1
    BY <1>1, <1>2, <2>2
  <2>3. CASE i > Len(s) + 1
    <3>1. u[i] = Tail(t)[i - (Len(s) + 1)]
      BY <1>1, <1>2, <2>3
    <3>2. i - (Len(s) + 1) \in 1..(Len(t) - 1)
      BY <2>3
    <3>3. Tail(t)[i - (Len(s) + 1)] = t[(i - (Len(s) + 1)) + 1]
      BY <1>1, <3>2
    <3>4. v[i] = t[i - Len(s)] /\ (i - (Len(s) + 1)) + 1 = i - Len(s)
      BY <2>3
    <3> QED BY <3>1, <3>3, <3>4
  <2> QED BY <2>1, <2>2, <2>3
<1> HIDE DEF u, v
<1>5. u = v
  <2>1. u = [i \in 1..Len(u) |-> u[i]] /\ v = [i \in 1..Len(v) |-> v[i]]
    BY <1>3
  <2> QED BY <1>3, <1>4, <2>1
<1> QED BY <1>5 DEF u, v

(* The rows that the query for watermarks chooses. *)
LEMMA WatermarksSelected ==
  ASSUME NEW q \in Handled, q.endpoint = "watermarks"
  PROVE  SelectedWatermarks(q) \in Seq({Watermarks[i] : i \in DOMAIN Watermarks})
<1> DEFINE W == {Watermarks[i] : i \in DOMAIN Watermarks}
           matches(w) == q.cluster \in {Absent, w.cluster} /\ q.status \in {Absent, w.status}
           P == {i \in DOMAIN Watermarks : matches(Watermarks[i])}
           n == LimitOf(q)
           S == SelectedWatermarks(q)
<1>1. n \in Nat
  BY LimitsBound DEF Lists
<1>2. S = FirstRows(Watermarks, P, n)
  BY DEF SelectedWatermarks
<1>3. P \in SUBSET DOMAIN Watermarks /\ Watermarks \in Seq(W)
  OBVIOUS
<1> HIDE DEF W, P, n, S
<1>4. S \in Seq(W)
  BY <1>1, <1>2, <1>3, FirstRowsAre
<1> QED BY <1>4 DEF S, W

(* Sequences of runs or of watermarks are sequences of what can be listed. *)
LEMMA SeqListable ==
  ASSUME NEW S \in Seq(Runs) \cup Seq({Watermarks[i] : i \in DOMAIN Watermarks})
  PROVE  S \in Seq(Listable)
<1> DEFINE W == {Watermarks[i] : i \in DOMAIN Watermarks}
<1>1. Listable = Runs \cup W
  BY DEF Listable
<1> HIDE DEF W
<1>2. S \in Seq(Runs) \/ S \in Seq(W)
  BY DEF W
<1>3. DOMAIN S = 1..Len(S) /\ Len(S) \in Nat /\ S = [i \in 1..Len(S) |-> S[i]]
  BY <1>2
<1>4. \A i \in 1..Len(S) : S[i] \in Listable
  <2>1. CASE S \in Seq(Runs)
    BY <1>1, <1>3, <2>1
  <2>2. CASE S \in Seq(W)
    BY <1>1, <1>3, <2>2
  <2> QED BY <1>2, <2>1, <2>2
<1>5. [i \in 1..Len(S) |-> S[i]] \in Seq(Listable)
  BY <1>3, <1>4
<1> QED BY <1>3, <1>5

(* A request arrives, and asks for what passes the checks. *)
LEMMA ArriveLists ==
  ASSUME PcTyped, ListsInv, NEW r \in Requests, Arrive(r)
  PROVE  ListsTyped' /\ ListSound(r)'
<1>1. /\ pc[r] = "idle" /\ UNCHANGED <<txn, rows, out, cut>>
      /\ pc'[r] = "acquire"
      /\ known' = [known EXCEPT ![r] = Jobs]
  BY DEF Arrive, dbVars, PcTyped
<1>2. PICK q \in Handled : query' = [query EXCEPT ![r] = q]
  BY DEF Arrive
<1>3. q \in Asked /\ Jobs \subseteq Runs
  BY DEF Handled, Jobs
<1>4. ListsTyped' /\ query'[r] = q /\ known'[r] = Jobs
  BY <1>1, <1>2, <1>3 DEF ListsInv, ListsTyped
<1>5. Jobs' = Jobs
  BY <1>1 DEF Jobs
<1> QED BY <1>1, <1>4, <1>5 DEF ListsInv, ListSound, Checked, Reads

(* A request ends, with whatever answer. *)
LEMMA AnswerLists ==
  ASSUME PcTyped, ListsInv, NEW r \in Requests, Answer(r)
  PROVE  ListsTyped' /\ ListSound(r)'
<1>1. /\ query' = [query EXCEPT ![r] = NoQuery]
      /\ rows' = [rows EXCEPT ![r] = <<>>]
      /\ out' = [out EXCEPT ![r] = <<>>]
      /\ cut' = [cut EXCEPT ![r] = FALSE]
      /\ known' = [known EXCEPT ![r] = {}]
      /\ pc'[r] = "idle"
  BY DEF Answer, PcTyped
<1>2. <<>> \in Seq(Listable) /\ NoQuery.endpoint = "ready" /\ "ready" \notin Lists
  BY DEF NoQuery, Lists
<1>3. ListsTyped'
  BY <1>1, <1>2 DEF ListsInv, ListsTyped
<1>4. query'[r] = NoQuery /\ out'[r] = <<>> /\ known'[r] = {}
  BY <1>1 DEF ListsInv, ListsTyped
<1> QED BY <1>1, <1>2, <1>3, <1>4 DEF ListSound, Checked, Reads

(* The query chooses the rows of the answer. *)
LEMMA RunQueryLists ==
  ASSUME PcTyped, RunsInv, OrderInv, ListsInv, [Next]_vars,
         NEW r \in Requests, RunQuery(r)
  PROVE  ListsTyped' /\ ListSound(r)'
<1>1. PICK S : S = IF query[r].endpoint = "jobs" THEN SelectedJobs(query[r])
                                                 ELSE SelectedWatermarks(query[r])
  OBVIOUS
<1>2. /\ pc[r] = "query" /\ pc'[r] = "reading" /\ query[r].endpoint \in Lists
      /\ rows' = [rows EXCEPT ![r] = S]
      /\ UNCHANGED <<query, out, cut, known>>
  BY <1>1 DEF RunQuery, PcTyped
<1>3. /\ ListSound(r) /\ Checked(r) /\ query[r] \in Handled /\ out[r] = <<>>
  BY <1>2 DEF ListsInv, ListSound, Checked
<1>4. S \in Seq(Runs) \cup Seq({Watermarks[i] : i \in DOMAIN Watermarks})
  <2>1. CASE query[r].endpoint = "jobs"
    BY <1>1, <1>3, <2>1, SelectedAnswers
  <2>2. CASE query[r].endpoint = "watermarks"
    BY <1>1, <1>3, <2>2, WatermarksSelected
  <2> QED BY <1>2, <2>1, <2>2 DEF Lists
<1>5. S \in Seq(Listable)
  BY <1>4, SeqListable
<1>6. ListsTyped' /\ rows'[r] = S
  BY <1>2, <1>5 DEF ListsInv, ListsTyped
<1>7. Checked(r)'
  BY <1>2, <1>3, CheckedStays
<1>8. query[r].endpoint = "jobs" => Answers(r, S)'
  <2> SUFFICES ASSUME query[r].endpoint = "jobs"
               PROVE  Answers(r, S)'
    OBVIOUS
  <2>1. Answers(r, S)
    BY <1>1, <1>3, SelectedAnswers
  <2> QED BY <1>2, <1>3, <2>1, AnswersStay DEF Checked
<1>9. out'[r] \o rows'[r] = S
  BY <1>2, <1>3, <1>5, <1>6
<1> QED BY <1>2, <1>6, <1>7, <1>8, <1>9 DEF ListSound, Reads

(* Reading a row moves it from what is left to what was read. *)
LEMMA ReadRowLists ==
  ASSUME PcTyped, RunsInv, OrderInv, ListsInv, [Next]_vars,
         NEW r \in Requests, ReadRow(r)
  PROVE  ListsTyped' /\ ListSound(r)'
<1>1. /\ pc[r] = "reading" /\ rows[r] # <<>>
      /\ rows' = [rows EXCEPT ![r] = Tail(rows[r])]
      /\ out' = [out EXCEPT ![r] = Append(out[r], Head(rows[r]))]
      /\ UNCHANGED <<pc, query, cut, known>>
  BY DEF ReadRow
<1>2. rows[r] \in Seq(Listable) /\ out[r] \in Seq(Listable)
  BY DEF ListsInv, ListsTyped
<1>3. Tail(rows[r]) \in Seq(Listable) /\ Append(out[r], Head(rows[r])) \in Seq(Listable)
  BY <1>1, <1>2
<1>4. /\ ListsTyped'
      /\ rows'[r] = Tail(rows[r]) /\ out'[r] = Append(out[r], Head(rows[r]))
  BY <1>1, <1>3 DEF ListsInv, ListsTyped
<1>5. PICK S : S = out[r] \o rows[r]
  OBVIOUS
<1>6. out'[r] \o rows'[r] = S
  <2>1. Append(out[r], Head(rows[r])) \o Tail(rows[r]) = out[r] \o rows[r]
    BY <1>1, <1>2, ReadKeeps
  <2> QED BY <1>4, <1>5, <2>1
<1>7. ListSound(r) /\ Checked(r) /\ Reads(r) /\ known[r] \subseteq Jobs
  BY DEF ListsInv, ListSound, Checked
<1>8. Checked(r)'
  BY <1>1, <1>7, CheckedStays
<1>9. Answers(r, S) => Answers(r, S)'
  BY <1>1, <1>7, AnswersStay
<1> QED BY <1>1, <1>4, <1>5, <1>6, <1>7, <1>8, <1>9 DEF ListSound, Reads

(* The listing is answered: with all of the rows, or cut. *)
LEMMA ListedLists ==
  ASSUME PcTyped, RunsInv, OrderInv, ListsInv, [Next]_vars,
         NEW r \in Requests, NEW broken \in BOOLEAN, Listed(r, broken)
  PROVE  ListsTyped' /\ ListSound(r)'
<1>1. /\ pc[r] = "reading" /\ pc'[r] = "listed"
      /\ broken \/ rows[r] = <<>>
      /\ cut' = [cut EXCEPT ![r] = broken]
      /\ UNCHANGED <<query, rows, out, known>>
  BY DEF Listed, PcTyped
<1>2. ListsTyped' /\ cut'[r] = broken
  BY <1>1 DEF ListsInv, ListsTyped
<1>3. PICK S : S = out[r] \o rows[r]
  OBVIOUS
<1>4. ListSound(r) /\ Checked(r) /\ Reads(r) /\ known[r] \subseteq Jobs
  BY DEF ListsInv, ListSound, Checked
<1>5. Checked(r)'
  BY <1>1, <1>4, CheckedStays
<1>6. Answers(r, S) => Answers(r, S)'
  BY <1>1, <1>4, AnswersStay
<1> QED BY <1>1, <1>2, <1>3, <1>4, <1>5, <1>6 DEF ListSound, Reads

(* Acquire and the steps that change a request's place only. *)
LEMMA AcquireLists ==
  ASSUME PcTyped, RunsInv, OrderInv, ListsInv, [Next]_vars,
         NEW r \in Requests, Acquire(r)
  PROVE  ListsTyped' /\ ListSound(r)'
<1>1. /\ pc[r] = "acquire" /\ pc'[r] = "query"
      /\ UNCHANGED <<query, rows, out, cut, known>>
  BY DEF Acquire, PcTyped, listVars
<1>2. Checked(r)'
  BY <1>1, CheckedStays DEF ListsInv, ListSound
<1> QED BY <1>1, <1>2 DEF ListsInv, ListsTyped, ListSound, Reads

(* A request works on its own listing. *)
LEMMA OthersUntouched ==
  ASSUME PcTyped, ListsInv, NEW r \in Requests, RequestStep(r),
         NEW q \in Requests, q # r
  PROVE  /\ pc'[q] = pc[q] /\ query'[q] = query[q] /\ rows'[q] = rows[q]
         /\ out'[q] = out[q] /\ cut'[q] = cut[q] /\ known'[q] = known[q]
<1> USE DEF PcTyped, ListsInv, ListsTyped
<1>1. CASE Arrive(r)
  BY <1>1 DEF Arrive
<1>2. CASE Answer(r)
  BY <1>2 DEF Answer
<1>3. CASE Acquire(r)
  BY <1>3 DEF Acquire, listVars
<1>4. CASE RunQuery(r)
  BY <1>4 DEF RunQuery
<1>5. CASE ReadRow(r)
  BY <1>5 DEF ReadRow
<1>6. CASE \E broken \in BOOLEAN : Listed(r, broken)
  BY <1>6 DEF Listed
<1> QED BY <1>1, <1>2, <1>3, <1>4, <1>5, <1>6
        DEF RequestStep, Leave, HandleList, QueryFails, ScanFails, HandleReady

LEMMA ListsStep ==
  ASSUME RunsInv, PoolInv, OrderInv, ListsInv, [Next]_vars
  PROVE  ListsInv'
<1> PcTyped
  BY DEF PoolInv
<1>1. ASSUME UNCHANGED <<pc, listVars>>
      PROVE  ListsInv'
  <2>1. ASSUME NEW r \in Requests
        PROVE  ListSound(r)'
    BY <1>1, ListStays DEF listVars, ListsInv
  <2> QED BY <1>1, <2>1 DEF listVars, ListsInv, ListsTyped
<1>2. ASSUME NEW c \in Runs,
             Launch(c) \/ Insert(c) \/ EndTransaction(c) \/ Enqueued(c) \/ InsertFails(c)
      PROVE  ListsInv'
  BY <1>1, <1>2 DEF Launch, Insert, EndTransaction, Enqueued, InsertFails
<1>3. ASSUME NEW r \in Requests, RequestStep(r)
      PROVE  ListsInv'
  <2>1. ListsTyped' /\ ListSound(r)'
    <3>1. CASE Arrive(r)
      BY <3>1, ArriveLists
    <3>2. CASE Answer(r)
      BY <3>2, AnswerLists
    <3>3. CASE Acquire(r)
      BY <3>3, AcquireLists
    <3>4. CASE RunQuery(r)
      BY <3>4, RunQueryLists
    <3>5. CASE ReadRow(r)
      BY <3>5, ReadRowLists
    <3>6. CASE \E broken \in BOOLEAN : Listed(r, broken)
      BY <3>6, ListedLists
    <3> QED BY <1>3, <3>1, <3>2, <3>3, <3>4, <3>5, <3>6
            DEF RequestStep, Leave, HandleList, QueryFails, ScanFails, HandleReady
  <2>2. ASSUME NEW q \in Requests, q # r
        PROVE  ListSound(q)'
    BY <1>3, <2>2, OthersUntouched, ListStays DEF ListsInv
  <2> QED BY <2>1, <2>2 DEF ListsInv
<1>4. CASE Toggle \/ UNCHANGED vars
  BY <1>1, <1>4 DEF Toggle, vars
<1> QED BY <1>2, <1>3, <1>4 DEF Next, RequestStep

Invariant == RunsInv /\ PoolInv /\ OrderInv /\ ListsInv

LEMMA ApiInvariant == Spec => []Invariant
<1>1. Init => Invariant
  BY RunsInit, PoolInit, OrderInit, ListsInit DEF Invariant
<1>2. Invariant /\ [Next]_vars => Invariant'
  BY RunsStep, PoolStep, OrderGrows, ListsStep DEF Invariant
<1> QED BY <1>1, <1>2, PTL DEF Spec

(* Every variable keeps its type; the order of created_at has each run that began
   a transaction once, and no more connections are free than there are. *)
THEOREM ApiTypeCorrect == Spec => []TypeOK
<1>1. Invariant => TypeOK
  <2> SUFFICES ASSUME Invariant PROVE TypeOK
    OBVIOUS
  <2>1. free \in 0..MaxConns
    <3>1. Cardinality(Holders) \in Nat /\ free \in Nat
          /\ free + Cardinality(Holders) = MaxConns /\ MaxConns \in Nat
      BY FS_CardinalityType DEF Invariant, PoolInv
    <3> QED BY <3>1
  <2> QED BY <2>1 DEF Invariant, RunsInv, RunsTyped, PoolInv, PcTyped, OrderInv,
                      ListsInv, ListsTyped, TypeOK
<1> QED BY <1>1, ApiInvariant, PTL

(* A sequence is the beginning of what is made longer. *)
LEMMA PrefixOfConcat ==
  ASSUME NEW X, NEW s \in Seq(X), NEW t \in Seq(X), NEW u, u = s \o t
  PROVE  /\ DOMAIN s = 1..Len(s) /\ Len(s) \in Nat
         /\ DOMAIN u = 1..Len(u) /\ Len(u) \in Nat /\ Len(s) <= Len(u)
         /\ \A i \in DOMAIN s : i \in DOMAIN u /\ u[i] = s[i]
<1>1. Len(u) = Len(s) + Len(t) /\ u \in Seq(X)
  OBVIOUS
<1>2. \A i \in 1..Len(s) : u[i] = s[i]
  OBVIOUS
<1> QED BY <1>1, <1>2

(* What a listing that was answered shows. *)
LEMMA ListingSound ==
  ASSUME Invariant, NEW r \in Requests, pc[r] = "listed", query[r].endpoint = "jobs"
  PROVE  LET q == query[r]
             missing == {c \in known[r] : Matches(q, c)} \ ToSet(out[r])
         IN  /\ \A c \in ToSet(out[r]) : Matches(q, c)
             /\ \A c \in missing, d \in ToSet(out[r]) : Younger(d, c)
             /\ missing # {} /\ ~cut[r] => Len(out[r]) = LimitOf(q)
             /\ Len(out[r]) <= MaxLimit["jobs"]
             /\ \A i, j \in DOMAIN out[r] : i < j => Younger(out[r][i], out[r][j])
<1> DEFINE q == query[r]
           o == out[r]
           S == o \o rows[r]
           missing == {c \in known[r] : Matches(q, c)} \ ToSet(o)
<1>1. /\ o \in Seq(Listable) /\ rows[r] \in Seq(Listable)
      /\ Answers(r, S)
      /\ ~cut[r] => rows[r] = <<>>
      /\ q \in Handled
  BY DEF Invariant, ListsInv, ListsTyped, ListSound, Reads, Checked, Lists
<1>2. LimitOf(q) \in Nat /\ LimitOf(q) <= MaxLimit["jobs"]
      /\ MaxLimit["jobs"] \in Nat
  BY <1>1, LimitsBound DEF Lists
<1>3. /\ DOMAIN o = 1..Len(o) /\ Len(o) \in Nat
      /\ DOMAIN S = 1..Len(S) /\ Len(S) \in Nat /\ Len(o) <= Len(S)
      /\ \A i \in DOMAIN o : i \in DOMAIN S /\ S[i] = o[i]
  <2>1. o \in Seq(Listable) /\ rows[r] \in Seq(Listable) /\ S = o \o rows[r]
    BY <1>1
  <2> HIDE DEF o, S
  <2>2. DOMAIN o = 1..Len(o) /\ Len(o) \in Nat
    BY <2>1
  <2>3. DOMAIN S = 1..Len(S) /\ Len(S) \in Nat /\ Len(o) <= Len(S)
    BY <2>1, PrefixOfConcat
  <2>4. \A i \in DOMAIN o : i \in DOMAIN S /\ S[i] = o[i]
    BY <2>1, PrefixOfConcat
  <2> QED BY <2>2, <2>3, <2>4
<1>4. rows[r] = <<>> => S = o
  BY <1>1
<1>5. /\ Len(S) <= LimitOf(q)
      /\ \A i \in DOMAIN S : Matches(q, S[i])
      /\ \A i, j \in DOMAIN S : i < j => Younger(S[i], S[j])
      /\ \A c \in known[r] : Matches(q, c) =>
           \/ \E i \in DOMAIN S : S[i] = c
           \/ Len(S) = LimitOf(q) /\ \A i \in DOMAIN S : Younger(S[i], c)
  BY <1>1 DEF Answers
<1> HIDE DEF S, o, q
<1>6. ASSUME NEW c \in missing, NEW d \in ToSet(o)
      PROVE  Younger(d, c)
  <2>1. PICK i \in DOMAIN o : d = o[i]
    BY DEF ToSet
  <2>2. i \in DOMAIN S /\ d = S[i] /\ i <= Len(o)
    BY <1>3, <2>1
  <2>3. CASE \E j \in DOMAIN S : S[j] = c
    <3>1. PICK j \in DOMAIN S : S[j] = c
      BY <2>3
    <3>2. j \notin DOMAIN o
      BY <1>3, <3>1 DEF ToSet
    <3>3. i < j
      BY <1>3, <2>2, <3>1, <3>2
    <3> QED BY <1>5, <2>2, <3>1, <3>3
  <2>4. CASE \A j \in DOMAIN S : Younger(S[j], c)
    BY <2>2, <2>4
  <2> QED BY <1>5, <2>3, <2>4
<1>7. ASSUME missing # {}, ~cut[r]
      PROVE  Len(o) = LimitOf(q)
  <2>1. PICK c \in missing : TRUE
    BY <1>7
  <2>2. S = o
    BY <1>1, <1>4, <1>7
  <2>3. ~\E i \in DOMAIN S : S[i] = c
    BY <2>1, <2>2 DEF ToSet
  <2> QED BY <1>5, <2>1, <2>2, <2>3
<1>8. Len(o) <= MaxLimit["jobs"]
  BY <1>2, <1>3, <1>5
<1>9. \A i, j \in DOMAIN o : i < j => Younger(o[i], o[j])
  BY <1>3, <1>5
<1>10. \A c \in ToSet(o) : Matches(q, c)
  BY <1>3, <1>5 DEF ToSet
<1> QED BY <1>6, <1>7, <1>8, <1>9, <1>10 DEF o, q

(* A listing has jobs that match and no others, and every one of them that was there
   when the request came, unless younger ones use up the limit; one that is cut has
   the youngest. *)
THEOREM ApiListingComplete == Spec => []ListingComplete
<1>1. Invariant => ListingComplete
  BY ListingSound DEF ListingComplete
<1> QED BY <1>1, ApiInvariant, PTL

=============================================================================
