---------------------------- MODULE GatewayProofs ----------------------------
(***************************************************************************)
(* Proofs about Gateway, for every chain, every number of gateways and     *)
(* faults and every capacity of slot_parents: its types, the numbering of  *)
(* what a session publishes, which slots it remembers, and how many        *)
(* identities a transaction can have.                                      *)
(***************************************************************************)
EXTENDS Gateway, FiniteSetTheorems, WellFoundedInduction, TLAPS

LEMMA BackoffRange ==
  /\ BackoffFirst \in Nat /\ BackoffMax \in Nat /\ BackoffFirst <= BackoffMax
  /\ BackoffFirst \in BackoffFirst..BackoffMax
  /\ \A delay \in BackoffFirst..BackoffMax : Doubled(delay) \in BackoffFirst..BackoffMax
BY ArgsAssumption DEF BackoffFirst, BackoffMax, Larger, Smaller, Doubled

LEMMA SlotsAreNat == Slots \subseteq Nat \ {0} /\ MaxSlot \in Nat
BY ChainAssumption DEF Slots

-----------------------------------------------------------------------------
(* Type correctness *)

LEMMA InitTypeOK == Init => TypeOK
<1> SUFFICES ASSUME Init PROVE TypeOK
  OBVIOUS
<1>1. tip \in 0..MaxSlot /\ faults \in 0..MaxFaults
  BY ChainAssumption, ArgsAssumption DEF Init
<1>2. topic \in Seq(Envelope)
  BY DEF Init
<1>3. \A g \in Gateways : DOMAIN parents[g] = {}
  BY DEF Init, NoParents
<1> QED
  BY <1>1, <1>2, <1>3, BackoffRange DEF Init, TypeOK

LEMMA NoParentsEmpty == DOMAIN NoParents = {}
BY DEF NoParents

LEMMA FaultType ==
  ASSUME TypeOK, Fault
  PROVE  faults' \in 0..MaxFaults
BY ArgsAssumption DEF TypeOK, Fault

LEMMA RememberTypes ==
  ASSUME NEW known, DOMAIN known \subseteq Slots, NEW s \in Slots, NEW p \in Nat,
         \A k \in DOMAIN known : known[k] \in Nat
  PROVE  /\ DOMAIN Remember(known, s, p) \subseteq DOMAIN known \cup {s}
         /\ \A k \in DOMAIN Remember(known, s, p) :
              Remember(known, s, p)[k] = IF k = s THEN p ELSE known[k]
         /\ \A k \in DOMAIN Remember(known, s, p) : Remember(known, s, p)[k] \in Nat
<1>1. Evict(DOMAIN known \cup {s}) \subseteq DOMAIN known \cup {s}
  BY DEF Evict
<1> QED
  BY <1>1 DEF Remember

LEMMA EnvelopeType ==
  ASSUME TypeOK, NEW g \in Gateways, NEW t \in Txs
  PROVE  [gateway |-> g, session |-> session[g], seq |-> seq[g] + 1, tx |-> t,
          slot |-> TxSlot[t], parent |-> ParentSlot(g, TxSlot[t])] \in Envelope
<1>1. TxSlot[t] \in Slots /\ TxSlot[t] - 1 \in Nat
  BY ChainAssumption, SlotsAreNat DEF Slots
<1>2. ParentSlot(g, TxSlot[t]) \in Nat
  BY <1>1 DEF ParentSlot, TypeOK
<1> QED
  BY <1>1, <1>2 DEF Envelope, TypeOK

(* EndSession and Exit put a gateway down or to sleep with nothing in hand. *)
LEMMA GoneTypes ==
  ASSUME TypeOK, NEW g \in Gateways, EndSession(g) \/ Exit(g),
         topic' \in Seq(Envelope), faults' \in 0..MaxFaults
  PROVE  TypeOK'
<1>1. /\ pc' \in [Gateways -> {"down", "connect", "stream", "send", "backoff"}]
      /\ dueSlots' \in [Gateways -> SUBSET Slots]
      /\ dueTxs' \in [Gateways -> SUBSET Txs]
  BY DEF EndSession, Exit, TypeOK
<1>2. sending' \in [Gateways -> Envelope \cup {Nothing}]
  <2>1. sending' = [sending EXCEPT ![g] = Nothing]
    BY DEF EndSession, Exit
  <2> HIDE DEF Nothing
  <2> QED
    BY <2>1 DEF TypeOK
<1>3. handler' \in [Gateways -> BOOLEAN]
  <2>1. \E b \in BOOLEAN : handler' = [handler EXCEPT ![g] = b]
    BY DEF EndSession, Exit
  <2> QED
    BY <2>1 DEF TypeOK
<1>4. /\ DOMAIN parents' = Gateways
      /\ \A h \in Gateways : parents'[h] \in {parents[h], NoParents}
  BY DEF EndSession, Exit, TypeOK, memory
<1>5. /\ DOMAIN NoParents \subseteq Slots
      /\ \A s \in DOMAIN NoParents : NoParents[s] \in Nat
  BY NoParentsEmpty
<1>6. \A h \in Gateways : /\ DOMAIN parents'[h] \subseteq Slots
                          /\ \A s \in DOMAIN parents'[h] : parents'[h][s] \in Nat
  <2> TAKE h \in Gateways
  <2>1. CASE parents'[h] = parents[h]
    BY <2>1 DEF TypeOK
  <2>2. CASE parents'[h] = NoParents
    BY <2>2, <1>5
  <2> QED
    BY <1>4, <2>1, <2>2
<1>7. /\ seq' \in [Gateways -> Nat] /\ seen' \in [Gateways -> SUBSET Slots]
      /\ backoff' \in [Gateways -> BackoffFirst..BackoffMax]
  <2>1. CASE EndSession(g)
    BY <2>1 DEF EndSession, TypeOK, memory
  <2>2. CASE Exit(g)
    BY <2>2, BackoffRange DEF Exit, TypeOK
  <2> QED
    BY <2>1, <2>2
<1>8. UNCHANGED <<tip, session>>
  BY DEF EndSession, Exit
<1> QED
  BY <1>1, <1>2, <1>3, <1>4, <1>6, <1>7, <1>8 DEF TypeOK

LEMMA NewSlotTypes == ASSUME TypeOK, NewSlot PROVE TypeOK'
<1>1. tip + 1 \in Slots /\ tip' \in 0..MaxSlot
  BY SlotsAreNat DEF NewSlot, TypeOK, Slots
<1>2. dueSlots' \in [Gateways -> SUBSET Slots] /\ dueTxs' \in [Gateways -> SUBSET Txs]
  BY <1>1 DEF NewSlot, TypeOK, TxsOf
<1> QED
  BY <1>1, <1>2 DEF NewSlot, TypeOK, memory

LEMMA ConnectTypes == ASSUME TypeOK, NEW g \in Gateways, Connect(g) PROVE TypeOK'
<1>1. dueSlots' \in [Gateways -> SUBSET Slots] /\ dueTxs' \in [Gateways -> SUBSET Txs]
  <2> DEFINE Backlog == {s \in Slots : FromSlot <= s /\ s <= tip}
  <2>1. PICK rest \in SUBSET TxsOf({tip}) :
          IF FromSlot = NoSlot
          THEN /\ dueSlots' = [dueSlots EXCEPT ![g] = {}]
               /\ dueTxs' = [dueTxs EXCEPT ![g] = rest]
          ELSE /\ rest = {}
               /\ dueSlots' = [dueSlots EXCEPT ![g] = Backlog]
               /\ dueTxs' = [dueTxs EXCEPT ![g] = TxsOf(Backlog)]
    BY DEF Connect
  <2>2. Backlog \subseteq Slots /\ TxsOf(Backlog) \subseteq Txs /\ rest \subseteq Txs
    BY DEF TxsOf
  <2>3. \E x \in SUBSET Slots : dueSlots' = [dueSlots EXCEPT ![g] = x]
    BY <2>1, <2>2
  <2>4. \E x \in SUBSET Txs : dueTxs' = [dueTxs EXCEPT ![g] = x]
    BY <2>1, <2>2
  <2> QED
    BY <2>3, <2>4 DEF TypeOK
<1>2. /\ pc' \in [Gateways -> {"down", "connect", "stream", "send", "backoff"}]
      /\ seq' \in [Gateways -> Nat] /\ seen' \in [Gateways -> SUBSET Slots]
      /\ session' \in [Gateways -> Nat]
  BY DEF Connect, TypeOK
<1>3. /\ DOMAIN parents' = Gateways
      /\ \A h \in Gateways : parents'[h] = IF h = g THEN NoParents ELSE parents[h]
  BY DEF Connect, TypeOK
<1>4. \A h \in Gateways : /\ DOMAIN parents'[h] \subseteq Slots
                          /\ \A s \in DOMAIN parents'[h] : parents'[h][s] \in Nat
  BY <1>3, NoParentsEmpty DEF TypeOK
<1> QED
  BY <1>1, <1>2, <1>3, <1>4 DEF Connect, TypeOK

LEMMA SlotUpdateTypes ==
  ASSUME TypeOK, NEW g \in Gateways, NEW s \in Slots, SlotUpdate(g, s)
  PROVE  TypeOK'
<1>1. dueSlots' \in [Gateways -> SUBSET Slots] /\ seen' \in [Gateways -> SUBSET Slots]
  BY DEF SlotUpdate, TypeOK
<1>2. /\ DOMAIN parents' = Gateways
      /\ \A h \in Gateways : /\ DOMAIN parents'[h] \subseteq Slots
                             /\ \A k \in DOMAIN parents'[h] : parents'[h][k] \in Nat
  <2>1. Parent[s] # NoSlot => Parent[s] \in Nat
    BY ChainAssumption
  <2>2. DOMAIN parents' = Gateways /\ \A h \in Gateways \ {g} : parents'[h] = parents[h]
    BY DEF SlotUpdate, TypeOK
  <2>3. parents'[g] = IF Parent[s] = NoSlot THEN parents[g]
                      ELSE Remember(parents[g], s, Parent[s])
    BY DEF SlotUpdate, TypeOK
  <2>4. DOMAIN parents[g] \subseteq Slots /\ \A k \in DOMAIN parents[g] : parents[g][k] \in Nat
    BY DEF TypeOK
  <2>5. DOMAIN parents'[g] \subseteq Slots /\ \A k \in DOMAIN parents'[g] : parents'[g][k] \in Nat
    <3>1. CASE Parent[s] = NoSlot
      BY <2>3, <2>4, <3>1
    <3>2. CASE Parent[s] # NoSlot
      <4>1. /\ DOMAIN Remember(parents[g], s, Parent[s]) \subseteq DOMAIN parents[g] \cup {s}
            /\ \A k \in DOMAIN Remember(parents[g], s, Parent[s]) :
                 Remember(parents[g], s, Parent[s])[k] \in Nat
        BY <2>1, <2>4, <3>2, RememberTypes
      <4> QED
        BY <2>3, <2>4, <3>2, <4>1
    <3> QED
      BY <3>1, <3>2
  <2> QED
    BY <2>2, <2>5 DEF TypeOK
<1> QED
  BY <1>1, <1>2 DEF SlotUpdate, TypeOK

LEMMA TxUpdateTypes ==
  ASSUME TypeOK, NEW g \in Gateways, NEW t \in Txs, TxUpdate(g, t) \/ HollowTxUpdate(g, t)
  PROVE  TypeOK'
<1>1. CASE TxUpdate(g, t)
  <2>1. sending' \in [Gateways -> Envelope \cup {Nothing}]
    BY <1>1, EnvelopeType DEF TxUpdate, TypeOK
  <2>2. /\ dueTxs' \in [Gateways -> SUBSET Txs] /\ seq' \in [Gateways -> Nat]
        /\ pc' \in [Gateways -> {"down", "connect", "stream", "send", "backoff"}]
    BY <1>1 DEF TxUpdate, TypeOK
  <2> QED
    BY <1>1, <2>1, <2>2 DEF TxUpdate, TypeOK
<1>2. CASE HollowTxUpdate(g, t)
  BY <1>2 DEF HollowTxUpdate, TypeOK, memory
<1> QED
  BY <1>1, <1>2

LEMMA BeginsTypes ==
  ASSUME TypeOK, NEW g \in Gateways, BackoffEnds(g) \/ Restart(g)
  PROVE  TypeOK'
<1>1. pc' \in [Gateways -> {"down", "connect", "stream", "send", "backoff"}]
  BY DEF BackoffEnds, Restart, TypeOK
<1>2. backoff' \in [Gateways -> BackoffFirst..BackoffMax]
  <2>1. \E d \in BackoffFirst..BackoffMax : backoff' = [backoff EXCEPT ![g] = d]
    <3>1. CASE BackoffEnds(g)
      BY <3>1, BackoffRange DEF BackoffEnds, TypeOK
    <3>2. CASE Restart(g)
      <4>1. backoff' = [backoff EXCEPT ![g] = backoff[g]]
        BY <3>2 DEF Restart, TypeOK
      <4> QED
        BY <4>1 DEF TypeOK
    <3> QED
      BY <3>1, <3>2
  <2> QED
    BY <2>1 DEF TypeOK
<1> QED
  BY <1>1, <1>2 DEF BackoffEnds, Restart, TypeOK, source, memory

(* What the gateway awaits the delivery of is the newest envelope of its
   session. *)
SendsNewest ==
  \A g \in Gateways : pc[g] = "send" =>
    /\ sending[g] \in Envelope
    /\ sending[g].gateway = g
    /\ sending[g].session = session[g]
    /\ sending[g].seq = seq[g] /\ seq[g] > 0

(* No envelope is of a session still to come. *)
NoFutureSession ==
  \A i \in DOMAIN topic : topic[i].session <= session[topic[i].gateway]

(* The places in t of the envelopes of one session. *)
PlacesOf(t, g, n) == {i \in DOMAIN t : t[i].gateway = g /\ t[i].session = n}

(* The envelopes of one session are numbered without holes. *)
NumberedIn(t, g, n) ==
  \A j \in PlacesOf(t, g, n) :
    LET before == {i \in PlacesOf(t, g, n) : i < j}
    IN  IF before = {} THEN t[j].seq = 1
        ELSE \A i \in before :
               (\A k \in before : k <= i) => t[j].seq \in {t[i].seq, t[i].seq + 1}

(* The last envelope of a session has number c; there is none if c is 0. *)
LastNumber(t, g, n, c) ==
  /\ PlacesOf(t, g, n) = {} => c = 0
  /\ \A j \in PlacesOf(t, g, n) :
       (\A i \in PlacesOf(t, g, n) : i <= j) => t[j].seq = c

(* The number of the last envelope the session of g has got into the topic. *)
Published(g) == IF pc[g] = "send" THEN seq[g] - 1 ELSE seq[g]

NumberingInv ==
  /\ SendsNewest
  /\ NoFutureSession
  /\ \A g \in Gateways : \A n \in Nat : NumberedIn(topic, g, n)
  /\ \A g \in Gateways :
       InSession(g) => LastNumber(topic, g, session[g], Published(g))

LEMMA DoubledAppend ==
  ASSUME NEW S, NEW t \in Seq(S), NEW e \in S
  PROVE  t \o <<e, e>> = Append(Append(t, e), e)
OBVIOUS

(* The topic grows by envelopes that are in hand. *)
LEMMA TopicTypes ==
  ASSUME TypeOK, SendsNewest, NEW g \in Gateways, SendOk(g) \/ SendError(g)
  PROVE  /\ topic' \in Seq(Envelope)
         /\ faults' \in 0..MaxFaults
<1>1. sending[g] \in Envelope
  BY DEF SendsNewest, SendOk, SendError
<1>2. topic' \in {topic, Append(topic, sending[g]), topic \o <<sending[g], sending[g]>>}
  BY DEF SendOk, SendError
<1>3. faults' \in 0..MaxFaults
  BY FaultType DEF SendOk, SendError, TypeOK
<1>4. topic \in Seq(Envelope)
  BY DEF TypeOK
<1>5. topic \o <<sending[g], sending[g]>> = Append(Append(topic, sending[g]), sending[g])
  BY <1>1, <1>4, DoubledAppend
<1>6. /\ Append(topic, sending[g]) \in Seq(Envelope)
      /\ Append(Append(topic, sending[g]), sending[g]) \in Seq(Envelope)
  BY <1>1, <1>4
<1> QED
  BY <1>2, <1>3, <1>4, <1>5, <1>6, Zenon

LEMMA SendOkTypes ==
  ASSUME TypeOK, SendsNewest, NEW g \in Gateways, SendOk(g)
  PROVE  TypeOK'
<1>1. sending' \in [Gateways -> Envelope \cup {Nothing}]
  <2>1. sending' = [sending EXCEPT ![g] = Nothing]
    BY DEF SendOk
  <2> HIDE DEF Nothing
  <2> QED
    BY <2>1 DEF TypeOK
<1>2. pc' \in [Gateways -> {"down", "connect", "stream", "send", "backoff"}]
  BY DEF SendOk, TypeOK
<1> QED
  BY <1>1, <1>2, TopicTypes DEF SendOk, TypeOK, source, memory

LEMMA NextTypeOK ==
  ASSUME TypeOK, SendsNewest, [Next]_vars
  PROVE  TypeOK'
<1>1. CASE UNCHANGED vars
  BY <1>1 DEF vars, source, memory, TypeOK
<1>2. CASE NewSlot
  BY <1>2, NewSlotTypes
<1>3. ASSUME NEW g \in Gateways,
             Connect(g) \/ BackoffEnds(g) \/ Restart(g) \/ Stream(g)
      PROVE  TypeOK'
  BY <1>3, ConnectTypes, BeginsTypes, SlotUpdateTypes, TxUpdateTypes DEF Stream
<1>4. ASSUME NEW g \in Gateways, SessionFails(g) \/ Crash(g) \/ Interrupt(g)
      PROVE  TypeOK'
  BY <1>4, GoneTypes, FaultType DEF SessionFails, Crash, Interrupt, TypeOK
<1>5. ASSUME NEW g \in Gateways, SendOk(g) \/ SendError(g)
      PROVE  TypeOK'
  BY <1>5, SendOkTypes, TopicTypes, GoneTypes DEF SendError
<1> QED
  BY <1>1, <1>2, <1>3, <1>4, <1>5 DEF Next

-----------------------------------------------------------------------------
(* The memory of a session *)

(* Min of a set of slots is in it and the least of it. *)
LEMMA LeastSlot ==
  ASSUME NEW slots, slots \subseteq Nat, slots # {}
  PROVE  Min(slots) \in slots /\ \A s \in slots : Min(slots) <= s
<1> DEFINE Below == {ss \in Nat \X Nat : ss[1] < ss[2]}
<1>1. IsWellFoundedOn(Below, Nat)
  BY NatLessThanWellFounded, Zenon DEF OpToRel
<1>2. PICK m \in slots : \A s \in slots : ~ (<<s, m>> \in Below)
  BY <1>1, WFMin, Zenon
<1>3. \A s \in slots : m <= s
  <2> TAKE s \in slots
  <2>1. s \in Nat /\ m \in Nat
    OBVIOUS
  <2>2. s < m => <<s, m>> \in Below
    BY <2>1
  <2>3. ~ (s < m)
    BY <1>2, <2>2, Zenon
  <2> QED
    BY <2>1, <2>3
<1> QED
  BY <1>3 DEF Min

(* slot_parents of a session that has handled the updates of handled: no more
   than its capacity, what the updates said, and the newest of them. *)
Remembered(known, handled) ==
  /\ DOMAIN known \subseteq handled
  /\ Cardinality(DOMAIN known) <= MaxParents
  /\ \A s \in DOMAIN known : Parent[s] # NoSlot /\ known[s] = Parent[s]
  /\ \A s \in handled :
       Parent[s] # NoSlot /\ s \notin DOMAIN known =>
         /\ Cardinality(DOMAIN known) = MaxParents
         /\ \A k \in DOMAIN known : s < k

MemoryInv == \A g \in Gateways : Remembered(parents[g], seen[g])

LEMMA NothingRemembered ==
  Remembered(NoParents, {})
<1>1. Cardinality(DOMAIN NoParents) = 0
  BY NoParentsEmpty, FS_EmptySet
<1> QED
  BY <1>1, NoParentsEmpty, ArgsAssumption DEF Remembered

(* A slot whose update names no parent, or that is older than all that a full
   memory holds, changes nothing. *)
LEMMA RememberKeepsNewest ==
  ASSUME NEW known, NEW handled \in SUBSET Slots, Remembered(known, handled),
         NEW s \in Slots, Parent[s] # NoSlot
  PROVE  Remembered(Remember(known, s, Parent[s]), handled \cup {s})
<1> DEFINE old == DOMAIN known
           all == old \cup {s}
           new == Evict(all)
<1>1. /\ old \subseteq handled /\ old \subseteq Slots
      /\ \A x \in handled : Parent[x] # NoSlot /\ x \notin old =>
           Cardinality(old) = MaxParents /\ \A k \in old : x < k
      /\ MaxParents \in Nat \ {0} /\ Cardinality(old) <= MaxParents
      /\ Slots \subseteq Nat
  BY ArgsAssumption, SlotsAreNat DEF Remembered
<1>2. /\ IsFiniteSet(old) /\ Cardinality(old) \in Nat
      /\ IsFiniteSet(all) /\ Cardinality(all) \in Nat
      /\ Cardinality(all) = IF s \in old THEN Cardinality(old) ELSE Cardinality(old) + 1
  <2>1. IsFiniteSet(Slots)
    BY SlotsAreNat, FS_Interval DEF Slots
  <2>2. IsFiniteSet(old)
    BY <1>1, <2>1, FS_Subset
  <2> QED
    BY <2>2, FS_AddElement, FS_CardinalityType
<1>3. DOMAIN Remember(known, s, Parent[s]) = new
  BY DEF Remember
<1>4. /\ new \subseteq all
      /\ \A k \in new : Remember(known, s, Parent[s])[k] = IF k = s THEN Parent[s] ELSE known[k]
  BY DEF Remember, Evict
<1>5. \A k \in new : Parent[k] # NoSlot /\ Remember(known, s, Parent[s])[k] = Parent[k]
  BY <1>4 DEF Remembered
<1>6. /\ s \in all /\ old \subseteq all /\ all \subseteq Nat
      /\ \A k \in all : k \in old \/ k = s
      /\ \A k \in handled \cup {s} : k \in handled \/ k = s
  BY <1>1
<1>7. \/ Cardinality(all) <= MaxParents /\ new = all
      \/ /\ Cardinality(all) > MaxParents
         /\ \E least \in all : new = all \ {least} /\ \A k \in all : least <= k
  <2>1. Min(all) \in all /\ \A k \in all : Min(all) <= k
    BY <1>6, LeastSlot
  <2> QED
    BY <1>1, <1>2, <2>1 DEF Evict
<1>8. s \in old => all = old
  OBVIOUS
<1> HIDE DEF old, all, new
<1> DEFINE NewestIn(x) == Cardinality(new) = MaxParents /\ \A k \in new : x < k
<1>9. /\ Cardinality(new) <= MaxParents
      /\ \A x \in handled \cup {s} : Parent[x] # NoSlot /\ x \notin new => NewestIn(x)
  <2>1. CASE Cardinality(all) <= MaxParents /\ new = all
    <3>1. \A x \in handled : Parent[x] # NoSlot /\ x \notin all => s \in old
      BY <1>1, <1>2, <1>6, <2>1
    <3> QED
      BY <1>1, <1>2, <1>6, <1>8, <2>1, <3>1
  <2>2. ASSUME Cardinality(all) > MaxParents, NEW least \in all,
               new = all \ {least}, \A k \in all : least <= k
        PROVE  /\ Cardinality(new) <= MaxParents
               /\ \A x \in handled \cup {s} : Parent[x] # NoSlot /\ x \notin new => NewestIn(x)
    <3>1. s \notin old /\ Cardinality(old) = MaxParents /\ Cardinality(all) = MaxParents + 1
      BY <1>1, <1>2, <2>2
    <3>2. Cardinality(all \ {least}) = Cardinality(all) - 1
      BY <1>2, FS_RemoveElement
    <3>3. Cardinality(new) = MaxParents
      BY <1>1, <2>2, <3>1, <3>2
    <3>4. ASSUME NEW x \in handled \cup {s}, Parent[x] # NoSlot, x \notin new,
                 NEW k \in new
          PROVE  x < k
      <4>1. k \in all /\ k # least /\ k \in Nat /\ least \in Nat /\ least < k
        BY <1>6, <2>2
      <4>2. CASE x = least
        BY <4>1, <4>2
      <4>3. CASE x # least
        <5>1. x \in handled /\ x \notin old
          BY <1>6, <2>2, <3>4, <4>3
        <5>2. x \in Nat /\ \A y \in old : x < y
          BY <1>1, <3>4, <5>1, SlotsAreNat
        <5>3. CASE k \in old
          BY <5>2, <5>3
        <5>4. CASE k = s
          <6>1. least \in old /\ x < least
            BY <1>6, <4>1, <5>2, <5>4
          <6> QED
            BY <4>1, <5>2, <6>1
        <5> QED
          BY <1>6, <4>1, <5>3, <5>4
      <4> QED
        BY <4>2, <4>3
    <3> QED
      BY <1>1, <3>3, <3>4
  <2> HIDE DEF NewestIn
  <2> QED
    BY <1>7, <2>1, <2>2
<1>10. /\ new \subseteq handled \cup {s}
       /\ DOMAIN Remember(known, s, Parent[s]) = new
  BY <1>1, <1>3, <1>4, <1>6
<1> QED
  BY <1>5, <1>9, <1>10 DEF Remembered

LEMMA InitMemoryInv == Init => MemoryInv
<1> SUFFICES ASSUME Init, NEW g \in Gateways PROVE Remembered(parents[g], seen[g])
  BY DEF MemoryInv
<1>1. parents[g] = NoParents /\ seen[g] = {}
  BY DEF Init
<1> QED
  BY <1>1, NothingRemembered

LEMMA NextMemoryInv ==
  ASSUME TypeOK, MemoryInv, [Next]_vars
  PROVE  MemoryInv'
<1> SUFFICES ASSUME NEW h \in Gateways PROVE Remembered(parents[h], seen[h])'
  BY DEF MemoryInv
<1>1. Remembered(parents[h], seen[h])
  BY DEF MemoryInv
<1>2. SUFFICES \/ parents'[h] = parents[h] /\ seen'[h] = seen[h]
               \/ parents'[h] = NoParents /\ seen'[h] = {}
               \/ \E s \in Slots : /\ Parent[s] # NoSlot
                                   /\ parents'[h] = Remember(parents[h], s, Parent[s])
                                   /\ seen'[h] = seen[h] \cup {s}
               \/ \E s \in Slots : /\ Parent[s] = NoSlot
                                   /\ parents'[h] = parents[h]
                                   /\ seen'[h] = seen[h] \cup {s}
  <2>1. seen[h] \in SUBSET Slots
    BY DEF TypeOK
  <2>2. CASE parents'[h] = parents[h] /\ seen'[h] = seen[h]
    BY <1>1, <2>2 DEF Remembered
  <2>3. CASE parents'[h] = NoParents /\ seen'[h] = {}
    BY <2>3, NothingRemembered DEF Remembered
  <2>4. ASSUME NEW s \in Slots, Parent[s] # NoSlot,
               parents'[h] = Remember(parents[h], s, Parent[s]),
               seen'[h] = seen[h] \cup {s}
        PROVE  Remembered(parents[h], seen[h])'
    <3>1. Remembered(Remember(parents[h], s, Parent[s]), seen[h] \cup {s})
      BY <1>1, <2>1, <2>4, RememberKeepsNewest
    <3> QED
      BY <2>4, <3>1 DEF Remembered
  <2>5. ASSUME NEW s \in Slots, Parent[s] = NoSlot,
               parents'[h] = parents[h], seen'[h] = seen[h] \cup {s}
        PROVE  Remembered(parents[h], seen[h])'
    BY <1>1, <2>5 DEF Remembered
  <2> QED
    BY <2>2, <2>3, <2>4, <2>5
<1>3. CASE UNCHANGED memory
  BY <1>3 DEF memory
<1>4. ASSUME NEW g \in Gateways, Connect(g) \/ Exit(g)
      PROVE  \/ parents'[h] = parents[h] /\ seen'[h] = seen[h]
             \/ parents'[h] = NoParents /\ seen'[h] = {}
  <2>1. /\ parents' = [parents EXCEPT ![g] = NoParents]
        /\ seen' = [seen EXCEPT ![g] = {}]
    BY <1>4 DEF Connect, Exit
  <2>2. DOMAIN parents = Gateways /\ DOMAIN seen = Gateways
    BY DEF TypeOK
  <2>3. CASE h = g
    BY <2>1, <2>2, <2>3
  <2>4. CASE h # g
    BY <2>1, <2>2, <2>4
  <2> QED
    BY <2>3, <2>4
<1>5. ASSUME NEW g \in Gateways, NEW s \in Slots, SlotUpdate(g, s)
      PROVE  IF g = h
             THEN /\ seen'[h] = seen[h] \cup {s}
                  /\ parents'[h] = IF Parent[s] = NoSlot THEN parents[h]
                                   ELSE Remember(parents[h], s, Parent[s])
             ELSE parents'[h] = parents[h] /\ seen'[h] = seen[h]
  BY <1>5 DEF SlotUpdate, TypeOK
<1>6. ASSUME NEW g \in Gateways,
             \/ SessionFails(g) \/ BackoffEnds(g) \/ Restart(g) \/ SendOk(g) \/ SendError(g)
             \/ \E t \in Txs : HollowTxUpdate(g, t)
      PROVE  UNCHANGED memory
  BY <1>6 DEF SessionFails, EndSession, BackoffEnds, Restart, SendOk, SendError,
              HollowTxUpdate
<1>7. ASSUME NEW g \in Gateways, NEW t \in Txs, TxUpdate(g, t)
      PROVE  UNCHANGED <<parents, seen>>
  BY <1>7 DEF TxUpdate
<1>8. CASE NewSlot \/ UNCHANGED vars
  BY <1>3, <1>8 DEF NewSlot, vars
<1>9. CASE \E g \in Gateways : Connect(g) \/ Crash(g) \/ Interrupt(g)
  BY <1>4, <1>9 DEF Crash, Interrupt
<1>10. CASE \E g \in Gateways : \E s \in Slots : SlotUpdate(g, s)
  BY <1>5, <1>10
<1>11. CASE \E g \in Gateways : \E t \in Txs : TxUpdate(g, t)
  BY <1>7, <1>11
<1>12. CASE \E g \in Gateways :
              \/ SessionFails(g) \/ BackoffEnds(g) \/ Restart(g) \/ SendOk(g) \/ SendError(g)
              \/ \E t \in Txs : HollowTxUpdate(g, t)
  BY <1>3, <1>6, <1>12
<1> QED
  BY <1>8, <1>9, <1>10, <1>11, <1>12 DEF Next, Stream

-----------------------------------------------------------------------------
(* Numbers *)

LEMMA AppendPlaces ==
  ASSUME NEW t \in Seq(Envelope), NEW e \in Envelope, NEW g, NEW n
  PROVE  /\ Len(t) \in Nat /\ DOMAIN t = 1..Len(t)
         /\ PlacesOf(Append(t, e), g, n) =
              IF e.gateway = g /\ e.session = n
              THEN PlacesOf(t, g, n) \cup {Len(t) + 1} ELSE PlacesOf(t, g, n)
         /\ \A i \in PlacesOf(t, g, n) : /\ i \in 1..Len(t)
                                         /\ Append(t, e)[i] = t[i]
         /\ Append(t, e)[Len(t) + 1] = e
BY DEF PlacesOf

(* An envelope that repeats the last number of its session, or has the next
   one, keeps every session's numbering. *)
LEMMA AppendNumbered ==
  ASSUME NEW t \in Seq(Envelope), NEW e \in Envelope, NEW g, NEW n,
         NumberedIn(t, g, n),
         e.gateway = g /\ e.session = n =>
           \E c \in Nat : LastNumber(t, g, n, c) /\ e.seq \in {c, c + 1} \ {0}
  PROVE  NumberedIn(Append(t, e), g, n)
<1> DEFINE old == PlacesOf(t, g, n)
           u == Append(t, e)
           new == PlacesOf(u, g, n)
           k == Len(t) + 1
<1>1. /\ Len(t) \in Nat
      /\ new = IF e.gateway = g /\ e.session = n THEN old \cup {k} ELSE old
      /\ \A i \in old : i \in 1..Len(t) /\ u[i] = t[i]
      /\ u[k] = e
  BY AppendPlaces
<1>2. /\ \A i \in old : i < k /\ i \in Nat
      /\ k \in Nat /\ ~ (k < k)
  BY <1>1
<1> SUFFICES ASSUME NEW j \in new
             PROVE  LET before == {i \in new : i < j}
                    IN  IF before = {} THEN u[j].seq = 1
                        ELSE \A i \in before :
                          (\A x \in before : x <= i) => u[j].seq \in {u[i].seq, u[i].seq + 1}
  BY DEF NumberedIn
<1>3. CASE j \in old
  <2>1. {i \in new : i < j} = {i \in old : i < j}
    BY <1>1, <1>2, <1>3
  <2> QED
    BY <1>1, <1>3, <2>1 DEF NumberedIn
<1>4. CASE j \notin old
  <2>1. j = k /\ e.gateway = g /\ e.session = n
    BY <1>1, <1>4
  <2>2. {i \in new : i < j} = old
    <3> HIDE DEF old, new, u, k
    <3>1. new = old \cup {k}
      BY <1>1, <2>1
    <3> QED
      BY <1>2, <2>1, <3>1
  <2>3. PICK c \in Nat : LastNumber(t, g, n, c) /\ e.seq \in {c, c + 1} \ {0}
    BY <2>1
  <2>4. CASE old = {}
    BY <1>1, <2>1, <2>2, <2>3, <2>4 DEF LastNumber
  <2>5. ASSUME NEW i \in old, \A x \in old : x <= i
        PROVE  u[j].seq \in {u[i].seq, u[i].seq + 1}
    BY <1>1, <2>1, <2>3, <2>5 DEF LastNumber
  <2>6. \A i \in old : (\A x \in old : x <= i) => u[j].seq \in {u[i].seq, u[i].seq + 1}
    BY <2>5
  <2>7. CASE old # {}
    BY <2>2, <2>6, <2>7
  <2> QED
    BY <2>4, <2>7
<1> QED
  BY <1>3, <1>4

LEMMA AppendLast ==
  ASSUME NEW t \in Seq(Envelope), NEW e \in Envelope, NEW g, NEW n, NEW c,
         IF e.gateway = g /\ e.session = n THEN c = e.seq ELSE LastNumber(t, g, n, c)
  PROVE  LastNumber(Append(t, e), g, n, c)
<1> DEFINE old == PlacesOf(t, g, n)
           u == Append(t, e)
           new == PlacesOf(u, g, n)
           k == Len(t) + 1
<1>1. /\ Len(t) \in Nat
      /\ new = IF e.gateway = g /\ e.session = n THEN old \cup {k} ELSE old
      /\ \A i \in old : i \in 1..Len(t) /\ u[i] = t[i]
      /\ u[k] = e
  BY AppendPlaces
<1> HIDE DEF old, u, new, k
<1>2. CASE e.gateway = g /\ e.session = n
  <2>1. new = old \cup {k} /\ c = e.seq
    BY <1>1, <1>2
  <2>2. \A j \in new : (\A i \in new : i <= j) => j = k
    BY <1>1, <2>1 DEF k
  <2> QED
    BY <1>1, <2>1, <2>2 DEF LastNumber, new, u
<1>3. CASE ~ (e.gateway = g /\ e.session = n)
  <2>1. LastNumber(t, g, n, c) /\ new = old
    BY <1>1, <1>3
  <2> QED
    BY <1>1, <2>1 DEF LastNumber, new, u, old
<1> QED
  BY <1>2, <1>3

LEMMA InitNumberingInv == Init => NumberingInv
<1> SUFFICES ASSUME Init PROVE NumberingInv
  OBVIOUS
<1>1. \A g, n : PlacesOf(topic, g, n) = {}
  BY DEF Init, PlacesOf
<1> QED
  BY <1>1 DEF Init, NumberingInv, SendsNewest, NoFutureSession, NumberedIn, LastNumber,
     InSession

(* A step that appends nothing keeps what is said of the topic. *)
LEMMA SameTopicNumbered ==
  ASSUME TypeOK, NumberingInv, topic' = topic,
         \A g \in Gateways : session'[g] \in Nat /\ session[g] <= session'[g]
  PROVE  /\ NoFutureSession'
         /\ \A g \in Gateways : \A n \in Nat : NumberedIn(topic, g, n)'
         /\ \A g, n, c : LastNumber(topic, g, n, c)' <=> LastNumber(topic, g, n, c)
<1>1. ASSUME NEW i \in DOMAIN topic
      PROVE  topic[i].session <= session'[topic[i].gateway]
  <2>1. topic[i] \in Envelope
    BY DEF TypeOK
  <2>2. topic[i].gateway \in Gateways /\ topic[i].session \in Nat
    BY <2>1 DEF Envelope
  <2> QED
    BY <2>2 DEF NumberingInv, NoFutureSession, TypeOK
<1> QED
  BY <1>1 DEF NumberingInv, NoFutureSession, NumberedIn, LastNumber, PlacesOf

(* Neither does a step that leaves the sessions where they are. *)
LEMMA QuietNumbered ==
  ASSUME TypeOK, NumberingInv, UNCHANGED <<topic, pc, seq, sending, session>>
  PROVE  NumberingInv'
<1>1. /\ NoFutureSession'
      /\ \A g \in Gateways : \A n \in Nat : NumberedIn(topic, g, n)'
      /\ \A g, n, c : LastNumber(topic, g, n, c)' <=> LastNumber(topic, g, n, c)
  BY SameTopicNumbered DEF TypeOK
<1>2. SendsNewest'
  BY DEF NumberingInv, SendsNewest
<1>3. \A g \in Gateways : InSession(g)' => LastNumber(topic, g, session[g], Published(g))'
  BY <1>1 DEF NumberingInv, InSession, Published
<1> QED
  BY <1>1, <1>2, <1>3 DEF NumberingInv

(* What a step of g may change of the sessions. *)
StepOf(g) ==
  /\ \A h \in Gateways : h # g => /\ pc'[h] = pc[h] /\ seq'[h] = seq[h]
                                  /\ sending'[h] = sending[h] /\ session'[h] = session[h]
  /\ session'[g] \in Nat /\ session[g] <= session'[g]

LEMMA StepNumbered ==
  ASSUME TypeOK, NumberingInv, NEW g \in Gateways, StepOf(g), topic' = topic,
         pc'[g] = "send" => /\ sending'[g] \in Envelope
                            /\ sending'[g].gateway = g
                            /\ sending'[g].session = session'[g]
                            /\ sending'[g].seq = seq'[g] /\ seq'[g] > 0,
         InSession(g)' => LastNumber(topic, g, session'[g], Published(g)')
  PROVE  NumberingInv'
<1>1. /\ NoFutureSession'
      /\ \A h \in Gateways : \A n \in Nat : NumberedIn(topic, h, n)'
      /\ \A h, n, c : LastNumber(topic, h, n, c)' <=> LastNumber(topic, h, n, c)
  BY SameTopicNumbered DEF TypeOK, StepOf
<1>2. SendsNewest'
  BY DEF NumberingInv, SendsNewest, StepOf
<1>3. ASSUME NEW h \in Gateways, InSession(h)'
      PROVE  LastNumber(topic, h, session[h], Published(h))'
  <2>1. CASE h = g
    BY <1>1, <1>3, <2>1 DEF InSession, Published
  <2>2. CASE h # g
    BY <1>1, <1>3, <2>2 DEF NumberingInv, InSession, Published, StepOf
  <2> QED
    BY <2>1, <2>2
<1> QED
  BY <1>1, <1>2, <1>3 DEF NumberingInv

LEMMA AwayNumbered ==
  ASSUME TypeOK, NumberingInv, NEW g \in Gateways,
         \/ SessionFails(g) \/ Crash(g) \/ Interrupt(g) \/ BackoffEnds(g) \/ Restart(g)
  PROVE  NumberingInv'
<1>1. topic' = topic /\ session' = session
  BY DEF SessionFails, Crash, Interrupt, BackoffEnds, Restart, EndSession, Exit
<1>2. pc'[g] \in {"down", "connect", "backoff"}
  BY DEF SessionFails, Crash, Interrupt, BackoffEnds, Restart, EndSession, Exit, TypeOK
<1>3. StepOf(g)
  <2>1. CASE Exit(g)
    BY <2>1, <1>1 DEF Exit, StepOf, TypeOK
  <2>2. CASE EndSession(g)
    BY <2>2, <1>1 DEF EndSession, StepOf, TypeOK, memory
  <2>3. CASE BackoffEnds(g) \/ Restart(g)
    BY <2>3, <1>1 DEF BackoffEnds, Restart, StepOf, TypeOK, memory
  <2> QED
    BY <2>1, <2>2, <2>3 DEF SessionFails, Crash, Interrupt
<1>4. ~ InSession(g)'
  BY <1>2 DEF InSession
<1> QED
  BY <1>1, <1>2, <1>3, <1>4, StepNumbered

(* A new session has published nothing. *)
LEMMA ConnectNumbered ==
  ASSUME TypeOK, NumberingInv, NEW g \in Gateways, Connect(g)
  PROVE  NumberingInv'
<1>1. /\ topic' = topic /\ pc'[g] = "stream" /\ seq'[g] = 0
      /\ session'[g] = session[g] + 1 /\ session[g] \in Nat
      /\ StepOf(g)
  BY DEF Connect, StepOf, TypeOK
<1>2. PlacesOf(topic, g, session'[g]) = {}
  <2> SUFFICES ASSUME NEW i \in DOMAIN topic, topic[i].gateway = g,
                      topic[i].session = session'[g]
               PROVE  FALSE
    BY DEF PlacesOf
  <2> QED
    BY <1>1 DEF NumberingInv, NoFutureSession
<1>3. LastNumber(topic, g, session'[g], Published(g)')
  BY <1>1, <1>2 DEF LastNumber, Published
<1> QED
  BY <1>1, <1>3, StepNumbered

LEMMA TxUpdateNumbered ==
  ASSUME TypeOK, NumberingInv, NEW g \in Gateways, NEW t \in Txs, TxUpdate(g, t)
  PROVE  NumberingInv'
<1>1. /\ topic' = topic /\ pc[g] = "stream" /\ pc'[g] = "send"
      /\ seq[g] \in Nat /\ seq'[g] = seq[g] + 1 /\ session' = session
      /\ StepOf(g)
  BY DEF TxUpdate, StepOf, TypeOK
<1>2. sending'[g] = [gateway |-> g, session |-> session[g], seq |-> seq[g] + 1, tx |-> t,
                     slot |-> TxSlot[t], parent |-> ParentSlot(g, TxSlot[t])]
  BY DEF TxUpdate, TypeOK
<1>3. sending'[g] \in Envelope
  BY <1>2, EnvelopeType
<1>4. LastNumber(topic, g, session[g], seq[g])
  BY <1>1 DEF NumberingInv, InSession, Published
<1>5. Published(g)' = seq[g]
  BY <1>1 DEF Published
<1> QED
  BY <1>1, <1>2, <1>3, <1>4, <1>5, StepNumbered

LEMMA AppendOnce ==
  ASSUME NEW t \in Seq(Envelope), NEW e \in Envelope, NEW c \in Nat,
         \A h \in Gateways : \A n \in Nat : NumberedIn(t, h, n),
         LastNumber(t, e.gateway, e.session, c), e.seq \in {c, c + 1} \ {0}
  PROVE  /\ Append(t, e) \in Seq(Envelope)
         /\ \A h \in Gateways : \A n \in Nat : NumberedIn(Append(t, e), h, n)
         /\ LastNumber(Append(t, e), e.gateway, e.session, e.seq)
         /\ \A h \in Gateways : \A n, d :
              h # e.gateway /\ LastNumber(t, h, n, d) => LastNumber(Append(t, e), h, n, d)
         /\ \A i \in DOMAIN Append(t, e) :
              Append(t, e)[i] = e \/ (i \in DOMAIN t /\ Append(t, e)[i] = t[i])
<1>1. \A h \in Gateways : \A n \in Nat : NumberedIn(Append(t, e), h, n)
  BY AppendNumbered
<1>2. LastNumber(Append(t, e), e.gateway, e.session, e.seq)
  BY AppendLast
<1>3. \A h \in Gateways : \A n, d :
        h # e.gateway /\ LastNumber(t, h, n, d) => LastNumber(Append(t, e), h, n, d)
  BY AppendLast
<1>4. /\ Append(t, e) \in Seq(Envelope)
      /\ \A i \in DOMAIN Append(t, e) :
           Append(t, e)[i] = e \/ (i \in DOMAIN t /\ Append(t, e)[i] = t[i])
  OBVIOUS
<1> QED
  BY <1>1, <1>2, <1>3, <1>4

(* What the producer does with the envelope in hand. *)
LEMMA SentNumbered ==
  ASSUME TypeOK, NumberingInv, NEW g \in Gateways, pc[g] = "send",
         NEW u, u \in {Append(topic, sending[g]), topic \o <<sending[g], sending[g]>>}
  PROVE  /\ \A i \in DOMAIN u : u[i].session <= session[u[i].gateway]
         /\ \A h \in Gateways : \A n \in Nat : NumberedIn(u, h, n)
         /\ LastNumber(u, g, session[g], seq[g])
         /\ \A h \in Gateways : \A n, d :
              h # g /\ LastNumber(topic, h, n, d) => LastNumber(u, h, n, d)
<1> DEFINE e == sending[g]
           once == Append(topic, e)
           twice == Append(once, e)
<1>1. /\ e \in Envelope /\ e.gateway = g /\ e.session = session[g]
      /\ e.seq = seq[g] /\ seq[g] > 0 /\ seq[g] \in Nat /\ session[g] \in Nat
      /\ topic \in Seq(Envelope)
  BY DEF NumberingInv, SendsNewest, TypeOK
<1>2. LastNumber(topic, g, session[g], seq[g] - 1)
  BY DEF NumberingInv, InSession, Published
<1>3. \A h \in Gateways : \A n \in Nat : NumberedIn(topic, h, n)
  BY DEF NumberingInv
<1>4. u = once \/ u = twice
  BY <1>1, DoubledAppend
<1>5. seq[g] - 1 \in Nat /\ seq[g] \in {seq[g] - 1, (seq[g] - 1) + 1} \ {0}
  BY <1>1
<1> HIDE DEF e
<1>6. /\ once \in Seq(Envelope)
      /\ \A h \in Gateways : \A n \in Nat : NumberedIn(once, h, n)
      /\ LastNumber(once, g, session[g], seq[g])
      /\ \A h \in Gateways : \A n, d :
           h # g /\ LastNumber(topic, h, n, d) => LastNumber(once, h, n, d)
      /\ \A i \in DOMAIN once : once[i] = e \/ (i \in DOMAIN topic /\ once[i] = topic[i])
  BY <1>1, <1>2, <1>3, <1>5, AppendOnce
<1> HIDE DEF once
<1>7. seq[g] \in {seq[g], seq[g] + 1} \ {0}
  BY <1>1
<1>8. /\ \A h \in Gateways : \A n \in Nat : NumberedIn(twice, h, n)
      /\ LastNumber(twice, g, session[g], seq[g])
      /\ \A h \in Gateways : \A n, d :
           h # g /\ LastNumber(once, h, n, d) => LastNumber(twice, h, n, d)
      /\ \A i \in DOMAIN twice : twice[i] = e \/ (i \in DOMAIN once /\ twice[i] = once[i])
  BY <1>1, <1>6, <1>7, AppendOnce
<1> HIDE DEF twice
<1>9. \A i \in DOMAIN u : u[i] = e \/ (i \in DOMAIN topic /\ u[i] = topic[i])
  BY <1>4, <1>6, <1>8
<1>10. \A i \in DOMAIN u : u[i].session <= session[u[i].gateway]
  BY <1>1, <1>9 DEF NumberingInv, NoFutureSession
<1> QED
  BY <1>4, <1>6, <1>8, <1>10

(* What a send does: it ends well only with the envelope in the topic. *)
LEMMA SendEffect ==
  ASSUME TypeOK, NEW g \in Gateways, SendOk(g) \/ SendError(g)
  PROVE  /\ pc[g] = "send" /\ session' = session /\ seq' = seq
         /\ \A h \in Gateways : h # g => pc'[h] = pc[h] /\ sending'[h] = sending[h]
         /\ \/ /\ topic' \in {Append(topic, sending[g]), topic \o <<sending[g], sending[g]>>}
               /\ pc'[g] \in {"stream", "backoff"}
            \/ topic' = topic /\ pc'[g] = "backoff"
<1>1. CASE SendOk(g)
  BY <1>1 DEF SendOk, TypeOK, memory
<1>2. CASE SendError(g)
  BY <1>2 DEF SendError, EndSession, TypeOK, memory
<1> QED
  BY <1>1, <1>2

LEMMA SendNumbered ==
  ASSUME TypeOK, NumberingInv, NEW g \in Gateways, SendOk(g) \/ SendError(g)
  PROVE  NumberingInv'
<1>1. /\ pc[g] = "send" /\ session' = session /\ seq' = seq
      /\ \A h \in Gateways : h # g => pc'[h] = pc[h] /\ sending'[h] = sending[h]
      /\ pc'[g] \in {"stream", "backoff"}
  BY SendEffect
<1>2. StepOf(g)
  BY <1>1 DEF StepOf, TypeOK
<1>3. CASE topic' = topic /\ pc'[g] = "backoff"
  BY <1>1, <1>2, <1>3, StepNumbered DEF InSession
<1>4. CASE topic' \in {Append(topic, sending[g]), topic \o <<sending[g], sending[g]>>}
  <2>1. /\ \A i \in DOMAIN topic' : topic'[i].session <= session[topic'[i].gateway]
        /\ \A h \in Gateways : \A n \in Nat : NumberedIn(topic', h, n)
        /\ LastNumber(topic', g, session[g], seq[g])
        /\ \A h \in Gateways : \A n, d :
             h # g /\ LastNumber(topic, h, n, d) => LastNumber(topic', h, n, d)
    BY <1>1, <1>4, SentNumbered
  <2>2. NoFutureSession'
    BY <1>1, <2>1 DEF NoFutureSession
  <2>3. SendsNewest'
    BY <1>1 DEF NumberingInv, SendsNewest
  <2>4. ASSUME NEW h \in Gateways, InSession(h)'
        PROVE  LastNumber(topic', h, session'[h], Published(h)')
    <3>1. CASE h = g
      BY <1>1, <2>1, <2>4, <3>1 DEF InSession, Published
    <3>2. CASE h # g
      <4>1. LastNumber(topic, h, session[h], Published(h))
        BY <1>1, <2>4, <3>2 DEF NumberingInv, InSession
      <4> QED
        BY <1>1, <2>1, <3>2, <4>1 DEF Published
    <3> QED
      BY <3>1, <3>2
  <2> QED
    BY <2>1, <2>2, <2>3, <2>4 DEF NumberingInv
<1> QED
  BY <1>3, <1>4, SendEffect

LEMMA NextNumberingInv ==
  ASSUME TypeOK, NumberingInv, [Next]_vars
  PROVE  NumberingInv'
<1>1. CASE NewSlot \/ UNCHANGED vars
  BY <1>1, QuietNumbered DEF NewSlot, vars, memory
<1>2. ASSUME NEW g \in Gateways,
             \/ \E s \in Slots : SlotUpdate(g, s)
             \/ \E t \in Txs : HollowTxUpdate(g, t)
      PROVE  NumberingInv'
  BY <1>2, QuietNumbered DEF SlotUpdate, HollowTxUpdate, memory
<1>3. ASSUME NEW g \in Gateways, NEW t \in Txs, TxUpdate(g, t)
      PROVE  NumberingInv'
  BY <1>3, TxUpdateNumbered
<1>4. ASSUME NEW g \in Gateways, Connect(g) \/ SendOk(g) \/ SendError(g)
      PROVE  NumberingInv'
  BY <1>4, ConnectNumbered, SendNumbered
<1>5. ASSUME NEW g \in Gateways,
             \/ SessionFails(g) \/ Crash(g) \/ Interrupt(g) \/ BackoffEnds(g) \/ Restart(g)
      PROVE  NumberingInv'
  BY <1>5, AwayNumbered
<1> QED
  BY <1>1, <1>2, <1>3, <1>4, <1>5 DEF Next, Stream

-----------------------------------------------------------------------------
(* Identities *)

(* The two parents an envelope may name. *)
KnownParent(env) == env.parent \in {Parent[env.slot], env.slot - 1}

IdsInv ==
  /\ \A i \in DOMAIN topic : KnownParent(topic[i])
  /\ \A g \in Gateways : pc[g] = "send" => KnownParent(sending[g])

LEMMA NextIdsInv ==
  ASSUME TypeOK, SendsNewest, MemoryInv, IdsInv, [Next]_vars
  PROVE  IdsInv'
<1>1. ASSUME NEW g \in Gateways, SendOk(g) \/ SendError(g)
      PROVE  IdsInv'
  <2>1. /\ pc[g] = "send"
        /\ topic' \in {topic, Append(topic, sending[g]), topic \o <<sending[g], sending[g]>>}
        /\ \A h \in Gateways : h # g => pc'[h] = pc[h] /\ sending'[h] = sending[h]
        /\ pc'[g] # "send"
    BY <1>1, SendEffect
  <2>2. sending[g] \in Envelope /\ topic \in Seq(Envelope) /\ KnownParent(sending[g])
    BY <2>1 DEF SendsNewest, IdsInv, TypeOK
  <2>3. \A i \in DOMAIN topic' :
          topic'[i] = sending[g] \/ (i \in DOMAIN topic /\ topic'[i] = topic[i])
    <3>1. CASE topic' = topic
      BY <3>1
    <3>2. CASE topic' = Append(topic, sending[g])
      BY <2>2, <3>2
    <3>3. CASE topic' = topic \o <<sending[g], sending[g]>>
      BY <2>2, <3>3
    <3> QED
      BY <2>1, <3>1, <3>2, <3>3
  <2>4. \A i \in DOMAIN topic' : KnownParent(topic'[i])
    BY <2>2, <2>3 DEF IdsInv
  <2> QED
    BY <2>1, <2>4 DEF IdsInv, KnownParent
<1>2. ASSUME NEW g \in Gateways, NEW t \in Txs, TxUpdate(g, t)
      PROVE  IdsInv'
  <2>1. /\ topic' = topic
        /\ \A h \in Gateways : h # g => pc'[h] = pc[h] /\ sending'[h] = sending[h]
    BY <1>2 DEF TxUpdate, TypeOK
  <2>2. sending'[g] = [gateway |-> g, session |-> session[g], seq |-> seq[g] + 1, tx |-> t,
                       slot |-> TxSlot[t], parent |-> ParentSlot(g, TxSlot[t])]
    BY <1>2 DEF TxUpdate, TypeOK
  <2>3. ParentSlot(g, TxSlot[t]) \in {Parent[TxSlot[t]], TxSlot[t] - 1}
    BY DEF ParentSlot, MemoryInv, Remembered
  <2>4. KnownParent(sending'[g])
    BY <2>2, <2>3 DEF KnownParent
  <2> QED
    BY <2>1, <2>4 DEF IdsInv, KnownParent
<1>3. ASSUME topic' = topic,
             \A g \in Gateways : pc'[g] = "send" => pc[g] = "send" /\ sending'[g] = sending[g]
      PROVE  IdsInv'
  BY <1>3 DEF IdsInv, KnownParent
<1>4. ASSUME NEW g \in Gateways,
             \/ SessionFails(g) \/ Crash(g) \/ Interrupt(g) \/ BackoffEnds(g) \/ Restart(g)
             \/ Connect(g)
      PROVE  IdsInv'
  <2>1. topic' = topic
    BY <1>4 DEF SessionFails, Crash, Interrupt, BackoffEnds, Restart, Connect,
                EndSession, Exit
  <2>2. pc'[g] # "send"
    BY <1>4 DEF SessionFails, Crash, Interrupt, BackoffEnds, Restart, Connect,
                EndSession, Exit, TypeOK
  <2>3. \A h \in Gateways : h # g => pc'[h] = pc[h] /\ sending'[h] = sending[h]
    BY <1>4 DEF SessionFails, Crash, Interrupt, BackoffEnds, Restart, Connect,
                EndSession, Exit, TypeOK
  <2> QED
    BY <1>3, <2>1, <2>2, <2>3
<1>5. CASE NewSlot \/ UNCHANGED vars
  BY <1>3, <1>5 DEF NewSlot, vars
<1>6. ASSUME NEW g \in Gateways,
             \/ \E s \in Slots : SlotUpdate(g, s)
             \/ \E t \in Txs : HollowTxUpdate(g, t)
      PROVE  IdsInv'
  BY <1>3, <1>6 DEF SlotUpdate, HollowTxUpdate
<1> QED
  BY <1>1, <1>2, <1>4, <1>5, <1>6 DEF Next, Stream

-----------------------------------------------------------------------------
(* The theorems *)

LEMMA GatewayInvariant ==
  Spec => [](TypeOK /\ NumberingInv /\ MemoryInv /\ IdsInv)
<1>1. Init => TypeOK /\ NumberingInv /\ MemoryInv /\ IdsInv
  <2>1. Init => IdsInv
    BY DEF Init, IdsInv
  <2> QED
    BY <2>1, InitTypeOK, InitNumberingInv, InitMemoryInv
<1>2. TypeOK /\ NumberingInv /\ MemoryInv /\ IdsInv /\ [Next]_vars =>
        (TypeOK /\ NumberingInv /\ MemoryInv /\ IdsInv)'
  <2>1. NumberingInv => SendsNewest
    BY DEF NumberingInv
  <2> QED
    BY <2>1, NextTypeOK, NextNumberingInv, NextMemoryInv, NextIdsInv
<1> QED
  BY <1>1, <1>2, PTL DEF Spec

(* Type correctness: among others, backoff_ms stays within its bounds, a parent
   is a slot number and every message of the topic is an envelope. *)
THEOREM GatewayTypeCorrect == Spec => []TypeOK
BY GatewayInvariant, PTL

(* What a connection publishes is numbered 1, 2, ... without a hole, whatever
   sends fail or are repeated and whatever sessions and processes come and go. *)
THEOREM GatewayNumbersWithoutGaps == Spec => []NumberedWithoutGaps
<1>1. TypeOK /\ NumberingInv => NumberedWithoutGaps
  <2> SUFFICES ASSUME TypeOK, NumberingInv, NEW g \in Gateways, NEW n \in 1..session[g]
               PROVE  NumberedIn(topic, g, n)
    BY DEF NumberedWithoutGaps, NumberedIn, OfSession, PlacesOf
  <2>1. n \in Nat
    BY DEF TypeOK
  <2> QED
    BY <2>1 DEF NumberingInv
<1> QED
  BY <1>1, GatewayInvariant, PTL

(* slot_parents forgets only the oldest slots and only when it is full. *)
THEOREM GatewayRemembersNewestSlots == Spec => []RemembersNewestSlots
<1>1. MemoryInv => RemembersNewestSlots
  BY DEF MemoryInv, Remembered, RemembersNewestSlots
<1> QED
  BY <1>1, GatewayInvariant, PTL

(* However often a transaction is delivered and published, the parent in its
   identity is the slot's parent or the slot before. *)
THEOREM GatewayAtMostTwoIds == Spec => []AtMostTwoIds
<1>1. IdsInv => AtMostTwoIds
  BY DEF IdsInv, KnownParent, AtMostTwoIds
<1> QED
  BY <1>1, GatewayInvariant, PTL

=============================================================================
