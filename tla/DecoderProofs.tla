---------------------------- MODULE DecoderProofs ----------------------------
(***************************************************************************)
(* Proofs about Decoder, for every number of partitions, decoders and      *)
(* faults and every batch size: its types; what can be lost, and how much; *)
(* what can be stored twice; where a partition stops for good; how long    *)
(* rows wait for a flush; and that Decoder implements Delivery.  Each part *)
(* has the inductive invariant it follows from.                            *)
(***************************************************************************)
EXTENDS Decoder, FiniteSetTheorems, TLAPS

(* The assumptions of Decoder on its sizes give the caps their type. *)
LEMMA CapsAreNat == /\ FlushTicks \in Nat /\ FlushTicks > 0
                    /\ AgeCap \in Nat
                    /\ BatchSize \in Nat /\ MaxFaults \in Nat
  BY SizesAssumption DEF AgeCap

(* The rows of a longer batch, and of a prefix of a batch. *)
LEMMA RowsOfAppend ==
  ASSUME NEW S, NEW rows \in Seq(S), NEW r \in S
  PROVE  RowsOf(Append(rows, r)) = RowsOf(rows) \cup {r}
<1> DEFINE more == Append(rows, r)
<1>1. /\ DOMAIN rows = 1..Len(rows) /\ Len(rows) \in Nat
      /\ DOMAIN more = 1..(Len(rows) + 1)
      /\ more[Len(rows) + 1] = r
      /\ \A i \in 1..Len(rows) : more[i] = rows[i]
  OBVIOUS
<1>2. ASSUME NEW x \in RowsOf(more) PROVE x \in RowsOf(rows) \cup {r}
  BY <1>1 DEF RowsOf
<1>3. ASSUME NEW x \in RowsOf(rows) \cup {r} PROVE x \in RowsOf(more)
  BY <1>1 DEF RowsOf
<1> QED
  BY <1>2, <1>3

LEMMA RowsOfPrefix ==
  ASSUME NEW S, NEW rows \in Seq(S), NEW n \in 0..Len(rows)
  PROVE  RowsOf(SubSeq(rows, 1, n)) \subseteq RowsOf(rows)
  BY DEF RowsOf

LEMMA RowsOfType ==
  ASSUME NEW S, NEW rows \in Seq(S)
  PROVE  RowsOf(rows) \subseteq S
  BY DEF RowsOf

-----------------------------------------------------------------------------
(* Type correctness *)

LEMMA InitTypeOK == Init => TypeOK
  BY CapsAreNat, SizesAssumption DEF Init, TypeOK, AgeCap

(* Leaving the group, whatever makes the process leave. *)
LEMMA ExitTypeOK ==
  ASSUME TypeOK, NEW d \in Decoders, Exit(d),
         tx_raw' \subseteq Partitions \X Nat, faults' \in 0..MaxFaults
  PROVE  TypeOK'
<1>1. /\ pc' \in [Decoders -> {"down", "select", "inserting", "inserted"}]
      /\ batch' \in [Decoders -> Seq(Partitions \X Nat)]
  <2>1. pc' \in [Decoders -> {"down", "select", "inserting", "inserted"}]
    BY DEF TypeOK, Exit
  <2>2. <<>> \in Seq(Partitions \X Nat)
    OBVIOUS
  <2>3. batch' = [batch EXCEPT ![d] = <<>>] /\ batch \in [Decoders -> Seq(Partitions \X Nat)]
    BY DEF TypeOK, Exit
  <2> QED
    BY <2>1, <2>2, <2>3
<1>2. /\ elapsed' \in [Decoders -> 0..FlushTicks]
      /\ sleep' \in [Decoders -> 0..FlushTicks]
      /\ age' \in [Decoders -> 0..AgeCap]
      /\ skipped' \in [Decoders -> BOOLEAN]
  BY CapsAreNat DEF TypeOK, Exit
<1>3. /\ members' \subseteq Decoders
      /\ owner' \in [Partitions -> Decoders \cup {NoOwner}]
  BY DEF TypeOK, Exit
<1> QED
  BY <1>1, <1>2, <1>3 DEF TypeOK, Exit

(* Going back to the select. *)
LEMMA SkipType ==
  ASSUME TypeOK, NEW d \in Decoders, Skip(d)
  PROVE  /\ pc' = pc /\ batch' = batch /\ elapsed' = elapsed /\ age' = age
         /\ sleep' \in [Decoders -> 0..FlushTicks]
         /\ skipped' \in [Decoders -> BOOLEAN]
  BY CapsAreNat DEF TypeOK, Skip, Rearm

LEMMA FaultType ==
  ASSUME TypeOK, Fault
  PROVE  faults' \in 0..MaxFaults
  BY CapsAreNat DEF TypeOK, Fault

LEMMA ReceiveTypeOK ==
  ASSUME TypeOK, NEW d \in Decoders, Receive(d)
  PROVE  TypeOK'
<1> PICK p \in Partitions : \/ ReceiveEnvelope(d, p)
                            \/ ReceiveUnparseable(d, p)
                            \/ ReceiveEmpty(d, p)
                            \/ ReceiveBadId(d, p)
  BY DEF Receive
<1>1. CASE ReceiveEnvelope(d, p)
  <2>1. position' \in [Partitions -> Nat]
    BY <1>1 DEF ReceiveEnvelope, Advance, TypeOK
  <2>2. batch' \in [Decoders -> Seq(Partitions \X Nat)]
    BY <1>1 DEF ReceiveEnvelope, TypeOK
  <2>3. pc' \in [Decoders -> {"down", "select", "inserting", "inserted"}]
    BY <1>1 DEF ReceiveEnvelope, TypeOK
  <2>4. sleep' \in [Decoders -> 0..FlushTicks]
    BY <1>1, CapsAreNat DEF ReceiveEnvelope, Rearm, TypeOK
  <2> QED
    BY <1>1, <2>1, <2>2, <2>3, <2>4 DEF ReceiveEnvelope, TypeOK
<1>2. CASE ReceiveUnparseable(d, p)
  <2>1. position' \in [Partitions -> Nat] /\ commits' \subseteq Partitions \X Nat
    BY <1>2 DEF ReceiveUnparseable, CommitMessage, Advance, TypeOK
  <2> QED
    BY <1>2, <2>1, SkipType DEF ReceiveUnparseable, TypeOK
<1>3. CASE ReceiveEmpty(d, p)
  <2>1. position' \in [Partitions -> Nat]
    BY <1>3 DEF ReceiveEmpty, Advance, TypeOK
  <2> QED
    BY <1>3, <2>1, SkipType DEF ReceiveEmpty, TypeOK
<1>4. CASE ReceiveBadId(d, p)
  BY <1>4, ExitTypeOK DEF ReceiveBadId, TypeOK
<1> QED
  BY <1>1, <1>2, <1>3, <1>4

LEMMA StepTypeOK ==
  ASSUME TypeOK, NEW d \in Decoders, Step(d)
  PROVE  TypeOK'
<1>1. CASE Receive(d)
  BY <1>1, ReceiveTypeOK
<1>2. CASE Tick(d)
  <2>1. sleep' \in [Decoders -> 0..FlushTicks]
    BY <1>2, CapsAreNat DEF Tick, TypeOK
  <2>2. elapsed' \in [Decoders -> 0..FlushTicks]
    <3>1. elapsed \in [Decoders -> 0..FlushTicks] /\ FlushTicks \in Nat
      BY CapsAreNat DEF TypeOK
    <3>2. elapsed' = [elapsed EXCEPT ![d] =
                        IF elapsed[d] < FlushTicks THEN elapsed[d] + 1 ELSE elapsed[d]]
      BY <1>2 DEF Tick
    <3> QED
      BY <3>1, <3>2
  <2>3. age' \in [Decoders -> 0..AgeCap]
    <3>1. age \in [Decoders -> 0..AgeCap] /\ AgeCap \in Nat
      BY CapsAreNat DEF TypeOK
    <3>2. age' = [age EXCEPT ![d] =
                    IF batch[d] # <<>> /\ age[d] < AgeCap THEN age[d] + 1 ELSE age[d]]
      BY <1>2 DEF Tick
    <3>3. (IF batch[d] # <<>> /\ age[d] < AgeCap THEN age[d] + 1 ELSE age[d])
            \in 0..AgeCap
      BY <3>1
    <3> QED
      BY <3>1, <3>2, <3>3
  <2> QED
    BY <1>2, <2>1, <2>2, <2>3 DEF Tick, TypeOK, kafka
<1>3. CASE TimerFires(d)
  BY <1>3, CapsAreNat DEF TimerFires, Rearm, TypeOK, kafka
<1>4. CASE StoreRows(d)
  <2>1. tx_raw' \subseteq Partitions \X Nat
    BY <1>4, RowsOfType DEF StoreRows, InsertRows, TypeOK
  <2> QED
    BY <1>4, <2>1 DEF StoreRows, TypeOK, kafka
<1>5. CASE CommitState(d)
  <2>1. commits' \subseteq Partitions \X Nat
    BY <1>5 DEF CommitState, TypeOK
  <2>2. batch' \in [Decoders -> Seq(Partitions \X Nat)]
    BY <1>5 DEF CommitState, ClearBatch, TypeOK
  <2>3. /\ elapsed' \in [Decoders -> 0..FlushTicks]
        /\ age' \in [Decoders -> 0..AgeCap]
        /\ skipped' \in [Decoders -> BOOLEAN]
        /\ pc' \in [Decoders -> {"down", "select", "inserting", "inserted"}]
    BY <1>5, CapsAreNat DEF CommitState, TypeOK
  <2> QED
    BY <1>5, <2>1, <2>2, <2>3 DEF CommitState, TypeOK
<1> QED
  BY <1>1, <1>2, <1>3, <1>4, <1>5 DEF Step

LEMMA EnvironmentTypeOK ==
  ASSUME TypeOK, Environment
  PROVE  TypeOK'
<1>1. CASE \E p \in Partitions, m \in Message : Produce(p, m)
  BY <1>1 DEF Produce, TypeOK, loop
<1>2. CASE \E c \in commits : ApplyCommit(c[1], c[2]) \/ LoseCommit(c[1], c[2])
  BY <1>2 DEF ApplyCommit, LoseCommit, TypeOK, loop
<1>3. CASE Regroup
  <2> PICK a \in [Partitions -> Live] : Rebalance(a)
    BY <1>3 DEF Regroup
  <2>1. faults' \in 0..MaxFaults
    BY FaultType DEF Rebalance, TypeOK
  <2> QED
    BY <2>1 DEF Rebalance, TypeOK, Live, loop
<1>4. ASSUME NEW d \in Decoders,
             \/ Crash(d) \/ Restart(d) \/ KafkaError(d)
             \/ \E n \in 0..Len(batch[d]) : InsertError(d, n)
      PROVE  TypeOK'
  <2>1. CASE Crash(d)
    BY <2>1, ExitTypeOK, FaultType DEF Crash, TypeOK
  <2>2. CASE Restart(d)
    BY <2>2 DEF Restart, TypeOK, kafka
  <2>3. CASE KafkaError(d)
    BY <2>3, SkipType, FaultType DEF KafkaError, TypeOK, kafka
  <2>4. ASSUME NEW n \in 0..Len(batch[d]), InsertError(d, n)
        PROVE  TypeOK'
    <3>1. tx_raw' \subseteq Partitions \X Nat
      BY <2>4, RowsOfPrefix, RowsOfType DEF InsertError, InsertRows, TypeOK
    <3> QED
      BY <2>4, <3>1, ExitTypeOK, FaultType DEF InsertError
  <2> QED
    BY <1>4, <2>1, <2>2, <2>3, <2>4
<1> QED
  BY <1>1, <1>2, <1>3, <1>4 DEF Environment

LEMMA NextTypeOK == TypeOK /\ [Next]_vars => TypeOK'
<1> SUFFICES ASSUME TypeOK, [Next]_vars PROVE TypeOK'
  OBVIOUS
<1>1. CASE \E d \in Decoders : Step(d)
  BY <1>1, StepTypeOK
<1>2. CASE Environment
  BY <1>2, EnvironmentTypeOK
<1>3. CASE UNCHANGED vars
  BY <1>3 DEF TypeOK, vars, kafka, loop
<1> QED
  BY <1>1, <1>2, <1>3 DEF Next

(* Every variable keeps its type: offsets and commits are natural numbers,
   the ticks stay within the flush interval, the faults within their budget. *)
THEOREM TypeCorrect == Spec => []TypeOK
  BY InitTypeOK, NextTypeOK, PTL DEF Spec

-----------------------------------------------------------------------------
(* What every step keeps: the log and the table only grow. *)

Grow ==
  /\ tx_raw \subseteq tx_raw'
  /\ \A p \in Partitions :
       /\ Len(log[p]) <= Len(log'[p])
       /\ \A i \in 1..Len(log[p]) : log'[p][i] = log[p][i]

LEMMA SameLogGrows ==
  ASSUME TypeOK, log' = log, tx_raw \subseteq tx_raw'
  PROVE  Grow
  BY DEF Grow, TypeOK

LEMMA ProduceGrows ==
  ASSUME TypeOK, NEW p \in Partitions, NEW m \in Message, Produce(p, m)
  PROVE  Grow
<1>1. log[p] \in Seq(Message) /\ log'[p] = Append(log[p], m)
  BY DEF Produce, TypeOK
<1>2. ASSUME NEW q \in Partitions
      PROVE  /\ Len(log[q]) <= Len(log'[q])
             /\ \A i \in 1..Len(log[q]) : log'[q][i] = log[q][i]
  <2>1. CASE q = p
    BY <1>1, <2>1
  <2>2. CASE q # p
    BY <2>2 DEF Produce, TypeOK
  <2> QED
    BY <2>1, <2>2
<1> QED
  BY <1>2 DEF Grow, Produce

(* What is settled stays settled. *)
LEMMA SettledGrows ==
  ASSUME TypeOK, Grow, NEW p \in Partitions, NEW c \in Nat, c <= Len(log[p]),
         NEW o \in 0..(c - 1), Settled(p, o, c)
  PROVE  Settled(p, o, c)'
<1>1. o + 1 \in 1..Len(log[p]) /\ Len(log[p]) \in Nat
  BY DEF TypeOK
<1>2. Envelope(p, o)' => Envelope(p, o)
  BY <1>1 DEF Envelope, Grow
<1>3. CASE <<p, o>> \in tx_raw
  BY <1>3 DEF Settled, Grow
<1>4. ASSUME Forfeited(p, o, c)
      PROVE  Forfeited(p, o, c)'
  <2> PICK g \in (o + 1)..(c - 1) : log[p][g + 1] \in Unparseable
    BY <1>4 DEF Forfeited
  <2>1. g + 1 \in 1..Len(log[p])
    BY <1>1
  <2> QED
    BY <2>1 DEF Forfeited, Grow
<1> QED
  BY <1>2, <1>3, <1>4 DEF Settled

LEMMA EnvelopeGrows ==
  ASSUME TypeOK, TypeOK', Grow, NEW p \in Partitions, NEW o \in Nat, o < Len(log[p])
  PROVE  /\ o < Len(log'[p])
         /\ Envelope(p, o)' <=> Envelope(p, o)
<1>1. o + 1 \in 1..Len(log[p]) /\ Len(log[p]) \in Nat /\ Len(log'[p]) \in Nat
  BY DEF TypeOK
<1>2. Len(log[p]) <= Len(log'[p]) /\ log'[p][o + 1] = log[p][o + 1]
  BY <1>1 DEF Grow
<1> QED
  BY <1>1, <1>2 DEF Envelope

-----------------------------------------------------------------------------
(* The conjuncts of DeliveryInv that a step leaves alone. *)

LEMMA KeepCommitted ==
  ASSUME TypeOK, Grow, OffsetsInLog, LossOnlyBehindGarbage, committed' = committed
  PROVE  LossOnlyBehindGarbage'
<1> SUFFICES ASSUME NEW p \in Partitions, NEW o \in 0..(committed[p] - 1)
             PROVE  Settled(p, o, committed[p])'
  BY DEF LossOnlyBehindGarbage
<1>1. committed[p] \in Nat /\ committed[p] <= Len(log[p])
  BY DEF TypeOK, OffsetsInLog
<1>2. Settled(p, o, committed[p])
  BY DEF LossOnlyBehindGarbage
<1>3. PICK c \in Nat : c = committed[p]
  BY <1>1
<1>4. Settled(p, o, c)'
  BY <1>1, <1>2, <1>3, SettledGrows
<1> QED
  BY <1>3, <1>4

LEMMA KeepCommits ==
  ASSUME TypeOK, Grow, OffsetsInLog, CommitsSettled, commits' \subseteq commits
  PROVE  CommitsSettled'
<1> SUFFICES ASSUME NEW k \in commits', NEW o \in 0..(k[2] - 1)
             PROVE  Settled(k[1], o, k[2])'
  BY DEF CommitsSettled
<1>1. k \in commits /\ k[1] \in Partitions /\ k[2] \in Nat /\ k[2] <= Len(log[k[1]])
  BY DEF TypeOK, OffsetsInLog
<1>2. Settled(k[1], o, k[2])
  BY <1>1 DEF CommitsSettled
<1> QED
  BY <1>1, <1>2, SettledGrows

LEMMA KeepPositions ==
  ASSUME TypeOK, Grow, OffsetsInLog, PositionHeld, position' = position,
         \A p \in Partitions, d \in Decoders :
           owner'[p] = d => owner[p] = d /\ RowsOf(batch[d]) \subseteq RowsOf(batch'[d])
  PROVE  PositionHeld'
<1> SUFFICES ASSUME NEW p \in Partitions, NEW d \in Decoders, owner'[p] = d,
                    NEW o \in 0..(position[p] - 1),
                    <<p, o>> \notin RowsOf(batch'[d])
             PROVE  Settled(p, o, position[p])'
  BY DEF PositionHeld
<1>1. position[p] \in Nat /\ position[p] <= Len(log[p])
  BY DEF TypeOK, OffsetsInLog
<1>2. Settled(p, o, position[p])
  BY DEF PositionHeld
<1>3. PICK c \in Nat : c = position[p]
  BY <1>1
<1>4. Settled(p, o, c)'
  BY <1>1, <1>2, <1>3, SettledGrows
<1> QED
  BY <1>3, <1>4

LEMMA KeepOffsets ==
  ASSUME TypeOK, TypeOK', Grow, OffsetsInLog,
         committed' = committed, commits' \subseteq commits,
         \A p \in Partitions : position'[p] = position[p] \/ position'[p] <= Len(log[p]),
         \A d \in Decoders : RowsOf(batch'[d]) \subseteq RowsOf(batch[d])
  PROVE  OffsetsInLog'
<1>1. ASSUME NEW p \in Partitions
      PROVE  committed'[p] <= Len(log'[p]) /\ position'[p] <= Len(log'[p])
  <2>1. /\ committed[p] \in Nat /\ position[p] \in Nat /\ position'[p] \in Nat
        /\ Len(log[p]) \in Nat /\ Len(log'[p]) \in Nat
    BY DEF TypeOK
  <2> QED
    BY <2>1 DEF OffsetsInLog, Grow
<1>2. ASSUME NEW k \in commits'
      PROVE  k[2] <= Len(log'[k[1]])
  <2>1. /\ k \in commits /\ k[1] \in Partitions /\ k[2] \in Nat
        /\ Len(log[k[1]]) \in Nat /\ Len(log'[k[1]]) \in Nat
    BY DEF TypeOK
  <2> QED
    BY <2>1 DEF OffsetsInLog, Grow
<1>3. ASSUME NEW d \in Decoders, NEW r \in RowsOf(batch'[d])
      PROVE  r[2] < Len(log'[r[1]]) /\ Envelope(r[1], r[2])'
  <2>1. r \in RowsOf(batch[d]) /\ batch[d] \in Seq(Partitions \X Nat)
    BY DEF TypeOK
  <2>2. r[1] \in Partitions /\ r[2] \in Nat
    BY <2>1, RowsOfType
  <2>3. r[2] < Len(log[r[1]]) /\ Envelope(r[1], r[2])
    BY <2>1 DEF OffsetsInLog
  <2> QED
    BY <2>2, <2>3, EnvelopeGrows
<1> QED
  BY <1>1, <1>2, <1>3 DEF OffsetsInLog, RowsOf

(* A step that moves no offset, batch or owner. *)
LEMMA QuietStep ==
  ASSUME TypeOK, TypeOK', Grow, DeliveryInv, InsertedStored',
         UNCHANGED <<committed, position, owner, batch>>, commits' \subseteq commits
  PROVE  DeliveryInv'
<1>1. OffsetsInLog'
  BY KeepOffsets DEF DeliveryInv
<1>2. LossOnlyBehindGarbage'
  BY KeepCommitted DEF DeliveryInv
<1>3. CommitsSettled'
  BY KeepCommits DEF DeliveryInv
<1>4. PositionHeld'
  BY KeepPositions DEF DeliveryInv
<1> QED
  BY <1>1, <1>2, <1>3, <1>4 DEF DeliveryInv

(* A process that leaves takes with it only rows it no longer owns. *)
LEMMA ExitStep ==
  ASSUME TypeOK, TypeOK', Grow, DeliveryInv, NEW d \in Decoders, Exit(d)
  PROVE  DeliveryInv'
<1>1. ASSUME NEW e \in Decoders
      PROVE  /\ e # d => batch'[e] = batch[e] /\ pc'[e] = pc[e]
             /\ e = d => batch'[e] = <<>> /\ pc'[e] = "down"
  BY DEF Exit, TypeOK
<1>2. RowsOf(<<>>) = {}
  BY DEF RowsOf
<1>3. \A e \in Decoders : RowsOf(batch'[e]) \subseteq RowsOf(batch[e])
  BY <1>1, <1>2
<1>4. OffsetsInLog'
  BY <1>3, KeepOffsets DEF DeliveryInv, Exit
<1>5. LossOnlyBehindGarbage' /\ CommitsSettled'
  BY KeepCommitted, KeepCommits DEF DeliveryInv, Exit
<1>6. PositionHeld'
  <2>1. ASSUME NEW p \in Partitions, NEW e \in Decoders, owner'[p] = e
        PROVE  owner[p] = e /\ RowsOf(batch[e]) \subseteq RowsOf(batch'[e])
    <3>1. owner[p] # d /\ owner[p] = e
      BY <2>1, OwnerAssumption DEF Exit
    <3> QED
      BY <3>1, <1>1
  <2> QED
    BY <2>1, KeepPositions DEF DeliveryInv, Exit
<1>7. InsertedStored'
  BY <1>1 DEF DeliveryInv, InsertedStored, Grow
<1> QED
  BY <1>4, <1>5, <1>6, <1>7 DEF DeliveryInv

(* The broker takes a commit: the offset was settled when it was sent. *)
LEMMA ApplyCommitStep ==
  ASSUME TypeOK, TypeOK', DeliveryInv, NEW p \in Partitions, NEW c \in Nat,
         ApplyCommit(p, c)
  PROVE  DeliveryInv'
<1>1. Grow
  BY SameLogGrows DEF ApplyCommit
<1>2. c <= Len(log[p]) /\ \A o \in 0..(c - 1) : Settled(p, o, c)
  BY DEF ApplyCommit, DeliveryInv, OffsetsInLog, CommitsSettled
<1>3. OffsetsInLog'
  BY <1>2 DEF ApplyCommit, DeliveryInv, OffsetsInLog, TypeOK, loop, Envelope
<1>4. LossOnlyBehindGarbage'
  <2> SUFFICES ASSUME NEW q \in Partitions, NEW o \in 0..(committed'[q] - 1)
               PROVE  Settled(q, o, committed[q])'
    BY DEF LossOnlyBehindGarbage
  <2>1. /\ q = p => committed'[q] = c
        /\ q # p => committed'[q] = committed[q]
    BY DEF ApplyCommit, TypeOK
  <2>2. Settled(q, o, committed'[q])
    BY <1>2, <2>1 DEF DeliveryInv, LossOnlyBehindGarbage
  <2> QED
    BY <2>2 DEF ApplyCommit, Settled, Envelope, Forfeited
<1>5. CommitsSettled'
  BY <1>1, KeepCommits DEF DeliveryInv, ApplyCommit
<1>6. PositionHeld'
  BY <1>1, KeepPositions DEF DeliveryInv, ApplyCommit, loop
<1>7. InsertedStored'
  BY DEF DeliveryInv, InsertedStored, ApplyCommit, loop
<1> QED
  BY <1>3, <1>4, <1>5, <1>6, <1>7 DEF DeliveryInv

(* A rebalance starts every partition at an offset that is settled. *)
LEMMA RebalanceStep ==
  ASSUME TypeOK, TypeOK', DeliveryInv, NEW a, Rebalance(a)
  PROVE  DeliveryInv'
<1>1. Grow
  BY SameLogGrows DEF Rebalance
<1>2. OffsetsInLog'
  BY DEF Rebalance, DeliveryInv, OffsetsInLog, TypeOK, loop, Envelope
<1>3. LossOnlyBehindGarbage' /\ CommitsSettled'
  BY <1>1, KeepCommitted, KeepCommits DEF DeliveryInv, Rebalance
<1>4. PositionHeld'
  <2> SUFFICES ASSUME NEW p \in Partitions, NEW o \in 0..(position'[p] - 1)
               PROVE  Settled(p, o, position[p])'
    BY DEF PositionHeld
  <2>1. Settled(p, o, committed[p])
    BY DEF Rebalance, DeliveryInv, LossOnlyBehindGarbage
  <2> QED
    BY <2>1 DEF Rebalance, Settled, Envelope, Forfeited
<1>5. InsertedStored'
  BY DEF DeliveryInv, InsertedStored, Rebalance, loop
<1> QED
  BY <1>2, <1>3, <1>4, <1>5 DEF DeliveryInv

-----------------------------------------------------------------------------
(* The steps that move the position of a partition. *)

(* With position[p] = n, one more message is given out: what was held is held
   up to n + 1, provided the message at n is no envelope or is in the batch. *)
LEMMA AdvanceHolds ==
  ASSUME TypeOK, TypeOK', DeliveryInv, NEW d \in Decoders, NEW p \in Partitions,
         Ready(d, p), Advance(p),
         UNCHANGED <<log, tx_raw, owner>>,
         \A e \in Decoders : RowsOf(batch[e]) \subseteq RowsOf(batch'[e]),
         Envelope(p, position[p]) => <<p, position[p]>> \in RowsOf(batch'[d])
  PROVE  PositionHeld'
<1>1. Grow
  BY SameLogGrows
<1>2. /\ position[p] \in Nat /\ position[p] < Len(log[p]) /\ owner[p] = d
      /\ position'[p] = position[p] + 1
      /\ \A q \in Partitions : q # p => position'[q] = position[q]
  BY DEF Ready, Advance, TypeOK
<1> SUFFICES ASSUME NEW q \in Partitions, NEW e \in Decoders, owner'[q] = e,
                    NEW o \in 0..(position'[q] - 1),
                    <<q, o>> \notin RowsOf(batch'[e])
             PROVE  Settled(q, o, position[q])'
  BY DEF PositionHeld
<1>3. CASE q # p
  <2>1. Settled(q, o, position[q])
    BY <1>2, <1>3 DEF DeliveryInv, PositionHeld
  <2> QED
    BY <1>2, <1>3, <2>1 DEF Settled, Envelope, Forfeited
<1>4. CASE q = p
  <2>1. e = d
    BY <1>2, <1>4
  <2>2. CASE o = position[p]
    BY <1>4, <2>1, <2>2 DEF Settled, Envelope
  <2>3. CASE o # position[p]
    <3>1. o \in 0..(position[p] - 1)
      BY <1>2, <1>4, <2>3
    <3>2. Settled(p, o, position[p])
      BY <1>2, <1>4, <2>1, <3>1 DEF DeliveryInv, PositionHeld
    <3>3. Forfeited(p, o, position[p]) => Forfeited(p, o, position[p])'
      BY <1>2, <3>1 DEF Forfeited
    <3> QED
      BY <1>4, <3>2, <3>3 DEF Settled, Envelope
  <2> QED
    BY <2>2, <2>3
<1> QED
  BY <1>3, <1>4

LEMMA ReceiveEnvelopeStep ==
  ASSUME TypeOK, TypeOK', DeliveryInv, NEW d \in Decoders, NEW p \in Partitions,
         ReceiveEnvelope(d, p)
  PROVE  DeliveryInv'
<1>1. Grow
  BY SameLogGrows DEF ReceiveEnvelope
<1> DEFINE row == <<p, position[p]>>
<1>2. /\ position[p] \in Nat /\ position[p] < Len(log[p])
      /\ Envelope(p, position[p])
      /\ row \in Partitions \X Nat
  BY DEF ReceiveEnvelope, Ready, Upcoming, Envelope, TypeOK
<1>3. /\ RowsOf(batch'[d]) = RowsOf(batch[d]) \cup {row}
      /\ \A e \in Decoders : e # d => batch'[e] = batch[e]
  <2>1. /\ batch[d] \in Seq(Partitions \X Nat)
        /\ batch'[d] = Append(batch[d], row)
        /\ \A e \in Decoders : e # d => batch'[e] = batch[e]
    BY DEF ReceiveEnvelope, TypeOK
  <2>2. RowsOf(Append(batch[d], row)) = RowsOf(batch[d]) \cup {row}
    BY <1>2, <2>1, RowsOfAppend
  <2> QED
    BY <2>1, <2>2
<1> HIDE DEF row
<1>4. OffsetsInLog'
  <2>1. \A q \in Partitions : committed'[q] <= Len(log'[q]) /\ position'[q] <= Len(log'[q])
    BY <1>2 DEF ReceiveEnvelope, Advance, DeliveryInv, OffsetsInLog, TypeOK
  <2>2. \A c \in commits' : c[2] <= Len(log'[c[1]])
    BY DEF ReceiveEnvelope, DeliveryInv, OffsetsInLog
  <2>3. ASSUME NEW e \in Decoders, NEW r \in RowsOf(batch'[e])
        PROVE  r[2] < Len(log'[r[1]]) /\ Envelope(r[1], r[2])'
    <3>1. r = row \/ r \in RowsOf(batch[e])
      BY <1>3, <2>3
    <3>2. r[2] < Len(log[r[1]]) /\ Envelope(r[1], r[2])
      BY <3>1, <1>2 DEF row, DeliveryInv, OffsetsInLog
    <3> QED
      BY <3>2 DEF ReceiveEnvelope, Envelope
  <2> QED
    BY <2>1, <2>2, <2>3 DEF OffsetsInLog, RowsOf
<1>5. LossOnlyBehindGarbage' /\ CommitsSettled'
  BY <1>1, KeepCommitted, KeepCommits DEF DeliveryInv, ReceiveEnvelope
<1>6. PositionHeld'
  BY <1>3, AdvanceHolds DEF ReceiveEnvelope, row
<1>7. InsertedStored'
  <2>1. pc'[d] # "inserted" /\ \A e \in Decoders : e # d => pc'[e] = pc[e]
    BY DEF ReceiveEnvelope, TypeOK
  <2> QED
    BY <1>3, <2>1 DEF DeliveryInv, InsertedStored, ReceiveEnvelope
<1> QED
  BY <1>4, <1>5, <1>6, <1>7 DEF DeliveryInv

(* The offset after an unparseable payload may be committed: that payload
   stands between it and whatever is still in a batch. *)
LEMMA ReceiveUnparseableStep ==
  ASSUME TypeOK, TypeOK', DeliveryInv, NEW d \in Decoders, NEW p \in Partitions,
         ReceiveUnparseable(d, p)
  PROVE  DeliveryInv'
<1>1. Grow
  BY SameLogGrows DEF ReceiveUnparseable
<1>2. /\ position[p] \in Nat /\ position[p] < Len(log[p]) /\ Len(log[p]) \in Nat
      /\ log[p][position[p] + 1] \in Unparseable
      /\ ~ Envelope(p, position[p])
  BY KindsAssumption DEF ReceiveUnparseable, Ready, Upcoming, Envelope, TypeOK
<1>3. UNCHANGED <<pc, batch>>
  BY DEF ReceiveUnparseable, Skip
<1>4. OffsetsInLog'
  <2>1. \A q \in Partitions : committed'[q] <= Len(log'[q]) /\ position'[q] <= Len(log'[q])
    BY <1>2 DEF ReceiveUnparseable, Advance, DeliveryInv, OffsetsInLog, TypeOK
  <2>2. \A c \in commits' : c[2] <= Len(log'[c[1]])
    BY <1>2 DEF ReceiveUnparseable, CommitMessage, DeliveryInv, OffsetsInLog
  <2> QED
    BY <1>3, <2>1, <2>2 DEF DeliveryInv, OffsetsInLog, ReceiveUnparseable, Envelope
<1>5. LossOnlyBehindGarbage'
  BY <1>1, KeepCommitted DEF DeliveryInv, ReceiveUnparseable
<1>6. CommitsSettled'
  <2> SUFFICES ASSUME NEW k \in commits', NEW o \in 0..(k[2] - 1)
               PROVE  Settled(k[1], o, k[2])'
    BY DEF CommitsSettled
  <2>1. CASE k \in commits
    <3>1. Settled(k[1], o, k[2])
      BY <2>1 DEF DeliveryInv, CommitsSettled
    <3> QED
      BY <3>1 DEF ReceiveUnparseable, Settled, Envelope, Forfeited
  <2>2. CASE k = <<p, position[p] + 1>>
    <3>1. k[1] = p /\ k[2] = position[p] + 1
      BY <2>2
    <3>2. CASE o = position[p]
      BY <1>2, <3>1, <3>2 DEF ReceiveUnparseable, Settled, Envelope
    <3>3. CASE o # position[p]
      BY <1>2, <3>1, <3>3 DEF ReceiveUnparseable, Settled, Forfeited
    <3> QED
      BY <3>2, <3>3
  <2> QED
    BY <2>1, <2>2 DEF ReceiveUnparseable, CommitMessage
<1>7. PositionHeld'
  BY <1>2, <1>3, AdvanceHolds DEF ReceiveUnparseable
<1>8. InsertedStored'
  BY <1>3 DEF DeliveryInv, InsertedStored, ReceiveUnparseable
<1> QED
  BY <1>4, <1>5, <1>6, <1>7, <1>8 DEF DeliveryInv

LEMMA ReceiveEmptyStep ==
  ASSUME TypeOK, TypeOK', DeliveryInv, NEW d \in Decoders, NEW p \in Partitions,
         ReceiveEmpty(d, p)
  PROVE  DeliveryInv'
<1>1. Grow
  BY SameLogGrows DEF ReceiveEmpty
<1>2. position[p] \in Nat /\ position[p] < Len(log[p]) /\ ~ Envelope(p, position[p])
  BY KindsAssumption DEF ReceiveEmpty, Ready, Upcoming, Envelope, TypeOK
<1>3. UNCHANGED <<pc, batch>>
  BY DEF ReceiveEmpty, Skip
<1>4. OffsetsInLog'
  <2>1. \A q \in Partitions : position'[q] = position[q] \/ position'[q] <= Len(log[q])
    BY <1>2 DEF ReceiveEmpty, Advance, TypeOK
  <2> QED
    BY <1>1, <1>3, <2>1, KeepOffsets DEF DeliveryInv, ReceiveEmpty
<1>5. LossOnlyBehindGarbage' /\ CommitsSettled'
  BY <1>1, KeepCommitted, KeepCommits DEF DeliveryInv, ReceiveEmpty
<1>6. PositionHeld'
  BY <1>2, <1>3, AdvanceHolds DEF ReceiveEmpty
<1>7. InsertedStored'
  BY <1>3 DEF DeliveryInv, InsertedStored, ReceiveEmpty
<1> QED
  BY <1>4, <1>5, <1>6, <1>7 DEF DeliveryInv

(* The rows of the batch are stored, so all that the partitions of d were
   given up to now is settled and may be committed. *)
LEMMA CommitStateStep ==
  ASSUME TypeOK, TypeOK', DeliveryInv, NEW d \in Decoders, CommitState(d)
  PROVE  DeliveryInv'
<1>1. Grow
  BY SameLogGrows DEF CommitState
<1>2. /\ batch'[d] = <<>> /\ pc'[d] = "select"
      /\ \A e \in Decoders : e # d => batch'[e] = batch[e] /\ pc'[e] = pc[e]
  BY DEF CommitState, ClearBatch, TypeOK
<1>3. RowsOf(<<>>) = {}
  BY DEF RowsOf
<1>4. ASSUME NEW p \in Partitions, owner[p] = d, NEW o \in 0..(position[p] - 1)
      PROVE  Settled(p, o, position[p])
  <2>1. RowsOf(batch[d]) \subseteq tx_raw
    BY DEF CommitState, DeliveryInv, InsertedStored
  <2>2. Settled(p, o, position[p]) \/ <<p, o>> \in RowsOf(batch[d])
    BY <1>4 DEF DeliveryInv, PositionHeld
  <2> QED
    BY <2>1, <2>2 DEF Settled
<1>5. OffsetsInLog'
  <2>1. \A c \in commits' : c[2] <= Len(log'[c[1]])
    BY DEF CommitState, DeliveryInv, OffsetsInLog
  <2>2. ASSUME NEW e \in Decoders, NEW r \in RowsOf(batch'[e])
        PROVE  r[2] < Len(log'[r[1]]) /\ Envelope(r[1], r[2])'
    BY <1>2, <1>3, <2>2 DEF CommitState, DeliveryInv, OffsetsInLog, Envelope
  <2>3. \A q \in Partitions : committed'[q] <= Len(log'[q]) /\ position'[q] <= Len(log'[q])
    BY DEF CommitState, DeliveryInv, OffsetsInLog
  <2> QED
    BY <2>1, <2>2, <2>3 DEF OffsetsInLog, RowsOf
<1>6. LossOnlyBehindGarbage'
  BY <1>1, KeepCommitted DEF DeliveryInv, CommitState
<1>7. CommitsSettled'
  <2> SUFFICES ASSUME NEW k \in commits', NEW o \in 0..(k[2] - 1)
               PROVE  Settled(k[1], o, k[2])
    BY DEF CommitsSettled, CommitState, Settled, Envelope, Forfeited
  <2>1. CASE k \in commits
    BY <2>1 DEF DeliveryInv, CommitsSettled
  <2>2. CASE \E p \in Partitions : owner[p] = d /\ k = <<p, position[p]>>
    BY <1>4, <2>2
  <2> QED
    BY <2>1, <2>2 DEF CommitState
<1>8. PositionHeld'
  <2> SUFFICES ASSUME NEW p \in Partitions, NEW e \in Decoders, owner[p] = e,
                      NEW o \in 0..(position[p] - 1),
                      <<p, o>> \notin RowsOf(batch'[e])
               PROVE  Settled(p, o, position[p])
    BY DEF PositionHeld, CommitState, Settled, Envelope, Forfeited
  <2>1. CASE e = d
    BY <1>4, <2>1
  <2>2. CASE e # d
    BY <1>2, <2>2 DEF DeliveryInv, PositionHeld
  <2> QED
    BY <2>1, <2>2
<1>9. InsertedStored'
  BY <1>2 DEF DeliveryInv, InsertedStored, CommitState
<1> QED
  BY <1>5, <1>6, <1>7, <1>8, <1>9 DEF DeliveryInv

-----------------------------------------------------------------------------
(* The inductive invariant *)

LEMMA NextGrows ==
  ASSUME TypeOK, TypeOK', [Next]_vars
  PROVE  Grow
<1>1. CASE \E d \in Decoders : Step(d)
  <2> PICK d \in Decoders : Step(d)
    BY <1>1
  <2>1. log' = log /\ tx_raw \subseteq tx_raw'
    BY DEF Step, Receive, ReceiveEnvelope, ReceiveUnparseable, ReceiveEmpty,
           ReceiveBadId, Exit, Tick, TimerFires, StoreRows, InsertRows,
           CommitState, kafka
  <2> QED
    BY <2>1, SameLogGrows
<1>2. CASE Environment
  <2>1. CASE \E p \in Partitions, m \in Message : Produce(p, m)
    BY <2>1, ProduceGrows
  <2>2. CASE ~ \E p \in Partitions, m \in Message : Produce(p, m)
    <3>1. log' = log /\ tx_raw \subseteq tx_raw'
      BY <1>2, <2>2 DEF Environment, ApplyCommit, LoseCommit, Regroup, Rebalance,
           Crash, Restart, KafkaError, InsertError, InsertRows, Exit, kafka
    <3> QED
      BY <3>1, SameLogGrows
  <2> QED
    BY <2>1, <2>2
<1>3. CASE UNCHANGED vars
  BY <1>3, SameLogGrows DEF vars, kafka
<1> QED
  BY <1>1, <1>2, <1>3 DEF Next

LEMMA InitDeliveryInv == Init => DeliveryInv
<1> SUFFICES ASSUME Init PROVE DeliveryInv
  OBVIOUS
<1>1. \A d \in Decoders : RowsOf(batch[d]) = {}
  BY DEF Init, RowsOf
<1>2. \A p \in Partitions : committed[p] = 0 /\ position[p] = 0 /\ Len(log[p]) = 0
  BY DEF Init
<1> QED
  BY <1>1, <1>2 DEF Init, DeliveryInv, OffsetsInLog, LossOnlyBehindGarbage,
     CommitsSettled, PositionHeld, InsertedStored

LEMMA StepDeliveryInv ==
  ASSUME TypeOK, TypeOK', Grow, DeliveryInv, NEW d \in Decoders, Step(d)
  PROVE  DeliveryInv'
<1>1. CASE Receive(d)
  <2> PICK p \in Partitions : \/ ReceiveEnvelope(d, p)
                              \/ ReceiveUnparseable(d, p)
                              \/ ReceiveEmpty(d, p)
                              \/ ReceiveBadId(d, p)
    BY <1>1 DEF Receive
  <2> QED
    BY ReceiveEnvelopeStep, ReceiveUnparseableStep, ReceiveEmptyStep, ExitStep
       DEF ReceiveBadId
<1>2. CASE Tick(d)
  BY <1>2, QuietStep DEF Tick, kafka, DeliveryInv, InsertedStored
<1>3. CASE TimerFires(d)
  <2>1. InsertedStored'
    BY <1>3 DEF TimerFires, TypeOK, DeliveryInv, InsertedStored
  <2> QED
    BY <1>3, <2>1, QuietStep DEF TimerFires, kafka
<1>4. CASE StoreRows(d)
  <2>1. InsertedStored'
    BY <1>4 DEF StoreRows, InsertRows, TypeOK, DeliveryInv, InsertedStored
  <2> QED
    BY <1>4, <2>1, QuietStep DEF StoreRows, kafka
<1>5. CASE CommitState(d)
  BY <1>5, CommitStateStep
<1> QED
  BY <1>1, <1>2, <1>3, <1>4, <1>5 DEF Step

LEMMA EnvironmentDeliveryInv ==
  ASSUME TypeOK, TypeOK', Grow, DeliveryInv, Environment
  PROVE  DeliveryInv'
<1>1. CASE \E p \in Partitions, m \in Message : Produce(p, m)
  BY <1>1, QuietStep DEF Produce, loop, DeliveryInv, InsertedStored
<1>2. ASSUME NEW c \in commits, ApplyCommit(c[1], c[2])
      PROVE  DeliveryInv'
  BY <1>2, ApplyCommitStep DEF TypeOK
<1>3. ASSUME NEW c \in commits, LoseCommit(c[1], c[2])
      PROVE  DeliveryInv'
  BY <1>3, QuietStep DEF LoseCommit, loop, DeliveryInv, InsertedStored
<1>4. CASE Regroup
  BY <1>4, RebalanceStep DEF Regroup
<1>5. ASSUME NEW d \in Decoders,
             Crash(d) \/ \E n \in 0..Len(batch[d]) : InsertError(d, n)
      PROVE  DeliveryInv'
  BY <1>5, ExitStep DEF Crash, InsertError
<1>6. ASSUME NEW d \in Decoders, Restart(d)
      PROVE  DeliveryInv'
  <2>1. InsertedStored'
    BY <1>6 DEF Restart, TypeOK, DeliveryInv, InsertedStored
  <2> QED
    BY <1>6, <2>1, QuietStep DEF Restart, kafka
<1>7. ASSUME NEW d \in Decoders, KafkaError(d)
      PROVE  DeliveryInv'
  BY <1>7, QuietStep DEF KafkaError, Skip, kafka, DeliveryInv, InsertedStored
<1> QED
  BY <1>1, <1>2, <1>3, <1>4, <1>5, <1>6, <1>7 DEF Environment

LEMMA NextDeliveryInv == TypeOK /\ DeliveryInv /\ [Next]_vars => DeliveryInv'
<1> SUFFICES ASSUME TypeOK, DeliveryInv, [Next]_vars PROVE DeliveryInv'
  OBVIOUS
<1>1. TypeOK' /\ Grow
  BY NextTypeOK, NextGrows
<1>2. CASE \E d \in Decoders : Step(d)
  BY <1>1, <1>2, StepDeliveryInv
<1>3. CASE Environment
  BY <1>1, <1>3, EnvironmentDeliveryInv
<1>4. CASE UNCHANGED vars
  BY <1>1, <1>4, QuietStep DEF vars, kafka, loop, DeliveryInv, InsertedStored
<1> QED
  BY <1>2, <1>3, <1>4 DEF Next

(* Every reachable state satisfies the inductive invariant: committed, sent
   and held offsets are settled up to the rows still in batches. *)
THEOREM DeliveryInvariant == Spec => []DeliveryInv
<1>1. Init => TypeOK /\ DeliveryInv
  BY InitTypeOK, InitDeliveryInv
<1>2. TypeOK /\ DeliveryInv /\ [Next]_vars => (TypeOK /\ DeliveryInv)'
  BY NextTypeOK, NextDeliveryInv
<1> QED
  BY <1>1, <1>2, PTL DEF Spec

(* No crash, failed or partial insert, lost or overtaken commit and no
   rebalance makes the decoder lose an envelope: below a committed offset each
   one is in tx_raw, or an unparseable payload was committed behind it. *)
THEOREM NoLossExceptBehindGarbage == Spec => []LossOnlyBehindGarbage
<1>1. DeliveryInv => LossOnlyBehindGarbage
  BY DEF DeliveryInv
<1> QED
  BY <1>1, DeliveryInvariant, PTL

-----------------------------------------------------------------------------
(* Where offsets come from *)

(* An offset of p after a step: one there was, or the one after a message that
   a decoder with room in its batch is given and does not die of. *)
Reaches(p, c) ==
  \/ c \in {committed[p], position[p]} \/ <<p, c>> \in commits
  \/ c = position[p] + 1 /\ Upcoming(p) \notin BadId /\ \E d \in Decoders : Ready(d, p)

LEMMA OffsetsMove ==
  ASSUME TypeOK, TypeOK', [Next]_vars
  PROVE  /\ \A p \in Partitions : Reaches(p, committed'[p]) /\ Reaches(p, position'[p])
         /\ \A c \in commits' : Reaches(c[1], c[2])
<1> DEFINE AllReach == /\ \A p \in Partitions : /\ Reaches(p, committed'[p])
                                                /\ Reaches(p, position'[p])
                       /\ \A c \in commits' : Reaches(c[1], c[2])
<1>1. ASSUME \A p \in Partitions :
               /\ committed'[p] = committed[p] \/ <<p, committed'[p]>> \in commits
               /\ position'[p] \in {position[p], committed[p]},
             \A c \in commits' : c \in commits \/ c[2] = position[c[1]]
      PROVE  AllReach
  <2>1. \A c \in commits' : c = <<c[1], c[2]>>
    BY DEF TypeOK
  <2> QED
    BY <1>1, <2>1 DEF Reaches
<1>2. ASSUME NEW d \in Decoders, NEW p \in Partitions,
             \/ ReceiveEnvelope(d, p) \/ ReceiveUnparseable(d, p) \/ ReceiveEmpty(d, p)
      PROVE  AllReach
  <2>1. Ready(d, p) /\ Upcoming(p) \notin BadId
    BY <1>2, KindsAssumption DEF ReceiveEnvelope, ReceiveUnparseable, ReceiveEmpty
  <2>2. /\ committed' = committed
        /\ position' = [position EXCEPT ![p] = position[p] + 1]
        /\ commits' \subseteq commits \cup {<<p, position[p] + 1>>}
    BY <1>2 DEF ReceiveEnvelope, ReceiveUnparseable, ReceiveEmpty, Advance, CommitMessage
  <2>3. \A q \in Partitions : position'[q] = IF q = p THEN position[p] + 1 ELSE position[q]
    BY <2>2 DEF TypeOK
  <2>4. \A c \in commits : c = <<c[1], c[2]>>
    <3>1. commits \subseteq Partitions \X Nat
      BY DEF TypeOK
    <3> QED
      BY <3>1
  <2> QED
    BY <2>1, <2>2, <2>3, <2>4 DEF Reaches
<1>3. CASE UNCHANGED <<committed, position, commits>>
  BY <1>1, <1>3
<1>4. ASSUME NEW d \in Decoders, Step(d)
      PROVE  AllReach
  <2>1. CASE CommitState(d)
    BY <1>1, <2>1 DEF CommitState
  <2>2. CASE Tick(d) \/ TimerFires(d) \/ StoreRows(d)
    BY <1>3, <2>2 DEF Tick, TimerFires, StoreRows, kafka
  <2>3. CASE \E p \in Partitions : ReceiveBadId(d, p)
    BY <1>3, <2>3 DEF ReceiveBadId, Exit
  <2> QED
    BY <1>2, <1>4, <2>1, <2>2, <2>3 DEF Step, Receive
<1>5. ASSUME NEW c \in commits, ApplyCommit(c[1], c[2]) \/ LoseCommit(c[1], c[2])
      PROVE  AllReach
  <2>1. \A p \in Partitions : committed'[p] = committed[p] \/ <<p, committed'[p]>> \in commits
    BY <1>5 DEF ApplyCommit, LoseCommit, TypeOK
  <2> QED
    BY <1>1, <1>5, <2>1 DEF ApplyCommit, LoseCommit
<1>6. CASE Regroup
  BY <1>1, <1>6 DEF Regroup, Rebalance
<1>7. ASSUME NEW d \in Decoders,
             \/ Crash(d) \/ Restart(d) \/ KafkaError(d)
             \/ \E n \in 0..Len(batch[d]) : InsertError(d, n)
      PROVE  AllReach
  BY <1>3, <1>7 DEF Crash, Exit, Restart, KafkaError, InsertError, kafka
<1>8. CASE \E p \in Partitions, m \in Message : Produce(p, m)
  BY <1>3, <1>8 DEF Produce
<1>9. CASE UNCHANGED vars
  BY <1>3, <1>9 DEF vars, kafka
<1> QED
  BY <1>4, <1>5, <1>6, <1>7, <1>8, <1>9 DEF Next, Environment

-----------------------------------------------------------------------------
(* Malformed event ids *)

(* The offset c of partition p is in its log and not past a malformed event id. *)
BeforePoison(p, c) ==
  /\ c \in Nat /\ c <= Len(log[p])
  /\ \A o \in Offsets(p) : log[p][o + 1] \in BadId => c <= o

LEMMA OffsetsBeforePoison ==
  ASSUME TypeOK, OffsetsInLog, PoisonBlocksPartition
  PROVE  /\ \A p \in Partitions : BeforePoison(p, committed[p]) /\ BeforePoison(p, position[p])
         /\ \A c \in commits : BeforePoison(c[1], c[2])
BY DEF TypeOK, OffsetsInLog, PoisonBlocksPartition, BeforePoison

(* A malformed event id that is new in the log is behind every offset there was. *)
LEMMA PoisonGrows ==
  ASSUME TypeOK, TypeOK', Grow,
         \A p \in Partitions :
           BeforePoison(p, committed'[p]) /\ BeforePoison(p, position'[p]),
         \A c \in commits' : BeforePoison(c[1], c[2])
  PROVE  PoisonBlocksPartition'
<1> SUFFICES ASSUME NEW p \in Partitions, NEW o \in Offsets(p)', log'[p][o + 1] \in BadId,
                    NEW c, BeforePoison(p, c)
             PROVE  c <= o
  BY DEF PoisonBlocksPartition
<1>1. o \in 0..(Len(log'[p]) - 1) /\ Len(log[p]) \in Nat /\ Len(log'[p]) \in Nat
  BY DEF Offsets, TypeOK
<1>2. CASE o < Len(log[p])
  <2>1. o + 1 \in 1..Len(log[p]) /\ o \in Offsets(p)
    BY <1>1, <1>2 DEF Offsets
  <2>2. log[p][o + 1] \in BadId
    BY <2>1 DEF Grow
  <2> QED
    BY <2>1, <2>2 DEF BeforePoison
<1>3. CASE o >= Len(log[p])
  BY <1>1, <1>3 DEF BeforePoison
<1> QED
  BY <1>1, <1>2, <1>3

(* What a decoder gets past is not a malformed event id. *)
LEMMA AdvanceBeforePoison ==
  ASSUME TypeOK, NEW d \in Decoders, NEW p \in Partitions, Ready(d, p),
         Upcoming(p) \notin BadId, BeforePoison(p, position[p])
  PROVE  BeforePoison(p, position[p] + 1)
<1>1. position[p] \in Nat /\ position[p] < Len(log[p]) /\ Len(log[p]) \in Nat
  BY DEF Ready, TypeOK
<1>2. \A o \in Offsets(p) : log[p][o + 1] \in BadId => o # position[p]
  BY DEF Upcoming
<1> QED
  BY <1>1, <1>2 DEF BeforePoison, Offsets

LEMMA NextPoison ==
  ASSUME TypeOK, TypeOK', Grow, OffsetsInLog, PoisonBlocksPartition, [Next]_vars
  PROVE  PoisonBlocksPartition'
<1>1. ASSUME NEW p \in Partitions, NEW c, Reaches(p, c)
      PROVE  BeforePoison(p, c)
  <2>1. /\ BeforePoison(p, committed[p]) /\ BeforePoison(p, position[p])
        /\ <<p, c>> \in commits => BeforePoison(p, c)
    BY OffsetsBeforePoison
  <2> QED
    BY <1>1, <2>1, AdvanceBeforePoison DEF Reaches
<1>2. \A p \in Partitions : BeforePoison(p, committed'[p]) /\ BeforePoison(p, position'[p])
  BY <1>1, OffsetsMove
<1>3. \A c \in commits' : BeforePoison(c[1], c[2])
  BY <1>1, OffsetsMove DEF TypeOK
<1> QED
  BY <1>2, <1>3, PoisonGrows

(* A partition never gets past an envelope with a malformed event id, whatever
   processes come, go and are given it. *)
THEOREM PoisonBlocks == Spec => []PoisonBlocksPartition
<1>1. Init => PoisonBlocksPartition
  BY DEF Init, PoisonBlocksPartition, Offsets
<1>2. DeliveryInv => OffsetsInLog
  BY DEF DeliveryInv
<1>3. TypeOK /\ DeliveryInv /\ PoisonBlocksPartition /\ [Next]_vars => PoisonBlocksPartition'
  BY <1>2, NextTypeOK, NextGrows, NextPoison
<1> QED
  BY <1>1, <1>3, TypeCorrect, DeliveryInvariant, PTL DEF Spec

-----------------------------------------------------------------------------
(* The flush interval *)

(* What the timers of a decoder say of the rows that wait. *)
WaitOf(d) ==
  /\ pc[d] = "down" => batch[d] = <<>>
  /\ elapsed[d] < FlushTicks => age[d] <= elapsed[d]
  /\ pc[d] = "select" /\ batch[d] # <<>> /\ ~ skipped[d] =>
       age[d] + sleep[d] < 2 * FlushTicks

WaitInv == \A d \in Decoders : WaitOf(d)

(* A step of d leaves the loops of the others alone. *)
LEMMA OthersWait ==
  ASSUME WaitInv, NEW d \in Decoders, WaitOf(d)',
         \A e \in Decoders : e # d =>
           /\ pc'[e] = pc[e] /\ batch'[e] = batch[e] /\ elapsed'[e] = elapsed[e]
           /\ sleep'[e] = sleep[e] /\ age'[e] = age[e] /\ skipped'[e] = skipped[e]
  PROVE  WaitInv'
<1>1. ASSUME NEW e \in Decoders, e # d
      PROVE  WaitOf(e)'
  BY <1>1 DEF WaitInv, WaitOf
<1> QED
  BY <1>1 DEF WaitInv

LEMMA LoopTypes ==
  ASSUME TypeOK, NEW d \in Decoders
  PROVE  /\ elapsed[d] \in Nat /\ elapsed[d] <= FlushTicks
         /\ sleep[d] \in Nat /\ sleep[d] <= FlushTicks
         /\ age[d] \in Nat /\ FlushTicks \in Nat \ {0}
         /\ batch[d] \in Seq(Partitions \X Nat)
BY CapsAreNat DEF TypeOK

LEMMA ExitWait ==
  ASSUME TypeOK, WaitInv, NEW d \in Decoders, Exit(d)
  PROVE  WaitInv'
<1>1. pc'[d] = "down" /\ batch'[d] = <<>> /\ elapsed'[d] = 0 /\ age'[d] = 0
  BY DEF Exit, TypeOK
<1>2. WaitOf(d)'
  BY <1>1 DEF WaitOf
<1> QED
  BY <1>2, OthersWait DEF Exit, TypeOK

LEMMA SkipWait ==
  ASSUME TypeOK, WaitInv, NEW d \in Decoders, pc[d] = "select", Skip(d)
  PROVE  WaitInv'
<1>1. /\ UNCHANGED <<pc, batch, elapsed, age>>
      /\ skipped' = [skipped EXCEPT ![d] = batch[d] # <<>>]
      /\ sleep' = [sleep EXCEPT ![d] = FlushTicks]
  BY DEF Skip, Rearm
<1>2. batch[d] # <<>> => skipped'[d]
  <2>1. skipped \in [Decoders -> BOOLEAN]
    BY DEF TypeOK
  <2> QED
    BY <1>1, <2>1, Zenon
<1>3. WaitOf(d)'
  BY <1>1, <1>2 DEF WaitOf, WaitInv
<1> QED
  BY <1>1, <1>3, OthersWait DEF TypeOK

LEMMA StepWait ==
  ASSUME TypeOK, WaitInv, NEW d \in Decoders, Step(d)
  PROVE  WaitInv'
<1>1. WaitOf(d)
  BY DEF WaitInv
<1>2. /\ elapsed[d] \in Nat /\ elapsed[d] <= FlushTicks
      /\ sleep[d] \in Nat /\ sleep[d] <= FlushTicks
      /\ age[d] \in Nat /\ FlushTicks \in Nat \ {0}
      /\ batch[d] \in Seq(Partitions \X Nat)
  BY LoopTypes
<1>3. ASSUME NEW p \in Partitions, ReceiveEnvelope(d, p)
      PROVE  WaitInv'
  <2>1. /\ pc[d] = "select" /\ UNCHANGED <<elapsed, age, skipped>>
        /\ pc'[d] \in {"inserting", "select"} /\ sleep'[d] = FlushTicks
        /\ pc'[d] = "select" => elapsed[d] < FlushTicks
    BY <1>2, <1>3 DEF ReceiveEnvelope, Ready, ShouldFlush, Rearm, TypeOK
  <2>2. WaitOf(d)'
    BY <1>1, <1>2, <2>1 DEF WaitOf
  <2> QED
    BY <1>3, <2>2, OthersWait DEF ReceiveEnvelope, Rearm, TypeOK
<1>4. CASE Tick(d)
  <2>1. /\ pc[d] = "select" /\ sleep[d] > 0 /\ UNCHANGED <<pc, batch, skipped>>
        /\ sleep'[d] = sleep[d] - 1
        /\ elapsed'[d] = IF elapsed[d] < FlushTicks THEN elapsed[d] + 1 ELSE elapsed[d]
        /\ age'[d] \in {age[d], age[d] + 1}
    BY <1>4 DEF Tick, TypeOK
  <2>2. WaitOf(d)'
    BY <1>1, <1>2, <2>1 DEF WaitOf
  <2> QED
    BY <1>4, <2>2, OthersWait DEF Tick, TypeOK
<1>5. CASE TimerFires(d)
  <2>1. /\ pc[d] = "select" /\ UNCHANGED <<batch, elapsed, age, skipped>>
        /\ pc'[d] = IF batch[d] # <<>> THEN "inserting" ELSE "select"
    BY <1>5 DEF TimerFires, TimerFlushes, TypeOK
  <2>2. WaitOf(d)'
    BY <1>1, <1>2, <2>1 DEF WaitOf
  <2> QED
    BY <1>5, <2>2, OthersWait DEF TimerFires, Rearm, TypeOK
<1>6. CASE StoreRows(d)
  <2>1. pc'[d] = "inserted" /\ UNCHANGED <<elapsed, age>>
    BY <1>6 DEF StoreRows, TypeOK
  <2>2. WaitOf(d)'
    BY <1>1, <2>1 DEF WaitOf
  <2> QED
    BY <1>6, <2>2, OthersWait DEF StoreRows, TypeOK
<1>7. CASE CommitState(d)
  <2>1. batch'[d] = <<>> /\ elapsed'[d] = 0 /\ age'[d] = 0
    BY <1>7 DEF CommitState, ClearBatch, TypeOK
  <2>2. WaitOf(d)'
    BY <2>1 DEF WaitOf
  <2> QED
    BY <1>7, <2>2, OthersWait DEF CommitState, ClearBatch, TypeOK
<1>8. ASSUME NEW p \in Partitions, ReceiveUnparseable(d, p) \/ ReceiveEmpty(d, p)
      PROVE  WaitInv'
  BY <1>8, SkipWait DEF ReceiveUnparseable, ReceiveEmpty, Ready
<1>9. ASSUME NEW p \in Partitions, ReceiveBadId(d, p)
      PROVE  WaitInv'
  BY <1>9, ExitWait DEF ReceiveBadId
<1> QED
  BY <1>3, <1>4, <1>5, <1>6, <1>7, <1>8, <1>9 DEF Step, Receive

LEMMA NextWait ==
  ASSUME TypeOK, WaitInv, [Next]_vars
  PROVE  WaitInv'
<1>1. CASE \E d \in Decoders : Step(d)
  BY <1>1, StepWait
<1>2. CASE UNCHANGED loop
  BY <1>2 DEF WaitInv, WaitOf, loop
<1>3. ASSUME NEW d \in Decoders,
             Crash(d) \/ \E n \in 0..Len(batch[d]) : InsertError(d, n)
      PROVE  WaitInv'
  BY <1>3, ExitWait DEF Crash, InsertError
<1>4. ASSUME NEW d \in Decoders, KafkaError(d)
      PROVE  WaitInv'
  BY <1>4, SkipWait DEF KafkaError
<1>5. ASSUME NEW d \in Decoders, Restart(d)
      PROVE  WaitInv'
  <2>1. batch'[d] = <<>> /\ UNCHANGED <<elapsed, age>> /\ pc'[d] = "select"
    BY <1>5 DEF Restart, TypeOK, WaitInv, WaitOf
  <2>2. WaitOf(d)'
    BY <2>1 DEF WaitOf, WaitInv
  <2> QED
    BY <1>5, <2>2, OthersWait DEF Restart, TypeOK
<1>6. CASE \/ \E p \in Partitions, m \in Message : Produce(p, m)
           \/ \E c \in commits : ApplyCommit(c[1], c[2]) \/ LoseCommit(c[1], c[2])
           \/ Regroup \/ UNCHANGED vars
  BY <1>2, <1>6 DEF Produce, ApplyCommit, LoseCommit, Regroup, Rebalance, vars
<1> QED
  BY <1>1, <1>3, <1>4, <1>5, <1>6 DEF Next, Environment

(* Rows that only envelopes follow wait less than twice the flush interval,
   although every select sleeps afresh: age and sleep together stay below it. *)
THEOREM FlushedWithinTwoIntervals == Spec => []FlushWithinTwoIntervals
<1>1. Init => WaitInv
  BY CapsAreNat DEF Init, WaitInv, WaitOf
<1>2. TypeOK /\ WaitInv /\ [Next]_vars => WaitInv'
  BY NextWait
<1>3. TypeOK /\ WaitInv => FlushWithinTwoIntervals
  BY LoopTypes DEF WaitInv, WaitOf, FlushWithinTwoIntervals
<1> QED
  BY <1>1, <1>2, <1>3, TypeCorrect, PTL DEF Spec

-----------------------------------------------------------------------------
(* What one unparseable payload costs *)

LEMMA NextBounded ==
  ASSUME TypeOK, WaitInv, BatchBounded, [Next]_vars
  PROVE  BatchBounded'
<1>0. BatchSize \in Nat \ {0} /\ Len(<<>>) = 0
  BY SizesAssumption
<1>1. ASSUME \A d \in Decoders : \/ batch'[d] = <<>>
                                 \/ /\ batch'[d] = batch[d]
                                    /\ pc'[d] = "select" => pc[d] = "select"
      PROVE  BatchBounded'
  BY <1>0, <1>1 DEF BatchBounded
<1>2. ASSUME NEW d \in Decoders, NEW p \in Partitions, ReceiveEnvelope(d, p)
      PROVE  BatchBounded'
  <2>1. /\ pc[d] = "select" /\ batch[d] \in Seq(Partitions \X Nat)
        /\ batch'[d] = Append(batch[d], <<p, position[p]>>) /\ position[p] \in Nat
        /\ pc'[d] = "select" => Len(batch'[d]) < BatchSize
        /\ \A e \in Decoders : e # d => batch'[e] = batch[e] /\ pc'[e] = pc[e]
    BY <1>0, <1>2 DEF ReceiveEnvelope, Ready, ShouldFlush, TypeOK
  <2>2. Len(batch'[d]) <= BatchSize
    BY <1>0, <2>1 DEF BatchBounded
  <2> QED
    BY <2>1, <2>2 DEF BatchBounded
<1>3. ASSUME NEW d \in Decoders, Exit(d) \/ CommitState(d)
      PROVE  BatchBounded'
  <2>1. \A e \in Decoders :
          IF e = d THEN batch'[e] = <<>> ELSE batch'[e] = batch[e] /\ pc'[e] = pc[e]
    BY <1>3 DEF Exit, CommitState, ClearBatch, TypeOK
  <2> QED
    BY <1>1, <2>1
<1>4. ASSUME NEW d \in Decoders, TimerFires(d) \/ StoreRows(d) \/ Restart(d)
      PROVE  BatchBounded'
  <2>1. /\ batch' = batch
        /\ \A e \in Decoders : e # d => pc'[e] = pc[e]
        /\ pc'[d] = "select" => pc[d] = "select" \/ batch[d] = <<>>
    BY <1>4 DEF TimerFires, StoreRows, Restart, WaitInv, WaitOf, TypeOK
  <2> QED
    BY <1>1, <2>1
<1>5. ASSUME UNCHANGED <<pc, batch>>
      PROVE  BatchBounded'
  BY <1>1, <1>5
<1>6. ASSUME NEW d \in Decoders, Step(d)
      PROVE  BatchBounded'
  <2>1. CASE Tick(d) \/ \E p \in Partitions : ReceiveUnparseable(d, p) \/ ReceiveEmpty(d, p)
    BY <1>5, <2>1 DEF Tick, ReceiveUnparseable, ReceiveEmpty, Skip
  <2>2. CASE \E p \in Partitions : ReceiveBadId(d, p)
    BY <1>3, <2>2 DEF ReceiveBadId
  <2> QED
    BY <1>2, <1>3, <1>4, <1>6, <2>1, <2>2 DEF Step, Receive
<1>7. ASSUME Environment
      PROVE  BatchBounded'
  <2>1. CASE \E d \in Decoders : Crash(d) \/ \E n \in 0..Len(batch[d]) : InsertError(d, n)
    BY <1>3, <2>1 DEF Crash, InsertError
  <2>2. CASE \E d \in Decoders : Restart(d)
    BY <1>4, <2>2
  <2>3. CASE \/ \E p \in Partitions, m \in Message : Produce(p, m)
             \/ \E c \in commits : ApplyCommit(c[1], c[2]) \/ LoseCommit(c[1], c[2])
             \/ Regroup \/ \E d \in Decoders : KafkaError(d)
    BY <1>5, <2>3 DEF Produce, ApplyCommit, LoseCommit, Regroup, Rebalance, KafkaError,
                      Skip, loop
  <2> QED
    BY <1>7, <2>1, <2>2, <2>3 DEF Environment
<1>8. CASE UNCHANGED vars
  BY <1>5, <1>8 DEF vars, loop
<1> QED
  BY <1>6, <1>7, <1>8 DEF Next

(* Offsets whose rows are in a batch are no more than the batch has rows. *)
LEMMA OffsetsOfBatch ==
  ASSUME NEW S, NEW rows \in Seq(S), NEW p, NEW offsets,
         \A o \in offsets : <<p, o>> \in RowsOf(rows)
  PROVE  IsFiniteSet(offsets) /\ Cardinality(offsets) <= Len(rows)
<1> DEFINE place == [o \in offsets |-> CHOOSE i \in 1..Len(rows) : rows[i] = <<p, o>>]
<1>1. \A o \in offsets : \E i \in 1..Len(rows) : rows[i] = <<p, o>>
  BY DEF RowsOf
<1>2. \A o \in offsets : place[o] \in 1..Len(rows) /\ rows[place[o]] = <<p, o>>
  BY <1>1
<1>3. place \in Injection(offsets, 1..Len(rows))
  <2>1. place \in [offsets -> 1..Len(rows)]
    BY <1>2
  <2>2. \A a, b \in offsets : place[a] = place[b] => a = b
    <3> SUFFICES ASSUME NEW a \in offsets, NEW b \in offsets, place[a] = place[b]
                 PROVE  a = b
      OBVIOUS
    <3> HIDE DEF place
    <3>1. <<p, a>> = <<p, b>>
      BY <1>2
    <3> QED
      BY <3>1
  <2> HIDE DEF place
  <2> QED
    BY <2>1, <2>2 DEF Injection, IsInjective
<1>4. IsFiniteSet(1..Len(rows)) /\ Cardinality(1..Len(rows)) = Len(rows) /\ Len(rows) \in Nat
  BY FS_Interval
<1> HIDE DEF place
<1> QED
  BY <1>3, <1>4, FS_Injection

(* The offsets LossBoundedByBatch counts for the payload at g. *)
LostTo(p, g) ==
  {o \in 0..(g - 1) : /\ Envelope(p, o)
                      /\ <<p, o>> \notin tx_raw
                      /\ ~ Forfeited(p, o, g)}

(* Every unparseable payload below the offset c of p costs less than a batch. *)
Afforded(p, c) ==
  /\ c \in Nat /\ c <= Len(log[p])
  /\ \A g \in 0..(c - 1) :
       log[p][g + 1] \in Unparseable => Cardinality(LostTo(p, g)) < BatchSize

(* LossBoundedByBatch, for every offset that may be committed. *)
LossInv ==
  /\ \A p \in Partitions : Afforded(p, committed[p]) /\ Afforded(p, position[p])
  /\ \A c \in commits : Afforded(c[1], c[2])

(* What is lost to a payload only becomes less: a late insert may yet store it. *)
LEMMA AffordedGrows ==
  ASSUME TypeOK, TypeOK', Grow, NEW p \in Partitions, NEW c, Afforded(p, c)
  PROVE  Afforded(p, c)'
<1>1. /\ c \in Nat /\ c <= Len(log[p]) /\ Len(log[p]) \in Nat /\ Len(log'[p]) \in Nat
      /\ Len(log[p]) <= Len(log'[p])
      /\ \A i \in 1..Len(log[p]) : log'[p][i] = log[p][i]
      /\ tx_raw \subseteq tx_raw'
  BY DEF Afforded, Grow, TypeOK
<1>2. ASSUME NEW g \in 0..(c - 1), log'[p][g + 1] \in Unparseable
      PROVE  Cardinality(LostTo(p, g)') < BatchSize
  <2>1. log[p][g + 1] \in Unparseable /\ Cardinality(LostTo(p, g)) < BatchSize
    BY <1>1, <1>2 DEF Afforded
  <2>2. ASSUME NEW o \in LostTo(p, g)'
        PROVE  o \in LostTo(p, g)
    <3>1. o \in 0..(g - 1) /\ Envelope(p, o)' /\ <<p, o>> \notin tx_raw' /\ ~ Forfeited(p, o, g)'
      BY <2>2 DEF LostTo
    <3>2. Envelope(p, o)
      <4>1. o + 1 \in 1..Len(log[p])
        BY <1>1, <3>1
      <4> QED
        BY <1>1, <3>1, <4>1 DEF Envelope
    <3>3. ~ Forfeited(p, o, g)
      <4>1. o \in Nat /\ g \in Nat /\ g < Len(log[p])
        BY <1>1, <1>2, <3>1
      <4>2. ASSUME NEW h \in (o + 1)..(g - 1)
            PROVE  log'[p][h + 1] = log[p][h + 1]
        <5>1. h + 1 \in 1..Len(log[p])
          BY <1>1, <4>1, <4>2
        <5> QED
          BY <1>1, <5>1
      <4> QED
        BY <3>1, <4>2 DEF Forfeited
    <3> QED
      BY <1>1, <3>1, <3>2, <3>3 DEF LostTo
  <2>3. IsFiniteSet(LostTo(p, g))
    <3>1. IsFiniteSet(0..(g - 1)) /\ LostTo(p, g) \in SUBSET (0..(g - 1))
      BY FS_Interval DEF LostTo
    <3> QED
      BY <3>1, FS_Subset
  <2>4. LostTo(p, g)' \in SUBSET LostTo(p, g)
    BY <2>2
  <2>5. /\ Cardinality(LostTo(p, g)') <= Cardinality(LostTo(p, g))
        /\ Cardinality(LostTo(p, g)) \in Nat /\ Cardinality(LostTo(p, g)') \in Nat
    BY <2>3, <2>4, FS_Subset, FS_CardinalityType
  <2> QED
    BY <2>1, <2>5, SizesAssumption
<1> QED
  BY <1>1, <1>2 DEF Afforded

(* What a payload a decoder is given can cost is in the batch of that decoder,
   which has room. *)
LEMMA AdvanceAfforded ==
  ASSUME TypeOK, PositionHeld, BatchBounded, NEW d \in Decoders, NEW p \in Partitions,
         Ready(d, p), Afforded(p, position[p])
  PROVE  Afforded(p, position[p] + 1)
<1>1. /\ position[p] \in Nat /\ position[p] < Len(log[p]) /\ Len(log[p]) \in Nat
      /\ pc[d] = "select" /\ owner[p] = d /\ batch[d] \in Seq(Partitions \X Nat)
  BY DEF Ready, TypeOK
<1>2. \A o \in LostTo(p, position[p]) : <<p, o>> \in RowsOf(batch[d])
  BY <1>1 DEF LostTo, PositionHeld, Settled
<1>3. Cardinality(LostTo(p, position[p])) <= Len(batch[d])
  BY <1>1, <1>2, OffsetsOfBatch
<1>4. IsFiniteSet(LostTo(p, position[p]))
  BY <1>1, <1>2, OffsetsOfBatch
<1>5. Cardinality(LostTo(p, position[p])) < BatchSize
  <2>1. Len(batch[d]) < BatchSize /\ Len(batch[d]) \in Nat
    BY <1>1 DEF BatchBounded
  <2> QED
    BY <1>3, <1>4, <2>1, FS_CardinalityType, SizesAssumption
<1>6. \A g \in 0..((position[p] + 1) - 1) : g = position[p] \/ g \in 0..(position[p] - 1)
  BY <1>1
<1> QED
  BY <1>1, <1>5, <1>6 DEF Afforded

LEMMA NextLoss ==
  ASSUME TypeOK, TypeOK', Grow, PositionHeld, BatchBounded, LossInv, [Next]_vars
  PROVE  LossInv'
<1>1. ASSUME NEW p \in Partitions, NEW c, Reaches(p, c)
      PROVE  Afforded(p, c)'
  <2>1. /\ Afforded(p, committed[p]) /\ Afforded(p, position[p])
        /\ <<p, c>> \in commits => Afforded(p, c)
    BY DEF LossInv
  <2>2. Afforded(p, c)
    BY <1>1, <2>1, AdvanceAfforded DEF Reaches
  <2> QED
    BY <2>2, AffordedGrows
<1>2. ASSUME NEW p \in Partitions
      PROVE  Afforded(p, committed[p])' /\ Afforded(p, position[p])'
  BY <1>1, OffsetsMove DEF Afforded, LostTo, Envelope, Forfeited
<1>3. ASSUME NEW c \in commits'
      PROVE  Afforded(c[1], c[2])'
  BY <1>1, OffsetsMove DEF TypeOK
<1> QED
  BY <1>2, <1>3 DEF LossInv

(* One unparseable payload costs fewer rows than one batch, however processes
   crash and partitions move between the payload and its commit: what it can
   cost is in the batch of the decoder that is given it, and that has room. *)
THEOREM LossBelowOneBatch == Spec => []LossBoundedByBatch
<1>1. Init => BatchBounded /\ LossInv /\ WaitInv
  <2>1. Init => WaitInv
    BY CapsAreNat DEF Init, WaitInv, WaitOf
  <2>2. Init => BatchBounded /\ LossInv
    BY SizesAssumption DEF Init, BatchBounded, LossInv, Afforded
  <2> QED
    BY <2>1, <2>2
<1>2. DeliveryInv => PositionHeld
  BY DEF DeliveryInv
<1>3. TypeOK /\ WaitInv /\ DeliveryInv /\ BatchBounded /\ LossInv /\ [Next]_vars =>
        (WaitInv /\ BatchBounded /\ LossInv)'
  BY <1>2, NextTypeOK, NextGrows, NextWait, NextBounded, NextLoss
<1>4. LossInv => LossBoundedByBatch
  BY DEF LossInv, Afforded, LostTo, LossBoundedByBatch
<1> QED
  BY <1>1, <1>3, <1>4, TypeCorrect, DeliveryInvariant, PTL DEF Spec

-----------------------------------------------------------------------------
(* Duplicates *)

(* The rows of a partition that was never rewound are of offsets its owner has
   passed, whether they are stored or wait in a batch. *)
RowsBehindPosition ==
  \A p \in Partitions : ~ rewound[p] =>
    /\ \A r \in tx_raw : r[1] = p => r[2] < position[p]
    /\ \A d \in Decoders : \A i \in DOMAIN batch[d] :
         batch[d][i][1] = p => batch[d][i][2] < position[p]

(* The rows of a batch that is not inserted yet are not stored. *)
NotStoredYet ==
  \A d \in Decoders : \A i \in DOMAIN batch[d] :
    batch[d][i] \in tx_raw /\ pc[d] # "inserted" => rewound[batch[d][i][1]]

(* No row waits in two places. *)
HeldOnce ==
  \A d, e \in Decoders : \A i \in DOMAIN batch[d], j \in DOMAIN batch[e] :
    <<d, i>> # <<e, j>> /\ batch[d][i] = batch[e][j] => rewound[batch[d][i][1]]

DuplicateInv == RowsBehindPosition /\ NotStoredYet /\ HeldOnce

LEMMA RowType ==
  ASSUME TypeOK, NEW d \in Decoders, NEW i \in DOMAIN batch[d]
  PROVE  /\ batch[d][i] \in Partitions \X Nat
         /\ batch[d][i][1] \in Partitions /\ batch[d][i][2] \in Nat
         /\ batch[d][i] \in RowsOf(batch[d])
<1>1. batch[d] \in Seq(Partitions \X Nat)
  BY DEF TypeOK
<1>2. batch[d][i] \in Partitions \X Nat
  BY <1>1
<1> QED
  BY <1>2 DEF RowsOf

(* A step that hands out no row: batches stay or are dropped, partitions that
   are not rewound do not go back, and rows are stored of one batch, which is
   dropped or inserted then. *)
LEMMA NoRowsGiven ==
  ASSUME TypeOK, TypeOK', DuplicateInv,
         \A p \in Partitions : ~ rewound'[p] => ~ rewound[p] /\ position[p] <= position'[p],
         \A d \in Decoders : \/ batch'[d] = <<>>
                             \/ /\ batch'[d] = batch[d]
                                /\ pc[d] = "inserted" => pc'[d] = "inserted",
         \/ tx_raw' = tx_raw
         \/ \E d \in Decoders : /\ tx_raw' \subseteq tx_raw \cup RowsOf(batch[d])
                                /\ batch'[d] = <<>> \/ pc'[d] = "inserted"
  PROVE  DuplicateInv'
<1>1. ASSUME NEW d \in Decoders, NEW i \in DOMAIN batch'[d]
      PROVE  /\ batch'[d] = batch[d] /\ i \in DOMAIN batch[d]
             /\ pc[d] = "inserted" => pc'[d] = "inserted"
             /\ batch[d][i][1] \in Partitions /\ batch[d][i][2] \in Nat
  <2>1. batch'[d] = batch[d] /\ (pc[d] = "inserted" => pc'[d] = "inserted")
    BY <1>1
  <2> QED
    BY <1>1, <2>1, RowType
<1>2. RowsBehindPosition'
  <2> SUFFICES ASSUME NEW p \in Partitions, ~ rewound'[p]
               PROVE  /\ \A r \in tx_raw' : r[1] = p => r[2] < position'[p]
                      /\ \A d \in Decoders : \A i \in DOMAIN batch'[d] :
                           batch'[d][i][1] = p => batch'[d][i][2] < position'[p]
    BY DEF RowsBehindPosition
  <2>1. /\ ~ rewound[p] /\ position[p] <= position'[p]
        /\ position[p] \in Nat /\ position'[p] \in Nat
    BY DEF TypeOK
  <2>2. ASSUME NEW d \in Decoders, NEW i \in DOMAIN batch'[d], batch'[d][i][1] = p
        PROVE  batch'[d][i][2] < position'[p]
    <3>1. batch[d][i][2] < position[p] /\ batch[d][i][2] \in Nat
      BY <1>1, <2>1, <2>2 DEF DuplicateInv, RowsBehindPosition
    <3> QED
      BY <1>1, <2>1, <2>2, <3>1
  <2>3. ASSUME NEW r \in tx_raw', r[1] = p
        PROVE  r[2] < position'[p]
    <3>1. r[2] \in Nat
      BY DEF TypeOK
    <3>2. CASE r \in tx_raw
      BY <2>1, <2>3, <3>1, <3>2 DEF DuplicateInv, RowsBehindPosition
    <3>3. ASSUME NEW d \in Decoders, r \in RowsOf(batch[d])
          PROVE  r[2] < position'[p]
      <4> PICK i \in DOMAIN batch[d] : r = batch[d][i]
        BY <3>3 DEF RowsOf
      <4> QED
        BY <2>1, <2>3, <3>1 DEF DuplicateInv, RowsBehindPosition
    <3> QED
      BY <3>2, <3>3
  <2> QED
    BY <2>2, <2>3
<1>3. HeldOnce'
  <2> SUFFICES ASSUME NEW d \in Decoders, NEW e \in Decoders,
                      NEW i \in DOMAIN batch'[d], NEW j \in DOMAIN batch'[e],
                      <<d, i>> # <<e, j>>, batch'[d][i] = batch'[e][j]
               PROVE  rewound'[batch'[d][i][1]]
    BY DEF HeldOnce
  <2>1. batch'[d] = batch[d] /\ batch'[e] = batch[e] /\ batch[d][i][1] \in Partitions
    BY <1>1
  <2>2. rewound[batch[d][i][1]]
    BY <2>1 DEF DuplicateInv, HeldOnce
  <2> QED
    BY <2>1, <2>2
<1>4. NotStoredYet'
  <2> SUFFICES ASSUME NEW d \in Decoders, NEW i \in DOMAIN batch'[d],
                      batch'[d][i] \in tx_raw', pc'[d] # "inserted"
               PROVE  rewound'[batch'[d][i][1]]
    BY DEF NotStoredYet
  <2>1. /\ batch'[d] = batch[d] /\ i \in DOMAIN batch[d] /\ pc[d] # "inserted"
        /\ batch[d][i][1] \in Partitions
    BY <1>1
  <2>2. CASE batch[d][i] \in tx_raw
    <3>1. rewound[batch[d][i][1]]
      BY <2>1, <2>2 DEF DuplicateInv, NotStoredYet
    <3> QED
      BY <2>1, <3>1
  <2>3. CASE batch[d][i] \notin tx_raw
    <3>1. PICK e \in Decoders : /\ tx_raw' \subseteq tx_raw \cup RowsOf(batch[e])
                                /\ batch'[e] = <<>> \/ pc'[e] = "inserted"
      BY <2>1, <2>3
    <3>2. PICK j \in DOMAIN batch[e] : batch[d][i] = batch[e][j]
      BY <2>1, <2>3, <3>1 DEF RowsOf
    <3>3. e # d
      BY <3>1
    <3>4. rewound[batch[d][i][1]]
      BY <2>1, <3>2, <3>3 DEF DuplicateInv, HeldOnce
    <3> QED
      BY <2>1, <3>4
  <2> QED
    BY <2>2, <2>3
<1> QED
  BY <1>2, <1>3, <1>4 DEF DuplicateInv

(* The row an envelope makes is of an offset nobody holds or has stored, unless
   the partition was rewound. *)
LEMMA ReceiveEnvelopeOnce ==
  ASSUME TypeOK, TypeOK', DuplicateInv, NEW d \in Decoders, NEW p \in Partitions,
         ReceiveEnvelope(d, p)
  PROVE  DuplicateInv'
<1> DEFINE row == <<p, position[p]>>
           k == Len(batch[d]) + 1
<1>1. /\ batch[d] \in Seq(Partitions \X Nat) /\ position[p] \in Nat
      /\ pc[d] = "select" /\ UNCHANGED <<tx_raw, rewound>>
      /\ position'[p] = position[p] + 1
      /\ batch'[d] = Append(batch[d], row)
      /\ \A e \in Decoders : e # d => batch'[e] = batch[e] /\ pc'[e] = pc[e]
      /\ \A q \in Partitions : position[q] \in Nat /\ position[q] <= position'[q]
      /\ \A q \in Partitions : position'[q] \in Nat
  BY DEF ReceiveEnvelope, Ready, Advance, TypeOK
<1>2. /\ k \in DOMAIN batch'[d] /\ batch'[d][k] = row
      /\ \A i \in DOMAIN batch[d] : batch'[d][i] = batch[d][i] /\ i # k
      /\ \A i \in DOMAIN batch'[d] : i = k \/ i \in DOMAIN batch[d]
  BY <1>1
<1>3. ASSUME NEW e \in Decoders, NEW i \in DOMAIN batch'[e], <<e, i>> # <<d, k>>
      PROVE  /\ i \in DOMAIN batch[e] /\ batch'[e][i] = batch[e][i]
             /\ batch[e][i][1] \in Partitions /\ batch[e][i][2] \in Nat
  <2>1. i \in DOMAIN batch[e] /\ batch'[e][i] = batch[e][i]
    BY <1>1, <1>2, <1>3
  <2> QED
    BY <2>1, RowType
<1>4. ASSUME ~ rewound[p]
      PROVE  /\ row \notin tx_raw
             /\ \A e \in Decoders : \A i \in DOMAIN batch[e] : batch[e][i] # row
  BY <1>1, <1>4 DEF DuplicateInv, RowsBehindPosition
<1> HIDE DEF row, k
<1>5. row[1] = p /\ row[2] = position[p]
  BY DEF row
<1>6. RowsBehindPosition'
  <2> SUFFICES ASSUME NEW q \in Partitions, ~ rewound[q]
               PROVE  /\ \A r \in tx_raw : r[1] = q => r[2] < position'[q]
                      /\ \A e \in Decoders : \A i \in DOMAIN batch'[e] :
                           batch'[e][i][1] = q => batch'[e][i][2] < position'[q]
    BY <1>1 DEF RowsBehindPosition
  <2>1. ASSUME NEW r \in tx_raw, r[1] = q
        PROVE  r[2] < position'[q]
    <3>1. r[2] \in Nat /\ r[2] < position[q]
      BY <2>1 DEF DuplicateInv, RowsBehindPosition, TypeOK
    <3> QED
      BY <1>1, <3>1
  <2>2. ASSUME NEW e \in Decoders, NEW i \in DOMAIN batch'[e], batch'[e][i][1] = q
        PROVE  batch'[e][i][2] < position'[q]
    <3>1. CASE <<e, i>> = <<d, k>>
      <4>1. e = d /\ i = k /\ batch'[e][i] = row
        BY <1>2, <3>1
      <4>2. q = p /\ batch'[e][i][2] = position[p]
        BY <1>5, <2>2, <4>1
      <4> QED
        BY <1>1, <4>2
    <3>2. CASE <<e, i>> # <<d, k>>
      <4>1. batch[e][i][2] \in Nat /\ batch[e][i][2] < position[q]
        BY <1>3, <2>2, <3>2 DEF DuplicateInv, RowsBehindPosition
      <4> QED
        BY <1>1, <1>3, <2>2, <3>2, <4>1
    <3> QED
      BY <3>1, <3>2
  <2> QED
    BY <2>1, <2>2
<1>7. NotStoredYet'
  <2> SUFFICES ASSUME NEW e \in Decoders, NEW i \in DOMAIN batch'[e],
                      batch'[e][i] \in tx_raw, pc'[e] # "inserted"
               PROVE  rewound[batch'[e][i][1]]
    BY <1>1 DEF NotStoredYet
  <2>1. CASE <<e, i>> = <<d, k>>
    BY <1>2, <1>4, <1>5, <2>1
  <2>2. CASE <<e, i>> # <<d, k>>
    <3>1. pc[e] # "inserted"
      BY <1>1
    <3> QED
      BY <1>3, <2>2, <3>1 DEF DuplicateInv, NotStoredYet
  <2> QED
    BY <2>1, <2>2
<1>8. HeldOnce'
  <2> SUFFICES ASSUME NEW e \in Decoders, NEW f \in Decoders,
                      NEW i \in DOMAIN batch'[e], NEW j \in DOMAIN batch'[f],
                      <<e, i>> # <<f, j>>, batch'[e][i] = batch'[f][j]
               PROVE  rewound[batch'[e][i][1]]
    BY <1>1 DEF HeldOnce
  <2>1. CASE <<e, i>> = <<d, k>>
    BY <1>2, <1>3, <1>4, <1>5, <2>1
  <2>2. CASE <<f, j>> = <<d, k>>
    BY <1>2, <1>3, <1>4, <1>5, <2>2
  <2>3. CASE <<e, i>> # <<d, k>> /\ <<f, j>> # <<d, k>>
    BY <1>3, <2>3 DEF DuplicateInv, HeldOnce
  <2> QED
    BY <2>1, <2>2, <2>3
<1> QED
  BY <1>6, <1>7, <1>8 DEF DuplicateInv

LEMMA NextDuplicate ==
  ASSUME TypeOK, TypeOK', DuplicateInv, [Next]_vars
  PROVE  DuplicateInv'
<1>1. ASSUME NEW d \in Decoders, Exit(d), tx_raw' \subseteq tx_raw \cup RowsOf(batch[d])
      PROVE  DuplicateInv'
  <2>1. \A e \in Decoders :
          IF e = d THEN batch'[e] = <<>> ELSE batch'[e] = batch[e] /\ pc'[e] = pc[e]
    BY <1>1 DEF Exit, TypeOK
  <2>2. \A p \in Partitions : position[p] <= position'[p] /\ rewound'[p] = rewound[p]
    BY <1>1 DEF Exit, TypeOK
  <2> QED
    BY <1>1, <2>1, <2>2, NoRowsGiven
<1>2. ASSUME tx_raw' = tx_raw, rewound' = rewound,
             \A p \in Partitions : position[p] <= position'[p],
             \A d \in Decoders : \/ batch'[d] = <<>>
                                 \/ /\ batch'[d] = batch[d]
                                    /\ pc[d] = "inserted" => pc'[d] = "inserted"
      PROVE  DuplicateInv'
  BY <1>2, NoRowsGiven
<1>3. CASE UNCHANGED <<tx_raw, rewound, position, batch, pc>>
  BY <1>2, <1>3 DEF TypeOK
<1>4. ASSUME NEW d \in Decoders, Step(d)
      PROVE  DuplicateInv'
  <2>1. ASSUME NEW p \in Partitions, ReceiveEnvelope(d, p)
        PROVE  DuplicateInv'
    BY <2>1, ReceiveEnvelopeOnce
  <2>2. ASSUME NEW p \in Partitions, ReceiveUnparseable(d, p) \/ ReceiveEmpty(d, p)
        PROVE  DuplicateInv'
    <3>1. /\ UNCHANGED <<tx_raw, rewound, batch, pc>>
          /\ position' = [position EXCEPT ![p] = position[p] + 1]
      BY <2>2 DEF ReceiveUnparseable, ReceiveEmpty, Skip, Advance
    <3>2. \A q \in Partitions : position[q] <= position'[q]
      <4>1. \A q \in Partitions : position[q] \in Nat /\ position'[q] \in {position[q], position[q] + 1}
        BY <3>1 DEF TypeOK
      <4> QED
        BY <4>1
    <3> QED
      BY <1>2, <3>1, <3>2
  <2>3. ASSUME NEW p \in Partitions, ReceiveBadId(d, p)
        PROVE  DuplicateInv'
    BY <1>1, <2>3 DEF ReceiveBadId
  <2>4. CASE Tick(d)
    BY <1>3, <2>4 DEF Tick, kafka
  <2>5. CASE TimerFires(d)
    <3>1. /\ UNCHANGED <<tx_raw, rewound, batch, position>>
          /\ \A e \in Decoders : pc[e] = "inserted" => pc'[e] = "inserted"
      BY <2>5 DEF TimerFires, TypeOK, kafka
    <3> QED
      BY <1>2, <3>1 DEF TypeOK
  <2>6. CASE StoreRows(d)
    <3>1. /\ tx_raw' \subseteq tx_raw \cup RowsOf(batch[d]) /\ pc'[d] = "inserted"
          /\ UNCHANGED <<batch, position, rewound>>
          /\ \A e \in Decoders : pc[e] = "inserted" => pc'[e] = "inserted"
      BY <2>6 DEF StoreRows, InsertRows, TypeOK, kafka
    <3>2. \A p \in Partitions : position[p] <= position'[p]
      BY <3>1 DEF TypeOK
    <3> QED
      BY <3>1, <3>2, NoRowsGiven
  <2>7. CASE CommitState(d)
    <3>1. /\ UNCHANGED <<tx_raw, rewound, position>>
          /\ \A e \in Decoders :
               IF e = d THEN batch'[e] = <<>> ELSE batch'[e] = batch[e] /\ pc'[e] = pc[e]
      BY <2>7 DEF CommitState, ClearBatch, TypeOK
    <3> QED
      BY <1>2, <3>1 DEF TypeOK
  <2> QED
    BY <1>4, <2>1, <2>2, <2>3, <2>4, <2>5, <2>6, <2>7 DEF Step, Receive
<1>5. CASE \/ \E p \in Partitions, m \in Message : Produce(p, m)
           \/ \E c \in commits : ApplyCommit(c[1], c[2]) \/ LoseCommit(c[1], c[2])
           \/ \E d \in Decoders : KafkaError(d)
           \/ UNCHANGED vars
  BY <1>3, <1>5 DEF Produce, ApplyCommit, LoseCommit, KafkaError, Skip, vars, kafka, loop
<1>6. ASSUME NEW d \in Decoders, Restart(d)
      PROVE  DuplicateInv'
  <2>1. /\ UNCHANGED <<tx_raw, rewound, position, batch>>
        /\ \A e \in Decoders : pc[e] = "inserted" => pc'[e] = "inserted"
    BY <1>6 DEF Restart, TypeOK, kafka
  <2> QED
    BY <1>2, <2>1 DEF TypeOK
<1>7. CASE Regroup
  <2>1. /\ UNCHANGED <<tx_raw, batch, pc>>
        /\ position' = committed
        /\ rewound' = [p \in Partitions |-> rewound[p] \/ position[p] # committed[p]]
    BY <1>7 DEF Regroup, Rebalance, loop
  <2>2. \A p \in Partitions : ~ rewound'[p] => ~ rewound[p] /\ position[p] = committed[p]
    BY <2>1
  <2>3. \A p \in Partitions : ~ rewound'[p] => ~ rewound[p] /\ position[p] <= position'[p]
    BY <2>1, <2>2 DEF TypeOK
  <2> QED
    BY <2>1, <2>3, NoRowsGiven
<1>8. ASSUME NEW d \in Decoders, Crash(d)
      PROVE  DuplicateInv'
  BY <1>1, <1>8 DEF Crash
<1>9. ASSUME NEW d \in Decoders, NEW n \in 0..Len(batch[d]), InsertError(d, n)
      PROVE  DuplicateInv'
  <2>1. RowsOf(SubSeq(batch[d], 1, n)) \subseteq RowsOf(batch[d])
    BY RowsOfPrefix DEF TypeOK
  <2> QED
    BY <1>1, <1>9, <2>1 DEF InsertError, InsertRows
<1> QED
  BY <1>4, <1>5, <1>6, <1>7, <1>8, <1>9 DEF Next, Environment

(* A row is inserted twice only if its partition was rewound by a rebalance:
   without one every offset is given to one batch, once. *)
THEOREM DuplicatesOnlyAfterRewind == Spec => []DuplicateOnlyAfterRewind
<1>1. Init => DuplicateInv
  BY DEF Init, DuplicateInv, RowsBehindPosition, NotStoredYet, HeldOnce
<1>2. TypeOK /\ DuplicateInv /\ [Next]_vars => DuplicateInv'
  BY NextTypeOK, NextDuplicate
<1>3. DuplicateInv => DuplicateOnlyAfterRewind
  BY DEF DuplicateInv, NotStoredYet, HeldOnce, DuplicateOnlyAfterRewind
<1> QED
  BY <1>1, <1>2, <1>3, TypeCorrect, PTL DEF Spec

-----------------------------------------------------------------------------
(* Refinement *)

(* Rows that come from a batch are envelopes of the log. *)
LEMMA StoreRefines ==
  ASSUME TypeOK, DeliveryInv, NEW d \in Decoders,
         log' = log, committed' = committed, tx_raw \subseteq tx_raw',
         tx_raw' \subseteq tx_raw \cup RowsOf(batch[d])
  PROVE  [Sink!Next]_(Sink!vars)
<1>1. \A r \in tx_raw' \ tx_raw : r \in RowsOf(batch[d])
  OBVIOUS
<1>2. ASSUME NEW r \in RowsOf(batch[d])
      PROVE  /\ r[1] \in Partitions
             /\ r[2] \in 0..(Len(log[r[1]]) - 1)
             /\ Sink!Envelope(r[1], r[2])
  <2>1. r \in Partitions \X Nat
    BY RowsOfType DEF TypeOK
  <2>2. r[2] < Len(log[r[1]]) /\ Envelope(r[1], r[2])
    BY DEF DeliveryInv, OffsetsInLog
  <2>3. Len(log[r[1]]) \in Nat
    BY <2>1 DEF TypeOK
  <2> QED
    BY <2>1, <2>2, <2>3 DEF Envelope, Sink!Envelope
<1>3. tx_raw' = tx_raw \cup (tx_raw' \ tx_raw)
  OBVIOUS
<1>4. Sink!Store(tx_raw' \ tx_raw)
  BY <1>1, <1>2, <1>3 DEF Sink!Store
<1> QED
  BY <1>4 DEF Sink!Next

LEMMA CommitRefines ==
  ASSUME TypeOK, DeliveryInv, NEW p \in Partitions, NEW c \in Nat, ApplyCommit(p, c)
  PROVE  [Sink!Next]_(Sink!vars)
<1>1. /\ c \in 0..Len(log[p])
      /\ \A o \in 0..(c - 1) : Settled(p, o, c)
  BY DEF ApplyCommit, DeliveryInv, OffsetsInLog, CommitsSettled, TypeOK
<1>2. \A o \in 0..(c - 1) : Sink!Settled(p, o, c)
  BY <1>1 DEF Settled, Envelope, Forfeited,
              Sink!Settled, Sink!Envelope, Sink!Forfeited
<1>3. committed'[p] = c /\ committed' = [committed EXCEPT ![p] = c]
  BY DEF ApplyCommit, TypeOK
<1>4. Sink!Commit(p, committed'[p])
  BY <1>1, <1>2, <1>3 DEF Sink!Commit, ApplyCommit
<1> QED
  BY <1>4 DEF Sink!Next

LEMMA StutterRefines ==
  ASSUME UNCHANGED <<log, committed, tx_raw>>
  PROVE  [Sink!Next]_(Sink!vars)
  BY DEF Sink!vars

LEMMA NextRefines ==
  ASSUME TypeOK, DeliveryInv, [Next]_vars
  PROVE  [Sink!Next]_(Sink!vars)
<1>1. CASE \E d \in Decoders : Step(d)
  <2> PICK d \in Decoders : Step(d)
    BY <1>1
  <2>1. CASE StoreRows(d)
    BY <2>1, StoreRefines DEF StoreRows, InsertRows, kafka
  <2>2. CASE ~ StoreRows(d)
    <3>1. UNCHANGED <<log, committed, tx_raw>>
      BY <2>2 DEF Step, Receive, ReceiveEnvelope, ReceiveUnparseable, ReceiveEmpty,
         ReceiveBadId, Exit, Tick, TimerFires, CommitState, kafka
    <3> QED
      BY <3>1, StutterRefines
  <2> QED
    BY <2>1, <2>2
<1>2. ASSUME NEW p \in Partitions, NEW m \in Message, Produce(p, m)
      PROVE  [Sink!Next]_(Sink!vars)
  <2>1. Sink!Append_(p, m) /\ m \in Sink!Message
    BY <1>2 DEF Produce, Sink!Append_, Sink!Message, Message
  <2> QED
    BY <2>1 DEF Sink!Next
<1>3. ASSUME NEW c \in commits, ApplyCommit(c[1], c[2])
      PROVE  [Sink!Next]_(Sink!vars)
  BY <1>3, CommitRefines DEF TypeOK
<1>4. ASSUME NEW d \in Decoders, NEW n \in 0..Len(batch[d]), InsertError(d, n)
      PROVE  [Sink!Next]_(Sink!vars)
  <2>1. RowsOf(SubSeq(batch[d], 1, n)) \subseteq RowsOf(batch[d])
    BY RowsOfPrefix DEF TypeOK
  <2> QED
    BY <1>4, <2>1, StoreRefines DEF InsertError, InsertRows, Exit
<1>5. CASE UNCHANGED vars
  BY <1>5, StutterRefines DEF vars, kafka
<1>6. CASE Regroup
  BY <1>6, StutterRefines DEF Regroup, Rebalance
<1>7. ASSUME NEW d \in Decoders, Crash(d) \/ Restart(d) \/ KafkaError(d)
      PROVE  [Sink!Next]_(Sink!vars)
  BY <1>7, StutterRefines DEF Crash, Exit, Restart, KafkaError, kafka
<1>8. ASSUME NEW c \in commits, LoseCommit(c[1], c[2])
      PROVE  [Sink!Next]_(Sink!vars)
  BY <1>8, StutterRefines DEF LoseCommit
<1> QED
  BY <1>1, <1>2, <1>3, <1>4, <1>5, <1>6, <1>7, <1>8 DEF Next, Environment

(* The decoder group, with its batches, asynchronous commits, crashes and
   rebalances, implements the abstract delivery: it only ever moves the
   committed offset to where every envelope below is stored or forfeited, and
   stores nothing but envelopes of the log. *)
THEOREM DecoderImplementsDelivery == Spec => ImplementsDelivery
<1>1. Init => Sink!Init
  BY DEF Init, Sink!Init
<1>2. TypeOK /\ DeliveryInv /\ [Next]_vars => [Sink!Next]_(Sink!vars)
  BY NextRefines
<1> QED
  BY <1>1, <1>2, TypeCorrect, DeliveryInvariant, PTL DEF Spec, ImplementsDelivery, Sink!Spec

=============================================================================
