------------------------------- MODULE Decoder -------------------------------
(***************************************************************************)
(* The decoder (services/decoder-rs): a group of consumer processes that   *)
(* read event envelopes from Kafka, collect rows in a batch, insert the    *)
(* batch into the ClickHouse table tx_raw and then commit the consumer     *)
(* offsets.  A partition is an append-only log; offsets are 0-based, so    *)
(* the message at offset o of partition p is log[p][o + 1].                *)
(*                                                                         *)
(* Rows are named by the <<partition, offset>> they come from.  Time is    *)
(* counted in ticks; it passes only while a decoder waits in its select.   *)
(***************************************************************************)
EXTENDS Naturals, Sequences, FiniteSets

CONSTANTS
  Partitions,   \* partitions of the envelope topic
  Decoders,     \* decoder processes of the consumer group
  Envelopes,    \* payloads that decode to a row
  Unparseable,  \* payloads that are not a JSON envelope
  Empty,        \* messages with no payload
  BadId,        \* envelopes whose event_id_hex is not 32 bytes of hex
  BatchSize,    \* HELIOS_DECODER_BATCH_SIZE
  FlushTicks,   \* HELIOS_DECODER_BATCH_FLUSH_MS, in ticks
  NoOwner,      \* value of owner[p] when no member is assigned p
  MaxLog,       \* bound: messages per partition
  MaxFaults     \* bound: crashes, failed inserts, Kafka errors, forced rebalances

Message == Envelopes \cup Unparseable \cup Empty \cup BadId

ASSUME SizesAssumption ==
  /\ BatchSize \in Nat \ {0}
  /\ FlushTicks \in Nat \ {0}
  /\ MaxLog \in Nat
  /\ MaxFaults \in Nat

ASSUME KindsAssumption ==
  /\ Envelopes \cap (Unparseable \cup Empty \cup BadId) = {}
  /\ Unparseable \cap (Empty \cup BadId) = {}
  /\ Empty \cap BadId = {}

ASSUME OwnerAssumption == NoOwner \notin Decoders

VARIABLES
  (* Kafka *)
  log,        \* [Partitions -> Seq(Message)]
  committed,  \* committed[p]: the group's committed offset
  commits,    \* asynchronous offset commits on their way, <<p, offset>>
  members,    \* decoders that are in the current generation of the group
  owner,      \* owner[p]: the decoder p is assigned to
  position,   \* position[p]: next offset the owner is given; also the stored offset
  (* decoder processes *)
  pc,         \* where the main loop of each decoder is
  batch,      \* rows collected by each decoder
  elapsed,    \* batch_first.elapsed(), capped at FlushTicks
  sleep,      \* ticks left of the sleep of the current select
  (* ClickHouse *)
  tx_raw,     \* rows the table holds
  (* bookkeeping of the model *)
  faults,     \* faults the environment may still inject
  age,        \* ghost: ticks the oldest row of the batch has waited, capped
  skipped,    \* ghost: an iteration ended in "continue" while rows waited
  rewound     \* ghost: a rebalance took position[p] back to committed[p]

kafka == <<log, committed, commits, members, owner, position>>
loop  == <<pc, batch, elapsed, sleep, age, skipped>>
vars  == <<kafka, loop, tx_raw, faults, rewound>>

Live == {d \in Decoders : pc[d] # "down"}

(* The message the owner of p gets next. *)
Upcoming(p) == log[p][position[p] + 1]

(* Decoder d waits in its select and Kafka has a message of p for it. *)
Ready(d, p) ==
  /\ pc[d] = "select"
  /\ owner[p] = d
  /\ position[p] < Len(log[p])

AgeCap == 2 * FlushTicks

TypeOK ==
  /\ log \in [Partitions -> Seq(Message)]
  /\ committed \in [Partitions -> Nat]
  /\ commits \subseteq Partitions \X Nat
  /\ members \subseteq Decoders
  /\ owner \in [Partitions -> Decoders \cup {NoOwner}]
  /\ position \in [Partitions -> Nat]
  /\ pc \in [Decoders -> {"down", "select", "inserting", "inserted"}]
  /\ batch \in [Decoders -> Seq(Partitions \X Nat)]
  /\ elapsed \in [Decoders -> 0..FlushTicks]
  /\ sleep \in [Decoders -> 0..FlushTicks]
  /\ tx_raw \subseteq Partitions \X Nat
  /\ faults \in 0..MaxFaults
  /\ age \in [Decoders -> 0..AgeCap]
  /\ skipped \in [Decoders -> BOOLEAN]
  /\ rewound \in [Partitions -> BOOLEAN]

Init ==
  /\ log = [p \in Partitions |-> <<>>]
  /\ committed = [p \in Partitions |-> 0]
  /\ commits = {}
  /\ members = Decoders
  /\ owner \in [Partitions -> Decoders]
  /\ position = [p \in Partitions |-> 0]
  /\ pc = [d \in Decoders |-> "select"]
  /\ batch = [d \in Decoders |-> <<>>]
  /\ elapsed = [d \in Decoders |-> 0]
  /\ sleep = [d \in Decoders |-> FlushTicks]
  /\ tx_raw = {}
  /\ faults = MaxFaults
  /\ age = [d \in Decoders |-> 0]
  /\ skipped = [d \in Decoders |-> FALSE]
  /\ rewound = [p \in Partitions |-> FALSE]

-----------------------------------------------------------------------------
(* The environment: producers, the group coordinator, faults.              *)

Fault == /\ faults > 0
         /\ faults' = faults - 1

(* The gateway, or anything else that writes to the topic, appends. *)
Produce(p, m) ==
  /\ Len(log[p]) < MaxLog
  /\ log' = [log EXCEPT ![p] = Append(@, m)]
  /\ UNCHANGED <<committed, commits, members, owner, position,
                 loop, tx_raw, faults, rewound>>

(* The broker takes an offset commit.  A retried commit may arrive after a
   younger one, so they are taken in any order. *)
ApplyCommit(p, o) ==
  /\ <<p, o>> \in commits
  /\ committed' = [committed EXCEPT ![p] = o]
  /\ commits' = commits \ {<<p, o>>}
  /\ UNCHANGED <<log, members, owner, position, loop, tx_raw, faults, rewound>>

(* Nothing awaits the answer of an asynchronous commit: one may be lost. *)
LoseCommit(p, o) ==
  /\ <<p, o>> \in commits
  /\ commits' = commits \ {<<p, o>>}
  /\ UNCHANGED <<log, committed, members, owner, position,
                 loop, tx_raw, faults, rewound>>

(* A new generation of the group: after a member came or went, or (a fault)
   because the coordinator missed heartbeats.  Every member is assigned afresh
   and starts at the committed offset; commits of the old generation are
   fenced off.  The batches are untouched: the decoder has no rebalance
   callback.  With nothing committed, auto.offset.reset starts at 0. *)
Rebalance(assignment) ==
  /\ \/ members # Live /\ UNCHANGED faults
     \/ members = Live /\ Fault
  /\ members' = Live
  /\ owner' = assignment
  /\ position' = committed
  /\ commits' = {}
  /\ rewound' = [p \in Partitions |-> rewound[p] \/ position[p] # committed[p]]
  /\ UNCHANGED <<log, committed, loop, tx_raw>>

(* Process d is gone: its batch is lost and it leaves the group. *)
Exit(d) ==
  /\ pc' = [pc EXCEPT ![d] = "down"]
  /\ batch' = [batch EXCEPT ![d] = <<>>]
  /\ elapsed' = [elapsed EXCEPT ![d] = 0]
  /\ sleep' = [sleep EXCEPT ![d] = FlushTicks]
  /\ age' = [age EXCEPT ![d] = 0]
  /\ skipped' = [skipped EXCEPT ![d] = FALSE]
  /\ members' = members \ {d}
  /\ owner' = [p \in Partitions |-> IF owner[p] = d THEN NoOwner ELSE owner[p]]
  /\ UNCHANGED <<log, committed, commits, position, rewound>>

Crash(d) ==
  /\ pc[d] # "down"
  /\ Fault
  /\ Exit(d)
  /\ UNCHANGED tx_raw

(* The service scheduler starts the process again; it has to join the group
   before it is assigned anything. *)
Restart(d) ==
  /\ pc[d] = "down"
  /\ pc' = [pc EXCEPT ![d] = "select"]
  /\ UNCHANGED <<kafka, batch, elapsed, sleep, age, skipped,
                 tx_raw, faults, rewound>>

-----------------------------------------------------------------------------
(* One iteration of the main loop of decoder d.                            *)

(* The next select creates a new sleep. *)
Rearm(d) == sleep' = [sleep EXCEPT ![d] = FlushTicks]

(* "continue": back to the select with nothing added to the batch. *)
Skip(d) ==
  /\ Rearm(d)
  /\ skipped' = [skipped EXCEPT ![d] = batch[d] # <<>>]
  /\ UNCHANGED <<pc, batch, elapsed, age>>

Advance(p) == position' = [position EXCEPT ![p] = @ + 1]

(* Mutants: one row late; by size only. *)
ShouldFlushLate(d, rows) == Len(rows) > BatchSize \/ elapsed[d] >= FlushTicks
ShouldFlushBySize(d, rows) == Len(rows) >= BatchSize

ShouldFlush(d, rows) == Len(rows) >= BatchSize \/ elapsed[d] >= FlushTicks

(* A row is pushed; the batch is flushed when it is full or old. *)
ReceiveEnvelope(d, p) ==
  /\ Ready(d, p)
  /\ Upcoming(p) \in Envelopes
  /\ Advance(p)
  /\ batch' = [batch EXCEPT ![d] = Append(@, <<p, position[p]>>)]
  /\ pc' = [pc EXCEPT ![d] =
              IF ShouldFlush(d, batch'[d]) THEN "inserting" ELSE "select"]
  /\ Rearm(d)
  /\ UNCHANGED <<log, committed, commits, members, owner, elapsed, age, skipped,
                 tx_raw, faults, rewound>>

(* Mutant: the offset before the message's is committed. *)
CommitMessageOffByTwo(p) == commits' = commits \cup {<<p, position[p] - 1>>}

(* commit_message: the offset after the message, asynchronously. *)
CommitMessage(p) == commits' = commits \cup {<<p, position[p] + 1>>}

(* A payload that is not an envelope is dropped and its offset is committed,
   whatever rows of earlier offsets the batch still holds. *)
ReceiveUnparseable(d, p) ==
  /\ Ready(d, p)
  /\ Upcoming(p) \in Unparseable
  /\ Advance(p)
  /\ CommitMessage(p)
  /\ Skip(d)
  /\ UNCHANGED <<log, committed, members, owner, tx_raw, faults, rewound>>

(* Mutant: a message with no payload is committed too. *)
ReceiveEmptyCommits(d, p) ==
  /\ Ready(d, p)
  /\ Upcoming(p) \in Empty
  /\ Advance(p)
  /\ CommitMessage(p)
  /\ Skip(d)
  /\ UNCHANGED <<log, committed, members, owner, tx_raw, faults, rewound>>

(* No payload: on to the next message; nothing is committed. *)
ReceiveEmpty(d, p) ==
  /\ Ready(d, p)
  /\ Upcoming(p) \in Empty
  /\ Advance(p)
  /\ Skip(d)
  /\ UNCHANGED <<log, committed, commits, members, owner, tx_raw, faults, rewound>>

(* Mutant: a malformed event id is skipped. *)
ReceiveBadIdSkips(d, p) ==
  /\ Ready(d, p)
  /\ Upcoming(p) \in BadId
  /\ Advance(p)
  /\ Skip(d)
  /\ UNCHANGED <<log, committed, commits, members, owner, tx_raw, faults, rewound>>

(* envelope_to_row(env)? leaves main: the process ends with its batch. *)
ReceiveBadId(d, p) ==
  /\ Ready(d, p)
  /\ Upcoming(p) \in BadId
  /\ Exit(d)
  /\ UNCHANGED <<tx_raw, faults>>

(* The stream yields an error, which is logged. *)
KafkaError(d) ==
  /\ pc[d] = "select"
  /\ Fault
  /\ Skip(d)
  /\ UNCHANGED <<kafka, tx_raw, rewound>>

(* Time passes while d waits: the sleep of this select, the age of the batch
   since the last flush, and that of its oldest row. *)
Tick(d) ==
  /\ pc[d] = "select"
  /\ sleep[d] > 0
  /\ sleep' = [sleep EXCEPT ![d] = @ - 1]
  /\ elapsed' = [elapsed EXCEPT ![d] = IF @ < FlushTicks THEN @ + 1 ELSE @]
  /\ age' = [age EXCEPT ![d] = IF batch[d] # <<>> /\ @ < AgeCap THEN @ + 1 ELSE @]
  /\ UNCHANGED <<kafka, pc, batch, skipped, tx_raw, faults, rewound>>

(* Mutant: the timer flushes full batches only. *)
TimerFlushesIfFull(d) == Len(batch[d]) >= BatchSize

(* The timer flushes whatever there is. *)
TimerFlushes(d) == batch[d] # <<>>

(* The sleep of the select ends. *)
TimerFires(d) ==
  /\ pc[d] = "select"
  /\ sleep[d] = 0
  /\ pc' = [pc EXCEPT ![d] = IF TimerFlushes(d) THEN "inserting" ELSE "select"]
  /\ Rearm(d)
  /\ UNCHANGED <<kafka, batch, elapsed, age, skipped, tx_raw, faults, rewound>>

RowsOf(rows) == {rows[i] : i \in DOMAIN rows}

(* Mutant: the insert is dropped before its end() sends the last row. *)
InsertRowsNoEnd(rows) ==
  tx_raw' = tx_raw \cup RowsOf(SubSeq(rows, 1, Len(rows) - 1))

InsertRows(rows) == tx_raw' = tx_raw \cup RowsOf(rows)

(* insert_rows succeeds: the table holds every row of the batch. *)
StoreRows(d) ==
  /\ pc[d] = "inserting"
  /\ InsertRows(batch[d])
  /\ pc' = [pc EXCEPT ![d] = "inserted"]
  /\ UNCHANGED <<kafka, batch, elapsed, sleep, age, skipped, faults, rewound>>

(* insert_rows fails, possibly after the server took the first n rows (all of
   them when only the answer is lost); the error leaves main. *)
InsertError(d, n) ==
  /\ pc[d] = "inserting"
  /\ Fault
  /\ InsertRows(SubSeq(batch[d], 1, n))
  /\ Exit(d)

(* Mutant: batch.clear() forgotten. *)
ClearBatchForgotten(d) == UNCHANGED batch

ClearBatch(d) == batch' = [batch EXCEPT ![d] = <<>>]

(* commit_consumer_state commits, for every partition assigned to d now, the
   position it has been given up to; then the batch is cleared. *)
CommitState(d) ==
  /\ pc[d] = "inserted"
  /\ commits' = commits \cup {<<p, position[p]>> :
                   p \in {q \in Partitions : owner[q] = d /\ position[q] > committed[q]}}
  /\ pc' = [pc EXCEPT ![d] = "select"]
  /\ ClearBatch(d)
  /\ elapsed' = [elapsed EXCEPT ![d] = 0]
  /\ age' = [age EXCEPT ![d] = 0]
  /\ skipped' = [skipped EXCEPT ![d] = FALSE]
  /\ UNCHANGED <<log, committed, members, owner, position, sleep,
                 tx_raw, faults, rewound>>

Receive(d) ==
  \E p \in Partitions :
    \/ ReceiveEnvelope(d, p)
    \/ ReceiveUnparseable(d, p)
    \/ ReceiveEmpty(d, p)
    \/ ReceiveBadId(d, p)

(* What the process does when nothing fails. *)
Step(d) == Receive(d) \/ Tick(d) \/ TimerFires(d) \/ StoreRows(d) \/ CommitState(d)

Regroup == \E assignment \in [Partitions -> Live] : Rebalance(assignment)

Environment ==
  \/ \E p \in Partitions, m \in Message : Produce(p, m)
  \/ \E c \in commits : ApplyCommit(c[1], c[2]) \/ LoseCommit(c[1], c[2])
  \/ Regroup
  \/ \E d \in Decoders :
       \/ Crash(d) \/ Restart(d) \/ KafkaError(d)
       \/ \E n \in 0..Len(batch[d]) : InsertError(d, n)

Next == (\E d \in Decoders : Step(d)) \/ Environment

Spec == Init /\ [][Next]_vars

(* The runtime keeps polling the select, Kafka hands out what it has and time
   passes; the service scheduler restarts a dead task and the coordinator
   completes a rebalance that a change of membership asks for. *)
Fairness ==
  /\ \A d \in Decoders :
       /\ WF_vars(Receive(d)) /\ WF_vars(Tick(d)) /\ WF_vars(TimerFires(d))
       /\ WF_vars(StoreRows(d)) /\ WF_vars(CommitState(d)) /\ WF_vars(Restart(d))
  /\ WF_vars(Regroup /\ members # Live)

FairSpec == Spec /\ Fairness

-----------------------------------------------------------------------------
(* Properties *)

Offsets(p) == 0..(Len(log[p]) - 1)
Envelope(p, o) == log[p][o + 1] \in Envelopes

(* An unparseable payload between offset o and the bound c of partition p. *)
Forfeited(p, o, c) ==
  \E g \in (o + 1)..(c - 1) : log[p][g + 1] \in Unparseable

(* The envelope at o is stored, or one of the payloads after it and below c
   was dropped by ReceiveUnparseable. *)
Settled(p, o, c) ==
  Envelope(p, o) => <<p, o>> \in tx_raw \/ Forfeited(p, o, c)

(* What flush_batch says of itself, "Commit offsets only after sink success":
   every envelope below the committed offset is in the table. *)
CommitAfterSink ==
  \A p \in Partitions : \A o \in 0..(committed[p] - 1) :
    Envelope(p, o) => <<p, o>> \in tx_raw

(* What the code guarantees instead: crashes, failed or partial inserts, lost
   and reordered commits and rebalances never lose an envelope, except one
   that an unparseable payload of the same partition was committed behind. *)
LossOnlyBehindGarbage ==
  \A p \in Partitions : \A o \in 0..(committed[p] - 1) :
    Settled(p, o, committed[p])

(* One unparseable payload at g costs fewer rows than one batch: of the
   envelopes since the previous unparseable payload, those below the committed
   offset and not in the table would have been in one unfinished batch. *)
LossBoundedByBatch ==
  \A p \in Partitions : \A g \in 0..(committed[p] - 1) :
    log[p][g + 1] \in Unparseable =>
      Cardinality({o \in 0..(g - 1) : /\ Envelope(p, o)
                                      /\ <<p, o>> \notin tx_raw
                                      /\ ~ Forfeited(p, o, g)}) < BatchSize

(* A row that is about to be inserted twice, in two batches or in one, was
   given out twice: its partition was rewound by a rebalance.  The loop itself
   never flushes a row again. *)
DuplicateOnlyAfterRewind ==
  \A d \in Decoders : \A i \in DOMAIN batch[d] :
    (\/ batch[d][i] \in tx_raw /\ pc[d] # "inserted"
     \/ \E e \in Decoders : \E j \in DOMAIN batch[e] :
          <<d, i>> # <<e, j>> /\ batch[d][i] = batch[e][j])
    => rewound[batch[d][i][1]]

(* A partition never gets past an envelope with a malformed event id: every
   process that is given it exits without committing it. *)
PoisonBlocksPartition ==
  \A p \in Partitions : \A o \in Offsets(p) :
    log[p][o + 1] \in BadId =>
      /\ committed[p] <= o /\ position[p] <= o
      /\ \A c \in commits : c[1] = p => c[2] <= o

(* The sleep is created again by every select, so rows that only envelopes
   follow wait less than twice the flush interval. *)
FlushWithinTwoIntervals ==
  \A d \in Decoders :
    pc[d] = "select" /\ batch[d] # <<>> /\ ~skipped[d] => age[d] < 2 * FlushTicks

(* What the option documents, "Max time before we flush a partial batch": rows
   that still wait in the select are not older than the flush interval. *)
FlushDeadline ==
  \A d \in Decoders :
    pc[d] = "select" /\ batch[d] # <<>> => age[d] <= FlushTicks

(* While a decoder waits for messages its batch has room: the batch is flushed
   the moment it is full, and never grows past its size. *)
BatchBounded ==
  \A d \in Decoders :
    /\ Len(batch[d]) <= BatchSize
    /\ pc[d] = "select" => Len(batch[d]) < BatchSize

(* Every envelope in the topic is stored, or was forfeited to an unparseable
   payload, however the faults fall; in a topic without malformed event ids,
   for one of those takes the rows of every batch it meets with it. *)
EventuallyStored ==
  \A p \in Partitions : \A o \in 0..(MaxLog - 1) :
    (o \in Offsets(p) /\ Envelope(p, o))
      ~> (<<p, o>> \in tx_raw \/ Forfeited(p, o, committed[p]))

(* The decoder implements the abstract at-least-once delivery. *)
Sink == INSTANCE Delivery

ImplementsDelivery == Sink!Spec

-----------------------------------------------------------------------------
(* Why LossOnlyBehindGarbage holds: it is inductive together with what the
   offsets on their way to the broker and the rows not yet stored say.      *)

(* Offsets point into the log, and batches hold envelopes of the log. *)
OffsetsInLog ==
  /\ \A p \in Partitions : committed[p] <= Len(log[p]) /\ position[p] <= Len(log[p])
  /\ \A c \in commits : c[2] <= Len(log[c[1]])
  /\ \A d \in Decoders : \A r \in RowsOf(batch[d]) :
       r[2] < Len(log[r[1]]) /\ Envelope(r[1], r[2])

(* An offset on its way to the broker is as safe as a committed one. *)
CommitsSettled ==
  \A c \in commits : \A o \in 0..(c[2] - 1) : Settled(c[1], o, c[2])

(* What the owner of a partition was given is settled or in its batch. *)
PositionHeld ==
  \A p \in Partitions, d \in Decoders : owner[p] = d =>
    \A o \in 0..(position[p] - 1) :
      Settled(p, o, position[p]) \/ <<p, o>> \in RowsOf(batch[d])

InsertedStored ==
  \A d \in Decoders : pc[d] = "inserted" => RowsOf(batch[d]) \subseteq tx_raw

(* The inductive invariant of LossOnlyBehindGarbage, without the types. *)
DeliveryInv ==
  /\ OffsetsInLog
  /\ LossOnlyBehindGarbage
  /\ CommitsSettled
  /\ PositionHeld
  /\ InsertedStored


=============================================================================
