------------------------------- MODULE Gateway -------------------------------
(***************************************************************************)
(* The ingestion gateway (services/gateway-rs) with its Yellowstone        *)
(* source: a process subscribes to a provider's stream of slot and         *)
(* transaction updates, gives every transaction an envelope with an        *)
(* identity and publishes it to the envelope topic, one at a time.  When a *)
(* session fails it waits and subscribes again.                            *)
(*                                                                         *)
(* The provider is modelled by what it owes each session: the updates of   *)
(* the slots from from_slot on, or, without from_slot, of the slots still  *)
(* to come and a rest of the current one, in any order.                    *)
(***************************************************************************)
EXTENDS Naturals, Sequences, FiniteSets, FiniteSetsExt

CONSTANTS
  Gateways,     \* gateway processes
  Txs,          \* transaction updates of the chain
  Hollow,       \* those of Txs whose update carries no transaction
  TxSlot,       \* TxSlot[t]: the slot of t
  Parent,       \* Parent[s]: the parent the slot update of s names, or NoSlot
  MaxSlot,      \* bound: the last slot
  NoSlot,       \* an absent slot number (None)
  FromSlot,     \* HELIOS_YELLOWSTONE_FROM_SLOT, or NoSlot
  MaxParents,   \* capacity of slot_parents (200 000 in the code)
  BackoffArg,   \* HELIOS_YELLOWSTONE_RECONNECT_BACKOFF_MS
  BackoffMaxArg,\* HELIOS_YELLOWSTONE_RECONNECT_BACKOFF_MAX_MS
  BackoffFloor, \* least first delay (250 in the code)
  MaxFaults     \* bound: failed connects, streams and sends, crashes, interrupts

Slots == 1..MaxSlot

ASSUME ChainAssumption ==
  /\ MaxSlot \in Nat
  /\ NoSlot \notin Nat
  /\ Hollow \subseteq Txs
  /\ TxSlot \in [Txs -> Slots]
  /\ Parent \in [Slots -> Nat \cup {NoSlot}]

ASSUME ArgsAssumption ==
  /\ FromSlot \in Nat \cup {NoSlot}
  /\ MaxParents \in Nat \ {0}
  /\ BackoffArg \in Nat /\ BackoffMaxArg \in Nat /\ BackoffFloor \in Nat \ {0}
  /\ MaxFaults \in Nat

VARIABLES
  tip,        \* the newest slot of the chain
  topic,      \* envelopes in the topic, in the order they were appended
  pc,         \* where the session loop of each gateway is
  dueSlots,   \* slot updates the provider still owes the session
  dueTxs,     \* transaction updates it still owes the session
  parents,    \* slot_parents: the parent of each slot it remembers
  seq,        \* seq of the session
  sending,    \* the envelope the session awaits the delivery of
  backoff,    \* backoff_ms
  handler,    \* the process has installed its ctrl_c handler
  session,    \* ghost: number of sessions the gateway has begun
  seen,       \* ghost: slots whose update the session has handled
  faults      \* faults the environment may still inject

source == <<dueSlots, dueTxs>>
memory == <<parents, seq, seen>>
vars   == <<tip, topic, pc, source, memory, sending, backoff, handler, session, faults>>

Larger(a, b) == IF a >= b THEN a ELSE b
Smaller(a, b) == IF a <= b THEN a ELSE b

BackoffFirst == Larger(BackoffArg, BackoffFloor)
BackoffMax   == Larger(BackoffMaxArg, BackoffFirst)

Nothing == [tx |-> "none"]

Envelope == [gateway : Gateways, session : Nat, seq : Nat, tx : Txs,
             slot : Slots, parent : Nat]

(* compute_event_id_hex: what of an envelope its identity is made of. *)
EventId(env) == <<env.slot, env.parent, env.tx>>

(* An association list of slots to their parents. *)
NoParents == <<>>

TypeOK ==
  /\ tip \in 0..MaxSlot
  /\ topic \in Seq(Envelope)
  /\ pc \in [Gateways -> {"down", "connect", "stream", "send", "backoff"}]
  /\ dueSlots \in [Gateways -> SUBSET Slots]
  /\ dueTxs \in [Gateways -> SUBSET Txs]
  /\ DOMAIN parents = Gateways
  /\ \A g \in Gateways : /\ DOMAIN parents[g] \subseteq Slots
                         /\ \A s \in DOMAIN parents[g] : parents[g][s] \in Nat
  /\ seq \in [Gateways -> Nat]
  /\ sending \in [Gateways -> Envelope \cup {Nothing}]
  /\ backoff \in [Gateways -> BackoffFirst..BackoffMax]
  /\ handler \in [Gateways -> BOOLEAN]
  /\ session \in [Gateways -> Nat]
  /\ seen \in [Gateways -> SUBSET Slots]
  /\ faults \in 0..MaxFaults

Init ==
  /\ tip = 0
  /\ topic = <<>>
  /\ pc = [g \in Gateways |-> "connect"]
  /\ dueSlots = [g \in Gateways |-> {}]
  /\ dueTxs = [g \in Gateways |-> {}]
  /\ parents = [g \in Gateways |-> NoParents]
  /\ seq = [g \in Gateways |-> 0]
  /\ sending = [g \in Gateways |-> Nothing]
  /\ backoff = [g \in Gateways |-> BackoffFirst]
  /\ handler = [g \in Gateways |-> FALSE]
  /\ session = [g \in Gateways |-> 0]
  /\ seen = [g \in Gateways |-> {}]
  /\ faults = MaxFaults

Fault == /\ faults > 0
         /\ faults' = faults - 1

InSession(g) == pc[g] \in {"stream", "send"}

TxsOf(slots) == {t \in Txs : TxSlot[t] \in slots}

-----------------------------------------------------------------------------
(* The chain and the provider.                                             *)

(* A slot is produced; every open subscription is owed its updates. *)
NewSlot ==
  /\ tip < MaxSlot
  /\ tip' = tip + 1
  /\ dueSlots' = [g \in Gateways |->
                    IF InSession(g) THEN dueSlots[g] \cup {tip + 1} ELSE dueSlots[g]]
  /\ dueTxs' = [g \in Gateways |->
                  IF InSession(g) THEN dueTxs[g] \cup TxsOf({tip + 1}) ELSE dueTxs[g]]
  /\ UNCHANGED <<topic, pc, memory, sending, backoff, handler, session, faults>>

-----------------------------------------------------------------------------
(* run_yellowstone: the session loop of gateway g.                         *)

(* The subscription names from_slot, the same one every time; without it the
   provider goes on from wherever the chain is. *)
Connect(g) ==
  /\ pc[g] = "connect"
  /\ pc' = [pc EXCEPT ![g] = "stream"]
  /\ \E rest \in SUBSET TxsOf({tip}) :
       IF FromSlot = NoSlot
       THEN /\ dueSlots' = [dueSlots EXCEPT ![g] = {}]
            /\ dueTxs' = [dueTxs EXCEPT ![g] = rest]
       ELSE /\ rest = {}
            /\ dueSlots' = [dueSlots EXCEPT ![g] = {s \in Slots : FromSlot <= s /\ s <= tip}]
            /\ dueTxs' = [dueTxs EXCEPT ![g] =
                            TxsOf({s \in Slots : FromSlot <= s /\ s <= tip})]
  /\ parents' = [parents EXCEPT ![g] = NoParents]
  /\ seq' = [seq EXCEPT ![g] = 0]
  /\ seen' = [seen EXCEPT ![g] = {}]
  /\ session' = [session EXCEPT ![g] = @ + 1]
  /\ UNCHANGED <<tip, topic, sending, backoff, handler, faults>>

(* A session ends: on to the select on ctrl_c and the sleep. *)
EndSession(g) ==
  /\ pc' = [pc EXCEPT ![g] = "backoff"]
  /\ dueSlots' = [dueSlots EXCEPT ![g] = {}]
  /\ dueTxs' = [dueTxs EXCEPT ![g] = {}]
  /\ sending' = [sending EXCEPT ![g] = Nothing]
  /\ handler' = [handler EXCEPT ![g] = TRUE]
  /\ UNCHANGED <<tip, memory, backoff, session>>

(* Connecting or subscribing fails, or the stream fails or ends. *)
SessionFails(g) ==
  /\ pc[g] \in {"connect", "stream"}
  /\ Fault
  /\ EndSession(g)
  /\ UNCHANGED topic

(* Mutant: doubled without its maximum. *)
DoubledUncapped(delay) == 2 * delay

Doubled(delay) == Smaller(2 * delay, BackoffMax)

(* The sleep ends; the delay doubles, up to its maximum, and is never reset. *)
BackoffEnds(g) ==
  /\ pc[g] = "backoff"
  /\ pc' = [pc EXCEPT ![g] = "connect"]
  /\ backoff' = [backoff EXCEPT ![g] = Doubled(@)]
  /\ UNCHANGED <<tip, topic, source, memory, sending, handler, session, faults>>

(* The process is gone, with everything it remembers. *)
Exit(g) ==
  /\ pc' = [pc EXCEPT ![g] = "down"]
  /\ dueSlots' = [dueSlots EXCEPT ![g] = {}]
  /\ dueTxs' = [dueTxs EXCEPT ![g] = {}]
  /\ parents' = [parents EXCEPT ![g] = NoParents]
  /\ seq' = [seq EXCEPT ![g] = 0]
  /\ seen' = [seen EXCEPT ![g] = {}]
  /\ sending' = [sending EXCEPT ![g] = Nothing]
  /\ backoff' = [backoff EXCEPT ![g] = BackoffFirst]
  /\ handler' = [handler EXCEPT ![g] = FALSE]
  /\ UNCHANGED <<tip, session>>

Crash(g) ==
  /\ pc[g] # "down"
  /\ Fault
  /\ Exit(g)
  /\ UNCHANGED topic

(* An interrupt ends the process while nothing has asked for the signal yet,
   or when it is waited for, in the backoff; otherwise the handler installed
   by the first backoff swallows it. *)
Interrupt(g) ==
  /\ pc[g] # "down"
  /\ ~handler[g] \/ pc[g] = "backoff"
  /\ Fault
  /\ Exit(g)
  /\ UNCHANGED topic

Restart(g) ==
  /\ pc[g] = "down"
  /\ pc' = [pc EXCEPT ![g] = "connect"]
  /\ UNCHANGED <<tip, topic, source, memory, sending, backoff, handler, session, faults>>

-----------------------------------------------------------------------------
(* run_yellowstone_session: one update of the stream.                      *)

(* Mutant: the newest slot is evicted. *)
EvictNewest(slots) ==
  IF Cardinality(slots) > MaxParents THEN slots \ {Max(slots)} ELSE slots

(* The smallest slot goes if there are too many. *)
Evict(slots) ==
  IF Cardinality(slots) > MaxParents THEN slots \ {Min(slots)} ELSE slots

(* slot_parents.insert, which may evict. *)
Remember(known, s, parent) ==
  [x \in Evict(DOMAIN known \cup {s}) |-> IF x = s THEN parent ELSE known[x]]

(* A slot update that names a parent is remembered. *)
SlotUpdate(g, s) ==
  /\ pc[g] = "stream"
  /\ s \in dueSlots[g]
  /\ dueSlots' = [dueSlots EXCEPT ![g] = @ \ {s}]
  /\ seen' = [seen EXCEPT ![g] = @ \cup {s}]
  /\ parents' = [parents EXCEPT ![g] =
                   IF Parent[s] = NoSlot THEN @ ELSE Remember(@, s, Parent[s])]
  /\ UNCHANGED <<tip, topic, pc, dueTxs, seq, sending, backoff, handler, session, faults>>

(* Mutant: no parent remembered, parent 0. *)
ParentSlotOrZero(g, s) == IF s \in DOMAIN parents[g] THEN parents[g][s] ELSE 0

(* The parent an envelope names: the one remembered, or the slot before. *)
ParentSlot(g, s) == IF s \in DOMAIN parents[g] THEN parents[g][s] ELSE s - 1

(* A transaction gets the next number and is handed to the producer. *)
TxUpdate(g, t) ==
  /\ pc[g] = "stream"
  /\ t \in dueTxs[g] \ Hollow
  /\ dueTxs' = [dueTxs EXCEPT ![g] = @ \ {t}]
  /\ seq' = [seq EXCEPT ![g] = @ + 1]
  /\ sending' = [sending EXCEPT ![g] =
                   [gateway |-> g, session |-> session[g], seq |-> seq[g] + 1, tx |-> t,
                    slot |-> TxSlot[t], parent |-> ParentSlot(g, TxSlot[t])]]
  /\ pc' = [pc EXCEPT ![g] = "send"]
  /\ UNCHANGED <<tip, topic, dueSlots, parents, seen, backoff, handler, session, faults>>

(* An update without its transaction makes no envelope. *)
HollowTxUpdate(g, t) ==
  /\ pc[g] = "stream"
  /\ t \in dueTxs[g] \cap Hollow
  /\ dueTxs' = [dueTxs EXCEPT ![g] = @ \ {t}]
  /\ UNCHANGED <<tip, topic, pc, dueSlots, memory, sending, backoff, handler,
                 session, faults>>

(* The delivery report is good.  The producer is not idempotent: a send it
   repeated may be in the topic twice. *)
SendOk(g) ==
  /\ pc[g] = "send"
  /\ \/ topic' = Append(topic, sending[g]) /\ UNCHANGED faults
     \/ topic' = topic \o <<sending[g], sending[g]>> /\ Fault
  /\ sending' = [sending EXCEPT ![g] = Nothing]
  /\ pc' = [pc EXCEPT ![g] = "stream"]
  /\ UNCHANGED <<tip, source, memory, backoff, handler, session>>

(* Mutant: the error is logged and the session goes on. *)
SendErrorIgnored(g) ==
  /\ pc[g] = "send"
  /\ Fault
  /\ topic' \in {topic, Append(topic, sending[g])}
  /\ sending' = [sending EXCEPT ![g] = Nothing]
  /\ pc' = [pc EXCEPT ![g] = "stream"]
  /\ UNCHANGED <<tip, source, memory, backoff, handler, session>>

(* No good report within message.timeout.ms: the session is given up, whether
   or not the broker has the message. *)
SendError(g) ==
  /\ pc[g] = "send"
  /\ Fault
  /\ topic' \in {topic, Append(topic, sending[g])}
  /\ EndSession(g)

Stream(g) ==
  \/ \E s \in Slots : SlotUpdate(g, s)
  \/ \E t \in Txs : TxUpdate(g, t) \/ HollowTxUpdate(g, t)

Next ==
  \/ NewSlot
  \/ \E g \in Gateways :
       \/ Connect(g) \/ SessionFails(g) \/ BackoffEnds(g)
       \/ Crash(g) \/ Interrupt(g) \/ Restart(g)
       \/ Stream(g) \/ SendOk(g) \/ SendError(g)

Spec == Init /\ [][Next]_vars

(* The chain goes on, the runtime polls the session and its timer, the provider
   sends what it owes, the producer reports within its timeout and the scheduler
   restarts a dead task. *)
Fairness ==
  /\ WF_vars(NewSlot)
  /\ \A g \in Gateways :
       /\ WF_vars(Connect(g)) /\ WF_vars(BackoffEnds(g)) /\ WF_vars(Restart(g))
       /\ WF_vars(Stream(g)) /\ WF_vars(SendOk(g))

FairSpec == Spec /\ Fairness

-----------------------------------------------------------------------------
(* Properties *)

(* The envelopes of one session, by their places in the topic. *)
OfSession(g, n) ==
  {i \in DOMAIN topic : topic[i].gateway = g /\ topic[i].session = n}

(* What a connection publishes is numbered 1, 2, ... without a hole, each
   number in order and repeated only by the producer's own retry: a failed
   send ends the session, so nothing is ever published past a lost one. *)
NumberedWithoutGaps ==
  \A g \in Gateways : \A n \in 1..session[g] : \A j \in OfSession(g, n) :
    LET before == {i \in OfSession(g, n) : i < j}
    IN  IF before = {} THEN topic[j].seq = 1
        ELSE \A i \in before :
               (\A k \in before : k <= i) => topic[j].seq \in {topic[i].seq, topic[i].seq + 1}

(* slot_parents holds the newest slots that named a parent: a slot it has
   handled and does not know is older than all it knows, and it is full. *)
RemembersNewestSlots ==
  \A g \in Gateways : \A s \in seen[g] :
    Parent[s] # NoSlot /\ s \notin DOMAIN parents[g] =>
      /\ Cardinality(DOMAIN parents[g]) = MaxParents
      /\ \A k \in DOMAIN parents[g] : s < k

(* A transaction has at most two identities, however often it is delivered:
   the one with the slot's parent and the one with the slot before. *)
AtMostTwoIds ==
  \A i \in DOMAIN topic :
    topic[i].parent \in {Parent[topic[i].slot], topic[i].slot - 1}

(* What event_id is for, "Stable keys for idempotency": a transaction that is
   published again has the same identity. *)
StableId ==
  \A i, j \in DOMAIN topic :
    topic[i].tx = topic[j].tx => EventId(topic[i]) = EventId(topic[j])

(* The transactions a deployment asks for: with from_slot all from there on,
   without it those of the slots to come once a gateway has subscribed. *)
Wanted(t) ==
  IF FromSlot # NoSlot THEN TxSlot[t] >= FromSlot
  ELSE tip < TxSlot[t] /\ \E g \in Gateways : session[g] > 0

(* "No-loss": every transaction asked for is published, however sends and
   sessions fail and processes crash. *)
EventuallyPublished ==
  \A t \in Txs \ Hollow : Wanted(t) ~> \E i \in DOMAIN topic : topic[i].tx = t

=============================================================================
