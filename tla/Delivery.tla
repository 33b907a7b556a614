------------------------------- MODULE Delivery -------------------------------
(***************************************************************************)
(* What the decoder promises to whoever reads tx_raw, without processes,   *)
(* batches or a consumer group: messages are appended to the partitions,   *)
(* rows are stored in any order and any number of times, and the committed *)
(* offset, which is all that survives a crash, is only ever moved to an    *)
(* offset below which every envelope is stored, or was forfeited to an     *)
(* unparseable payload.                                                    *)
(***************************************************************************)
EXTENDS Naturals, Sequences

CONSTANTS Partitions, Envelopes, Unparseable, Empty, BadId

VARIABLES
  log,        \* the messages of every partition
  committed,  \* the offset a new consumer of the partition starts at
  tx_raw      \* the rows stored, named by <<partition, offset>>

vars == <<log, committed, tx_raw>>

Message == Envelopes \cup Unparseable \cup Empty \cup BadId

Envelope(p, o) == log[p][o + 1] \in Envelopes

Forfeited(p, o, c) ==
  \E g \in (o + 1)..(c - 1) : log[p][g + 1] \in Unparseable

Settled(p, o, c) ==
  Envelope(p, o) => <<p, o>> \in tx_raw \/ Forfeited(p, o, c)

Init ==
  /\ log = [p \in Partitions |-> <<>>]
  /\ committed = [p \in Partitions |-> 0]
  /\ tx_raw = {}

Append_(p, m) ==
  /\ log' = [log EXCEPT ![p] = Append(@, m)]
  /\ UNCHANGED <<committed, tx_raw>>

Store(rows) ==
  /\ \A r \in rows : /\ r[1] \in Partitions
                     /\ r[2] \in 0..(Len(log[r[1]]) - 1)
                     /\ Envelope(r[1], r[2])
  /\ tx_raw' = tx_raw \cup rows
  /\ UNCHANGED <<log, committed>>

(* The committed offset may also move back: a commit may be overtaken. *)
Commit(p, c) ==
  /\ c \in 0..Len(log[p])
  /\ \A o \in 0..(c - 1) : Settled(p, o, c)
  /\ committed' = [committed EXCEPT ![p] = c]
  /\ UNCHANGED <<log, tx_raw>>

(* The rows of a step are those it adds. *)
Next ==
  \/ \E p \in Partitions, m \in Message : Append_(p, m)
  \/ Store(tx_raw' \ tx_raw)
  \/ \E p \in Partitions : Commit(p, committed'[p])

Spec == Init /\ [][Next]_vars

=============================================================================
