\* One partition and two decoders, every kind of message: who holds the rows
\* when offsets are committed, lost or rewound.
CONSTANTS
  p1 = p1
  p2 = p2
  d1 = d1
  d2 = d2
  Partitions = {p1}
  Decoders = {d1, d2}
  Envelopes = {env}
  Unparseable = {garbage}
  Empty = {tombstone}
  BadId = {badid}
  BatchSize = 2
  FlushTicks = 1
  NoOwner = NoOwner
  MaxLog = 3
  MaxFaults = 2
SPECIFICATION Spec
SYMMETRY Symmetric
INVARIANTS
  TypeOK
  LossOnlyBehindGarbage
  LossBoundedByBatch
  DuplicateOnlyAfterRewind
  PoisonBlocksPartition
