\* An unparseable payload between rows: the comment of flush_batch.
CONSTANTS
  p1 = p1
  p2 = p2
  d1 = d1
  d2 = d2
  Partitions = {p1}
  Decoders = {d1}
  Envelopes = {env}
  Unparseable = {garbage}
  Empty = {}
  BadId = {}
  BatchSize = 2
  FlushTicks = 1
  NoOwner = NoOwner
  MaxLog = 2
  MaxFaults = 1
SPECIFICATION Spec
INVARIANT CommitAfterSink
