\* Two partitions read by a decoder that may crash: rows wait less than two
\* flush intervals, every envelope is stored in the end, and each step is one of
\* the abstract delivery.
CONSTANTS
  p1 = p1
  p2 = p2
  d1 = d1
  d2 = d2
  Partitions = {p1, p2}
  Decoders = {d1}
  Envelopes = {env}
  Unparseable = {garbage}
  Empty = {}
  BadId = {}
  BatchSize = 3
  FlushTicks = 2
  NoOwner = NoOwner
  MaxLog = 2
  MaxFaults = 1
SPECIFICATION FairSpec
INVARIANT FlushWithinTwoIntervals
PROPERTIES
  EventuallyStored
  ImplementsDelivery
