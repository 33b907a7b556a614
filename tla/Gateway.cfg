\* One gateway that replays from slot 1 on every connection, with faults.
CONSTANTS
  Gateways = {"g1"}
  t1 = t1
  t2 = t2
  t3 = t3
  Txs = {t1, t2, t3}
  Hollow = {t3}
  TxSlot <- MCTxSlot
  Parent <- MCParent
  MaxSlot = 3
  NoSlot = NoSlot
  FromSlot = 1
  MaxParents = 1
  BackoffArg = 1
  BackoffMaxArg = 6
  BackoffFloor = 2
  MaxFaults = 2
SPECIFICATION FairSpec
CHECK_DEADLOCK FALSE
INVARIANTS
  TypeOK
  NumberedWithoutGaps
  RemembersNewestSlots
  AtMostTwoIds
PROPERTY EventuallyPublished
