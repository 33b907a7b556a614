\* Without from_slot, as by default: a transaction delivered to two sessions has two identities.
CONSTANTS
  Gateways = {"g1"}
  t1 = t1
  t2 = t2
  t3 = t3
  Txs = {t1, t2, t3}
  Hollow = {t3}
  TxSlot <- MCTxSlot
  Parent <- MCParent
  MaxSlot = 3
  NoSlot = NoSlot
  FromSlot = NoSlot
  MaxParents = 1
  BackoffArg = 1
  BackoffMaxArg = 6
  BackoffFloor = 2
  MaxFaults = 2
SPECIFICATION Spec
CHECK_DEADLOCK FALSE
INVARIANT StableId
