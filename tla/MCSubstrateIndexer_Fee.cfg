CONSTANTS
  StartBlock = 1
  PastInterval = 1
  BlockDelay = 1
  MaxHead = 4
  Domain = {1}
  Blacklisted = {}
  Tx <- MCTx
  Log <- Single
  Key <- SingleKeys
  NoTx = NoTx
  NoEvent = NoEvent
  NoKey = NoKey
SPECIFICATION CrashSpec
INVARIANTS DepositsHaveTheirFees
