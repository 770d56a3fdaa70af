CONSTANTS
  StartBlock = 1
  PastInterval = 1
  BlockDelay = 1
  MaxHead = 4
  Domain = {1, 2}
  Blacklisted = {3}
  Tx <- MCTx
  Log <- Contest
  Key <- ContestKeys
  NoTx = NoTx
  NoEvent = NoEvent
  NoKey = NoKey
SPECIFICATION FairSpec
INVARIANTS PassedEventsAreAccountedFor TablesAgree
PROPERTIES Convergence
