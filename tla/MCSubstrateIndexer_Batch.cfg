CONSTANTS
  StartBlock = 1
  PastInterval = 1
  BlockDelay = 1
  MaxHead = 4
  Domain = {1, 2}
  Blacklisted = {3}
  Tx <- MCTx
  Log <- Batch
  Key <- BatchKeys
  NoTx = NoTx
  NoEvent = NoEvent
  NoKey = NoKey
SPECIFICATION Spec
INVARIANTS TypeOK PassedEventsAreAccountedFor TablesAgree
PROPERTIES ImplementsLifecycle
