CONSTANTS
  StartBlock = 1
  PastInterval = 3
  BlockDelay = 1
  MaxHead = 6
  Domain = {1, 2}
  Destination = {1, 2}
  Blacklisted = {}
  Tx <- MCTx
  Log <- BothWays
  Flaky <- BothWaysFlaky
  Key <- BothWaysKeys
  NoTx = NoTx
  NoEvent = NoEvent
SPECIFICATION FairSpec
INVARIANTS TypeOK IndexedEventsAreRecorded TablesAgree
PROPERTIES ImplementsLifecycle Convergence
