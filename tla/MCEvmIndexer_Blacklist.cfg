CONSTANTS
  StartBlock = 1
  PastInterval = 3
  BlockDelay = 1
  MaxHead = 6
  Domain = {1, 2}
  Destination = {1, 2, 4}
  Blacklisted = {4}
  Tx <- MCTx
  Log <- Mixed
  Flaky = {}
  Key <- MixedKeys
  NoTx = NoTx
  NoEvent = NoEvent
SPECIFICATION Spec
INVARIANTS BlacklistedDepositsAreIgnored
