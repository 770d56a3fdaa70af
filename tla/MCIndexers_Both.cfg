CONSTANTS
  StartBlock = 1
  PastInterval = 2
  BlockDelay = 1
  MaxHead = 4
  EvmDomain = {1}
  SubstrateDomain = {2}
  Blacklisted = {}
  Tx <- MCTx
  EvmLog <- BothEvm
  SubstrateLog <- BothSubstrate
  Flaky = {}
  Key <- BothKeys
  NoTx = NoTx
  NoEvent = NoEvent
  NoKey = NoKey
SPECIFICATION Spec
INVARIANTS EvmEventsAreRecorded SubstrateEventsAreAccountedFor TablesAgree
PROPERTIES ImplementsLifecycle
