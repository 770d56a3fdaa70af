CONSTANTS
  StartBlock = 1
  PastInterval = 2
  BlockDelay = 1
  MaxHead = 4
  EvmDomain = {1}
  SubstrateDomain = {2}
  Blacklisted = {}
  Tx <- MCTx
  EvmLog <- OutEvm
  SubstrateLog <- OutSubstrate
  Flaky = {}
  Key <- OutKeys
  NoTx = NoTx
  NoEvent = NoEvent
  NoKey = NoKey
SPECIFICATION QuietSpec
INVARIANTS TransfersAreComplete
