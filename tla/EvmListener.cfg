CONSTANTS
  StartBlock = 1
  PastInterval = 3
  BlockDelay = 1
  MaxHead = 11
SPECIFICATION FairSpec
INVARIANTS TypeOK NoBlockSkipped QueriesMinedBlocks
PROPERTIES CursorNeverRegresses ImplementsBlockCursor DeepBlocksAreSaved
