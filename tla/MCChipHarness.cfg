\* Three calls of up to two commands, blocks of one line and a channel that
\* holds one: fewer lines than a block.
SPECIFICATION FairSpec
CONSTANTS
  Batches <- MCBatches
  BlockLines = 1
  MaxExchanges = 3
  Capacity = 1
INVARIANTS
  InStep
  CleanMeansGone
PROPERTIES
  Implements
  CallsReturn
