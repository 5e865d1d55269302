SPECIFICATION Spec
CONSTANTS
  c1 = c1
  c2 = c2
  v1 = v1
  v2 = v2
  Chunks <- MCChunks
  Blocks <- MCBlocks
  Proposers <- MCProposers
  ProposerOf <- MCProposerOf
  MaxHeight = 2
  MaxRound = 0
  MaxPublished = 2
INVARIANTS
  TypeOK
  Integrity
  AtMostOncePerStream
  UniqueStreamsComplete
PROPERTIES
  StreamsNeverForgotten
  ImplementsDelivery
