CONSTANTS
  LineSize = 2
  MinBufferSize = 8
  Batch = 3
  StoreBatch = 3
  StoreSlots = 2
  SizeArgs <- Sizes
  CountArgs <- Counts
  StrideLists <- Lists
  MaxCalls = 2
SPECIFICATION FairSpec
INVARIANTS TypeOK ExactlyTheNodesAhead NothingStaysFlushed LinksAsIntended AllSamples
PROPERTY Returns
