CONSTANTS
  w1 = w1
  w2 = w2
  h1 = h1
  h2 = h2
  Workers = {w1, w2}
  Heaps = {h1, h2}
  HeapsPerMap = 2
  Pages = {0, 1}
  PagesPerSpan = 2
  Classes = {1, 2}
  BlockCount = 2
  LinkedBlocks <- MCLinkedBlocks
  FreeOverflow = 2
  FreeRetain = 1
  CommitFails = TRUE
  NoHeap = NoHeap
SPECIFICATION RpSpec
SYMMETRY WorkerSymmetry
INVARIANTS
  LentIsCommitted
