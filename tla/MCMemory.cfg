SPECIFICATION MemorySpec
SYMMETRY WorkerSymmetry
VIEW MemoryView
CONSTANTS
  Null = Null
  Ids = {1, 2, 3, 4, 5, 6}
  Phases = {0, 1}
  SIZE_MAX = 3
  DEFAULT_ALIGNMENT = 1
  BUMP_REGION_SIZE = 2
  Alignments = {0, 2}
  Sizes = {1, 2, 3}
  RegionSizes = {0, 3}
  Counts = {2}
  Kinds = {"rpmalloc", "fixedregion", "bump"}
  MaxHeld = 2
  e1 = e1
  Elements = {e1}
  Zero = Zero
  TInit = TInit
  Junk = Junk
  Max_size_t = 4
  MaxCapacity = 4
  w1 = w1
  w2 = w2
  w3 = w3
  h1 = h1
  h2 = h2
  Workers = {w1, w2, w3}
  Heaps = {h1, h2}
  HeapsPerMap = 2
  Pages = {0, 1}
  PagesPerSpan = 2
  Classes = {1, 2}
  BlockCount = 2
  LinkedBlocks <- MCLinkedBlocks
  FreeOverflow = 2
  FreeRetain = 1
  CommitFails = FALSE
  NoHeap = NoHeap
INVARIANTS
  ContentsKept
  OwnsHeap
  BlocksPlaced
  BumpFailsOnlyWhenRefused
  EveryBlockInOnePlace
  NoPageLost
  ZeroedIsZero
PROPERTIES
  FailureChangesNothing
  ActsOnSequence
