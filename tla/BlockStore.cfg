\* Two files of up to two blocks over two different block contents.
SPECIFICATION Spec
CONSTANTS
  f1 = f1
  f2 = f2
  c1 = c1
  c2 = c2
  h1 = h1
  h2 = h2
  NoBlock = NoBlock
  Files <- MCFiles
  Contents <- MCContents
  Hashes <- MCHashes
  HashOf <- MCHashOf
  MaxId = 4
  MaxUsage = 4
  MaxBlocks = 2
INVARIANTS
  TypeOK
  LinesAtTheirIds
  PointersResolve
  BlocksMatchLines
  LiveHashesDistinct
  UsageCoversRefs
PROPERTIES
  ReferencedBlocksKept
  Implements
