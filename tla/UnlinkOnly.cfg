\* Files give pointers up through unlink only: three pointers may share a block.
SPECIFICATION SpecUnlinkOnly
CONSTANTS
  f1 = f1
  f2 = f2
  c1 = c1
  c2 = c2
  h1 = h1
  h2 = h2
  NoBlock = NoBlock
  Files <- MCFiles
  Contents <- MCContents
  Hashes <- MCHashes
  HashOf <- MCHashOf
  MaxId = 4
  MaxUsage = 6
  MaxBlocks = 3
INVARIANTS
  UsageIsExact
  NoOrphanBlocks
