\* Remounts in a life without unlink: three block contents, so three ids.
SPECIFICATION SpecNoUnlink
CONSTANTS
  f1 = f1
  f2 = f2
  c1 = c1
  c2 = c2
  c3 = c3
  h1 = h1
  h2 = h2
  h3 = h3
  NoBlock = NoBlock
  Files <- MCFiles
  Contents <- MCContents
  Hashes <- MCHashes
  HashOf <- MCHashOf
  MaxId = 4
  MaxUsage = 4
  MaxBlocks = 2
INVARIANTS
  InitialIdIsLastId
PROPERTIES
  NonVolatile
