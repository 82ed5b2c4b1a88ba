\* The counters after an overwrite, a truncation or a rename over a file.
SPECIFICATION Spec
CONSTANTS
  f1 = f1
  f2 = f2
  c1 = c1
  c2 = c2
  h1 = h1
  h2 = h2
  NoBlock = NoBlock
  Files <- MCFiles
  Contents <- MCContents
  Hashes <- MCHashes
  HashOf <- MCHashOf
  MaxId = 4
  MaxUsage = 4
  MaxBlocks = 2
INVARIANTS
  UsageIsExact
