\* Two threads, as without -s.
SPECIFICATION SpecSteps
CONSTANTS
  f1 = f1
  f2 = f2
  c1 = c1
  c2 = c2
  h1 = h1
  h2 = h2
  t1 = t1
  t2 = t2
  NoBlock = NoBlock
  Empty = Empty
  NoTemp = NoTemp
  Files <- MCFiles
  Contents <- MCContents
  Hashes <- MCHashes
  HashOf <- MCHashOf
  Bytes <- FullBytes
  Threads <- TwoThreads
  MaxId = 4
  MaxUsage = 4
  MaxBlocks = 1
INVARIANTS
  ReadsBackAtRest
