\* One thread; the daemon may end at any system call and is started again.
SPECIFICATION SpecCrash
CONSTANTS
  f1 = f1
  f2 = f2
  c1 = c1
  c2 = c2
  h1 = h1
  h2 = h2
  t1 = t1
  t2 = t2
  NoBlock = NoBlock
  Empty = Empty
  NoTemp = NoTemp
  Files <- MCFiles
  Contents <- MCContents
  Hashes <- MCHashes
  HashOf <- MCHashOf
  Bytes <- FullBytes
  Threads <- OneThread
  MaxId = 3
  MaxUsage = 3
  MaxBlocks = 1
INVARIANTS
  ReadsBackAtRest
