\* Two files below three names, any of which may be a hard or symbolic link.
SPECIFICATION SpecLinks
CONSTANTS
  f1 = f1
  f2 = f2
  n1 = n1
  n2 = n2
  n3 = n3
  c1 = c1
  c2 = c2
  h1 = h1
  h2 = h2
  NoBlock = NoBlock
  Absent = Absent
  Files <- MCFiles
  Names <- MCNames
  Contents <- MCContents
  Hashes <- MCHashes
  HashOf <- MCHashOf
  MaxId = 4
  MaxUsage = 4
  MaxBlocks = 2
PROPERTIES
  RemovalKeepsOtherNames
