-------------------------- MODULE MCBlockStoreLinks --------------------------
(* Instances of BlockStoreLinks for TLC.                                   *)
EXTENDS BlockStoreLinks

CONSTANTS f1, f2, n1, n2, n3, c1, c2, h1, h2

MCFiles == {f1, f2}
MCNames == {n1, n2, n3}
MCContents == {c1, c2}
MCHashes == {h1, h2}
MCHashOf == [c \in MCContents |-> IF c = c1 THEN h1 ELSE h2]

=============================================================================
