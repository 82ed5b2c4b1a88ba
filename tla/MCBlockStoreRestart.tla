------------------------ MODULE MCBlockStoreRestart ------------------------
(* Instances of BlockStoreRestart for TLC.                                 *)
EXTENDS BlockStoreRestart

CONSTANTS f1, f2, c1, c2, c3, h1, h2, h3

MCFiles == {f1, f2}
MCContents == {c1, c2, c3}
MCHashes == {h1, h2, h3}
MCHashOf == [c \in MCContents |-> IF c = c1 THEN h1 ELSE IF c = c2 THEN h2 ELSE h3]

=============================================================================
