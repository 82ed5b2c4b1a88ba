---------------------------- MODULE MCBlockStore ----------------------------
(* Instances of BlockStore for TLC.                                        *)
EXTENDS BlockStore

CONSTANTS f1, f2, c1, c2, h1, h2

MCFiles == {f1, f2}
MCContents == {c1, c2}
MCHashes == {h1, h2}
MCHashOf == [c \in MCContents |-> IF c = c1 THEN h1 ELSE h2]

=============================================================================
