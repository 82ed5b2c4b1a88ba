-------------------------- MODULE MCBlockStoreSteps --------------------------
(* Instances of BlockStoreSteps for TLC.                                   *)
EXTENDS BlockStoreSteps

CONSTANTS f1, f2, c1, c2, h1, h2, t1, t2

MCFiles == {f1, f2}
MCContents == {c1, c2}
MCHashes == {h1, h2}
MCHashOf == [c \in MCContents |-> IF c = c1 THEN h1 ELSE h2]
OneThread == {t1}
TwoThreads == {t1, t2}

\* Blocks of text, and one of text with one that starts with a NUL.
FullBytes == [c \in MCContents |-> BlockSize]
SomeBytes == [c \in MCContents |-> IF c = c1 THEN BlockSize ELSE 0]

=============================================================================
