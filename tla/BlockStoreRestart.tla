-------------------------- MODULE BlockStoreRestart --------------------------
(***************************************************************************)
(* The store across unmounts: last_id lives in the daemon's memory, and    *)
(* main computes it anew from the number of files in the hidden directory. *)
(***************************************************************************)
EXTENDS BlockStore

BlockFiles == {i \in Ids : block[i] # NoBlock}

\* What readdir finds in .real_storage: the block files, and the hashes file
\* once the first write has made it.
RegularFiles == Cardinality(BlockFiles) + IF hashes = <<>> THEN 0 ELSE 1

\* Mistake: the hashes file is taken for a block.
InitialIdWithHashesFile == RegularFiles

\* Mistake: one file too many is taken for the hashes file.
InitialIdOneShort == IF RegularFiles < 2 THEN 0 ELSE RegularFiles - 2

\* get_initial_id_number.
InitialId == IF RegularFiles = 0 THEN 0 ELSE RegularFiles - 1

\* The daemon ends and is started again on the same directories.
Remount ==
  /\ lastId' = InitialId
  /\ UNCHANGED <<names, ptr, hashes, block>>

NextRestart == Next \/ Remount

SpecRestart == Init /\ [][NextRestart]_vars

\* The behaviours in which no file is removed.
NextNoUnlink ==
  \/ \E f \in Files :
       \/ Mknod(f)
       \/ Truncate(f)
       \/ \E k \in 0..MaxBlocks, c \in Contents : Write(f, k, c)
       \/ \E g \in Files : Rename(f, g)
  \/ Remount

SpecNoUnlink == Init /\ [][NextNoUnlink]_vars

-----------------------------------------------------------------------------

\* As long as no block was ever deleted, a remount forgets nothing: main finds
\* the last id by counting files, and to the programs it is a step that changes
\* nothing (README.md:24 calls the system non-volatile).
NonVolatile == FS!Spec

\* main computes the number of blocks ever made, which is the position of the
\* last line and the highest id in use.
InitialIdIsLastId == InitialId = Len(hashes)

=============================================================================
