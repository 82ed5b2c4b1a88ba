----------------------- MODULE BlockStoreRestartProofs -----------------------
(***************************************************************************)
(* Proofs about BlockStoreRestart: as long as no block was ever deleted,   *)
(* counting the files of the hidden directory gives the last id back.      *)
(***************************************************************************)
EXTENDS BlockStoreRestart, BlockStoreProofs

\* No line was ever taken out of use.  This is what deletions break, and what
\* makes the number of block files the number of lines.
AllLinesInUse == \A p \in 1..lastId : hashes[p].usage # 0

\* The inductive invariant of the behaviours without deletions.
RestartInv == Inv /\ AllLinesInUse

-----------------------------------------------------------------------------

\* When every line is in use the block files are 001 to last_id.
LEMMA BlockFilesAreIds ==
  ASSUME RestartInv
  PROVE  /\ BlockFiles = 1..lastId
         /\ Cardinality(BlockFiles) = lastId
<1>1. lastId \in Nat /\ 1..lastId \subseteq Ids
  BY LineOfAnId DEF RestartInv, Inv, TypeOK
<1>2. \A i \in Ids : block[i] # NoBlock <=> i <= lastId /\ hashes[i].usage # 0
  BY DEF RestartInv, Inv, BlocksMatchLines
<1>3. BlockFiles = 1..lastId
  BY <1>1, <1>2 DEF BlockFiles, RestartInv, AllLinesInUse, Ids
<1>4. Cardinality(1..lastId) = lastId
  BY <1>1, FS_Interval
<1> QED
  BY <1>3, <1>4

\* get_initial_id_number then finds the id that the daemon had.
LEMMA InitialIdFindsLastId == ASSUME RestartInv PROVE InitialId = lastId
<1>1. lastId \in Nat /\ Len(hashes) = lastId /\ Cardinality(BlockFiles) = lastId
  BY BlockFilesAreIds DEF RestartInv, Inv, TypeOK, LinesAtTheirIds
<1>2. CASE lastId = 0
  <2>1. hashes = <<>>
    BY <1>1, <1>2 DEF RestartInv, Inv, TypeOK
  <2> QED
    BY <1>1, <1>2, <2>1 DEF InitialId, RegularFiles
<1>3. CASE lastId # 0
  <2>1. hashes # <<>>
    BY <1>1, <1>3
  <2> QED
    BY <1>1, <1>3, <2>1 DEF InitialId, RegularFiles
<1> QED
  BY <1>2, <1>3

\* So a remount is a step in which nothing changes.
LEMMA RemountChangesNothing == ASSUME RestartInv, Remount PROVE UNCHANGED vars
BY InitialIdFindsLastId DEF Remount, vars

\* A step without a deletion is a step of the store or changes nothing.
LEMMA NoUnlinkIsNext == RestartInv /\ [NextNoUnlink]_vars => [Next]_vars
BY RemountChangesNothing DEF NextNoUnlink, Next

\* Such a step leaves every line in use: writes add users, and no other handler
\* that is left touches a counter.
LEMMA LinesStayInUse == RestartInv /\ [NextNoUnlink]_vars => AllLinesInUse'
<1> SUFFICES ASSUME RestartInv, [NextNoUnlink]_vars PROVE AllLinesInUse'
  OBVIOUS
<1> USE DEF RestartInv, AllLinesInUse
<1>1. ASSUME NEW f \in Files, Mknod(f) \/ Truncate(f) \/ \E g \in Files : Rename(f, g)
      PROVE  AllLinesInUse'
  BY <1>1 DEF Mknod, Truncate, Rename
<1>2. ASSUME NEW f \in Files, NEW k \in 0..MaxBlocks, NEW c \in Contents, WriteNew(f, k, c)
      PROVE  AllLinesInUse'
  <2>1. /\ lastId' = lastId + 1 /\ lastId \in Nat
        /\ \A p \in 1..lastId : hashes'[p] = hashes[p]
        /\ hashes'[lastId + 1] = Line(lastId + 1, 1, HashOf[c])
    BY <1>2, WriteNewEffect DEF Inv, TypeOK
  <2>2. hashes'[lastId + 1].usage # 0
    BY <2>1 DEF Line
  <2>3. \A p \in 1..lastId' : p \in 1..lastId \/ p = lastId + 1
    BY <2>1
  <2> QED
    BY <2>1, <2>2, <2>3
<1>3. ASSUME NEW f \in Files, NEW k \in 0..MaxBlocks, NEW c \in Contents, WriteShared(f, k, c)
      PROVE  AllLinesInUse'
  <2>1. PICK id \in 1..lastId :
          /\ hashes'[id] = Line(id, hashes[id].usage + 1, HashOf[c])
          /\ \A p \in (1..lastId) \ {id} : hashes'[p] = hashes[p]
          /\ lastId' = lastId
    BY <1>3, WriteSharedEffect
  <2>2. hashes'[id].usage = hashes[id].usage + 1 /\ hashes[id].usage \in Nat
    BY <2>1, LineOfAnId DEF Line, Inv
  <2>3. hashes'[id].usage # 0
    BY <2>2
  <2> QED
    BY <2>1, <2>3
<1>4. CASE Remount \/ UNCHANGED vars
  BY <1>4, RemountChangesNothing DEF vars
<1> QED
  BY <1>1, <1>2, <1>3, <1>4 DEF NextNoUnlink, Write

\* The invariant holds while no file is removed.
LEMMA RestartInvariance == SpecNoUnlink => []RestartInv
<1>1. Init => RestartInv
  BY InitInv DEF Init, RestartInv, AllLinesInUse
<1>2. RestartInv /\ [NextNoUnlink]_vars => RestartInv'
  BY NextInv, NoUnlinkIsNext, LinesStayInUse DEF RestartInv
<1> QED
  BY <1>1, <1>2, PTL DEF SpecNoUnlink

-----------------------------------------------------------------------------
(* The results.                                                            *)

\* While nothing is deleted main computes the number of blocks ever made, which
\* is the position of the last line and the highest id in use.
THEOREM InitialIdCountsBlocks == SpecNoUnlink => []InitialIdIsLastId
<1>1. RestartInv => InitialIdIsLastId
  BY InitialIdFindsLastId DEF InitialIdIsLastId, RestartInv, Inv, LinesAtTheirIds
<1> QED
  BY <1>1, RestartInvariance, PTL

\* While nothing is deleted the store is non-volatile: unmounting and mounting it
\* any number of times, between any handlers, changes nothing that a program sees.
THEOREM RestartsAreInvisible == SpecNoUnlink => NonVolatile
<1>1. RestartInv /\ [NextNoUnlink]_vars => [FS!Next]_(FS!vars)
  BY NoUnlinkIsNext, StepImplements DEF RestartInv
<1> QED
  BY <1>1, InitImplements, RestartInvariance, PTL DEF SpecNoUnlink, NonVolatile, FS!Spec

=============================================================================
