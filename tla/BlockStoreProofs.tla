-------------------------- MODULE BlockStoreProofs --------------------------
(***************************************************************************)
(* Proofs about BlockStore, for every number of files, contents, ids and   *)
(* blocks that its assumptions allow.                                      *)
(***************************************************************************)
EXTENDS BlockStoreLemmas

\* The inductive invariant.  No part is inductive alone: that delete_blocks frees
\* only what no other file needs takes UsageCoversRefs, which takes counters that
\* are found at their ids, which takes an id for each line and a line for each id.
Inv ==
  /\ TypeOK
  /\ LinesAtTheirIds
  /\ PointersResolve
  /\ BlocksMatchLines
  /\ LiveHashesDistinct
  /\ UsageCoversRefs

-----------------------------------------------------------------------------
(* What each handler finds and leaves behind.                              *)

\* The pointers to a block form a finite set, the one BlockStoreLemmas counts.
LEMMA RefsAreCounted ==
  ASSUME TypeOK, NEW i
  PROVE  /\ ptr \in PtrTables
         /\ Refs(i) = RefsOf(ptr, i)
         /\ Cardinality(Refs(i)) \in Nat
<1>1. Refs(i) = RefsOf(ptr, i)
  BY DEF Refs, RefsOf
<1> QED
  BY <1>1, RefsOfFinite DEF TypeOK, PtrTables

\* The line at position p of the hashes file is a line, that of id p.
LEMMA LineOfAnId ==
  ASSUME TypeOK, LinesAtTheirIds, NEW p \in 1..lastId
  PROVE  /\ hashes[p] \in Lines
         /\ hashes[p].id = p
         /\ hashes[p].usage \in 0..MaxUsage
         /\ hashes[p].hash \in Hashes
         /\ p \in Ids
<1>1. hashes[p] \in Lines
  BY ElementOfSeq DEF TypeOK, LinesAtTheirIds
<1> QED
  BY <1>1 DEF Lines, LinesAtTheirIds, TypeOK, Ids

\* bb_write with id: the other files keep their pointers, f's pointer at k is id.
LEMMA PointersAfterWrite ==
  ASSUME TypeOK, NEW f \in Files, NEW k, NEW id \in Ids, SetPointer(f, k, id)
  PROVE  /\ f \in names /\ names' = names
         /\ k \in 0..Len(ptr[f]) /\ k < MaxBlocks
         /\ ptr' = PutAt(ptr, f, k, id)
         /\ ptr' \in PtrTables
         /\ \A g \in Files \ {f} : ptr'[g] = ptr[g]
         /\ Len(ptr'[f]) = IF k < Len(ptr[f]) THEN Len(ptr[f]) ELSE k + 1
         /\ \A n \in 1..Len(ptr'[f]) :
              ptr'[f][n] = IF n = k + 1 THEN id ELSE ptr[f][n]
<1> DEFINE x == ptr[f]
           y == PutPointer(x, k, id)
<1>1. x \in Seq(Ids) /\ Len(x) \in Nat /\ Len(x) <= MaxBlocks
  BY DEF TypeOK
<1>2. f \in names /\ names' = names /\ k \in 0..Len(x) /\ k < MaxBlocks
  BY DEF SetPointer
<1>3. SlotOf(k) = k
  <2>1. k \in 0..150
    BY <1>1, <1>2, Widths
  <2> QED
    BY <2>1, SlotIsIndex
<1>4. ptr' = [ptr EXCEPT ![f] = y]
  BY <1>3 DEF SetPointer
<1>5. /\ y \in Seq(Ids)
      /\ Len(y) = IF k < Len(x) THEN Len(x) ELSE k + 1
      /\ \A n \in 1..Len(y) : y[n] = IF n = k + 1 THEN id ELSE x[n]
  <2> HIDE DEF x
  <2> QED
    BY <1>1, <1>2, PutPointerResult
<1>6. ptr'[f] = y /\ \A g \in Files \ {f} : ptr'[g] = ptr[g]
  BY <1>4 DEF TypeOK
<1>7. Len(y) <= MaxBlocks
  BY <1>1, <1>2, <1>5, Widths
<1>8. ptr' \in PtrTables
  <2> HIDE DEF y
  <2>1. ptr' \in [Files -> Seq(Ids)]
    BY <1>4, <1>5 DEF TypeOK
  <2> QED
    BY <1>6, <1>7, <2>1 DEF PtrTables, TypeOK
<1> QED
  BY <1>2, <1>4, <1>5, <1>6, <1>8 DEF PutAt

\* generate_block with a hash that no line in use has.
LEMMA WriteNewEffect ==
  ASSUME Inv, NEW f \in Files, NEW k, NEW c \in Contents, WriteNew(f, k, c)
  PROVE  /\ lastId + 1 \in Ids /\ lastId' = lastId + 1
         /\ \A p \in 1..lastId :
              hashes[p].usage # 0 => hashes[p].hash # HashOf[c]
         /\ hashes' \in Seq(Lines) /\ Len(hashes') = lastId + 1
         /\ \A p \in 1..lastId : hashes'[p] = hashes[p]
         /\ hashes'[lastId + 1] = Line(lastId + 1, 1, HashOf[c])
         /\ block' \in [Ids -> Contents \cup {NoBlock}]
         /\ block'[lastId + 1] = c
         /\ \A i \in Ids \ {lastId + 1} : block'[i] = block[i]
         /\ block[lastId + 1] = NoBlock
         /\ SetPointer(f, k, lastId + 1)
<1> USE DEF Inv
<1> DEFINE h == HashOf[c]
           new == Line(lastId + 1, 1, h)
<1>1. lastId \in Nat /\ lastId + 1 \in Ids /\ lastId' = lastId + 1 /\ Len(hashes) = lastId
  <2>1. lastId < MaxId /\ lastId' = lastId + 1
    BY DEF WriteNew
  <2>2. lastId \in 0..MaxId /\ Len(hashes) = lastId
    BY DEF TypeOK, LinesAtTheirIds
  <2> QED
    BY <2>1, <2>2, Widths DEF Ids
<1>2. DOMAIN hashes = 1..lastId /\ DOMAIN hashes \in SUBSET Nat
  BY <1>1 DEF TypeOK
<1>3. MatchingLines(hashes, h) = {}
  <2>1. ASSUME NEW p \in MatchingLines(hashes, h), CompareHashes(hashes, lastId, h) = hashes[p].id
        PROVE  FALSE
    <3>1. p \in 1..lastId /\ hashes[p].id = p
      BY <1>2 DEF MatchingLines, LinesAtTheirIds
    <3> QED
      BY <1>1, <2>1, <3>1 DEF WriteNew
  <2> QED
    BY <1>2, <2>1, CompareHashesResult
<1>4. \A p \in 1..lastId : hashes[p].usage # 0 => hashes[p].hash # h
  BY <1>2, <1>3 DEF MatchingLines
<1>5. new \in Lines
  BY <1>1, HashInjective, Widths DEF Line, Lines, Ids
<1>6. hashes' = Append(hashes, new)
  BY DEF WriteNew, AppendLine
<1>7. /\ hashes' \in Seq(Lines) /\ Len(hashes') = lastId + 1
      /\ \A p \in 1..lastId : hashes'[p] = hashes[p]
      /\ hashes'[lastId + 1] = new
  <2> HIDE DEF new
  <2> QED
    BY <1>1, <1>5, <1>6, AppendProperties DEF TypeOK
<1>8. block' = [block EXCEPT ![lastId + 1] = c] /\ SetPointer(f, k, lastId + 1)
  BY DEF WriteNew
<1>9. /\ block' \in [Ids -> Contents \cup {NoBlock}]
      /\ block'[lastId + 1] = c
      /\ \A i \in Ids \ {lastId + 1} : block'[i] = block[i]
  BY <1>1, <1>8 DEF TypeOK
<1>10. block[lastId + 1] = NoBlock
  BY <1>1 DEF BlocksMatchLines
<1> QED
  BY <1>1, <1>4, <1>7, <1>8, <1>9, <1>10

\* generate_block with a hash that a line in use has: its block holds the data.
LEMMA WriteSharedEffect ==
  ASSUME Inv, NEW f \in Files, NEW k, NEW c \in Contents, WriteShared(f, k, c)
  PROVE  \E id \in 1..lastId :
           /\ hashes[id].usage \in 1..(MaxUsage - 1)
           /\ hashes[id].hash = HashOf[c]
           /\ block[id] = c
           /\ hashes' \in Seq(Lines) /\ Len(hashes') = lastId
           /\ hashes'[id] = Line(id, hashes[id].usage + 1, HashOf[c])
           /\ \A p \in (1..lastId) \ {id} : hashes'[p] = hashes[p]
           /\ block' = block /\ lastId' = lastId
           /\ SetPointer(f, k, id)
<1> USE DEF Inv
<1> DEFINE h == HashOf[c]
           found == CompareHashes(hashes, lastId, h)
<1>1. lastId \in Nat /\ Len(hashes) = lastId
  BY DEF TypeOK, LinesAtTheirIds
<1>2. DOMAIN hashes = 1..lastId /\ DOMAIN hashes \in SUBSET Nat
  BY <1>1 DEF TypeOK
<1>3. /\ found <= lastId /\ hashes[found].usage < MaxUsage
      /\ hashes' = CountOneMore(hashes, found, h)
      /\ SetPointer(f, k, found) /\ block' = block /\ lastId' = lastId
  BY DEF WriteShared
<1>4. PICK id \in MatchingLines(hashes, h) : found = hashes[id].id
  BY <1>1, <1>2, <1>3, CompareHashesResult
<1>5. id \in 1..lastId /\ hashes[id].hash = h /\ hashes[id].usage # 0 /\ found = id
  BY <1>2, <1>4 DEF MatchingLines, LinesAtTheirIds
<1>6. hashes[id].usage \in 1..(MaxUsage - 1) /\ id \in Ids
  BY <1>3, <1>5, LineOfAnId, Widths
<1>7. block[id] = c
  <2>1. block[id] # NoBlock /\ HashOf[block[id]] = h
    BY <1>1, <1>5, <1>6 DEF BlocksMatchLines
  <2>2. block[id] \in Contents
    BY <1>6, <2>1 DEF TypeOK
  <2> QED
    BY <2>1, <2>2, HashInjective
<1> DEFINE more == Line(id, hashes[id].usage + 1, h)
<1>8. more \in Lines
  BY <1>6, HashInjective, Widths DEF Line, Lines
<1>9. hashes' = [hashes EXCEPT ![id] = more]
  BY <1>3, <1>5 DEF CountOneMore
<1>10. /\ hashes' \in Seq(Lines) /\ Len(hashes') = lastId
       /\ hashes'[id] = more
       /\ \A p \in (1..lastId) \ {id} : hashes'[p] = hashes[p]
  <2> HIDE DEF more
  <2> QED
    BY <1>1, <1>5, <1>8, <1>9, ExceptSeq DEF TypeOK
<1> QED
  BY <1>3, <1>5, <1>6, <1>7, <1>10

\* delete_blocks and unlink(2): the blocks it unlinks are those whose counter it
\* takes to 0, and no pointer of another file leads to one of them.
LEMMA UnlinkEffect ==
  ASSUME Inv, NEW f \in Files, Unlink(f)
  PROVE  /\ f \in names /\ names' = names \ {f} /\ lastId' = lastId
         /\ ptr' = Emptied(ptr, f) /\ ptr' \in PtrTables
         /\ ptr'[f] = <<>> /\ \A g \in Files \ {f} : ptr'[g] = ptr[g]
         /\ hashes' \in Seq(Lines) /\ Len(hashes') = lastId
         /\ \A p \in 1..lastId :
              /\ Occurrences(ptr[f], p) \in Nat
              /\ hashes'[p] = Line(p, Released(hashes[p].usage, Occurrences(ptr[f], p)),
                                   hashes[p].hash)
         /\ \A i \in Ids : block'[i] =
              IF i <= lastId /\ hashes[i].usage # 0
                   /\ hashes[i].usage <= Occurrences(ptr[f], i)
                THEN NoBlock ELSE block[i]
         /\ block' \in [Ids -> Contents \cup {NoBlock}]
         /\ \A g \in Files \ {f} : \A n \in 1..Len(ptr[g]) :
              block'[ptr[g][n]] = block[ptr[g][n]]
<1> USE DEF Inv
<1> DEFINE x == ptr[f]
           occ(p) == Occurrences(x, p)
<1>1. lastId \in Nat /\ Len(hashes) = lastId /\ DOMAIN hashes = 1..lastId /\ x \in Seq(Ids)
  BY DEF TypeOK, LinesAtTheirIds
<1>2. /\ f \in names /\ names' = names \ {f} /\ lastId' = lastId
      /\ ptr' = Emptied(ptr, f)
      /\ hashes' = ReleaseLines(hashes, x)
      /\ block' = [i \in Ids |-> IF i \in FreedIds(hashes, x) THEN NoBlock ELSE block[i]]
  BY DEF Unlink, Emptied
<1>3. /\ ptr'[f] = <<>>
      /\ \A g \in Files \ {f} : ptr'[g] = ptr[g]
      /\ ptr' \in [Files -> Seq(Ids)]
  BY <1>2 DEF TypeOK, Emptied
<1>4. ptr' \in PtrTables
  <2>1. ptr \in [Files -> Seq(Ids)] /\ \A g \in Files : Len(ptr[g]) <= MaxBlocks
    BY DEF TypeOK
  <2>2. Len(<<>>) <= MaxBlocks
    BY Widths
  <2> QED
    BY <1>3, <2>1, <2>2 DEF PtrTables
<1>5. ASSUME NEW p \in 1..lastId
      PROVE  /\ occ(p) \in Nat
             /\ Line(p, Released(hashes[p].usage, occ(p)), hashes[p].hash) \in Lines
  <2>1. occ(p) \in Nat
    BY <1>1, OccurrencesResult
  <2>2. Released(hashes[p].usage, occ(p)) \in 0..MaxUsage
    BY <2>1, LineOfAnId, Widths DEF Released
  <2> QED
    BY <2>1, <2>2, LineOfAnId DEF Line, Lines
<1>6. /\ DOMAIN hashes' = 1..lastId
      /\ \A p \in 1..lastId :
           hashes'[p] = Line(p, Released(hashes[p].usage, occ(p)), hashes[p].hash)
  <2>1. ASSUME NEW p \in 1..lastId
        PROVE  /\ hashes[p] = Line(p, hashes[p].usage, hashes[p].hash)
               /\ hashes[p].usage \in Nat
    BY LineOfAnId, Widths DEF Line, Lines
  <2> HIDE DEF x
  <2> QED
    BY <1>1, <1>2, <2>1, ReleaseLinesResult
<1>7. hashes' \in Seq(Lines) /\ Len(hashes') = lastId
  <2>1. hashes' = [p \in 1..lastId |-> hashes'[p]]
    BY <1>2, <1>6 DEF ReleaseLines
  <2>2. hashes' \in [1..lastId -> Lines]
    BY <1>5, <1>6, <2>1
  <2> QED
    BY <1>1, <2>2
<1>8. \A i \in Ids : i \in FreedIds(hashes, x) <=>
        i <= lastId /\ hashes[i].usage # 0 /\ hashes[i].usage <= occ(i)
  BY <1>1 DEF FreedIds, Ids
<1>9. \A i \in Ids : block'[i] =
        IF i <= lastId /\ hashes[i].usage # 0 /\ hashes[i].usage <= occ(i)
          THEN NoBlock ELSE block[i]
  BY <1>2, <1>8
<1>10. block' \in [Ids -> Contents \cup {NoBlock}]
  BY <1>2 DEF TypeOK
<1>11. ASSUME NEW g \in Files \ {f}, NEW n \in 1..Len(ptr[g])
       PROVE  block'[ptr[g][n]] = block[ptr[g][n]]
  <2> DEFINE i == ptr[g][n]
  <2>1. i \in 1..lastId /\ i \in Ids
    BY LineOfAnId DEF PointersResolve
  <2>2. Cardinality(RefsOf(ptr', i)) >= 1
    BY <1>3, <1>4, RefIsCounted
  <2>3. Cardinality(RefsOf(ptr, i)) <= hashes[i].usage
    BY <2>1, RefsAreCounted DEF UsageCoversRefs
  <2>4. Cardinality(RefsOf(ptr', i)) = Cardinality(RefsOf(ptr, i)) - occ(i)
    <3>1. ptr \in PtrTables
      BY RefsAreCounted
    <3> QED
      BY <1>2, <3>1, RefsOfEmptied
  <2>5. hashes[i].usage \in Nat /\ occ(i) \in Nat /\ Cardinality(RefsOf(ptr, i)) \in Nat
    BY <1>5, <2>1, LineOfAnId, RefsOfFinite
  <2>6. hashes[i].usage > occ(i)
    <3> HIDE DEF i, occ
    <3> QED
      BY <2>2, <2>3, <2>4, <2>5
  <2> HIDE DEF i, occ
  <2>7. block'[i] = block[i]
    BY <1>9, <2>1, <2>5, <2>6
  <2> QED
    BY <2>7 DEF i
<1> QED
  BY <1>2, <1>3, <1>4, <1>5, <1>6, <1>7, <1>9, <1>10, <1>11

-----------------------------------------------------------------------------
(* Each handler preserves the invariant.                                   *)

\* The table of pointers keeps its type over a step, given its parts.
LEMMA TypeOfNextState ==
  ASSUME names' \in SUBSET Files, ptr' \in PtrTables, hashes' \in Seq(Lines),
         block' \in [Ids -> Contents \cup {NoBlock}], lastId' \in 0..MaxId,
         \A f \in Files \ names' : ptr'[f] = <<>>
  PROVE  TypeOK'
BY DEF TypeOK, PtrTables

\* Before the first request the invariant holds: nothing is stored.
LEMMA InitInv == Init => Inv
<1> SUFFICES ASSUME Init PROVE Inv
  OBVIOUS
<1> USE DEF Init
<1>1. Len(<<>>) = 0 /\ <<>> \in Seq(Ids) /\ <<>> \in Seq(Lines) /\ DOMAIN <<>> = {}
  OBVIOUS
<1>2. TypeOK
  BY <1>1, Widths DEF TypeOK
<1>3. LinesAtTheirIds /\ UsageCoversRefs
  BY <1>1 DEF LinesAtTheirIds, UsageCoversRefs
<1>4. PointersResolve
  BY <1>1 DEF PointersResolve
<1>5. BlocksMatchLines
  BY DEF BlocksMatchLines, Ids
<1>6. LiveHashesDistinct
  BY <1>1 DEF LiveHashesDistinct
<1> QED
  BY <1>2, <1>3, <1>4, <1>5, <1>6 DEF Inv

\* Steps that leave the hidden directory alone and add no pointer: bb_mknod,
\* bb_truncate and bb_rename.
LEMMA PointersOnlyInv ==
  ASSUME Inv, UNCHANGED <<hashes, block, lastId>>,
         names' \in SUBSET Files, ptr' \in PtrTables,
         \A f \in Files \ names' : ptr'[f] = <<>>,
         \A f \in Files : ptr'[f] = <<>> \/ \E g \in Files : ptr'[f] = ptr[g],
         \A i : Cardinality(RefsOf(ptr', i)) <= Cardinality(RefsOf(ptr, i))
  PROVE  Inv'
<1> USE DEF Inv
<1>1. TypeOK'
  BY TypeOfNextState DEF TypeOK
<1>2. LinesAtTheirIds'
  BY DEF LinesAtTheirIds
<1>3. PointersResolve'
  <2>1. ASSUME NEW f \in Files, NEW k \in 1..Len(ptr'[f])
        PROVE  ptr'[f][k] \in 1..lastId' /\ block'[ptr'[f][k]] # NoBlock
    <3>1. 1..Len(<<>>) = {}
      OBVIOUS
    <3>2. PICK g \in Files : ptr'[f] = ptr[g]
      BY <3>1
    <3> QED
      BY <3>2 DEF PointersResolve
  <2> QED
    BY <2>1 DEF PointersResolve
<1>4. BlocksMatchLines'
  BY DEF BlocksMatchLines
<1>5. LiveHashesDistinct'
  BY DEF LiveHashesDistinct
<1>6. UsageCoversRefs'
  <2>1. ASSUME NEW i \in 1..lastId
        PROVE  Cardinality(Refs(i)') <= hashes[i].usage
    <3>1. Refs(i)' = RefsOf(ptr', i)
      BY DEF Refs, RefsOf
    <3>2. Cardinality(RefsOf(ptr, i)) <= hashes[i].usage
      BY RefsAreCounted DEF UsageCoversRefs
    <3>3. /\ Cardinality(RefsOf(ptr', i)) \in Nat /\ Cardinality(RefsOf(ptr, i)) \in Nat
          /\ hashes[i].usage \in Nat
      BY RefsOfFinite, LineOfAnId
    <3> QED
      BY <3>1, <3>2, <3>3
  <2> QED
    BY <2>1 DEF UsageCoversRefs
<1> QED
  BY <1>1, <1>2, <1>3, <1>4, <1>5, <1>6

\* bb_mknod adds a file without pointers.
LEMMA MknodInv == ASSUME Inv, NEW f \in Files, Mknod(f) PROVE Inv'
<1> USE DEF Inv
<1>1. ptr' = ptr
  BY DEF Mknod, TypeOK
<1>2. ptr \in PtrTables
  BY RefsAreCounted
<1>3. \A i : Cardinality(RefsOf(ptr, i)) <= Cardinality(RefsOf(ptr, i))
  BY RefsOfFinite
<1>4. names' = names \cup {f} /\ UNCHANGED <<hashes, block, lastId>>
  BY DEF Mknod
<1> QED
  BY <1>1, <1>2, <1>3, <1>4, PointersOnlyInv DEF TypeOK

\* bb_truncate gives pointers up and leaves the counters: they still cover the rest.
LEMMA TruncateInv == ASSUME Inv, NEW f \in Files, Truncate(f) PROVE Inv'
<1> USE DEF Inv
<1>1. ptr' = Emptied(ptr, f) /\ names' = names /\ UNCHANGED <<hashes, block, lastId>>
  BY DEF Truncate, Emptied
<1>2. ptr \in PtrTables /\ ptr' \in PtrTables
  BY <1>1, RefsAreCounted, Widths DEF PtrTables, Emptied
<1>3. \A i : Cardinality(RefsOf(ptr', i)) <= Cardinality(RefsOf(ptr, i))
  <2> TAKE i
  <2>1. Cardinality(RefsOf(ptr', i)) = Cardinality(RefsOf(ptr, i)) - Occurrences(ptr[f], i)
    <3>1. ptr' = Emptied(ptr, f) /\ ptr \in PtrTables
      BY <1>1, <1>2
    <3> QED
      BY <3>1, RefsOfEmptied
  <2>2. Occurrences(ptr[f], i) \in Nat
    BY OccurrencesResult DEF TypeOK
  <2> QED
    BY <2>1, <2>2, RefsOfFinite
<1> QED
  BY <1>1, <1>2, <1>3, PointersOnlyInv DEF TypeOK, Emptied

\* bb_rename moves pointers, and drops those of the name it replaces.
LEMMA RenameInv ==
  ASSUME Inv, NEW f \in Files, NEW g \in Files, Rename(f, g) PROVE Inv'
<1> USE DEF Inv
<1>1. /\ f # g /\ f \in names /\ names' = (names \ {f}) \cup {g}
      /\ ptr' = Moved(ptr, f, g)
      /\ UNCHANGED <<hashes, block, lastId>>
  BY DEF Rename, Moved
<1>2. ptr \in PtrTables
  BY RefsAreCounted
<1>3. ptr'[g] = ptr[f] /\ ptr'[f] = <<>> /\ \A h \in Files \ {f, g} : ptr'[h] = ptr[h]
  BY <1>1 DEF TypeOK, Moved
<1>4. ptr' \in PtrTables
  BY <1>1, <1>2, Widths DEF PtrTables, Moved
<1>5. \A i : Cardinality(RefsOf(ptr', i)) <= Cardinality(RefsOf(ptr, i))
  BY <1>1, <1>2, RefsOfRename
<1> QED
  BY <1>1, <1>3, <1>4, <1>5, PointersOnlyInv DEF TypeOK

\* A new block, its line and its pointer appear together.
LEMMA WriteNewInv ==
  ASSUME Inv, NEW f \in Files, NEW k, NEW c \in Contents, WriteNew(f, k, c)
  PROVE  Inv'
<1> USE DEF Inv
<1> DEFINE id == lastId + 1
<1>1. /\ id \in Ids /\ lastId \in Nat /\ lastId' = id
      /\ \A p \in 1..lastId : hashes[p].usage # 0 => hashes[p].hash # HashOf[c]
      /\ hashes' \in Seq(Lines) /\ Len(hashes') = id
      /\ \A p \in 1..lastId : hashes'[p] = hashes[p]
      /\ hashes'[id] = Line(id, 1, HashOf[c])
      /\ block' \in [Ids -> Contents \cup {NoBlock}]
      /\ block'[id] = c
      /\ \A i \in Ids \ {id} : block'[i] = block[i]
      /\ SetPointer(f, k, id)
  BY WriteNewEffect DEF TypeOK
<1> HIDE DEF id
<1>2. /\ f \in names /\ names' = names
      /\ k \in 0..Len(ptr[f]) /\ k < MaxBlocks
      /\ ptr' = PutAt(ptr, f, k, id)
      /\ ptr' \in PtrTables
      /\ \A g \in Files \ {f} : ptr'[g] = ptr[g]
      /\ Len(ptr'[f]) = IF k < Len(ptr[f]) THEN Len(ptr[f]) ELSE k + 1
      /\ \A n \in 1..Len(ptr'[f]) :
           ptr'[f][n] = IF n = k + 1 THEN id ELSE ptr[f][n]
  <2>1. TypeOK /\ id \in Ids /\ SetPointer(f, k, id)
    BY <1>1
  <2> QED
    BY <2>1, PointersAfterWrite
<1>3. id = lastId + 1 /\ hashes'[id].id = id /\ hashes'[id].usage = 1
      /\ hashes'[id].hash = HashOf[c]
  BY <1>1 DEF id, Line
<1>4. DOMAIN hashes' = 1..id
  BY <1>1
<1>5. TypeOK'
  <2>1. lastId' \in 0..MaxId
    BY <1>1, Widths DEF Ids
  <2>2. \A g \in Files \ names' : ptr'[g] = <<>>
    BY <1>2 DEF TypeOK
  <2> QED
    BY <1>1, <1>2, <2>1, <2>2, TypeOfNextState DEF TypeOK
<1>6. LinesAtTheirIds'
  BY <1>1, <1>3 DEF LinesAtTheirIds
<1>7. PointersResolve'
  <2>1. ASSUME NEW g \in Files, NEW n \in 1..Len(ptr'[g])
        PROVE  ptr'[g][n] \in 1..lastId' /\ block'[ptr'[g][n]] # NoBlock
    <3>1. c # NoBlock
      BY NoBlockIsNoContent
    <3>2. CASE g = f /\ n = k + 1
      <4>1. ptr'[g][n] = id
        BY <1>2, <3>2
      <4> QED
        BY <1>1, <1>3, <3>1, <4>1
    <3>3. CASE ~ (g = f /\ n = k + 1)
      <4>1. n \in 1..Len(ptr[g]) /\ ptr'[g][n] = ptr[g][n]
        <5>1. CASE g = f
          <6>1. Len(ptr[f]) \in Nat
            BY DEF TypeOK
          <6> QED
            BY <1>2, <3>3, <5>1, <6>1
        <5>2. CASE g # f
          BY <1>2, <5>2
        <5> QED
          BY <5>1, <5>2
      <4>2. ptr[g][n] \in 1..lastId /\ block[ptr[g][n]] # NoBlock
        BY <4>1 DEF PointersResolve
      <4>3. ptr[g][n] \in Ids /\ ptr[g][n] # id
        <5>1. lastId \in Nat
          BY <1>1
        <5> QED
          BY <1>3, <4>2, <5>1, LineOfAnId
      <4> QED
        BY <1>1, <1>3, <4>1, <4>2, <4>3
    <3> QED
      BY <3>2, <3>3
  <2> QED
    BY <2>1 DEF PointersResolve
<1>8. BlocksMatchLines'
  <2>1. ASSUME NEW i \in Ids
        PROVE  /\ block'[i] # NoBlock <=> i <= lastId' /\ hashes'[i].usage # 0
               /\ block'[i] # NoBlock => HashOf[block'[i]] = hashes'[i].hash
    <3>1. CASE i = id
      BY <1>1, <1>3, <3>1, NoBlockIsNoContent DEF Ids
    <3>2. CASE i # id
      <4>1. block'[i] = block[i] /\ (i <= lastId' <=> i <= lastId)
        BY <1>1, <1>3, <3>2 DEF Ids
      <4>2. i <= lastId => hashes'[i] = hashes[i]
        BY <1>1 DEF Ids
      <4>3. /\ block[i] # NoBlock <=> i <= lastId /\ hashes[i].usage # 0
            /\ block[i] # NoBlock => HashOf[block[i]] = hashes[i].hash
        BY DEF BlocksMatchLines
      <4> QED
        BY <4>1, <4>2, <4>3
    <3> QED
      BY <3>1, <3>2
  <2> QED
    BY <2>1 DEF BlocksMatchLines
<1>9. LiveHashesDistinct'
  <2>1. ASSUME NEW p \in 1..id, NEW q \in 1..id,
               hashes'[p].usage # 0, hashes'[q].usage # 0,
               hashes'[p].hash = hashes'[q].hash
        PROVE  p = q
    <3>1. CASE p # id /\ q # id
      <4>1. p \in 1..lastId /\ q \in 1..lastId
        BY <1>1, <1>3, <3>1
      <4>2. p \in DOMAIN hashes /\ q \in DOMAIN hashes
        BY <4>1 DEF TypeOK, LinesAtTheirIds
      <4> QED
        BY <1>1, <2>1, <4>1, <4>2 DEF LiveHashesDistinct
    <3>2. CASE p = id /\ q # id
      BY <1>1, <1>3, <2>1, <3>2
    <3>3. CASE p # id /\ q = id
      BY <1>1, <1>3, <2>1, <3>3
    <3> QED
      BY <3>1, <3>2, <3>3
  <2> QED
    BY <1>4, <2>1 DEF LiveHashesDistinct
<1>10. UsageCoversRefs'
  <2>1. ASSUME NEW i \in 1..id
        PROVE  Cardinality(Refs(i)') <= hashes'[i].usage
    <3>1. Refs(i)' = RefsOf(ptr', i)
      BY DEF Refs, RefsOf
    <3>2. /\ i # id => Cardinality(RefsOf(ptr', i)) <= Cardinality(RefsOf(ptr, i))
          /\ Cardinality(RefsOf(ptr', i)) <= Cardinality(RefsOf(ptr, i)) + 1
      <4>1. ptr \in PtrTables
        BY RefsAreCounted
      <4> QED
        BY <1>1, <1>2, <4>1, RefsOfWrite
    <3>3. Cardinality(RefsOf(ptr', i)) \in Nat /\ Cardinality(RefsOf(ptr, i)) \in Nat
      BY RefsOfFinite
    <3>4. CASE i = id
      <4>1. RefsOf(ptr, id) = {}
        <5>1. ASSUME NEW r \in RefsOf(ptr, id)
              PROVE  FALSE
          <6>1. r[1] \in Files /\ r[2] \in 1..Len(ptr[r[1]]) /\ ptr[r[1]][r[2]] = id
            BY DEF RefsOf
          <6> QED
            BY <1>1, <1>3, <6>1 DEF PointersResolve
        <5> QED
          BY <5>1
      <4>2. Cardinality(RefsOf(ptr, id)) = 0
        BY <4>1, FS_EmptySet
      <4> QED
        BY <1>3, <3>1, <3>2, <3>3, <3>4, <4>2
    <3>5. CASE i # id
      <4>1. i \in 1..lastId
        BY <1>1, <1>3, <3>5
      <4>2. Cardinality(RefsOf(ptr, i)) <= hashes[i].usage
        BY <4>1, RefsAreCounted DEF UsageCoversRefs
      <4>3. hashes'[i] = hashes[i] /\ hashes[i].usage \in Nat
        BY <1>1, <4>1, LineOfAnId
      <4> QED
        BY <3>1, <3>2, <3>3, <3>5, <4>2, <4>3
    <3> QED
      BY <3>4, <3>5
  <2> QED
    BY <1>1, <2>1 DEF UsageCoversRefs
<1> QED
  BY <1>5, <1>6, <1>7, <1>8, <1>9, <1>10

\* One user more and one pointer more for a block that is in use.
LEMMA WriteSharedInv ==
  ASSUME Inv, NEW f \in Files, NEW k, NEW c \in Contents, WriteShared(f, k, c)
  PROVE  Inv'
<1> USE DEF Inv
<1>1. PICK id \in 1..lastId :
        /\ hashes[id].usage \in 1..(MaxUsage - 1)
        /\ hashes[id].hash = HashOf[c]
        /\ block[id] = c
        /\ hashes' \in Seq(Lines) /\ Len(hashes') = lastId
        /\ hashes'[id] = Line(id, hashes[id].usage + 1, HashOf[c])
        /\ \A p \in (1..lastId) \ {id} : hashes'[p] = hashes[p]
        /\ block' = block /\ lastId' = lastId
        /\ SetPointer(f, k, id)
  BY WriteSharedEffect
<1>2. id \in Ids
  BY LineOfAnId
<1>3. /\ f \in names /\ names' = names
      /\ k \in 0..Len(ptr[f]) /\ k < MaxBlocks
      /\ ptr' = PutAt(ptr, f, k, id)
      /\ ptr' \in PtrTables
      /\ \A g \in Files \ {f} : ptr'[g] = ptr[g]
      /\ Len(ptr'[f]) = IF k < Len(ptr[f]) THEN Len(ptr[f]) ELSE k + 1
      /\ \A n \in 1..Len(ptr'[f]) :
           ptr'[f][n] = IF n = k + 1 THEN id ELSE ptr[f][n]
  <2>1. TypeOK /\ SetPointer(f, k, id)
    BY <1>1
  <2> QED
    BY <1>2, <2>1, PointersAfterWrite
<1>4. /\ hashes'[id].id = id /\ hashes'[id].usage = hashes[id].usage + 1
      /\ hashes'[id].usage # 0 /\ hashes'[id].hash = hashes[id].hash
  BY <1>1 DEF Line
<1>5. \A p \in 1..lastId :
        /\ hashes'[p].id = p
        /\ hashes'[p].hash = hashes[p].hash
        /\ hashes'[p].usage # 0 <=> hashes[p].usage # 0
  <2> TAKE p \in 1..lastId
  <2>1. hashes[p].id = p
    BY LineOfAnId
  <2>2. CASE p = id
    BY <1>1, <1>4, <2>1, <2>2
  <2>3. CASE p # id
    BY <1>1, <2>1, <2>3
  <2> QED
    BY <2>2, <2>3
<1>6. TypeOK'
  <2>1. lastId' \in 0..MaxId /\ block' \in [Ids -> Contents \cup {NoBlock}] /\ hashes' \in Seq(Lines)
    BY <1>1 DEF TypeOK
  <2>2. names' \in SUBSET Files /\ ptr' \in PtrTables /\ \A g \in Files \ names' : ptr'[g] = <<>>
    BY <1>3 DEF TypeOK
  <2> QED
    BY <2>1, <2>2, TypeOfNextState
<1>7. LinesAtTheirIds'
  BY <1>1, <1>5 DEF LinesAtTheirIds
<1>8. PointersResolve'
  <2>1. ASSUME NEW g \in Files, NEW n \in 1..Len(ptr'[g])
        PROVE  ptr'[g][n] \in 1..lastId /\ block[ptr'[g][n]] # NoBlock
    <3>1. CASE g = f /\ n = k + 1
      <4>1. ptr'[g][n] = id
        BY <1>3, <3>1
      <4> QED
        BY <1>1, <4>1, NoBlockIsNoContent
    <3>2. CASE ~ (g = f /\ n = k + 1)
      <4>1. n \in 1..Len(ptr[g]) /\ ptr'[g][n] = ptr[g][n]
        <5>1. CASE g = f
          <6>1. Len(ptr[f]) \in Nat
            BY DEF TypeOK
          <6> QED
            BY <1>3, <3>2, <5>1, <6>1
        <5>2. CASE g # f
          BY <1>3, <5>2
        <5> QED
          BY <5>1, <5>2
      <4> QED
        BY <4>1 DEF PointersResolve
    <3> QED
      BY <3>1, <3>2
  <2> QED
    BY <1>1, <2>1 DEF PointersResolve
<1>9. BlocksMatchLines'
  <2>1. ASSUME NEW i \in Ids
        PROVE  /\ block[i] # NoBlock <=> i <= lastId /\ hashes'[i].usage # 0
               /\ block[i] # NoBlock => HashOf[block[i]] = hashes'[i].hash
    <3>1. /\ block[i] # NoBlock <=> i <= lastId /\ hashes[i].usage # 0
          /\ block[i] # NoBlock => HashOf[block[i]] = hashes[i].hash
      BY DEF BlocksMatchLines
    <3>2. i <= lastId => i \in 1..lastId
      BY DEF Ids, TypeOK
    <3> QED
      BY <1>5, <3>1, <3>2
  <2> QED
    BY <1>1, <2>1 DEF BlocksMatchLines
<1>10. LiveHashesDistinct'
  <2>1. DOMAIN hashes' = 1..lastId /\ DOMAIN hashes = 1..lastId
    BY <1>1 DEF TypeOK, LinesAtTheirIds
  <2> QED
    BY <1>5, <2>1 DEF LiveHashesDistinct
<1>11. UsageCoversRefs'
  <2>1. ASSUME NEW i \in 1..lastId
        PROVE  Cardinality(Refs(i)') <= hashes'[i].usage
    <3>1. Refs(i)' = RefsOf(ptr', i)
      BY DEF Refs, RefsOf
    <3>2. /\ i # id => Cardinality(RefsOf(ptr', i)) <= Cardinality(RefsOf(ptr, i))
          /\ Cardinality(RefsOf(ptr', i)) <= Cardinality(RefsOf(ptr, i)) + 1
      <4>1. ptr \in PtrTables
        BY RefsAreCounted
      <4> QED
        BY <1>2, <1>3, <4>1, RefsOfWrite
    <3>3. /\ Cardinality(RefsOf(ptr', i)) \in Nat /\ Cardinality(RefsOf(ptr, i)) \in Nat
          /\ hashes[i].usage \in Nat
      BY RefsOfFinite, LineOfAnId
    <3>4. Cardinality(RefsOf(ptr, i)) <= hashes[i].usage
      BY RefsAreCounted DEF UsageCoversRefs
    <3>5. CASE i = id
      BY <1>4, <3>1, <3>2, <3>3, <3>4, <3>5
    <3>6. CASE i # id
      <4>1. hashes'[i] = hashes[i]
        BY <1>1, <3>6
      <4> QED
        BY <3>1, <3>2, <3>3, <3>4, <3>6, <4>1
    <3> QED
      BY <3>5, <3>6
  <2> QED
    BY <1>1, <2>1 DEF UsageCoversRefs
<1> QED
  BY <1>6, <1>7, <1>8, <1>9, <1>10, <1>11

\* delete_blocks takes from each counter what the removed file held of it.
LEMMA UnlinkInv == ASSUME Inv, NEW f \in Files, Unlink(f) PROVE Inv'
<1> USE DEF Inv
<1> DEFINE occ(p) == Occurrences(ptr[f], p)
<1>1. /\ f \in names /\ names' = names \ {f} /\ lastId' = lastId
      /\ ptr' = Emptied(ptr, f) /\ ptr' \in PtrTables
      /\ ptr'[f] = <<>> /\ \A g \in Files \ {f} : ptr'[g] = ptr[g]
      /\ hashes' \in Seq(Lines) /\ Len(hashes') = lastId
      /\ \A p \in 1..lastId :
           /\ occ(p) \in Nat
           /\ hashes'[p] = Line(p, Released(hashes[p].usage, occ(p)), hashes[p].hash)
      /\ \A i \in Ids : block'[i] =
           IF i <= lastId /\ hashes[i].usage # 0 /\ hashes[i].usage <= occ(i)
             THEN NoBlock ELSE block[i]
      /\ block' \in [Ids -> Contents \cup {NoBlock}]
      /\ \A g \in Files \ {f} : \A n \in 1..Len(ptr[g]) :
           block'[ptr[g][n]] = block[ptr[g][n]]
  BY UnlinkEffect
<1>2. ASSUME NEW p \in 1..lastId
      PROVE  /\ hashes'[p].id = p /\ hashes'[p].hash = hashes[p].hash
             /\ hashes'[p].usage = Released(hashes[p].usage, occ(p))
             /\ hashes[p].usage \in Nat /\ occ(p) \in Nat
             /\ hashes'[p].usage = 0 <=> hashes[p].usage <= occ(p)
  <2>1. /\ hashes[p].usage \in Nat /\ occ(p) \in Nat
        /\ hashes'[p] = Line(p, Released(hashes[p].usage, occ(p)), hashes[p].hash)
    BY <1>1, LineOfAnId
  <2> HIDE DEF occ
  <2> QED
    BY <2>1 DEF Line, Released
<1> HIDE DEF occ
<1>3. TypeOK'
  <2>1. /\ names' \in SUBSET Files /\ lastId' \in 0..MaxId
        /\ \A g \in Files \ names' : ptr'[g] = <<>>
    BY <1>1 DEF TypeOK
  <2> QED
    BY <1>1, <2>1, TypeOfNextState
<1>4. LinesAtTheirIds'
  BY <1>1, <1>2 DEF LinesAtTheirIds
<1>5. PointersResolve'
  <2>1. ASSUME NEW g \in Files, NEW n \in 1..Len(ptr'[g])
        PROVE  ptr'[g][n] \in 1..lastId' /\ block'[ptr'[g][n]] # NoBlock
    <3>1. g # f
      <4>1. 1..Len(<<>>) = {}
        OBVIOUS
      <4> QED
        BY <1>1, <4>1
    <3>2. ptr'[g] = ptr[g] /\ lastId' = lastId
      BY <1>1, <3>1
    <3>3. block'[ptr[g][n]] = block[ptr[g][n]]
      BY <1>1, <3>1, <3>2
    <3> QED
      BY <3>2, <3>3 DEF PointersResolve
  <2> QED
    BY <2>1 DEF PointersResolve
<1>6. BlocksMatchLines'
  <2>1. ASSUME NEW i \in Ids
        PROVE  /\ block'[i] # NoBlock <=> i <= lastId /\ hashes'[i].usage # 0
               /\ block'[i] # NoBlock => HashOf[block'[i]] = hashes'[i].hash
    <3>1. /\ block[i] # NoBlock <=> i <= lastId /\ hashes[i].usage # 0
          /\ block[i] # NoBlock => HashOf[block[i]] = hashes[i].hash
      BY DEF BlocksMatchLines
    <3>2. block'[i] = IF i <= lastId /\ hashes[i].usage # 0 /\ hashes[i].usage <= occ(i)
                        THEN NoBlock ELSE block[i]
      BY <1>1
    <3>3. CASE i <= lastId
      <4>1. i \in 1..lastId
        BY <3>3 DEF Ids, TypeOK
      <4>2. /\ hashes'[i].hash = hashes[i].hash
            /\ hashes[i].usage \in Nat /\ occ(i) \in Nat
            /\ hashes'[i].usage = 0 <=> hashes[i].usage <= occ(i)
        BY <1>2, <4>1
      <4> QED
        BY <3>1, <3>2, <3>3, <4>2
    <3>4. CASE ~ (i <= lastId)
      BY <3>1, <3>2, <3>4
    <3> QED
      BY <3>3, <3>4
  <2> QED
    BY <1>1, <2>1 DEF BlocksMatchLines
<1>7. LiveHashesDistinct'
  <2>1. DOMAIN hashes' = 1..lastId /\ DOMAIN hashes = 1..lastId
    BY <1>1 DEF TypeOK, LinesAtTheirIds
  <2>2. \A p \in 1..lastId : hashes'[p].usage # 0 => hashes[p].usage # 0
    BY <1>2
  <2>3. \A p \in 1..lastId : hashes'[p].hash = hashes[p].hash
    BY <1>2
  <2> QED
    BY <2>1, <2>2, <2>3 DEF LiveHashesDistinct
<1>8. UsageCoversRefs'
  <2>1. ASSUME NEW i \in 1..lastId
        PROVE  Cardinality(Refs(i)') <= hashes'[i].usage
    <3>1. Refs(i)' = RefsOf(ptr', i)
      BY DEF Refs, RefsOf
    <3>2. Cardinality(RefsOf(ptr', i)) = Cardinality(RefsOf(ptr, i)) - occ(i)
      <4>1. ptr \in PtrTables /\ ptr' = Emptied(ptr, f)
        BY <1>1, RefsAreCounted
      <4> QED
        BY <4>1, RefsOfEmptied DEF occ
    <3>3. Cardinality(RefsOf(ptr, i)) <= hashes[i].usage
      BY RefsAreCounted DEF UsageCoversRefs
    <3>4. Cardinality(RefsOf(ptr', i)) \in Nat /\ Cardinality(RefsOf(ptr, i)) \in Nat
      BY RefsOfFinite
    <3>5. /\ hashes[i].usage \in Nat /\ occ(i) \in Nat
          /\ hashes'[i].usage = IF occ(i) < hashes[i].usage THEN hashes[i].usage - occ(i) ELSE 0
      BY <1>2 DEF Released
    <3> QED
      BY <3>1, <3>2, <3>3, <3>4, <3>5
  <2> QED
    BY <1>1, <2>1 DEF UsageCoversRefs
<1> QED
  BY <1>3, <1>4, <1>5, <1>6, <1>7, <1>8

\* Every step preserves the invariant.
LEMMA NextInv == Inv /\ [Next]_vars => Inv'
<1> SUFFICES ASSUME Inv, [Next]_vars PROVE Inv'
  OBVIOUS
<1>1. ASSUME NEW f \in Files, Mknod(f) PROVE Inv'
  BY <1>1, MknodInv
<1>2. ASSUME NEW f \in Files, Truncate(f) PROVE Inv'
  BY <1>2, TruncateInv
<1>3. ASSUME NEW f \in Files, Unlink(f) PROVE Inv'
  BY <1>3, UnlinkInv
<1>4. ASSUME NEW f \in Files, NEW k \in 0..MaxBlocks, NEW c \in Contents, Write(f, k, c)
      PROVE  Inv'
  BY <1>4, WriteNewInv, WriteSharedInv DEF Write
<1>5. ASSUME NEW f \in Files, NEW g \in Files, Rename(f, g) PROVE Inv'
  BY <1>5, RenameInv
<1>6. CASE UNCHANGED vars
  BY <1>6 DEF vars, Inv, TypeOK, LinesAtTheirIds, PointersResolve, BlocksMatchLines,
              LiveHashesDistinct, UsageCoversRefs, Refs
<1> QED
  BY <1>1, <1>2, <1>3, <1>4, <1>5, <1>6 DEF Next

\* The invariant holds throughout, and each of its parts with it.
THEOREM Invariance == Spec => []Inv
<1> QED
  BY InitInv, NextInv, PTL DEF Spec

-----------------------------------------------------------------------------
(* The results.                                                            *)

\* Every pointer, id and counter fits its field, whatever the handlers do.
THEOREM TypeCorrect == Spec => []TypeOK
BY Invariance, PTL DEF Inv

\* Every pointer of every file leads to an existing block, so read_file never
\* hands strcat the NULL of a missing one.
THEOREM PointersAlwaysResolve == Spec => []PointersResolve
BY Invariance, PTL DEF Inv

\* The line of each id is at the position where write_hash and delete_blocks look
\* for it, and the next id is that of the next line.
THEOREM LinesStayAtTheirIds == Spec => []LinesAtTheirIds
BY Invariance, PTL DEF Inv

\* There is a block file per line in use and no other, with the data of its hash.
THEOREM BlocksAlwaysMatchLines == Spec => []BlocksMatchLines
BY Invariance, PTL DEF Inv

\* No data is ever stored twice.
THEOREM DataStoredOnce == Spec => []LiveHashesDistinct
BY Invariance, PTL DEF Inv

\* A counter is never below the number of pointers to its block.
THEOREM CountersCoverPointers == Spec => []UsageCoversRefs
BY Invariance, PTL DEF Inv

\* No step destroys or overwrites a block that some file refers to after it.
THEOREM ReferencedBlocksSurvive == Spec => ReferencedBlocksKept
<1> DEFINE Kept == \A i \in Ids : block[i] # NoBlock /\ Refs(i)' # {} => block'[i] = block[i]
<1>1. Inv /\ [Next]_vars => [Kept]_vars
  <2> SUFFICES ASSUME Inv, Next PROVE Kept
    OBVIOUS
  <2>1. ASSUME NEW f \in Files, Mknod(f) \/ Truncate(f) \/ \E g \in Files : Rename(f, g)
        PROVE  Kept
    <3>1. block' = block
      BY <2>1 DEF Mknod, Truncate, Rename
    <3> QED
      BY <3>1
  <2>2. ASSUME NEW f \in Files, Unlink(f)
        PROVE  Kept
    <3> SUFFICES ASSUME NEW i \in Ids, Refs(i)' # {} PROVE block'[i] = block[i]
      OBVIOUS
    <3>1. PICK r \in Files \X (1..MaxBlocks) : r[2] \in 1..Len(ptr'[r[1]]) /\ ptr'[r[1]][r[2]] = i
      BY DEF Refs
    <3>2. /\ ptr'[f] = <<>> /\ \A g \in Files \ {f} : ptr'[g] = ptr[g]
          /\ \A g \in Files \ {f} : \A n \in 1..Len(ptr[g]) :
               block'[ptr[g][n]] = block[ptr[g][n]]
      BY <2>2, UnlinkEffect
    <3>3. r[1] \in Files \ {f}
      <4>1. 1..Len(<<>>) = {}
        OBVIOUS
      <4> QED
        BY <3>1, <3>2, <4>1
    <3> QED
      BY <3>1, <3>2, <3>3
  <2>3. ASSUME NEW f \in Files, NEW k \in 0..MaxBlocks, NEW c \in Contents, Write(f, k, c)
        PROVE  Kept
    <3>1. CASE WriteNew(f, k, c)
      <4>1. block[lastId + 1] = NoBlock /\ \A i \in Ids \ {lastId + 1} : block'[i] = block[i]
        BY <3>1, WriteNewEffect
      <4> QED
        BY <4>1
    <3>2. CASE WriteShared(f, k, c)
      <4>1. block' = block
        BY <3>2 DEF WriteShared
      <4> QED
        BY <4>1
    <3> QED
      BY <2>3, <3>1, <3>2 DEF Write
  <2> QED
    BY <2>1, <2>2, <2>3 DEF Next
<1> QED
  BY <1>1, Invariance, PTL DEF Spec, ReferencedBlocksKept

-----------------------------------------------------------------------------
(* The store implements FileStore: each handler does to the blocks read    *)
(* back what the operation of its name does to the content of the files.   *)

\* What is read back from one file.
LEMMA ReadBackOfFile ==
  ASSUME TypeOK, NEW f \in Files
  PROVE  /\ ReadBack[f] = [n \in 1..Len(ptr[f]) |-> block[ptr[f][n]]]
         /\ Len(ReadBack[f]) = Len(ptr[f])
         /\ Len(ptr[f]) \in Nat
<1>1. Len(ptr[f]) \in Nat
  BY DEF TypeOK
<1>2. ReadBack[f] = [n \in 1..Len(ptr[f]) |-> block[ptr[f][n]]]
  BY DEF ReadBack
<1> QED
  BY <1>1, <1>2

\* The same for the next state.
LEMMA ReadBackNext ==
  ASSUME NEW f \in Files
  PROVE  ReadBack'[f] = [n \in 1..Len(ptr'[f]) |-> block'[ptr'[f][n]]]
BY DEF ReadBack

\* A file without pointers reads back as no data.
LEMMA ReadBackEmptied ==
  ASSUME NEW f \in Files, ptr'[f] = <<>>
  PROVE  ReadBack'[f] = <<>>
<1>1. 1..Len(ptr'[f]) = {}
  OBVIOUS
<1>2. ReadBack'[f] = [n \in 1..Len(ptr'[f]) |-> block'[ptr'[f][n]]]
  BY ReadBackNext
<1> QED
  BY <1>1, <1>2

\* Initially every file reads back as no data.
LEMMA InitImplements == Init => FS!Init
<1> SUFFICES ASSUME Init PROVE FS!Init
  OBVIOUS
<1>1. ASSUME NEW f \in Files PROVE ReadBack[f] = <<>>
  <2>1. ptr[f] = <<>> /\ 1..Len(<<>>) = {}
    BY DEF Init
  <2>2. ReadBack[f] = [n \in 1..Len(ptr[f]) |-> block[ptr[f][n]]]
    BY DEF ReadBack
  <2> QED
    BY <2>1, <2>2
<1>2. ReadBack = [f \in Files |-> <<>>]
  BY <1>1 DEF ReadBack
<1> QED
  BY <1>2 DEF Init, FS!Init

\* bb_mknod is the creation of an empty file.
LEMMA MknodImplements == ASSUME Inv, NEW f \in Files, Mknod(f) PROVE FS!Create(f)
<1>1. ptr' = ptr /\ block' = block /\ f \notin names /\ names' = names \cup {f}
  BY DEF Mknod, Inv, TypeOK
<1>2. ReadBack' = ReadBack
  BY <1>1 DEF ReadBack
<1> QED
  BY <1>1, <1>2 DEF FS!Create

\* bb_truncate takes the data of one file.
LEMMA TruncateImplements == ASSUME Inv, NEW f \in Files, Truncate(f) PROVE FS!Truncate(f)
<1>1. /\ f \in names /\ names' = names /\ block' = block
      /\ ptr'[f] = <<>> /\ \A g \in Files \ {f} : ptr'[g] = ptr[g]
  BY DEF Truncate, Inv, TypeOK
<1>2. ReadBack'[f] = <<>>
  BY <1>1, ReadBackEmptied
<1>3. \A g \in Files \ {f} : ReadBack'[g] = ReadBack[g]
  BY <1>1 DEF ReadBack
<1>4. ReadBack' = [ReadBack EXCEPT ![f] = <<>>]
  BY <1>2, <1>3 DEF ReadBack
<1> QED
  BY <1>1, <1>4 DEF FS!Truncate

\* bb_rename moves the data of one file to another name.
LEMMA RenameImplements ==
  ASSUME Inv, NEW f \in Files, NEW g \in Files, Rename(f, g) PROVE FS!Rename(f, g)
<1>1. /\ f \in names /\ f # g /\ names' = (names \ {f}) \cup {g} /\ block' = block
      /\ ptr'[f] = <<>> /\ ptr'[g] = ptr[f]
      /\ \A h \in Files \ {f, g} : ptr'[h] = ptr[h]
  BY DEF Rename, Inv, TypeOK
<1>2. ReadBack'[f] = <<>>
  BY <1>1, ReadBackEmptied
<1>3. ReadBack'[g] = ReadBack[f] /\ \A h \in Files \ {f, g} : ReadBack'[h] = ReadBack[h]
  BY <1>1 DEF ReadBack
<1>4. ReadBack' = [ReadBack EXCEPT ![g] = ReadBack[f], ![f] = <<>>]
  BY <1>1, <1>2, <1>3 DEF ReadBack
<1> QED
  BY <1>1, <1>4 DEF FS!Rename

\* bb_unlink takes the data of one file, and no other file's.
LEMMA UnlinkImplements == ASSUME Inv, NEW f \in Files, Unlink(f) PROVE FS!Remove(f)
<1>1. /\ f \in names /\ names' = names \ {f}
      /\ ptr'[f] = <<>> /\ \A g \in Files \ {f} : ptr'[g] = ptr[g]
      /\ \A g \in Files \ {f} : \A n \in 1..Len(ptr[g]) :
           block'[ptr[g][n]] = block[ptr[g][n]]
  BY UnlinkEffect
<1>2. ReadBack'[f] = <<>>
  BY <1>1, ReadBackEmptied
<1>3. ASSUME NEW g \in Files \ {f} PROVE ReadBack'[g] = ReadBack[g]
  <2>1. ReadBack'[g] = [n \in 1..Len(ptr[g]) |-> block'[ptr[g][n]]]
    BY <1>1, ReadBackNext
  <2>2. ReadBack[g] = [n \in 1..Len(ptr[g]) |-> block[ptr[g][n]]]
    BY ReadBackOfFile DEF Inv
  <2> QED
    BY <1>1, <2>1, <2>2
<1>4. ReadBack' = [ReadBack EXCEPT ![f] = <<>>]
  BY <1>2, <1>3 DEF ReadBack
<1> QED
  BY <1>1, <1>4 DEF FS!Remove

\* A write through SetPointer, when the block it points to holds c afterwards and
\* the blocks that were referred to hold what they did.
LEMMA SetPointerImplements ==
  ASSUME Inv, NEW f \in Files, NEW k, NEW c \in Contents, NEW id \in Ids,
         SetPointer(f, k, id), block'[id] = c,
         \A i \in 1..lastId : block'[i] = block[i]
  PROVE  FS!Write(f, k, c)
<1> USE DEF Inv
<1>1. /\ f \in names /\ names' = names
      /\ k \in 0..Len(ptr[f]) /\ k < MaxBlocks
      /\ \A g \in Files \ {f} : ptr'[g] = ptr[g]
      /\ Len(ptr'[f]) = IF k < Len(ptr[f]) THEN Len(ptr[f]) ELSE k + 1
      /\ \A n \in 1..Len(ptr'[f]) :
           ptr'[f][n] = IF n = k + 1 THEN id ELSE ptr[f][n]
  BY PointersAfterWrite
<1>2. ASSUME NEW g \in Files, NEW n \in 1..Len(ptr[g])
      PROVE  block'[ptr[g][n]] = block[ptr[g][n]]
  BY DEF PointersResolve
<1>3. ASSUME NEW g \in Files \ {f} PROVE ReadBack'[g] = ReadBack[g]
  <2>1. ReadBack'[g] = [n \in 1..Len(ptr[g]) |-> block'[ptr[g][n]]]
    BY <1>1, ReadBackNext
  <2>2. ReadBack[g] = [n \in 1..Len(ptr[g]) |-> block[ptr[g][n]]]
    BY ReadBackOfFile
  <2> QED
    BY <1>2, <2>1, <2>2
<1> DEFINE old == ReadBack[f]
           new == [j \in 1..(IF k < Len(old) THEN Len(old) ELSE k + 1) |->
                     IF j = k + 1 THEN c ELSE old[j]]
<1>4. /\ old = [n \in 1..Len(ptr[f]) |-> block[ptr[f][n]]]
      /\ Len(old) = Len(ptr[f]) /\ Len(ptr[f]) \in Nat
  BY ReadBackOfFile
<1>5. ReadBack'[f] = new
  <2>1. ReadBack'[f] = [n \in 1..Len(ptr'[f]) |-> block'[ptr'[f][n]]]
    BY ReadBackNext
  <2>2. Len(ptr'[f]) = IF k < Len(old) THEN Len(old) ELSE k + 1
    BY <1>1, <1>4
  <2>3. ASSUME NEW n \in 1..Len(ptr'[f])
        PROVE  block'[ptr'[f][n]] = IF n = k + 1 THEN c ELSE old[n]
    <3>1. CASE n = k + 1
      BY <1>1, <3>1
    <3>2. CASE n # k + 1
      <4>1. n \in 1..Len(ptr[f]) /\ ptr'[f][n] = ptr[f][n]
        BY <1>1, <1>4, <3>2
      <4>2. old[n] = block[ptr[f][n]]
        BY <1>4, <4>1
      <4> QED
        BY <1>2, <3>2, <4>1, <4>2
    <3> QED
      BY <3>1, <3>2
  <2> HIDE DEF old
  <2> QED
    BY <2>1, <2>2, <2>3
<1>6. ReadBack' = [ReadBack EXCEPT ![f] = new]
  <2> HIDE DEF new
  <2> QED
    BY <1>3, <1>5 DEF ReadBack
<1>7. k \in 0..Len(old)
  BY <1>1, <1>4
<1> QED
  BY <1>1, <1>6, <1>7 DEF FS!Write

\* bb_write changes the block written of the file written, and nothing else.
LEMMA WriteImplements ==
  ASSUME Inv, NEW f \in Files, NEW k, NEW c \in Contents, Write(f, k, c)
  PROVE  FS!Write(f, k, c)
<1>1. CASE WriteNew(f, k, c)
  <2>1. /\ lastId + 1 \in Ids /\ SetPointer(f, k, lastId + 1) /\ block'[lastId + 1] = c
        /\ \A i \in Ids \ {lastId + 1} : block'[i] = block[i]
    BY <1>1, WriteNewEffect
  <2>2. \A i \in 1..lastId : i \in Ids \ {lastId + 1}
    BY LineOfAnId DEF Inv, TypeOK
  <2> QED
    BY <2>1, <2>2, SetPointerImplements
<1>2. CASE WriteShared(f, k, c)
  <2>1. PICK id \in 1..lastId : block[id] = c /\ block' = block /\ SetPointer(f, k, id)
    BY <1>2, WriteSharedEffect
  <2>2. id \in Ids
    BY LineOfAnId DEF Inv
  <2> QED
    BY <2>1, <2>2, SetPointerImplements
<1> QED
  BY <1>1, <1>2 DEF Write

\* Every handler does what the operation of its name promises.
LEMMA StepImplements == Inv /\ [Next]_vars => [FS!Next]_(FS!vars)
<1> SUFFICES ASSUME Inv, [Next]_vars PROVE [FS!Next]_(FS!vars)
  OBVIOUS
<1>1. ASSUME NEW f \in Files, Mknod(f) PROVE FS!Next
  BY <1>1, MknodImplements DEF FS!Next
<1>2. ASSUME NEW f \in Files, Truncate(f) PROVE FS!Next
  BY <1>2, TruncateImplements DEF FS!Next
<1>3. ASSUME NEW f \in Files, Unlink(f) PROVE FS!Next
  BY <1>3, UnlinkImplements DEF FS!Next
<1>4. ASSUME NEW f \in Files, NEW k \in 0..MaxBlocks, NEW c \in Contents, Write(f, k, c)
      PROVE  FS!Next
  BY <1>4, WriteImplements DEF FS!Next
<1>5. ASSUME NEW f \in Files, NEW g \in Files, Rename(f, g) PROVE FS!Next
  BY <1>5, RenameImplements DEF FS!Next
<1>6. CASE UNCHANGED vars
  BY <1>6 DEF vars, FS!vars, ReadBack
<1> QED
  BY <1>1, <1>2, <1>3, <1>4, <1>5, <1>6 DEF Next

\* Every behaviour of the store is one of the file system: each file reads back
\* as the data last written to it, whatever is shared, freed or written elsewhere.
THEOREM Refinement == Spec => Implements
<1> QED
  BY InitImplements, StepImplements, Invariance, PTL DEF Spec, Implements, FS!Spec

-----------------------------------------------------------------------------
(* While bb_unlink is all that gives pointers up, nothing leaks.           *)

\* Creating, appending, moving and removing files are steps of the store.
LEMMA UnlinkOnlyIsNext == Inv /\ [NextUnlinkOnly]_vars => [Next]_vars
<1> SUFFICES ASSUME Inv, NextUnlinkOnly PROVE Next
  OBVIOUS
<1>1. PICK f \in Files :
        \/ Mknod(f)
        \/ Unlink(f)
        \/ \E c \in Contents : Write(f, Len(ptr[f]), c)
        \/ \E g \in Files \ names : Rename(f, g)
  BY DEF NextUnlinkOnly
<1>2. Len(ptr[f]) \in 0..MaxBlocks
  <2>1. Len(ptr[f]) \in Nat /\ Len(ptr[f]) <= MaxBlocks
    BY DEF Inv, TypeOK
  <2> QED
    BY <2>1, Widths
<1>3. CASE Mknod(f) \/ Unlink(f)
  BY <1>3 DEF Next
<1>4. CASE \E c \in Contents : Write(f, Len(ptr[f]), c)
  BY <1>2, <1>4 DEF Next
<1>5. CASE \E g \in Files \ names : Rename(f, g)
  BY <1>5 DEF Next
<1> QED
  BY <1>1, <1>3, <1>4, <1>5

\* An append through SetPointer counts one pointer more for its block.
LEMMA RefsAfterAppend ==
  ASSUME Inv, NEW f \in Files, NEW id \in Ids, SetPointer(f, Len(ptr[f]), id), NEW i
  PROVE  Cardinality(Refs(i)') = Cardinality(RefsOf(ptr, i)) + IF i = id THEN 1 ELSE 0
<1>1. /\ Len(ptr[f]) < MaxBlocks /\ ptr \in PtrTables
      /\ ptr' = PutAt(ptr, f, Len(ptr[f]), id)
  BY PointersAfterWrite, RefsAreCounted DEF Inv
<1>2. Cardinality(RefsOf(ptr', i)) = Cardinality(RefsOf(ptr, i)) + IF i = id THEN 1 ELSE 0
  BY <1>1, RefsOfAppend
<1>3. Refs(i)' = RefsOf(ptr', i)
  BY DEF Refs, RefsOf
<1> QED
  BY <1>2, <1>3

\* Each step of these changes a counter by the number of pointers it adds or drops.
LEMMA ExactStep == Inv /\ UsageIsExact /\ [NextUnlinkOnly]_vars => UsageIsExact'
<1> SUFFICES ASSUME Inv, UsageIsExact, [NextUnlinkOnly]_vars PROVE UsageIsExact'
  OBVIOUS
<1> USE DEF Inv
<1>1. ASSUME NEW i \in 1..lastId
      PROVE  /\ Cardinality(RefsOf(ptr, i)) = hashes[i].usage
             /\ hashes[i].usage \in Nat
             /\ Refs(i)' = RefsOf(ptr', i)
  BY RefsAreCounted, LineOfAnId DEF UsageIsExact, Refs, RefsOf
<1>2. ASSUME NEW f \in Files, Mknod(f) PROVE UsageIsExact'
  <2>1. ptr' = ptr /\ hashes' = hashes /\ lastId' = lastId
    BY <1>2 DEF Mknod, TypeOK
  <2> QED
    BY <2>1 DEF UsageIsExact, Refs
<1>3. ASSUME NEW f \in Files, Unlink(f) PROVE UsageIsExact'
  <2> SUFFICES ASSUME NEW i \in 1..lastId' PROVE Cardinality(Refs(i)') = hashes'[i].usage
    BY DEF UsageIsExact
  <2> DEFINE occ == Occurrences(ptr[f], i)
  <2>1. i \in 1..lastId /\ ptr' = Emptied(ptr, f)
    BY <1>3, UnlinkEffect
  <2>2. occ \in Nat /\ hashes'[i] = Line(i, Released(hashes[i].usage, occ), hashes[i].hash)
    BY <1>3, <2>1, UnlinkEffect
  <2>3. Cardinality(RefsOf(ptr', i)) = Cardinality(RefsOf(ptr, i)) - occ
    <3>1. ptr \in PtrTables
      BY RefsAreCounted
    <3> QED
      BY <2>1, <3>1, RefsOfEmptied
  <2> HIDE DEF occ
  <2>4. hashes'[i].usage = IF occ < hashes[i].usage THEN hashes[i].usage - occ ELSE 0
    BY <2>2 DEF Line, Released
  <2>5. Cardinality(RefsOf(ptr', i)) \in Nat
    BY RefsOfFinite
  <2> QED
    BY <1>1, <2>1, <2>2, <2>3, <2>4, <2>5
<1>4. ASSUME NEW f \in Files, NEW c \in Contents, WriteNew(f, Len(ptr[f]), c)
      PROVE  UsageIsExact'
  <2> SUFFICES ASSUME NEW i \in 1..lastId' PROVE Cardinality(Refs(i)') = hashes'[i].usage
    BY DEF UsageIsExact
  <2>1. /\ lastId \in Nat /\ lastId + 1 \in Ids /\ lastId' = lastId + 1
        /\ \A p \in 1..lastId : hashes'[p] = hashes[p]
        /\ hashes'[lastId + 1] = Line(lastId + 1, 1, HashOf[c])
        /\ SetPointer(f, Len(ptr[f]), lastId + 1)
    BY <1>4, WriteNewEffect DEF TypeOK
  <2>2. Cardinality(Refs(i)') = Cardinality(RefsOf(ptr, i)) + IF i = lastId + 1 THEN 1 ELSE 0
    BY <2>1, RefsAfterAppend
  <2>3. CASE i = lastId + 1
    <3>1. RefsOf(ptr, i) = {}
      BY <2>1, <2>3 DEF RefsOf, PointersResolve
    <3>2. Cardinality(RefsOf(ptr, i)) = 0
      BY <3>1, FS_EmptySet
    <3>3. hashes'[i].usage = 1
      BY <2>1, <2>3 DEF Line
    <3> QED
      BY <2>2, <2>3, <3>2, <3>3
  <2>4. CASE i # lastId + 1
    <3>1. i \in 1..lastId
      BY <2>1, <2>4
    <3> QED
      BY <1>1, <2>1, <2>2, <2>4, <3>1
  <2> QED
    BY <2>3, <2>4
<1>5. ASSUME NEW f \in Files, NEW c \in Contents, WriteShared(f, Len(ptr[f]), c)
      PROVE  UsageIsExact'
  <2> SUFFICES ASSUME NEW i \in 1..lastId' PROVE Cardinality(Refs(i)') = hashes'[i].usage
    BY DEF UsageIsExact
  <2>1. PICK id \in 1..lastId :
          /\ hashes'[id] = Line(id, hashes[id].usage + 1, HashOf[c])
          /\ \A p \in (1..lastId) \ {id} : hashes'[p] = hashes[p]
          /\ lastId' = lastId
          /\ SetPointer(f, Len(ptr[f]), id)
    BY <1>5, WriteSharedEffect
  <2>2. Cardinality(Refs(i)') = Cardinality(RefsOf(ptr, i)) + IF i = id THEN 1 ELSE 0
    <3>1. id \in Ids
      BY LineOfAnId
    <3> QED
      BY <2>1, <3>1, RefsAfterAppend
  <2>3. CASE i = id
    <3>1. hashes'[i].usage = hashes[i].usage + 1
      BY <2>1, <2>3 DEF Line
    <3> QED
      BY <1>1, <2>1, <2>2, <2>3, <3>1
  <2>4. CASE i # id
    BY <1>1, <2>1, <2>2, <2>4
  <2> QED
    BY <2>3, <2>4
<1>6. ASSUME NEW f \in Files, NEW g \in Files \ names, Rename(f, g) PROVE UsageIsExact'
  <2> SUFFICES ASSUME NEW i \in 1..lastId' PROVE Cardinality(Refs(i)') = hashes'[i].usage
    BY DEF UsageIsExact
  <2>1. /\ f # g /\ ptr' = Moved(ptr, f, g)
        /\ hashes' = hashes /\ lastId' = lastId
    BY <1>6 DEF Rename, Moved
  <2>2. ptr[g] = <<>> /\ ptr \in PtrTables
    BY RefsAreCounted DEF TypeOK
  <2>3. Cardinality(RefsOf(ptr', i)) = Cardinality(RefsOf(ptr, i))
    BY <2>1, <2>2, RefsOfRenameToFree
  <2> QED
    BY <1>1, <2>1, <2>3
<1>7. CASE UNCHANGED vars
  BY <1>7 DEF vars, UsageIsExact, Refs
<1> QED
  BY <1>2, <1>3, <1>4, <1>5, <1>6, <1>7 DEF NextUnlinkOnly, Write

\* A counter is exactly the number of pointers to its block.
THEOREM CountersExact == SpecUnlinkOnly => []UsageIsExact
<1>1. Init => UsageIsExact
  BY DEF Init, UsageIsExact
<1> QED
  BY <1>1, InitInv, NextInv, UnlinkOnlyIsNext, ExactStep, PTL DEF SpecUnlinkOnly

\* A block that no file needs is never kept.
THEOREM NothingLeaks == SpecUnlinkOnly => []NoOrphanBlocks
<1>1. Inv /\ UsageIsExact => NoOrphanBlocks
  <2> SUFFICES ASSUME Inv, UsageIsExact, NEW i \in Ids, block[i] # NoBlock
               PROVE  Refs(i) # {}
    BY DEF NoOrphanBlocks
  <2>1. i \in 1..lastId /\ hashes[i].usage # 0
    BY DEF Inv, BlocksMatchLines, Ids, TypeOK
  <2>2. Cardinality(Refs(i)) # 0
    BY <2>1 DEF UsageIsExact
  <2> QED
    BY <2>2, FS_EmptySet
<1>2. SpecUnlinkOnly => []Inv
  BY InitInv, NextInv, UnlinkOnlyIsNext, PTL DEF SpecUnlinkOnly
<1> QED
  BY <1>1, <1>2, CountersExact, PTL

=============================================================================
