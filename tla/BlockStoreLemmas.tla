--------------------------- MODULE BlockStoreLemmas ---------------------------
(***************************************************************************)
(* The lemmas the proofs about the store rest on.  First what the          *)
(* operators of HashesFile return, for every number of lines, ids and      *)
(* pointers.  Then counting the pointers to a block: what a write, a       *)
(* rename and the loss of a pointers file do to the number of pointers to  *)
(* each block.  RefsOf is Refs for a given table of pointers, so that the  *)
(* lemmas speak of the tables before and after a step alike.               *)
(***************************************************************************)
EXTENDS BlockStore, NumberProofs, FiniteSetTheorems, SequenceTheorems

\* bb_write divides the offset by 4069 where a block has 4096 bytes: the slot is
\* still the number of the block for the first 151 blocks (bbfs.c:280).
THEOREM SlotIsIndex == \A k \in 0..150 : SlotOf(k) = k
<1> TAKE k \in 0..150
<1>1. k * 4096 = k * 4069 + k * 27 /\ k * 27 \in 0..4068
  OBVIOUS
<1>2. (k * 4096) \div 4069 = k
  BY <1>1, SMT
<1> QED
  BY <1>2 DEF SlotOf, BlockSize, SlotSize

\* compare_hashes returns the id in a line in use that has the hash, or, when no
\* such line exists, the id after last_id.
LEMMA CompareHashesResult ==
  ASSUME NEW lines, NEW last, NEW h, DOMAIN lines \in SUBSET Nat
  PROVE  \/ /\ MatchingLines(lines, h) = {}
            /\ CompareHashes(lines, last, h) = last + 1
         \/ \E p \in MatchingLines(lines, h) : CompareHashes(lines, last, h) = lines[p].id
<1>1. MatchingLines(lines, h) \in SUBSET Nat
  BY DEF MatchingLines
<1> QED
  BY <1>1, MinOfNaturals DEF CompareHashes

\* pwrite of one id inside the pointers file or right behind its end.
LEMMA PutPointerResult ==
  ASSUME NEW S, NEW ids \in Seq(S), NEW s \in 0..Len(ids), NEW id \in S
  PROVE  /\ PutPointer(ids, s, id) \in Seq(S)
         /\ Len(PutPointer(ids, s, id)) = IF s < Len(ids) THEN Len(ids) ELSE s + 1
         /\ \A k \in 1..Len(PutPointer(ids, s, id)) :
              PutPointer(ids, s, id)[k] = IF k = s + 1 THEN id ELSE ids[k]
<1> DEFINE n == IF s < Len(ids) THEN Len(ids) ELSE s + 1
           e(k) == IF k = s + 1 THEN id ELSE IF k <= Len(ids) THEN ids[k] ELSE Hole
<1>1. n \in Nat /\ \A k \in 1..n : k = s + 1 \/ k <= Len(ids)
  OBVIOUS
<1>2. \A k \in 1..n : e(k) \in S /\ e(k) = IF k = s + 1 THEN id ELSE ids[k]
  BY <1>1, ElementOfSeq
<1>3. PutPointer(ids, s, id) = [k \in 1..n |-> e(k)]
  BY DEF PutPointer
<1> HIDE DEF n, e
<1>4. [k \in 1..n |-> e(k)] \in Seq(S) /\ Len([k \in 1..n |-> e(k)]) = n
  BY <1>1, <1>2
<1> QED
  BY <1>2, <1>3, <1>4 DEF n

\* The same right behind the end.
LEMMA PutPointerAppends ==
  ASSUME NEW S, NEW ids \in Seq(S), NEW s \in 0..Len(ids), NEW id \in S, ~ (s < Len(ids))
  PROVE  /\ Len(PutPointer(ids, s, id)) = s + 1
         /\ \A k \in 1..(s + 1) : PutPointer(ids, s, id)[k] = IF k = s + 1 THEN id ELSE ids[k]
<1>1. /\ Len(PutPointer(ids, s, id)) = IF s < Len(ids) THEN Len(ids) ELSE s + 1
      /\ \A k \in 1..Len(PutPointer(ids, s, id)) :
           PutPointer(ids, s, id)[k] = IF k = s + 1 THEN id ELSE ids[k]
  BY PutPointerResult
<1> QED
  BY <1>1

\* The number of pointers to one block in one file.
LEMMA OccurrencesResult ==
  ASSUME NEW S, NEW ids \in Seq(S), NEW p
  PROVE  /\ Occurrences(ids, p) \in Nat
         /\ Occurrences(ids, p) = 0 <=> \A k \in 1..Len(ids) : ids[k] # p
<1> DEFINE at == {k \in 1..Len(ids) : ids[k] = p}
<1>1. IsFiniteSet(1..Len(ids))
  BY FS_Interval, LenProperties
<1>2. IsFiniteSet(at)
  BY <1>1, FS_Subset
<1>3. Cardinality(at) \in Nat /\ (Cardinality(at) = 0 <=> at = {})
  BY <1>2, FS_CardinalityType, FS_EmptySet
<1> QED
  BY <1>3 DEF Occurrences

\* delete_blocks keeps the number of lines, their ids and their hashes, and takes
\* from each counter in use the number of pointers to its block, down to 0.
LEMMA ReleaseLinesResult ==
  ASSUME NEW S, NEW ids \in Seq(S), NEW lines, NEW n \in Nat, DOMAIN lines = 1..n,
         \A p \in 1..n : /\ lines[p] = Line(p, lines[p].usage, lines[p].hash)
                         /\ lines[p].usage \in Nat
  PROVE  /\ DOMAIN ReleaseLines(lines, ids) = 1..n
         /\ \A p \in 1..n :
              ReleaseLines(lines, ids)[p] =
                Line(p, Released(lines[p].usage, Occurrences(ids, p)), lines[p].hash)
<1>1. ASSUME NEW p \in 1..n
      PROVE  ReleaseLines(lines, ids)[p] =
               Line(p, Released(lines[p].usage, Occurrences(ids, p)), lines[p].hash)
  <2>1. lines[p].usage \in Nat /\ Occurrences(ids, p) \in Nat
    BY OccurrencesResult
  <2>2. CASE lines[p].usage = 0 \/ Occurrences(ids, p) = 0
    <3>1. Released(lines[p].usage, Occurrences(ids, p)) = lines[p].usage
      BY <2>1, <2>2 DEF Released
    <3>2. ReleaseLines(lines, ids)[p] = lines[p]
      BY <2>2 DEF ReleaseLines
    <3> QED
      BY <3>1, <3>2
  <2>3. CASE ~ (lines[p].usage = 0 \/ Occurrences(ids, p) = 0)
    BY <2>3 DEF ReleaseLines
  <2> QED
    BY <2>2, <2>3
<1> QED
  BY <1>1 DEF ReleaseLines

-----------------------------------------------------------------------------
(* Counting pointers.                                                      *)

PtrTables == {p \in [Files -> Seq(Ids)] : \A f \in Files : Len(p[f]) <= MaxBlocks}

RefsOf(p, i) ==
  {r \in Files \X (1..MaxBlocks) : r[2] \in 1..Len(p[r[1]]) /\ p[r[1]][r[2]] = i}

\* The tables a write, a rename and the loss of a pointers file leave.
PutAt(p, f, k, id) == [p EXCEPT ![f] = PutPointer(p[f], k, id)]
Moved(p, f, g) == [p EXCEPT ![g] = p[f], ![f] = <<>>]
Emptied(p, f) == [p EXCEPT ![f] = <<>>]

\* The pointers to a block in a table form a finite set.
LEMMA RefsOfFinite ==
  ASSUME NEW p, NEW i
  PROVE  IsFiniteSet(RefsOf(p, i)) /\ Cardinality(RefsOf(p, i)) \in Nat
<1>1. IsFiniteSet(1..MaxBlocks)
  BY FS_Interval, Widths
<1>2. IsFiniteSet(Files \X (1..MaxBlocks))
  BY <1>1, FilesFinite, FS_Product
<1>3. IsFiniteSet(RefsOf(p, i))
  BY <1>2, FS_Subset DEF RefsOf
<1> QED
  BY <1>3, FS_CardinalityType

\* A block that some pointer leads to has at least one pointer.
LEMMA RefIsCounted ==
  ASSUME NEW p \in PtrTables, NEW g \in Files, NEW n \in 1..Len(p[g])
  PROVE  Cardinality(RefsOf(p, p[g][n])) >= 1
<1> DEFINE R == RefsOf(p, p[g][n])
<1>1. Len(p[g]) \in Nat /\ Len(p[g]) <= MaxBlocks
  BY DEF PtrTables
<1>2. <<g, n>> \in Files \X (1..MaxBlocks) /\ <<g, n>>[1] = g /\ <<g, n>>[2] = n
  BY <1>1, Widths
<1>3. R # {}
  BY <1>2 DEF RefsOf
<1>4. IsFiniteSet(R) /\ Cardinality(R) \in Nat
  BY RefsOfFinite
<1> HIDE DEF R
<1>5. Cardinality(R) # 0
  BY <1>3, <1>4, FS_EmptySet
<1> QED
  BY <1>4, <1>5 DEF R

\* Two tables with as many pointers to i, when the pointers of one can be told
\* apart in the other.
LEMMA RefsOfInjection ==
  ASSUME NEW p, NEW q, NEW i, NEW m \in Injection(RefsOf(q, i), RefsOf(p, i))
  PROVE  Cardinality(RefsOf(q, i)) <= Cardinality(RefsOf(p, i))
BY RefsOfFinite, FS_Injection

\* A write adds one pointer to the block it stores, and none to any other.
LEMMA RefsOfWrite ==
  ASSUME NEW p \in PtrTables, NEW f \in Files, NEW k \in 0..Len(p[f]), k < MaxBlocks,
         NEW id \in Ids, NEW i
  PROVE  /\ i # id => Cardinality(RefsOf(PutAt(p, f, k, id), i)) <= Cardinality(RefsOf(p, i))
         /\ Cardinality(RefsOf(PutAt(p, f, k, id), i)) <= Cardinality(RefsOf(p, i)) + 1
<1> DEFINE q == PutAt(p, f, k, id)
           P == RefsOf(p, i)
           Q == RefsOf(q, i)
           r0 == <<f, k + 1>>
<1>1. p[f] \in Seq(Ids) /\ Len(p[f]) \in Nat
  BY DEF PtrTables, PutAt
<1>2. /\ Len(q[f]) = IF k < Len(p[f]) THEN Len(p[f]) ELSE k + 1
      /\ \A n \in 1..Len(q[f]) : q[f][n] = IF n = k + 1 THEN id ELSE p[f][n]
  <2>1. q[f] = PutPointer(p[f], k, id)
    BY DEF PtrTables, PutAt
  <2> DEFINE x == p[f]
  <2>2. x \in Seq(Ids) /\ k \in 0..Len(x)
    BY <1>1
  <2>3. /\ Len(PutPointer(x, k, id)) = IF k < Len(x) THEN Len(x) ELSE k + 1
        /\ \A n \in 1..Len(PutPointer(x, k, id)) :
             PutPointer(x, k, id)[n] = IF n = k + 1 THEN id ELSE x[n]
    <3> HIDE DEF x
    <3> QED
      BY <2>2, PutPointerResult
  <2> QED
    BY <2>1, <2>3
<1>3. \A g \in Files \ {f} : q[g] = p[g]
  BY DEF PtrTables, PutAt
<1>4. ASSUME NEW r \in Q, r # r0
      PROVE  r \in P
  <2>1. r \in Files \X (1..MaxBlocks) /\ r[2] \in 1..Len(q[r[1]]) /\ q[r[1]][r[2]] = i
    BY DEF RefsOf
  <2>2. CASE r[1] = f
    <3>1. r[2] # k + 1
      BY <1>4, <2>1, <2>2
    <3>2. r[2] \in 1..Len(p[f]) /\ p[f][r[2]] = i
      BY <1>1, <1>2, <2>1, <2>2, <3>1
    <3> QED
      BY <2>1, <2>2, <3>2 DEF RefsOf
  <2>3. CASE r[1] # f
    BY <1>3, <2>1, <2>3 DEF RefsOf
  <2> QED
    BY <2>2, <2>3
<1>5. i # id => r0 \notin Q
  <2>1. r0[1] = f /\ r0[2] = k + 1
    OBVIOUS
  <2> QED
    BY <1>2, <2>1 DEF RefsOf
<1>6. IsFiniteSet(P) /\ Cardinality(P) \in Nat /\ Cardinality(Q) \in Nat
  BY RefsOfFinite
<1>7. Cardinality(P \cup {r0}) \in Nat /\ Cardinality(P \cup {r0}) <= Cardinality(P) + 1
  <2> HIDE DEF P, r0
  <2>1. Cardinality(P \cup {r0}) = IF r0 \in P THEN Cardinality(P) ELSE Cardinality(P) + 1
    BY <1>6, FS_AddElement
  <2> QED
    BY <1>6, <2>1
<1>8. i # id => Cardinality(Q) <= Cardinality(P)
  <2> HIDE DEF P, Q, r0
  <2> QED
    BY <1>4, <1>5, <1>6, FS_Subset
<1>9. Cardinality(Q) <= Cardinality(P) + 1
  <2>1. Q \subseteq P \cup {r0}
    BY <1>4
  <2> HIDE DEF P, Q, r0
  <2>2. IsFiniteSet(P \cup {r0})
    BY <1>6, FS_AddElement
  <2>3. Cardinality(Q) <= Cardinality(P \cup {r0})
    BY <2>1, <2>2, FS_Subset
  <2> QED
    BY <1>6, <1>7, <2>3
<1> QED
  BY <1>8, <1>9

\* An append adds exactly that pointer.
LEMMA RefsOfAppend ==
  ASSUME NEW p \in PtrTables, NEW f \in Files, NEW id \in Ids, Len(p[f]) < MaxBlocks,
         NEW i
  PROVE  Cardinality(RefsOf(PutAt(p, f, Len(p[f]), id), i)) =
           Cardinality(RefsOf(p, i)) + IF i = id THEN 1 ELSE 0
<1> DEFINE q == PutAt(p, f, Len(p[f]), id)
           P == RefsOf(p, i)
           Q == RefsOf(q, i)
           k == Len(p[f])
           r0 == <<f, k + 1>>
<1>1. p[f] \in Seq(Ids) /\ k \in Nat
  BY DEF PtrTables, PutAt
<1>2. /\ Len(q[f]) = k + 1
      /\ \A n \in 1..(k + 1) : q[f][n] = IF n = k + 1 THEN id ELSE p[f][n]
  <2>1. q[f] = PutPointer(p[f], k, id)
    BY DEF PtrTables, PutAt
  <2> DEFINE x == p[f]
  <2>2. x \in Seq(Ids) /\ k \in 0..Len(x) /\ ~ (k < Len(x))
    BY <1>1
  <2> HIDE DEF x, k
  <2>3. /\ Len(PutPointer(x, k, id)) = k + 1
        /\ \A n \in 1..(k + 1) : PutPointer(x, k, id)[n] = IF n = k + 1 THEN id ELSE x[n]
    BY <2>2, PutPointerAppends
  <2> QED
    BY <2>1, <2>3 DEF x
<1>3. \A g \in Files \ {f} : q[g] = p[g]
  BY DEF PtrTables, PutAt
<1>4. r0 \in Files \X (1..MaxBlocks) /\ r0[1] = f /\ r0[2] = k + 1
  BY <1>1, Widths
<1> HIDE DEF k, r0
<1>5. ASSUME NEW r \in Files \X (1..MaxBlocks)
      PROVE  r \in Q <=> r \in P \/ (r = r0 /\ i = id)
  <2>1. CASE r = r0
    <3>1. r \notin P /\ (r \in Q <=> i = id)
      BY <1>1, <1>2, <1>4, <2>1 DEF RefsOf, k
    <3> QED
      BY <2>1, <3>1
  <2>2. CASE r[1] = f /\ r # r0
    <3>1. r[2] # k + 1
      BY <2>2 DEF r0
    <3>2. r[2] \in 1..Len(q[f]) <=> r[2] \in 1..Len(p[f])
      BY <1>1, <1>2, <3>1 DEF k
    <3>3. r[2] \in 1..Len(p[f]) => q[f][r[2]] = p[f][r[2]]
      BY <1>1, <1>2, <3>1 DEF k
    <3> QED
      BY <2>2, <3>2, <3>3 DEF RefsOf
  <2>3. CASE r[1] # f
    <3>1. q[r[1]] = p[r[1]] /\ r # r0
      BY <1>3, <1>4, <2>3
    <3> QED
      BY <3>1 DEF RefsOf
  <2> QED
    BY <2>1, <2>2, <2>3
<1>6. P \subseteq Files \X (1..MaxBlocks) /\ Q \subseteq Files \X (1..MaxBlocks)
  BY DEF RefsOf
<1>7. r0 \notin P
  BY <1>1, <1>4 DEF RefsOf, k
<1>8. IsFiniteSet(P) /\ Cardinality(P) \in Nat
  BY RefsOfFinite
<1> HIDE DEF P, Q
<1>9. CASE i # id
  <2>1. Q = P
    BY <1>5, <1>6, <1>9
  <2> QED
    BY <1>8, <1>9, <2>1 DEF P, Q
<1>10. CASE i = id
  <2>1. Q = P \cup {r0}
    BY <1>4, <1>5, <1>6, <1>10
  <2>2. Cardinality(Q) = Cardinality(P) + 1
    BY <1>7, <1>8, <2>1, FS_AddElement
  <2> QED
    BY <1>10, <2>2 DEF P, Q
<1> QED
  BY <1>9, <1>10

\* A renamed file brings its pointers along; those of the file it replaces are
\* lost.
LEMMA RefsOfRename ==
  ASSUME NEW p \in PtrTables, NEW f \in Files, NEW g \in Files, f # g,
         NEW i
  PROVE  Cardinality(RefsOf(Moved(p, f, g), i)) <= Cardinality(RefsOf(p, i))
<1> DEFINE q == Moved(p, f, g)
           P == RefsOf(p, i)
           Q == RefsOf(q, i)
           Swap(h) == IF h = g THEN f ELSE IF h = f THEN g ELSE h
           Back(r) == <<Swap(r[1]), r[2]>>
<1>1. q[g] = p[f] /\ q[f] = <<>> /\ \A h \in Files \ {f, g} : q[h] = p[h]
  BY DEF PtrTables, Moved
<1>2. \A h \in Files : Swap(h) \in Files /\ Swap(Swap(h)) = h
  OBVIOUS
<1>3. \A h1, h2 \in Files : Swap(h1) = Swap(h2) => h1 = h2
  BY <1>2, Zenon
<1>4. ASSUME NEW r \in Files \X (1..MaxBlocks)
      PROVE  /\ Back(r) \in Files \X (1..MaxBlocks)
             /\ Back(r)[1] = Swap(r[1]) /\ Back(r)[2] = r[2]
  BY <1>2
<1>5. ASSUME NEW r \in Files \X (1..MaxBlocks), NEW s \in Files \X (1..MaxBlocks),
             Back(r) = Back(s)
      PROVE  r = s
  <2>1. Swap(r[1]) = Swap(s[1]) /\ r[2] = s[2]
    BY <1>4, <1>5, Zenon
  <2>2. r[1] = s[1]
    BY <1>3, <2>1
  <2> QED
    BY <2>1, <2>2
<1>6. ASSUME NEW r \in Q
      PROVE  Back(r) \in P
  <2>1. r \in Files \X (1..MaxBlocks) /\ r[2] \in 1..Len(q[r[1]]) /\ q[r[1]][r[2]] = i
    BY DEF RefsOf
  <2>2. r[1] # f
    <3>1. 1..Len(<<>>) = {}
      OBVIOUS
    <3> QED
      BY <1>1, <2>1, <3>1
  <2>3. q[r[1]] = p[Swap(r[1])]
    BY <1>1, <2>1, <2>2
  <2> HIDE DEF Swap, Back
  <2> QED
    BY <1>4, <2>1, <2>3 DEF RefsOf
<1>7. P \subseteq Files \X (1..MaxBlocks) /\ Q \subseteq Files \X (1..MaxBlocks)
  BY DEF RefsOf
<1> HIDE DEF P, Q, Swap, Back
<1>8. [r \in Q |-> Back(r)] \in Injection(Q, P)
  BY <1>5, <1>6, <1>7 DEF Injection, IsInjective
<1> QED
  BY <1>8, RefsOfInjection DEF P, Q

\* A rename to a free name loses none: renaming back gives the old table.
LEMMA RefsOfRenameToFree ==
  ASSUME NEW p \in PtrTables, NEW f \in Files, NEW g \in Files, f # g, p[g] = <<>>,
         NEW i
  PROVE  Cardinality(RefsOf(Moved(p, f, g), i)) = Cardinality(RefsOf(p, i))
<1> DEFINE q == Moved(p, f, g)
<1>1. Cardinality(RefsOf(q, i)) <= Cardinality(RefsOf(p, i))
  BY RefsOfRename
<1>2. q \in PtrTables
  BY Widths DEF PtrTables, Moved
<1>3. p = Moved(q, g, f)
  BY DEF PtrTables, Moved
<1>4. Cardinality(RefsOf(p, i)) <= Cardinality(RefsOf(q, i))
  BY <1>2, <1>3, RefsOfRename
<1>5. Cardinality(RefsOf(q, i)) \in Nat /\ Cardinality(RefsOf(p, i)) \in Nat
  BY RefsOfFinite
<1> QED
  BY <1>1, <1>4, <1>5

\* A file that loses its pointers takes with it as many pointers to i as it held.
LEMMA RefsOfEmptied ==
  ASSUME NEW p \in PtrTables, NEW f \in Files,
         NEW i
  PROVE  Cardinality(RefsOf(Emptied(p, f), i)) =
           Cardinality(RefsOf(p, i)) - Occurrences(p[f], i)
<1> DEFINE q == Emptied(p, f)
           P == RefsOf(p, i)
           Q == RefsOf(q, i)
           at == {k \in 1..Len(p[f]) : p[f][k] = i}
           own == {r \in P : r[1] = f}
<1>1. p[f] \in Seq(Ids) /\ Len(p[f]) \in Nat /\ Len(p[f]) <= MaxBlocks
  BY DEF PtrTables, Emptied
<1>2. q[f] = <<>> /\ \A g \in Files \ {f} : q[g] = p[g]
  BY DEF PtrTables, Emptied
<1>3. Q = P \ own
  <2>1. ASSUME NEW r \in Files \X (1..MaxBlocks)
        PROVE  r \in Q <=> r \in P /\ r[1] # f
    <3>1. CASE r[1] = f
      BY <1>2, <3>1 DEF RefsOf
    <3>2. CASE r[1] # f
      <4>1. q[r[1]] = p[r[1]]
        BY <1>2, <3>2
      <4> QED
        BY <3>2, <4>1 DEF RefsOf
    <3> QED
      BY <3>1, <3>2
  <2>2. P \subseteq Files \X (1..MaxBlocks) /\ Q \subseteq Files \X (1..MaxBlocks)
    BY DEF RefsOf
  <2> HIDE DEF P, Q
  <2> QED
    BY <2>1, <2>2
<1>4. own = P \cap own /\ own \in SUBSET P
  OBVIOUS
<1>5. IsFiniteSet(P) /\ Cardinality(P) \in Nat /\ IsFiniteSet(own)
  BY RefsOfFinite, FS_Subset, <1>4
<1>6. [k \in at |-> <<f, k>>] \in Bijection(at, own)
  <2> DEFINE m == [k \in at |-> <<f, k>>]
  <2>1. ASSUME NEW k \in at
        PROVE  <<f, k>> \in own
    <3>1. k \in 1..MaxBlocks
      BY <1>1, Widths
    <3>2. <<f, k>> \in Files \X (1..MaxBlocks) /\ <<f, k>>[1] = f /\ <<f, k>>[2] = k
      BY <3>1
    <3> QED
      BY <3>2 DEF RefsOf
  <2>2. m \in Injection(at, own)
    <3>1. m \in [at -> own]
      BY <2>1
    <3> QED
      BY <3>1 DEF Injection, IsInjective
  <2>3. ASSUME NEW r \in own
        PROVE  \E k \in at : m[k] = r
    <3>1. r \in Files \X (1..MaxBlocks) /\ r[2] \in at /\ r[1] = f
      BY DEF RefsOf
    <3>2. r = <<f, r[2]>>
      BY <3>1
    <3> QED
      BY <3>1, <3>2
  <2> HIDE DEF m, at, own
  <2> QED
    BY <2>2, <2>3 DEF m, Bijection, Surjection, Injection
<1>7. IsFiniteSet(at)
  <2>1. IsFiniteSet(1..Len(p[f])) /\ at \in SUBSET (1..Len(p[f]))
    BY <1>1, FS_Interval
  <2> HIDE DEF at
  <2> QED
    BY <2>1, FS_Subset
<1>8. Cardinality(own) = Cardinality(at)
  <2> HIDE DEF at, own
  <2> QED
    BY <1>6, <1>7, FS_Bijection DEF ExistsBijection
<1>9. Cardinality(P \ own) = Cardinality(P) - Cardinality(P \cap own)
  <2> HIDE DEF P, own
  <2> QED
    BY <1>5, FS_Difference
<1> QED
  BY <1>3, <1>4, <1>8, <1>9 DEF Occurrences

=============================================================================
