------------------------ MODULE BlockStoreStepsProofs ------------------------
(***************************************************************************)
(* With one thread the handlers, cut at their system calls, keep every     *)
(* file on disk readable and implement BlockStore.  The invariant says for *)
(* each place of a handler how the store differs from quiet, the store     *)
(* when the request began; what is known of quiet are the lemmas of        *)
(* BlockStoreProofs, instantiated with it.                                 *)
(***************************************************************************)
EXTENDS BlockStoreSteps, BlockStoreLemmas

Q == INSTANCE BlockStoreProofs WITH names <- quiet.names, ptr <- quiet.ptr,
       hashes <- quiet.hashes, block <- quiet.block, lastId <- quiet.lastId

-----------------------------------------------------------------------------
(* The invariant, for the one thread t.                                    *)

Kept ==
  /\ names = quiet.names
  /\ ptr = quiet.ptr
  /\ hashes = quiet.hashes
  /\ block = quiet.block
  /\ lastId = quiet.lastId

NoTempFile == temp = NoTemp /\ tempData = [i \in Threads |-> <<>>]

Resting(t) == th[t] = Idle /\ Kept /\ NoTempFile

\* The id that compare_hashes finds for the data c, and the room it needs.
Known(c) == CompareHashes(quiet.hashes, quiet.lastId, HashOf[c])

RoomFor(c) ==
  \/ Known(c) = quiet.lastId + 1 /\ quiet.lastId < MaxId
  \/ Known(c) \in 1..quiet.lastId /\ quiet.hashes[Known(c)].usage < MaxUsage

WritePlaces == {"compare", "decide", "open", "take", "find", "line", "bump", "flush", "return"}

WriteRecs ==
  [pc : WritePlaces, file : Files, slot : Nat, data : Contents,
   id : 0..MaxId, opened : 0..MaxId, pos : 0..MaxId, usage : 0..MaxUsage]

\* What every place of bb_write relies on.
WriteBegun(w) ==
  /\ w \in WriteRecs
  /\ w.file \in quiet.names
  /\ w.slot \in 0..Len(quiet.ptr[w.file]) /\ w.slot < MaxBlocks
  /\ RoomFor(w.data)
  /\ names = quiet.names
  /\ ptr = quiet.ptr
  /\ NoTempFile

\* compare_hashes and is_new: nothing is changed yet.
Searches(w) ==
  /\ w.pc \in {"compare", "decide"}
  /\ Kept
  /\ w.opened = 0
  /\ w.pc = "decide" => w.id = Known(w.data)

\* generate_block for new data: the block file comes first, empty, then the line,
\* then last_id, then the data.
AddsBlock(w) ==
  /\ w.pc \in {"open", "take", "find", "line", "bump", "flush", "return"}
  /\ w.id = Known(w.data)
  /\ Known(w.data) = quiet.lastId + 1
  /\ w.opened = IF w.pc = "open" THEN 0 ELSE w.id
  /\ w.pc = "line" => w.pos = w.id /\ w.usage = 1
  /\ hashes = IF w.pc \in {"bump", "flush", "return"}
                THEN AppendLine(quiet.hashes, w.id, HashOf[w.data]) ELSE quiet.hashes
  /\ lastId = IF w.pc \in {"flush", "return"} THEN w.id ELSE quiet.lastId
  /\ block = IF w.pc = "open" THEN quiet.block
               ELSE [quiet.block EXCEPT ![w.id] =
                       IF w.pc = "return" THEN w.data ELSE Empty]

\* generate_block for data that is there: one line counts one more user.
SharesBlock(w) ==
  /\ w.pc \in {"find", "line", "return"}
  /\ w.id = Known(w.data)
  /\ Known(w.data) \in 1..quiet.lastId
  /\ w.opened = 0
  /\ w.pc = "line" => w.pos = w.id /\ w.usage = quiet.hashes[w.id].usage + 1
  /\ hashes = IF w.pc = "return"
                THEN CountOneMore(quiet.hashes, w.id, HashOf[w.data]) ELSE quiet.hashes
  /\ block = quiet.block
  /\ lastId = quiet.lastId

Writing(w) == WriteBegun(w) /\ (Searches(w) \/ AddsBlock(w) \/ SharesBlock(w))

RemoveRecs ==
  [pc : {"counter", "empty", "unlink", "release"}, file : Files, ids : Seq(Ids),
   usage : 0..MaxUsage]

\* How many of the first n pointers lead to block p.
Done(ids, n, p) == Cardinality({k \in 1..n : ids[k] = p})

\* The lines after n rounds of the loop of delete_blocks over the pointers all:
\* they count what is left.
LinesAfter(all, n) ==
  [p \in 1..quiet.lastId |->
     Line(p, quiet.hashes[p].usage - Done(all, n, p), quiet.hashes[p].hash)]

\* The blocks when the lines have come to that: those whose counter reached 0 are
\* gone, and block x, the one being removed, as well.
BlocksAfter(lines, x) ==
  [i \in Ids |->
     IF (i <= quiet.lastId /\ quiet.hashes[i].usage # 0 /\ lines[i].usage = 0) \/ i = x
       THEN NoBlock ELSE quiet.block[i]]

\* delete_blocks after n rounds of its loop over the pointers all.  When a block
\* is gone, every pointer of the file is.
Releasing(w, all, n) ==
  /\ w.ids = SubSeq(all, n + 1, Len(all))
  /\ hashes = LinesAfter(all, n)
  /\ block = BlocksAfter(hashes, IF w.pc = "release" /\ w.usage = 1 THEN all[n + 1] ELSE 0)
  /\ \/ ptr = Emptied(quiet.ptr, w.file)
     \/ ptr = quiet.ptr /\ block = quiet.block /\ w.pc # "unlink"
  /\ w.pc # "counter" => n < Len(all) /\ w.usage = hashes[all[n + 1]].usage
  /\ w.pc \in {"empty", "unlink"} => w.usage = 1
  /\ w.pc = "release" => w.usage > 0

RemovingBlocks(w) ==
  /\ w \in RemoveRecs
  /\ w.file \in quiet.names
  /\ names = quiet.names
  /\ lastId = quiet.lastId
  /\ NoTempFile
  /\ \E n \in 0..Len(quiet.ptr[w.file]) : Releasing(w, quiet.ptr[w.file], n)

ReadRecs ==
  [pc : {"fetch", "fill", "pread", "replied"}, file : Files, ids : Seq(Ids),
   data : Seq(Contents), fd : Threads \cup {NoTemp}]

\* The blocks behind the pointers ids.
Behind(ids) == [k \in 1..Len(ids) |-> quiet.block[ids[k]]]

\* The loop of read_file: what it has put together and the blocks it has yet to
\* read are the file.
Fetching(w) ==
  /\ written[w.file] = w.data \o Behind(w.ids)
  /\ Behind(w.ids) \in Seq(Contents)

\* bb_read: the data is in a local variable, then in the temp file as well.
Reading(w) ==
  /\ w \in ReadRecs
  /\ w.file \in quiet.names
  /\ Kept
  /\ \/ w.pc = "fetch" /\ Fetching(w) /\ NoTempFile
     \/ /\ w.pc # "fetch"
        /\ w.data = written[w.file]
        /\ temp \in Threads
        /\ w.fd = temp
        /\ tempData = [i \in Threads |-> IF w.pc = "fill" THEN <<>> ELSE w.data]

Place(t) ==
  Resting(t) \/ Writing(th[t]) \/ RemovingBlocks(th[t]) \/ Reading(th[t])

\* The blocks b behind the pointers p of each file.
Stored(p, b) == [f \in Files |-> [k \in 1..Len(p[f]) |-> b[p[f][k]]]]

\* What can be read of each file when no request is served.
Blocks == Stored(quiet.ptr, quiet.block)

StepsInv ==
  /\ Q!Inv
  /\ written = Blocks
  /\ made \in BOOLEAN
  /\ th = [t \in Threads |-> th[t]]
  /\ \A t \in Threads : Place(t)

\* What every step does: the invariant holds again, and quiet does a step of
\* BlockStore or none.
GoodStep == StepsInv' /\ [Q!Next]_(Q!vars)

-----------------------------------------------------------------------------
(* What is known of quiet.                                                 *)

\* The lemmas of BlockStoreProofs speak of quiet with operators of the same names.
LEMMA QuietOperators ==
  /\ \A S : Q!Cardinality(S) = Cardinality(S)
  /\ \A S : Q!IsFiniteSet(S) = IsFiniteSet(S)
  /\ \A i : Q!Refs(i) = RefsOf(quiet.ptr, i)
  /\ \A lines, last, h : Q!CompareHashes(lines, last, h) = CompareHashes(lines, last, h)
<1>1. \A S : Q!Cardinality(S) = Cardinality(S)
  BY DEF Q!Cardinality, Cardinality, Q!IsFiniteSet, IsFiniteSet
<1>2. \A S : Q!IsFiniteSet(S) = IsFiniteSet(S)
  BY DEF Q!IsFiniteSet, IsFiniteSet
<1>3. \A i : Q!Refs(i) = RefsOf(quiet.ptr, i)
  BY DEF Q!Refs, RefsOf
<1>4. \A lines, last, h : Q!CompareHashes(lines, last, h) = CompareHashes(lines, last, h)
  BY DEF Q!CompareHashes, CompareHashes, Q!MatchingLines, MatchingLines, Q!Min, Min
<1> QED
  BY <1>1, <1>2, <1>3, <1>4

QuietSound ==
  /\ quiet.names \in SUBSET Files
  /\ quiet.ptr \in PtrTables
  /\ quiet.lastId \in 0..MaxId
  /\ quiet.hashes \in Seq(Lines)
  /\ Len(quiet.hashes) = quiet.lastId
  /\ \A p \in 1..quiet.lastId :
       /\ quiet.hashes[p] \in Lines
       /\ quiet.hashes[p].id = p
       /\ quiet.hashes[p].usage \in 0..MaxUsage
  /\ quiet.block \in [Ids -> Contents \cup {NoBlock}]
  /\ \A f \in Files : \A k \in 1..Len(quiet.ptr[f]) :
       /\ quiet.ptr[f][k] \in 1..quiet.lastId
       /\ quiet.block[quiet.ptr[f][k]] \in Contents
  /\ \A i \in 1..quiet.lastId : quiet.hashes[i].usage # 0 =>
       quiet.block[i] \in Contents /\ HashOf[quiet.block[i]] = quiet.hashes[i].hash
  /\ \A i \in 1..quiet.lastId :
       Cardinality(RefsOf(quiet.ptr, i)) <= quiet.hashes[i].usage

\* The invariant of BlockStore, with the operators of this module.
LEMMA QuietIsSound == Q!Inv => QuietSound
<1> SUFFICES ASSUME Q!Inv PROVE QuietSound
  OBVIOUS
<1>1. Q!TypeOK /\ Q!LinesAtTheirIds /\ Q!PointersResolve /\ Q!BlocksMatchLines /\ Q!UsageCoversRefs
  BY DEF Q!Inv
<1>2. /\ quiet.names \in SUBSET Files
      /\ quiet.ptr \in PtrTables
      /\ quiet.lastId \in 0..MaxId
      /\ quiet.hashes \in Seq(Lines)
      /\ quiet.block \in [Ids -> Contents \cup {NoBlock}]
  BY <1>1 DEF Q!TypeOK, PtrTables, Q!Ids, Ids, Q!Lines, Lines
<1>3. /\ Len(quiet.hashes) = quiet.lastId
      /\ \A p \in 1..quiet.lastId : quiet.hashes[p].id = p
  BY <1>1 DEF Q!LinesAtTheirIds
<1>4. \A p \in 1..quiet.lastId : quiet.hashes[p] \in Lines
  BY <1>2, <1>3, ElementOfSeq
<1>5. \A p \in 1..quiet.lastId : quiet.hashes[p].usage \in 0..MaxUsage
  BY <1>4 DEF Lines
<1>6. 1..quiet.lastId \subseteq Ids
  BY <1>2, Widths DEF Ids
<1>7. \A f \in Files : \A k \in 1..Len(quiet.ptr[f]) :
        /\ quiet.ptr[f][k] \in 1..quiet.lastId
        /\ quiet.block[quiet.ptr[f][k]] \in Contents
  BY <1>1, <1>2, <1>6 DEF Q!PointersResolve
<1>8. ASSUME NEW i \in 1..quiet.lastId, quiet.hashes[i].usage # 0
      PROVE  quiet.block[i] \in Contents /\ HashOf[quiet.block[i]] = quiet.hashes[i].hash
  <2>1. i \in Ids /\ i <= quiet.lastId
    BY <1>2, <1>6
  <2>2. /\ quiet.block[i] # NoBlock <=> i <= quiet.lastId /\ quiet.hashes[i].usage # 0
        /\ quiet.block[i] # NoBlock => HashOf[quiet.block[i]] = quiet.hashes[i].hash
    BY <1>1, <2>1 DEF Q!BlocksMatchLines, Q!Ids, Ids
  <2> QED
    BY <1>2, <1>8, <2>1, <2>2
<1>9. \A i \in 1..quiet.lastId :
        Cardinality(RefsOf(quiet.ptr, i)) <= quiet.hashes[i].usage
  BY <1>1, QuietOperators DEF Q!UsageCoversRefs
<1> QED
  BY <1>2, <1>3, <1>4, <1>5, <1>7, <1>8, <1>9 DEF QuietSound

-----------------------------------------------------------------------------
(* The place of the one thread, before and after a step of a handler.      *)

\* The place of the thread follows from its pc.
LEMMA WhereItIs ==
  ASSUME StepsInv, NEW t \in Threads
  PROVE  /\ th[t].pc = "idle" => Resting(t)
         /\ th[t].pc \in WritePlaces => Writing(th[t])
         /\ th[t].pc \in {"counter", "empty", "unlink", "release"} => RemovingBlocks(th[t])
         /\ th[t].pc \in {"fetch", "fill", "pread", "replied"} => Reading(th[t])
<1>1. Place(t)
  BY DEF StepsInv
<1>2. Resting(t) => th[t].pc = "idle"
  BY DEF Resting, Idle
<1>3. Writing(th[t]) => th[t].pc \in WritePlaces
  BY DEF Writing, WriteBegun, WriteRecs
<1>4. RemovingBlocks(th[t]) => th[t].pc \in {"counter", "empty", "unlink", "release"}
  BY DEF RemovingBlocks, RemoveRecs
<1>5. Reading(th[t]) => th[t].pc \in {"fetch", "fill", "pread", "replied"}
  BY DEF Reading, ReadRecs
<1> HIDE DEF Resting, Writing, RemovingBlocks, Reading
<1> QED
  BY <1>1, <1>2, <1>3, <1>4, <1>5 DEF Place, WritePlaces

\* A step in the middle of a handler leaves quiet alone.
LEMMA GoesOn ==
  ASSUME StepsInv, NEW t, Threads = {t}, NEW r, r.pc # "idle", Continue(t, r), NoteQuiet
  PROVE  /\ th'[t] = r
         /\ th' = [u \in Threads |-> th'[u]]
         /\ quiet' = quiet /\ UNCHANGED Q!vars
         /\ Q!Inv' /\ Blocks' = Blocks
<1>1. th = [u \in Threads |-> th[u]] /\ Q!Inv
  BY DEF StepsInv
<1>2. th'[t] = r /\ th' = [u \in Threads |-> th'[u]]
  BY <1>1 DEF Continue
<1>3. r # Idle
  BY DEF Idle
<1>4. quiet' = quiet
  BY <1>2, <1>3 DEF NoteQuiet
<1>5. Q!Inv'
  BY <1>1, <1>4 DEF Q!Inv, Q!TypeOK, Q!LinesAtTheirIds, Q!PointersResolve,
     Q!BlocksMatchLines, Q!LiveHashesDistinct, Q!UsageCoversRefs, Q!Refs
<1>6. Blocks' = Blocks
  BY <1>4 DEF Blocks
<1>7. UNCHANGED Q!vars
  BY <1>4 DEF Q!vars
<1> QED
  BY <1>2, <1>4, <1>5, <1>6, <1>7

\* A step of bb_write after which its thread holds r.
LEMMA WriteGoesOn ==
  ASSUME StepsInv, NEW t, Threads = {t}, Writing(th[t]),
         NEW r \in WriteRecs, Continue(t, r), NoteQuiet,
         r.file = th[t].file, r.slot = th[t].slot, r.data = th[t].data,
         UNCHANGED <<names, ptr, temp, tempData, written>>, made' \in BOOLEAN,
         Searches(r)' \/ AddsBlock(r)' \/ SharesBlock(r)'
  PROVE  GoodStep
<1>1. r.pc # "idle"
  BY DEF WriteRecs, WritePlaces
<1>2. /\ th'[t] = r /\ th' = [u \in Threads |-> th'[u]]
      /\ quiet' = quiet /\ UNCHANGED Q!vars /\ Q!Inv' /\ Blocks' = Blocks
  BY <1>1, GoesOn
<1>3. WriteBegun(r)'
  BY <1>2 DEF Writing, WriteBegun, RoomFor, Known, NoTempFile
<1>4. Writing(th[t])'
  BY <1>2, <1>3 DEF Writing
<1>5. Place(t)'
  BY <1>4 DEF Place
<1>6. written' = Blocks'
  BY <1>2 DEF StepsInv
<1> QED
  BY <1>2, <1>5, <1>6 DEF StepsInv, GoodStep

-----------------------------------------------------------------------------
(* bb_write, step by step.                                                 *)

\* compare_hashes finds the next id, or a line in use that has the hash.
LEMMA KnownIs ==
  ASSUME QuietSound, NEW c
  PROVE  \/ /\ Known(c) = quiet.lastId + 1
            /\ MatchingLines(quiet.hashes, HashOf[c]) = {}
         \/ /\ Known(c) \in 1..quiet.lastId
            /\ Known(c) \in MatchingLines(quiet.hashes, HashOf[c])
            /\ quiet.hashes[Known(c)].usage # 0
            /\ quiet.hashes[Known(c)].hash = HashOf[c]
<1>1. DOMAIN quiet.hashes = 1..quiet.lastId /\ DOMAIN quiet.hashes \in SUBSET Nat
  BY DEF QuietSound
<1>2. CASE MatchingLines(quiet.hashes, HashOf[c]) = {} /\ Known(c) = quiet.lastId + 1
  BY <1>2
<1>3. CASE \E p \in MatchingLines(quiet.hashes, HashOf[c]) : Known(c) = quiet.hashes[p].id
  <2>1. PICK p \in MatchingLines(quiet.hashes, HashOf[c]) : Known(c) = quiet.hashes[p].id
    BY <1>3
  <2>2. p \in 1..quiet.lastId /\ quiet.hashes[p].usage # 0 /\ quiet.hashes[p].hash = HashOf[c]
    BY <1>1 DEF MatchingLines
  <2>3. Known(c) = p
    BY <2>1, <2>2 DEF QuietSound
  <2> QED
    BY <2>1, <2>2, <2>3
<1> QED
  BY <1>1, <1>2, <1>3, CompareHashesResult DEF Known

LEMMA BeginWriteInv ==
  ASSUME StepsInv, NEW t, Threads = {t}, NoteQuiet,
         NEW f \in Files, NEW k \in 0..MaxBlocks, NEW c \in Contents, BeginWrite(t, f, k, c)
  PROVE  GoodStep
<1>1. Resting(t) /\ QuietSound
  BY WhereItIs, QuietIsSound DEF BeginWrite, At, StepsInv
<1>2. PICK r : r = [pc |-> "compare", file |-> f, slot |-> k, data |-> c,
                    id |-> 0, opened |-> 0, pos |-> 0, usage |-> 0]
  OBVIOUS
<1>3. r \in WriteRecs
  BY <1>2, Widths DEF WriteRecs, WritePlaces
<1>4. Continue(t, r) /\ f \in names /\ k \in 0..Len(ptr[f]) /\ k < MaxBlocks /\ Room(c)
      /\ UNCHANGED <<names, ptr, hashes, block, lastId, made, temp, tempData, written>>
  BY <1>2 DEF BeginWrite, OnlyLocals, vars
<1>5. /\ th'[t] = r /\ th' = [u \in Threads |-> th'[u]]
      /\ quiet' = quiet /\ UNCHANGED Q!vars /\ Q!Inv' /\ Blocks' = Blocks
  BY <1>2, <1>4, GoesOn
<1>6. RoomFor(c)
  <2>1. hashes = quiet.hashes /\ lastId = quiet.lastId /\ lastId \in Nat
    BY <1>1 DEF Resting, Kept, QuietSound
  <2>2. CASE Known(c) = quiet.lastId + 1 /\ MatchingLines(quiet.hashes, HashOf[c]) = {}
    <3>1. Cardinality(Threads) = 1
      BY FS_Singleton
    <3>2. lastId + Cardinality(Threads) <= MaxId
      BY <1>4, <2>1, <2>2 DEF Room
    <3>3. lastId < MaxId
      BY <2>1, <3>1, <3>2, Widths
    <3> QED
      BY <2>1, <2>2, <3>3 DEF RoomFor
  <2>3. CASE Known(c) \in 1..quiet.lastId /\ Known(c) \in MatchingLines(quiet.hashes, HashOf[c])
    BY <1>4, <2>1, <2>3 DEF Room, RoomFor
  <2> QED
    BY <1>1, <2>2, <2>3, KnownIs
<1>7. WriteBegun(r)' /\ Searches(r)'
  BY <1>1, <1>2, <1>3, <1>4, <1>5, <1>6
  DEF WriteBegun, Searches, Resting, Kept, RoomFor, Known, NoTempFile
<1>8. Place(t)'
  BY <1>5, <1>7 DEF Place, Writing
<1> QED
  BY <1>4, <1>5, <1>8 DEF StepsInv, GoodStep

LEMMA CompareInv ==
  ASSUME StepsInv, NEW t, Threads = {t}, NoteQuiet, Compare(t)
  PROVE  GoodStep
<1>1. PICK w : w = th[t]
  OBVIOUS
<1>2. Writing(w) /\ w.pc = "compare" /\ QuietSound
  BY <1>1, WhereItIs, QuietIsSound DEF Compare, At, WritePlaces, StepsInv
<1>3. w \in WriteRecs /\ Searches(w) /\ RoomFor(w.data) /\ Kept
  BY <1>2 DEF Writing, WriteBegun, Searches, AddsBlock, SharesBlock
<1>4. PICK r : r = [w EXCEPT !.pc = "decide", !.id = Known(w.data)]
  OBVIOUS
<1>5. Known(w.data) \in 0..MaxId
  BY <1>2, <1>3, Widths DEF RoomFor, QuietSound
<1>6. /\ r \in WriteRecs /\ r.pc = "decide" /\ r.id = Known(w.data) /\ r.opened = w.opened
      /\ r.file = w.file /\ r.slot = w.slot /\ r.data = w.data
  BY <1>3, <1>4, <1>5 DEF WriteRecs, WritePlaces
<1>7. Continue(t, r)
  BY <1>1, <1>3, <1>4 DEF Compare, Kept, Known
<1>8. UNCHANGED <<names, ptr, hashes, block, lastId, temp, tempData, written>> /\ made' = TRUE
  BY DEF Compare, vars
<1>9. quiet' = quiet
  BY <1>6, <1>7, GoesOn
<1>10. Searches(r)'
  BY <1>3, <1>6, <1>8, <1>9 DEF Searches, Kept, Known
<1> QED
  BY <1>1, <1>2, <1>6, <1>7, <1>8, <1>10, WriteGoesOn

LEMMA DecideInv ==
  ASSUME StepsInv, NEW t, Threads = {t}, NoteQuiet, Decide(t)
  PROVE  GoodStep
<1>1. PICK w : w = th[t]
  OBVIOUS
<1>2. Writing(w) /\ w.pc = "decide" /\ QuietSound
  BY <1>1, WhereItIs, QuietIsSound DEF Decide, At, WritePlaces, StepsInv
<1>3. /\ w \in WriteRecs /\ Searches(w) /\ RoomFor(w.data) /\ Kept
      /\ w.opened = 0 /\ w.id = Known(w.data)
  BY <1>2 DEF Writing, WriteBegun, Searches, AddsBlock, SharesBlock
<1>4. PICK r : r = [w EXCEPT !.pc = IF w.id > quiet.lastId THEN "open" ELSE "find"]
  OBVIOUS
<1>5. /\ r \in WriteRecs /\ r.pc = IF w.id > quiet.lastId THEN "open" ELSE "find"
      /\ r.id = w.id /\ r.opened = w.opened
      /\ r.file = w.file /\ r.slot = w.slot /\ r.data = w.data
  BY <1>3, <1>4 DEF WriteRecs, WritePlaces
<1>6. Continue(t, r)
  BY <1>1, <1>3, <1>4 DEF Decide, Kept
<1>7. UNCHANGED <<names, ptr, hashes, block, lastId, made, temp, tempData, written>>
  BY DEF Decide, OnlyLocals, vars
<1>8. quiet' = quiet
  BY <1>5, <1>6, GoesOn DEF WriteRecs, WritePlaces
<1>9. CASE Known(w.data) = quiet.lastId + 1
  <2>1. r.pc = "open"
    BY <1>2, <1>3, <1>5, <1>9 DEF QuietSound
  <2>2. AddsBlock(r)'
    BY <1>3, <1>5, <1>7, <1>8, <1>9, <2>1 DEF AddsBlock, Kept, Known
  <2> QED
    BY <1>1, <1>2, <1>5, <1>6, <1>7, <2>2, WriteGoesOn DEF StepsInv
<1>10. CASE Known(w.data) \in 1..quiet.lastId
  <2>1. r.pc = "find"
    BY <1>2, <1>3, <1>5, <1>10 DEF QuietSound
  <2>2. SharesBlock(r)'
    BY <1>3, <1>5, <1>7, <1>8, <1>10, <2>1 DEF SharesBlock, Kept, Known
  <2> QED
    BY <1>1, <1>2, <1>5, <1>6, <1>7, <2>2, WriteGoesOn DEF StepsInv
<1> QED
  BY <1>3, <1>9, <1>10 DEF RoomFor

\* The place of the line: behind the last one, or that of an earlier line.
LEMMA PutLineIs ==
  ASSUME hashes \in Seq(Lines), NEW pos \in 1..(Len(hashes) + 1), NEW line \in Lines,
         PutLine(pos, line)
  PROVE  /\ pos = Len(hashes) + 1 => hashes' = Append(hashes, line)
         /\ pos <= Len(hashes) => hashes' = [hashes EXCEPT ![pos] = line]
<1> DEFINE n == IF pos > Len(hashes) THEN pos ELSE Len(hashes)
<1>1. hashes' = [p \in 1..n |-> IF p = pos THEN line ELSE hashes[p]]
  BY DEF PutLine
<1>2. Len(hashes) \in Nat /\ DOMAIN hashes = 1..Len(hashes)
  OBVIOUS
<1>3. ASSUME pos = Len(hashes) + 1
      PROVE  hashes' = Append(hashes, line)
  <2>1. n = Len(hashes) + 1
    BY <1>2, <1>3
  <2>2. /\ Append(hashes, line) \in Seq(Lines)
        /\ Len(Append(hashes, line)) = Len(hashes) + 1
        /\ \A p \in 1..Len(hashes) : Append(hashes, line)[p] = hashes[p]
        /\ Append(hashes, line)[Len(hashes) + 1] = line
    BY AppendProperties
  <2>3. Append(hashes, line) = [p \in 1..(Len(hashes) + 1) |-> Append(hashes, line)[p]]
    <3>1. Append(hashes, line) \in [1..(Len(hashes) + 1) -> Lines]
      BY <2>2, LenProperties
    <3> QED
      BY <3>1, Zenon
  <2>4. \A p \in 1..(Len(hashes) + 1) :
          Append(hashes, line)[p] = IF p = pos THEN line ELSE hashes[p]
    BY <1>2, <1>3, <2>2
  <2> QED
    BY <1>1, <2>1, <2>3, <2>4
<1>4. ASSUME pos <= Len(hashes)
      PROVE  hashes' = [hashes EXCEPT ![pos] = line]
  <2>1. n = Len(hashes)
    <3>1. ~ (pos > Len(hashes))
      BY <1>2, <1>4
    <3> QED
      BY <3>1
  <2>2. hashes = [p \in 1..Len(hashes) |-> hashes[p]]
    BY <1>2
  <2> QED
    BY <1>1, <1>2, <2>1, <2>2
<1> QED
  BY <1>3, <1>4

\* A write of new data: what its places have in common.
LEMMA AddingWrite ==
  ASSUME StepsInv, NEW w, Writing(w), w.pc \in {"open", "take", "bump", "flush"}
  PROVE  /\ QuietSound /\ w \in WriteRecs
         /\ AddsBlock(w)
         /\ w.id = quiet.lastId + 1 /\ w.id \in Ids
<1>1. QuietSound
  BY QuietIsSound DEF StepsInv
<1>2. AddsBlock(w) /\ w \in WriteRecs /\ RoomFor(w.data)
  BY DEF Writing, WriteBegun, Searches, SharesBlock
<1>3. w.id = quiet.lastId + 1
  BY <1>2 DEF AddsBlock
<1>4. w.id \in Ids
  BY <1>1, <1>2, <1>3, Widths DEF AddsBlock, RoomFor, QuietSound, Ids
<1> QED
  BY <1>1, <1>2, <1>3, <1>4

LEMMA OpenBlockInv ==
  ASSUME StepsInv, NEW t, Threads = {t}, NoteQuiet, OpenBlock(t)
  PROVE  GoodStep
<1>1. PICK w : w = th[t]
  OBVIOUS
<1>2. Writing(w) /\ w.pc = "open"
  BY <1>1, WhereItIs DEF OpenBlock, At, WritePlaces
<1>3. /\ QuietSound /\ w \in WriteRecs /\ AddsBlock(w)
      /\ w.id = quiet.lastId + 1 /\ w.id \in Ids
  BY <1>2, AddingWrite
<1>4. PICK r : r = [w EXCEPT !.pc = "take", !.opened = w.id]
  OBVIOUS
<1>5. /\ r \in WriteRecs /\ r.pc = "take" /\ r.id = w.id /\ r.opened = w.id
      /\ r.file = w.file /\ r.slot = w.slot /\ r.data = w.data
  BY <1>3, <1>4 DEF WriteRecs, WritePlaces, Ids
<1>6. lastId + 1 = w.id /\ hashes = quiet.hashes /\ block = quiet.block
  BY <1>2, <1>3 DEF AddsBlock
<1>7. /\ Continue(t, r)
      /\ block' = [block EXCEPT ![w.id] = Empty]
      /\ UNCHANGED <<names, ptr, hashes, lastId, made, temp, tempData, written>>
  BY <1>1, <1>4, <1>6 DEF OpenBlock
<1>8. quiet' = quiet
  BY <1>5, <1>7, GoesOn
<1>9. AddsBlock(r)'
  BY <1>2, <1>3, <1>5, <1>6, <1>7, <1>8 DEF AddsBlock, Known
<1> QED
  BY <1>1, <1>2, <1>5, <1>7, <1>9, WriteGoesOn DEF StepsInv

LEMMA TakeIdInv ==
  ASSUME StepsInv, NEW t, Threads = {t}, NoteQuiet, TakeId(t)
  PROVE  GoodStep
<1>1. PICK w : w = th[t]
  OBVIOUS
<1>2. Writing(w) /\ w.pc = "take"
  BY <1>1, WhereItIs DEF TakeId, At, WritePlaces
<1>3. /\ QuietSound /\ w \in WriteRecs /\ AddsBlock(w)
      /\ w.id = quiet.lastId + 1 /\ w.id \in Ids
  BY <1>2, AddingWrite
<1>4. PICK r : r = [w EXCEPT !.pc = "find", !.id = w.id]
  OBVIOUS
<1>5. /\ r \in WriteRecs /\ r.pc = "find" /\ r.id = w.id /\ r.opened = w.opened
      /\ r.file = w.file /\ r.slot = w.slot /\ r.data = w.data
  BY <1>3, <1>4 DEF WriteRecs, WritePlaces, Ids
<1>6. lastId + 1 = w.id
  BY <1>2, <1>3 DEF AddsBlock
<1>7. /\ Continue(t, r)
      /\ UNCHANGED <<names, ptr, hashes, block, lastId, made, temp, tempData, written>>
  BY <1>1, <1>4, <1>6 DEF TakeId, OnlyLocals, vars
<1>8. quiet' = quiet
  BY <1>5, <1>7, GoesOn
<1>9. AddsBlock(r)'
  BY <1>2, <1>3, <1>5, <1>7, <1>8 DEF AddsBlock, Known
<1> QED
  BY <1>1, <1>2, <1>5, <1>7, <1>9, WriteGoesOn DEF StepsInv

LEMMA FindLineInv ==
  ASSUME StepsInv, NEW t, Threads = {t}, NoteQuiet, FindLine(t)
  PROVE  GoodStep
<1>1. PICK w : w = th[t]
  OBVIOUS
<1>2. Writing(w) /\ w.pc = "find" /\ QuietSound
  BY <1>1, WhereItIs, QuietIsSound DEF FindLine, At, WritePlaces, StepsInv
<1>3. w \in WriteRecs /\ RoomFor(w.data) /\ (AddsBlock(w) \/ SharesBlock(w))
  BY <1>2 DEF Writing, WriteBegun, Searches
<1>4. hashes = quiet.hashes /\ lastId = quiet.lastId /\ w.id = Known(w.data)
  BY <1>2, <1>3 DEF AddsBlock, SharesBlock
<1>5. PICK u : u = IF w.id > quiet.lastId THEN 1 ELSE quiet.hashes[w.id].usage + 1
  OBVIOUS
<1>6. /\ w.id \in 1..MaxId /\ u \in 0..MaxUsage
      /\ w.id > quiet.lastId <=> Known(w.data) = quiet.lastId + 1
  BY <1>2, <1>3, <1>4, <1>5, Widths DEF RoomFor, QuietSound
<1>7. PICK r : r = [w EXCEPT !.pc = "line", !.pos = w.id, !.usage = u]
  OBVIOUS
<1>8. /\ r \in WriteRecs /\ r.pc = "line" /\ r.id = w.id /\ r.opened = w.opened
      /\ r.pos = w.id /\ r.usage = u
      /\ r.file = w.file /\ r.slot = w.slot /\ r.data = w.data
  BY <1>3, <1>6, <1>7 DEF WriteRecs, WritePlaces
<1>9. Continue(t, r)
  <2>1. CASE w.id > quiet.lastId
    <3>1. w.id = Len(hashes) + 1 /\ u = 1
      BY <1>2, <1>4, <1>5, <1>6, <2>1 DEF QuietSound
    <3>2. ~ (w.id <= lastId)
      BY <1>2, <1>4, <1>6, <2>1 DEF QuietSound
    <3> QED
      BY <1>1, <1>7, <3>1, <3>2 DEF FindLine
  <2>2. CASE ~ (w.id > quiet.lastId)
    BY <1>1, <1>4, <1>5, <1>7, <2>2 DEF FindLine
  <2> QED
    BY <2>1, <2>2
<1>10. UNCHANGED <<names, ptr, hashes, block, lastId, made, temp, tempData, written>>
  BY DEF FindLine, OnlyLocals, vars
<1>11. quiet' = quiet
  BY <1>8, <1>9, GoesOn
<1>12. ASSUME AddsBlock(w) PROVE AddsBlock(r)'
  <2>1. u = 1
    BY <1>5, <1>6, <1>12 DEF AddsBlock
  <2> QED
    BY <1>2, <1>8, <1>10, <1>11, <1>12, <2>1 DEF AddsBlock, Known
<1>13. ASSUME SharesBlock(w) PROVE SharesBlock(r)'
  <2>1. u = quiet.hashes[w.id].usage + 1
    BY <1>2, <1>5, <1>13 DEF SharesBlock, QuietSound
  <2> QED
    BY <1>2, <1>8, <1>10, <1>11, <1>13, <2>1 DEF SharesBlock, Known
<1> QED
  BY <1>1, <1>2, <1>3, <1>8, <1>9, <1>10, <1>12, <1>13, WriteGoesOn DEF StepsInv

LEMMA WriteLineInv ==
  ASSUME StepsInv, NEW t, Threads = {t}, NoteQuiet, WriteLine(t)
  PROVE  GoodStep
<1>1. PICK w : w = th[t]
  OBVIOUS
<1>2. Writing(w) /\ w.pc = "line" /\ QuietSound
  BY <1>1, WhereItIs, QuietIsSound DEF WriteLine, At, WritePlaces, StepsInv
<1>3. w \in WriteRecs /\ RoomFor(w.data) /\ (AddsBlock(w) \/ SharesBlock(w))
  BY <1>2 DEF Writing, WriteBegun, Searches
<1>4. /\ hashes = quiet.hashes /\ lastId = quiet.lastId /\ w.id = Known(w.data) /\ w.pos = w.id
      /\ w.id \in 1..MaxId /\ w.usage \in 0..MaxUsage /\ w.data \in Contents
      /\ hashes \in Seq(Lines) /\ Len(hashes) = quiet.lastId /\ quiet.lastId \in Nat
  BY <1>2, <1>3, Widths DEF AddsBlock, SharesBlock, RoomFor, QuietSound, WriteRecs
<1>5. PICK line : line = Line(w.id, w.usage, HashOf[w.data])
  OBVIOUS
<1>6. line \in Lines
  BY <1>4, <1>5, HashInjective DEF Line, Lines, Ids
<1>7. PICK r : r = [w EXCEPT !.pc = IF w.opened = 0 THEN "return" ELSE "bump"]
  OBVIOUS
<1>8. /\ r \in WriteRecs /\ r.pc = IF w.opened = 0 THEN "return" ELSE "bump"
      /\ r.id = w.id /\ r.opened = w.opened
      /\ r.file = w.file /\ r.slot = w.slot /\ r.data = w.data
  BY <1>3, <1>7 DEF WriteRecs, WritePlaces
<1>9. /\ PutLine(w.id, line) /\ Continue(t, r)
      /\ UNCHANGED <<names, ptr, block, lastId, made, temp, tempData, written>>
  BY <1>1, <1>4, <1>5, <1>7 DEF WriteLine
<1>10. quiet' = quiet
  BY <1>8, <1>9, GoesOn
<1>11. ASSUME AddsBlock(w) PROVE AddsBlock(r)'
  <2>1. w.id = Len(hashes) + 1 /\ w.usage = 1 /\ w.opened # 0
    BY <1>2, <1>4, <1>11 DEF AddsBlock
  <2>2. hashes' = Append(hashes, line)
    BY <1>4, <1>6, <1>9, <2>1, PutLineIs
  <2>3. hashes' = AppendLine(quiet.hashes, w.id, HashOf[w.data])
    BY <1>4, <1>5, <2>1, <2>2 DEF AppendLine
  <2> QED
    BY <1>2, <1>4, <1>8, <1>9, <1>10, <1>11, <2>1, <2>3 DEF AddsBlock, Known
<1>12. ASSUME SharesBlock(w) PROVE SharesBlock(r)'
  <2>1. w.id \in 1..Len(hashes) /\ w.usage = quiet.hashes[w.id].usage + 1 /\ w.opened = 0
    BY <1>2, <1>4, <1>12 DEF SharesBlock
  <2>2. hashes' = [hashes EXCEPT ![w.id] = line]
    BY <1>4, <1>6, <1>9, <2>1, PutLineIs
  <2>3. hashes' = CountOneMore(quiet.hashes, w.id, HashOf[w.data])
    BY <1>4, <1>5, <2>1, <2>2 DEF CountOneMore
  <2> QED
    BY <1>2, <1>4, <1>8, <1>9, <1>10, <1>12, <2>1, <2>3 DEF SharesBlock, Known
<1> QED
  BY <1>1, <1>2, <1>3, <1>8, <1>9, <1>11, <1>12, WriteGoesOn DEF StepsInv

LEMMA BumpInv ==
  ASSUME StepsInv, NEW t, Threads = {t}, NoteQuiet, Bump(t)
  PROVE  GoodStep
<1>1. PICK w : w = th[t]
  OBVIOUS
<1>2. Writing(w) /\ w.pc = "bump"
  BY <1>1, WhereItIs DEF Bump, At, WritePlaces
<1>3. /\ QuietSound /\ w \in WriteRecs /\ AddsBlock(w)
      /\ w.id = quiet.lastId + 1 /\ w.id \in Ids
  BY <1>2, AddingWrite
<1>4. PICK r : r = [w EXCEPT !.pc = "flush"]
  OBVIOUS
<1>5. /\ r \in WriteRecs /\ r.pc = "flush" /\ r.id = w.id /\ r.opened = w.opened
      /\ r.file = w.file /\ r.slot = w.slot /\ r.data = w.data
  BY <1>3, <1>4 DEF WriteRecs, WritePlaces, Ids
<1>6. lastId + 1 = w.id
  BY <1>2, <1>3 DEF AddsBlock
<1>7. /\ Continue(t, r) /\ lastId' = w.id
      /\ UNCHANGED <<names, ptr, hashes, block, made, temp, tempData, written>>
  BY <1>1, <1>4, <1>6 DEF Bump
<1>8. quiet' = quiet
  BY <1>5, <1>7, GoesOn
<1>9. AddsBlock(r)'
  BY <1>2, <1>3, <1>5, <1>7, <1>8 DEF AddsBlock, Known
<1> QED
  BY <1>1, <1>2, <1>5, <1>7, <1>9, WriteGoesOn DEF StepsInv

LEMMA FlushBlockInv ==
  ASSUME StepsInv, NEW t, Threads = {t}, NoteQuiet, FlushBlock(t)
  PROVE  GoodStep
<1>1. PICK w : w = th[t]
  OBVIOUS
<1>2. Writing(w) /\ w.pc = "flush"
  BY <1>1, WhereItIs DEF FlushBlock, At, WritePlaces
<1>3. /\ QuietSound /\ w \in WriteRecs /\ AddsBlock(w)
      /\ w.id = quiet.lastId + 1 /\ w.id \in Ids
  BY <1>2, AddingWrite
<1>4. PICK r : r = [w EXCEPT !.pc = "return"]
  OBVIOUS
<1>5. /\ r \in WriteRecs /\ r.pc = "return" /\ r.id = w.id /\ r.opened = w.opened
      /\ r.file = w.file /\ r.slot = w.slot /\ r.data = w.data
  BY <1>3, <1>4 DEF WriteRecs, WritePlaces, Ids
<1>6. w.opened = w.id /\ block = [quiet.block EXCEPT ![w.id] = Empty] /\ block[w.id] = Empty
  BY <1>2, <1>3 DEF AddsBlock, QuietSound
<1>7. block' = [quiet.block EXCEPT ![w.id] = w.data]
  <2>1. Empty # NoBlock
    BY EmptyIsOther
  <2>2. block' = [block EXCEPT ![w.id] = w.data]
    BY <1>1, <1>6, <2>1 DEF FlushBlock
  <2> QED
    BY <1>3, <1>6, <2>2 DEF QuietSound
<1>8. /\ Continue(t, r)
      /\ UNCHANGED <<names, ptr, hashes, lastId, made, temp, tempData, written>>
  BY <1>1, <1>4 DEF FlushBlock
<1>9. quiet' = quiet
  BY <1>5, <1>8, GoesOn
<1>10. AddsBlock(r)'
  BY <1>2, <1>3, <1>5, <1>6, <1>7, <1>8, <1>9 DEF AddsBlock, Known
<1> QED
  BY <1>1, <1>2, <1>5, <1>8, <1>10, WriteGoesOn DEF StepsInv

\* What the programs wrote, after a write, is what is behind the pointers then.
LEMMA WrittenIsStored ==
  ASSUME QuietSound, written = Blocks,
         NEW f \in Files, NEW k \in 0..Len(quiet.ptr[f]), k < MaxBlocks,
         NEW id \in Ids, NEW c \in Contents,
         NEW b, b[id] = c, \A i \in 1..quiet.lastId : b[i] = quiet.block[i],
         NEW p, p = PutAt(quiet.ptr, f, SlotOf(k), id)
  PROVE  [written EXCEPT ![f] = PutPointer(written[f], k, c)] = Stored(p, b)
<1> DEFINE x == quiet.ptr[f]
           d == written[f]
           y == PutPointer(x, k, id)
           z == PutPointer(d, k, c)
<1>1. x \in Seq(Ids) /\ Len(x) \in Nat /\ Len(x) <= MaxBlocks
  BY DEF QuietSound, PtrTables
<1>2. d = [n \in 1..Len(x) |-> quiet.block[x[n]]]
  BY DEF Blocks, Stored
<1>3. d \in Seq(Contents) /\ Len(d) = Len(x)
  <2>1. \A n \in 1..Len(x) : quiet.block[x[n]] \in Contents
    BY DEF QuietSound
  <2> HIDE DEF x, d
  <2> QED
    BY <1>1, <1>2, <2>1
<1>4. SlotOf(k) = k
  <2>1. k \in 0..150
    BY <1>1, Widths
  <2> QED
    BY <2>1, SlotIsIndex
<1>5. /\ y \in Seq(Ids) /\ Len(y) = IF k < Len(x) THEN Len(x) ELSE k + 1
      /\ \A n \in 1..Len(y) : y[n] = IF n = k + 1 THEN id ELSE x[n]
  <2>1. k \in 0..Len(x)
    OBVIOUS
  <2> HIDE DEF x
  <2> QED
    BY <1>1, <2>1, PutPointerResult
<1>6. /\ z \in Seq(Contents) /\ Len(z) = IF k < Len(x) THEN Len(x) ELSE k + 1
      /\ \A n \in 1..Len(z) : z[n] = IF n = k + 1 THEN c ELSE d[n]
  <2>1. PICK e : e = d
    OBVIOUS
  <2>2. e \in Seq(Contents) /\ k \in 0..Len(e) /\ Len(e) = Len(x)
    BY <1>3, <2>1
  <2> HIDE DEF x, d, z
  <2>3. /\ PutPointer(e, k, c) \in Seq(Contents)
        /\ Len(PutPointer(e, k, c)) = IF k < Len(e) THEN Len(e) ELSE k + 1
        /\ \A n \in 1..Len(PutPointer(e, k, c)) :
             PutPointer(e, k, c)[n] = IF n = k + 1 THEN c ELSE e[n]
    BY <2>2, PutPointerResult
  <2>4. z = PutPointer(e, k, c)
    BY <2>1 DEF z
  <2> QED
    BY <2>1, <2>2, <2>3, <2>4
<1>7. p[f] = y /\ \A g \in Files \ {f} : p[g] = quiet.ptr[g]
  BY <1>4 DEF QuietSound, PtrTables, PutAt
<1>8. \A g \in Files : \A n \in 1..Len(quiet.ptr[g]) :
        b[quiet.ptr[g][n]] = quiet.block[quiet.ptr[g][n]]
  BY DEF QuietSound
<1>9. z = [n \in 1..Len(y) |-> b[y[n]]]
  <2>1. z = [n \in 1..Len(y) |-> z[n]]
    <3> HIDE DEF z, y
    <3>1. z \in [1..Len(y) -> Contents]
      BY <1>5, <1>6, LenProperties
    <3> QED
      BY <3>1, Zenon
  <2>2. ASSUME NEW n \in 1..Len(y)
        PROVE  z[n] = b[y[n]]
    <3> HIDE DEF y, z
    <3>1. CASE n = k + 1
      BY <1>5, <1>6, <3>1
    <3>2. CASE n # k + 1
      <4>1. n \in 1..Len(x)
        BY <1>1, <1>5, <3>2
      <4>2. z[n] = d[n] /\ y[n] = x[n]
        BY <1>5, <1>6, <3>2
      <4>3. d[n] = quiet.block[x[n]] /\ b[x[n]] = quiet.block[x[n]]
        BY <1>2, <1>8, <4>1
      <4> QED
        BY <4>2, <4>3
    <3> QED
      BY <3>1, <3>2
  <2> HIDE DEF y, z
  <2> QED
    BY <2>1, <2>2
<1>10. ASSUME NEW g \in Files \ {f}
       PROVE  written[g] = [n \in 1..Len(p[g]) |-> b[p[g][n]]]
  <2>1. written[g] = [n \in 1..Len(quiet.ptr[g]) |-> quiet.block[quiet.ptr[g][n]]]
    BY DEF Blocks, Stored
  <2>2. \A n \in 1..Len(quiet.ptr[g]) : b[quiet.ptr[g][n]] = quiet.block[quiet.ptr[g][n]]
    BY <1>8
  <2> QED
    BY <1>7, <2>1, <2>2
<1>11. written = [g \in Files |-> written[g]]
  BY DEF Blocks, Stored
<1> HIDE DEF z, y
<1>12. [written EXCEPT ![f] = z] = [g \in Files |-> IF g = f THEN z ELSE written[g]]
  BY <1>11
<1>13. ASSUME NEW g \in Files
       PROVE  (IF g = f THEN z ELSE written[g]) = [n \in 1..Len(p[g]) |-> b[p[g][n]]]
  <2>1. CASE g = f
    BY <1>7, <1>9, <2>1
  <2>2. CASE g # f
    BY <1>10, <2>2
  <2> QED
    BY <2>1, <2>2
<1>14. [written EXCEPT ![f] = z] = [g \in Files |-> [n \in 1..Len(p[g]) |-> b[p[g][n]]]]
  BY <1>12, <1>13
<1> QED
  BY <1>14 DEF z, Stored

\* The end of a request: quiet becomes the store.
LEMMA AtRest ==
  ASSUME StepsInv, NEW t, Threads = {t}, NoteQuiet, th'[t] = Idle
  PROVE  /\ quiet.names' = names'
         /\ quiet.ptr' = ptr'
         /\ quiet.hashes' = hashes'
         /\ quiet.block' = block'
         /\ quiet.lastId' = lastId'
         /\ Kept'
<1>1. quiet' = store'
  BY DEF NoteQuiet
<1>2. /\ quiet'.names = names' /\ quiet'.ptr = ptr' /\ quiet'.hashes = hashes'
      /\ quiet'.block = block' /\ quiet'.lastId = lastId'
  BY <1>1 DEF store
<1> QED
  BY <1>2 DEF Kept

LEMMA Ends ==
  ASSUME StepsInv, NEW t, Threads = {t}, NoteQuiet, th'[t] = Idle,
         th' = [u \in Threads |-> th'[u]], [Q!Next]_(Q!vars),
         NoTempFile', written' = Blocks', made' \in BOOLEAN
  PROVE  GoodStep
<1>1. Q!Inv'
  BY Q!NextInv, HashInjective, NoBlockIsNoContent, FilesFinite, Widths, QuietOperators
  DEF StepsInv
<1>2. Resting(t)'
  BY AtRest DEF Resting, Idle
<1> QED
  BY <1>1, <1>2 DEF StepsInv, Place, GoodStep

\* The pwrite that ends bb_write: together the steps are one write of BlockStore.
LEMMA StorePointerInv ==
  ASSUME StepsInv, NEW t, Threads = {t}, NoteQuiet, StorePointer(t)
  PROVE  GoodStep
<1>1. PICK w : w = th[t]
  OBVIOUS
<1>2. Writing(w) /\ w.pc = "return" /\ QuietSound
  BY <1>1, WhereItIs, QuietIsSound DEF StorePointer, At, WritePlaces, StepsInv
<1>3. WriteBegun(w) /\ (AddsBlock(w) \/ SharesBlock(w)) /\ w.id = Known(w.data)
  BY <1>2 DEF Writing, Searches, AddsBlock, SharesBlock
<1>4. /\ w.file \in quiet.names /\ w.file \in Files /\ w.data \in Contents
      /\ w.slot \in 0..Len(quiet.ptr[w.file]) /\ w.slot < MaxBlocks
      /\ names = quiet.names /\ ptr = quiet.ptr /\ NoTempFile
  BY <1>3 DEF WriteBegun, WriteRecs
<1>5. w.id \in Ids
  BY <1>2, <1>3, Widths DEF WriteBegun, RoomFor, QuietSound, Ids
<1>6. ReturnedId(t) = w.id
  BY <1>1, <1>2, <1>3 DEF ReturnedId, AddsBlock, SharesBlock
<1>7. /\ th' = [th EXCEPT ![t] = Idle]
      /\ ptr' = [quiet.ptr EXCEPT ![w.file] = PutPointer(@, SlotOf(w.slot), w.id)]
      /\ written' = [written EXCEPT ![w.file] = PutPointer(@, w.slot, w.data)]
      /\ UNCHANGED <<names, hashes, block, lastId, made, temp, tempData>>
  BY <1>1, <1>4, <1>6 DEF StorePointer, Continue
<1>8. th'[t] = Idle /\ th' = [u \in Threads |-> th'[u]]
  BY <1>7 DEF StepsInv
<1>9. /\ quiet.names' = names' /\ quiet.ptr' = ptr' /\ quiet.hashes' = hashes'
      /\ quiet.block' = block' /\ quiet.lastId' = lastId'
  BY <1>8, AtRest
<1>10. Q!SetPointer(w.file, w.slot, w.id)
  BY <1>4, <1>7, <1>9 DEF Q!SetPointer, Q!PutPointer, PutPointer, Q!SlotOf, SlotOf,
     Q!BlockSize, BlockSize, Q!SlotSize, SlotSize, Q!Hole, Hole
<1>11. ASSUME AddsBlock(w)
       PROVE  /\ Q!WriteNew(w.file, w.slot, w.data)
              /\ block'[w.id] = w.data
              /\ \A i \in 1..quiet.lastId : block'[i] = quiet.block[i]
  <2>1. /\ w.id = quiet.lastId + 1 /\ quiet.lastId < MaxId /\ quiet.lastId \in Nat
        /\ hashes = AppendLine(quiet.hashes, w.id, HashOf[w.data])
        /\ lastId = w.id
        /\ block = [quiet.block EXCEPT ![w.id] = w.data]
    BY <1>2, <1>3, <1>11 DEF AddsBlock, WriteBegun, RoomFor, QuietSound
  <2>2. Q!CompareHashes(quiet.hashes, quiet.lastId, HashOf[w.data]) > quiet.lastId
    <3>1. Q!CompareHashes(quiet.hashes, quiet.lastId, HashOf[w.data]) = w.id
      BY <1>3, QuietOperators DEF Known
    <3> QED
      BY <2>1, <3>1
  <2>3. Q!WriteNew(w.file, w.slot, w.data)
    BY <1>7, <1>9, <1>10, <2>1, <2>2
    DEF Q!WriteNew, Q!AppendLine, AppendLine, Q!Line, Line
  <2>4. \A i \in 1..quiet.lastId : i # w.id /\ i \in Ids
    BY <2>1, Widths DEF Ids
  <2> QED
    BY <1>2, <1>5, <1>7, <2>1, <2>3, <2>4 DEF QuietSound
<1>12. ASSUME SharesBlock(w)
       PROVE  /\ Q!WriteShared(w.file, w.slot, w.data)
              /\ block'[w.id] = w.data
              /\ \A i \in 1..quiet.lastId : block'[i] = quiet.block[i]
  <2>1. /\ w.id \in 1..quiet.lastId /\ quiet.hashes[w.id].usage < MaxUsage
        /\ hashes = CountOneMore(quiet.hashes, w.id, HashOf[w.data])
        /\ lastId = quiet.lastId /\ block = quiet.block
    BY <1>2, <1>3, <1>12 DEF SharesBlock, WriteBegun, RoomFor, QuietSound
  <2>2. Q!CompareHashes(quiet.hashes, quiet.lastId, HashOf[w.data]) = w.id
    BY <1>3, QuietOperators DEF Known
  <2>3. Q!WriteShared(w.file, w.slot, w.data)
    BY <1>2, <1>7, <1>9, <1>10, <2>1, <2>2
    DEF Q!WriteShared, Q!CountOneMore, CountOneMore, Q!Line, Line, QuietSound
  <2>4. quiet.hashes[w.id].usage # 0 /\ quiet.hashes[w.id].hash = HashOf[w.data]
    BY <1>2, <1>3, <2>1, KnownIs DEF QuietSound
  <2>5. quiet.block[w.id] = w.data
    BY <1>2, <1>4, <2>1, <2>4, HashInjective DEF QuietSound
  <2> QED
    BY <1>7, <2>1, <2>3, <2>5
<1>13. w.slot \in 0..MaxBlocks
  <2>1. PICK k : k = w.slot
    OBVIOUS
  <2>2. k \in Nat /\ k < MaxBlocks
    <3>1. w.slot \in Nat
      BY <1>3 DEF WriteBegun, WriteRecs
    <3> QED
      BY <1>4, <2>1, <3>1
  <2>3. MaxBlocks \in Nat
    BY Widths
  <2>4. k \in 0..MaxBlocks
    BY <2>2, <2>3
  <2> QED
    BY <2>1, <2>4
<1>14. Q!Next
  BY <1>3, <1>4, <1>11, <1>12, <1>13 DEF Q!Next, Q!Write
<1>15. written' = Blocks'
  <2>1. written = Blocks
    BY DEF StepsInv
  <2>2. PICK b, p, f, k, id, c : /\ b = block' /\ p = ptr'
                                 /\ f = w.file /\ k = w.slot /\ id = w.id /\ c = w.data
    OBVIOUS
  <2>3. /\ b[id] = c /\ \A i \in 1..quiet.lastId : b[i] = quiet.block[i]
        /\ p = PutAt(quiet.ptr, f, SlotOf(k), id)
    BY <1>3, <1>7, <1>11, <1>12, <2>2 DEF PutAt
  <2>4. /\ f \in Files /\ k \in 0..Len(quiet.ptr[f]) /\ k < MaxBlocks
        /\ id \in Ids /\ c \in Contents
    BY <1>4, <1>5, <2>2
  <2>5. [written EXCEPT ![f] = PutPointer(written[f], k, c)] = Stored(p, b)
    BY <1>2, <2>1, <2>3, <2>4, WrittenIsStored
  <2> QED
    BY <1>7, <1>9, <2>2, <2>5 DEF Blocks
<1>16. NoTempFile' /\ made' \in BOOLEAN
  BY <1>4, <1>7 DEF NoTempFile, StepsInv
<1> QED
  BY <1>8, <1>14, <1>15, <1>16, Ends

-----------------------------------------------------------------------------
(* bb_unlink, step by step.                                                *)

\* Counting the pointers of one file, up to the first n.
LEMMA DoneIs ==
  ASSUME NEW S, NEW ids \in Seq(S), NEW n \in 0..Len(ids), NEW p
  PROVE  /\ Done(ids, n, p) \in Nat
         /\ n = 0 => Done(ids, n, p) = 0
         /\ n = Len(ids) => Done(ids, n, p) = Occurrences(ids, p)
         /\ Done(ids, n, p) <= Occurrences(ids, p)
         /\ Occurrences(ids, p) \in Nat
<1> DEFINE at(m) == {k \in 1..m : ids[k] = p}
<1>1. \A m \in Nat : IsFiniteSet(at(m)) /\ Cardinality(at(m)) \in Nat
  <2>1. ASSUME NEW m \in Nat
        PROVE  IsFiniteSet(at(m))
    <3>1. IsFiniteSet(1..m) /\ at(m) \in SUBSET (1..m)
      BY FS_Interval
    <3> HIDE DEF at
    <3> QED
      BY <3>1, FS_Subset
  <2> QED
    BY <2>1, FS_CardinalityType
<1>2. Len(ids) \in Nat /\ n \in Nat
  BY LenProperties
<1>3. Done(ids, n, p) = Cardinality(at(n)) /\ Occurrences(ids, p) = Cardinality(at(Len(ids)))
  BY DEF Done, Occurrences
<1>4. at(n) \in SUBSET at(Len(ids))
  BY <1>2
<1>5. n = 0 => at(n) = {}
  OBVIOUS
<1> HIDE DEF at
<1>6. Cardinality(at(n)) <= Cardinality(at(Len(ids)))
  BY <1>1, <1>2, <1>4, FS_Subset
<1>7. n = 0 => Cardinality(at(n)) = 0
  BY <1>1, <1>2, <1>5, FS_EmptySet
<1> QED
  BY <1>1, <1>2, <1>3, <1>6, <1>7

LEMMA OneMoreDone ==
  ASSUME NEW S, NEW ids \in Seq(S), NEW n \in 0..(Len(ids) - 1), NEW p
  PROVE  Done(ids, n + 1, p) = Done(ids, n, p) + (IF ids[n + 1] = p THEN 1 ELSE 0)
<1> DEFINE at(m) == {k \in 1..m : ids[k] = p}
<1>1. Len(ids) \in Nat /\ n \in Nat
  BY LenProperties
<1>2. IsFiniteSet(at(n))
  <2>1. IsFiniteSet(1..n)
    BY <1>1, FS_Interval
  <2>2. at(n) \in SUBSET (1..n)
    OBVIOUS
  <2> HIDE DEF at
  <2> QED
    BY <2>1, <2>2, FS_Subset
<1>3. Done(ids, n, p) = Cardinality(at(n)) /\ Done(ids, n + 1, p) = Cardinality(at(n + 1))
  BY DEF Done
<1>4. CASE ids[n + 1] = p
  <2>1. at(n + 1) = at(n) \cup {n + 1} /\ n + 1 \notin at(n)
    BY <1>1, <1>4
  <2> HIDE DEF at
  <2> QED
    BY <1>2, <1>3, <1>4, <2>1, FS_AddElement
<1>5. CASE ids[n + 1] # p
  <2>1. at(n + 1) = at(n)
    BY <1>1, <1>5
  <2> HIDE DEF at
  <2>2. Cardinality(at(n)) \in Nat
    BY <1>2, FS_CardinalityType
  <2> QED
    BY <1>3, <1>5, <2>1, <2>2
<1> QED
  BY <1>4, <1>5

\* The counter of a block covers the pointers of a file, and one more if another
\* file has a pointer to it.
LEMMA CountersSuffice ==
  ASSUME QuietSound, NEW f \in Files, NEW p \in 1..quiet.lastId
  PROVE  /\ Occurrences(quiet.ptr[f], p) <= quiet.hashes[p].usage
         /\ \A g \in Files \ {f} : \A k \in 1..Len(quiet.ptr[g]) :
              quiet.ptr[g][k] = p => Occurrences(quiet.ptr[f], p) < quiet.hashes[p].usage
<1> DEFINE q == Emptied(quiet.ptr, f)
           all == Cardinality(RefsOf(quiet.ptr, p))
           rest == Cardinality(RefsOf(q, p))
           own == Occurrences(quiet.ptr[f], p)
<1>1. quiet.ptr \in PtrTables /\ quiet.ptr[f] \in Seq(Ids)
      /\ all <= quiet.hashes[p].usage /\ quiet.hashes[p].usage \in Nat
  BY DEF QuietSound, PtrTables
<1>2. all \in Nat /\ rest \in Nat
  BY RefsOfFinite
<1>3. own \in Nat
  BY <1>1, OccurrencesResult
<1>4. rest = all - own
  BY <1>1, RefsOfEmptied
<1>5. q \in PtrTables /\ \A g \in Files \ {f} : q[g] = quiet.ptr[g]
  BY <1>1, Widths DEF PtrTables, Emptied
<1>6. ASSUME NEW g \in Files \ {f}, NEW k \in 1..Len(quiet.ptr[g]), quiet.ptr[g][k] = p
      PROVE  rest >= 1
  <2>1. k \in 1..Len(q[g]) /\ q[g][k] = p
    BY <1>5, <1>6
  <2> HIDE DEF q
  <2> QED
    BY <1>5, <2>1, RefIsCounted
<1> HIDE DEF all, rest, own, q
<1>7. own <= quiet.hashes[p].usage
  BY <1>1, <1>2, <1>3, <1>4
<1>8. rest >= 1 => own < quiet.hashes[p].usage
  BY <1>1, <1>2, <1>3, <1>4
<1> QED
  BY <1>6, <1>7, <1>8 DEF own

\* What the loop of delete_blocks finds after n rounds.
LEMMA ReleasingFinds ==
  ASSUME QuietSound, NEW w, w \in RemoveRecs,
         NEW all, all = quiet.ptr[w.file], NEW n \in 0..Len(all), Releasing(w, all, n)
  PROVE  /\ all \in Seq(Ids) /\ Len(all) \in Nat
         /\ \A k \in 1..Len(all) : all[k] \in 1..quiet.lastId /\ all[k] \in Ids
         /\ hashes \in Seq(Lines) /\ Len(hashes) = quiet.lastId /\ DOMAIN hashes = 1..quiet.lastId
         /\ \A p \in 1..quiet.lastId :
              /\ hashes[p] \in Lines
              /\ hashes[p].id = p
              /\ hashes[p].usage = quiet.hashes[p].usage - Done(all, n, p)
              /\ hashes[p].usage \in 0..MaxUsage
              /\ hashes[p].hash = quiet.hashes[p].hash
<1>1. w.file \in Files
  BY DEF RemoveRecs
<1>2. all \in Seq(Ids) /\ Len(all) \in Nat
  BY <1>1 DEF QuietSound, PtrTables
<1>3. \A k \in 1..Len(all) : all[k] \in 1..quiet.lastId
  BY <1>1 DEF QuietSound
<1>4. \A i \in 1..quiet.lastId : i \in Ids
  BY Widths DEF QuietSound, Ids
<1>5. /\ hashes = [p \in 1..quiet.lastId |->
           Line(p, quiet.hashes[p].usage - Done(all, n, p), quiet.hashes[p].hash)]
      /\ quiet.lastId \in Nat
  <2>1. hashes = LinesAfter(all, n)
    BY DEF Releasing
  <2>2. quiet.lastId \in Nat
    BY DEF QuietSound
  <2> QED
    BY <2>1, <2>2 DEF LinesAfter
<1>6. ASSUME NEW p \in 1..quiet.lastId
      PROVE  /\ hashes[p] \in Lines
             /\ hashes[p].id = p
             /\ hashes[p].usage = quiet.hashes[p].usage - Done(all, n, p)
             /\ hashes[p].usage \in 0..MaxUsage
             /\ hashes[p].hash = quiet.hashes[p].hash
  <2>1. PICK u : u = quiet.hashes[p].usage - Done(all, n, p)
    OBVIOUS
  <2>2. hashes[p] = Line(p, u, quiet.hashes[p].hash)
    BY <1>5, <2>1
  <2>3. quiet.hashes[p].usage \in 0..MaxUsage /\ quiet.hashes[p].hash \in Hashes
    BY DEF QuietSound, Lines
  <2>4. Done(all, n, p) \in Nat /\ Done(all, n, p) <= Occurrences(all, p)
        /\ Occurrences(all, p) \in Nat
    BY <1>2, DoneIs
  <2>5. Occurrences(all, p) <= quiet.hashes[p].usage
    BY <1>1, CountersSuffice
  <2>6. u \in 0..MaxUsage
    BY <2>1, <2>3, <2>4, <2>5, Widths
  <2> QED
    BY <1>4, <2>1, <2>2, <2>3, <2>6 DEF Line, Lines
<1>7. hashes \in Seq(Lines) /\ Len(hashes) = quiet.lastId /\ DOMAIN hashes = 1..quiet.lastId
  <2>1. hashes \in [1..quiet.lastId -> Lines]
    BY <1>5, <1>6
  <2> QED
    BY <1>5, <2>1
<1> QED
  BY <1>2, <1>3, <1>4, <1>6, <1>7

\* While rounds are left, the next pointer leads to a line that is in use.
LEMMA NextRound ==
  ASSUME QuietSound, NEW w, w \in RemoveRecs,
         NEW all, all = quiet.ptr[w.file], NEW n \in 0..Len(all), Releasing(w, all, n)
  PROVE  /\ w.ids = <<>> <=> n = Len(all)
         /\ n < Len(all) => /\ Head(w.ids) = all[n + 1]
                            /\ Tail(w.ids) = SubSeq(all, n + 2, Len(all))
                            /\ Tail(w.ids) \in Seq(Ids)
                            /\ all[n + 1] \in 1..quiet.lastId
                            /\ all[n + 1] \in Ids
                            /\ hashes[all[n + 1]].usage \in 1..MaxUsage
<1>1. /\ all \in Seq(Ids) /\ Len(all) \in Nat
      /\ \A k \in 1..Len(all) : all[k] \in 1..quiet.lastId /\ all[k] \in Ids
      /\ \A p \in 1..quiet.lastId :
           /\ hashes[p].usage = quiet.hashes[p].usage - Done(all, n, p)
           /\ hashes[p].usage \in 0..MaxUsage
  <2>1. all \in Seq(Ids) /\ Len(all) \in Nat
    BY ReleasingFinds, Zenon
  <2>2. \A k \in 1..Len(all) : all[k] \in 1..quiet.lastId /\ all[k] \in Ids
    BY ReleasingFinds, Zenon
  <2>3. \A p \in 1..quiet.lastId :
          /\ hashes[p].usage = quiet.hashes[p].usage - Done(all, n, p)
          /\ hashes[p].usage \in 0..MaxUsage
    <3>1. ASSUME NEW p \in 1..quiet.lastId
          PROVE  hashes[p].usage = quiet.hashes[p].usage - Done(all, n, p)
      BY ReleasingFinds
    <3>2. ASSUME NEW p \in 1..quiet.lastId
          PROVE  hashes[p].usage \in 0..MaxUsage
      BY ReleasingFinds
    <3> QED
      BY <3>1, <3>2
  <2> QED
    BY <2>1, <2>2, <2>3, Zenon
<1>2. w.ids = SubSeq(all, n + 1, Len(all)) /\ w.file \in Files
  BY DEF Releasing, RemoveRecs
<1>3. /\ w.ids \in Seq(Ids)
      /\ Len(w.ids) = Len(all) - n
      /\ \A k \in 1..(Len(all) - n) : w.ids[k] = all[n + k]
  <2>1. PICK m : m = n + 1
    OBVIOUS
  <2>2. m \in Int /\ Len(all) \in Int /\ \A i \in m..Len(all) : all[i] \in Ids
    BY <1>1, <2>1
  <2>3. /\ SubSeq(all, m, Len(all)) \in Seq(Ids)
        /\ Len(SubSeq(all, m, Len(all))) = IF m <= Len(all) THEN Len(all) - m + 1 ELSE 0
        /\ \A i \in 1..(Len(all) - m + 1) : SubSeq(all, m, Len(all))[i] = all[m + i - 1]
    BY <2>2, SubSeqProperties
  <2>4. w.ids = SubSeq(all, m, Len(all))
    BY <1>2, <2>1
  <2>5. Len(w.ids) = Len(all) - n
    BY <1>1, <2>1, <2>3, <2>4
  <2>6. ASSUME NEW k \in 1..(Len(all) - n)
        PROVE  w.ids[k] = all[n + k]
    <3>0. n \in Nat /\ k \in Nat /\ k >= 1 /\ k <= Len(all) - n /\ Len(all) \in Nat
      BY <1>1
    <3>1. k \in 1..(Len(all) - m + 1) /\ m + k - 1 = n + k
      BY <2>1, <3>0
    <3>2. w.ids[k] = all[m + k - 1]
      BY <2>3, <2>4, <3>1
    <3> QED
      BY <3>1, <3>2
  <2> QED
    BY <2>3, <2>4, <2>5, <2>6
<1>4. w.ids = <<>> <=> n = Len(all)
  BY <1>1, <1>3, EmptySeq
<1>5. ASSUME n < Len(all)
      PROVE  /\ Head(w.ids) = all[n + 1]
             /\ Tail(w.ids) = SubSeq(all, n + 2, Len(all))
             /\ Tail(w.ids) \in Seq(Ids)
  <2>1. w.ids # <<>> /\ Head(w.ids) = w.ids[1]
    BY <1>3, <1>4, <1>5, HeadTailProperties
  <2>2. w.ids[1] = all[n + 1]
    BY <1>1, <1>3, <1>5
  <2>3. Tail(w.ids) = SubSeq(all, n + 2, Len(all))
    BY <1>1, <1>2, <1>5
  <2>4. Tail(w.ids) \in Seq(Ids)
    BY <1>3, <2>1, HeadTailProperties
  <2> QED
    BY <2>1, <2>2, <2>3, <2>4
<1>6. ASSUME n < Len(all)
      PROVE  hashes[all[n + 1]].usage \in 1..MaxUsage
  <2>1. PICK p : p = all[n + 1]
    OBVIOUS
  <2>2. n + 1 \in 1..Len(all) /\ n \in 0..(Len(all) - 1) /\ n + 1 \in 0..Len(all)
    BY <1>1, <1>6
  <2>3. p \in 1..quiet.lastId
    BY <1>1, <2>1, <2>2
  <2>4. quiet.hashes[p].usage \in Nat
    BY <2>3 DEF QuietSound
  <2>5. Done(all, n, p) \in Nat
    BY <1>1, DoneIs
  <2>6. Done(all, n + 1, p) <= Occurrences(all, p) /\ Occurrences(all, p) \in Nat
    BY <1>1, <2>2, DoneIs
  <2>7. Done(all, n + 1, p) = Done(all, n, p) + 1
    BY <1>1, <2>1, <2>2, OneMoreDone
  <2>8. Occurrences(all, p) <= quiet.hashes[p].usage
    BY <1>2, <2>3, CountersSuffice
  <2>9. quiet.hashes[p].usage - Done(all, n, p) >= 1
    BY <2>4, <2>5, <2>6, <2>7, <2>8
  <2>10. hashes[p].usage \in 0..MaxUsage /\ hashes[p].usage >= 1
    BY <1>1, <2>3, <2>9
  <2> QED
    BY <2>1, <2>10, Widths
<1>7. ASSUME n < Len(all)
      PROVE  all[n + 1] \in 1..quiet.lastId /\ all[n + 1] \in Ids
  BY <1>1, <1>7
<1> QED
  BY <1>4, <1>5, <1>6, <1>7

\* A step of bb_unlink after which its thread holds r and n rounds are done.
LEMMA RemoveGoesOn ==
  ASSUME StepsInv, NEW t, Threads = {t}, NoteQuiet,
         names = quiet.names, lastId = quiet.lastId, NoTempFile,
         NEW r \in RemoveRecs, r.file \in quiet.names, Continue(t, r),
         UNCHANGED <<names, lastId, made, temp, tempData, written>>,
         NEW all, all = quiet.ptr[r.file], NEW n \in 0..Len(all),
         r.ids = SubSeq(all, n + 1, Len(all)),
         hashes' = LinesAfter(all, n),
         block' = BlocksAfter(hashes', IF r.pc = "release" /\ r.usage = 1 THEN all[n + 1] ELSE 0),
         \/ ptr' = Emptied(quiet.ptr, r.file)
         \/ ptr' = quiet.ptr /\ block' = quiet.block /\ r.pc # "unlink",
         r.pc # "counter" => n < Len(all) /\ r.usage = hashes'[all[n + 1]].usage,
         r.pc \in {"empty", "unlink"} => r.usage = 1,
         r.pc = "release" => r.usage > 0
  PROVE  GoodStep
<1>1. r.pc # "idle"
  BY DEF RemoveRecs
<1>2. /\ th'[t] = r /\ th' = [u \in Threads |-> th'[u]]
      /\ quiet' = quiet /\ UNCHANGED Q!vars /\ Q!Inv' /\ Blocks' = Blocks
  BY <1>1, GoesOn
<1>3. Releasing(r, all, n)'
  BY <1>2 DEF Releasing, LinesAfter, BlocksAfter, Done, Line, Emptied, Ids
<1>4. all = quiet'.ptr[r.file] /\ r.file \in quiet'.names
  BY <1>2
<1>5. RemovingBlocks(r)'
  BY <1>2, <1>3, <1>4 DEF RemovingBlocks, NoTempFile
<1>6. Place(t)'
  BY <1>2, <1>5 DEF Place
<1>7. written' = Blocks' /\ made' \in BOOLEAN
  BY <1>2 DEF StepsInv
<1> QED
  BY <1>2, <1>6, <1>7 DEF StepsInv, GoodStep

\* Before the first round nothing is released.
LEMMA NothingDone ==
  ASSUME QuietSound, NEW all \in Seq(Ids)
  PROVE  /\ SubSeq(all, 0 + 1, Len(all)) = all
         /\ LinesAfter(all, 0) = quiet.hashes
         /\ BlocksAfter(quiet.hashes, 0) = quiet.block
<1>1. Len(all) \in Nat /\ SubSeq(all, 0 + 1, Len(all)) = all
  BY LenProperties
<1>2. /\ quiet.lastId \in Nat /\ Len(quiet.hashes) = quiet.lastId
      /\ quiet.hashes \in Seq(Lines)
      /\ quiet.block \in [Ids -> Contents \cup {NoBlock}]
  BY DEF QuietSound
<1>3. ASSUME NEW p \in 1..quiet.lastId
      PROVE  Line(p, quiet.hashes[p].usage - Done(all, 0, p), quiet.hashes[p].hash) = quiet.hashes[p]
  <2>1. PICK line : line = quiet.hashes[p]
    OBVIOUS
  <2>2. line \in Lines /\ line.id = p /\ line.usage \in 0..MaxUsage
    BY <2>1 DEF QuietSound
  <2>3. Done(all, 0, p) = 0
    BY <1>1, DoneIs
  <2>4. line.usage - Done(all, 0, p) = line.usage
    BY <2>2, <2>3, Widths
  <2> QED
    BY <2>1, <2>2, <2>4 DEF Lines, Line
<1>4. LinesAfter(all, 0) = [p \in 1..quiet.lastId |-> quiet.hashes[p]]
  BY <1>3 DEF LinesAfter
<1>5. quiet.hashes = [p \in 1..quiet.lastId |-> quiet.hashes[p]]
  <2>1. PICK lines : lines = quiet.hashes
    OBVIOUS
  <2>2. lines \in [1..quiet.lastId -> Lines]
    BY <1>2, <2>1, LenProperties
  <2> QED
    BY <2>1, <2>2
<1>6. \A i \in Ids : i # 0
  BY DEF Ids
<1>7. BlocksAfter(quiet.hashes, 0) = [i \in Ids |-> quiet.block[i]]
  BY <1>6 DEF BlocksAfter
<1> QED
  BY <1>1, <1>2, <1>4, <1>5, <1>7

LEMMA BeginUnlinkInv ==
  ASSUME StepsInv, NEW t, Threads = {t}, NoteQuiet, NEW f \in Files, BeginUnlink(t, f)
  PROVE  GoodStep
<1>1. Resting(t) /\ QuietSound
  BY WhereItIs, QuietIsSound DEF BeginUnlink, At, StepsInv
<1>2. /\ names = quiet.names /\ ptr = quiet.ptr /\ hashes = quiet.hashes
      /\ block = quiet.block /\ lastId = quiet.lastId /\ NoTempFile
  BY <1>1 DEF Resting, Kept
<1>3. PICK all : all = quiet.ptr[f]
  OBVIOUS
<1>4. all \in Seq(Ids) /\ Len(all) \in Nat
  BY <1>1, <1>3 DEF QuietSound, PtrTables
<1>5. PICK r : r = [pc |-> "counter", file |-> f, ids |-> all, usage |-> 0]
  OBVIOUS
<1>6. r \in RemoveRecs /\ r.file = f /\ r.pc = "counter" /\ r.ids = all
  BY <1>4, <1>5, Widths DEF RemoveRecs
<1>7. /\ Continue(t, r) /\ f \in names
      /\ UNCHANGED <<names, ptr, hashes, block, lastId, made, temp, tempData, written>>
  BY <1>2, <1>3, <1>5 DEF BeginUnlink, OnlyLocals, vars
<1>8. /\ SubSeq(all, 0 + 1, Len(all)) = all
      /\ LinesAfter(all, 0) = quiet.hashes
      /\ BlocksAfter(quiet.hashes, 0) = quiet.block
  BY <1>1, <1>4, NothingDone
<1>9. hashes' = LinesAfter(all, 0) /\ block' = BlocksAfter(hashes', 0)
  BY <1>2, <1>7, <1>8
<1>10. PICK n : n = 0
  OBVIOUS
<1>11. n \in 0..Len(all)
  BY <1>4, <1>10
<1> QED
  BY <1>2, <1>3, <1>6, <1>7, <1>8, <1>9, <1>10, <1>11, RemoveGoesOn

\* What a thread in the loop of delete_blocks finds.
LEMMA InTheLoop ==
  ASSUME StepsInv, NEW t, Threads = {t}, NEW w, w = th[t],
         w.pc \in {"counter", "empty", "unlink", "release"}
  PROVE  /\ QuietSound
         /\ w \in RemoveRecs /\ w.file \in quiet.names /\ w.file \in Files
         /\ names = quiet.names /\ lastId = quiet.lastId /\ NoTempFile
         /\ \E n \in 0..Len(quiet.ptr[w.file]) : Releasing(w, quiet.ptr[w.file], n)
<1>1. RemovingBlocks(w) /\ QuietSound
  BY WhereItIs, QuietIsSound DEF StepsInv
<1> QED
  BY <1>1 DEF RemovingBlocks, RemoveRecs

LEMMA ReadCounterInv ==
  ASSUME StepsInv, NEW t, Threads = {t}, NoteQuiet, ReadCounter(t)
  PROVE  GoodStep
<1>1. PICK w : w = th[t]
  OBVIOUS
<1>2. w.pc = "counter" /\ w.ids # <<>>
  BY <1>1 DEF ReadCounter, At
<1>3. /\ QuietSound
      /\ w \in RemoveRecs /\ w.file \in quiet.names /\ w.file \in Files
      /\ names = quiet.names /\ lastId = quiet.lastId /\ NoTempFile
      /\ \E n \in 0..Len(quiet.ptr[w.file]) : Releasing(w, quiet.ptr[w.file], n)
  BY <1>1, <1>2, InTheLoop
<1>4. PICK all : all = quiet.ptr[w.file]
  OBVIOUS
<1>5. PICK n \in 0..Len(all) : Releasing(w, all, n)
  BY <1>3, <1>4
<1>6. Len(all) \in Nat
  BY <1>3, <1>4, <1>5, ReleasingFinds
<1>7. n # Len(all)
  BY <1>2, <1>3, <1>4, <1>5, NextRound
<1>8. n < Len(all)
  BY <1>5, <1>6, <1>7
<1>9. PICK u : u = hashes[all[n + 1]].usage
  OBVIOUS
<1>10. Head(w.ids) = all[n + 1] /\ u \in 1..MaxUsage
  BY <1>3, <1>4, <1>5, <1>8, <1>9, NextRound
<1>11. u # 0 /\ u > 0 /\ u \in 0..MaxUsage
  BY <1>10, Widths
<1>12. PICK r : r = [w EXCEPT !.usage = u, !.pc = IF u = 1 THEN "empty" ELSE "release"]
  OBVIOUS
<1>13. /\ r \in RemoveRecs /\ r.file = w.file /\ r.ids = w.ids /\ r.usage = u
       /\ r.pc = IF u = 1 THEN "empty" ELSE "release"
  BY <1>3, <1>11, <1>12 DEF RemoveRecs
<1>14. /\ Continue(t, r)
       /\ UNCHANGED <<names, ptr, hashes, block, lastId, made, temp, tempData, written>>
  <2>1. Continue(t, [w EXCEPT !.usage = u, !.ids = w.ids,
                      !.pc = IF u = 1 THEN "empty" ELSE "release"])
    BY <1>1, <1>9, <1>10, <1>11 DEF ReadCounter
  <2>2. r = [w EXCEPT !.usage = u, !.ids = w.ids, !.pc = IF u = 1 THEN "empty" ELSE "release"]
    BY <1>3, <1>12 DEF RemoveRecs
  <2> QED
    BY <2>1, <2>2 DEF ReadCounter, OnlyLocals, vars
<1>15. /\ w.ids = SubSeq(all, n + 1, Len(all))
       /\ hashes = LinesAfter(all, n)
       /\ block = BlocksAfter(hashes, 0)
       /\ \/ ptr = Emptied(quiet.ptr, w.file)
          \/ ptr = quiet.ptr /\ block = quiet.block
  BY <1>2, <1>5 DEF Releasing
<1>16. /\ hashes' = LinesAfter(all, n)
       /\ block' = BlocksAfter(hashes', IF r.pc = "release" /\ r.usage = 1 THEN all[n + 1] ELSE 0)
       /\ \/ ptr' = Emptied(quiet.ptr, r.file)
          \/ ptr' = quiet.ptr /\ block' = quiet.block /\ r.pc # "unlink"
       /\ r.usage = hashes'[all[n + 1]].usage
       /\ r.pc \in {"empty", "unlink"} => r.usage = 1
  BY <1>9, <1>13, <1>14, <1>15
<1> QED
  BY <1>3, <1>4, <1>5, <1>8, <1>11, <1>13, <1>14, <1>15, <1>16, RemoveGoesOn

LEMMA EmptyPointersInv ==
  ASSUME StepsInv, NEW t, Threads = {t}, NoteQuiet, EmptyPointers(t)
  PROVE  GoodStep
<1>1. PICK w : w = th[t]
  OBVIOUS
<1>2. w.pc = "empty"
  BY <1>1 DEF EmptyPointers, At
<1>3. /\ QuietSound
      /\ w \in RemoveRecs /\ w.file \in quiet.names /\ w.file \in Files
      /\ names = quiet.names /\ lastId = quiet.lastId /\ NoTempFile
      /\ \E n \in 0..Len(quiet.ptr[w.file]) : Releasing(w, quiet.ptr[w.file], n)
  BY <1>1, <1>2, InTheLoop
<1>4. PICK all : all = quiet.ptr[w.file]
  OBVIOUS
<1>5. PICK n \in 0..Len(all) : Releasing(w, all, n)
  BY <1>3, <1>4
<1>6. PICK r : r = [w EXCEPT !.pc = "unlink"]
  OBVIOUS
<1>7. /\ r \in RemoveRecs /\ r.file = w.file /\ r.ids = w.ids /\ r.usage = w.usage
      /\ r.pc = "unlink"
  BY <1>3, <1>6 DEF RemoveRecs
<1>8. /\ Continue(t, r) /\ ptr' = Emptied(ptr, w.file)
      /\ UNCHANGED <<names, hashes, block, lastId, made, temp, tempData, written>>
  BY <1>1, <1>6 DEF EmptyPointers, Emptied
<1>9. /\ w.ids = SubSeq(all, n + 1, Len(all))
      /\ hashes = LinesAfter(all, n)
      /\ block = BlocksAfter(hashes, 0)
      /\ ptr = Emptied(quiet.ptr, w.file) \/ ptr = quiet.ptr
      /\ n < Len(all) /\ w.usage = hashes[all[n + 1]].usage /\ w.usage = 1
  BY <1>2, <1>5 DEF Releasing
<1>10. Emptied(ptr, w.file) = Emptied(quiet.ptr, w.file)
  <2>1. quiet.ptr \in [Files -> Seq(Ids)]
    BY <1>3 DEF QuietSound, PtrTables
  <2> QED
    BY <1>3, <1>9, <2>1 DEF Emptied
<1>11. /\ hashes' = LinesAfter(all, n)
       /\ block' = BlocksAfter(hashes', IF r.pc = "release" /\ r.usage = 1 THEN all[n + 1] ELSE 0)
       /\ ptr' = Emptied(quiet.ptr, r.file)
       /\ r.usage = hashes'[all[n + 1]].usage
  BY <1>7, <1>8, <1>9, <1>10
<1> QED
  BY <1>3, <1>4, <1>5, <1>7, <1>8, <1>9, <1>11, RemoveGoesOn

LEMMA UnlinkBlockInv ==
  ASSUME StepsInv, NEW t, Threads = {t}, NoteQuiet, UnlinkBlock(t)
  PROVE  GoodStep
<1>1. PICK w : w = th[t]
  OBVIOUS
<1>2. w.pc = "unlink"
  BY <1>1 DEF UnlinkBlock, At
<1>3. /\ QuietSound
      /\ w \in RemoveRecs /\ w.file \in quiet.names /\ w.file \in Files
      /\ names = quiet.names /\ lastId = quiet.lastId /\ NoTempFile
      /\ \E n \in 0..Len(quiet.ptr[w.file]) : Releasing(w, quiet.ptr[w.file], n)
  BY <1>1, <1>2, InTheLoop
<1>4. PICK all : all = quiet.ptr[w.file]
  OBVIOUS
<1>5. PICK n \in 0..Len(all) : Releasing(w, all, n)
  BY <1>3, <1>4
<1>6. PICK r : r = [w EXCEPT !.pc = "release"]
  OBVIOUS
<1>7. /\ r \in RemoveRecs /\ r.file = w.file /\ r.ids = w.ids /\ r.usage = w.usage
      /\ r.pc = "release"
  BY <1>3, <1>6 DEF RemoveRecs
<1>8. /\ w.ids = SubSeq(all, n + 1, Len(all))
      /\ hashes = LinesAfter(all, n)
      /\ block = BlocksAfter(hashes, 0)
      /\ ptr = Emptied(quiet.ptr, w.file)
      /\ n < Len(all) /\ w.usage = hashes[all[n + 1]].usage /\ w.usage = 1
  BY <1>2, <1>5 DEF Releasing
<1>9. PICK id : id = all[n + 1]
  OBVIOUS
<1>10. Head(w.ids) = id
  BY <1>3, <1>4, <1>5, <1>8, <1>9, NextRound
<1>11. /\ Continue(t, r) /\ block' = [block EXCEPT ![id] = NoBlock]
       /\ UNCHANGED <<names, ptr, hashes, lastId, made, temp, tempData, written>>
  BY <1>1, <1>6, <1>10 DEF UnlinkBlock
<1>12. [block EXCEPT ![id] = NoBlock] = BlocksAfter(hashes, id)
  <2>1. \A i \in Ids : i # 0
    BY DEF Ids
  <2>2. block = [i \in Ids |->
          IF i <= quiet.lastId /\ quiet.hashes[i].usage # 0 /\ hashes[i].usage = 0
            THEN NoBlock ELSE quiet.block[i]]
    BY <1>8, <2>1 DEF BlocksAfter
  <2> QED
    BY <2>2 DEF BlocksAfter
<1>13. hashes' = LinesAfter(all, n) /\ ptr' = Emptied(quiet.ptr, r.file)
  BY <1>7, <1>8, <1>11
<1>14. block' = BlocksAfter(hashes', IF r.pc = "release" /\ r.usage = 1 THEN all[n + 1] ELSE 0)
  <2>1. (IF r.pc = "release" /\ r.usage = 1 THEN all[n + 1] ELSE 0) = id
    BY <1>7, <1>8, <1>9
  <2>2. block' = BlocksAfter(hashes', id)
    BY <1>11, <1>12
  <2> QED
    BY <2>1, <2>2
<1>15. hashes' = hashes
  BY <1>11
<1>16. r.usage = 1 /\ r.usage > 0
  BY <1>7, <1>8
<1>17. r.usage = hashes'[all[n + 1]].usage
  BY <1>7, <1>8, <1>15, Zenon
<1>18. r.ids = SubSeq(all, n + 1, Len(all)) /\ n < Len(all)
  BY <1>7, <1>8, Zenon
<1> QED
  BY <1>3, <1>4, <1>5, <1>7, <1>11, <1>13, <1>14, <1>16, <1>17, <1>18, RemoveGoesOn

\* The lines when the counter of line id is one less.
OneLess(lines, id) ==
  [lines EXCEPT ![id] = Line(id, lines[id].usage - 1, lines[id].hash)]

\* One more round takes one user from the line of its pointer.
LEMMA OneLineReleased ==
  ASSUME QuietSound, NEW all \in Seq(Ids), NEW n \in 0..(Len(all) - 1),
         NEW id \in 1..quiet.lastId, id = all[n + 1]
  PROVE  LinesAfter(all, n + 1) = OneLess(LinesAfter(all, n), id)
<1> DEFINE x == LinesAfter(all, n)
           y == LinesAfter(all, n + 1)
<1>1. /\ x = [p \in 1..quiet.lastId |->
           Line(p, quiet.hashes[p].usage - Done(all, n, p), quiet.hashes[p].hash)]
      /\ y = [p \in 1..quiet.lastId |->
           Line(p, quiet.hashes[p].usage - Done(all, n + 1, p), quiet.hashes[p].hash)]
  BY DEF LinesAfter
<1>2. Len(all) \in Nat /\ n \in 0..Len(all)
  BY LenProperties
<1> HIDE DEF x, y
<1>3. ASSUME NEW p \in 1..quiet.lastId
      PROVE  y[p] = IF p = id THEN Line(id, x[id].usage - 1, x[id].hash) ELSE x[p]
  <2>1. Done(all, n + 1, p) = Done(all, n, p) + (IF all[n + 1] = p THEN 1 ELSE 0)
    BY OneMoreDone
  <2>2. Done(all, n, p) \in Nat
    BY <1>2, DoneIs
  <2>3. PICK u, d : u = quiet.hashes[p].usage /\ d = Done(all, n, p)
    OBVIOUS
  <2>4. u \in 0..MaxUsage /\ u \in Nat /\ d \in Nat
    BY <2>2, <2>3, Widths DEF QuietSound
  <2>5. /\ x[p] = Line(p, u - d, quiet.hashes[p].hash)
        /\ y[p] = Line(p, u - Done(all, n + 1, p), quiet.hashes[p].hash)
    BY <1>1, <2>3
  <2>6. CASE p = id
    <3>1. Done(all, n + 1, p) = d + 1
      BY <2>1, <2>3, <2>6
    <3>2. u - (d + 1) = (u - d) - 1
      BY <2>4
    <3>3. x[id].usage = u - d /\ x[id].hash = quiet.hashes[p].hash
      BY <2>5, <2>6 DEF Line
    <3> QED
      BY <2>5, <2>6, <3>1, <3>2, <3>3
  <2>7. CASE p # id
    <3>1. Done(all, n + 1, p) = d
      BY <2>1, <2>3, <2>4, <2>7
    <3> QED
      BY <2>5, <2>7, <3>1
  <2> QED
    BY <2>6, <2>7
<1>4. DOMAIN x = 1..quiet.lastId /\ y = [p \in 1..quiet.lastId |-> y[p]]
  BY <1>1
<1>5. [x EXCEPT ![id] = Line(id, x[id].usage - 1, x[id].hash)] =
        [p \in 1..quiet.lastId |-> IF p = id THEN Line(id, x[id].usage - 1, x[id].hash) ELSE x[p]]
  BY <1>4
<1>6. y = [p \in 1..quiet.lastId |-> IF p = id THEN Line(id, x[id].usage - 1, x[id].hash) ELSE x[p]]
  BY <1>3, <1>4
<1>7. y = OneLess(x, id)
  BY <1>5, <1>6 DEF OneLess
<1> QED
  BY <1>7 DEF x, y

LEMMA ReleaseLineInv ==
  ASSUME StepsInv, NEW t, Threads = {t}, NoteQuiet, ReleaseLine(t)
  PROVE  GoodStep
<1>1. PICK w : w = th[t]
  OBVIOUS
<1>2. w.pc = "release"
  BY <1>1 DEF ReleaseLine, At
<1>3. /\ QuietSound
      /\ w \in RemoveRecs /\ w.file \in quiet.names /\ w.file \in Files
      /\ names = quiet.names /\ lastId = quiet.lastId /\ NoTempFile
      /\ \E n \in 0..Len(quiet.ptr[w.file]) : Releasing(w, quiet.ptr[w.file], n)
  BY <1>1, <1>2, InTheLoop
<1>4. PICK all : all = quiet.ptr[w.file]
  OBVIOUS
<1>5. PICK n \in 0..Len(all) : Releasing(w, all, n)
  BY <1>3, <1>4
<1>6. /\ hashes = LinesAfter(all, n)
      /\ block = BlocksAfter(hashes, IF w.usage = 1 THEN all[n + 1] ELSE 0)
      /\ \/ ptr = Emptied(quiet.ptr, w.file)
         \/ ptr = quiet.ptr /\ block = quiet.block
      /\ n < Len(all) /\ w.usage = hashes[all[n + 1]].usage /\ w.usage > 0
  BY <1>2, <1>5 DEF Releasing
<1>7. PICK id : id = all[n + 1]
  OBVIOUS
<1>8. /\ all \in Seq(Ids) /\ Len(all) \in Nat
      /\ hashes \in Seq(Lines) /\ Len(hashes) = quiet.lastId
      /\ \A p \in 1..quiet.lastId :
           /\ hashes[p] \in Lines
           /\ hashes[p].usage \in 0..MaxUsage
  BY <1>3, <1>4, <1>5, ReleasingFinds
<1>9. /\ Head(w.ids) = id
      /\ Tail(w.ids) = SubSeq(all, n + 2, Len(all)) /\ Tail(w.ids) \in Seq(Ids)
      /\ id \in 1..quiet.lastId /\ id \in Ids
      /\ hashes[id].usage \in 1..MaxUsage
  BY <1>3, <1>4, <1>5, <1>6, <1>7, NextRound
<1>10. PICK rest : rest = Tail(w.ids)
  OBVIOUS
<1>11. PICK r : r = [w EXCEPT !.pc = "counter", !.ids = rest]
  OBVIOUS
<1>12. r \in RemoveRecs /\ r.file = w.file /\ r.ids = rest /\ r.pc = "counter"
  BY <1>3, <1>9, <1>10, <1>11 DEF RemoveRecs
<1>13. PICK line : line = Line(id, hashes[id].usage - 1, hashes[id].hash)
  OBVIOUS
<1>14. line \in Lines
  <2>1. hashes[id].hash \in Hashes
    BY <1>8, <1>9 DEF Lines
  <2>2. hashes[id].usage - 1 \in 0..MaxUsage
    BY <1>9, Widths
  <2> QED
    BY <1>9, <1>13, <2>1, <2>2 DEF Lines, Line
<1>15. /\ Continue(t, r) /\ PutLine(id, line)
       /\ UNCHANGED <<names, ptr, block, lastId, made, temp, tempData, written>>
  <2>1. w.usage = hashes[id].usage
    BY <1>6, <1>7
  <2>2. th[t].usage = hashes[id].usage /\ Head(th[t].ids) = id /\ Tail(th[t].ids) = rest
    BY <1>1, <1>9, <1>10, <2>1
  <2> QED
    BY <1>1, <1>11, <1>13, <2>2 DEF ReleaseLine
<1>16. n \in 0..(Len(all) - 1) /\ n + 1 \in 0..Len(all) /\ (n + 1) + 1 = n + 2
  BY <1>6, <1>8
<1>17. id \in 1..(Len(hashes) + 1) /\ id <= Len(hashes)
  BY <1>3, <1>8, <1>9 DEF QuietSound
<1>18. hashes' = [hashes EXCEPT ![id] = line]
  BY <1>8, <1>14, <1>15, <1>17, PutLineIs
<1>19. hashes' = LinesAfter(all, n + 1)
  <2>1. LinesAfter(all, n + 1) = OneLess(LinesAfter(all, n), id)
    <3>1. QuietSound
      BY <1>3
    <3>2. all \in Seq(Ids) /\ n \in 0..(Len(all) - 1) /\ id \in 1..quiet.lastId
      BY <1>8, <1>9, <1>16
    <3> QED
      BY <1>7, <3>1, <3>2, OneLineReleased
  <2>2. hashes = LinesAfter(all, n)
    BY <1>6
  <2>3. hashes' = OneLess(hashes, id)
    BY <1>13, <1>18 DEF OneLess
  <2> QED
    BY <2>1, <2>2, <2>3, Zenon
<1>20. BlocksAfter(hashes, IF w.usage = 1 THEN id ELSE 0) = BlocksAfter(hashes', 0)
  <2>1. /\ DOMAIN hashes = 1..quiet.lastId
        /\ quiet.hashes[id].usage # 0
        /\ quiet.lastId \in Nat
    <3>1. /\ DOMAIN hashes = 1..quiet.lastId
          /\ hashes[id].usage = quiet.hashes[id].usage - Done(all, n, id)
      BY <1>3, <1>4, <1>5, <1>9, ReleasingFinds
    <3>2. quiet.hashes[id].usage \in 0..MaxUsage
      BY <1>3, <1>9 DEF QuietSound
    <3>3. Done(all, n, id) \in Nat
      BY <1>5, <1>8, DoneIs
    <3>4. quiet.hashes[id].usage # 0
      BY <1>9, <3>1, <3>2, <3>3, Widths
    <3> QED
      BY <1>3, <3>1, <3>4 DEF QuietSound
  <2>2. hashes'[id].usage = hashes[id].usage - 1
    BY <1>9, <1>13, <1>18, <2>1 DEF Line
  <2>3. hashes'[id].usage = 0 <=> w.usage = 1
    BY <1>6, <1>7, <1>9, <2>2, Widths
  <2>4. \A i \in 1..quiet.lastId : i # id => hashes'[i] = hashes[i]
    BY <1>18, <2>1
  <2>5. hashes[id].usage # 0
    BY <1>9
  <2>6. ASSUME NEW i \in Ids
        PROVE  \/ i <= quiet.lastId /\ quiet.hashes[i].usage # 0 /\ hashes[i].usage = 0
               \/ i = IF w.usage = 1 THEN id ELSE 0
               <=> \/ i <= quiet.lastId /\ quiet.hashes[i].usage # 0 /\ hashes'[i].usage = 0
                   \/ i = 0
    <3>1. i # 0 /\ (i <= quiet.lastId => i \in 1..quiet.lastId)
      BY <2>1 DEF Ids
    <3>2. id <= quiet.lastId
      BY <1>9
    <3>3. CASE i = id
      BY <2>1, <2>3, <2>5, <3>1, <3>2, <3>3
    <3>4. CASE i # id
      BY <2>4, <3>1, <3>4
    <3> QED
      BY <3>3, <3>4
  <2> QED
    BY <2>6 DEF BlocksAfter
<1>21. /\ block' = BlocksAfter(hashes', IF r.pc = "release" /\ r.usage = 1 THEN all[(n + 1) + 1] ELSE 0)
       /\ \/ ptr' = Emptied(quiet.ptr, r.file)
          \/ ptr' = quiet.ptr /\ block' = quiet.block /\ r.pc # "unlink"
  BY <1>6, <1>7, <1>12, <1>15, <1>20
<1>22. r.ids = SubSeq(all, (n + 1) + 1, Len(all))
  BY <1>9, <1>10, <1>12, <1>16
<1>23. PICK m : m = n + 1
  OBVIOUS
<1> QED
  BY <1>3, <1>4, <1>12, <1>15, <1>16, <1>19, <1>21, <1>22, <1>23, RemoveGoesOn

\* After the last round the loop has done what BlockStore says of delete_blocks.
LEMMA AllDone ==
  ASSUME QuietSound, NEW f \in Files, NEW all, all = quiet.ptr[f]
  PROVE  /\ LinesAfter(all, Len(all)) = Q!ReleaseLines(quiet.hashes, all)
         /\ BlocksAfter(LinesAfter(all, Len(all)), 0) =
              [i \in Ids |-> IF i \in Q!FreedIds(quiet.hashes, all) THEN NoBlock ELSE quiet.block[i]]
         /\ \A p \in 1..quiet.lastId :
              LinesAfter(all, Len(all))[p].usage = quiet.hashes[p].usage - Occurrences(all, p)
<1> DEFINE x == LinesAfter(all, Len(all))
<1>1. all \in Seq(Ids) /\ Len(all) \in Nat /\ Len(all) \in 0..Len(all)
  BY DEF QuietSound, PtrTables
<1>2. \A p : Q!Occurrences(all, p) = Occurrences(all, p)
  BY QuietOperators DEF Q!Occurrences, Occurrences
<1>3. ASSUME NEW p \in 1..quiet.lastId
      PROVE  /\ quiet.hashes[p] = Line(p, quiet.hashes[p].usage, quiet.hashes[p].hash)
             /\ quiet.hashes[p].usage \in Nat
             /\ Done(all, Len(all), p) = Occurrences(all, p)
             /\ Occurrences(all, p) \in Nat
             /\ Occurrences(all, p) <= quiet.hashes[p].usage
  <2>1. PICK line : line = quiet.hashes[p]
    OBVIOUS
  <2>2. line \in Lines /\ line.id = p /\ line.usage \in 0..MaxUsage
    BY <2>1 DEF QuietSound
  <2>3. line = Line(p, line.usage, line.hash) /\ line.usage \in Nat
    BY <2>2, Widths DEF Lines, Line
  <2>4. Done(all, Len(all), p) = Occurrences(all, p) /\ Occurrences(all, p) \in Nat
    BY <1>1, DoneIs
  <2>5. Occurrences(all, p) <= quiet.hashes[p].usage
    BY CountersSuffice
  <2> QED
    BY <2>1, <2>3, <2>4, <2>5
<1>4. DOMAIN quiet.hashes = 1..quiet.lastId /\ quiet.lastId \in Nat
  BY DEF QuietSound
<1>5. x = [p \in 1..quiet.lastId |->
            Line(p, quiet.hashes[p].usage - Occurrences(all, p), quiet.hashes[p].hash)]
  BY <1>3 DEF LinesAfter
<1> HIDE DEF x
<1>6. x = ReleaseLines(quiet.hashes, all)
  <2>1. /\ DOMAIN ReleaseLines(quiet.hashes, all) = 1..quiet.lastId
        /\ \A p \in 1..quiet.lastId :
             ReleaseLines(quiet.hashes, all)[p] =
               Line(p, Released(quiet.hashes[p].usage, Occurrences(all, p)), quiet.hashes[p].hash)
    <3>1. PICK lines, last : lines = quiet.hashes /\ last = quiet.lastId
      OBVIOUS
    <3>2. /\ last \in Nat /\ DOMAIN lines = 1..last
          /\ \A p \in 1..last : /\ lines[p] = Line(p, lines[p].usage, lines[p].hash)
                               /\ lines[p].usage \in Nat
      BY <1>3, <1>4, <3>1
    <3>3. /\ DOMAIN ReleaseLines(lines, all) = 1..last
          /\ \A p \in 1..last :
               ReleaseLines(lines, all)[p] =
                 Line(p, Released(lines[p].usage, Occurrences(all, p)), lines[p].hash)
      BY <1>1, <3>2, ReleaseLinesResult
    <3> QED
      BY <3>1, <3>3
  <2>2. ASSUME NEW p \in 1..quiet.lastId
        PROVE  Released(quiet.hashes[p].usage, Occurrences(all, p)) =
                 quiet.hashes[p].usage - Occurrences(all, p)
    BY <1>3 DEF Released
  <2>3. \A p \in 1..quiet.lastId : ReleaseLines(quiet.hashes, all)[p] = x[p]
    BY <1>5, <2>1, <2>2
  <2>4. ReleaseLines(quiet.hashes, all) =
          [p \in DOMAIN ReleaseLines(quiet.hashes, all) |-> ReleaseLines(quiet.hashes, all)[p]]
    BY DEF ReleaseLines
  <2> QED
    BY <1>5, <2>1, <2>3, <2>4
<1>7. ReleaseLines(quiet.hashes, all) = Q!ReleaseLines(quiet.hashes, all)
  BY <1>2 DEF ReleaseLines, Q!ReleaseLines, Released, Q!Released, Line, Q!Line
<1>8. \A p \in 1..quiet.lastId :
        /\ x[p].usage = quiet.hashes[p].usage - Occurrences(all, p)
        /\ x[p].usage = 0 <=> quiet.hashes[p].usage <= Occurrences(all, p)
  <2> TAKE p \in 1..quiet.lastId
  <2>1. x[p].usage = quiet.hashes[p].usage - Occurrences(all, p)
    BY <1>5 DEF Line
  <2> QED
    BY <1>3, <2>1
<1>9. \A i \in Ids : (i <= quiet.lastId /\ quiet.hashes[i].usage # 0 /\ x[i].usage = 0) \/ i = 0
                     <=> i \in Q!FreedIds(quiet.hashes, all)
  <2> TAKE i \in Ids
  <2>1. i # 0 /\ (i <= quiet.lastId <=> i \in 1..quiet.lastId)
    BY <1>4 DEF Ids
  <2>2. i \in Q!FreedIds(quiet.hashes, all) <=>
          i \in 1..quiet.lastId /\ quiet.hashes[i].usage # 0
            /\ quiet.hashes[i].usage <= Occurrences(all, i)
    BY <1>2, <1>4 DEF Q!FreedIds
  <2> QED
    BY <1>8, <2>1, <2>2
<1>10. BlocksAfter(x, 0) =
         [i \in Ids |-> IF i \in Q!FreedIds(quiet.hashes, all) THEN NoBlock ELSE quiet.block[i]]
  BY <1>9 DEF BlocksAfter
<1> QED
  BY <1>6, <1>7, <1>8, <1>10 DEF x

\* The unlink(2) that ends bb_unlink: together the steps are one removal.
LEMMA RemoveFileInv ==
  ASSUME StepsInv, NEW t, Threads = {t}, NoteQuiet, RemoveFile(t)
  PROVE  GoodStep
<1>1. PICK w : w = th[t]
  OBVIOUS
<1>2. w.pc = "counter" /\ w.ids = <<>>
  BY <1>1 DEF RemoveFile, At
<1>3. /\ QuietSound
      /\ w \in RemoveRecs /\ w.file \in quiet.names /\ w.file \in Files
      /\ names = quiet.names /\ lastId = quiet.lastId /\ NoTempFile
      /\ \E n \in 0..Len(quiet.ptr[w.file]) : Releasing(w, quiet.ptr[w.file], n)
  BY <1>1, <1>2, InTheLoop
<1>4. PICK f, all : f = w.file /\ all = quiet.ptr[f]
  OBVIOUS
<1>5. PICK n \in 0..Len(all) : Releasing(w, all, n)
  BY <1>3, <1>4
<1>6. n = Len(all)
  BY <1>2, <1>3, <1>4, <1>5, NextRound
<1>7. /\ hashes = LinesAfter(all, n)
      /\ block = BlocksAfter(hashes, 0)
      /\ ptr = Emptied(quiet.ptr, f) \/ ptr = quiet.ptr
  BY <1>2, <1>4, <1>5 DEF Releasing
<1>8. /\ hashes = Q!ReleaseLines(quiet.hashes, all)
      /\ block = [i \in Ids |-> IF i \in Q!FreedIds(quiet.hashes, all) THEN NoBlock ELSE quiet.block[i]]
      /\ \A p \in 1..quiet.lastId : hashes[p].usage = quiet.hashes[p].usage - Occurrences(all, p)
  BY <1>3, <1>4, <1>6, <1>7, AllDone
<1>9. quiet.ptr \in [Files -> Seq(Ids)]
  BY <1>3 DEF QuietSound, PtrTables
<1>10. Emptied(ptr, f) = Emptied(quiet.ptr, f)
  BY <1>3, <1>4, <1>7, <1>9 DEF Emptied
<1>11. /\ th' = [th EXCEPT ![t] = Idle]
       /\ names' = quiet.names \ {f}
       /\ ptr' = Emptied(quiet.ptr, f)
       /\ written' = [written EXCEPT ![f] = <<>>]
       /\ UNCHANGED <<hashes, block, lastId, made, temp, tempData>>
  BY <1>1, <1>3, <1>4, <1>10 DEF RemoveFile, Continue, Emptied
<1>12. th'[t] = Idle /\ th' = [u \in Threads |-> th'[u]]
  BY <1>11 DEF StepsInv
<1>13. /\ quiet.names' = names' /\ quiet.ptr' = ptr' /\ quiet.hashes' = hashes'
       /\ quiet.block' = block' /\ quiet.lastId' = lastId'
  BY <1>12, AtRest
<1>14. Q!Unlink(f)
  BY <1>3, <1>4, <1>8, <1>11, <1>13 DEF Q!Unlink, Emptied, Q!Ids, Ids
<1>15. Q!Next
  BY <1>3, <1>4, <1>14 DEF Q!Next
<1>16. \A g \in Files \ {f} : \A k \in 1..Len(quiet.ptr[g]) :
         block[quiet.ptr[g][k]] = quiet.block[quiet.ptr[g][k]]
  <2> TAKE g \in Files \ {f}
  <2> TAKE k \in 1..Len(quiet.ptr[g])
  <2>1. PICK p : p = quiet.ptr[g][k]
    OBVIOUS
  <2>2. p \in 1..quiet.lastId /\ quiet.lastId \in 0..MaxId
    BY <1>3, <2>1 DEF QuietSound
  <2>3. p \in Ids /\ p # 0
    BY <2>2, Widths DEF Ids
  <2>4. Occurrences(all, p) < quiet.hashes[p].usage
    BY <1>3, <1>4, <2>1, <2>2, CountersSuffice
  <2>5. Occurrences(all, p) \in Nat
    <3>1. all \in Seq(Ids)
      BY <1>3, <1>4, <1>9
    <3> QED
      BY <3>1, OccurrencesResult
  <2>6. quiet.hashes[p].usage \in 0..MaxUsage
    BY <1>3, <2>2 DEF QuietSound
  <2>7. hashes[p].usage # 0
    BY <1>8, <2>2, <2>4, <2>5, <2>6, Widths
  <2>8. block[p] = quiet.block[p]
    BY <1>7, <2>3, <2>7 DEF BlocksAfter
  <2> QED
    BY <2>1, <2>8
<1>17. written' = Blocks'
  <2>1. written = Stored(quiet.ptr, quiet.block)
    BY DEF StepsInv, Blocks
  <2>2. PICK p, b : p = Emptied(quiet.ptr, f) /\ b = block
    OBVIOUS
  <2>3. p[f] = <<>> /\ \A g \in Files \ {f} : p[g] = quiet.ptr[g]
    BY <1>3, <1>4, <1>9, <2>2 DEF Emptied
  <2>4. ASSUME NEW g \in Files
        PROVE  [written EXCEPT ![f] = <<>>][g] = [k \in 1..Len(p[g]) |-> b[p[g][k]]]
    <3>1. CASE g = f
      <4>1. [written EXCEPT ![f] = <<>>][g] = <<>>
        BY <2>1, <3>1 DEF Stored
      <4>2. [k \in 1..Len(p[g]) |-> b[p[g][k]]] = <<>>
        BY <2>3, <3>1
      <4> QED
        BY <4>1, <4>2
    <3>2. CASE g # f
      <4>1. [written EXCEPT ![f] = <<>>][g] =
              [k \in 1..Len(quiet.ptr[g]) |-> quiet.block[quiet.ptr[g][k]]]
        BY <2>1, <3>2 DEF Stored
      <4>2. p[g] = quiet.ptr[g]
        BY <2>3, <3>2
      <4>3. \A k \in 1..Len(quiet.ptr[g]) : b[quiet.ptr[g][k]] = quiet.block[quiet.ptr[g][k]]
        BY <1>16, <2>2, <3>2
      <4> QED
        BY <4>1, <4>2, <4>3
    <3> QED
      BY <3>1, <3>2
  <2>5. [written EXCEPT ![f] = <<>>] = [g \in Files |-> [written EXCEPT ![f] = <<>>][g]]
    BY <2>1 DEF Stored
  <2>6. [written EXCEPT ![f] = <<>>] = Stored(p, b)
    BY <2>4, <2>5 DEF Stored
  <2> QED
    BY <1>11, <1>13, <2>2, <2>6 DEF Blocks
<1>18. NoTempFile' /\ made' \in BOOLEAN
  BY <1>3, <1>11 DEF NoTempFile, StepsInv
<1> QED
  BY <1>12, <1>15, <1>17, <1>18, Ends

-----------------------------------------------------------------------------
(* bb_read, step by step.                                                  *)

\* What was written to a file is what its blocks hold.
LEMMA WrittenIs ==
  ASSUME QuietSound, written = Blocks, NEW f \in Files
  PROVE  /\ written[f] = [k \in 1..Len(quiet.ptr[f]) |-> quiet.block[quiet.ptr[f][k]]]
         /\ written[f] \in Seq(Contents)
         /\ quiet.ptr[f] \in Seq(Ids) /\ Len(quiet.ptr[f]) \in Nat
         /\ Len(written[f]) = Len(quiet.ptr[f])
<1>1. written[f] = [k \in 1..Len(quiet.ptr[f]) |-> quiet.block[quiet.ptr[f][k]]]
  BY DEF Blocks, Stored
<1>2. quiet.ptr[f] \in Seq(Ids) /\ Len(quiet.ptr[f]) \in Nat
  BY DEF QuietSound, PtrTables
<1>3. \A k \in 1..Len(quiet.ptr[f]) : quiet.block[quiet.ptr[f][k]] \in Contents
  BY DEF QuietSound
<1>4. PICK n, x : n = Len(quiet.ptr[f]) /\ x = written[f]
  OBVIOUS
<1>5. x \in [1..n -> Contents] /\ n \in Nat
  BY <1>1, <1>2, <1>3, <1>4
<1>6. x \in Seq(Contents) /\ Len(x) = n
  BY <1>5
<1> QED
  BY <1>1, <1>2, <1>4, <1>6

\* A step of bb_read after which its thread holds r.
LEMMA ReadGoesOn ==
  ASSUME StepsInv, NEW t, Threads = {t}, NoteQuiet, Kept,
         NEW r \in ReadRecs, r.file \in quiet.names, Continue(t, r),
         UNCHANGED <<names, ptr, hashes, block, lastId, made, written>>,
         \/ /\ r.pc = "fetch" /\ Fetching(r)
            /\ temp' = NoTemp /\ tempData' = [i \in Threads |-> <<>>]
         \/ /\ r.pc # "fetch" /\ r.data = written[r.file]
            /\ temp' = t
            /\ r.fd = t
            /\ tempData' = [i \in Threads |-> IF r.pc = "fill" THEN <<>> ELSE r.data]
  PROVE  GoodStep
<1>1. r.pc # "idle"
  BY DEF ReadRecs
<1>2. /\ th'[t] = r /\ th' = [u \in Threads |-> th'[u]]
      /\ quiet' = quiet /\ UNCHANGED Q!vars /\ Q!Inv' /\ Blocks' = Blocks
  BY <1>1, GoesOn
<1>3. Kept' /\ t \in Threads
  BY <1>2 DEF Kept
<1>4. Reading(r)'
  BY <1>2, <1>3 DEF Reading, Fetching, Behind, NoTempFile
<1>5. Place(t)'
  BY <1>2, <1>4 DEF Place
<1>6. written' = Blocks' /\ made' \in BOOLEAN
  BY <1>2 DEF StepsInv
<1> QED
  BY <1>2, <1>5, <1>6 DEF StepsInv, GoodStep

LEMMA BeginReadInv ==
  ASSUME StepsInv, NEW t, Threads = {t}, NoteQuiet, NEW f \in Files, BeginRead(t, f)
  PROVE  GoodStep
<1>1. Resting(t) /\ QuietSound /\ written = Blocks
  BY WhereItIs, QuietIsSound DEF BeginRead, At, StepsInv
<1>2. Kept /\ temp = NoTemp /\ tempData = [i \in Threads |-> <<>>]
  BY <1>1 DEF Resting, NoTempFile
<1>3. PICK s : s = written[f]
  OBVIOUS
<1>4. /\ s \in Seq(Contents)
      /\ s = [k \in 1..Len(ptr[f]) |-> block[ptr[f][k]]]
      /\ Len(s) = Len(ptr[f])
  BY <1>1, <1>2, <1>3, WrittenIs DEF Kept
<1>5. PICK ids : ids = ptr[f]
  OBVIOUS
<1>6. Behind(ids) = s /\ ids \in Seq(Ids)
  <2>1. Behind(ids) = s
    BY <1>2, <1>4, <1>5 DEF Behind, Kept
  <2> QED
    BY <1>1, <1>2, <1>5, <2>1, WrittenIs DEF Kept
<1>7. PICK r : r = [pc |-> "fetch", file |-> f, ids |-> ids, data |-> <<>>, fd |-> NoTemp]
  OBVIOUS
<1>8. r \in ReadRecs /\ r.pc = "fetch" /\ r.file = f /\ r.data = <<>> /\ r.ids = ids
  BY <1>6, <1>7 DEF ReadRecs
<1>9. Fetching(r)
  <2>1. <<>> \o s = s
    BY <1>4
  <2> QED
    BY <1>3, <1>4, <1>6, <1>8, <2>1 DEF Fetching
<1>10. /\ Continue(t, r) /\ f \in quiet.names
       /\ UNCHANGED <<names, ptr, hashes, block, lastId, made, temp, tempData, written>>
  BY <1>2, <1>5, <1>7 DEF BeginRead, OnlyLocals, vars, Kept
<1> QED
  BY <1>2, <1>8, <1>9, <1>10, ReadGoesOn

\* The first of the blocks yet to be read, and those after it.
LEMMA BehindFirst ==
  ASSUME NEW ids \in Seq(Ids), ids # <<>>, Behind(ids) \in Seq(Contents)
  PROVE  /\ quiet.block[Head(ids)] \in Contents
         /\ Tail(ids) \in Seq(Ids)
         /\ Behind(Tail(ids)) \in Seq(Contents)
         /\ Behind(ids) = <<quiet.block[Head(ids)]>> \o Behind(Tail(ids))
<1>1. PICK n, tail, b : n = Len(ids) /\ tail = Tail(ids) /\ b = Behind(ids)
  OBVIOUS
<1>2. /\ n \in Nat /\ n >= 1 /\ tail \in Seq(Ids) /\ Len(tail) = n - 1
      /\ \A k \in 1..(n - 1) : tail[k] = ids[k + 1]
      /\ Head(ids) = ids[1]
  BY <1>1, EmptySeq, LenProperties, HeadTailProperties
<1>3. b \in Seq(Contents) /\ Len(b) = n /\ \A k \in 1..n : b[k] = quiet.block[ids[k]]
  BY <1>1, <1>2 DEF Behind
<1>4. PICK c : c = Behind(tail)
  OBVIOUS
<1>5. c = [k \in 1..(n - 1) |-> quiet.block[tail[k]]]
  BY <1>2, <1>4 DEF Behind
<1>6. \A k \in 1..(n - 1) : quiet.block[tail[k]] = b[k + 1]
  BY <1>2, <1>3
<1>7. c = [k \in 1..(n - 1) |-> b[k + 1]]
  BY <1>5, <1>6
<1>8. c \in Seq(Contents) /\ Len(c) = n - 1
  <2>1. \A k \in 1..(n - 1) : b[k + 1] \in Contents
    BY <1>2, <1>3, ElementOfSeq
  <2>2. n - 1 \in Nat
    BY <1>2
  <2> QED
    BY <1>7, <2>1, <2>2
<1>9. PICK e : e = quiet.block[Head(ids)]
  OBVIOUS
<1>10. e = b[1] /\ e \in Contents
  BY <1>2, <1>3, <1>9, ElementOfSeq
<1>11. b = <<e>> \o c
  BY <1>2, <1>3, <1>7, <1>8, <1>10
<1> QED
  BY <1>1, <1>2, <1>4, <1>8, <1>9, <1>10, <1>11

LEMMA FetchBlockInv ==
  ASSUME StepsInv, NEW t, Threads = {t}, NoteQuiet, FetchBlock(t)
  PROVE  GoodStep
<1>1. PICK w : w = th[t]
  OBVIOUS
<1>2. Reading(w) /\ w.pc = "fetch" /\ w.ids # <<>>
  BY <1>1, WhereItIs DEF FetchBlock, At
<1>3. /\ w \in ReadRecs /\ w.file \in quiet.names /\ Kept /\ Fetching(w)
      /\ temp = NoTemp /\ tempData = [i \in Threads |-> <<>>]
  BY <1>2 DEF Reading, NoTempFile
<1>4. PICK ids, data, e, rest :
        /\ ids = w.ids /\ data = w.data
        /\ e = quiet.block[Head(ids)] /\ rest = Behind(Tail(ids))
  OBVIOUS
<1>5. ids \in Seq(Ids) /\ data \in Seq(Contents) /\ ids # <<>>
  BY <1>2, <1>3, <1>4 DEF ReadRecs
<1>6. /\ e \in Contents /\ Tail(ids) \in Seq(Ids) /\ rest \in Seq(Contents)
      /\ Behind(ids) = <<e>> \o rest
  BY <1>3, <1>4, <1>5, BehindFirst DEF Fetching
<1>7. ReadBlock(Head(ids)) = <<e>>
  BY <1>3, <1>4, <1>6, EmptyIsOther DEF ReadBlock, Kept
<1>8. PICK r : r = [w EXCEPT !.ids = Tail(ids), !.data = data \o <<e>>]
  OBVIOUS
<1>9. <<e>> \in Seq(Contents) /\ data \o <<e>> \in Seq(Contents)
  BY <1>5, <1>6
<1>10. /\ r \in ReadRecs /\ r.pc = "fetch" /\ r.file = w.file
       /\ r.ids = Tail(ids) /\ r.data = data \o <<e>>
  BY <1>2, <1>3, <1>6, <1>8, <1>9 DEF ReadRecs
<1>11. Fetching(r)
  <2>1. written[w.file] = data \o (<<e>> \o rest)
    BY <1>3, <1>4, <1>6 DEF Fetching
  <2>2. data \o (<<e>> \o rest) = (data \o <<e>>) \o rest
    BY <1>5, <1>6, <1>9, ConcatAssociative
  <2> QED
    BY <1>4, <1>6, <1>10, <2>1, <2>2 DEF Fetching
<1>12. Continue(t, r)
  <2>1. Continue(t, [w EXCEPT !.ids = Tail(@), !.data = @ \o ReadBlock(Head(ids))])
    BY <1>1, <1>4 DEF FetchBlock
  <2>2. [w EXCEPT !.ids = Tail(@), !.data = @ \o ReadBlock(Head(ids))] = r
    BY <1>4, <1>7, <1>8
  <2> QED
    BY <2>1, <2>2
<1>13. UNCHANGED <<names, ptr, hashes, block, lastId, made, temp, tempData, written>>
  BY DEF FetchBlock, OnlyLocals, vars
<1> QED
  BY <1>3, <1>10, <1>11, <1>12, <1>13, ReadGoesOn

\* With one thread no other has a temp file open.
LEMMA NoneElsewhere ==
  ASSUME NEW t, Threads = {t}
  PROVE  OpenElsewhere(t) = {}
BY DEF OpenElsewhere

LEMMA OpenTempInv ==
  ASSUME StepsInv, NEW t, Threads = {t}, NoteQuiet, OpenTemp(t)
  PROVE  GoodStep
<1>1. PICK w : w = th[t]
  OBVIOUS
<1>2. Reading(w) /\ w.pc = "fetch" /\ w.ids = <<>>
  BY <1>1, WhereItIs DEF OpenTemp, At
<1>3. /\ w \in ReadRecs /\ w.file \in quiet.names /\ Kept /\ w.data = written[w.file]
      /\ temp = NoTemp /\ tempData = [i \in Threads |-> <<>>]
  <2>1. /\ w \in ReadRecs /\ w.file \in quiet.names /\ Kept /\ Fetching(w)
        /\ temp = NoTemp /\ tempData = [i \in Threads |-> <<>>]
    BY <1>2 DEF Reading, NoTempFile
  <2>2. PICK data : data = w.data
    OBVIOUS
  <2>3. data \in Seq(Contents) /\ Behind(w.ids) = <<>>
    BY <1>2, <2>1, <2>2 DEF ReadRecs, Behind
  <2>4. data \o <<>> = data
    BY <2>3
  <2> QED
    BY <2>1, <2>2, <2>3, <2>4 DEF Fetching
<1>4. temp' = t
  BY <1>3, NoneElsewhere DEF OpenTemp
<1>5. tempData' = [i \in Threads |-> <<>>]
  BY <1>3, <1>4 DEF OpenTemp
<1>6. PICK r : r = [w EXCEPT !.pc = "fill", !.fd = t]
  OBVIOUS
<1>7. r \in ReadRecs /\ r.pc = "fill" /\ r.file = w.file /\ r.data = w.data /\ r.fd = t
  BY <1>3, <1>6 DEF ReadRecs
<1>8. Continue(t, r) /\ UNCHANGED <<names, ptr, hashes, block, lastId, made, written>>
  BY <1>1, <1>4, <1>6 DEF OpenTemp, vars
<1> QED
  BY <1>3, <1>4, <1>5, <1>7, <1>8, ReadGoesOn

LEMMA FillTempInv ==
  ASSUME StepsInv, NEW t, Threads = {t}, NoteQuiet, FillTemp(t)
  PROVE  GoodStep
<1>1. PICK w : w = th[t]
  OBVIOUS
<1>2. Reading(w) /\ w.pc = "fill"
  BY <1>1, WhereItIs DEF FillTemp, At
<1>3. /\ w \in ReadRecs /\ w.file \in quiet.names /\ Kept /\ w.data = written[w.file]
      /\ temp = t /\ w.fd = t /\ tempData = [i \in Threads |-> <<>>]
  BY <1>2 DEF Reading
<1>4. PICK s : s = w.data
  OBVIOUS
<1>5. s \in Seq(Contents) /\ Len(s) \in Nat /\ s = [k \in 1..Len(s) |-> s[k]]
  <2>1. s \in Seq(Contents)
    BY <1>3, <1>4 DEF ReadRecs
  <2>2. Len(s) \in Nat /\ s \in [1..Len(s) -> Contents]
    BY <2>1, LenProperties
  <2> QED
    BY <2>1, <2>2, Zenon
<1>6. [k \in 1..(IF Len(<<>>) > Len(s) THEN Len(<<>>) ELSE Len(s)) |->
         IF k <= Len(s) THEN s[k] ELSE <<>>[k]] = s
  <2>1. Len(<<>>) = 0 /\ ~ (Len(<<>>) > Len(s))
    BY <1>5
  <2>2. (IF Len(<<>>) > Len(s) THEN Len(<<>>) ELSE Len(s)) = Len(s)
    BY <2>1
  <2>3. \A k \in 1..Len(s) : (IF k <= Len(s) THEN s[k] ELSE <<>>[k]) = s[k]
    BY <1>5
  <2> QED
    BY <1>5, <2>2, <2>3
<1>7. tempData' = [i \in Threads |-> s]
  <2>1. tempData' = [tempData EXCEPT ![t] =
          [k \in 1..(IF Len(@) > Len(s) THEN Len(@) ELSE Len(s)) |->
             IF k <= Len(s) THEN s[k] ELSE @[k]]]
    BY <1>1, <1>3, <1>4 DEF FillTemp
  <2>2. tempData[t] = <<>>
    BY <1>3
  <2>3. tempData' = [tempData EXCEPT ![t] = s]
    BY <1>6, <2>1, <2>2
  <2> QED
    BY <1>3, <2>3
<1>8. PICK r : r = [w EXCEPT !.pc = "pread"]
  OBVIOUS
<1>9. r \in ReadRecs /\ r.pc = "pread" /\ r.file = w.file /\ r.data = s /\ r.fd = t
  BY <1>3, <1>4, <1>8 DEF ReadRecs
<1>10. Continue(t, r) /\ temp' = t
       /\ UNCHANGED <<names, ptr, hashes, block, lastId, made, written>>
  BY <1>1, <1>3, <1>8 DEF FillTemp, vars
<1> QED
  BY <1>3, <1>4, <1>7, <1>9, <1>10, ReadGoesOn

LEMMA ReplyInv ==
  ASSUME StepsInv, NEW t, Threads = {t}, NoteQuiet, Reply(t)
  PROVE  GoodStep
<1>1. PICK w : w = th[t]
  OBVIOUS
<1>2. Reading(w) /\ w.pc = "pread"
  BY <1>1, WhereItIs DEF Reply, At
<1>3. /\ w \in ReadRecs /\ w.file \in quiet.names /\ Kept /\ w.data = written[w.file]
      /\ temp = t /\ w.fd = t /\ tempData = [i \in Threads |-> w.data]
  BY <1>2 DEF Reading
<1>4. PICK s : s = w.data
  OBVIOUS
<1>5. s \in Seq(Contents) /\ Len(s) \in Nat
  BY <1>3, <1>4, LenProperties DEF ReadRecs
<1>6. SubSeq(s, 1, IF Len(s) < Len(s) THEN Len(s) ELSE Len(s)) = s
  BY <1>5
<1>7. PICK r : r = [w EXCEPT !.pc = "replied", !.data = s]
  OBVIOUS
<1>8. r \in ReadRecs /\ r.pc = "replied" /\ r.file = w.file /\ r.data = s /\ r.fd = t
  BY <1>3, <1>5, <1>7 DEF ReadRecs
<1>9. tempData[th[t].fd] = s /\ th[t].data = s
  BY <1>1, <1>3, <1>4
<1>10. Continue(t, r) /\ temp' = t /\ tempData' = [i \in Threads |-> s]
       /\ UNCHANGED <<names, ptr, hashes, block, lastId, made, written>>
  BY <1>1, <1>3, <1>4, <1>6, <1>7, <1>9 DEF Reply, OnlyLocals, vars
<1> QED
  BY <1>3, <1>4, <1>8, <1>10, ReadGoesOn

LEMMA RemoveTempInv ==
  ASSUME StepsInv, NEW t, Threads = {t}, NoteQuiet, RemoveTemp(t)
  PROVE  GoodStep
<1>1. Reading(th[t])
  BY WhereItIs DEF RemoveTemp, At
<1>2. Kept
  BY <1>1 DEF Reading
<1>3. /\ th' = [th EXCEPT ![t] = Idle]
      /\ temp' = NoTemp /\ tempData' = [i \in Threads |-> <<>>]
      /\ UNCHANGED <<names, ptr, hashes, block, lastId, made, written>>
  BY NoneElsewhere DEF RemoveTemp, Continue, vars
<1>4. th'[t] = Idle /\ th' = [u \in Threads |-> th'[u]]
  BY <1>3 DEF StepsInv
<1>5. /\ quiet.names' = names' /\ quiet.ptr' = ptr' /\ quiet.hashes' = hashes'
      /\ quiet.block' = block' /\ quiet.lastId' = lastId'
  BY <1>4, AtRest
<1>6. UNCHANGED Q!vars
  BY <1>2, <1>3, <1>5 DEF Kept, Q!vars
<1>7. written' = Blocks'
  BY <1>2, <1>3, <1>5 DEF StepsInv, Blocks, Stored, Kept
<1>8. NoTempFile' /\ made' \in BOOLEAN
  BY <1>3 DEF NoTempFile, StepsInv
<1> QED
  BY <1>4, <1>6, <1>7, <1>8, Ends

-----------------------------------------------------------------------------
(* mknod, truncate and rename, the first state and all steps together.     *)

LEMMA InstantInv ==
  ASSUME StepsInv, NEW t, Threads = {t}, NoteQuiet, NEW f \in Files, Instant(f)
  PROVE  GoodStep
<1>1. th[t].pc = "idle"
  BY DEF Instant, At
<1>2. Resting(t) /\ QuietSound /\ Q!Inv /\ written = Blocks
  BY <1>1, WhereItIs, QuietIsSound DEF StepsInv
<1>3. /\ names = quiet.names /\ ptr = quiet.ptr /\ hashes = quiet.hashes
      /\ block = quiet.block /\ lastId = quiet.lastId /\ NoTempFile /\ th[t] = Idle
  BY <1>2 DEF Resting, Kept
<1>4. UNCHANGED <<made, temp, tempData, th>>
  BY DEF Instant
<1>5. th'[t] = Idle /\ th' = [u \in Threads |-> th'[u]]
  BY <1>3, <1>4 DEF StepsInv
<1>6. /\ quiet.names' = names' /\ quiet.ptr' = ptr' /\ quiet.hashes' = hashes'
      /\ quiet.block' = block' /\ quiet.lastId' = lastId'
  BY <1>5, AtRest
<1>7. NoTempFile' /\ made' \in BOOLEAN
  BY <1>3, <1>4 DEF NoTempFile, StepsInv
<1>8. quiet.ptr \in [Files -> Seq(Ids)] /\ written = Stored(quiet.ptr, quiet.block)
  BY <1>2 DEF QuietSound, PtrTables, Blocks
<1>9. Blocks' = Stored(ptr', block')
  BY <1>6 DEF Blocks
<1>10. ASSUME NEW p, NEW b
       PROVE  [k \in 1..Len(<<>>) |-> b[p[k]]] = <<>>
  OBVIOUS
<1>11. CASE Mknod(f) /\ UNCHANGED written
  <2>1. ptr' = [quiet.ptr EXCEPT ![f] = <<>>] /\ block' = quiet.block /\ f \notin quiet.names
    BY <1>3, <1>11 DEF Mknod
  <2>2. quiet.ptr[f] = <<>>
    BY <1>2, <2>1 DEF Q!Inv, Q!TypeOK
  <2>3. ptr' = quiet.ptr
    BY <1>8, <2>1, <2>2
  <2>4. written' = Blocks'
    BY <1>8, <1>9, <1>11, <2>1, <2>3
  <2>5. Q!Mknod(f)
    BY <1>3, <1>6, <1>11 DEF Mknod, Q!Mknod
  <2>6. Q!Next
    BY <2>5 DEF Q!Next
  <2> QED
    BY <1>5, <1>7, <2>4, <2>6, Ends
<1>12. CASE Truncate(f) /\ written' = [written EXCEPT ![f] = <<>>]
  <2>1. ptr' = [quiet.ptr EXCEPT ![f] = <<>>] /\ block' = quiet.block
    BY <1>3, <1>12 DEF Truncate
  <2>2. PICK p, b : p = ptr' /\ b = quiet.block
    OBVIOUS
  <2>3. p[f] = <<>> /\ \A g \in Files \ {f} : p[g] = quiet.ptr[g]
    BY <1>8, <2>1, <2>2
  <2>4. written' = Stored(p, b)
    <3>1. \A g \in Files : written[g] = [k \in 1..Len(quiet.ptr[g]) |-> b[quiet.ptr[g][k]]]
      BY <1>8, <2>2 DEF Stored
    <3>2. written = [g \in Files |-> written[g]]
      BY <1>8 DEF Stored
    <3>3. written' = [g \in Files |-> IF g = f THEN <<>> ELSE written[g]]
      BY <1>12, <3>2
    <3>4. \A g \in Files : (IF g = f THEN <<>> ELSE written[g]) = [k \in 1..Len(p[g]) |-> b[p[g][k]]]
      BY <1>10, <2>3, <3>1
    <3> QED
      BY <3>3, <3>4 DEF Stored
  <2>5. Q!Truncate(f)
    BY <1>3, <1>6, <1>12 DEF Truncate, Q!Truncate
  <2>6. Q!Next
    BY <2>5 DEF Q!Next
  <2> QED
    BY <1>5, <1>7, <1>9, <2>1, <2>2, <2>4, <2>6, Ends
<1>13. ASSUME NEW g \in Files, Rename(f, g),
              written' = [written EXCEPT ![g] = written[f], ![f] = <<>>]
       PROVE  GoodStep
  <2>1. /\ ptr' = [quiet.ptr EXCEPT ![g] = quiet.ptr[f], ![f] = <<>>]
        /\ block' = quiet.block /\ f # g
    BY <1>3, <1>13 DEF Rename
  <2>2. PICK p, b : p = ptr' /\ b = quiet.block
    OBVIOUS
  <2>3. p[f] = <<>> /\ p[g] = quiet.ptr[f] /\ \A h \in Files \ {f, g} : p[h] = quiet.ptr[h]
    BY <1>8, <2>1, <2>2
  <2>4. written' = Stored(p, b)
    <3>1. \A h \in Files : written[h] = [k \in 1..Len(quiet.ptr[h]) |-> b[quiet.ptr[h][k]]]
      BY <1>8, <2>2 DEF Stored
    <3>2. written = [h \in Files |-> written[h]]
      BY <1>8 DEF Stored
    <3>3. written' = [h \in Files |-> IF h = f THEN <<>> ELSE IF h = g THEN written[f] ELSE written[h]]
      BY <1>13, <2>1, <3>2
    <3>4. \A h \in Files : (IF h = f THEN <<>> ELSE IF h = g THEN written[f] ELSE written[h])
                             = [k \in 1..Len(p[h]) |-> b[p[h][k]]]
      <4> TAKE h \in Files
      <4>1. CASE h = f
        BY <1>10, <2>3, <4>1
      <4>2. CASE h = g
        BY <2>1, <2>3, <3>1, <4>2
      <4>3. CASE h # f /\ h # g
        BY <2>3, <3>1, <4>3
      <4> QED
        BY <4>1, <4>2, <4>3
    <3> QED
      BY <3>3, <3>4 DEF Stored
  <2>5. Q!Rename(f, g)
    BY <1>3, <1>6, <1>13 DEF Rename, Q!Rename
  <2>6. Q!Next
    BY <2>5 DEF Q!Next
  <2> QED
    BY <1>5, <1>7, <1>9, <2>1, <2>2, <2>4, <2>6, Ends
<1> QED
  BY <1>11, <1>12, <1>13 DEF Instant

LEMMA InitStepsInv ==
  ASSUME InitSteps
  PROVE  StepsInv /\ Q!Init
<1>1. /\ quiet.names = {} /\ quiet.ptr = [f \in Files |-> <<>>] /\ quiet.hashes = <<>>
      /\ quiet.block = [i \in Ids |-> NoBlock] /\ quiet.lastId = 0
      /\ Kept
  BY DEF InitSteps, Init, store, Kept
<1>2. Q!Init
  BY <1>1 DEF Q!Init, Q!Ids, Ids
<1>3. Q!Inv
  BY <1>2, Q!InitInv, HashInjective, NoBlockIsNoContent, FilesFinite, Widths, QuietOperators
<1>4. written = Blocks
  <2>1. written = [f \in Files |-> <<>>]
    BY DEF InitSteps
  <2>2. \A f \in Files : [k \in 1..Len(quiet.ptr[f]) |-> quiet.block[quiet.ptr[f][k]]] = <<>>
    BY <1>1
  <2> QED
    BY <2>1, <2>2 DEF Blocks, Stored
<1>5. \A t \in Threads : Place(t)
  BY <1>1 DEF InitSteps, Place, Resting, NoTempFile
<1>6. made \in BOOLEAN /\ th = [t \in Threads |-> th[t]]
  BY DEF InitSteps
<1> QED
  BY <1>2, <1>3, <1>4, <1>5, <1>6 DEF StepsInv

\* Every step of every handler keeps the invariant.
LEMMA NextStepsInv ==
  ASSUME StepsInv, NEW t, Threads = {t}, [NextSteps]_stepVars
  PROVE  GoodStep
<1>1. CASE UNCHANGED stepVars
  <2>1. UNCHANGED <<names, ptr, hashes, block, lastId, made, temp, tempData, th, written, quiet>>
    BY <1>1 DEF stepVars, vars
  <2>2. Q!Inv'
    BY <2>1 DEF StepsInv, Q!Inv, Q!TypeOK, Q!LinesAtTheirIds, Q!PointersResolve,
       Q!BlocksMatchLines, Q!LiveHashesDistinct, Q!UsageCoversRefs, Q!Refs
  <2>3. Blocks' = Blocks
    BY <2>1 DEF Blocks
  <2>4. th[t]' = th[t] /\ Kept' = Kept /\ NoTempFile' = NoTempFile
    BY <2>1 DEF Kept, NoTempFile
  <2>5. Resting(t) => Resting(t)'
    BY <2>4 DEF Resting
  <2>6. Writing(th[t]) => Writing(th[t])'
    <3>1. WriteBegun(th[t]) => WriteBegun(th[t])'
      BY <2>1, <2>4 DEF WriteBegun, RoomFor, Known
    <3>2. Searches(th[t]) => Searches(th[t])'
      BY <2>1, <2>4 DEF Searches, Known
    <3>3. AddsBlock(th[t]) => AddsBlock(th[t])'
      BY <2>1, <2>4 DEF AddsBlock, Known
    <3>4. SharesBlock(th[t]) => SharesBlock(th[t])'
      BY <2>1, <2>4 DEF SharesBlock, Known
    <3> QED
      BY <3>1, <3>2, <3>3, <3>4 DEF Writing
  <2>7. RemovingBlocks(th[t]) => RemovingBlocks(th[t])'
    <3>1. PICK w : w = th[t]
      OBVIOUS
    <3>2. \A all, n : Releasing(w, all, n) => Releasing(w, all, n)'
      BY <2>1 DEF Releasing, LinesAfter, BlocksAfter, Done, Ids
    <3>3. RemovingBlocks(w) => RemovingBlocks(w)'
      BY <2>1, <2>4, <3>2 DEF RemovingBlocks
    <3> QED
      BY <2>4, <3>1, <3>3
  <2>8. Reading(th[t]) => Reading(th[t])'
    BY <2>1, <2>4 DEF Reading, Fetching, Behind
  <2>9. Place(t)'
    BY <2>5, <2>6, <2>7, <2>8 DEF StepsInv, Place
  <2>10. UNCHANGED Q!vars
    BY <2>1 DEF Q!vars
  <2> QED
    BY <2>1, <2>2, <2>3, <2>9, <2>10 DEF StepsInv, GoodStep
<1>2. ASSUME NEW f \in Files, Instant(f), NoteQuiet
      PROVE  GoodStep
  BY <1>2, InstantInv
<1>3. ASSUME NEW f \in Files, Begin(t, f), NoteQuiet
      PROVE  GoodStep
  BY <1>3, BeginWriteInv, BeginUnlinkInv, BeginReadInv DEF Begin
<1>4. ASSUME Step(t), NoteQuiet
      PROVE  GoodStep
  <2>1. ASSUME WriteStep(t) PROVE GoodStep
    BY <1>4, <2>1, CompareInv, DecideInv, OpenBlockInv, TakeIdInv, FindLineInv, WriteLineInv,
       BumpInv, FlushBlockInv, StorePointerInv DEF WriteStep
  <2>2. ASSUME UnlinkStep(t) PROVE GoodStep
    BY <1>4, <2>2, ReadCounterInv, EmptyPointersInv, UnlinkBlockInv, ReleaseLineInv,
       RemoveFileInv DEF UnlinkStep
  <2>3. ASSUME ReadStep(t) PROVE GoodStep
    BY <1>4, <2>3, FetchBlockInv, OpenTempInv, FillTempInv, ReplyInv, RemoveTempInv DEF ReadStep
  <2> QED
    BY <1>4, <2>1, <2>2, <2>3 DEF Step
<1> QED
  BY <1>1, <1>2, <1>3, <1>4 DEF NextSteps

\* With FUSE's -s option the invariant holds between any two system calls.
THEOREM StepsInvariance ==
  ASSUME NEW CONSTANT t, Threads = {t}
  PROVE  SpecSteps => []StepsInv
<1>1. InitSteps => StepsInv
  BY InitStepsInv
<1>2. StepsInv /\ [NextSteps]_stepVars => StepsInv'
  BY NextStepsInv DEF GoodStep
<1> QED
  BY <1>1, <1>2, PTL DEF SpecSteps

-----------------------------------------------------------------------------
(* What the invariant says of the files, of what is read and of the types. *)

\* Between any two system calls a file has its pointers and its blocks, unless it
\* is being removed and its pointers file was emptied.
LEMMA FilesAsWritten ==
  ASSUME StepsInv, NEW t, Threads = {t}, NEW f \in Files
  PROVE  \/ Removing(f) /\ ptr[f] = <<>>
         \/ /\ ptr[f] = quiet.ptr[f]
            /\ \A k \in 1..Len(quiet.ptr[f]) :
                 block[quiet.ptr[f][k]] = quiet.block[quiet.ptr[f][k]]
<1>1. QuietSound /\ Place(t)
  BY QuietIsSound DEF StepsInv
<1>2. \A k \in 1..Len(quiet.ptr[f]) :
        /\ quiet.ptr[f][k] \in 1..quiet.lastId
        /\ quiet.ptr[f][k] \in Ids
        /\ quiet.lastId \in 0..MaxId
  BY <1>1, Widths DEF QuietSound, Ids
<1>3. CASE Resting(t) \/ Reading(th[t])
  BY <1>3 DEF Resting, Reading, Kept
<1>4. CASE Writing(th[t])
  <2>1. PICK w : w = th[t]
    OBVIOUS
  <2>2. ptr = quiet.ptr /\ (Searches(w) \/ AddsBlock(w) \/ SharesBlock(w))
    BY <1>4, <2>1 DEF Writing, WriteBegun
  <2>3. CASE block = quiet.block
    BY <2>2, <2>3
  <2>4. CASE AddsBlock(w) /\ block # quiet.block
    <3>1. PICK e : block = [quiet.block EXCEPT ![w.id] = e]
      BY <2>4 DEF AddsBlock
    <3>2. w.id = quiet.lastId + 1
      BY <2>4 DEF AddsBlock
    <3>3. \A k \in 1..Len(quiet.ptr[f]) : quiet.ptr[f][k] # w.id
      BY <1>2, <3>2
    <3>4. quiet.block \in [Ids -> Contents \cup {NoBlock}]
      BY <1>1 DEF QuietSound
    <3> QED
      BY <1>2, <2>2, <3>1, <3>3, <3>4
  <2> QED
    BY <2>2, <2>3, <2>4 DEF Searches, SharesBlock, Kept
<1>5. CASE RemovingBlocks(th[t])
  <2>1. PICK w : w = th[t]
    OBVIOUS
  <2>2. /\ w \in RemoveRecs /\ w.file \in Files
        /\ \E n \in 0..Len(quiet.ptr[w.file]) : Releasing(w, quiet.ptr[w.file], n)
    BY <1>5, <2>1 DEF RemovingBlocks, RemoveRecs
  <2>3. PICK all : all = quiet.ptr[w.file]
    OBVIOUS
  <2>4. PICK n \in 0..Len(all) : Releasing(w, all, n)
    BY <2>2, <2>3
  <2>5. /\ block = BlocksAfter(hashes, IF w.pc = "release" /\ w.usage = 1 THEN all[n + 1] ELSE 0)
        /\ \/ ptr = Emptied(quiet.ptr, w.file)
           \/ ptr = quiet.ptr /\ block = quiet.block
        /\ w.pc = "release" => n < Len(all)
    BY <2>4 DEF Releasing
  <2>6. quiet.ptr \in [Files -> Seq(Ids)]
    BY <1>1 DEF QuietSound, PtrTables
  <2>7. CASE ptr = quiet.ptr /\ block = quiet.block
    BY <2>7
  <2>8. CASE ptr = Emptied(quiet.ptr, w.file) /\ w.file = f
    <3>1. ptr[f] = <<>>
      BY <2>2, <2>6, <2>8 DEF Emptied
    <3>2. th[t].pc \in {"counter", "empty", "unlink", "release"} /\ th[t].file = f
      BY <2>1, <2>2, <2>8 DEF RemoveRecs
    <3> QED
      BY <3>1, <3>2 DEF Removing
  <2>9. CASE ptr = Emptied(quiet.ptr, w.file) /\ w.file # f
    <3>1. ptr[f] = quiet.ptr[f]
      BY <2>6, <2>9 DEF Emptied
    <3>2. ASSUME NEW k \in 1..Len(quiet.ptr[f])
          PROVE  block[quiet.ptr[f][k]] = quiet.block[quiet.ptr[f][k]]
      <4>1. PICK p : p = quiet.ptr[f][k]
        OBVIOUS
      <4>2. p \in 1..quiet.lastId /\ p \in Ids /\ p # 0
        BY <1>2, <4>1
      <4>3. Occurrences(all, p) < quiet.hashes[p].usage
        BY <1>1, <2>2, <2>3, <2>9, <4>1, <4>2, CountersSuffice
      <4>4. all \in Seq(Ids) /\ Len(all) \in Nat
        BY <2>2, <2>3, <2>6
      <4>5. /\ Done(all, n, p) \in Nat /\ Occurrences(all, p) \in Nat
            /\ Done(all, n, p) <= Occurrences(all, p)
        BY <4>4, DoneIs
      <4>6. quiet.hashes[p].usage \in Nat
        BY <1>1, <4>2, Widths DEF QuietSound
      <4>7. hashes[p].usage = quiet.hashes[p].usage - Done(all, n, p)
        BY <1>1, <2>2, <2>3, <2>4, <4>2, ReleasingFinds
      <4>8. hashes[p].usage # 0
        BY <4>3, <4>5, <4>6, <4>7
      <4>9. ~ (w.pc = "release" /\ w.usage = 1 /\ p = all[n + 1])
        <5> SUFFICES ASSUME w.pc = "release" /\ w.usage = 1 /\ p = all[n + 1]
                     PROVE  FALSE
          OBVIOUS
        <5>1. n \in 0..(Len(all) - 1) /\ n + 1 \in 0..Len(all)
          BY <2>5, <4>4
        <5>2. Done(all, n + 1, p) = Done(all, n, p) + 1
          BY <4>4, <5>1, OneMoreDone
        <5>3. Done(all, n + 1, p) <= Occurrences(all, p)
          BY <4>4, <5>1, DoneIs
        <5>4. hashes[p].usage = 1
          BY <2>4 DEF Releasing
        <5> QED
          BY <4>3, <4>5, <4>6, <4>7, <5>2, <5>3, <5>4
      <4>10. p # (IF w.pc = "release" /\ w.usage = 1 THEN all[n + 1] ELSE 0)
        BY <4>2, <4>9
      <4>11. block[p] = quiet.block[p]
        BY <2>5, <4>2, <4>8, <4>10 DEF BlocksAfter
      <4> QED
        BY <4>1, <4>11
    <3> QED
      BY <3>1, <3>2
  <2> QED
    BY <2>5, <2>7, <2>8, <2>9
<1> QED
  BY <1>1, <1>3, <1>4, <1>5 DEF Place

LEMMA FilesReadBack ==
  ASSUME StepsInv, NEW t, Threads = {t}
  PROVE  ReadsBackAsWritten /\ SizeIsWhatWasKept
<1>1. QuietSound /\ written = Blocks
  BY QuietIsSound DEF StepsInv
<1>2. ASSUME NEW f \in Files
      PROVE  ReadBack[f] = written[f] \/ (Removing(f) /\ ptr[f] = <<>>)
  <2>1. CASE Removing(f) /\ ptr[f] = <<>>
    BY <2>1
  <2>2. CASE /\ ptr[f] = quiet.ptr[f]
             /\ \A k \in 1..Len(quiet.ptr[f]) :
                  block[quiet.ptr[f][k]] = quiet.block[quiet.ptr[f][k]]
    <3>1. ReadBack[f] = [k \in 1..Len(ptr[f]) |-> block[ptr[f][k]]]
      BY DEF ReadBack
    <3>2. written[f] = [k \in 1..Len(quiet.ptr[f]) |-> quiet.block[quiet.ptr[f][k]]]
      BY <1>1, WrittenIs
    <3> QED
      BY <2>2, <3>1, <3>2
  <2> QED
    BY <2>1, <2>2, FilesAsWritten
<1>3. ASSUME NEW f \in Files
      PROVE  \/ SizeOf(f) = Reported(TotalSize(written[f]), Len(written[f]))
             \/ Removing(f)
  <2>1. CASE Removing(f)
    BY <2>1
  <2>2. CASE /\ ptr[f] = quiet.ptr[f]
             /\ \A k \in 1..Len(quiet.ptr[f]) :
                  block[quiet.ptr[f][k]] = quiet.block[quiet.ptr[f][k]]
    <3>1. PICK ids, blocks : ids = ptr[f] /\ blocks = written[f]
      OBVIOUS
    <3>2. /\ blocks = [k \in 1..Len(ids) |-> quiet.block[ids[k]]]
          /\ Len(blocks) = Len(ids)
      BY <1>1, <2>2, <3>1, WrittenIs
    <3>3. [k \in 1..Len(ids) |-> block[ids[k]]] = blocks
      BY <2>2, <3>1, <3>2
    <3>4. RealSize(ids) = TotalSize(blocks)
      BY <3>3, Zenon DEF RealSize
    <3> QED
      BY <3>1, <3>2, <3>4, Zenon DEF SizeOf
  <2> QED
    BY <2>1, <2>2, FilesAsWritten
<1> QED
  BY <1>2, <1>3 DEF ReadsBackAsWritten, SizeIsWhatWasKept

LEMMA ReadGetsWritten ==
  ASSUME StepsInv, NEW t, Threads = {t}
  PROVE  DataReadIsDataWritten
<1>1. ASSUME NEW u \in Threads, th[u].pc = "replied"
      PROVE  th[u].data = written[th[u].file]
  <2>1. Reading(th[u])
    BY <1>1, WhereItIs
  <2> QED
    BY <1>1, <2>1 DEF Reading
<1> QED
  BY <1>1 DEF DataReadIsDataWritten, At

\* The parts of the type invariant: the store, and the local variables.
StoreTypes ==
  /\ names \in SUBSET Files
  /\ ptr \in [Files -> Seq(Ids)]
  /\ hashes \in Seq(Lines)
  /\ block \in [Ids -> Contents \cup {NoBlock, Empty}]
  /\ lastId \in 0..MaxId
  /\ temp \in Threads \cup {NoTemp}
  /\ tempData \in [Threads -> Seq(Contents)]

LocalTypes(w) ==
  /\ "usage" \in DOMAIN w => w.usage \in 0..MaxUsage
  /\ "ids" \in DOMAIN w => w.ids \in Seq(Ids)
  /\ "opened" \in DOMAIN w => w.opened \in 0..MaxId

LEMMA NoTempTypes ==
  ASSUME NoTempFile
  PROVE  temp \in Threads \cup {NoTemp} /\ tempData \in [Threads -> Seq(Contents)]
<1>1. <<>> \in Seq(Contents)
  OBVIOUS
<1> QED
  BY <1>1 DEF NoTempFile

LEMMA KeptTypes ==
  ASSUME QuietSound, Kept, temp \in Threads \cup {NoTemp}, tempData \in [Threads -> Seq(Contents)]
  PROVE  StoreTypes
BY DEF QuietSound, Kept, StoreTypes, PtrTables

LEMMA WritingTypes ==
  ASSUME QuietSound, NEW w, Writing(w)
  PROVE  StoreTypes /\ LocalTypes(w)
<1>1. /\ w \in WriteRecs /\ names = quiet.names /\ ptr = quiet.ptr /\ NoTempFile
      /\ RoomFor(w.data) /\ (Searches(w) \/ AddsBlock(w) \/ SharesBlock(w))
  BY DEF Writing, WriteBegun
<1>2. w.data \in Contents /\ HashOf[w.data] \in Hashes
  BY <1>1, HashInjective DEF WriteRecs
<1>3. LocalTypes(w)
  <2>1. w.usage \in 0..MaxUsage /\ w.opened \in 0..MaxId
    BY <1>1 DEF WriteRecs
  <2>2. "ids" \notin DOMAIN w
    BY <1>1 DEF WriteRecs
  <2> QED
    BY <2>1, <2>2 DEF LocalTypes
<1>4. CASE Kept
  BY <1>1, <1>3, <1>4, NoTempTypes, KeptTypes
<1>5. CASE AddsBlock(w)
  <2>1. PICK id, last : id = w.id /\ last = quiet.lastId
    OBVIOUS
  <2>2. id = last + 1 /\ last \in 0..MaxId /\ id \in Ids /\ id \in 0..MaxId
    BY <1>1, <1>5, <2>1, Widths DEF AddsBlock, RoomFor, QuietSound, Ids
  <2>3. lastId \in 0..MaxId
    BY <1>5, <2>1, <2>2 DEF AddsBlock
  <2>4. Line(id, 1, HashOf[w.data]) \in Lines
    BY <1>2, <2>2, Widths DEF Line, Lines
  <2>5. hashes \in Seq(Lines)
    <3>1. quiet.hashes \in Seq(Lines)
      BY DEF QuietSound
    <3>2. Append(quiet.hashes, Line(id, 1, HashOf[w.data])) \in Seq(Lines)
      BY <2>4, <3>1
    <3> QED
      BY <1>5, <2>1, <3>1, <3>2 DEF AddsBlock, AppendLine
  <2>6. block \in [Ids -> Contents \cup {NoBlock, Empty}]
    <3>1. quiet.block \in [Ids -> Contents \cup {NoBlock, Empty}]
      BY DEF QuietSound
    <3> QED
      BY <1>2, <1>5, <3>1 DEF AddsBlock
  <2>7. names \in SUBSET Files /\ ptr \in [Files -> Seq(Ids)]
    BY <1>1 DEF QuietSound, PtrTables
  <2> QED
    BY <1>1, <1>3, <2>3, <2>5, <2>6, <2>7, NoTempTypes DEF StoreTypes
<1>6. CASE SharesBlock(w)
  <2>1. PICK id, lines : id = w.id /\ lines = quiet.hashes
    OBVIOUS
  <2>2. id \in 1..quiet.lastId /\ lines[id].usage < MaxUsage /\ id \in Ids
    <3>1. id = Known(w.data) /\ id \in 1..quiet.lastId
      BY <1>6, <2>1 DEF SharesBlock
    <3>2. quiet.lastId \in 0..MaxId
      BY DEF QuietSound
    <3>3. id # quiet.lastId + 1 /\ id \in Ids
      BY <3>1, <3>2, Widths DEF Ids
    <3>4. lines[id].usage < MaxUsage
      BY <1>1, <2>1, <3>1, <3>3 DEF RoomFor
    <3> QED
      BY <3>1, <3>3, <3>4
  <2>3. lines \in Seq(Lines) /\ Len(lines) = quiet.lastId /\ lines[id].usage \in 0..MaxUsage
    BY <2>1, <2>2 DEF QuietSound
  <2>4. lines[id].usage + 1 \in 0..MaxUsage
    BY <2>2, <2>3, Widths
  <2>5. PICK e : e = Line(id, lines[id].usage + 1, HashOf[w.data])
    OBVIOUS
  <2>6. e \in Lines
    BY <1>2, <2>2, <2>4, <2>5 DEF Line, Lines
  <2>7. [lines EXCEPT ![id] = e] \in Seq(Lines)
    BY <2>2, <2>3, <2>6, ExceptSeq
  <2>8. hashes \in Seq(Lines)
    BY <1>6, <2>1, <2>3, <2>5, <2>7 DEF SharesBlock, CountOneMore
  <2>9. /\ names \in SUBSET Files /\ ptr \in [Files -> Seq(Ids)]
        /\ block \in [Ids -> Contents \cup {NoBlock, Empty}]
        /\ lastId \in 0..MaxId
    BY <1>1, <1>6 DEF QuietSound, PtrTables, SharesBlock
  <2> QED
    BY <1>1, <1>3, <2>8, <2>9, NoTempTypes DEF StoreTypes
<1> QED
  BY <1>1, <1>4, <1>5, <1>6 DEF Searches

LEMMA RemovingTypes ==
  ASSUME QuietSound, NEW w, RemovingBlocks(w)
  PROVE  StoreTypes /\ LocalTypes(w)
<1>1. /\ w \in RemoveRecs /\ w.file \in Files /\ names = quiet.names /\ lastId = quiet.lastId
      /\ NoTempFile
      /\ \E n \in 0..Len(quiet.ptr[w.file]) : Releasing(w, quiet.ptr[w.file], n)
  BY DEF RemovingBlocks, RemoveRecs
<1>2. LocalTypes(w)
  <2>1. w.usage \in 0..MaxUsage /\ w.ids \in Seq(Ids)
    BY <1>1 DEF RemoveRecs
  <2>2. "opened" \notin DOMAIN w
    BY <1>1 DEF RemoveRecs
  <2> QED
    BY <2>1, <2>2 DEF LocalTypes
<1>3. PICK all : all = quiet.ptr[w.file]
  OBVIOUS
<1>4. PICK n \in 0..Len(all) : Releasing(w, all, n)
  BY <1>1, <1>3
<1>5. hashes \in Seq(Lines)
  BY <1>1, <1>3, <1>4, ReleasingFinds
<1>6. quiet.ptr \in [Files -> Seq(Ids)] /\ <<>> \in Seq(Ids)
  BY DEF QuietSound, PtrTables
<1>7. ptr \in [Files -> Seq(Ids)]
  <2>1. ptr = Emptied(quiet.ptr, w.file) \/ ptr = quiet.ptr
    BY <1>4 DEF Releasing
  <2> QED
    BY <1>1, <1>6, <2>1 DEF Emptied
<1>8. block \in [Ids -> Contents \cup {NoBlock, Empty}]
  <2>1. quiet.block \in [Ids -> Contents \cup {NoBlock}]
    BY DEF QuietSound
  <2>2. PICK x : block = BlocksAfter(hashes, x)
    BY <1>4 DEF Releasing
  <2> QED
    BY <2>1, <2>2 DEF BlocksAfter
<1>9. names \in SUBSET Files /\ lastId \in 0..MaxId
  BY <1>1 DEF QuietSound
<1> QED
  BY <1>1, <1>2, <1>5, <1>7, <1>8, <1>9, NoTempTypes DEF StoreTypes

LEMMA TypesHold ==
  ASSUME StepsInv, NEW t, Threads = {t}
  PROVE  StepsTypeOK
<1>1. QuietSound /\ Place(t) /\ written = Blocks /\ made \in BOOLEAN
  BY QuietIsSound DEF StepsInv
<1>2. written \in [Files -> Seq(Contents)]
  <2>1. \A f \in Files : written[f] \in Seq(Contents)
    BY <1>1, WrittenIs
  <2>2. written = [f \in Files |-> written[f]]
    BY <1>1 DEF Blocks, Stored
  <2> QED
    BY <2>1, <2>2
<1>3. CASE Resting(t)
  <2>1. LocalTypes(th[t])
    <3>1. PICK w : w = th[t]
      OBVIOUS
    <3>2. DOMAIN w = {"pc"}
      BY <1>3, <3>1 DEF Resting, Idle
    <3> QED
      BY <3>1, <3>2 DEF LocalTypes
  <2>2. StoreTypes
    BY <1>1, <1>3, NoTempTypes, KeptTypes DEF Resting
  <2> QED
    BY <1>1, <1>2, <2>1, <2>2 DEF StepsTypeOK, StoreTypes, LocalTypes
<1>4. CASE Reading(th[t])
  <2>1. PICK w : w = th[t]
    OBVIOUS
  <2>2. w \in ReadRecs /\ Kept
    BY <1>4, <2>1 DEF Reading
  <2>3. LocalTypes(w)
    <3>1. w.ids \in Seq(Ids) /\ "usage" \notin DOMAIN w /\ "opened" \notin DOMAIN w
      BY <2>2 DEF ReadRecs
    <3> QED
      BY <3>1 DEF LocalTypes
  <2>4. temp \in Threads \cup {NoTemp} /\ tempData \in [Threads -> Seq(Contents)]
    <3>1. w.data \in Seq(Contents) /\ <<>> \in Seq(Contents)
      BY <2>2 DEF ReadRecs
    <3>2. CASE NoTempFile
      BY <3>2, NoTempTypes
    <3>3. CASE ~ NoTempFile
      <4>1. /\ temp \in Threads
            /\ tempData = [i \in Threads |-> IF w.pc = "fill" THEN <<>> ELSE w.data]
        BY <1>4, <2>1, <3>3 DEF Reading
      <4> QED
        BY <3>1, <4>1
    <3> QED
      BY <3>2, <3>3
  <2>5. StoreTypes
    BY <1>1, <2>2, <2>4, KeptTypes
  <2> QED
    BY <1>1, <1>2, <2>1, <2>3, <2>5 DEF StepsTypeOK, StoreTypes, LocalTypes
<1>5. CASE Writing(th[t]) \/ RemovingBlocks(th[t])
  <2>1. PICK w : w = th[t]
    OBVIOUS
  <2>2. StoreTypes /\ LocalTypes(w)
    BY <1>1, <1>5, <2>1, WritingTypes, RemovingTypes
  <2> QED
    BY <1>1, <1>2, <2>1, <2>2 DEF StepsTypeOK, StoreTypes, LocalTypes
<1> QED
  BY <1>1, <1>3, <1>4, <1>5 DEF Place

-----------------------------------------------------------------------------
(* The theorems, for one thread.  With two, handlers that overlap can be   *)
(* given one block, and files no longer read back as written (run threads).*)

\* Whatever the handler is in the middle of, every variable has its type, the
\* local ones included.
THEOREM StepsTypeCorrect ==
  ASSUME NEW CONSTANT t, Threads = {t}
  PROVE  SpecSteps => []StepsTypeOK
<1>1. StepsInv => StepsTypeOK
  BY TypesHold
<1> QED
  BY <1>1, StepsInvariance, PTL

\* Between any two system calls of a handler every file reads back as what was
\* written to it, unless it is being removed and is empty already: delete_blocks
\* never takes a block that a file on disk still needs.
THEOREM FilesReadBackBetweenCalls ==
  ASSUME NEW CONSTANT t, Threads = {t}
  PROVE  SpecSteps => []ReadsBackAsWritten
<1>1. StepsInv => ReadsBackAsWritten
  BY FilesReadBack
<1> QED
  BY <1>1, StepsInvariance, PTL

\* bb_read hands over what was written to the file, by way of the temp file.
THEOREM ReadsAreRight ==
  ASSUME NEW CONSTANT t, Threads = {t}
  PROVE  SpecSteps => []DataReadIsDataWritten
<1>1. StepsInv => DataReadIsDataWritten
  BY ReadGetsWritten
<1> QED
  BY <1>1, StepsInvariance, PTL

\* bb_getattr reports the size of what is kept of the blocks written to the file,
\* whatever the lengths of contents are: it depends on no other file and on no
\* request under way, but a removal of the file itself.
THEOREM SizesAreRight ==
  ASSUME NEW CONSTANT t, Threads = {t}
  PROVE  SpecSteps => []SizeIsWhatWasKept
<1>1. StepsInv => SizeIsWhatWasKept
  BY FilesReadBack
<1> QED
  BY <1>1, StepsInvariance, PTL

\* The two instances of BlockStore have the same initial states and steps.
LEMMA SequentialIsQ ==
  /\ Q!Init => Sequential!Init
  /\ [Q!Next]_(Q!vars) => [Sequential!Next]_(Sequential!vars)
<1>1. Q!Init => Sequential!Init
  BY DEF Q!Init, Sequential!Init, Q!Ids, Sequential!Ids
<1>2. UNCHANGED Q!vars => UNCHANGED Sequential!vars
  BY DEF Q!vars, Sequential!vars
<1>3. ASSUME NEW f \in Files
      PROVE  /\ Q!Mknod(f) => Sequential!Mknod(f)
             /\ Q!Truncate(f) => Sequential!Truncate(f)
             /\ \A g \in Files : Q!Rename(f, g) => Sequential!Rename(f, g)
  BY DEF Q!Mknod, Sequential!Mknod, Q!Truncate, Sequential!Truncate, Q!Rename, Sequential!Rename
<1>4. ASSUME NEW f \in Files, Q!Unlink(f)
      PROVE  Sequential!Unlink(f)
  <2>1. \A ids, p : Q!Occurrences(ids, p) = Sequential!Occurrences(ids, p)
    BY DEF Q!Occurrences, Sequential!Occurrences, Q!Cardinality, Sequential!Cardinality,
       Q!IsFiniteSet, Sequential!IsFiniteSet
  <2>2. \A lines, ids : Q!ReleaseLines(lines, ids) = Sequential!ReleaseLines(lines, ids)
    BY <2>1 DEF Q!ReleaseLines, Sequential!ReleaseLines, Q!Released, Sequential!Released,
       Q!Line, Sequential!Line
  <2>3. \A lines, ids : Q!FreedIds(lines, ids) = Sequential!FreedIds(lines, ids)
    BY <2>1 DEF Q!FreedIds, Sequential!FreedIds
  <2> QED
    BY <1>4, <2>2, <2>3 DEF Q!Unlink, Sequential!Unlink, Q!Ids, Sequential!Ids
<1>5. ASSUME NEW f \in Files, NEW k \in 0..MaxBlocks, NEW c \in Contents, Q!Write(f, k, c)
      PROVE  Sequential!Write(f, k, c)
  <2>1. \A lines, last, h : Q!CompareHashes(lines, last, h) = Sequential!CompareHashes(lines, last, h)
    BY DEF Q!CompareHashes, Sequential!CompareHashes, Q!MatchingLines, Sequential!MatchingLines,
       Q!Min, Sequential!Min
  <2>2. \A id : Q!SetPointer(f, k, id) => Sequential!SetPointer(f, k, id)
    BY DEF Q!SetPointer, Sequential!SetPointer, Q!PutPointer, Sequential!PutPointer,
       Q!SlotOf, Sequential!SlotOf, Q!BlockSize, Sequential!BlockSize,
       Q!SlotSize, Sequential!SlotSize, Q!Hole, Sequential!Hole
  <2>3. Q!WriteNew(f, k, c) => Sequential!WriteNew(f, k, c)
    BY <2>1, <2>2 DEF Q!WriteNew, Sequential!WriteNew, Q!AppendLine, Sequential!AppendLine,
       Q!Line, Sequential!Line
  <2>4. Q!WriteShared(f, k, c) => Sequential!WriteShared(f, k, c)
    BY <2>1, <2>2 DEF Q!WriteShared, Sequential!WriteShared, Q!CountOneMore,
       Sequential!CountOneMore, Q!Line, Sequential!Line
  <2> QED
    BY <1>5, <2>3, <2>4 DEF Q!Write, Sequential!Write
<1>6. Q!Next => Sequential!Next
  BY <1>3, <1>4, <1>5 DEF Q!Next, Sequential!Next
<1> QED
  BY <1>1, <1>2, <1>6

\* The handlers, cut at their system calls, implement those of BlockStore: what
\* lies between two moments without requests is one step of it.
THEOREM StepsRefinement ==
  ASSUME NEW CONSTANT t, Threads = {t}
  PROVE  SpecSteps => ImplementsBlockStore
<1>1. InitSteps => Sequential!Init
  BY InitStepsInv, SequentialIsQ
<1>2. StepsInv /\ [NextSteps]_stepVars => [Sequential!Next]_(Sequential!vars)
  BY NextStepsInv, SequentialIsQ DEF GoodStep
<1> QED
  BY <1>1, <1>2, StepsInvariance, PTL DEF SpecSteps, ImplementsBlockStore, Sequential!Spec

=============================================================================
