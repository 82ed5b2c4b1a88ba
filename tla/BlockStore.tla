----------------------------- MODULE BlockStore -----------------------------
(***************************************************************************)
(* The handlers of Project 4/filesystem/bbfs.c that change what is stored, *)
(* each run to its end before the next one starts (the daemon mounted with *)
(* FUSE's -s option).  A file has one name here; hard and symbolic links   *)
(* are in BlockStoreLinks, a remount is in BlockStoreRestart.              *)
(***************************************************************************)
EXTENDS HashesFile

CONSTANTS
  Files,      \* names of regular files below rootDir
  MaxId,      \* bound: the ids three digits can write
  MaxUsage,   \* bound: the counters two digits can write
  MaxBlocks   \* bound: blocks of one file

ASSUME FilesFinite == IsFiniteSet(Files)

\* An id has ID_LENGTH digits and a counter POINTERS_COUNTER_LENGTH digits;
\* from block 151 on SlotOf(k) is not k any more (theorem SlotIsIndex).
ASSUME Widths ==
  /\ MaxId \in 1..999
  /\ MaxUsage \in 1..99
  /\ MaxBlocks \in 1..151

VARIABLES
  names,    \* the directory entries of rootDir
  ptr,      \* the pointers file behind each name, as a sequence of ids
  hashes,   \* the lines of the hashes file
  block,    \* the id.txt files of the hidden directory
  lastId    \* bb_state.last_id, in the daemon's memory

vars == <<names, ptr, hashes, block, lastId>>

Ids == 1..MaxId

Init ==
  /\ names = {}
  /\ ptr = [f \in Files |-> <<>>]
  /\ hashes = <<>>
  /\ block = [i \in Ids |-> NoBlock]
  /\ lastId = 0

-----------------------------------------------------------------------------
(* The handlers.                                                           *)

\* open(O_CREAT | O_EXCL): an empty pointers file.
Mknod(f) ==
  /\ f \notin names
  /\ names' = names \cup {f}
  /\ ptr' = [ptr EXCEPT ![f] = <<>>]
  /\ UNCHANGED <<hashes, block, lastId>>

\* bb_write puts the id that write_blocks returned into the slot of block k.
\* The requests modelled overwrite a block or append one.
SetPointer(f, k, id) ==
  /\ f \in names
  /\ k \in 0..Len(ptr[f])
  /\ k < MaxBlocks
  /\ ptr' = [ptr EXCEPT ![f] = PutPointer(@, SlotOf(k), id)]
  /\ UNCHANGED names

\* generate_block when no line in use has the hash of c: a new id.txt, a new
\* line, and last_id moves on.
WriteNew(f, k, c) ==
  /\ CompareHashes(hashes, lastId, HashOf[c]) > lastId
  /\ lastId < MaxId
  /\ hashes' = AppendLine(hashes, lastId + 1, HashOf[c])
  /\ block' = [block EXCEPT ![lastId + 1] = c]
  /\ lastId' = lastId + 1
  /\ SetPointer(f, k, lastId + 1)

\* generate_block when a line in use has the hash of c: one more user of it.
WriteShared(f, k, c) ==
  LET id == CompareHashes(hashes, lastId, HashOf[c])
  IN  /\ id <= lastId
      /\ hashes[id].usage < MaxUsage
      /\ hashes' = CountOneMore(hashes, id, HashOf[c])
      /\ SetPointer(f, k, id)
      /\ UNCHANGED <<block, lastId>>

Write(f, k, c) == WriteNew(f, k, c) \/ WriteShared(f, k, c)

\* truncate or ftruncate to 0 (what open with O_TRUNC asks for): the pointers
\* file is emptied and no counter is touched.
Truncate(f) ==
  /\ f \in names
  /\ ptr' = [ptr EXCEPT ![f] = <<>>]
  /\ UNCHANGED <<names, hashes, block, lastId>>

\* rename(2) of the pointers file; one that g had is dropped, its counters are
\* not touched.
Rename(f, g) ==
  /\ f \in names
  /\ f # g
  /\ names' = (names \ {f}) \cup {g}
  /\ ptr' = [ptr EXCEPT ![g] = ptr[f], ![f] = <<>>]
  /\ UNCHANGED <<hashes, block, lastId>>

\* delete_blocks, then unlink(2) of the pointers file.
Unlink(f) ==
  /\ f \in names
  /\ hashes' = ReleaseLines(hashes, ptr[f])
  /\ block' = [i \in Ids |->
       IF i \in FreedIds(hashes, ptr[f]) THEN NoBlock ELSE block[i]]
  /\ names' = names \ {f}
  /\ ptr' = [ptr EXCEPT ![f] = <<>>]
  /\ UNCHANGED lastId

Next ==
  \E f \in Files :
    \/ Mknod(f)
    \/ Truncate(f)
    \/ Unlink(f)
    \/ \E k \in 0..MaxBlocks, c \in Contents : Write(f, k, c)
    \/ \E g \in Files : Rename(f, g)

Spec == Init /\ [][Next]_vars

-----------------------------------------------------------------------------
(* The part of the behaviours in which a pointer is given up only by       *)
(* bb_unlink: files are created, appended to, moved to a free name and     *)
(* removed, as the test programs do on a fresh mount.                      *)

NextUnlinkOnly ==
  \E f \in Files :
    \/ Mknod(f)
    \/ Unlink(f)
    \/ \E c \in Contents : Write(f, Len(ptr[f]), c)
    \/ \E g \in Files \ names : Rename(f, g)

SpecUnlinkOnly == Init /\ [][NextUnlinkOnly]_vars

-----------------------------------------------------------------------------
(* Properties.                                                             *)

Lines == [id : Ids, usage : 0..MaxUsage, hash : Hashes]

\* The variables have their types: every pointer is an id (never a hole or the
\* id 0 of a failed generate_block), every counter fits its field, and only an
\* existing file has pointers.
TypeOK ==
  /\ names \in SUBSET Files
  /\ ptr \in [Files -> Seq(Ids)]
  /\ hashes \in Seq(Lines)
  /\ block \in [Ids -> Contents \cup {NoBlock}]
  /\ lastId \in 0..MaxId
  /\ \A f \in Files : Len(ptr[f]) <= MaxBlocks
  /\ \A f \in Files \ names : ptr[f] = <<>>

\* Every pointer of every file leads to a block file that exists: read_file
\* appends what read_block returns without looking whether it is NULL.
PointersResolve ==
  \A f \in Files : \A k \in 1..Len(ptr[f]) :
    /\ ptr[f][k] \in 1..lastId
    /\ block[ptr[f][k]] # NoBlock

\* write_hash and delete_blocks find the line of id at position id of the
\* hashes file, so the line at each position must be that of its id, and the
\* next id must be that of the next line.
LinesAtTheirIds ==
  /\ Len(hashes) = lastId
  /\ \A p \in 1..lastId : hashes[p].id = p

\* A block file exists exactly while its line counts a user, and holds the
\* data whose hash the line records.
BlocksMatchLines ==
  \A i \in Ids :
    /\ block[i] # NoBlock <=> i <= lastId /\ hashes[i].usage # 0
    /\ block[i] # NoBlock => HashOf[block[i]] = hashes[i].hash

\* No data is stored twice: two lines in use never have the same hash.
LiveHashesDistinct ==
  \A p, q \in DOMAIN hashes :
    /\ hashes[p].usage # 0
    /\ hashes[q].usage # 0
    /\ hashes[p].hash = hashes[q].hash
    => p = q

\* The pointers to block i, each as the file and the position that holds it.
Refs(i) ==
  {r \in Files \X (1..MaxBlocks) :
     r[2] \in 1..Len(ptr[r[1]]) /\ ptr[r[1]][r[2]] = i}

\* The counter of a block is never below the number of pointers to it: what
\* makes it safe for delete_blocks to unlink a block when it takes its counter
\* from 1 to 0.
UsageCoversRefs ==
  \A i \in 1..lastId : Cardinality(Refs(i)) <= hashes[i].usage

\* A counter is exactly the number of pointers to its block (our_lib.c:96, "01
\* indicates how many files use this").  This holds while bb_unlink is all that
\* gives pointers up; an overwrite, a truncation or a rename over a file leaves
\* a counter that no unlink takes to 0 again.
UsageIsExact ==
  \A i \in 1..lastId : Cardinality(Refs(i)) = hashes[i].usage

\* Every block file is needed by some pointer, so no space is lost: what
\* delete_blocks is for ("only 1 file uses, unlink this file", our_lib.c:342).
\* It holds while bb_unlink is all that gives pointers up.
NoOrphanBlocks == \A i \in Ids : block[i] # NoBlock => Refs(i) # {}

\* A block file that some pointer still refers to after a step holds what it
\* held before the step: the wb+ of generate_block and the unlink of
\* delete_blocks only ever hit block files no file needs.
ReferencedBlocksKept ==
  [][\A i \in Ids : block[i] # NoBlock /\ Refs(i)' # {} => block'[i] = block[i]]_vars

\* What bb_read puts together for each file: its blocks, in pointer order.
ReadBack == [f \in Files |-> [k \in 1..Len(ptr[f]) |-> block[ptr[f][k]]]]

FS == INSTANCE FileStore WITH content <- ReadBack

\* Every file reads back as the data written to it, whatever is shared, freed
\* or written elsewhere: the store implements the file system it stands for.
\* Data are what is kept of a block, all of it if no byte is a NUL.
Implements == FS!Spec

=============================================================================
