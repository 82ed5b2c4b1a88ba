--------------------------- MODULE BlockStoreSteps ---------------------------
(***************************************************************************)
(* The handlers of BlockStore that touch several files, split where other  *)
(* threads or the end of the daemon can come between: at the reads and     *)
(* writes of last_id and at the system calls on the hashes file, the block *)
(* files, the pointers files and the temp file of bb_read.  What stdio     *)
(* holds back is written when the code seeks or closes the stream.  mknod, *)
(* truncate and rename are single system calls and stay as they are.       *)
(***************************************************************************)
EXTENDS BlockStore

CONSTANTS
  Threads,   \* FUSE's workers: one with -s, several without
  Empty,     \* the block file that fopen(..., "wb+") leaves
  NoTemp,    \* .real_storage/temp does not exist
  Bytes      \* the length of a content: strlen of the block

ASSUME EmptyIsOther == Empty \notin Contents \cup {NoBlock}

ASSUME NoTempIsOther == NoTemp \notin Threads

\* A block of text has all its bytes, one that starts with a NUL has none.
ASSUME BytesFit == Bytes \in [Contents -> 0..BlockSize]

VARIABLES
  made,       \* the hashes file exists
  temp,       \* .real_storage/temp: the inode it names, or NoTemp
  tempData,   \* what each inode that was ever the temp file holds
  th,         \* each thread's request, with the local variables of its handler
  written,    \* history: what is to be kept of the blocks written to each file
  quiet       \* history: the store when last no request was being served

store == [names |-> names, ptr |-> ptr, hashes |-> hashes,
          block |-> block, lastId |-> lastId]

stepVars == <<vars, made, temp, tempData, th, written, quiet>>

Idle == [pc |-> "idle"]

InitSteps ==
  /\ Init
  /\ made = FALSE
  /\ temp = NoTemp
  /\ tempData = [t \in Threads |-> <<>>]
  /\ th = [t \in Threads |-> Idle]
  /\ written = [f \in Files |-> <<>>]
  /\ quiet = store

\* A program uses a file in one request at a time.
InHand(f) == \E t \in Threads : th[t] # Idle /\ th[t].file = f

At(t, pc) == th[t].pc = pc

\* A step that nobody but the thread itself notices.
OnlyLocals == UNCHANGED <<vars, made, temp, tempData, written>>

\* Thread t goes on with the local variables in r.
Continue(t, r) == th' = [th EXCEPT ![t] = r]

-----------------------------------------------------------------------------
(* bb_write: write_blocks, generate_block, compare_hashes and write_hash.  *)

\* Bounds: the ids and counters that this write and those under way may need.
Room(c) ==
  IF MatchingLines(hashes, HashOf[c]) = {}
    THEN lastId + Cardinality(Threads) <= MaxId
    ELSE \A p \in MatchingLines(hashes, HashOf[c]) : hashes[p].usage < MaxUsage

BeginWrite(t, f, k, c) ==
  /\ At(t, "idle")
  /\ f \in names /\ ~InHand(f)
  /\ k \in 0..Len(ptr[f]) /\ k < MaxBlocks
  /\ Room(c)
  /\ Continue(t, [pc |-> "compare", file |-> f, slot |-> k, data |-> c,
                  id |-> 0, opened |-> 0, pos |-> 0, usage |-> 0])
  /\ OnlyLocals

\* compare_hashes: its fopen makes the hashes file.
Compare(t) ==
  /\ At(t, "compare")
  /\ Continue(t, [th[t] EXCEPT !.pc = "decide",
       !.id = CompareHashes(hashes, lastId, HashOf[th[t].data])])
  /\ made' = TRUE
  /\ UNCHANGED <<vars, temp, tempData, written>>

\* is_new, with last_id as it is by now.
Decide(t) ==
  /\ At(t, "decide")
  /\ Continue(t, [th[t] EXCEPT !.pc = IF th[t].id > lastId THEN "open" ELSE "find"])
  /\ OnlyLocals

\* fopen(next_block_name, "wb+"): the block file is there, and empty.
OpenBlock(t) ==
  /\ At(t, "open")
  /\ lastId < MaxId
  /\ block' = [block EXCEPT ![lastId + 1] = Empty]
  /\ Continue(t, [th[t] EXCEPT !.pc = "take", !.opened = lastId + 1])
  /\ UNCHANGED <<names, ptr, hashes, lastId, made, temp, tempData, written>>

\* The argument last_id + 1 of write_hash.
TakeId(t) ==
  /\ At(t, "take")
  /\ Continue(t, [th[t] EXCEPT !.pc = "find", !.id = lastId + 1])
  /\ OnlyLocals

\* write_hash up to its fwrite: where the line goes and what it counts.  That a
\* line below last_id is missing is left out: it takes an earlier lost id.
FindLine(t) ==
  /\ At(t, "find")
  /\ \/ /\ th[t].id > lastId
        /\ Continue(t, [th[t] EXCEPT !.pc = "line",
             !.pos = Len(hashes) + 1, !.usage = 1])
     \/ /\ th[t].id <= lastId
        /\ th[t].id \in DOMAIN hashes
        /\ Continue(t, [th[t] EXCEPT !.pc = "line",
             !.pos = th[t].id, !.usage = hashes[th[t].id].usage + 1])
  /\ OnlyLocals

\* Puts line at position pos of the hashes file, or at its end.
PutLine(pos, line) ==
  hashes' = [p \in 1..(IF pos > Len(hashes) THEN pos ELSE Len(hashes)) |->
               IF p = pos THEN line ELSE hashes[p]]

\* Mistake: the counter is written as it was read.
WriteLineUncounted(t) ==
  /\ At(t, "line")
  /\ PutLine(th[t].pos,
       Line(th[t].id, IF th[t].opened = 0 THEN th[t].usage - 1 ELSE 1,
            HashOf[th[t].data]))
  /\ Continue(t, [th[t] EXCEPT !.pc = IF th[t].opened = 0 THEN "return" ELSE "bump"])
  /\ UNCHANGED <<names, ptr, block, lastId, made, temp, tempData, written>>

\* The end of write_hash: fclose brings the line into the file.
WriteLine(t) ==
  /\ At(t, "line")
  /\ PutLine(th[t].pos, Line(th[t].id, th[t].usage, HashOf[th[t].data]))
  /\ Continue(t, [th[t] EXCEPT !.pc = IF th[t].opened = 0 THEN "return" ELSE "bump"])
  /\ UNCHANGED <<names, ptr, block, lastId, made, temp, tempData, written>>

Bump(t) ==
  /\ At(t, "bump")
  /\ lastId' = lastId + 1
  /\ Continue(t, [th[t] EXCEPT !.pc = "flush"])
  /\ UNCHANGED <<names, ptr, hashes, block, made, temp, tempData, written>>

\* fwrite of strlen(block_data) bytes and fclose of the block file; one that was
\* unlinked stays away.  A content without bytes leaves the file as it is: Empty
\* stands for the file that lacks the bytes of its content.
FlushBlock(t) ==
  /\ At(t, "flush")
  /\ block' = [block EXCEPT ![th[t].opened] =
                 IF @ = NoBlock THEN NoBlock ELSE th[t].data]
  /\ Continue(t, [th[t] EXCEPT !.pc = "return"])
  /\ UNCHANGED <<names, ptr, hashes, lastId, made, temp, tempData, written>>

\* The id generate_block returns: last_id as it is by now for a new block.
ReturnedId(t) == IF th[t].opened = 0 THEN th[t].id ELSE lastId

\* Mistake: the pointer goes to the slot behind the one asked for.
StorePointerBehind(t) ==
  /\ At(t, "return")
  /\ ptr' = [ptr EXCEPT ![th[t].file] = PutPointer(@, SlotOf(th[t].slot + 1), ReturnedId(t))]
  /\ written' = [written EXCEPT ![th[t].file] = PutPointer(@, th[t].slot, th[t].data)]
  /\ Continue(t, Idle)
  /\ UNCHANGED <<names, hashes, block, lastId, made, temp, tempData>>

\* The pwrite of bb_write, which ends the request.
StorePointer(t) ==
  /\ At(t, "return")
  /\ ptr' = [ptr EXCEPT ![th[t].file] = PutPointer(@, SlotOf(th[t].slot), ReturnedId(t))]
  /\ written' = [written EXCEPT ![th[t].file] = PutPointer(@, th[t].slot, th[t].data)]
  /\ Continue(t, Idle)
  /\ UNCHANGED <<names, hashes, block, lastId, made, temp, tempData>>

WriteStep(t) ==
  \/ Compare(t) \/ Decide(t) \/ OpenBlock(t) \/ TakeId(t) \/ FindLine(t)
  \/ WriteLine(t) \/ Bump(t) \/ FlushBlock(t) \/ StorePointer(t)

-----------------------------------------------------------------------------
(* bb_unlink: delete_blocks, which reads all ids into its buffer at once,  *)
(* and the unlink(2) of the pointers file.                                 *)

BeginUnlink(t, f) ==
  /\ At(t, "idle")
  /\ f \in names /\ ~InHand(f)
  /\ Continue(t, [pc |-> "counter", file |-> f, ids |-> ptr[f], usage |-> 0])
  /\ OnlyLocals

\* The counter of the next id.  At "00" the loop goes on to the one after, which
\* takes threads or a restart: UsageCoversRefs rules it out otherwise.
ReadCounter(t) ==
  /\ At(t, "counter")
  /\ th[t].ids # <<>>
  /\ Head(th[t].ids) \in DOMAIN hashes
  /\ LET usage == hashes[Head(th[t].ids)].usage
     IN  Continue(t, [th[t] EXCEPT !.usage = usage,
           !.ids = IF usage = 0 THEN Tail(@) ELSE @,
           !.pc = IF usage = 0 THEN "counter" ELSE IF usage = 1 THEN "empty" ELSE "release"])
  /\ OnlyLocals

\* Mistake: the block is unlinked while the pointers to it are in place.
EmptyPointersLate(t) ==
  /\ At(t, "empty")
  /\ block' = [block EXCEPT ![Head(th[t].ids)] = NoBlock]
  /\ Continue(t, [th[t] EXCEPT !.pc = "unlink"])
  /\ UNCHANGED <<names, ptr, hashes, lastId, made, temp, tempData, written>>

\* Mistake: with the pointers gone the loop goes back to the same id.
EmptyPointersAgain(t) ==
  /\ At(t, "empty")
  /\ ptr' = [ptr EXCEPT ![th[t].file] = <<>>]
  /\ Continue(t, [th[t] EXCEPT !.pc = "counter"])
  /\ UNCHANGED <<names, hashes, block, lastId, made, temp, tempData, written>>

\* fopen(fpath, "w"): the last user of a block is emptied first.
EmptyPointers(t) ==
  /\ At(t, "empty")
  /\ ptr' = [ptr EXCEPT ![th[t].file] = <<>>]
  /\ Continue(t, [th[t] EXCEPT !.pc = "unlink"])
  /\ UNCHANGED <<names, hashes, block, lastId, made, temp, tempData, written>>

UnlinkBlock(t) ==
  /\ At(t, "unlink")
  /\ block' = [block EXCEPT ![Head(th[t].ids)] = NoBlock]
  /\ Continue(t, [th[t] EXCEPT !.pc = "release"])
  /\ UNCHANGED <<names, ptr, hashes, lastId, made, temp, tempData, written>>

\* The line is written back with one user less than was read.
ReleaseLine(t) ==
  /\ At(t, "release")
  /\ LET id == Head(th[t].ids)
     IN  PutLine(id, Line(id, th[t].usage - 1, hashes[id].hash))
  /\ Continue(t, [th[t] EXCEPT !.pc = "counter", !.ids = Tail(@)])
  /\ UNCHANGED <<names, ptr, block, lastId, made, temp, tempData, written>>

RemoveFile(t) ==
  /\ At(t, "counter")
  /\ th[t].ids = <<>>
  /\ names' = names \ {th[t].file}
  /\ ptr' = [ptr EXCEPT ![th[t].file] = <<>>]
  /\ written' = [written EXCEPT ![th[t].file] = <<>>]
  /\ Continue(t, Idle)
  /\ UNCHANGED <<hashes, block, lastId, made, temp, tempData>>

UnlinkStep(t) ==
  \/ ReadCounter(t) \/ EmptyPointers(t) \/ UnlinkBlock(t) \/ ReleaseLine(t)
  \/ RemoveFile(t)

-----------------------------------------------------------------------------
(* bb_read: read_file, then the detour through .real_storage/temp.  Data   *)
(* are counted in blocks.                                                  *)

\* read_file up to its loop: the first fread brings all ids into the buffer of
\* the stream.  get_real_size only says how much memory file_data gets.
BeginRead(t, f) ==
  /\ At(t, "idle")
  /\ f \in names /\ ~InHand(f)
  /\ Continue(t, [pc |-> "fetch", file |-> f, ids |-> ptr[f], data |-> <<>>, fd |-> NoTemp])
  /\ OnlyLocals

\* read_block: nothing if the block file is empty.
ReadBlock(id) == IF block[id] = Empty THEN <<>> ELSE <<block[id]>>

\* One turn of the loop.  A block that is missing is left out: read_block returns
\* a null pointer, and strcat gets it.
FetchBlock(t) ==
  /\ At(t, "fetch")
  /\ th[t].ids # <<>>
  /\ block[Head(th[t].ids)] # NoBlock
  /\ Continue(t, [th[t] EXCEPT !.ids = Tail(@), !.data = @ \o ReadBlock(Head(th[t].ids))])
  /\ OnlyLocals

\* The inodes that threads other than t have open.
OpenElsewhere(t) == {th[u].fd : u \in {v \in Threads \ {t} : "fd" \in DOMAIN th[v]}}

\* fopen(tempfile, "w+"): the file there is emptied, or a new one is made.
OpenTemp(t) ==
  /\ At(t, "fetch")
  /\ th[t].ids = <<>>
  /\ temp' = IF temp # NoTemp THEN temp ELSE CHOOSE i \in Threads : i \notin OpenElsewhere(t)
  /\ tempData' = [tempData EXCEPT ![temp'] = <<>>]
  /\ Continue(t, [th[t] EXCEPT !.pc = "fill", !.fd = temp'])
  /\ UNCHANGED <<vars, made, written>>

\* Mistake: what was written stays in the buffer of the stream.
FillTempUnflushed(t) ==
  /\ At(t, "fill")
  /\ Continue(t, [th[t] EXCEPT !.pc = "pread"])
  /\ OnlyLocals

\* fwrite at the start of the file and rewind, which flushes.
FillTemp(t) ==
  /\ At(t, "fill")
  /\ tempData' = [tempData EXCEPT ![th[t].fd] =
       [k \in 1..(IF Len(@) > Len(th[t].data) THEN Len(@) ELSE Len(th[t].data)) |->
          IF k <= Len(th[t].data) THEN th[t].data[k] ELSE @[k]]]
  /\ Continue(t, [th[t] EXCEPT !.pc = "pread"])
  /\ UNCHANGED <<vars, made, temp, written>>

\* pread of as many bytes as read_file returned: what the program gets.
Reply(t) ==
  /\ At(t, "pread")
  /\ LET all == tempData[th[t].fd]
         n   == Len(th[t].data)
     IN  Continue(t, [th[t] EXCEPT !.pc = "replied",
                        !.data = SubSeq(all, 1, IF n < Len(all) THEN n ELSE Len(all))])
  /\ OnlyLocals

\* fclose and remove: the name goes, whoever made the file behind it, and the
\* inode that no other thread has open.
RemoveTemp(t) ==
  /\ At(t, "replied")
  /\ temp' = NoTemp
  /\ tempData' = [i \in Threads |-> IF i \in OpenElsewhere(t) THEN tempData[i] ELSE <<>>]
  /\ Continue(t, Idle)
  /\ UNCHANGED <<vars, made, written>>

ReadStep(t) ==
  \/ FetchBlock(t) \/ OpenTemp(t) \/ FillTemp(t) \/ Reply(t) \/ RemoveTemp(t)

-----------------------------------------------------------------------------
(* bb_getattr and bb_fgetattr.                                             *)

IdLength == 3

\* What stat says of a block file.
StatSize(b) == IF b = Empty THEN 0 ELSE Bytes[b]

\* The sizes of blocks, added up.
TotalSize(blocks) == MapThenSumSet(LAMBDA k : StatSize(blocks[k]), 1..Len(blocks))

\* get_real_size.
RealSize(ids) == TotalSize([k \in 1..Len(ids) |-> block[ids[k]]])

\* Mistake: the size of the pointers file itself.
SizeOfPointers(f) == IdLength * Len(ptr[f])

\* What bb_getattr reports: lstat's size of the pointers file when the blocks have
\* no bytes.
Reported(size, blocks) == IF size > 0 THEN size ELSE IdLength * blocks

SizeOf(f) == Reported(RealSize(ptr[f]), Len(ptr[f]))

-----------------------------------------------------------------------------

\* The handlers of one system call, served by a thread that has nothing to do.
Instant(f) ==
  /\ \E t \in Threads : At(t, "idle")
  /\ ~InHand(f)
  /\ \/ Mknod(f) /\ UNCHANGED written
     \/ Truncate(f) /\ written' = [written EXCEPT ![f] = <<>>]
     \/ \E g \in Files :
          /\ Rename(f, g) /\ ~InHand(g)
          /\ written' = [written EXCEPT ![g] = written[f], ![f] = <<>>]
  /\ UNCHANGED <<made, temp, tempData, th>>

Begin(t, f) ==
  \/ BeginUnlink(t, f)
  \/ BeginRead(t, f)
  \/ \E k \in 0..MaxBlocks, c \in Contents : BeginWrite(t, f, k, c)

Step(t) == WriteStep(t) \/ UnlinkStep(t) \/ ReadStep(t)

NoteQuiet == quiet' = IF \A t \in Threads : th'[t] = Idle THEN store' ELSE quiet

NextSteps ==
  /\ \/ \E f \in Files : Instant(f) \/ \E t \in Threads : Begin(t, f)
     \/ \E t \in Threads : Step(t)
  /\ NoteQuiet

\* A thread that serves a request runs on: the system schedules it, and nothing
\* it does waits for another.  No request needs to arrive.
Fairness == \A t \in Threads : WF_stepVars(Step(t) /\ NoteQuiet)

SpecSteps == InitSteps /\ [][NextSteps]_stepVars /\ Fairness

-----------------------------------------------------------------------------
(* The daemon's end in the middle of requests, and its next start.         *)

Removing(f) ==
  \E t \in Threads : /\ th[t].pc \in {"counter", "empty", "unlink", "release"}
                     /\ th[t].file = f

\* get_initial_id_number: the regular files of the hidden directory less one.
FilesCounted ==
  Cardinality({i \in Ids : block[i] # NoBlock})
    + (IF made THEN 1 ELSE 0) + (IF temp # NoTemp THEN 1 ELSE 0)

\* What the threads did stays on disk, last_id is computed anew.  A removal cut
\* short leaves the file as it was, or empty.
CrashAndRemount ==
  /\ th' = [t \in Threads |-> Idle]
  /\ lastId' = IF FilesCounted = 0 THEN 0 ELSE FilesCounted - 1
  /\ written' = [f \in Files |-> IF Removing(f) /\ ptr[f] = <<>> THEN <<>> ELSE written[f]]
  /\ UNCHANGED <<names, ptr, hashes, block, made, temp, tempData>>
  /\ NoteQuiet

SpecCrash == InitSteps /\ [][NextSteps \/ CrashAndRemount]_stepVars

-----------------------------------------------------------------------------
(* Properties.                                                             *)

\* The variables have their types, local ones included: no counter goes below 0
\* or above its bound, and no id that is taken lies above MaxId.
StepsTypeOK ==
  /\ names \in SUBSET Files
  /\ ptr \in [Files -> Seq(Ids)]
  /\ hashes \in Seq(Lines)
  /\ block \in [Ids -> Contents \cup {NoBlock, Empty}]
  /\ lastId \in 0..MaxId
  /\ made \in BOOLEAN
  /\ temp \in Threads \cup {NoTemp}
  /\ tempData \in [Threads -> Seq(Contents)]
  /\ written \in [Files -> Seq(Contents)]
  /\ \A t \in Threads :
       /\ "usage" \in DOMAIN th[t] => th[t].usage \in 0..MaxUsage
       /\ "ids" \in DOMAIN th[t] => th[t].ids \in Seq(Ids)
       /\ "opened" \in DOMAIN th[t] => th[t].opened \in 0..MaxId

\* At every moment, between any two system calls of a handler, every file reads
\* back as what was written to it (README.md:44 of Project 4), as far as a block
\* is kept, which is up to its first NUL: a daemon that
\* ends there loses no finished write and leaves no half of one.  Only a file
\* that is being removed may be empty already: delete_blocks empties the
\* pointers file before it unlinks a block.
ReadsBackAsWritten ==
  \A f \in Files :
    \/ ReadBack[f] = written[f]
    \/ Removing(f) /\ ptr[f] = <<>>

\* The same at the moments when no request is being served.
ReadsBackAtRest ==
  (\A t \in Threads : At(t, "idle")) => ReadBack = written

\* A program that reads a file gets what was written to it, though every read
\* goes through the one temp file (bbfs.c:235).
DataReadIsDataWritten ==
  \A t \in Threads : At(t, "replied") => th[t].data = written[th[t].file]

\* The size reported for a file, which is as far as programs read it, depends on
\* what was written to that file alone, whoever shares its blocks and also while
\* a request is being served.  It is what is kept of its blocks: a block with a
\* NUL counts less than its 4096 bytes, and a file of which nothing is kept has
\* the 3 bytes of each of its pointers.
SizeIsWhatWasKept ==
  \A f \in Files :
    \/ SizeOf(f) = Reported(TotalSize(written[f]), Len(written[f]))
    \/ Removing(f)

Sequential ==
  INSTANCE BlockStore WITH names <- quiet.names, ptr <- quiet.ptr,
    hashes <- quiet.hashes, block <- quiet.block, lastId <- quiet.lastId

\* From one moment without requests to the next the store does one step of
\* BlockStore: the loop of delete_blocks releases what ReleaseLines and
\* FreedIds say, and the pieces of generate_block make WriteNew or WriteShared.
ImplementsBlockStore == Sequential!Spec

\* Every request comes to its end, however many pointers a file has and
\* whatever their counters are: no loop of a handler runs for ever.
RequestsEnd == \A t \in Threads : ~At(t, "idle") ~> At(t, "idle")

=============================================================================
