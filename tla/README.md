# TLA+ models of ECE318-Operating-Systems

The repository holds three independent programs of an operating-systems course:

| Part | Code | What it is |
|---|---|---|
| Project 4 | `Project 4/filesystem/bbfs.c`, `our_lib.c` | a FUSE file system that stores equal 4 KB blocks once |
| Project 2 | `Project 2/schedule.c`, `schedule.h` | a run queue and a scheduler for a virtual machine |
| Project 3 | `Project 3/patch_3` | a best-fit variant of the kernel's SLOB allocator, with usage counters |

They share no state and never call each other, so each is modelled on its own.
Line numbers below are those of the repository.

## 1. Inventory

### Project 4: deduplicating file system

State:

- **pointers files** below `rootDir`: a user's file is replaced by a sequence of
  three-digit block ids, one per 4 KB block;
- **`.real_storage/NNN.txt`**: the block with id NNN;
- **`.real_storage/hashes`**: one line per id ever used, *id, usage counter, SHA1*,
  found by position (line `id`) for updates and by content for look-ups;
- **`last_id`** in the daemon's memory, recomputed by `main` from the number of
  files in `.real_storage`;
- **`.real_storage/temp`**, which every `bb_read` creates and removes.

Operations: `bb_mknod`; `bb_write` → `write_blocks` → `generate_block` →
`compare_hashes`, `write_hash`, then `pwrite` of the id; `bb_read` → `read_file` →
`read_block`; `bb_getattr` → `get_real_size`; `bb_unlink` → `delete_blocks`;
`bb_truncate`, `bb_ftruncate`, `bb_rename`, `bb_link`, `bb_symlink`, which act on
the pointers file without a look at counters; `main` → `get_initial_id_number`.
The other handlers pass one system call through. Logging (`log.c`) and the
generated `config.h` have no state that matters.

Correct means: a file reads back as what was written to it; a block lives as long
as a pointer leads to it and no longer; a counter is the number of pointers.
Hard: sharing between files and within a file, lines that are kept with a counter
of 00, restarts, several names of one file, FUSE's worker threads (`fuse_main` is
multithreaded unless `-s` is given), crashes between two file operations, and blocks
that are taken for C strings (`strlen`, our_lib.c:26 and 142) though they may hold any
bytes.

### Project 2: scheduler

State: the ring that starts at the seed task (`rq->head`), linked by `next` and
`prev`; `rq->nr_running`; `current`; in each task the burst counter, the burst
prediction and the clock values at which it started or began to wait.
Operations: `initschedule`, `sched_fork`, `wake_up_new_task`, `activate_task`,
`deactivate_task`, `scheduler_tick`, `schedule` (accounting, then
`updateWaitingInRQ`, `getMinGoodness` or `getMinExpBurst`, then `context_switch`).
The virtual machine that calls them is not in the repository.
Correct means: the ring holds the runnable tasks, the CPU goes to one of them,
time is charged once, nobody is passed over for too long.
Hard: unsigned arithmetic, stale clock values, the order of removal and accounting,
time that passes between two calls and is charged at the next.

### Project 3: SLOB patch

State: three lists of partly free pages, the free list of blocks in each page, the
units left in each page, `totalFreeSpace`, `totalAllocatedSpace`.
Operations: `slob_alloc` (page search), `slob_page_alloc` (block search, split and
unlink), `slob_new_pages` and `slob_free_pages` (counters), `calcFreeSpace`, four
system calls. The rest of `slob.c` (freeing and merging) is the kernel's.
Correct means: the block chosen leaves the least room, blocks never overlap, the
counters say what the report says they do. Hard: alignment that cuts a fragment
off a block, counters outside the lock or updated on only one of two paths.

## 2. Modules

```
HashesFile            operators of our_lib.c on lines and pointers
  BlockStore          the handlers, one request at a time       --implements--> FileStore
    BlockStoreRestart   + remounts                              --implements--> FileStore
    BlockStoreLinks     + hard and symbolic links
    BlockStoreSteps     the handlers cut at their system calls, --implements--> BlockStore
                        by threads and by the end of the daemon
Scheduler             schedule.c and the calls of the machine   --implements--> ReadyList
SlobAlloc             patch_3 with BEST_FIT, cut where slob_lock is given up

NumberProofs -> BlockStoreLemmas -> BlockStoreProofs -> BlockStoreRestartProofs
                                                     -> BlockStoreStepsProofs
NumberProofs -> SchedulerProofs -> CpuTimeProofs
NumberProofs -> SlobAllocProofs
MCBlockStore, MCBlockStoreRestart, MCBlockStoreLinks, MCBlockStoreSteps,
MCScheduler, MCSlobAlloc                              instances for TLC
```

**HashesFile.** A line is a record, a pointers file a sequence of ids, the content
of a block a member of `Contents`, SHA1 an injective function `HashOf` (README.md:22
of Project 4 takes equal hashes for equal data; TLC evaluates the assumption). A content
is what the code keeps of a block: `generate_hash` and `generate_block` take it for a C
string (our_lib.c:26 and 142), so it is the bytes up to the first NUL. `HashInjective` is
about these bytes, which are those that SHA1 gets: two blocks that differ only behind a NUL
are one content, with one hash, and share a block. A file of text, as `test_write.c` writes
it, loses nothing; for other data *reads back as what was written* means, in all modules and
properties of the block store, *as what was kept of it*.
`CompareHashes`, `CountOneMore`, `AppendLine`, `ReleaseLines` and `FreedIds`,
`SlotOf` and `PutPointer` are `compare_hashes`, the two cases of `write_hash`,
`delete_blocks` and the `pwrite` of `bb_write`. The loop of `delete_blocks` is given
per line: a pointer with id *p* reads and writes line *p* only, so the loop takes
from each counter one per pointer and stops at 0. The operators work on any lines,
also on those only a restart can produce.

**BlockStore.** `names` are the directory entries, `ptr` the pointers files,
`hashes` the lines, `block` the block files, `lastId` is `last_id`. Actions: `Mknod`,
`WriteNew` and `WriteShared` (the two branches of `generate_block`, each with the
`pwrite` that follows), `Truncate`, `Rename`, `Unlink`. A write is a whole block at an
existing block or right behind the last one (README.md:20 of Project 4); a truncation
is to 0. Files have one name. `NextUnlinkOnly` leaves out overwrites, truncations and
renames over a file, as in the two test programs on a fresh mount.

**FileStore** is the abstract specification: a file is the sequence of blocks
written to it. The refinement mapping is `ReadBack`, what `read_file` puts together.

**BlockStoreRestart** adds `Remount`: `lastId` becomes what `get_initial_id_number`
counts. `NextNoUnlink` leaves `Unlink` out.

**BlockStoreLinks** separates names from pointers files: `dir` maps a name to a file
or to a symbolic link. `DeleteBlocks` follows links as `fopen` does, and empties the
pointers file when it unlinks a block (our_lib.c:345).

**BlockStoreSteps** runs `bb_write`, `bb_unlink` and `bb_read` as threads: `th` holds
for each thread where it is and the local variables of its handler, and an action goes
from one access to something shared (a system call, `last_id`) to the next. What stdio
buffers reaches a file at the `fclose`, `rewind` or `fseek` that follows it in the code;
`WriteLine` is therefore the `fclose` of `write_hash` and `FlushBlock` that of
`generate_block`. `block` tells a block file that lacks the bytes of its content (`Empty`,
what `fopen` with `wb+` leaves) from one that has them, and from one that is not there.
`Bytes` is the length of a content, 4096 for a block without a NUL and 0 for one that starts
with it; only the size that `bb_getattr` reports (`SizeOf`) depends on it. `read_file` begins
with the ids, which its first `fread` brings into the buffer of the stream (`BeginRead`), and
opens one block after the other (`FetchBlock`). The size that it asks `get_real_size` for is
that of a buffer and is left out. `temp` and `tempData` are
`.real_storage/temp` by inode, since one thread removes the name while another has the
file open. `delete_blocks` has its ids from one `fread` likewise. `mknod`, `truncate` and `rename` are one system call and keep their actions.
A program has one request at a time under way for a file, so what threads do to each
other is done through what the file system shares between files. `CrashAndRemount` ends
the daemon between any two steps and starts it again: what reached the files stays (the
process ends, not the machine), `last_id` is counted anew. Two history variables
serve properties only: `written`, what is to be kept of what programs wrote to each file so far, and `quiet`, the
store when last no request was under way; the refinement of `BlockStore` maps to `quiet`.
Two paths lead to undefined behaviour in C and are left out by a guard: a line that a
counter update does not find, and a pointer to a block that does not exist when a file is
read. With one thread and no crash `RequestsEnd` and `ReadsBackAsWritten` show that neither
is met.

**Scheduler.** `next`, `prev`, `nrRunning`, `current` are the code's; `task` holds the
fields of `task_struct` that are read again. `waitingInRQ` and `goodness` are computed
anew by every `schedule` that reads them and are operators. `Ring` is the loop all
list functions share: from the head's successor, `nr_running` times at most, not past
the head. `Schedule` is `schedule()` with its two branches; `Fork`, `Wake`, `Tick` and
`Sleep` are the machine's calls: spawn, wake-up, `scheduler_tick` (which is `schedule()`,
and stands for a call of it between ticks too), and the running task leaving, to sleep or
for ever. `Pass` is time going on between two calls, any two of them and any number of
steps: a running task has time that is not charged yet when others arrive and when it
leaves. Inside a call the clock stands still.

**ReadyList** is the abstract run queue: a list of ready tasks, latest first, and the
one that runs, which is the seed task only while the list is empty or nobody has
looked since a task arrived.

**SlobAlloc** is the allocator that patch_3 adds, compiled with `BEST_FIT` (patch_3:239
selects `FIRST_FIT`; that branch is the kernel's code). `lists` are the three page
lists, `free` the free list of each page, `units` its counter, `used` the blocks handed
out. Lengths and places are in SLOB units. `AllocFromLists` is the search and
`slob_page_alloc` under one `slob_lock`; `NewPage`, `InsertPage` and `Count` follow with
the lock given up between them, `Free` and `FreePages` are `slob_free`. The two searches
are folds of one step, `Consider`, as the code has the same loop body twice; exact fits
end both. Where an aligned block starts (`Delta`) and what is cut off before and behind it
(`Carve`) is the code's. `slob_free`, `kmalloc` and the caches are external: `Merge` is what
`slob_free` promises, not its pointer walk, and the requests are those that `kmalloc`
(size in front of the block, alignment for powers of two) and the caches (size and alignment
of their objects) make. For a page or more `kmalloc` calls `slob_new_pages` itself, which the
patch's `slob_alloc_mem` can bring about with any size (patch_3:163-164): `LargeAlloc` is that
call, with the counter, and `LargeFree` is `kfree` of such a block, which hands the frames to
`__free_pages` past `slob_free_pages` and its counter. `largeCalls` counts these calls for a
property, and to bound them. One
processor: the section under the lock is atomic, the adding to a counter is too. Three
assumptions about the constants are the kernel's: `CallerLimits` (which sizes come to
`slob_alloc` from `kmalloc` and the caches, and that a page is a multiple of the alignments
other than those of powers of two), `PageIsPowerOfTwo`
(smaller powers of two divide it) and `FramesFinite` (finitely many frames, none of them `NULL`).

An operator introduced as a "Mistake" is not part of a model: it is what a definition
might have been, and shows that a property notices.

## 3. What TLC checks

| Run | Bounds | Shows |
|---|---|---|
| `store` | 2 files of ≤ 2 blocks, 2 contents, 4 ids, counters ≤ 4 | the hidden directory stays consistent, no block a file needs is lost or overwritten, the store implements `FileStore` |
| `unlink_only` | 2 files of ≤ 3 blocks, 2 contents, counters ≤ 6 | counters are exact and no block is kept that nobody needs |
| `space_leak` (violation) | as `store` | with overwrites, truncations or renames over a file counters are not exact |
| `restart_no_unlink` | 3 contents, as `store` otherwise | remounts are invisible if nothing was ever deleted |
| `restart` (violation) | as above | after a deletion a remount lets a write overwrite a live block |
| `links` (violation) | 2 files, 3 names | removing one name takes the data from another |
| `scheduler` | 3 tasks, time passes twice, by 100 units | the ring, the accounting and the choice of the next task; implements `ReadyList` |
| `steps` | 1 thread, 2 files of ≤ 2 blocks, 2 contents of 4096 bytes and of none, 3 ids, counters ≤ 4 | the pieces of the handlers implement `BlockStore`; between any two system calls every file on disk holds what was kept of what was written to it; reads return it and sizes are its sizes; every request ends |
| `threads` (violation) | 2 threads, 2 files of 1 block, 4 ids | two writes of different data are given one block |
| `crash` (violation) | 1 thread, files of 1 block, 3 ids, the daemon may end anywhere | a later write is pointed to an empty block |
| `slob` | 2 tasks, 2 pages of 8 units, 3 kinds of request, 2 calls of `kmalloc` for one page or two | blocks never overlap, pages are listed while partly free, best fit, a new page serves, frames come back, and the counter only for those of `slob_alloc` |
| `burst_reset` (violation) | as `scheduler`, time passes up to 3 times | the last task to leave the ring keeps its burst counter |

Why the bounds are enough for what they are for: two files and two contents give every
pattern of sharing (within a file, between files, none), an id that is freed and data
that comes back under a new id; four ids allow two generations of both contents. Three
contents are needed for a remount, which shows its effect on the third id. Three tasks
give the ring a first, a middle and a last element; time passes by 100 units and not
by 1 because goodness divides times that are nanoseconds in the code, and with small numbers
integer division would hide the differences it depends on. In `steps` two blocks per file
let a file share a block with itself, so that the loop of `delete_blocks` meets a counter
that it has itself lowered; three ids leave room for a block that is freed and written
again; one content has all its bytes and one none, so that a file is reported with the size
of its blocks, of some of them or of its pointers. The requests of `slob` use the list of small and that of large blocks (the medium
one is the same code), are cut in three by alignment, and one takes a whole page of 8
units with the head that its alignment cuts off; two pages and two tasks give pages that are taken, filled and freed while another task is between two
sections; large blocks of one page and of both leave `slob_alloc` without a frame. Deadlock is checked in every run; none of these systems may stop.

Fairness is assumed in one place, `SpecSteps`: a thread that serves a request makes its next
step at last (`WF` of each thread's steps). The threads are scheduled by the kernel, and
nothing in a handler waits for another thread: there is no lock and no queue. Nothing
makes requests arrive, and nothing else of the repository has a duty to go on:
`schedule()` runs when the machine calls it. What is fair is enough for `RequestsEnd`. It
shows that with one thread no handler comes to a place from which no step leads on: a line
that an update does not find, a block that is missing when it is read, or a step that
undoes another. It does not show that the loops over pointers end: their ids are in a buffer
before the first turn, so they are a finite sequence in the model as in the code.

Each property is stated with the code it is about in its module. The ones that carry
most:

- `ReferencedBlocksKept`: whatever `delete_blocks` unlinks and `generate_block` opens
  with `wb+`, a block that a file points to after the step is what it was before.
- `UsageCoversRefs`: the counter of a block is never below the number of pointers to
  it. This is what makes it safe to unlink at 1.
- `ReadsBackAsWritten` (steps): not only between requests but between any two system
  calls is every file on disk what was written to it (of blocks with a NUL: what was kept). It is what orders the steps of
  `delete_blocks`, which must take the pointers away before the block, and of `bb_write`,
  which must store the pointer last. `ImplementsBlockStore` then says that the pieces
  together do what `BlockStore` does in one step.
- `PagesPartitioned`, `BestFit` (slob): every unit of a page is in one block, free or in
  use, for any interleaving of splits and merges; and the block handed out is a best one
  of *all* pages of the list, though two loops with early exits look for it.
- `Implements` (BlockStore): no operation on one file changes what another one reads.
- `SizeIsWhatWasKept` (steps): the size reported for a file depends on what was written to
  that file and on nothing else, whoever shares its blocks and whatever request is under way.
- `DataReadIsDataWritten` (steps): the way of the data through `.real_storage/temp` loses and
  repeats nothing. With one thread only: two reads at once, which share that file, are in
  the model and in no run.
- `AllGivenBack` (slob): when nothing is in use no frame is left behind, and
  `totalAllocatedSpace` is not 0 but what large blocks have left in it.
- `CpuTimeCountedOnce`: execution times, with what the running task has used since it was
  last charged, add up to no more than the time that passed.
- `ChosenHasWaited`: when the CPU changes hands, no task of the ring has waited more
  than *2 + its prediction* times as long as the chosen one. This separates goodness
  from shortest-burst-first, the other choice the code offers (schedule.c:127).

## 4. What the code does not do as its comments say

1. **Counters do not count** (`space_leak`). our_lib.c:96: "01 indicates how many files
   use this". Overwriting (bbfs.c:280), truncating (bbfs.c:195) and renaming over a file
   (bbfs.c:149) drop pointers and no counter: the blocks are never freed.
2. **A restart can destroy data** (`restart`). Project 4/README.md:24 calls the system
   non-volatile, but `get_initial_id_number` takes the number of files less one for the
   last id (our_lib.c:299), which is too low once a block was deleted.
3. **Deleting one name deletes the data of another** (`links`). our_lib.h:43: "delete the
   blocks (if they are not used by other files)". With hard links, and for the target of a
   symbolic link, `bb_unlink` does not look (bbfs.c:113).
4. **Two threads can be given one block** (`threads`). Project 4/README.md:44 says that what
   is read is what was written. `fuse_main` (bbfs.c:639) starts several threads unless
   `-s` is given, and `generate_block` reads `last_id` several times before it raises it
   (our_lib.c:125-141), without a lock: two files end with one block, which holds the data of
   one of them.
5. **A crash can leave a line without data** (`crash`). The line of a new block reaches the
   hashes file before the block file has its data (our_lib.c:140-143). If the daemon
   ends in between, each later write of that data is pointed to an empty block, which
   contradicts README.md:24 and README.md:44.
6. **The last burst is never ended** (`burst_reset`). schedule.c:112: "If process has been
   removed from the queue, calculate final burst prediction and reset burst counter". When
   only the seed task is left `schedule` takes the branch at schedule.c:98, which does neither.

Smaller observations, which no run is spent on:

- Data with NUL bytes are cut, with one thread and no crash: `generate_block` stores
  `strlen(block_data)` bytes of a block (our_lib.c:142). The file then reads back shorter than it
  was written (README.md:44), its size is not "the real size of the file given" (our_lib.h:37)
  but that of what was kept, or that of its pointers if nothing was (bbfs.c:46), and blocks that
  are equal up to their first NUL share a block file. The models say so by what a content is and
  by `SizeIsWhatWasKept`; they do not compare it with the data that programs wrote.
- `totalAllocatedSpace` moves by the size of a pointer, 8, for each page (patch_3:253 and 263),
  not by that of the page. For a block of a page or more it goes up, by 8 whatever the number
  of pages, and never down: `kfree` does not call `slob_free_pages` for it. `AllGivenBack` counts
  with that.
- `totalFreeSpace` is computed at the end of `slob_alloc` only (patch_3:588), so that the system
  call reports the value of the last allocation after blocks were freed.

## 5. What is proved

Every theorem holds for all values of the constants that satisfy the named assumptions;
TLC evaluates those in the runs, and each property below is also checked by a run.

### Block store

`BlockStoreProofs`, for every finite set of files, every set of contents, every
`MaxId` ≤ 999, `MaxUsage` ≤ 99 and `MaxBlocks` ≤ 151:

- `TypeCorrect`, `PointersAlwaysResolve`, `LinesStayAtTheirIds`, `BlocksAlwaysMatchLines`,
  `DataStoredOnce`, `CountersCoverPointers`: the invariants of the run `store`;
- `ReferencedBlocksSurvive`: the action property `ReferencedBlocksKept`;
- `Refinement`: `Spec => Implements`, the refinement of `FileStore`;
- `CountersExact`, `NothingLeaks`: the invariants of `unlink_only`.

`BlockStoreRestartProofs`, for the same constants and every number of remounts as long as
no file is removed (`SpecNoUnlink`):

- `InitialIdCountsBlocks`: `get_initial_id_number` finds the number of blocks ever made;
- `RestartsAreInvisible`: `SpecNoUnlink => NonVolatile`, the refinement of `FileStore`.

Assumptions: `HashInjective`, `NoBlockIsNoContent`, `FilesFinite`, `Widths`. The bounds of
`Widths` are the widths of the fields, and 151 is where the slot of a pointer leaves its
block: `bb_write` divides by 4069 (bbfs.c:23) where a block has 4096 bytes (our_lib.c:18),
and `SlotIsIndex` (BlockStoreLemmas) proves that this makes no difference for the first
151 blocks of a file. For block 151, counted from 0, it makes one.

The inductive invariant `Inv` is the conjunction of the invariants of `store`. None of
them is inductive alone. That `Unlink` leaves no dangling pointer needs that counters
cover pointers; that the counter it reads is that of the block it unlinks needs that the
line of an id is at position id; that a shared write finds a line with a block behind it
needs that lines in use and block files correspond; that a new write makes no second copy
needs that no line in use has the hash, which the search over all lines gives. The step
lemmas follow that order: what a handler finds and leaves (`WriteNewEffect`,
`WriteSharedEffect`, `UnlinkEffect`), then one lemma per handler (`MknodInv` to
`UnlinkInv`), then `NextInv`. Counting is separate: `BlockStoreLemmas` says how the
number of pointers to a block changes when one is put, a file is emptied or moved, by
injections between sets of (file, position) pairs and the library's cardinality theorems.
`Refinement` shows that each handler is the operation of its name on `ReadBack`.

With remounts the invariant gains `AllLinesInUse`, which deletions break. It makes the
block files those with ids 1 to `lastId`, so that counting them gives `lastId` back and a
remount changes nothing at all.

### The handlers at their system calls

`BlockStoreStepsProofs`, for the same constants and one thread (each theorem assumes
`Threads = {t}`, for any `t`):

- `StepsTypeCorrect`, `FilesReadBackBetweenCalls`, `ReadsAreRight`, `SizesAreRight`: the
  invariants of `steps`;
- `StepsRefinement`: `SpecSteps => ImplementsBlockStore`. With `Refinement` above, the
  pieces of the handlers implement `FileStore`.

One thread is the daemon mounted with `-s`. It is no assumption of convenience: with two
threads the run `threads` shows that files no longer read back as written. Three more
assumptions: `EmptyIsOther` and `NoTempIsOther` say that the values that stand for an
empty block and for no temp file are no others, and `BytesFit` that a content has at most 4096
bytes, so that `SizesAreRight` covers contents of every length, none included.

The inductive invariant `StepsInv` says, for each place of a handler, how the store differs
from `quiet`, what the store was when the request began. `Writing` has two parts,
`AddsBlock` and `SharesBlock`, for the two branches of `generate_block`: the line, `last_id`, the
block and the data have been written exactly as far as `pc` has come. `RemovingBlocks`
describes the loop of `delete_blocks` after *n* pointers: the lines are those that
the first *n* leave (`LinesAfter`), the blocks of the ids that these bring to 0 are gone, and the
pointers file is empty as soon as one is. `Reading` is about a read: until the temp file is opened the
blocks read so far, with those of the ids still to come (`Fetching`), are what was written to the file,
and then the temp file holds them as far as it has been flushed. What is known of `quiet` itself are the lemmas of `BlockStoreProofs`,
by instantiating that module with `quiet` for the variables: `quiet` satisfies its `Inv`, and
when the request ends the difference is one step of its `Next` (`GoodStep`). There is one lemma
per step of a handler (`BeginWriteInv` to `RemoveTempInv`); those of the loop need that one
more pointer taken from the lines that *n* pointers leave gives what *n + 1* leave
(`OneMoreDone`, `OneLineReleased`), and that no counter runs out before the pointers do
(`CountersSuffice`, from `UsageCoversRefs` of `quiet`).

### Scheduler

`SchedulerProofs` and `CpuTimeProofs`, for every finite set of tasks, every step by which time
passes between calls and every bound on the clock (assumptions `TasksFinite`, `TimesNatural`, `NullIsNoTaskData`):

- `TypeCorrect`: no time that `schedule()` subtracts is ahead of the clock;
- `RingStaysIntact`, `CurrentStaysLinked`, `TimeIsCountedOnce`: the other invariants of
  `scheduler`;
- `NoTaskIsPassedOver`: the action property `ChosenHasWaited`;
- `RingImplementsReadyList`: `Spec => Implements`, the refinement of `ReadyList`.

The inductive invariant is about lists. `IsRing(next, prev, s)` says that the links make
the tasks of `s`, in that order and each once, a ring behind the head, and that all other
tasks have none. `RingInv` says that they are such a ring for the list that the loops meet,
that `nr_running` is one more than its length, and that the CPU is with one of its tasks
or the seed. `LinkedRing` and `UnlinkedRing` show what linking behind the head and unlinking
anywhere make of the list; `RingIs` shows that the loop bounded by `nr_running` goes through
exactly that list. `DataSound` is the part about times: no task has a time ahead of the
clock, no burst or prediction exceeds what was executed, and the running task has executed
no more than the moment at which it got the CPU. The parts need each other: the choice is
defined because no waiting time is negative, and it lies in the ring because the loops end.

`ChosenHasWaited` is arithmetic about two truncated quotients. With *P* one more than a
task's prediction and *v*, *w* one more than the times it and the chosen task have waited,
`GoodnessBoundsWaiting` (NumberProofs) derives *v ≤ (1 + P) w* from the comparison of the
two products alone, for all naturals. `CpuTimeCountedOnce` has a sum over all tasks:
`SumCounts` shows that the recursive sum is the cardinality of a set of (task, unit) pairs,
to which cardinality theorems apply; the inductive part, `CpuInv`, is that this sum is
no more than the moment at which the running task got the CPU.

### Allocator

`SlobAllocProofs`, for every set of tasks, every finite set of frames, every page size, every
bounds of the three lists, all sizes and alignments that `CallerLimits` lets through and blocks
of a page or more of every order:

- `TypeCorrect`, `EveryUnitHasOneBlock`, `PartlyFreePagesListed`, `UnitsCorrect`,
  `NewPageAlwaysServes`, `AllFramesGivenBack`: the invariants of `slob`;
- `BestFitHolds`: the action property `BestFit`.

The assumptions are the three named in section 2. `PageIsPowerOfTwo` is what
`NewPageAlwaysServes` rests on: a request for *n* units, *n* a power of two, needs up to 2*n*
of an empty page, and *n* divides the page (`NeedAtZero`). For other sizes `CallerLimits` is enough.

The inductive invariant is `SlobInv`. For each page in use, `Partition` says that its free
list is a `Chain` (blocks in their order and apart), that no two blocks, free or handed out,
share a unit and none is left over, and that `units` is the number of free units. A number of
units is easier to keep than the sum that `UnitsAreFreeUnits` names; `LengthIsUnits` shows that
they are the same. `OnLists` says that the lists hold the partly free pages, each once;
`CallsSound` that a frame on its way from or to the page allocator is in one task's hands. The
parts need each other: `slob_free` puts a page on a list or takes it off by its `units` alone,
which is right only while they are the free units; a page emptied by `slob_free` may leave
because then no block covers any unit; the search skips a page by its `units`, which is right
because no block is longer (`BlocksFit`). That a page in use is never wholly free is part of the
invariant: it is what `AllFramesGivenBack` needs, besides that `totalAllocatedSpace` is 8 for each
frame of `slob_alloc` and 8 for each call for a large block, freed or not. `CarveIs` and `MergeIs` say what
`slob_page_alloc` and `slob_free` do to the units of a chain, `WithoutPageIs` and `AtHeadIs`
what they do to the lists; there is one lemma for each action (`AllocKeepsInv` to
`FreePagesKeepsInv`, and `LargeKeepsInv` for the two about large blocks).

The searches and sums of `SlobAlloc` are folds of the community modules, over sequences of any
length. The prover has no induction over a property, but `AllReached` is induction over a *set*
of numbers, by the least one that is missing from it. `FoldExists` takes the function that the
library chooses for a fold apart, and `SearchPageOutcome`, `SearchListsOutcome` and
`TotalLengthAddsUp` then go through the sequence one element at a time: after *n* blocks the best so
far is one that none of the *n* beats. `AllocIsBestFit` puts the two searches together. The
search of `slob_page_alloc` ends with a block that is at least as good as the one
`slob_alloc` went by, though it starts afresh and with early exits of its own.

### Only model-checked

`RequestsEnd`, and the violations. `RequestsEnd` is liveness, which the prover does not reach;
neither does it reach ENABLED and RECURSIVE operators. No module uses RECURSIVE. The theorems
about `BlockStoreSteps` are about one thread: what several threads do is in the run `threads`.

## 6. Not modelled

- The offset of a read (`bb_read` ignores it, bbfs.c:257), requests that are no whole
  block, truncation to a length other than 0: README.md:20 of Project 4 restricts requests
  to multiples of 4 KB and the test programs read whole files. Files of more than 151
  blocks, ids above 999 and counters above 99: `Widths`.
- Failing file operations (a full disk, `fopen` that returns null): the handlers do not
  check them and go on with undefined behaviour.
- What of a file is on disk when the machine loses power: only the end of the daemon is
  modelled.
- The handlers that pass one system call through, logging and the build files: no state.
- The virtual machine and the profiles of Project 2 other than as an environment; the
  overflow of 64-bit products in goodness (TLC's integers are exact); the totals that only
  the report reads.
- The bytes of a block behind its first NUL, which the code drops before anything else.
- The first-fit branch of patch_3, which is the kernel's code, NUMA nodes, caches of objects
  of a page or more (they call `slob_new_pages` and `slob_free_pages` in pairs), several
  processors (where an update of `totalAllocatedSpace`, made outside the lock, could be lost),
  and the averages that `gather_stats` prints.

## 7. What is left

- The other choice that `schedule()` has, by the expected burst alone (schedule.c:127, commented
  out), as a variant of `Scheduler` with a bound on waiting of its own.
- Failing file operations as a fault model, if the handlers come to check them.
- A run of two threads that read, for the race on `.real_storage/temp` that `BlockStoreSteps` has.
