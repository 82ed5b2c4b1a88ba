----------------------------- MODULE HashesFile -----------------------------
(***************************************************************************)
(* What the functions of Project 4/filesystem/our_lib.c compute on the     *)
(* hidden directory .real_storage: the "hashes" file (one line id, usage   *)
(* counter, SHA1 per block) and the pointers files (one block id per 4 KB  *)
(* block of a user's file).                                                *)
(*                                                                         *)
(* A line is a record, a pointers file a sequence of ids, the content of a *)
(* block a member of Contents and its SHA1 a member of Hashes.  The code   *)
(* takes a block for a C string (strlen, our_lib.c:26 and 142): what is    *)
(* hashed, stored and read again are its bytes up to the first NUL.  These *)
(* are the contents here; blocks that differ behind it are one.  Every     *)
(* operator works on whatever lines the file holds, also on those that a   *)
(* well-behaved store never has, so that the modules which reach such      *)
(* states (a restart, a crash) use the same translation of the code.       *)
(*                                                                         *)
(* An operator introduced as a "Mistake" stands before the one it gets     *)
(* wrong; no module uses it, it shows that a property notices the mistake. *)
(***************************************************************************)
EXTENDS Naturals, Sequences, FiniteSets, FiniteSetsExt

CONSTANTS
  Contents,   \* what is kept of a 4 KB block: its bytes up to the first NUL
  Hashes,     \* SHA1 digests
  HashOf,     \* generate_hash, as a function from Contents to Hashes
  NoBlock     \* the id.txt file does not exist

\* The README (Project 4/README.md:22) takes equal hashes for equal data: here,
\* for equal bytes handed to SHA1.
ASSUME HashInjective ==
  /\ HashOf \in [Contents -> Hashes]
  /\ \A c, d \in Contents : HashOf[c] = HashOf[d] => c = d

ASSUME NoBlockIsNoContent == NoBlock \notin Contents

-----------------------------------------------------------------------------
(* The lines of the hashes file.                                           *)

Line(id, usage, hash) == [id |-> id, usage |-> usage, hash |-> hash]

\* Mistake: the counter is compared with "01", so a line is matched only when
\* two pointers share it already.
MatchingOnlyShared(lines, h) ==
  {p \in DOMAIN lines : lines[p].hash = h /\ lines[p].usage > 1}

\* Mistake: a line in no use is matched too, and its block does not exist.
MatchingUnused(lines, h) == {p \in DOMAIN lines : lines[p].hash = h}

\* The lines whose hash is h and whose counter is not "00".
MatchingLines(lines, h) ==
  {p \in DOMAIN lines : lines[p].hash = h /\ lines[p].usage # 0}

\* The id in the first matching line, or the next id when there is none.
CompareHashes(lines, last, h) ==
  LET matching == MatchingLines(lines, h)
  IN  IF matching = {} THEN last + 1 ELSE lines[Min(matching)].id

\* Mistake: the offset is that of ids that start from 0, one line too far.
CountOneMoreNextLine(lines, id, h) ==
  IF id \in 1..(Len(lines) - 1)
    THEN [lines EXCEPT ![id + 1] = Line(id, lines[id + 1].usage + 1, h)]
    ELSE Append(lines, Line(id, 1, h))

\* Mistake: the line is written back with the counter it had.
CountSame(lines, id, h) == [lines EXCEPT ![id] = Line(id, lines[id].usage, h)]

\* write_hash for an id that is not above last_id: the line is found by its
\* position id, never by its content, and is rewritten with one more user.
CountOneMore(lines, id, h) ==
  [lines EXCEPT ![id] = Line(id, lines[id].usage + 1, h)]

\* write_hash for a new id: a line with counter "01" at the end of the file.
AppendLine(lines, id, h) == Append(lines, Line(id, 1, h))

-----------------------------------------------------------------------------
(* delete_blocks over the pointers ids of one file.  Each pointer with id p *)
(* touches line p only, so the loop is given line by line: a counter loses *)
(* one per pointer and stops at 0, where the loop skips the pointer.       *)

Occurrences(ids, p) == Cardinality({k \in 1..Len(ids) : ids[k] = p})

Released(usage, n) == IF n < usage THEN usage - n ELSE 0

\* Mistake: an id that the file holds several times is released once.
ReleaseEachIdOnce(lines, ids) ==
  [p \in DOMAIN lines |->
     IF lines[p].usage = 0 \/ Occurrences(ids, p) = 0
       THEN lines[p]
       ELSE Line(p, lines[p].usage - 1, lines[p].hash)]

ReleaseLines(lines, ids) ==
  [p \in DOMAIN lines |->
     IF lines[p].usage = 0 \/ Occurrences(ids, p) = 0
       THEN lines[p]
       ELSE Line(p, Released(lines[p].usage, Occurrences(ids, p)), lines[p].hash)]

\* Mistake: a block goes when one pointer to it is left.
FreedWithOneLeft(lines, ids) ==
  {p \in DOMAIN lines : /\ lines[p].usage # 0
                        /\ Occurrences(ids, p) > 0
                        /\ lines[p].usage <= Occurrences(ids, p) + 1}

\* The blocks whose counter the loop takes from 1 to 0, which it unlinks.
FreedIds(lines, ids) ==
  {p \in DOMAIN lines : /\ lines[p].usage # 0
                        /\ lines[p].usage <= Occurrences(ids, p)}

-----------------------------------------------------------------------------
(* Pointers files.                                                         *)

BlockSize == 4096   \* what a request carries, MAX_BLOCK_SIZE of our_lib.c
SlotSize  == 4069   \* what bb_write divides by, MAX_BLOCK_SIZE of bbfs.c

Hole == 0           \* three NUL bytes of a sparse pointers file

\* Mistake: the slot of the end of the request, not of its start.
SlotOfEnd(k) == ((k + 1) * BlockSize) \div SlotSize

\* Index in the pointers file of the block written at offset k * BlockSize.
SlotOf(k) == (k * BlockSize) \div SlotSize

\* Mistake: the id is appended whatever the offset.
AppendPointer(ids, s, id) == Append(ids, id)

\* pwrite of one id into slot s (counted from 0), past the end if need be.
PutPointer(ids, s, id) ==
  [k \in 1..(IF s < Len(ids) THEN Len(ids) ELSE s + 1) |->
     IF k = s + 1 THEN id ELSE IF k <= Len(ids) THEN ids[k] ELSE Hole]

=============================================================================
