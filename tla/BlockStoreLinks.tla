--------------------------- MODULE BlockStoreLinks ---------------------------
(***************************************************************************)
(* The store below a directory with hard and symbolic links (bb_link,      *)
(* bb_symlink): the Files of BlockStore are the pointers files themselves, *)
(* and a directory entry is a pointers file or a symbolic link to a name.  *)
(* The handlers open their argument with fopen, which follows the links.   *)
(***************************************************************************)
EXTENDS BlockStore

CONSTANTS
  Names,   \* names in rootDir
  Absent   \* no entry of that name

VARIABLE dir   \* the directory rootDir: what each name is

linkVars == <<vars, dir>>

LinkTo(n) == [to |-> n]

\* What open finds behind name n in at most that many hops.
Follow[n \in Names, hops \in 0..Cardinality(Names)] ==
  IF dir[n] \in Files \cup {Absent} \/ hops = 0
    THEN dir[n]
    ELSE Follow[dir[n].to, hops - 1]

FileOf(n) == Follow[n, Cardinality(Names)]

InitLinks == Init /\ dir = [n \in Names |-> Absent]

-----------------------------------------------------------------------------
(* The handlers.                                                           *)

MknodAt(n) ==
  /\ dir[n] = Absent
  /\ \E f \in Files : Mknod(f) /\ dir' = [dir EXCEPT ![n] = f]

WriteAt(n, k, c) ==
  /\ FileOf(n) \in Files
  /\ Write(FileOf(n), k, c)
  /\ UNCHANGED dir

TruncateAt(n) ==
  /\ FileOf(n) \in Files
  /\ Truncate(FileOf(n))
  /\ UNCHANGED dir

\* link(2) for an entry that is a file.
Link(n, m) ==
  /\ dir[n] \in Files
  /\ dir[m] = Absent
  /\ dir' = [dir EXCEPT ![m] = dir[n]]
  /\ UNCHANGED vars

Symlink(n, m) ==
  /\ dir[m] = Absent
  /\ dir' = [dir EXCEPT ![m] = LinkTo(n)]
  /\ UNCHANGED vars

\* A pointers file without a name is gone with what it held.
Named(d) == {f \in Files : \E n \in Names : d[n] = f}

DropUnnamed(p) ==
  /\ names' = Named(dir')
  /\ ptr' = [f \in Files |-> IF f \in names' THEN p[f] ELSE <<>>]

\* rename(2) of the entry itself; nothing happens to two names of one file.
RenameEntry(n, m) ==
  /\ n # m
  /\ dir[n] # Absent
  /\ ~(dir[n] \in Files /\ dir[m] = dir[n])
  /\ dir' = [dir EXCEPT ![m] = dir[n], ![n] = Absent]
  /\ DropUnnamed(ptr)
  /\ UNCHANGED <<hashes, block, lastId>>

\* delete_blocks on the file behind n, however many names it has: it empties
\* the pointers file when a counter falls to 0.
DeleteBlocks(f) ==
  /\ hashes' = ReleaseLines(hashes, ptr[f])
  /\ block' = [i \in Ids |->
       IF i \in FreedIds(hashes, ptr[f]) THEN NoBlock ELSE block[i]]
  /\ DropUnnamed(IF FreedIds(hashes, ptr[f]) = {} THEN ptr
                 ELSE [ptr EXCEPT ![f] = <<>>])
  /\ UNCHANGED lastId

\* bb_unlink: delete_blocks, then unlink(2) of the entry itself.  A link that
\* leads nowhere has no pointers file to open.
UnlinkEntry(n) ==
  /\ dir[n] # Absent
  /\ dir' = [dir EXCEPT ![n] = Absent]
  /\ \/ FileOf(n) \in Files /\ DeleteBlocks(FileOf(n))
     \/ FileOf(n) \notin Files /\ UNCHANGED vars

NextLinks ==
  \E n \in Names :
    \/ MknodAt(n)
    \/ TruncateAt(n)
    \/ UnlinkEntry(n)
    \/ \E k \in 0..MaxBlocks, c \in Contents : WriteAt(n, k, c)
    \/ \E m \in Names : Link(n, m) \/ Symlink(n, m) \/ RenameEntry(n, m)

SpecLinks == InitLinks /\ [][NextLinks]_linkVars

-----------------------------------------------------------------------------

\* Removing one name leaves the data that every other name of a file reads
\* alone: our_lib.h:43, "delete the blocks (if they are not used by other
\* files)".  delete_blocks counts pointers, not names, and follows links.
RemovalKeepsOtherNames ==
  [][(\E m \in Names : dir[m] # Absent /\ dir'[m] = Absent)
     => \A n \in Names :
          dir[n] \in Files /\ dir'[n] = dir[n]
          => ReadBack'[dir[n]] = ReadBack[dir[n]]]_linkVars

=============================================================================
