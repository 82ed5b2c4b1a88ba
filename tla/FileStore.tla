------------------------------ MODULE FileStore ------------------------------
(***************************************************************************)
(* What the deduplicating file system promises to the programs that use    *)
(* it (Project 4/README.md:44-49): each file is the sequence of the 4 KB   *)
(* blocks written to it, whatever other files hold, and an operation on    *)
(* one file leaves the content of every other file alone.  This is about   *)
(* blocks of text: of a block with a NUL the code keeps what precedes it   *)
(* (our_lib.c:142), and Contents are what is kept.                         *)
(***************************************************************************)
EXTENDS Naturals, Sequences

CONSTANTS Files, Contents, MaxBlocks

VARIABLES
  names,    \* the files that exist
  content   \* the blocks of each file, <<>> for one that does not exist

vars == <<names, content>>

Init ==
  /\ names = {}
  /\ content = [f \in Files |-> <<>>]

Create(f) ==
  /\ f \notin names
  /\ names' = names \cup {f}
  /\ UNCHANGED content

\* Block k (counted from 0) of f becomes c; k = Len(content[f]) appends.
Write(f, k, c) ==
  /\ f \in names
  /\ k \in 0..Len(content[f])
  /\ k < MaxBlocks
  /\ content' = [content EXCEPT ![f] =
       [j \in 1..(IF k < Len(@) THEN Len(@) ELSE k + 1) |->
          IF j = k + 1 THEN c ELSE @[j]]]
  /\ UNCHANGED names

Truncate(f) ==
  /\ f \in names
  /\ content' = [content EXCEPT ![f] = <<>>]
  /\ UNCHANGED names

\* f takes the name g; what g held is gone.
Rename(f, g) ==
  /\ f \in names
  /\ f # g
  /\ names' = (names \ {f}) \cup {g}
  /\ content' = [content EXCEPT ![g] = content[f], ![f] = <<>>]

Remove(f) ==
  /\ f \in names
  /\ names' = names \ {f}
  /\ content' = [content EXCEPT ![f] = <<>>]

Next ==
  \E f \in Files :
    \/ Create(f)
    \/ Truncate(f)
    \/ Remove(f)
    \/ \E k \in 0..MaxBlocks, c \in Contents : Write(f, k, c)
    \/ \E g \in Files : Rename(f, g)

Spec == Init /\ [][Next]_vars

=============================================================================
