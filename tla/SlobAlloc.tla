------------------------------ MODULE SlobAlloc ------------------------------
(***************************************************************************)
(* The best-fit allocator of Project 3/patch_3 (the code under BEST_FIT):  *)
(* slob_alloc and slob_page_alloc with the counters of slob_new_pages and  *)
(* slob_free_pages, cut where slob_alloc gives slob_lock up.  One          *)
(* processor of a preemptible kernel: the sections under slob_lock are     *)
(* atomic, and so is the instruction that adds to a counter.  slob_free,   *)
(* kmalloc, kfree and the caches are the kernel's.  Lengths are in SLOB    *)
(* units.                                                                  *)
(***************************************************************************)
EXTENDS Integers, SequencesExt

CONSTANTS
  Tasks,          \* what runs kernel code
  Pages,          \* page frames the page allocator can give
  NoPage,
  PageUnits,      \* SLOB_UNITS(PAGE_SIZE)
  Break1, Break2, \* SLOB_BREAK1 and SLOB_BREAK2
  MinAlign,       \* minalign of kmalloc
  KmallocSizes,   \* sizes asked for with kmalloc
  Caches,         \* size and alignment of the objects of the kmem caches
  Orders,         \* of the frames asked for with kmalloc, for a page or more
  MaxLarge        \* bound of the calls of kmalloc for a page or more

\* The callers' limits: kmalloc comes to slob_alloc for size < PAGE_SIZE - minalign
\* and to slob_new_pages for more; a cache comes for objects smaller than a page,
\* which it aligns to a part of a page.
ASSUME CallerLimits ==
  /\ PageUnits \in Nat \ {0} /\ MinAlign \in Nat \ {0}
  /\ PageUnits % MinAlign = 0
  /\ KmallocSizes \subseteq 1..(PageUnits - MinAlign - 1)
  /\ Caches \subseteq [size : 1..(PageUnits - 1), align : 1..PageUnits]
  /\ \A c \in Caches : PageUnits % c.align = 0
  /\ Orders \subseteq Nat
  /\ MaxLarge \in Nat

\* There are finitely many frames, and NULL is none of them.
ASSUME FramesFinite == IsFiniteSet(Pages) /\ NoPage \notin Pages

VARIABLES
  lists,           \* free_slob_small, free_slob_medium, free_slob_large
  free,            \* freelist of each page: its free blocks
  units,           \* units of each page
  held,            \* the frames that slob_alloc got from the page allocator
  large,           \* the blocks of a page or more: their frames
  largeCalls,      \* the calls of slob_new_pages that got such a block
  used,            \* the blocks handed out and not freed
  call,            \* where each task is in slob_alloc or slob_free
  totalFreeSpace,
  totalAllocatedSpace

vars == <<lists, free, units, held, used, call, large, largeCalls,
          totalFreeSpace, totalAllocatedSpace>>

Classes == {"small", "medium", "large"}

ClassOf(size) ==
  IF size < Break1 THEN "small" ELSE IF size < Break2 THEN "medium" ELSE "large"

Idle == [pc |-> "idle"]

PointerSize == 8   \* sizeof(page) and sizeof(b), both pointers

Init ==
  /\ lists = [c \in Classes |-> <<>>]
  /\ free = [p \in Pages |-> <<>>]
  /\ units = [p \in Pages |-> 0]
  /\ held = {}
  /\ large = {}
  /\ largeCalls = 0
  /\ used = {}
  /\ call = [t \in Tasks |-> Idle]
  /\ totalFreeSpace = 0
  /\ totalAllocatedSpace = 0

-----------------------------------------------------------------------------
(* Requests.                                                               *)

PowersOfTwo == {2 ^ k : k \in 0..10}

\* PAGE_SIZE is a power of two: the smaller ones divide it.
ASSUME PageIsPowerOfTwo ==
  \A n \in PowersOfTwo : n < PageUnits => PageUnits % n = 0

\* kmalloc puts the size in front of the block and aligns what is behind it.
KmallocRequest(n) ==
  [size   |-> n + MinAlign,
   align  |-> IF n \in PowersOfTwo /\ n > MinAlign THEN n ELSE MinAlign,
   offset |-> MinAlign]

CacheRequest(c) == [size |-> c.size, align |-> c.align, offset |-> 0]

Requests ==
  {KmallocRequest(n) : n \in KmallocSizes} \cup {CacheRequest(c) : c \in Caches}

\* delta: what alignment cuts off the head of a block that starts at unit at.
Delta(at, r) ==
  IF r.align = 0 THEN 0 ELSE (r.align - ((at + r.offset) % r.align)) % r.align

Need(b, r) == r.size + Delta(b.at, r)

-----------------------------------------------------------------------------
(* The two searches: the best block so far, as the page and the place in   *)
(* its freelist; index 0 when there is none.                               *)

NoFit == [page |-> NoPage, index |-> 0, space |-> 0]

\* Mistake: the first block with room is kept.
ConsiderFirst(best, p, fl, i, r) ==
  IF best.index = 0 /\ fl[i].len >= Need(fl[i], r)
    THEN [page |-> p, index |-> i, space |-> fl[i].len - Need(fl[i], r)]
    ELSE best

\* Mistake: any block with room for the units will do, whatever its alignment.
ConsiderAnyAlignment(best, p, fl, i, r) ==
  IF best.index # 0 /\ best.space = 0 THEN best
  ELSE IF /\ fl[i].len >= r.size
          /\ best.index = 0 \/ fl[i].len - r.size < best.space
  THEN [page |-> p, index |-> i, space |-> fl[i].len - r.size]
  ELSE best

\* One block of the loops: an exact fit has ended them, a closer one replaces
\* the best so far.
Consider(best, p, fl, i, r) ==
  IF best.index # 0 /\ best.space = 0 THEN best
  ELSE IF /\ fl[i].len >= Need(fl[i], r)
          /\ best.index = 0 \/ fl[i].len - Need(fl[i], r) < best.space
  THEN [page |-> p, index |-> i, space |-> fl[i].len - Need(fl[i], r)]
  ELSE best

SearchPage(best, p, fl, r) ==
  FoldLeftDomain(LAMBDA b, i : Consider(b, p, fl, i, r), best, fl)

\* The loop of slob_alloc over the pages of one list.
SearchLists(r) ==
  FoldLeft(LAMBDA b, p : IF units[p] < r.size THEN b ELSE SearchPage(b, p, free[p], r),
           NoFit, lists[ClassOf(r.size)])

-----------------------------------------------------------------------------
(* slob_page_alloc.                                                        *)

\* The block found in freelist fl, and that freelist without it.
BlockAt(p, fl, i, r) == [page |-> p, at |-> fl[i].at + Delta(fl[i].at, r), len |-> r.size]

\* Mistake: the last unit of the page is left out.
EmptyPageOneShort == <<[at |-> 0, len |-> PageUnits - 1]>>

EmptyPage == <<[at |-> 0, len |-> PageUnits]>>

Fragment(at, len) == IF len = 0 THEN <<>> ELSE <<[at |-> at, len |-> len]>>

\* Mistake: the head fragment is not put back.
CarveNoHead(fl, i, r) ==
  LET b == fl[i]
  IN  SubSeq(fl, 1, i - 1)
        \o Fragment(b.at + Need(b, r), b.len - Need(b, r))
        \o SubSeq(fl, i + 1, Len(fl))

Carve(fl, i, r) ==
  LET b == fl[i]
  IN  SubSeq(fl, 1, i - 1)
        \o Fragment(b.at, Delta(b.at, r))
        \o Fragment(b.at + Need(b, r), b.len - Need(b, r))
        \o SubSeq(fl, i + 1, Len(fl))

\* list_del: p leaves the list that it is on.
WithoutPage(ls, p) ==
  [c \in Classes |->
     IF \E i \in DOMAIN ls[c] : ls[c][i] = p
       THEN RemoveAt(ls[c], CHOOSE i \in DOMAIN ls[c] : ls[c][i] = p)
       ELSE ls[c]]

\* Mistake: a page that is full stays on its list.
UnlistNever(ls, p, left) == ls

\* clear_slob_page_free for a page without a unit left.
UnlistIfFull(ls, p, left) == IF left = 0 THEN WithoutPage(ls, p) ELSE ls

\* slob_page_alloc on page p with freelist fl and n units, the lists being ls.
\* The caller learns the block; it is the only one until slob_alloc returns.
PageAlloc(t, p, fl, n, ls, r) ==
  LET i == SearchPage(NoFit, p, fl, r).index
  IN  /\ i # 0
      /\ free' = [free EXCEPT ![p] = Carve(fl, i, r)]
      /\ units' = [units EXCEPT ![p] = n - r.size]
      /\ lists' = UnlistIfFull(ls, p, n - r.size)
      /\ used' = used \cup {BlockAt(p, fl, i, r)}
      /\ call' = [call EXCEPT ![t] = [pc |-> "count", req |-> r, block |-> BlockAt(p, fl, i, r)]]

FailsOn(p, fl, r) == SearchPage(NoFit, p, fl, r).index = 0

-----------------------------------------------------------------------------
(* slob_alloc.                                                             *)

\* The search under slob_lock; without a block a new page is needed.
AllocFromLists(t, r) ==
  /\ call[t] = Idle
  /\ LET p == SearchLists(r).page
     IN  \/ /\ p # NoPage
            /\ PageAlloc(t, p, free[p], units[p], lists, r)
         \/ /\ p # NoPage => FailsOn(p, free[p], r)
            /\ call' = [call EXCEPT ![t] = [pc |-> "newpage", req |-> r]]
            /\ UNCHANGED <<lists, free, units, used>>
  /\ UNCHANGED <<held, large, largeCalls, totalFreeSpace, totalAllocatedSpace>>

\* The frames that the page allocator has.
FramesLeft == Pages \ (held \cup UNION large)

\* slob_new_pages for slob_alloc, without the lock; NULL when there is no frame.
NewPage(t) ==
  /\ call[t].pc = "newpage"
  /\ \/ \E p \in FramesLeft :
          /\ held' = held \cup {p}
          /\ totalAllocatedSpace' = totalAllocatedSpace + PointerSize
          /\ call' = [call EXCEPT ![t] = [pc |-> "insert", req |-> call[t].req, page |-> p]]
     \/ /\ FramesLeft = {}
        /\ call' = [call EXCEPT ![t] = Idle]
        /\ UNCHANGED <<held, totalAllocatedSpace>>
  /\ UNCHANGED <<lists, free, units, used, large, largeCalls, totalFreeSpace>>

\* The new page, one free block, at the head of the list, and the block from it:
\* without one BUG_ON(!b) stops the kernel.
InsertPage(t) ==
  /\ call[t].pc = "insert"
  /\ LET r == call[t].req
         p == call[t].page
         listed == [lists EXCEPT ![ClassOf(r.size)] = <<p>> \o @]
     IN  PageAlloc(t, p, EmptyPage, PageUnits, listed, r)
  /\ UNCHANGED <<held, large, largeCalls, totalFreeSpace, totalAllocatedSpace>>

\* calcFreeSpace: the units of the pages on the three lists.
CalcFreeSpace ==
  LET Sum(s) == FoldLeft(LAMBDA n, p : n + units[p], 0, s)
  IN  Sum(lists["small"]) + Sum(lists["medium"]) + Sum(lists["large"])

Count(t) ==
  /\ call[t].pc = "count"
  /\ totalFreeSpace' = CalcFreeSpace
  /\ call' = [call EXCEPT ![t] = Idle]
  /\ UNCHANGED <<lists, free, units, held, used, large, largeCalls, totalAllocatedSpace>>

-----------------------------------------------------------------------------
(* slob_free, which the patch leaves as it is but for the counter.         *)

\* b back in freelist fl, behind the k blocks that lie before it, one with the
\* free blocks it touches.
Merge(fl, b) ==
  LET k == Cardinality({i \in DOMAIN fl : fl[i].at < b.at})
      joinsPrev == k > 0 /\ fl[k].at + fl[k].len = b.at
      joinsNext == k < Len(fl) /\ b.at + b.len = fl[k + 1].at
      at  == IF joinsPrev THEN fl[k].at ELSE b.at
      end == IF joinsNext THEN fl[k + 1].at + fl[k + 1].len ELSE b.at + b.len
  IN  SubSeq(fl, 1, IF joinsPrev THEN k - 1 ELSE k)
        \o <<[at |-> at, len |-> end - at]>>
        \o SubSeq(fl, IF joinsNext THEN k + 2 ELSE k + 1, Len(fl))

\* Blocks whose slob_alloc has not returned yet.
Unreturned == {call[t].block : t \in {u \in Tasks : call[u].pc = "count"}}

Free(t, b) ==
  /\ call[t] = Idle
  /\ b \in used \ Unreturned
  /\ used' = used \ {b}
  /\ LET p == b.page
         c == ClassOf(b.len)
     IN  \/ /\ units[p] + b.len = PageUnits
            /\ lists' = WithoutPage(lists, p)
            /\ free' = [free EXCEPT ![p] = <<>>]
            /\ units' = [units EXCEPT ![p] = 0]
            /\ call' = [call EXCEPT ![t] = [pc |-> "release", page |-> p]]
         \/ /\ units[p] + b.len < PageUnits
            /\ lists' = IF units[p] = 0 THEN [lists EXCEPT ![c] = <<p>> \o @] ELSE lists
            /\ free' = [free EXCEPT ![p] = Merge(@, [at |-> b.at, len |-> b.len])]
            /\ units' = [units EXCEPT ![p] = @ + b.len]
            /\ UNCHANGED call
  /\ UNCHANGED <<held, large, largeCalls, totalFreeSpace, totalAllocatedSpace>>

\* Mistake: the counter is not taken back.
FreePagesUncounted(t) ==
  /\ call[t].pc = "release"
  /\ held' = held \ {call[t].page}
  /\ call' = [call EXCEPT ![t] = Idle]
  /\ UNCHANGED <<lists, free, units, used, large, largeCalls, totalFreeSpace, totalAllocatedSpace>>

\* slob_free_pages, after the lock was given up.
FreePages(t) ==
  /\ call[t].pc = "release"
  /\ held' = held \ {call[t].page}
  /\ totalAllocatedSpace' = totalAllocatedSpace - PointerSize
  /\ call' = [call EXCEPT ![t] = Idle]
  /\ UNCHANGED <<lists, free, units, used, large, largeCalls, totalFreeSpace>>

-----------------------------------------------------------------------------
(* Blocks of a page or more, which slob_alloc_mem can ask for as well.     *)

\* kmalloc calls slob_new_pages for 2^order frames, which counts like one page.
LargeAlloc(t, order) ==
  /\ call[t] = Idle
  /\ largeCalls < MaxLarge
  /\ \E frames \in SUBSET FramesLeft :
       /\ Cardinality(frames) = 2 ^ order
       /\ large' = large \cup {frames}
  /\ largeCalls' = largeCalls + 1
  /\ totalAllocatedSpace' = totalAllocatedSpace + PointerSize
  /\ UNCHANGED <<lists, free, units, held, used, call, totalFreeSpace>>

\* kfree gives the frames to __free_pages, past slob_free_pages and its counter.
LargeFree(t, frames) ==
  /\ call[t] = Idle
  /\ frames \in large
  /\ large' = large \ {frames}
  /\ UNCHANGED <<lists, free, units, held, used, call, largeCalls, totalFreeSpace,
                 totalAllocatedSpace>>

Next ==
  \E t \in Tasks :
    \/ \E r \in Requests : AllocFromLists(t, r)
    \/ NewPage(t)
    \/ InsertPage(t)
    \/ Count(t)
    \/ \E b \in used : Free(t, b)
    \/ FreePages(t)
    \/ \E order \in Orders : LargeAlloc(t, order)
    \/ \E frames \in large : LargeFree(t, frames)

Spec == Init /\ [][Next]_vars

-----------------------------------------------------------------------------
(* Properties.                                                             *)

Blocks == [at : 0..(PageUnits - 1), len : 1..PageUnits]

\* The variables have their types; no block is longer than a page, no counter
\* negative.
TypeOK ==
  /\ lists \in [Classes -> Seq(Pages)]
  /\ free \in [Pages -> Seq(Blocks)]
  /\ units \in [Pages -> 0..PageUnits]
  /\ held \in SUBSET Pages
  /\ large \in SUBSET SUBSET Pages
  /\ largeCalls \in 0..MaxLarge
  /\ used \in SUBSET [page : Pages, at : 0..(PageUnits - 1), len : 1..PageUnits]
  /\ totalFreeSpace \in Nat
  /\ totalAllocatedSpace \in Nat

\* The pages slob_alloc and slob_free work on: not one that is on its way from
\* or to the page allocator.
InUse == held \ {call[t].page : t \in {u \in Tasks : call[u].pc \in {"insert", "release"}}}

Covers(b, u) == b.at <= u /\ u < b.at + b.len

\* Every unit of a page is in one block, free or handed out, after any sequence
\* of splits in three and merges: no two callers share memory, none is lost.
PagesPartitioned ==
  /\ \A b \in used : b.page \in InUse
  /\ \A p \in InUse : \A u \in 0..(PageUnits - 1) :
       Cardinality({i \in DOMAIN free[p] : Covers(free[p][i], u)})
         + Cardinality({b \in used : b.page = p /\ Covers(b, u)}) = 1

\* A page is on one list, once, while it has free units, and on none otherwise:
\* what slob_page_free tells slob_free, and what calcFreeSpace counts.
ListsHoldPartlyFree ==
  \A p \in Pages :
    Cardinality({x \in Classes \X (1..Cardinality(Pages)) :
                   x[2] \in DOMAIN lists[x[1]] /\ lists[x[1]][x[2]] = p})
      = IF p \in InUse /\ units[p] > 0 THEN 1 ELSE 0

\* units of a page is the length of its free blocks together: the test that
\* skips a page in slob_alloc and the one that frees it in slob_free rely on it.
UnitsAreFreeUnits ==
  \A p \in InUse : units[p] = FoldLeft(LAMBDA n, b : n + b.len, 0, free[p])

\* BUG_ON(!b) never strikes: an empty page has room for the request it was got
\* for, with what alignment cuts off its head.
NewPageServes ==
  \A t \in Tasks : call[t].pc = "insert" => ~FailsOn(call[t].page, EmptyPage, call[t].req)

\* The free blocks of the pages on the list for r that have room for r.
Fits(r) ==
  {x \in Pages \X (1..PageUnits) :
     /\ \E k \in DOMAIN lists[ClassOf(r.size)] : lists[ClassOf(r.size)][k] = x[1]
     /\ x[2] \in DOMAIN free[x[1]]
     /\ free[x[1]][x[2]].len >= Need(free[x[1]][x[2]], r)}

Space(x, r) == free[x[1]][x[2]].len - Need(free[x[1]][x[2]], r)

\* What slob_alloc hands out from its lists comes from a block that no block of
\* any of their pages beats, and a new page is taken only if none has room: the
\* search over pages, with its early exits, and the one over the page agree
\* (README.md:31-34 of Project 3).
BestFit ==
  [][\A t \in Tasks :
       call[t] = Idle /\ call'[t].pc \in {"count", "newpage"}
       => LET r == call'[t].req
          IN  IF Fits(r) = {} THEN call'[t].pc = "newpage"
              ELSE /\ call'[t].pc = "count"
                   /\ \E x \in Fits(r) :
                        /\ x[1] = call'[t].block.page
                        /\ Covers(free[x[1]][x[2]], call'[t].block.at)
                        /\ \A y \in Fits(r) : Space(x, r) <= Space(y, r)]_vars

\* Once every block is freed and every call has returned, no page is left behind
\* that nobody uses.  totalAllocatedSpace then tells how often kmalloc was asked for
\* a page or more: it goes down as often as it went up for the pages of slob_alloc,
\* and not at all for those that kfree gives back on its own.
AllGivenBack ==
  used = {} /\ large = {} /\ (\A t \in Tasks : call[t] = Idle)
  => held = {} /\ CalcFreeSpace = 0 /\ totalAllocatedSpace = PointerSize * largeCalls

=============================================================================
