--------------------------- MODULE SlobAllocProofs ---------------------------
(***************************************************************************)
(* The best-fit allocator of patch_3 never gives a unit to two blocks and  *)
(* loses none, its lists hold the partly free pages, and its two searches  *)
(* find a best block.  The searches are folds: a fold over a sequence is   *)
(* taken apart once, and what is true after each step of it is then shown  *)
(* by induction over a set of numbers.                                     *)
(***************************************************************************)
EXTENDS SlobAlloc, NumberProofs, SequenceTheorems, FiniteSetTheorems

-----------------------------------------------------------------------------
(* The invariant.                                                          *)

Frame == 0..(PageUnits - 1)

\* fl lists blocks between the units lo and hi, in their order and apart.
Chain(fl, lo, hi) ==
  /\ fl \in Seq(Blocks)
  /\ \A i \in 1..Len(fl) : lo <= fl[i].at /\ fl[i].at + fl[i].len <= hi
  /\ \A i, j \in 1..Len(fl) : i < j => fl[i].at + fl[i].len <= fl[j].at

FreeUnits(fl) == {u \in Frame : \E i \in DOMAIN fl : Covers(fl[i], u)}

UsedBlocks == [page : Pages, at : 0..(PageUnits - 1), len : 1..PageUnits]

\* The blocks of freelist fl and those of us that are on page p share no unit and
\* leave none out; n of the units are in fl.
Partition(p, fl, n, us) ==
  /\ Chain(fl, 0, PageUnits)
  /\ n = Cardinality(FreeUnits(fl))
  /\ \A b \in us : b.page = p =>
       b.at + b.len <= PageUnits /\ \A u \in Frame : Covers(b, u) => u \notin FreeUnits(fl)
  /\ \A b, c \in us : b.page = p /\ c.page = p =>
       \A u \in Frame : Covers(b, u) /\ Covers(c, u) => b = c
  /\ \A u \in Frame : u \in FreeUnits(fl) \/ \E b \in us : b.page = p /\ Covers(b, u)

\* The pages on the lists ls are those of s, each once.
OnLists(ls, s) ==
  /\ ls \in [Classes -> Seq(Pages)]
  /\ \A c, d \in Classes : \A i \in DOMAIN ls[c], j \in DOMAIN ls[d] :
       ls[c][i] = ls[d][j] => c = d /\ i = j
  /\ \A p \in Pages : p \in s <=> \E c \in Classes : \E i \in DOMAIN ls[c] : ls[c][i] = p

Calls ==
  {Idle} \cup [pc : {"newpage"}, req : Requests]
         \cup [pc : {"insert"}, req : Requests, page : Pages]
         \cup [pc : {"count"}, req : Requests, block : UsedBlocks]
         \cup [pc : {"release"}, page : Pages]

\* The page of call c is not in use yet, or no more.
Carries(c) == c.pc \in {"insert", "release"}

\* With the calls cl and the frames hd got from the page allocator: no two calls
\* have the same page on its way.
CallsSound(cl, hd) ==
  /\ cl \in [Tasks -> Calls]
  /\ hd \in SUBSET Pages
  /\ \A t \in Tasks : Carries(cl[t]) => cl[t].page \in hd
  /\ \A t, u \in Tasks : Carries(cl[t]) /\ Carries(cl[u]) /\ cl[t].page = cl[u].page => t = u

\* The pages s are those in use; fr are the freelists, un the units, us the blocks
\* handed out.
PagesSound(fr, un, us, s) ==
  /\ fr \in [Pages -> Seq(Blocks)]
  /\ un \in [Pages -> 0..PageUnits]
  /\ us \in SUBSET UsedBlocks
  /\ \A b \in us : b.page \in s
  /\ \A p \in s : Partition(p, fr[p], un[p], us) /\ un[p] < PageUnits

PartlyFree(un, s) == {p \in s : un[p] > 0}

SlobInv ==
  /\ CallsSound(call, held)
  /\ PagesSound(free, units, used, InUse)
  /\ OnLists(lists, PartlyFree(units, InUse))
  /\ totalFreeSpace \in Nat
  /\ large \in SUBSET SUBSET Pages /\ largeCalls \in 0..MaxLarge
  /\ totalAllocatedSpace = PointerSize * (Cardinality(held) + largeCalls)

-----------------------------------------------------------------------------
(* Folds.                                                                  *)

\* Induction up to n over the set of numbers that something is true of.
LEMMA AllReached ==
  ASSUME NEW n \in Nat, NEW P, 0 \in P, \A i \in 1..n : i - 1 \in P => i \in P
  PROVE  \A i \in 0..n : i \in P
<1> DEFINE missed == {i \in Nat : i <= n /\ i \notin P}
<1>1. ASSUME NEW i \in 0..n, i \notin P PROVE FALSE
  <2>1. missed # {} /\ missed \in SUBSET Nat
    BY <1>1
  <2>2. Min(missed) \in missed /\ \A y \in missed : Min(missed) <= y
    <3> HIDE DEF missed
    <3> QED
      BY <2>1, MinOfNaturals
  <2>3. PICK m : m = Min(missed)
    OBVIOUS
  <2>4. m \in Nat /\ m <= n /\ m \notin P /\ \A y \in missed : m <= y
    BY <2>2, <2>3
  <2>5. m \in 1..n
    BY <2>4
  <2>6. m - 1 \notin P
    BY <2>4, <2>5
  <2>7. m - 1 \in missed
    BY <2>5, <2>6
  <2>8. m <= m - 1
    BY <2>4, <2>7
  <2> QED
    BY <2>5, <2>8
<1> QED
  BY <1>1

\* The equation by which MapThenFoldSet defines a fold over n elements.
IsFold(op, base, n, w) ==
  w = [s \in SUBSET (1..n) |->
         IF s = {} THEN base ELSE op[<<w[s \ {Max(s)}], Max(s)>>]]

LEMMA GreatestIs ==
  ASSUME NEW n \in Nat, NEW s \in SUBSET (1..n)
  PROVE  /\ s # {} => Max(s) \in s /\ Max(s) \in 1..n /\ s \ {Max(s)} \in SUBSET (1..n)
         /\ n \in s => Max(s) = n
<1>1. s # {} => Max(s) \in s /\ \A y \in s : y <= Max(s)
  BY MaxOfNaturals
<1>2. PICK m : m = Max(s)
  OBVIOUS
<1>3. s # {} => m \in s /\ \A y \in s : y <= m
  BY <1>1, <1>2
<1>4. n \in s => m = n
  <2>1. n \in s => m \in 1..n /\ n <= m
    BY <1>3
  <2> QED
    BY <2>1
<1> QED
  BY <1>2, <1>3, <1>4

\* It has a solution.
LEMMA FoldExists ==
  ASSUME NEW R, NEW base \in R, NEW n \in Nat, NEW op \in [R \X (1..n) -> R]
  PROVE  \E w \in [SUBSET (1..n) -> R] : IsFold(op, base, n, w)
<1> DEFINE P == {m \in 0..n : \E w \in [SUBSET (1..m) -> R] : IsFold(op, base, m, w)}
<1>1. 0 \in P
  <2>1. PICK w : w = [s \in SUBSET (1..0) |-> base]
    OBVIOUS
  <2>2. \A s \in SUBSET (1..0) : s = {}
    OBVIOUS
  <2>3. w \in [SUBSET (1..0) -> R]
    BY <2>1
  <2>4. IsFold(op, base, 0, w)
    BY <2>1, <2>2 DEF IsFold
  <2>5. 0 \in 0..n
    OBVIOUS
  <2> QED
    BY <2>3, <2>4, <2>5, Zenon
<1>2. ASSUME NEW m \in 1..n, m - 1 \in P PROVE m \in P
  <2>1. PICK k : k = m - 1
    OBVIOUS
  <2>2. k \in Nat /\ m = k + 1 /\ m \in Nat /\ m \notin 1..k
    BY <2>1
  <2>3. PICK v \in [SUBSET (1..k) -> R] : IsFold(op, base, k, v)
    BY <1>2, <2>1
  <2>4. \A s \in SUBSET (1..m) : s \ {m} \in SUBSET (1..k) /\ (m \notin s => s \in SUBSET (1..k))
    BY <2>2
  <2>5. PICK w : w = [s \in SUBSET (1..m) |-> IF m \in s THEN op[<<v[s \ {m}], m>>] ELSE v[s]]
    OBVIOUS
  <2>6. w \in [SUBSET (1..m) -> R]
    BY <2>3, <2>4, <2>5
  <2>7. ASSUME NEW s \in SUBSET (1..m)
        PROVE  w[s] = IF s = {} THEN base ELSE op[<<w[s \ {Max(s)}], Max(s)>>]
    <3>1. CASE m \in s
      <4>1. Max(s) = m
        BY <2>2, <3>1, GreatestIs
      <4>2. w[s \ {m}] = v[s \ {m}] /\ w[s] = op[<<v[s \ {m}], m>>]
        BY <2>4, <2>5, <3>1
      <4> QED
        BY <3>1, <4>1, <4>2
    <3>2. CASE m \notin s
      <4>1. s \in SUBSET (1..k)
        BY <2>4, <3>2
      <4>2. w[s] = v[s]
        BY <2>5, <3>2
      <4>3. v[s] = IF s = {} THEN base ELSE op[<<v[s \ {Max(s)}], Max(s)>>]
        BY <2>3, <4>1 DEF IsFold
      <4>4. w[s \ {Max(s)}] = v[s \ {Max(s)}]
        BY <2>5, <3>2
      <4> QED
        BY <4>2, <4>3, <4>4
    <3> QED
      BY <3>1, <3>2
  <2>8. IsFold(op, base, m, w)
    BY <2>6, <2>7 DEF IsFold
  <2> QED
    BY <2>6, <2>8
<1>3. \A m \in 0..n : m \in P
  <2> HIDE DEF P
  <2> QED
    BY <1>1, <1>2, AllReached
<1>4. n \in P
  <2>1. n \in 0..n
    OBVIOUS
  <2> QED
    BY <1>3, <2>1, Zenon
<1> QED
  BY <1>4, Zenon

\* The first elements of a fold.
LEMMA FirstOnes ==
  ASSUME NEW i \in Nat \ {0}
  PROVE  /\ 1..i # {}
         /\ Max(1..i) = i
         /\ (1..i) \ {Max(1..i)} = 1..(i - 1)
<1>1. 1..i # {} /\ i \in 1..i
  OBVIOUS
<1>2. Max(1..i) = i
  BY <1>1, GreatestIs
<1>3. (1..i) \ {i} = 1..(i - 1)
  OBVIOUS
<1>4. (1..i) \ {Max(1..i)} = (1..i) \ {i}
  BY <1>2, Zenon
<1> QED
  BY <1>1, <1>2, <1>3, <1>4

-----------------------------------------------------------------------------
(* Sums over a sequence.                                                   *)

\* a adds up the numbers g.
AddsUp(a, g, n) == a[0] = 0 /\ \A i \in 1..n : a[i] = a[i - 1] + g[i]

IsTotal(x, g, n) == \E a \in [0..n -> Nat] : AddsUp(a, g, n) /\ x = a[n]

IsSum(g, n, w) ==
  w = [s \in SUBSET (1..n) |-> IF s = {} THEN 0 ELSE w[s \ {Max(s)}] + g[Max(s)]]

LEMMA SumExists ==
  ASSUME NEW n \in Nat, NEW g \in [1..n -> Nat]
  PROVE  \E w : IsSum(g, n, w)
<1>1. PICK op : op = [x \in Nat \X (1..n) |-> x[1] + g[x[2]]]
  OBVIOUS
<1>2. op \in [Nat \X (1..n) -> Nat]
  BY <1>1
<1>3. PICK w \in [SUBSET (1..n) -> Nat] : IsFold(op, 0, n, w)
  BY <1>2, FoldExists
<1>4. ASSUME NEW s \in SUBSET (1..n)
      PROVE  w[s] = IF s = {} THEN 0 ELSE w[s \ {Max(s)}] + g[Max(s)]
  <2>1. CASE s = {}
    BY <1>3, <2>1 DEF IsFold
  <2>2. CASE s # {}
    <3>1. PICK m : m = Max(s)
      OBVIOUS
    <3>2. m \in 1..n /\ s \ {m} \in SUBSET (1..n)
      BY <2>2, <3>1, GreatestIs
    <3>3. w[s] = op[<<w[s \ {m}], m>>]
      BY <1>3, <2>2, <3>1 DEF IsFold
    <3>4. w[s \ {m}] \in Nat
      BY <3>2
    <3>5. op[<<w[s \ {m}], m>>] = w[s \ {m}] + g[m]
      BY <1>1, <3>2, <3>4
    <3> QED
      BY <2>2, <3>1, <3>3, <3>5
  <2> QED
    BY <2>1, <2>2
<1>5. IsSum(g, n, w)
  BY <1>4 DEF IsSum
<1> QED
  BY <1>5

LEMMA SumAddsUp ==
  ASSUME NEW n \in Nat, NEW g \in [1..n -> Nat], NEW w, IsSum(g, n, w)
  PROVE  IsTotal(w[1..n], g, n)
<1>1. PICK a : a = [i \in 0..n |-> w[1..i]]
  OBVIOUS
<1>2. a[0] = 0
  <2>1. 1..0 = {} /\ 1..0 \in SUBSET (1..n) /\ 0 \in 0..n
    OBVIOUS
  <2>2. w[1..0] = 0
    BY <2>1 DEF IsSum
  <2> QED
    BY <1>1, <2>1, <2>2
<1>3. ASSUME NEW i \in 1..n PROVE a[i] = a[i - 1] + g[i]
  <2>1. 1..i \in SUBSET (1..n) /\ i \in 0..n /\ i - 1 \in 0..n /\ i \in Nat \ {0}
    OBVIOUS
  <2>2. w[1..i] = w[1..(i - 1)] + g[i]
    <3>1. /\ 1..i # {}
          /\ Max(1..i) = i
          /\ (1..i) \ {Max(1..i)} = 1..(i - 1)
      BY <2>1, FirstOnes
    <3>2. w[1..i] = w[(1..i) \ {Max(1..i)}] + g[Max(1..i)]
      BY <2>1, <3>1 DEF IsSum
    <3> QED
      BY <3>1, <3>2
  <2> QED
    BY <1>1, <2>1, <2>2
<1>4. AddsUp(a, g, n)
  BY <1>2, <1>3 DEF AddsUp
<1> DEFINE P == {j \in 0..n : a[j] \in Nat}
<1>5. \A i \in 0..n : i \in P
  <2>1. 0 \in P
    BY <1>2
  <2>2. ASSUME NEW i \in 1..n, i - 1 \in P PROVE i \in P
    BY <1>3, <2>2
  <2> HIDE DEF P
  <2> QED
    BY <2>1, <2>2, AllReached
<1>6. a \in [0..n -> Nat]
  BY <1>1, <1>5
<1>7. a[n] = w[1..n]
  BY <1>1
<1> QED
  BY <1>4, <1>6, <1>7 DEF IsTotal

\* The length of the blocks of a freelist together.
TotalLength(fl) == FoldLeft(LAMBDA n, b : n + b.len, 0, fl)

IsTotalLength(fl, w) ==
  w = [s \in SUBSET DOMAIN fl |-> IF s = {} THEN 0 ELSE w[s \ {Max(s)}] + fl[Max(s)].len]

LEMMA TotalLengthAddsUp ==
  ASSUME NEW fl \in Seq(Blocks)
  PROVE  IsTotal(TotalLength(fl), [i \in 1..Len(fl) |-> fl[i].len], Len(fl))
<1>1. PICK n : n = Len(fl)
  OBVIOUS
<1>2. n \in Nat /\ DOMAIN fl = 1..n /\ \A i \in 1..n : fl[i].len \in Nat
  <2>1. \A b \in Blocks : b.len \in Nat
    BY CallerLimits DEF Blocks
  <2> QED
    BY <1>1, <2>1
<1>3. PICK g : g = [i \in 1..n |-> fl[i].len]
  OBVIOUS
<1>4. g \in [1..n -> Nat]
  BY <1>2, <1>3
<1>5. TotalLength(fl) = (CHOOSE w : IsTotalLength(fl, w))[DOMAIN fl]
  BY DEF TotalLength, FoldLeft, MapThenFoldSet, IsTotalLength
<1>6. ASSUME NEW w PROVE IsSum(g, n, w) <=> IsTotalLength(fl, w)
  <2>1. ASSUME NEW s \in SUBSET (1..n)
        PROVE  IF s = {} THEN 0 = 0 ELSE g[Max(s)] = fl[Max(s)].len
    BY <1>3, <1>2, GreatestIs
  <2>2. \A s \in SUBSET (1..n) :
          (IF s = {} THEN 0 ELSE w[s \ {Max(s)}] + g[Max(s)]) =
          (IF s = {} THEN 0 ELSE w[s \ {Max(s)}] + fl[Max(s)].len)
    BY <2>1
  <2>3. [s \in SUBSET (1..n) |-> IF s = {} THEN 0 ELSE w[s \ {Max(s)}] + g[Max(s)]] =
        [s \in SUBSET (1..n) |-> IF s = {} THEN 0 ELSE w[s \ {Max(s)}] + fl[Max(s)].len]
    BY <2>2
  <2> QED
    BY <1>2, <2>3, Zenon DEF IsSum, IsTotalLength
<1>7. PICK w : w = CHOOSE v : IsTotalLength(fl, v)
  OBVIOUS
<1>8. IsTotalLength(fl, w)
  <2>1. \E v : IsTotalLength(fl, v)
    BY <1>2, <1>4, <1>6, SumExists
  <2> QED
    BY <1>7, <2>1
<1>9. IsTotal(w[1..n], g, n)
  <2>1. IsSum(g, n, w)
    BY <1>6, <1>8
  <2>2. n \in Nat
    BY <1>2
  <2> QED
    BY <1>4, <2>1, <2>2, SumAddsUp
<1> QED
  BY <1>1, <1>2, <1>3, <1>5, <1>7, <1>9

\* The units of the pages of a list together: what calcFreeSpace adds up.
TotalUnits(ls, n0) == FoldLeft(LAMBDA n, p : n + n0[p], 0, ls)

IsTotalUnits(ls, n0, w) ==
  w = [s \in SUBSET DOMAIN ls |-> IF s = {} THEN 0 ELSE w[s \ {Max(s)}] + n0[ls[Max(s)]]]

LEMMA TotalUnitsNatural ==
  ASSUME NEW n0 \in [Pages -> Nat], NEW ls \in Seq(Pages)
  PROVE  /\ TotalUnits(ls, n0) \in Nat
         /\ ls = <<>> => TotalUnits(ls, n0) = 0
<1>1. PICK n : n = Len(ls)
  OBVIOUS
<1>2. n \in Nat /\ DOMAIN ls = 1..n /\ \A i \in 1..n : ls[i] \in Pages
  BY <1>1
<1>3. PICK g : g = [i \in 1..n |-> n0[ls[i]]]
  OBVIOUS
<1>4. g \in [1..n -> Nat]
  BY <1>2, <1>3
<1>5. TotalUnits(ls, n0) = (CHOOSE w : IsTotalUnits(ls, n0, w))[DOMAIN ls]
  BY DEF TotalUnits, FoldLeft, MapThenFoldSet, IsTotalUnits
<1>6. ASSUME NEW w PROVE IsSum(g, n, w) <=> IsTotalUnits(ls, n0, w)
  <2>1. ASSUME NEW s \in SUBSET (1..n)
        PROVE  IF s = {} THEN 0 = 0 ELSE g[Max(s)] = n0[ls[Max(s)]]
    BY <1>3, <1>2, GreatestIs
  <2>2. \A s \in SUBSET (1..n) :
          (IF s = {} THEN 0 ELSE w[s \ {Max(s)}] + g[Max(s)]) =
          (IF s = {} THEN 0 ELSE w[s \ {Max(s)}] + n0[ls[Max(s)]])
    BY <2>1
  <2>3. [s \in SUBSET (1..n) |-> IF s = {} THEN 0 ELSE w[s \ {Max(s)}] + g[Max(s)]] =
        [s \in SUBSET (1..n) |-> IF s = {} THEN 0 ELSE w[s \ {Max(s)}] + n0[ls[Max(s)]]]
    BY <2>2
  <2> QED
    BY <1>2, <2>3, Zenon DEF IsSum, IsTotalUnits
<1>7. PICK w : w = CHOOSE v : IsTotalUnits(ls, n0, v)
  OBVIOUS
<1>8. IsTotalUnits(ls, n0, w)
  <2>1. \E v : IsTotalUnits(ls, n0, v)
    BY <1>2, <1>4, <1>6, SumExists
  <2> QED
    BY <1>7, <2>1
<1>9. IsTotal(w[1..n], g, n)
  <2>1. IsSum(g, n, w)
    BY <1>6, <1>8
  <2>2. n \in Nat
    BY <1>2
  <2> QED
    BY <1>4, <2>1, <2>2, SumAddsUp
<1>10. IsTotal(TotalUnits(ls, n0), g, n)
  BY <1>2, <1>5, <1>7, <1>9
<1>11. ls = <<>> => n = 0
  BY <1>1
<1> QED
  BY <1>2, <1>10, <1>11 DEF IsTotal, AddsUp

-----------------------------------------------------------------------------
(* Requests and what a block must have for them.                           *)

LEMMA RequestIs ==
  ASSUME NEW r \in Requests
  PROVE  /\ r.size \in 1..(PageUnits - 1)
         /\ r.align \in Nat
         /\ r.offset \in Nat
<1>0. PageUnits \in Nat /\ MinAlign \in Nat \ {0}
  BY CallerLimits
<1>1. CASE r \in {KmallocRequest(n) : n \in KmallocSizes}
  <2>1. PICK n \in KmallocSizes : r = KmallocRequest(n)
    BY <1>1
  <2>2. n \in 1..(PageUnits - MinAlign - 1)
    BY CallerLimits
  <2>3. r.size = n + MinAlign /\ r.offset = MinAlign /\ (r.align = n \/ r.align = MinAlign)
    BY <2>1 DEF KmallocRequest
  <2> QED
    BY <1>0, <2>2, <2>3
<1>2. CASE r \in {CacheRequest(c) : c \in Caches}
  <2>1. PICK c \in Caches : r = CacheRequest(c)
    BY <1>2
  <2>2. c.size \in 1..(PageUnits - 1) /\ c.align \in Nat
    BY CallerLimits
  <2>3. r.size = c.size /\ r.offset = 0 /\ r.align = c.align
    BY <2>1 DEF CacheRequest
  <2> QED
    BY <2>2, <2>3
<1> QED
  BY <1>1, <1>2 DEF Requests

LEMMA RemainderIs ==
  ASSUME NEW x \in Int, NEW a \in Nat \ {0}
  PROVE  x % a \in 0..(a - 1)
OBVIOUS

LEMMA DeltaIs ==
  ASSUME NEW r \in Requests, NEW at \in Nat
  PROVE  Delta(at, r) \in Nat
<1>1. r.align \in Nat /\ r.offset \in Nat
  BY RequestIs
<1>2. CASE r.align = 0
  BY <1>2 DEF Delta
<1>3. CASE r.align # 0
  <2>1. PICK a : a = r.align
    OBVIOUS
  <2>2. a \in Nat \ {0} /\ at + r.offset \in Int
    BY <1>1, <1>3, <2>1
  <2>3. PICK d : d = (at + r.offset) % a
    OBVIOUS
  <2>4. d \in 0..(a - 1)
    BY <2>2, <2>3, RemainderIs
  <2>5. a - d \in Int
    BY <2>2, <2>4
  <2>6. (a - d) % a \in 0..(a - 1)
    BY <2>2, <2>5, RemainderIs
  <2>7. Delta(at, r) = (a - d) % a
    BY <1>3, <2>1, <2>3 DEF Delta
  <2> QED
    BY <2>2, <2>6, <2>7
<1> QED
  BY <1>2, <1>3

LEMMA BlockIs ==
  ASSUME NEW b \in Blocks
  PROVE  b.at \in Frame /\ b.at \in Nat /\ b.len \in 1..PageUnits /\ b.len \in Nat \ {0}
BY CallerLimits DEF Blocks, Frame

\* There is room for r in block i of fl, and this is what it leaves.
Room(fl, i, r) == fl[i].len >= Need(fl[i], r)

Left(fl, i, r) == fl[i].len - Need(fl[i], r)

LEMMA RoomIs ==
  ASSUME NEW r \in Requests, NEW fl \in Seq(Blocks), NEW i \in 1..Len(fl)
  PROVE  /\ fl[i] \in Blocks
         /\ Need(fl[i], r) \in Nat
         /\ Need(fl[i], r) = r.size + Delta(fl[i].at, r)
         /\ r.size <= Need(fl[i], r)
         /\ Left(fl, i, r) \in Int
         /\ Room(fl, i, r) <=> Left(fl, i, r) \in Nat
<1>1. fl[i] \in Blocks
  BY ElementOfSeq
<1>2. Delta(fl[i].at, r) \in Nat /\ fl[i].len \in Nat /\ r.size \in Nat
  <2>1. fl[i].at \in Nat /\ fl[i].len \in Nat
    BY <1>1, BlockIs
  <2>2. Delta(fl[i].at, r) \in Nat
    BY <2>1, DeltaIs
  <2> QED
    BY <2>1, <2>2, RequestIs
<1>3. Need(fl[i], r) = r.size + Delta(fl[i].at, r)
  BY DEF Need
<1> QED
  BY <1>1, <1>2, <1>3 DEF Room, Left

-----------------------------------------------------------------------------
(* The search of slob_page_alloc, from the best so far.                    *)

Bests == [page : Pages \cup {NoPage}, index : Nat, space : Nat]

LEMMA ConsiderIs ==
  ASSUME NEW r \in Requests, NEW fl \in Seq(Blocks), NEW i \in 1..Len(fl),
         NEW p \in Pages, NEW b \in Bests
  PROVE  /\ Consider(b, p, fl, i, r) \in Bests
         /\ \/ /\ Consider(b, p, fl, i, r) = b
               /\ Room(fl, i, r) => b.index # 0 /\ b.space <= Left(fl, i, r)
            \/ /\ Consider(b, p, fl, i, r) = [page |-> p, index |-> i, space |-> Left(fl, i, r)]
               /\ Room(fl, i, r)
               /\ b.index = 0 \/ Left(fl, i, r) < b.space
<1>1. /\ Left(fl, i, r) \in Int
      /\ Room(fl, i, r) <=> Left(fl, i, r) \in Nat
  BY RoomIs
<1>2. PICK s : s = Left(fl, i, r)
  OBVIOUS
<1>3. b.space \in Nat /\ b.index \in Nat /\ i \in Nat
  BY DEF Bests
<1>4. Consider(b, p, fl, i, r) =
        IF b.index # 0 /\ b.space = 0 THEN b
        ELSE IF Room(fl, i, r) /\ (b.index = 0 \/ s < b.space)
             THEN [page |-> p, index |-> i, space |-> s]
             ELSE b
  BY <1>2 DEF Consider, Room, Left
<1>5. Room(fl, i, r) => [page |-> p, index |-> i, space |-> s] \in Bests
  BY <1>1, <1>2, <1>3 DEF Bests
<1>6. CASE b.index # 0 /\ b.space = 0
  BY <1>1, <1>4, <1>6
<1>7. CASE ~(b.index # 0 /\ b.space = 0) /\ Room(fl, i, r) /\ (b.index = 0 \/ s < b.space)
  BY <1>2, <1>4, <1>5, <1>7
<1>8. CASE ~(b.index # 0 /\ b.space = 0) /\ ~(Room(fl, i, r) /\ (b.index = 0 \/ s < b.space))
  BY <1>1, <1>2, <1>3, <1>4, <1>8
<1> QED
  BY <1>6, <1>7, <1>8

\* What the search makes of best with the first n blocks of fl: it keeps it when
\* none of them is better, otherwise it has a best one of them.
Outcome(b, best, p, fl, n, r) ==
  \/ /\ b = best
     /\ \A j \in 1..n : Room(fl, j, r) => best.index # 0 /\ best.space <= Left(fl, j, r)
  \/ \E k \in 1..n :
       /\ b = [page |-> p, index |-> k, space |-> Left(fl, k, r)]
       /\ Room(fl, k, r)
       /\ best.index = 0 \/ Left(fl, k, r) < best.space
       /\ \A j \in 1..n : Room(fl, j, r) => Left(fl, k, r) <= Left(fl, j, r)

LEMMA OutcomeNext ==
  ASSUME NEW r \in Requests, NEW fl \in Seq(Blocks), NEW i \in 1..Len(fl),
         NEW p \in Pages, NEW best \in Bests, NEW b \in Bests,
         Outcome(b, best, p, fl, i - 1, r)
  PROVE  Outcome(Consider(b, p, fl, i, r), best, p, fl, i, r)
<1>0. /\ i \in Nat /\ i \in 1..i /\ 1..(i - 1) \subseteq 1..Len(fl)
      /\ 1..(i - 1) \subseteq 1..i
      /\ \A j \in 1..i : j \in 1..(i - 1) \/ j = i
  BY LenProperties
<1>1. PICK c : c = Consider(b, p, fl, i, r)
  OBVIOUS
<1>2. best.space \in Nat /\ b.space \in Nat
  BY DEF Bests
<1>3. /\ Left(fl, i, r) \in Int
      /\ \A j \in 1..(i - 1) : Left(fl, j, r) \in Int
  BY <1>0, RoomIs
<1>4. \/ /\ c = b
         /\ Room(fl, i, r) => b.index # 0 /\ b.space <= Left(fl, i, r)
      \/ /\ c = [page |-> p, index |-> i, space |-> Left(fl, i, r)]
         /\ Room(fl, i, r)
         /\ b.index = 0 \/ Left(fl, i, r) < b.space
  BY <1>1, ConsiderIs
<1>5. CASE /\ b = best
           /\ \A j \in 1..(i - 1) : Room(fl, j, r) => best.index # 0 /\ best.space <= Left(fl, j, r)
  <2>1. CASE /\ c = b
             /\ Room(fl, i, r) => b.index # 0 /\ b.space <= Left(fl, i, r)
    <3>1. \A j \in 1..i : Room(fl, j, r) => best.index # 0 /\ best.space <= Left(fl, j, r)
      BY <1>0, <1>5, <2>1
    <3> QED
      BY <1>1, <1>5, <2>1, <3>1 DEF Outcome
  <2>2. CASE /\ c = [page |-> p, index |-> i, space |-> Left(fl, i, r)]
             /\ Room(fl, i, r)
             /\ b.index = 0 \/ Left(fl, i, r) < b.space
    <3>1. \A j \in 1..i : Room(fl, j, r) => Left(fl, i, r) <= Left(fl, j, r)
      <4>1. ASSUME NEW j \in 1..(i - 1), Room(fl, j, r) PROVE Left(fl, i, r) <= Left(fl, j, r)
        <5>1. Left(fl, i, r) < best.space /\ best.space <= Left(fl, j, r)
          BY <1>5, <2>2, <4>1
        <5> QED
          BY <1>2, <1>3, <5>1
      <4>2. Left(fl, i, r) <= Left(fl, i, r)
        BY <1>3
      <4> QED
        BY <1>0, <4>1, <4>2
    <3> QED
      BY <1>0, <1>1, <1>5, <2>2, <3>1 DEF Outcome
  <2> QED
    BY <1>4, <2>1, <2>2
<1>6. ASSUME NEW k \in 1..(i - 1),
             b = [page |-> p, index |-> k, space |-> Left(fl, k, r)],
             Room(fl, k, r),
             best.index = 0 \/ Left(fl, k, r) < best.space,
             \A j \in 1..(i - 1) : Room(fl, j, r) => Left(fl, k, r) <= Left(fl, j, r)
      PROVE  Outcome(c, best, p, fl, i, r)
  <2>0. b.index # 0 /\ b.space = Left(fl, k, r) /\ Left(fl, k, r) \in Int /\ k \in 1..i
    BY <1>0, <1>3, <1>6
  <2>1. CASE /\ c = b
             /\ Room(fl, i, r) => b.index # 0 /\ b.space <= Left(fl, i, r)
    <3>1. \A j \in 1..i : Room(fl, j, r) => Left(fl, k, r) <= Left(fl, j, r)
      BY <1>0, <1>6, <2>0, <2>1
    <3> QED
      BY <1>6, <2>0, <2>1, <3>1 DEF Outcome
  <2>2. CASE /\ c = [page |-> p, index |-> i, space |-> Left(fl, i, r)]
             /\ Room(fl, i, r)
             /\ b.index = 0 \/ Left(fl, i, r) < b.space
    <3>0. Left(fl, i, r) < Left(fl, k, r)
      BY <2>0, <2>2
    <3>1. \A j \in 1..i : Room(fl, j, r) => Left(fl, i, r) <= Left(fl, j, r)
      <4>1. ASSUME NEW j \in 1..(i - 1), Room(fl, j, r) PROVE Left(fl, i, r) <= Left(fl, j, r)
        <5>1. Left(fl, k, r) <= Left(fl, j, r)
          BY <1>6, <4>1
        <5> QED
          BY <1>3, <2>0, <3>0, <5>1
      <4>2. Left(fl, i, r) <= Left(fl, i, r)
        BY <1>3
      <4> QED
        BY <1>0, <4>1, <4>2
    <3>2. best.index = 0 \/ Left(fl, i, r) < best.space
      BY <1>2, <1>3, <1>6, <2>0, <3>0
    <3> QED
      BY <1>0, <2>2, <3>1, <3>2 DEF Outcome
  <2> QED
    BY <1>4, <2>1, <2>2
<1> QED
  BY <1>1, <1>5, <1>6 DEF Outcome

IsSearch(best, p, fl, r, w) ==
  w = [s \in SUBSET DOMAIN [i \in DOMAIN fl |-> i] |->
         IF s = {} THEN best
         ELSE Consider(w[s \ {Max(s)}], p, fl, [i \in DOMAIN fl |-> i][Max(s)], r)]

LEMMA SearchExists ==
  ASSUME NEW r \in Requests, NEW fl \in Seq(Blocks), NEW p \in Pages, NEW best \in Bests
  PROVE  \E w : IsSearch(best, p, fl, r, w)
<1>1. PICK n : n = Len(fl)
  OBVIOUS
<1>2. n \in Nat /\ DOMAIN fl = 1..n /\ DOMAIN [i \in DOMAIN fl |-> i] = 1..n
  BY <1>1
<1>3. PICK op : op = [x \in Bests \X (1..n) |-> Consider(x[1], p, fl, x[2], r)]
  OBVIOUS
<1>4. op \in [Bests \X (1..n) -> Bests]
  BY <1>1, <1>3, ConsiderIs
<1>5. PICK w \in [SUBSET (1..n) -> Bests] : IsFold(op, best, n, w)
  BY <1>2, <1>4, FoldExists
<1>6. ASSUME NEW s \in SUBSET (1..n)
      PROVE  w[s] = IF s = {} THEN best
                    ELSE Consider(w[s \ {Max(s)}], p, fl, [i \in DOMAIN fl |-> i][Max(s)], r)
  <2>1. CASE s = {}
    BY <1>5, <2>1 DEF IsFold
  <2>2. CASE s # {}
    <3>1. PICK m : m = Max(s)
      OBVIOUS
    <3>2. m \in 1..n /\ s \ {m} \in SUBSET (1..n)
      BY <1>2, <2>2, <3>1, GreatestIs
    <3>3. w[s] = op[<<w[s \ {m}], m>>]
      BY <1>5, <2>2, <3>1 DEF IsFold
    <3>4. w[s \ {m}] \in Bests
      BY <3>2
    <3>5. op[<<w[s \ {m}], m>>] = Consider(w[s \ {m}], p, fl, m, r)
      BY <1>3, <3>2, <3>4
    <3>6. [i \in DOMAIN fl |-> i][m] = m
      BY <1>2, <3>2
    <3>7. w[s] = Consider(w[s \ {m}], p, fl, [i \in DOMAIN fl |-> i][m], r)
      BY <3>3, <3>5, <3>6
    <3> QED
      BY <2>2, <3>1, <3>7
  <2> QED
    BY <2>1, <2>2
<1>7. IsSearch(best, p, fl, r, w)
  <2>1. w = [s \in SUBSET (1..n) |-> w[s]]
    OBVIOUS
  <2>2. w = [s \in SUBSET (1..n) |->
               IF s = {} THEN best
               ELSE Consider(w[s \ {Max(s)}], p, fl, [i \in DOMAIN fl |-> i][Max(s)], r)]
    BY <1>6, <2>1
  <2> QED
    BY <1>2, <2>2, Zenon DEF IsSearch
<1> QED
  BY <1>7

\* The first search of slob_alloc in a page, and the second, end with such an outcome.
LEMMA SearchPageOutcome ==
  ASSUME NEW r \in Requests, NEW fl \in Seq(Blocks), NEW p \in Pages, NEW best \in Bests
  PROVE  /\ SearchPage(best, p, fl, r) \in Bests
         /\ Outcome(SearchPage(best, p, fl, r), best, p, fl, Len(fl), r)
<1>1. PICK n : n = Len(fl)
  OBVIOUS
<1>2. n \in Nat /\ DOMAIN fl = 1..n /\ DOMAIN [i \in DOMAIN fl |-> i] = 1..n
  BY <1>1
<1>3. SearchPage(best, p, fl, r) =
        (CHOOSE w : IsSearch(best, p, fl, r, w))[DOMAIN [i \in DOMAIN fl |-> i]]
  BY DEF SearchPage, FoldLeftDomain, FoldLeft, MapThenFoldSet, IsSearch
<1>4. PICK w : w = CHOOSE v : IsSearch(best, p, fl, r, v)
  OBVIOUS
<1>5. IsSearch(best, p, fl, r, w)
  BY <1>4, SearchExists
<1>6. w[1..0] = best
  <2>1. 1..0 = {} /\ 1..0 \in SUBSET (1..n)
    OBVIOUS
  <2> QED
    BY <1>2, <1>5, <2>1 DEF IsSearch
<1>7. ASSUME NEW i \in 1..n PROVE w[1..i] = Consider(w[1..(i - 1)], p, fl, i, r)
  <2>1. 1..i \in SUBSET (1..n) /\ i \in Nat \ {0}
    BY <1>2
  <2>2. /\ 1..i # {}
        /\ Max(1..i) = i
        /\ (1..i) \ {Max(1..i)} = 1..(i - 1)
    BY <2>1, FirstOnes
  <2>3. w[1..i] = Consider(w[(1..i) \ {Max(1..i)}], p, fl, [j \in DOMAIN fl |-> j][Max(1..i)], r)
    BY <1>2, <1>5, <2>1, <2>2 DEF IsSearch
  <2>4. [j \in DOMAIN fl |-> j][i] = i
    BY <1>2
  <2> QED
    BY <2>2, <2>3, <2>4
<1> DEFINE P == {i \in 0..n : w[1..i] \in Bests /\ Outcome(w[1..i], best, p, fl, i, r)}
<1>8. 0 \in P
  <2>1. Outcome(best, best, p, fl, 0, r)
    BY DEF Outcome
  <2> QED
    BY <1>2, <1>6, <2>1
<1>9. ASSUME NEW i \in 1..n, i - 1 \in P PROVE i \in P
  <2>1. w[1..(i - 1)] \in Bests /\ Outcome(w[1..(i - 1)], best, p, fl, i - 1, r)
    BY <1>9
  <2>2. PICK b \in Bests : b = w[1..(i - 1)] /\ Outcome(b, best, p, fl, i - 1, r)
    BY <2>1
  <2>3. i \in 1..Len(fl)
    BY <1>1
  <2>4. Consider(b, p, fl, i, r) \in Bests /\ Outcome(Consider(b, p, fl, i, r), best, p, fl, i, r)
    BY <2>2, <2>3, ConsiderIs, OutcomeNext
  <2>5. w[1..i] = Consider(b, p, fl, i, r)
    BY <1>7, <2>2
  <2> QED
    BY <2>4, <2>5
<1>10. n \in P
  <2>1. \A i \in 0..n : i \in P
    <3> HIDE DEF P
    <3> QED
      BY <1>2, <1>8, <1>9, AllReached
  <2>2. n \in 0..n
    BY <1>2
  <2> HIDE DEF P
  <2> QED
    BY <2>1, <2>2
<1> QED
  BY <1>1, <1>2, <1>3, <1>4, <1>10

LEMMA NoFitIs == NoFit \in Bests /\ NoFit.index = 0
BY DEF NoFit, Bests

\* The search of one page from nothing: a block with room, of least room left over,
\* if there is one.
LEMMA SearchOnePage ==
  ASSUME NEW r \in Requests, NEW fl \in Seq(Blocks), NEW p \in Pages, NEW i,
         i = SearchPage(NoFit, p, fl, r).index
  PROVE  /\ FailsOn(p, fl, r) <=> i = 0
         /\ i = 0 => \A j \in 1..Len(fl) : ~Room(fl, j, r)
         /\ i # 0 => /\ i \in 1..Len(fl)
                     /\ Room(fl, i, r)
                     /\ \A j \in 1..Len(fl) : Room(fl, j, r) => Left(fl, i, r) <= Left(fl, j, r)
<1>1. PICK b : b = SearchPage(NoFit, p, fl, r)
  OBVIOUS
<1>2. Outcome(b, NoFit, p, fl, Len(fl), r) /\ b.index = i
  BY <1>1, NoFitIs, SearchPageOutcome
<1>3. FailsOn(p, fl, r) <=> i = 0
  BY DEF FailsOn
<1>4. CASE /\ b = NoFit
           /\ \A j \in 1..Len(fl) :
                Room(fl, j, r) => NoFit.index # 0 /\ NoFit.space <= Left(fl, j, r)
  BY <1>2, <1>3, <1>4, NoFitIs
<1>5. ASSUME NEW k \in 1..Len(fl),
             b = [page |-> p, index |-> k, space |-> Left(fl, k, r)],
             Room(fl, k, r),
             \A j \in 1..Len(fl) : Room(fl, j, r) => Left(fl, k, r) <= Left(fl, j, r)
      PROVE  /\ i # 0
             /\ i \in 1..Len(fl)
             /\ Room(fl, i, r)
             /\ \A j \in 1..Len(fl) : Room(fl, j, r) => Left(fl, i, r) <= Left(fl, j, r)
  <2>1. i = k /\ k # 0
    BY <1>2, <1>5
  <2> QED
    BY <1>5, <2>1
<1> QED
  BY <1>2, <1>3, <1>4, <1>5 DEF Outcome

-----------------------------------------------------------------------------
(* The search of slob_alloc over the pages of a list.                      *)

ListStep(b, p, r) == IF units[p] < r.size THEN b ELSE SearchPage(b, p, free[p], r)

IsListSearch(ls, r, w) ==
  w = [s \in SUBSET DOMAIN ls |->
         IF s = {} THEN NoFit ELSE ListStep(w[s \ {Max(s)}], ls[Max(s)], r)]

\* No block of page p with room for r beats b.
Unbeaten(b, p, r) ==
  \A j \in 1..Len(free[p]) : Room(free[p], j, r) => b.index # 0 /\ b.space <= Left(free[p], j, r)

\* b is a block of page p with room for r.
FromPage(b, p, r) ==
  \E j \in 1..Len(free[p]) :
    Room(free[p], j, r) /\ b = [page |-> p, index |-> j, space |-> Left(free[p], j, r)]

LEMMA ListStepIs ==
  ASSUME NEW r \in Requests, NEW p \in Pages, NEW b \in Bests,
         free \in [Pages -> Seq(Blocks)], units \in [Pages -> Nat],
         \A j \in 1..Len(free[p]) : free[p][j].len <= units[p]
  PROVE  /\ ListStep(b, p, r) \in Bests
         /\ Unbeaten(ListStep(b, p, r), p, r)
         /\ ListStep(b, p, r) = b \/ FromPage(ListStep(b, p, r), p, r)
         /\ \A q \in Pages : Unbeaten(b, q, r) => Unbeaten(ListStep(b, p, r), q, r)
<1>1. PICK fl : fl = free[p]
  OBVIOUS
<1>2. fl \in Seq(Blocks)
  BY <1>1
<1>3. CASE units[p] < r.size
  <2>1. ListStep(b, p, r) = b
    BY <1>3 DEF ListStep
  <2>2. ASSUME NEW j \in 1..Len(fl) PROVE ~Room(fl, j, r)
    <3>1. fl[j] \in Blocks /\ r.size <= Need(fl[j], r) /\ Need(fl[j], r) \in Nat
      BY <1>2, RoomIs
    <3>2. fl[j].len \in Nat /\ fl[j].len <= units[p] /\ units[p] \in Nat /\ r.size \in Nat
      BY <1>1, <3>1, BlockIs, RequestIs
    <3> QED
      BY <1>3, <3>1, <3>2 DEF Room
  <2>3. Unbeaten(b, p, r)
    BY <1>1, <2>2 DEF Unbeaten
  <2> QED
    BY <2>1, <2>3
<1>4. CASE ~(units[p] < r.size)
  <2>1. PICK c : c = ListStep(b, p, r)
    OBVIOUS
  <2>2. c = SearchPage(b, p, fl, r)
    BY <1>1, <1>4, <2>1 DEF ListStep
  <2>3. c \in Bests /\ Outcome(c, b, p, fl, Len(fl), r)
    BY <1>2, <2>2, SearchPageOutcome
  <2>4. CASE /\ c = b
             /\ \A j \in 1..Len(fl) : Room(fl, j, r) => b.index # 0 /\ b.space <= Left(fl, j, r)
    <3>1. Unbeaten(c, p, r)
      BY <1>1, <2>4 DEF Unbeaten
    <3> QED
      BY <2>1, <2>3, <2>4, <3>1
  <2>5. ASSUME NEW k \in 1..Len(fl),
               c = [page |-> p, index |-> k, space |-> Left(fl, k, r)],
               Room(fl, k, r),
               b.index = 0 \/ Left(fl, k, r) < b.space,
               \A j \in 1..Len(fl) : Room(fl, j, r) => Left(fl, k, r) <= Left(fl, j, r)
        PROVE  /\ Unbeaten(c, p, r)
               /\ FromPage(c, p, r)
               /\ \A q \in Pages : Unbeaten(b, q, r) => Unbeaten(c, q, r)
    <3>1. c.index # 0 /\ c.space = Left(fl, k, r)
      BY <2>5
    <3>2. Unbeaten(c, p, r)
      BY <1>1, <2>5, <3>1 DEF Unbeaten
    <3>3. FromPage(c, p, r)
      BY <1>1, <2>5 DEF FromPage
    <3>4. ASSUME NEW q \in Pages, Unbeaten(b, q, r),
                 NEW j \in 1..Len(free[q]), Room(free[q], j, r)
          PROVE  c.space <= Left(free[q], j, r)
      <4>1. b.index # 0 /\ b.space <= Left(free[q], j, r)
        BY <3>4 DEF Unbeaten
      <4>2. free[q] \in Seq(Blocks) /\ Left(free[q], j, r) \in Int
        BY RoomIs
      <4>3. c.space < b.space /\ c.space \in Nat /\ b.space \in Nat
        BY <2>3, <2>5, <3>1, <4>1 DEF Bests
      <4> QED
        BY <4>1, <4>2, <4>3
    <3>5. \A q \in Pages : Unbeaten(b, q, r) => Unbeaten(c, q, r)
      BY <3>1, <3>4 DEF Unbeaten
    <3> QED
      BY <3>2, <3>3, <3>5
  <2> QED
    BY <2>1, <2>3, <2>4, <2>5 DEF Outcome
<1> QED
  BY <1>3, <1>4

\* What it has found after the first n pages of ls.
ListOutcome(b, ls, n, r) ==
  /\ b \in Bests
  /\ \A m \in 1..n : Unbeaten(b, ls[m], r)
  /\ b = NoFit \/ \E m \in 1..n : FromPage(b, ls[m], r)

\* No block of a page on the list is longer than the units of the page.
UnitsBound(ls) ==
  \A m \in 1..Len(ls) : \A j \in 1..Len(free[ls[m]]) : free[ls[m]][j].len <= units[ls[m]]

LEMMA ListSearchExists ==
  ASSUME NEW r \in Requests, NEW ls \in Seq(Pages),
         free \in [Pages -> Seq(Blocks)], units \in [Pages -> Nat], UnitsBound(ls)
  PROVE  \E w : IsListSearch(ls, r, w)
<1>1. PICK n : n = Len(ls)
  OBVIOUS
<1>2. n \in Nat /\ DOMAIN ls = 1..n /\ \A m \in 1..n : ls[m] \in Pages
  BY <1>1
<1>3. PICK op : op = [x \in Bests \X (1..n) |-> ListStep(x[1], ls[x[2]], r)]
  OBVIOUS
<1>4. op \in [Bests \X (1..n) -> Bests]
  <2>1. ASSUME NEW b \in Bests, NEW m \in 1..n PROVE ListStep(b, ls[m], r) \in Bests
    <3>1. PICK p \in Pages : p = ls[m]
      BY <1>2
    <3>2. \A j \in 1..Len(free[p]) : free[p][j].len <= units[p]
      BY <1>1, <3>1 DEF UnitsBound
    <3>3. ListStep(b, p, r) \in Bests
      BY <3>2, ListStepIs
    <3> QED
      BY <3>1, <3>3
  <2> QED
    BY <1>3, <2>1
<1>5. PICK w \in [SUBSET (1..n) -> Bests] : IsFold(op, NoFit, n, w)
  BY <1>2, <1>4, FoldExists, NoFitIs
<1>6. ASSUME NEW s \in SUBSET (1..n)
      PROVE  w[s] = IF s = {} THEN NoFit ELSE ListStep(w[s \ {Max(s)}], ls[Max(s)], r)
  <2>1. CASE s = {}
    BY <1>5, <2>1 DEF IsFold
  <2>2. CASE s # {}
    <3>1. PICK m : m = Max(s)
      OBVIOUS
    <3>2. m \in 1..n /\ s \ {m} \in SUBSET (1..n)
      BY <1>2, <2>2, <3>1, GreatestIs
    <3>3. w[s] = op[<<w[s \ {m}], m>>]
      BY <1>5, <2>2, <3>1 DEF IsFold
    <3>4. w[s \ {m}] \in Bests
      BY <3>2
    <3>5. op[<<w[s \ {m}], m>>] = ListStep(w[s \ {m}], ls[m], r)
      BY <1>3, <3>2, <3>4
    <3>6. w[s] = ListStep(w[s \ {m}], ls[m], r)
      BY <3>3, <3>5
    <3> QED
      BY <2>2, <3>1, <3>6
  <2> QED
    BY <2>1, <2>2
<1>7. IsListSearch(ls, r, w)
  <2>1. w = [s \in SUBSET (1..n) |-> w[s]]
    OBVIOUS
  <2>2. w = [s \in SUBSET (1..n) |->
               IF s = {} THEN NoFit ELSE ListStep(w[s \ {Max(s)}], ls[Max(s)], r)]
    BY <1>6, <2>1
  <2> QED
    BY <1>2, <2>2, Zenon DEF IsListSearch
<1> QED
  BY <1>7

LEMMA SearchListsOutcome ==
  ASSUME NEW r \in Requests, NEW ls, ls = lists[ClassOf(r.size)], ls \in Seq(Pages),
         free \in [Pages -> Seq(Blocks)], units \in [Pages -> Nat], UnitsBound(ls)
  PROVE  ListOutcome(SearchLists(r), ls, Len(ls), r)
<1>1. PICK n : n = Len(ls)
  OBVIOUS
<1>2. n \in Nat /\ DOMAIN ls = 1..n /\ \A m \in 1..n : ls[m] \in Pages
  BY <1>1
<1>3. SearchLists(r) = (CHOOSE w : IsListSearch(ls, r, w))[DOMAIN ls]
  <2>1. SearchLists(r) =
          (CHOOSE w : IsListSearch(lists[ClassOf(r.size)], r, w))[DOMAIN lists[ClassOf(r.size)]]
    BY DEF SearchLists, FoldLeft, MapThenFoldSet, IsListSearch, ListStep
  <2> QED
    BY <2>1
<1>4. PICK w : w = CHOOSE v : IsListSearch(ls, r, v)
  OBVIOUS
<1>5. IsListSearch(ls, r, w)
  BY <1>4, ListSearchExists
<1>6. w[1..0] = NoFit
  <2>1. 1..0 = {} /\ 1..0 \in SUBSET (1..n)
    OBVIOUS
  <2> QED
    BY <1>2, <1>5, <2>1 DEF IsListSearch
<1>7. ASSUME NEW i \in 1..n PROVE w[1..i] = ListStep(w[1..(i - 1)], ls[i], r)
  <2>1. 1..i \in SUBSET (1..n) /\ i \in Nat \ {0}
    BY <1>2
  <2>2. /\ 1..i # {}
        /\ Max(1..i) = i
        /\ (1..i) \ {Max(1..i)} = 1..(i - 1)
    BY <2>1, FirstOnes
  <2>3. w[1..i] = ListStep(w[(1..i) \ {Max(1..i)}], ls[Max(1..i)], r)
    BY <1>2, <1>5, <2>1, <2>2 DEF IsListSearch
  <2> QED
    BY <2>2, <2>3
<1> DEFINE P == {i \in 0..n : ListOutcome(w[1..i], ls, i, r)}
<1>8. 0 \in P
  <2>1. ListOutcome(NoFit, ls, 0, r)
    BY NoFitIs DEF ListOutcome
  <2> QED
    BY <1>2, <1>6, <2>1
<1>9. ASSUME NEW i \in 1..n, i - 1 \in P PROVE i \in P
  <2>1. PICK b : b = w[1..(i - 1)]
    OBVIOUS
  <2>2. ListOutcome(b, ls, i - 1, r)
    BY <1>9, <2>1
  <2>3. PICK p \in Pages : p = ls[i]
    BY <1>2
  <2>4. PICK c : c = ListStep(b, p, r)
    OBVIOUS
  <2>5. /\ c \in Bests
        /\ Unbeaten(c, p, r)
        /\ c = b \/ FromPage(c, p, r)
        /\ \A q \in Pages : Unbeaten(b, q, r) => Unbeaten(c, q, r)
    <3>1. \A j \in 1..Len(free[p]) : free[p][j].len <= units[p]
      BY <1>1, <2>3 DEF UnitsBound
    <3>2. b \in Bests
      BY <2>2 DEF ListOutcome
    <3> QED
      BY <2>4, <3>1, <3>2, ListStepIs
  <2>6. i \in 1..i /\ 1..(i - 1) \subseteq 1..i /\ (\A m \in 1..i : m \in 1..(i - 1) \/ m = i)
        /\ 1..i \subseteq 1..n
    BY <1>2
  <2>7. \A m \in 1..i : Unbeaten(c, ls[m], r)
    <3>1. ASSUME NEW m \in 1..(i - 1) PROVE Unbeaten(c, ls[m], r)
      <4>1. Unbeaten(b, ls[m], r)
        BY <2>2 DEF ListOutcome
      <4>2. ls[m] \in Pages
        BY <1>2, <2>6
      <4> QED
        BY <2>5, <4>1, <4>2
    <3> QED
      BY <2>3, <2>5, <2>6, <3>1
  <2>8. c = NoFit \/ \E m \in 1..i : FromPage(c, ls[m], r)
    <3>1. CASE c = b
      BY <2>2, <2>6, <3>1 DEF ListOutcome
    <3>2. CASE FromPage(c, p, r)
      BY <2>3, <2>6, <3>2
    <3> QED
      BY <2>5, <3>1, <3>2
  <2>9. ListOutcome(c, ls, i, r)
    BY <2>5, <2>7, <2>8 DEF ListOutcome
  <2>10. w[1..i] = c
    BY <1>7, <2>1, <2>3, <2>4
  <2> QED
    BY <2>9, <2>10
<1>10. n \in P
  <2>1. \A i \in 0..n : i \in P
    <3> HIDE DEF P
    <3> QED
      BY <1>2, <1>8, <1>9, AllReached
  <2>2. n \in 0..n
    BY <1>2
  <2> HIDE DEF P
  <2> QED
    BY <2>1, <2>2
<1> QED
  BY <1>1, <1>2, <1>3, <1>4, <1>10

-----------------------------------------------------------------------------
(* Freelists as chains of blocks.                                          *)

LEMMA FrameIs ==
  /\ IsFiniteSet(Frame)
  /\ Cardinality(Frame) = PageUnits
  /\ \A s \in SUBSET Frame : IsFiniteSet(s) /\ Cardinality(s) \in Nat
<1>1. PageUnits \in Nat \ {0} /\ 0 \in Int /\ PageUnits - 1 \in Int
  BY CallerLimits
<1>2. IsFiniteSet(Frame)
  BY <1>1, FS_Interval DEF Frame
<1>3. Cardinality(Frame) = PageUnits
  <2>1. PICK m : m = PageUnits - 1
    OBVIOUS
  <2>2. m \in Int /\ 0 <= m /\ m - 0 + 1 = PageUnits
    BY <1>1, <2>1
  <2>3. Cardinality(0..m) = m - 0 + 1
    BY <1>1, <2>2, FS_Interval
  <2> QED
    BY <2>1, <2>2, <2>3 DEF Frame
<1> QED
  BY <1>2, <1>3, FS_Subset, FS_CardinalityType

LEMMA ChainBlock ==
  ASSUME NEW fl, NEW lo, NEW hi, Chain(fl, lo, hi), NEW i \in 1..Len(fl)
  PROVE  /\ fl[i] \in Blocks
         /\ fl[i].at \in Frame /\ fl[i].at \in Nat
         /\ fl[i].len \in Nat \ {0} /\ fl[i].len \in 1..PageUnits
         /\ lo <= fl[i].at /\ fl[i].at + fl[i].len <= hi
<1>1. fl[i] \in Blocks
  BY ElementOfSeq DEF Chain
<1> QED
  BY <1>1, BlockIs DEF Chain

\* The part of a chain between two positions.
LEMMA ChainPart ==
  ASSUME NEW fl, NEW lo \in Nat, NEW hi \in Nat, Chain(fl, lo, hi),
         NEW i \in 1..(Len(fl) + 1), NEW j \in 0..Len(fl), NEW from \in Nat, NEW to \in Nat,
         \A k \in i..j : from <= fl[k].at /\ fl[k].at + fl[k].len <= to
  PROVE  /\ Chain(SubSeq(fl, i, j), from, to)
         /\ \A u \in Frame : u \in FreeUnits(SubSeq(fl, i, j)) <=> \E k \in i..j : Covers(fl[k], u)
<1>1. fl \in Seq(Blocks) /\ Len(fl) \in Nat
  BY LenProperties DEF Chain
<1>2. i \in Int /\ j \in Int /\ i \in Nat /\ j \in Nat /\ i..j \subseteq 1..Len(fl)
  BY <1>1
<1>3. \A k \in i..j : fl[k] \in Blocks
  BY <1>1, <1>2, ElementOfSeq
<1>4. PICK s : s = SubSeq(fl, i, j)
  OBVIOUS
<1>5. /\ s \in Seq(Blocks)
      /\ Len(s) = IF i <= j THEN j - i + 1 ELSE 0
      /\ \A k \in 1..(j - i + 1) : s[k] = fl[i + k - 1]
  BY <1>2, <1>3, <1>4, SubSeqProperties
<1>6. PICK n : n = Len(s)
  OBVIOUS
<1>7. n \in Nat /\ DOMAIN s = 1..n /\ \A k \in 1..n : k \in 1..(j - i + 1) /\ i + k - 1 \in i..j
  BY <1>2, <1>5, <1>6
<1>8. \A k \in 1..n : s[k] = fl[i + k - 1]
  BY <1>5, <1>7
<1>9. Chain(s, from, to)
  <2>1. ASSUME NEW k \in 1..n PROVE from <= s[k].at /\ s[k].at + s[k].len <= to
    BY <1>7, <1>8
  <2>2. ASSUME NEW k \in 1..n, NEW l \in 1..n, k < l PROVE s[k].at + s[k].len <= s[l].at
    <3>1. PICK x, y : x = i + k - 1 /\ y = i + l - 1
      OBVIOUS
    <3>2. x \in 1..Len(fl) /\ y \in 1..Len(fl) /\ x < y
      <4>1. x \in i..j /\ y \in i..j
        BY <1>7, <3>1
      <4>2. k \in Int /\ l \in Int
        OBVIOUS
      <4>3. x < y
        BY <1>2, <2>2, <3>1, <4>2
      <4> QED
        BY <1>2, <4>1, <4>3
    <3>3. fl[x].at + fl[x].len <= fl[y].at
      BY <3>2 DEF Chain
    <3> QED
      BY <1>8, <3>1, <3>3
  <2> QED
    BY <1>5, <1>6, <2>1, <2>2 DEF Chain
<1>10. ASSUME NEW u \in Frame
       PROVE  u \in FreeUnits(s) <=> \E k \in i..j : Covers(fl[k], u)
  <2>1. ASSUME NEW k \in i..j, Covers(fl[k], u) PROVE u \in FreeUnits(s)
    <3>1. PICK l : l = k - i + 1
      OBVIOUS
    <3>2. l \in 1..n /\ i + l - 1 = k
      BY <1>2, <1>5, <1>6, <3>1
    <3>3. Covers(s[l], u)
      BY <1>8, <2>1, <3>2
    <3> QED
      BY <1>7, <3>2, <3>3 DEF FreeUnits
  <2>2. ASSUME u \in FreeUnits(s) PROVE \E k \in i..j : Covers(fl[k], u)
    <3>1. PICK l \in 1..n : Covers(s[l], u)
      BY <1>7, <2>2 DEF FreeUnits
    <3> QED
      BY <1>7, <1>8, <3>1
  <2> QED
    BY <2>1, <2>2
<1> QED
  BY <1>4, <1>9, <1>10

\* Two chains, one behind the other.
LEMMA ChainJoin ==
  ASSUME NEW lo \in Nat, NEW mid \in Nat, NEW hi \in Nat, lo <= mid, mid <= hi,
         NEW s, NEW t, Chain(s, lo, mid), Chain(t, mid, hi)
  PROVE  /\ Chain(s \o t, lo, hi)
         /\ FreeUnits(s \o t) = FreeUnits(s) \cup FreeUnits(t)
<1>1. PICK v, m, n : v = s \o t /\ m = Len(s) /\ n = Len(t)
  OBVIOUS
<1>2. /\ s \in Seq(Blocks) /\ t \in Seq(Blocks) /\ m \in Nat /\ n \in Nat
      /\ DOMAIN s = 1..m /\ DOMAIN t = 1..n
  BY <1>1, LenProperties DEF Chain
<1>3. /\ v \in Seq(Blocks) /\ Len(v) = m + n /\ DOMAIN v = 1..(m + n)
      /\ \A i \in 1..(m + n) : v[i] = IF i <= m THEN s[i] ELSE t[i - m]
  <2>1. /\ v \in Seq(Blocks) /\ Len(v) = m + n
        /\ \A i \in 1..(m + n) : v[i] = IF i <= m THEN s[i] ELSE t[i - m]
    BY <1>1, <1>2, ConcatProperties
  <2> QED
    BY <2>1
<1>4. \A i \in 1..(m + n) : (i <= m => i \in 1..m) /\ (~(i <= m) => i - m \in 1..n)
  BY <1>2
<1>5. /\ \A i \in 1..m : /\ s[i].at \in Nat /\ s[i].len \in Nat \ {0}
                         /\ lo <= s[i].at /\ s[i].at + s[i].len <= mid
      /\ \A i \in 1..n : /\ t[i].at \in Nat /\ t[i].len \in Nat \ {0}
                         /\ mid <= t[i].at /\ t[i].at + t[i].len <= hi
  BY <1>1, ChainBlock
<1>6. ASSUME NEW i \in 1..(m + n) PROVE lo <= v[i].at /\ v[i].at + v[i].len <= hi
  <2>1. CASE i <= m
    <3>1. v[i] = s[i] /\ i \in 1..m
      BY <1>3, <1>4, <2>1
    <3>2. PICK a, l : a = s[i].at /\ l = s[i].len
      OBVIOUS
    <3>3. a \in Nat /\ l \in Nat /\ lo <= a /\ a + l <= mid
      BY <1>5, <3>1, <3>2
    <3> QED
      BY <3>1, <3>2, <3>3
  <2>2. CASE ~(i <= m)
    <3>1. PICK k : k = i - m
      OBVIOUS
    <3>2. v[i] = t[k] /\ k \in 1..n
      BY <1>3, <1>4, <2>2, <3>1
    <3>3. PICK a, l : a = t[k].at /\ l = t[k].len
      OBVIOUS
    <3>4. a \in Nat /\ l \in Nat /\ mid <= a /\ a + l <= hi
      BY <1>5, <3>2, <3>3
    <3> QED
      BY <3>2, <3>3, <3>4
  <2> QED
    BY <2>1, <2>2
<1>7. ASSUME NEW i \in 1..(m + n), NEW j \in 1..(m + n), i < j
      PROVE  v[i].at + v[i].len <= v[j].at
  <2>1. CASE j <= m
    <3>1. i <= m /\ i \in 1..m /\ j \in 1..m
      BY <1>2, <1>7, <2>1
    <3>2. v[i] = s[i] /\ v[j] = s[j]
      BY <1>3, <2>1, <3>1
    <3>3. s[i].at + s[i].len <= s[j].at
      BY <1>1, <1>7, <3>1 DEF Chain
    <3> QED
      BY <3>2, <3>3
  <2>2. CASE i <= m /\ ~(j <= m)
    <3>1. PICK k : k = j - m
      OBVIOUS
    <3>2. v[i] = s[i] /\ v[j] = t[k] /\ i \in 1..m /\ k \in 1..n
      BY <1>3, <1>4, <2>2, <3>1
    <3>3. PICK a, l, b : a = s[i].at /\ l = s[i].len /\ b = t[k].at
      OBVIOUS
    <3>4. a \in Nat /\ l \in Nat /\ b \in Nat /\ a + l <= mid /\ mid <= b
      BY <1>5, <3>2, <3>3
    <3> QED
      BY <3>2, <3>3, <3>4
  <2>3. CASE ~(i <= m)
    <3>1. PICK k, l : k = i - m /\ l = j - m
      OBVIOUS
    <3>2. ~(j <= m) /\ k < l
      BY <1>2, <1>7, <2>3, <3>1
    <3>3. v[i] = t[k] /\ v[j] = t[l] /\ k \in 1..n /\ l \in 1..n
      BY <1>3, <1>4, <2>3, <3>1, <3>2
    <3>4. t[k].at + t[k].len <= t[l].at
      BY <1>1, <3>2, <3>3 DEF Chain
    <3> QED
      BY <3>3, <3>4
  <2> QED
    BY <2>1, <2>2, <2>3
<1>8. Chain(v, lo, hi)
  BY <1>3, <1>6, <1>7 DEF Chain
<1>9. ASSUME NEW u \in Frame
      PROVE  u \in FreeUnits(v) <=> u \in FreeUnits(s) \/ u \in FreeUnits(t)
  <2>1. ASSUME u \in FreeUnits(v) PROVE u \in FreeUnits(s) \/ u \in FreeUnits(t)
    <3>1. PICK i \in 1..(m + n) : Covers(v[i], u)
      BY <1>3, <2>1 DEF FreeUnits
    <3> QED
      BY <1>2, <1>3, <1>4, <3>1 DEF FreeUnits
  <2>2. ASSUME u \in FreeUnits(s) PROVE u \in FreeUnits(v)
    <3>1. PICK i \in 1..m : Covers(s[i], u)
      BY <1>2, <2>2 DEF FreeUnits
    <3>2. i \in 1..(m + n) /\ i <= m
      BY <1>2
    <3> QED
      BY <1>3, <3>1, <3>2 DEF FreeUnits
  <2>3. ASSUME u \in FreeUnits(t) PROVE u \in FreeUnits(v)
    <3>1. PICK k \in 1..n : Covers(t[k], u)
      BY <1>2, <2>3 DEF FreeUnits
    <3>2. PICK i : i = m + k
      OBVIOUS
    <3>3. i \in 1..(m + n) /\ ~(i <= m) /\ i - m = k
      BY <1>2, <3>2
    <3>4. v[i] = t[k]
      BY <1>3, <3>3
    <3> QED
      BY <1>3, <3>1, <3>3, <3>4 DEF FreeUnits
  <2> QED
    BY <2>1, <2>2, <2>3
<1>10. FreeUnits(v) = FreeUnits(s) \cup FreeUnits(t)
  BY <1>9 DEF FreeUnits
<1> QED
  BY <1>1, <1>8, <1>10

LEMMA OneBlock ==
  ASSUME NEW at \in Nat, NEW len \in Nat \ {0}, at + len <= PageUnits
  PROVE  /\ Chain(<<[at |-> at, len |-> len]>>, at, at + len)
         /\ \A u \in Frame :
              u \in FreeUnits(<<[at |-> at, len |-> len]>>) <=> at <= u /\ u < at + len
<1>1. PICK b, s : b = [at |-> at, len |-> len] /\ s = <<b>>
  OBVIOUS
<1>2. b \in Blocks
  BY <1>1, CallerLimits DEF Blocks
<1>3. s \in Seq(Blocks) /\ Len(s) = 1 /\ s[1] = b /\ DOMAIN s = {1} /\ 1..Len(s) = {1}
  BY <1>1, <1>2
<1>4. b.at = at /\ b.len = len
  BY <1>1
<1>5. Chain(s, at, at + len)
  BY <1>3, <1>4 DEF Chain
<1>6. \A u \in Frame : u \in FreeUnits(s) <=> at <= u /\ u < at + len
  BY <1>3, <1>4 DEF FreeUnits, Covers
<1> QED
  BY <1>1, <1>5, <1>6

LEMMA FragmentChain ==
  ASSUME NEW at \in Nat, NEW len \in Nat, at + len <= PageUnits
  PROVE  /\ Chain(Fragment(at, len), at, at + len)
         /\ \A u \in Frame : u \in FreeUnits(Fragment(at, len)) <=> at <= u /\ u < at + len
<1>1. CASE len = 0
  <2>1. Fragment(at, len) = <<>>
    BY <1>1 DEF Fragment
  <2>2. Chain(<<>>, at, at + len)
    BY DEF Chain
  <2>3. \A u \in Frame : u \notin FreeUnits(<<>>) /\ ~(at <= u /\ u < at + len)
    BY <1>1 DEF FreeUnits, Frame
  <2> QED
    BY <2>1, <2>2, <2>3
<1>2. CASE len # 0
  BY <1>2, OneBlock DEF Fragment
<1> QED
  BY <1>1, <1>2

\* Different blocks of a chain share no unit.
LEMMA ChainApart ==
  ASSUME NEW fl, NEW lo, NEW hi, Chain(fl, lo, hi),
         NEW i \in 1..Len(fl), NEW j \in 1..Len(fl), NEW u \in Nat,
         Covers(fl[i], u), Covers(fl[j], u)
  PROVE  i = j
<1>1. Len(fl) \in Nat
  BY LenProperties DEF Chain
<1>2. /\ fl[i].at \in Nat /\ fl[i].len \in Nat
      /\ fl[j].at \in Nat /\ fl[j].len \in Nat
  BY ChainBlock
<1>3. PICK a, l, b, m : a = fl[i].at /\ l = fl[i].len /\ b = fl[j].at /\ m = fl[j].len
  OBVIOUS
<1>4. a <= u /\ u < a + l /\ b <= u /\ u < b + m
  BY <1>3 DEF Covers
<1>5. /\ i < j => a + l <= b
      /\ j < i => b + m <= a
  BY <1>3 DEF Chain
<1>6. ~(i < j) /\ ~(j < i)
  BY <1>2, <1>3, <1>4, <1>5
<1> QED
  BY <1>1, <1>6

\* slob_page_alloc takes its units out of one block and leaves all others.
LEMMA CarveIs ==
  ASSUME NEW r \in Requests, NEW fl, Chain(fl, 0, PageUnits), NEW i \in 1..Len(fl),
         Room(fl, i, r), NEW x, x = fl[i].at + Delta(fl[i].at, r)
  PROVE  /\ Chain(Carve(fl, i, r), 0, PageUnits)
         /\ x \in Nat /\ x + r.size <= PageUnits /\ x \in Frame
         /\ \A u \in Frame : x <= u /\ u < x + r.size => Covers(fl[i], u)
         /\ \A u \in Frame : u \in FreeUnits(Carve(fl, i, r)) <=>
              u \in FreeUnits(fl) /\ ~(x <= u /\ u < x + r.size)
<1>1. PICK n, at, len, d, size :
        n = Len(fl) /\ at = fl[i].at /\ len = fl[i].len /\ d = Delta(fl[i].at, r) /\ size = r.size
  OBVIOUS
<1>2. fl \in Seq(Blocks) /\ n \in Nat /\ DOMAIN fl = 1..n /\ i \in 1..n
  BY <1>1, LenProperties DEF Chain
<1>3. at \in Nat /\ len \in Nat /\ at + len <= PageUnits /\ PageUnits \in Nat
  BY <1>1, ChainBlock, CallerLimits
<1>4. size \in Nat \ {0} /\ d \in Nat
  <2>1. r.size \in Nat \ {0}
    BY <1>3, RequestIs
  <2>2. fl[i].at \in Nat
    BY <1>1, <1>3
  <2>3. Delta(fl[i].at, r) \in Nat
    BY <2>2, DeltaIs
  <2> QED
    BY <1>1, <2>1, <2>3
<1>5. Need(fl[i], r) = size + d /\ len >= size + d
  BY <1>1, <1>2, RoomIs DEF Room
<1>6. PICK rest : rest = len - (size + d)
  OBVIOUS
<1>7. rest \in Nat /\ at + (size + d) + rest = at + len /\ x = at + d
      /\ at + d <= PageUnits /\ at + (size + d) <= PageUnits
      /\ at + (size + d) \in Nat /\ at + d \in Nat /\ at + d <= at + (size + d)
  <2>1. x = at + d
    BY <1>1
  <2>2. PICK k : k = size + d
    OBVIOUS
  <2>3. k \in Nat /\ k <= len /\ d <= k /\ rest = len - k
    BY <1>4, <1>5, <1>6, <1>3, <2>2
  <2>4. /\ rest \in Nat /\ at + k + rest = at + len
        /\ at + d <= PageUnits /\ at + k <= PageUnits
        /\ at + k \in Nat /\ at + d \in Nat /\ at + d <= at + k
    BY <1>3, <1>4, <2>3
  <2> QED
    BY <2>1, <2>2, <2>4
<1>8. PICK s1, s2, s3, s4 :
        /\ s1 = SubSeq(fl, 1, i - 1)
        /\ s2 = Fragment(at, d)
        /\ s3 = Fragment(at + (size + d), rest)
        /\ s4 = SubSeq(fl, i + 1, n)
  OBVIOUS
<1>9. Carve(fl, i, r) = s1 \o s2 \o s3 \o s4
  BY <1>1, <1>5, <1>6, <1>8 DEF Carve
<1>10. /\ i \in Int /\ i - 1 \in 0..n /\ i + 1 \in 1..(n + 1) /\ 1 \in 1..(n + 1) /\ n \in 0..n
       /\ 1..(i - 1) \subseteq 1..n /\ (i + 1)..n \subseteq 1..n
       /\ \A k \in 1..n : k \in 1..(i - 1) \/ k = i \/ k \in (i + 1)..n
  BY <1>2
<1>11. /\ Chain(s1, 0, at)
       /\ \A u \in Frame : u \in FreeUnits(s1) <=> \E k \in 1..(i - 1) : Covers(fl[k], u)
  <2>1. ASSUME NEW k \in 1..(i - 1) PROVE 0 <= fl[k].at /\ fl[k].at + fl[k].len <= at
    <3>1. k \in 1..n /\ k < i
      BY <1>2
    <3> QED
      BY <1>1, <3>1 DEF Chain
  <2> QED
    BY <1>1, <1>3, <1>8, <1>10, <2>1, ChainPart
<1>12. /\ Chain(s4, at + len, PageUnits)
       /\ \A u \in Frame : u \in FreeUnits(s4) <=> \E k \in (i + 1)..n : Covers(fl[k], u)
  <2>1. ASSUME NEW k \in (i + 1)..n PROVE at + len <= fl[k].at /\ fl[k].at + fl[k].len <= PageUnits
    <3>1. k \in 1..n /\ i < k
      BY <1>2
    <3> QED
      BY <1>1, <1>2, <3>1 DEF Chain
  <2>2. at + len \in Nat
    BY <1>3
  <2> QED
    BY <1>1, <1>3, <1>8, <1>10, <2>1, <2>2, ChainPart
<1>13. /\ Chain(s2, at, at + d)
       /\ \A u \in Frame : u \in FreeUnits(s2) <=> at <= u /\ u < at + d
  BY <1>3, <1>4, <1>7, <1>8, FragmentChain
<1>14. /\ Chain(s3, at + (size + d), at + len)
       /\ \A u \in Frame : u \in FreeUnits(s3) <=> at + (size + d) <= u /\ u < at + len
  <2>1. at + (size + d) + rest <= PageUnits
    BY <1>3, <1>7
  <2>2. /\ Chain(s3, at + (size + d), at + (size + d) + rest)
        /\ \A u \in Frame : u \in FreeUnits(s3) <=>
             at + (size + d) <= u /\ u < at + (size + d) + rest
    BY <1>7, <1>8, <2>1, FragmentChain
  <2> QED
    BY <1>7, <2>2
<1>15. /\ Chain(s1 \o s2, 0, at + d)
       /\ FreeUnits(s1 \o s2) = FreeUnits(s1) \cup FreeUnits(s2)
  <2>1. 0 \in Nat /\ 0 <= at /\ at <= at + d
    BY <1>3, <1>4
  <2> QED
    BY <1>3, <1>7, <1>11, <1>13, <2>1, ChainJoin
<1>16. Chain(s1 \o s2, 0, at + (size + d))
  <2>1. ASSUME NEW fl2, Chain(fl2, 0, at + d) PROVE Chain(fl2, 0, at + (size + d))
    <3>1. ASSUME NEW k \in 1..Len(fl2) PROVE fl2[k].at + fl2[k].len <= at + (size + d)
      <4>1. fl2[k].at \in Nat /\ fl2[k].len \in Nat /\ fl2[k].at + fl2[k].len <= at + d
        BY <2>1, ChainBlock
      <4> QED
        BY <1>7, <4>1
    <3> QED
      BY <2>1, <3>1 DEF Chain
  <2> QED
    BY <1>15, <2>1
<1>17. /\ Chain(s1 \o s2 \o s3, 0, at + len)
       /\ FreeUnits(s1 \o s2 \o s3) = FreeUnits(s1 \o s2) \cup FreeUnits(s3)
  <2>1. 0 \in Nat /\ 0 <= at + (size + d) /\ at + (size + d) <= at + len /\ at + len \in Nat
    BY <1>3, <1>7
  <2> QED
    BY <1>7, <1>14, <1>16, <2>1, ChainJoin
<1>18. /\ Chain(s1 \o s2 \o s3 \o s4, 0, PageUnits)
       /\ FreeUnits(s1 \o s2 \o s3 \o s4) = FreeUnits(s1 \o s2 \o s3) \cup FreeUnits(s4)
  <2>1. 0 \in Nat /\ 0 <= at + len /\ at + len \in Nat
    BY <1>3
  <2> QED
    BY <1>3, <1>12, <1>17, <2>1, ChainJoin
<1>19. ASSUME NEW u \in Frame
       PROVE  u \in FreeUnits(Carve(fl, i, r)) <=>
                u \in FreeUnits(fl) /\ ~(x <= u /\ u < x + size)
  <2>0. u \in Nat
    BY DEF Frame
  <2>1. u \in FreeUnits(Carve(fl, i, r)) <=>
          \/ \E k \in 1..(i - 1) : Covers(fl[k], u)
          \/ at <= u /\ u < at + d
          \/ at + (size + d) <= u /\ u < at + len
          \/ \E k \in (i + 1)..n : Covers(fl[k], u)
    BY <1>9, <1>11, <1>12, <1>13, <1>14, <1>15, <1>17, <1>18
  <2>2. u \in FreeUnits(fl) <=>
          \/ \E k \in 1..(i - 1) : Covers(fl[k], u)
          \/ at <= u /\ u < at + len
          \/ \E k \in (i + 1)..n : Covers(fl[k], u)
    <3>1. u \in FreeUnits(fl) <=> \E k \in 1..n : Covers(fl[k], u)
      BY <1>2 DEF FreeUnits
    <3>2. Covers(fl[i], u) <=> at <= u /\ u < at + len
      BY <1>1 DEF Covers
    <3> QED
      BY <1>2, <1>10, <3>1, <3>2
  <2>3. ASSUME x <= u, u < x + size
        PROVE  ~\E k \in (1..(i - 1)) \cup ((i + 1)..n) : Covers(fl[k], u)
    <3>1. at <= u /\ u < at + len
      BY <1>3, <1>4, <1>5, <1>7, <2>0, <2>3
    <3>2. Covers(fl[i], u)
      BY <1>1, <3>1 DEF Covers
    <3>3. ASSUME NEW k \in (1..(i - 1)) \cup ((i + 1)..n), Covers(fl[k], u) PROVE FALSE
      <4>1. k \in 1..n /\ k # i
        BY <1>10
      <4> QED
        BY <1>1, <1>2, <2>0, <3>2, <3>3, <4>1, ChainApart
    <3> QED
      BY <3>3
  <2>4. x <= u /\ u < x + size <=> at + d <= u /\ u < at + (size + d)
    BY <1>3, <1>4, <1>7, <2>0
  <2>5. CASE x <= u /\ u < x + size
    <3>1. ~(at <= u /\ u < at + d) /\ ~(at + (size + d) <= u /\ u < at + len)
      BY <1>3, <1>4, <2>0, <2>4, <2>5
    <3> QED
      BY <2>1, <2>3, <2>5, <3>1
  <2>6. CASE ~(x <= u /\ u < x + size)
    <3>1. at <= u /\ u < at + len <=>
            (at <= u /\ u < at + d) \/ (at + (size + d) <= u /\ u < at + len)
      BY <1>3, <1>4, <1>5, <2>0, <2>4, <2>6
    <3> QED
      BY <2>1, <2>2, <2>6, <3>1
  <2> QED
    BY <2>5, <2>6
<1>20. ASSUME NEW u \in Frame, x <= u, u < x + size PROVE Covers(fl[i], u)
  <2>1. at <= u /\ u < at + len
    BY <1>3, <1>4, <1>5, <1>7, <1>20 DEF Frame
  <2> QED
    BY <1>1, <2>1 DEF Covers
<1>21. x \in Nat /\ x + size <= PageUnits /\ x \in Frame
  BY <1>3, <1>4, <1>5, <1>7 DEF Frame
<1> QED
  BY <1>1, <1>9, <1>18, <1>19, <1>20, <1>21

\* A set of the first positions is told by their number.
LEMMA FirstPositions ==
  ASSUME NEW n \in Nat, NEW s \in SUBSET (1..n),
         \A i, j \in 1..n : j \in s /\ i <= j => i \in s
  PROVE  Cardinality(s) \in 0..n /\ s = 1..Cardinality(s)
<1>1. CASE s = {}
  <2>1. Cardinality(s) = 0
    BY <1>1, FS_EmptySet
  <2> QED
    BY <1>1, <2>1
<1>2. CASE s # {}
  <2>1. PICK m : m = Max(s)
    OBVIOUS
  <2>2. m \in s /\ \A y \in s : y <= m
    <3>1. s \in SUBSET Nat /\ \A y \in s : y <= n
      OBVIOUS
    <3>2. Max(s) \in s /\ \A y \in s : y <= Max(s)
      BY <1>2, <3>1, MaxOfNaturals
    <3> QED
      BY <2>1, <3>2
  <2>3. s = 1..m /\ m \in 1..n
    <3>1. m \in 1..n
      BY <2>2
    <3>2. \A y \in 1..m : y \in s
      <4>1. \A y \in 1..m : y \in 1..n /\ y <= m
        BY <3>1
      <4> QED
        BY <2>2, <3>1, <4>1
    <3>3. \A y \in s : y \in 1..m
      BY <2>2, <3>1
    <3> QED
      BY <3>1, <3>2, <3>3
  <2>4. Cardinality(1..m) = m
    <3>1. 1 \in Int /\ m \in Int /\ 1 <= m /\ m - 1 + 1 = m
      BY <2>3
    <3>2. Cardinality(1..m) = m - 1 + 1
      BY <3>1, FS_Interval
    <3> QED
      BY <3>1, <3>2
  <2> QED
    BY <2>3, <2>4
<1> QED
  BY <1>1, <1>2

\* slob_free puts a block back that is not free, and leaves all others free.
LEMMA MergeIs ==
  ASSUME NEW fl, Chain(fl, 0, PageUnits), NEW b, b.at \in Nat, b.len \in Nat \ {0},
         b.at + b.len <= PageUnits,
         \A u \in Frame : Covers(b, u) => u \notin FreeUnits(fl)
  PROVE  /\ Chain(Merge(fl, b), 0, PageUnits)
         /\ \A u \in Frame : u \in FreeUnits(Merge(fl, b)) <=> u \in FreeUnits(fl) \/ Covers(b, u)
<1>1. PICK n, x, y : n = Len(fl) /\ x = b.at /\ y = b.at + b.len
  OBVIOUS
<1>2. fl \in Seq(Blocks) /\ n \in Nat /\ DOMAIN fl = 1..n
  BY <1>1, LenProperties DEF Chain
<1>3. x \in Nat /\ y \in Nat /\ x < y /\ y <= PageUnits /\ PageUnits \in Nat /\ x \in Frame
  BY <1>1, CallerLimits DEF Frame
<1>4. \A u \in Frame : Covers(b, u) <=> x <= u /\ u < y
  BY <1>1 DEF Covers
<1>5. \A i \in 1..n : /\ fl[i].at \in Nat /\ fl[i].len \in Nat \ {0} /\ fl[i].at \in Frame
                      /\ fl[i].at + fl[i].len <= PageUnits
  BY <1>1, ChainBlock
<1>6. \A u \in Frame : u \in FreeUnits(fl) <=> \E i \in 1..n : Covers(fl[i], u)
  BY <1>2 DEF FreeUnits
<1>7. \A i, j \in 1..n : i < j => fl[i].at + fl[i].len <= fl[j].at
  BY <1>1 DEF Chain
<1>8. ASSUME NEW i \in 1..n
      PROVE  /\ fl[i].at < x => fl[i].at + fl[i].len <= x
             /\ ~(fl[i].at < x) => y <= fl[i].at
  <2>1. PICK a, l : a = fl[i].at /\ l = fl[i].len
    OBVIOUS
  <2>2. a \in Nat /\ l \in Nat \ {0} /\ a \in Frame
    BY <1>5, <2>1
  <2>3. \A u \in Frame : Covers(fl[i], u) <=> a <= u /\ u < a + l
    BY <2>1 DEF Covers
  <2>4. \A u \in Frame : ~((a <= u /\ u < a + l) /\ (x <= u /\ u < y))
    BY <1>4, <1>6, <2>3
  <2>5. a < x => a + l <= x
    BY <1>3, <2>2, <2>4
  <2>6. ~(a < x) => y <= a
    BY <1>3, <2>2, <2>4
  <2> QED
    BY <2>1, <2>5, <2>6
<1>9. PICK before : before = {i \in DOMAIN fl : fl[i].at < b.at}
  OBVIOUS
<1>10. PICK k : k = Cardinality(before)
  OBVIOUS
<1>11. k \in 0..n /\ before = 1..k
  <2>1. before \in SUBSET (1..n)
    BY <1>2, <1>9
  <2>2. ASSUME NEW i \in 1..n, NEW j \in 1..n, j \in before, i <= j PROVE i \in before
    <3>1. CASE i = j
      BY <2>2, <3>1
    <3>2. CASE i < j
      <4>1. fl[i].at + fl[i].len <= fl[j].at /\ fl[j].at < b.at
        BY <1>7, <1>9, <2>2, <3>2
      <4>2. PICK a, l, c : a = fl[i].at /\ l = fl[i].len /\ c = fl[j].at
        OBVIOUS
      <4>3. a \in Nat /\ l \in Nat /\ c \in Nat /\ a + l <= c /\ c < x
        BY <1>1, <1>5, <4>1, <4>2
      <4>4. a < x
        BY <1>3, <4>3
      <4> QED
        BY <1>1, <1>2, <1>9, <4>2, <4>4
    <3> QED
      BY <1>2, <2>2, <3>1, <3>2
  <2> QED
    BY <1>2, <1>10, <2>1, <2>2, FirstPositions
<1>12. /\ \A i \in 1..k : i \in 1..n /\ fl[i].at < x /\ fl[i].at + fl[i].len <= x
       /\ \A i \in (k + 1)..n : i \in 1..n /\ y <= fl[i].at
  <2>1. \A i \in 1..n : i \in before <=> fl[i].at < x
    BY <1>1, <1>2, <1>9
  <2>2. \A i \in 1..k : i \in 1..n /\ i \in before
    BY <1>2, <1>11
  <2>3. \A i \in (k + 1)..n : i \in 1..n /\ i \notin before
    BY <1>2, <1>11
  <2> QED
    BY <1>8, <2>1, <2>2, <2>3
<1>13. PICK joinsPrev, joinsNext :
         /\ joinsPrev <=> (k > 0 /\ fl[k].at + fl[k].len = b.at)
         /\ joinsNext <=> (k < Len(fl) /\ b.at + b.len = fl[k + 1].at)
  OBVIOUS
<1>14. PICK at, end, to, from :
         /\ at = IF k > 0 /\ fl[k].at + fl[k].len = b.at THEN fl[k].at ELSE b.at
         /\ end = IF k < Len(fl) /\ b.at + b.len = fl[k + 1].at
                    THEN fl[k + 1].at + fl[k + 1].len ELSE b.at + b.len
         /\ to = IF k > 0 /\ fl[k].at + fl[k].len = b.at THEN k - 1 ELSE k
         /\ from = IF k < Len(fl) /\ b.at + b.len = fl[k + 1].at THEN k + 2 ELSE k + 1
  OBVIOUS
<1>15. Merge(fl, b) = SubSeq(fl, 1, to) \o <<[at |-> at, len |-> end - at]>> \o SubSeq(fl, from, n)
  BY <1>1, <1>9, <1>10, <1>14 DEF Merge
<1>16. /\ to \in 0..n /\ to <= k /\ at \in Nat /\ at <= x
       /\ \A i \in 1..to : fl[i].at + fl[i].len <= at
       /\ \A u \in Frame : at <= u /\ u < x <=> \E i \in (to + 1)..k : Covers(fl[i], u)
  <2>1. CASE k > 0 /\ fl[k].at + fl[k].len = b.at
    <3>1. at = fl[k].at /\ to = k - 1 /\ k \in 1..n /\ (to + 1)..k = {k} /\ to \in 0..n /\ to <= k
      BY <1>2, <1>11, <1>14, <2>1
    <3>2. at \in Nat /\ at <= x
      BY <1>3, <1>5, <1>12, <3>1
    <3>3. \A i \in 1..to : fl[i].at + fl[i].len <= at
      BY <1>2, <1>7, <1>11, <3>1
    <3>4. \A u \in Frame : Covers(fl[k], u) <=> at <= u /\ u < x
      BY <1>1, <2>1, <3>1 DEF Covers
    <3> QED
      BY <3>1, <3>2, <3>3, <3>4
  <2>2. CASE ~(k > 0 /\ fl[k].at + fl[k].len = b.at)
    <3>1. at = x /\ to = k /\ (to + 1)..k = {}
      BY <1>1, <1>2, <1>11, <1>14, <2>2
    <3>2. \A u \in Frame : ~(at <= u /\ u < x)
      BY <1>3, <3>1 DEF Frame
    <3> QED
      BY <1>3, <1>2, <1>11, <1>12, <3>1, <3>2
  <2> QED
    BY <2>1, <2>2
<1>17. /\ from \in 1..(n + 1) /\ k < from /\ end \in Nat /\ y <= end /\ end <= PageUnits
       /\ \A i \in from..n : end <= fl[i].at
       /\ \A u \in Frame : y <= u /\ u < end <=> \E i \in (k + 1)..(from - 1) : Covers(fl[i], u)
  <2>1. CASE k < Len(fl) /\ b.at + b.len = fl[k + 1].at
    <3>1. PICK j : j = k + 1
      OBVIOUS
    <3>2. /\ end = fl[j].at + fl[j].len /\ from = j + 1 /\ j \in 1..n /\ (k + 1)..(from - 1) = {j}
          /\ from \in 1..(n + 1) /\ k < from
      BY <1>1, <1>2, <1>11, <1>14, <2>1, <3>1
    <3>3. fl[j].at = y
      BY <1>1, <2>1, <3>1
    <3>4. end \in Nat /\ y <= end /\ end <= PageUnits
      BY <1>3, <1>5, <3>2, <3>3
    <3>5. \A i \in from..n : end <= fl[i].at
      <4>1. \A i \in from..n : i \in 1..n /\ j < i
        BY <1>2, <3>2
      <4> QED
        BY <1>7, <3>2, <4>1
    <3>6. \A u \in Frame : Covers(fl[j], u) <=> y <= u /\ u < end
      BY <3>2, <3>3 DEF Covers
    <3> QED
      BY <3>2, <3>4, <3>5, <3>6
  <2>2. CASE ~(k < Len(fl) /\ b.at + b.len = fl[k + 1].at)
    <3>1. end = y /\ from = k + 1 /\ (k + 1)..(from - 1) = {}
      BY <1>1, <1>2, <1>11, <1>14, <2>2
    <3>2. \A u \in Frame : ~(y <= u /\ u < end)
      BY <1>3, <3>1 DEF Frame
    <3> QED
      BY <1>2, <1>3, <1>11, <1>12, <3>1, <3>2
  <2> QED
    BY <2>1, <2>2
<1>18. PICK s1, s2, s3 :
         /\ s1 = SubSeq(fl, 1, to)
         /\ s2 = <<[at |-> at, len |-> end - at]>>
         /\ s3 = SubSeq(fl, from, n)
  OBVIOUS
<1>19. /\ Chain(s1, 0, at)
       /\ \A u \in Frame : u \in FreeUnits(s1) <=> \E i \in 1..to : Covers(fl[i], u)
  <2>1. 1 \in 1..(n + 1) /\ 0 \in Nat
    BY <1>2
  <2>2. ASSUME NEW i \in 1..to PROVE 0 <= fl[i].at /\ fl[i].at + fl[i].len <= at
    <3>1. i \in 1..n
      BY <1>2, <1>16
    <3> QED
      BY <1>5, <1>16, <3>1
  <2> QED
    BY <1>1, <1>3, <1>16, <1>18, <2>1, <2>2, ChainPart
<1>20. /\ Chain(s3, end, PageUnits)
       /\ \A u \in Frame : u \in FreeUnits(s3) <=> \E i \in from..n : Covers(fl[i], u)
  <2>1. n \in 0..n /\ 0 \in Nat
    BY <1>2
  <2>2. ASSUME NEW i \in from..n PROVE end <= fl[i].at /\ fl[i].at + fl[i].len <= PageUnits
    <3>1. i \in 1..n
      BY <1>2, <1>17
    <3> QED
      BY <1>5, <1>17, <3>1
  <2> QED
    BY <1>1, <1>3, <1>17, <1>18, <2>1, <2>2, ChainPart
<1>21. /\ Chain(s2, at, end)
       /\ \A u \in Frame : u \in FreeUnits(s2) <=> at <= u /\ u < end
  <2>1. PICK l : l = end - at
    OBVIOUS
  <2>2. l \in Nat \ {0} /\ at + l = end /\ at + l <= PageUnits
    BY <1>3, <1>16, <1>17, <2>1
  <2>3. /\ Chain(s2, at, at + l)
        /\ \A u \in Frame : u \in FreeUnits(s2) <=> at <= u /\ u < at + l
    BY <1>16, <1>18, <2>1, <2>2, OneBlock
  <2> QED
    BY <2>2, <2>3
<1>22. 0 \in Nat /\ 0 <= at /\ at <= end /\ 0 <= end
  BY <1>3, <1>16, <1>17
<1>23. /\ Chain(s1 \o s2, 0, end)
       /\ FreeUnits(s1 \o s2) = FreeUnits(s1) \cup FreeUnits(s2)
  BY <1>16, <1>17, <1>19, <1>21, <1>22, ChainJoin
<1>24. /\ Chain(s1 \o s2 \o s3, 0, PageUnits)
       /\ FreeUnits(s1 \o s2 \o s3) = FreeUnits(s1 \o s2) \cup FreeUnits(s3)
  BY <1>3, <1>17, <1>20, <1>22, <1>23, ChainJoin
<1>25. ASSUME NEW u \in Frame
       PROVE  u \in FreeUnits(Merge(fl, b)) <=> u \in FreeUnits(fl) \/ Covers(b, u)
  <2>1. u \in FreeUnits(Merge(fl, b)) <=>
          \/ \E i \in 1..to : Covers(fl[i], u)
          \/ at <= u /\ u < end
          \/ \E i \in from..n : Covers(fl[i], u)
    BY <1>15, <1>18, <1>19, <1>20, <1>21, <1>23, <1>24
  <2>2. at <= u /\ u < end <=>
          (at <= u /\ u < x) \/ (x <= u /\ u < y) \/ (y <= u /\ u < end)
    BY <1>3, <1>16, <1>17 DEF Frame
  <2>3. \A i \in 1..n : i \in 1..to \/ i \in (to + 1)..k \/ i \in (k + 1)..(from - 1) \/ i \in from..n
    BY <1>2, <1>11, <1>16, <1>17
  <2>4. /\ \A i \in 1..to : i \in 1..n
        /\ \A i \in (to + 1)..k : i \in 1..n
        /\ \A i \in (k + 1)..(from - 1) : i \in 1..n
        /\ \A i \in from..n : i \in 1..n
    BY <1>2, <1>11, <1>16, <1>17
  <2>5. u \in FreeUnits(fl) <=> \E i \in 1..n : Covers(fl[i], u)
    BY <1>6
  <2>6. Covers(b, u) <=> x <= u /\ u < y
    BY <1>4
  <2>7. at <= u /\ u < x <=> \E i \in (to + 1)..k : Covers(fl[i], u)
    BY <1>16
  <2>8. y <= u /\ u < end <=> \E i \in (k + 1)..(from - 1) : Covers(fl[i], u)
    BY <1>17
  <2> QED
    BY <2>1, <2>2, <2>3, <2>4, <2>5, <2>6, <2>7, <2>8
<1>26. Chain(Merge(fl, b), 0, PageUnits)
  BY <1>15, <1>18, <1>24
<1> QED
  BY <1>25, <1>26

-----------------------------------------------------------------------------
(* Counting units.                                                         *)

\* The units c are the units a and l more, from x on.
MoreUnits(a, c, x, l) ==
  /\ x + l <= PageUnits
  /\ \A u \in Frame : u \in c <=> u \in a \/ (x <= u /\ u < x + l)
  /\ \A u \in a : ~(x <= u /\ u < x + l)

LEMMA UnitsAdd ==
  ASSUME NEW a \in SUBSET Frame, NEW c \in SUBSET Frame, NEW x \in Nat, NEW l \in Nat,
         MoreUnits(a, c, x, l)
  PROVE  /\ Cardinality(a) \in Nat /\ Cardinality(c) \in Nat
         /\ Cardinality(c) = Cardinality(a) + l
         /\ Cardinality(c) <= PageUnits
<1>0. PageUnits \in Nat
  BY CallerLimits
<1> USE DEF MoreUnits
<1>1. PICK e : e = x + l - 1
  OBVIOUS
<1>2. e \in Int /\ x \in Int /\ (IF x > e THEN 0 ELSE e - x + 1) = l
  BY <1>1
<1>3. PICK s : s = x..e
  OBVIOUS
<1>4. IsFiniteSet(s) /\ Cardinality(s) = l
  BY <1>2, <1>3, FS_Interval
<1>5. /\ IsFiniteSet(a) /\ Cardinality(a) \in Nat /\ IsFiniteSet(c) /\ Cardinality(c) \in Nat
      /\ Cardinality(c) <= PageUnits
  BY FrameIs, FS_Subset
<1>6. c = a \cup s
  <2>1. \A u \in Frame : u \in s <=> x <= u /\ u < x + l
    BY <1>1, <1>3 DEF Frame
  <2>2. s \in SUBSET Frame
    BY <1>0, <1>1, <1>3 DEF Frame
  <2> QED
    BY <2>1, <2>2
<1>7. a \cap s = {}
  BY <1>1, <1>3 DEF Frame
<1> HIDE DEF MoreUnits
<1>8. Cardinality(a \cup s) = Cardinality(a) + Cardinality(s) - Cardinality(a \cap s)
  BY <1>4, <1>5, FS_Union
<1>9. Cardinality(a \cap s) = 0
  BY <1>7, FS_EmptySet
<1> QED
  BY <1>4, <1>5, <1>6, <1>8, <1>9

\* units of a page, if it is the number of free units, is their sum.
LEMMA LengthIsUnits ==
  ASSUME NEW fl, Chain(fl, 0, PageUnits)
  PROVE  TotalLength(fl) = Cardinality(FreeUnits(fl))
<1>1. PICK n : n = Len(fl)
  OBVIOUS
<1>2. fl \in Seq(Blocks) /\ n \in Nat /\ DOMAIN fl = 1..n
  BY <1>1, LenProperties DEF Chain
<1>3. PICK g : g = [i \in 1..n |-> fl[i].len]
  OBVIOUS
<1>4. IsTotal(TotalLength(fl), g, n)
  BY <1>1, <1>2, <1>3, TotalLengthAddsUp
<1>5. PICK a \in [0..n -> Nat] : AddsUp(a, g, n) /\ TotalLength(fl) = a[n]
  BY <1>4 DEF IsTotal
<1> DEFINE Upto(i) == {u \in Frame : \E k \in 1..i : Covers(fl[k], u)}
           P == {i \in 0..n : a[i] = Cardinality(Upto(i))}
<1>6. 0 \in P
  <2>1. Upto(0) = {}
    OBVIOUS
  <2>2. a[0] = 0
    BY <1>5 DEF AddsUp
  <2> QED
    BY <1>2, <2>1, <2>2, FS_EmptySet
<1>7. ASSUME NEW i \in 1..n, i - 1 \in P PROVE i \in P
  <2>1. a[i - 1] = Cardinality(Upto(i - 1))
    BY <1>7
  <2>2. a[i] = a[i - 1] + fl[i].len
    BY <1>3, <1>5 DEF AddsUp
  <2>3. PICK x, l : x = fl[i].at /\ l = fl[i].len
    OBVIOUS
  <2>4. x \in Nat /\ l \in Nat /\ x + l <= PageUnits
    BY <1>1, <2>3, ChainBlock
  <2>5. \A u \in Frame : Covers(fl[i], u) <=> x <= u /\ u < x + l
    BY <2>3 DEF Covers
  <2>6. i \in 1..i /\ 1..(i - 1) \subseteq 1..i /\ (\A k \in 1..i : k \in 1..(i - 1) \/ k = i)
        /\ (\A k \in 1..(i - 1) : k \in 1..n /\ k # i)
    <3>1. i \in Nat /\ i \in 1..n
      BY <1>2
    <3> HIDE DEF P
    <3> QED
      BY <1>2, <3>1
  <2>7. \A u \in Frame : u \in Upto(i) <=> u \in Upto(i - 1) \/ (x <= u /\ u < x + l)
    BY <2>5, <2>6
  <2>8. \A u \in Upto(i - 1) : ~(x <= u /\ u < x + l)
    <3>1. ASSUME NEW u \in Upto(i - 1), x <= u, u < x + l PROVE FALSE
      <4>1. u \in Frame /\ u \in Nat
        BY DEF Frame
      <4>2. PICK k \in 1..(i - 1) : Covers(fl[k], u)
        OBVIOUS
      <4>3. k \in 1..Len(fl) /\ i \in 1..Len(fl) /\ k # i
        BY <1>1, <2>6
      <4>4. Covers(fl[i], u)
        BY <2>5, <3>1, <4>1
      <4> QED
        BY <4>1, <4>2, <4>3, <4>4, ChainApart
    <3> QED
      BY <3>1
  <2>9. PICK a0 \in SUBSET Frame, c0 \in SUBSET Frame : a0 = Upto(i - 1) /\ c0 = Upto(i)
    OBVIOUS
  <2> HIDE DEF Upto, P
  <2>10. Cardinality(Upto(i)) = Cardinality(Upto(i - 1)) + l
    <3>1. \A u \in Frame : u \in c0 <=> u \in a0 \/ (x <= u /\ u < x + l)
      BY <2>7, <2>9
    <3>2. \A u \in a0 : ~(x <= u /\ u < x + l)
      BY <2>8, <2>9
    <3>3. Cardinality(c0) = Cardinality(a0) + l
      <4>1. MoreUnits(a0, c0, x, l)
        BY <2>4, <3>1, <3>2 DEF MoreUnits
      <4> QED
        BY <2>4, <4>1, UnitsAdd
    <3> QED
      BY <2>9, <3>3
  <2> USE DEF P
  <2> QED
    BY <2>1, <2>2, <2>3, <2>10
<1>8. n \in P
  <2>1. n \in 0..n
    BY <1>2
  <2> HIDE DEF P
  <2> QED
    BY <1>2, <1>6, <1>7, <2>1, AllReached
<1>9. FreeUnits(fl) = Upto(n)
  BY <1>2 DEF FreeUnits
<1> QED
  BY <1>5, <1>8, <1>9

\* No block is longer than all together, and there are no more blocks than units.
LEMMA BlocksFit ==
  ASSUME NEW fl, Chain(fl, 0, PageUnits), NEW i \in 1..Len(fl)
  PROVE  fl[i].len <= Cardinality(FreeUnits(fl)) /\ i \in 1..PageUnits
<1>1. PICK n, x, l : n = Len(fl) /\ x = fl[i].at /\ l = fl[i].len
  OBVIOUS
<1>2. fl \in Seq(Blocks) /\ n \in Nat /\ DOMAIN fl = 1..n /\ i \in 1..n /\ PageUnits \in Nat
  BY <1>1, LenProperties, CallerLimits DEF Chain
<1>3. x \in Nat /\ l \in Nat /\ x + l <= PageUnits
  BY <1>1, ChainBlock
<1>4. \A u \in Frame : Covers(fl[i], u) <=> x <= u /\ u < x + l
  BY <1>1 DEF Covers
<1>5. l <= Cardinality(FreeUnits(fl))
  <2>1. PICK c \in SUBSET Frame : c = FreeUnits(fl)
    BY DEF FreeUnits
  <2>2. PICK a \in SUBSET Frame : a = {u \in c : ~(x <= u /\ u < x + l)}
    OBVIOUS
  <2>3. \A u \in Frame : x <= u /\ u < x + l => u \in c
    BY <1>2, <1>4, <2>1 DEF FreeUnits
  <2>4. \A u \in Frame : u \in c <=> u \in a \/ (x <= u /\ u < x + l)
    BY <2>2, <2>3
  <2>5. \A u \in a : ~(x <= u /\ u < x + l)
    BY <2>2
  <2>6. Cardinality(a) \in Nat /\ Cardinality(c) = Cardinality(a) + l
    <3>1. MoreUnits(a, c, x, l)
      BY <1>3, <2>4, <2>5 DEF MoreUnits
    <3> QED
      BY <1>3, <3>1, UnitsAdd
  <2> QED
    BY <1>3, <2>1, <2>6
<1> DEFINE P == {k \in 0..n : k = 0 \/ k <= fl[k].at + fl[k].len}
<1>6. 0 \in P
  BY <1>2
<1>7. ASSUME NEW k \in 1..n, k - 1 \in P PROVE k \in P
  <2>1. PICK y, m : y = fl[k].at /\ m = fl[k].len
    OBVIOUS
  <2>2. y \in Nat /\ m \in Nat \ {0}
    BY <1>1, <2>1, ChainBlock
  <2>3. k - 1 <= y
    <3>1. CASE k = 1
      BY <2>2, <3>1
    <3>2. CASE k # 1
      <4>1. PICK j : j = k - 1
        OBVIOUS
      <4>2. j \in 1..n /\ j < k /\ j # 0
        <5>1. k \in Nat /\ k \in 1..n
          BY <1>2
        <5> HIDE DEF P
        <5> QED
          BY <1>2, <3>2, <4>1, <5>1
      <4>3. fl[j].at + fl[j].len <= y /\ j <= fl[j].at + fl[j].len
        BY <1>1, <1>7, <2>1, <4>1, <4>2 DEF Chain
      <4>4. PICK z : z = fl[j].at + fl[j].len
        OBVIOUS
      <4>5. z \in Nat
        BY <1>1, <4>2, <4>4, ChainBlock
      <4> QED
        BY <2>2, <4>1, <4>2, <4>3, <4>4, <4>5
    <3> QED
      BY <3>1, <3>2
  <2>4. k <= y + m
    BY <2>2, <2>3
  <2> QED
    BY <2>1, <2>4
<1>8. i \in P
  <2>1. i \in 0..n
    BY <1>2
  <2> HIDE DEF P
  <2> QED
    BY <1>2, <1>6, <1>7, <2>1, AllReached
<1>9. i <= x + l
  BY <1>1, <1>2, <1>8
<1> QED
  BY <1>1, <1>2, <1>3, <1>5, <1>9

-----------------------------------------------------------------------------
(* The units of one page.                                                  *)

\* The units of a block handed out are its page's.
LEMMA UsedBlockIs ==
  ASSUME NEW b \in UsedBlocks
  PROVE  /\ b.page \in Pages /\ b.at \in Nat /\ b.at \in Frame
         /\ b.len \in Nat \ {0} /\ b.len \in 1..PageUnits
         /\ Covers(b, b.at)
         /\ \A u \in Frame : Covers(b, u) <=> b.at <= u /\ u < b.at + b.len
<1>1. b.page \in Pages /\ b.at \in 0..(PageUnits - 1) /\ b.len \in 1..PageUnits
  BY DEF UsedBlocks
<1> QED
  BY <1>1, CallerLimits DEF Frame, Covers

LEMMA PartitionAlloc ==
  ASSUME NEW r \in Requests, NEW p \in Pages, NEW fl, NEW n, NEW us \in SUBSET UsedBlocks,
         Partition(p, fl, n, us), NEW i \in 1..Len(fl), Room(fl, i, r),
         NEW b, b = BlockAt(p, fl, i, r)
  PROVE  /\ b \in UsedBlocks /\ b.page = p
         /\ n - r.size \in 0..(PageUnits - 1)
         /\ Partition(p, Carve(fl, i, r), n - r.size, us \cup {b})
<1>1. PICK x, l, gl : x = fl[i].at + Delta(fl[i].at, r) /\ l = r.size /\ gl = Carve(fl, i, r)
  OBVIOUS
<1>2. PICK f \in SUBSET Frame, g \in SUBSET Frame :
        f = FreeUnits(fl) /\ gl = Carve(fl, i, r) /\ g = FreeUnits(gl)
  BY <1>1 DEF FreeUnits
<1>3. Chain(fl, 0, PageUnits) /\ n = Cardinality(f)
  BY <1>2 DEF Partition
<1>4. /\ Chain(gl, 0, PageUnits)
      /\ x \in Nat /\ x + l <= PageUnits /\ x \in Frame
      /\ \A u \in Frame : x <= u /\ u < x + l => Covers(fl[i], u)
      /\ \A u \in Frame : u \in g <=> u \in f /\ ~(x <= u /\ u < x + l)
  BY <1>1, <1>2, <1>3, CarveIs
<1>5. l \in 1..(PageUnits - 1) /\ l \in Nat /\ PageUnits \in Nat
  BY <1>1, RequestIs, CallerLimits
<1>6. \A u \in Frame : x <= u /\ u < x + l => u \in f
  <2>1. DOMAIN fl = 1..Len(fl)
    BY <1>3, LenProperties DEF Chain
  <2> QED
    BY <1>2, <1>4, <2>1 DEF FreeUnits
<1>7. n \in Nat /\ Cardinality(g) = n - l /\ n - l \in 0..(PageUnits - 1)
  <2>1. MoreUnits(g, f, x, l)
    BY <1>4, <1>5, <1>6 DEF MoreUnits
  <2>2. PICK k, m : k = Cardinality(g) /\ m = Cardinality(f)
    OBVIOUS
  <2>3. k \in Nat /\ m \in Nat /\ m = k + l /\ m <= PageUnits
    BY <1>4, <1>5, <2>1, <2>2, UnitsAdd
  <2> QED
    BY <1>3, <1>5, <2>2, <2>3
<1>8. /\ b = [page |-> p, at |-> x, len |-> l] /\ b \in UsedBlocks
      /\ b.page = p /\ b.at = x /\ b.len = l
      /\ \A u \in Frame : Covers(b, u) <=> x <= u /\ u < x + l
  <2>1. b = [page |-> p, at |-> x, len |-> l]
    BY <1>1 DEF BlockAt
  <2>2. x \in 0..(PageUnits - 1) /\ l \in 1..PageUnits
    BY <1>4, <1>5 DEF Frame
  <2>3. b \in UsedBlocks
    BY <2>1, <2>2 DEF UsedBlocks
  <2>4. b.page = p /\ b.at = x /\ b.len = l
    BY <2>1
  <2> QED
    BY <2>1, <2>3, <2>4, UsedBlockIs
<1>9. PICK vs : vs = us \cup {b}
  OBVIOUS
<1>10. Partition(p, gl, n - l, vs)
  <2>1. ASSUME NEW c \in vs, c.page = p
        PROVE  c.at + c.len <= PageUnits /\ \A u \in Frame : Covers(c, u) => u \notin g
    <3>1. CASE c = b
      BY <1>4, <1>8, <3>1
    <3>2. CASE c \in us
      BY <1>2, <1>4, <2>1, <3>2 DEF Partition
    <3> QED
      BY <1>9, <3>1, <3>2
  <2>2. ASSUME NEW c \in us, c.page = p, NEW u \in Frame, Covers(c, u) PROVE ~Covers(b, u)
    BY <1>2, <1>6, <1>8, <2>2 DEF Partition
  <2>3. ASSUME NEW c \in us, NEW d \in us, c.page = p, d.page = p, NEW u \in Frame,
               Covers(c, u), Covers(d, u)
        PROVE  c = d
    BY <2>3 DEF Partition
  <2>4. ASSUME NEW c \in vs, NEW d \in vs, c.page = p, d.page = p, NEW u \in Frame,
               Covers(c, u), Covers(d, u)
        PROVE  c = d
    BY <1>9, <2>2, <2>3, <2>4
  <2>5. ASSUME NEW u \in Frame, u \notin g PROVE \E c \in vs : c.page = p /\ Covers(c, u)
    <3>1. CASE u \in f
      BY <1>4, <1>8, <1>9, <2>5, <3>1
    <3>2. CASE u \notin f
      <4>1. \E c \in us : c.page = p /\ Covers(c, u)
        BY <1>2, <3>2 DEF Partition
      <4> QED
        BY <1>9, <4>1
    <3> QED
      BY <3>1, <3>2
  <2>6. n - l = Cardinality(g)
    BY <1>7
  <2> QED
    BY <1>2, <1>4, <2>1, <2>4, <2>5, <2>6 DEF Partition
<1> QED
  BY <1>1, <1>2, <1>7, <1>8, <1>9, <1>10

\* No other block of us is on page p.
OnlyBlock(us, p, b) == \A c \in us : c.page = p => c = b

LEMMA PartitionFree ==
  ASSUME NEW p \in Pages, NEW fl, NEW n, NEW us \in SUBSET UsedBlocks,
         Partition(p, fl, n, us), NEW b \in us, b.page = p
  PROVE  /\ n + b.len \in Nat /\ n + b.len <= PageUnits
         /\ Partition(p, Merge(fl, [at |-> b.at, len |-> b.len]), n + b.len, us \ {b})
         /\ n + b.len = PageUnits => OnlyBlock(us, p, b)
<1>1. PICK x, l, m, gl :
        x = b.at /\ l = b.len /\ m = [at |-> b.at, len |-> b.len] /\ gl = Merge(fl, m)
  OBVIOUS
<1>2. PICK f \in SUBSET Frame, g \in SUBSET Frame :
        f = FreeUnits(fl) /\ gl = Merge(fl, m) /\ g = FreeUnits(gl)
  BY <1>1 DEF FreeUnits
<1>3. Chain(fl, 0, PageUnits) /\ n = Cardinality(f)
  BY <1>2 DEF Partition
<1>4. /\ x \in Nat /\ l \in Nat \ {0}
      /\ \A u \in Frame : Covers(b, u) <=> x <= u /\ u < x + l
      /\ m.at = x /\ m.len = l
  BY <1>1, UsedBlockIs
<1>5. /\ x + l <= PageUnits
      /\ \A u \in Frame : Covers(b, u) => u \notin f
  BY <1>1, <1>2 DEF Partition
<1>6. \A u \in Frame : Covers(m, u) <=> Covers(b, u)
  BY <1>1, <1>4 DEF Covers
<1>7. /\ Chain(gl, 0, PageUnits)
      /\ \A u \in Frame : u \in g <=> u \in f \/ Covers(m, u)
  <2>1. m.at \in Nat /\ m.len \in Nat \ {0} /\ m.at + m.len <= PageUnits
    BY <1>4, <1>5
  <2>2. \A u \in Frame : Covers(m, u) => u \notin FreeUnits(fl)
    BY <1>2, <1>5, <1>6
  <2> QED
    BY <1>2, <1>3, <2>1, <2>2, MergeIs
<1>8. n \in Nat /\ Cardinality(g) = n + l /\ n + l \in Nat /\ n + l <= PageUnits
  <2>1. MoreUnits(f, g, x, l)
    BY <1>4, <1>5, <1>6, <1>7 DEF MoreUnits
  <2>2. PICK k, h : k = Cardinality(g) /\ h = Cardinality(f)
    OBVIOUS
  <2>3. k \in Nat /\ h \in Nat /\ k = h + l /\ k <= PageUnits
    BY <1>4, <2>1, <2>2, UnitsAdd
  <2> QED
    BY <1>3, <1>4, <2>2, <2>3
<1>9. PICK vs : vs = us \ {b}
  OBVIOUS
<1>10. Partition(p, gl, n + l, vs)
  <2>1. ASSUME NEW c \in vs, c.page = p
        PROVE  c.at + c.len <= PageUnits /\ \A u \in Frame : Covers(c, u) => u \notin g
    <3>1. c \in us /\ c # b
      BY <1>9
    <3>2. c.at + c.len <= PageUnits /\ \A u \in Frame : Covers(c, u) => u \notin f
      BY <1>2, <2>1, <3>1 DEF Partition
    <3>3. \A u \in Frame : Covers(c, u) => ~Covers(b, u)
      BY <2>1, <3>1 DEF Partition
    <3> QED
      BY <1>6, <1>7, <3>2, <3>3
  <2>2. ASSUME NEW c \in vs, NEW d \in vs, c.page = p, d.page = p, NEW u \in Frame,
               Covers(c, u), Covers(d, u)
        PROVE  c = d
    <3>1. c \in us /\ d \in us
      BY <1>9
    <3> QED
      BY <2>2, <3>1 DEF Partition
  <2>3. ASSUME NEW u \in Frame, u \notin g PROVE \E c \in vs : c.page = p /\ Covers(c, u)
    <3>1. u \notin f /\ ~Covers(b, u)
      BY <1>6, <1>7, <2>3
    <3>2. \E c \in us : c.page = p /\ Covers(c, u)
      BY <1>2, <3>1 DEF Partition
    <3> QED
      BY <1>9, <3>1, <3>2
  <2>4. n + l = Cardinality(g)
    BY <1>8
  <2> QED
    BY <1>2, <1>7, <2>1, <2>2, <2>3, <2>4 DEF Partition
<1>11. ASSUME n + l = PageUnits, NEW c \in us, c.page = p, c # b PROVE FALSE
  <2>1. g = Frame
    BY <1>8, <1>11, FrameIs, FS_Subset
  <2>2. c \in vs /\ Covers(c, c.at) /\ c.at \in Frame
    BY <1>9, <1>11, UsedBlockIs
  <2>3. c.at \notin g
    BY <1>2, <1>10, <1>11, <2>2 DEF Partition
  <2> QED
    BY <2>1, <2>2, <2>3
<1> QED
  BY <1>1, <1>2, <1>8, <1>9, <1>10, <1>11 DEF OnlyBlock

\* Only the blocks of the page matter.
LEMMA PartitionSame ==
  ASSUME NEW p, NEW fl, NEW n, NEW us, NEW vs, Partition(p, fl, n, us),
         \A b \in us : b.page = p => b \in vs, \A b \in vs : b.page = p => b \in us
  PROVE  Partition(p, fl, n, vs)
<1>1. ASSUME NEW c \in vs, c.page = p
      PROVE  c.at + c.len <= PageUnits /\ \A u \in Frame : Covers(c, u) => u \notin FreeUnits(fl)
  <2>1. c \in us
    BY <1>1
  <2> QED
    BY <1>1, <2>1 DEF Partition
<1>2. ASSUME NEW c \in vs, NEW d \in vs, c.page = p, d.page = p, NEW u \in Frame,
             Covers(c, u), Covers(d, u)
      PROVE  c = d
  <2>1. c \in us /\ d \in us
    BY <1>2
  <2> QED
    BY <1>2, <2>1 DEF Partition
<1>3. ASSUME NEW u \in Frame, u \notin FreeUnits(fl) PROVE \E c \in vs : c.page = p /\ Covers(c, u)
  <2>1. \E c \in us : c.page = p /\ Covers(c, u)
    BY <1>3 DEF Partition
  <2> QED
    BY <2>1
<1>4. Chain(fl, 0, PageUnits) /\ n = Cardinality(FreeUnits(fl))
  BY DEF Partition
<1> QED
  BY <1>1, <1>2, <1>3, <1>4 DEF Partition

\* A page that no block is on is one free block.
LEMMA PartitionNew ==
  ASSUME NEW p \in Pages, NEW us, \A b \in us : b.page # p
  PROVE  Partition(p, EmptyPage, PageUnits, us)
<1>1. PageUnits \in Nat \ {0}
  BY CallerLimits
<1>2. Chain(EmptyPage, 0, PageUnits) /\ \A u \in Frame : u \in FreeUnits(EmptyPage)
  <2>1. 0 \in Nat /\ 0 + PageUnits = PageUnits /\ \A u \in Frame : 0 <= u /\ u < 0 + PageUnits
    BY <1>1 DEF Frame
  <2>2. PICK s : s = EmptyPage
    OBVIOUS
  <2>3. /\ Chain(s, 0, 0 + PageUnits)
        /\ \A u \in Frame : u \in FreeUnits(s) <=> 0 <= u /\ u < 0 + PageUnits
    BY <1>1, <2>1, <2>2, OneBlock DEF EmptyPage
  <2> QED
    BY <2>1, <2>2, <2>3
<1>3. FreeUnits(EmptyPage) = Frame
  BY <1>2 DEF FreeUnits
<1> QED
  BY <1>2, <1>3, FrameIs DEF Partition

-----------------------------------------------------------------------------
(* The lists of pages.                                                     *)

\* No page is on list q twice.
Once(q) == \A i, j \in DOMAIN q : q[i] = q[j] => i = j

IsOn(q, p) == \E i \in DOMAIN q : q[i] = p

\* list_del on one list.
LEMMA RemoveIs ==
  ASSUME NEW q \in Seq(Pages), Once(q), NEW p, NEW w, NEW k \in DOMAIN q, q[k] = p,
         w = RemoveAt(q, k)
  PROVE  /\ w \in Seq(Pages) /\ Once(w)
         /\ \A x : IsOn(w, x) <=> IsOn(q, x) /\ x # p
<1>1. PICK n : n = Len(q)
  OBVIOUS
<1>2. n \in Nat /\ DOMAIN q = 1..n /\ k \in 1..n /\ \A i \in 1..n : q[i] \in Pages
  BY <1>1
<1>3. PICK a, b : a = SubSeq(q, 1, k - 1) /\ b = SubSeq(q, k + 1, n)
  OBVIOUS
<1>4. a \in Seq(Pages) /\ Len(a) = k - 1 /\ \A i \in 1..(k - 1) : a[i] = q[i]
  <2>1. 1 \in Int /\ k - 1 \in Int /\ \A i \in 1..(k - 1) : q[i] \in Pages
    BY <1>2
  <2>2. /\ SubSeq(q, 1, k - 1) \in Seq(Pages)
        /\ Len(SubSeq(q, 1, k - 1)) = IF 1 <= k - 1 THEN k - 1 - 1 + 1 ELSE 0
        /\ \A i \in 1..(k - 1 - 1 + 1) : SubSeq(q, 1, k - 1)[i] = q[1 + i - 1]
    BY <2>1, SubSeqProperties
  <2> QED
    BY <1>2, <1>3, <2>2
<1>5. b \in Seq(Pages) /\ Len(b) = n - k /\ \A i \in 1..(n - k) : b[i] = q[k + i]
  <2>1. k + 1 \in Int /\ n \in Int /\ \A i \in (k + 1)..n : q[i] \in Pages
    BY <1>2
  <2>2. /\ SubSeq(q, k + 1, n) \in Seq(Pages)
        /\ Len(SubSeq(q, k + 1, n)) = IF k + 1 <= n THEN n - (k + 1) + 1 ELSE 0
        /\ \A i \in 1..(n - (k + 1) + 1) : SubSeq(q, k + 1, n)[i] = q[k + 1 + i - 1]
    BY <2>1, SubSeqProperties
  <2> QED
    BY <1>2, <1>3, <2>2
<1>6. /\ w \in Seq(Pages) /\ Len(w) = n - 1
      /\ \A i \in 1..(n - 1) : w[i] = IF i < k THEN q[i] ELSE q[i + 1]
  <2>1. w = a \o b
    BY <1>1, <1>3 DEF RemoveAt
  <2>2. /\ w \in Seq(Pages) /\ Len(w) = (k - 1) + (n - k)
        /\ \A i \in 1..((k - 1) + (n - k)) :
             w[i] = IF i <= k - 1 THEN a[i] ELSE b[i - (k - 1)]
    BY <1>4, <1>5, <2>1, ConcatProperties
  <2>3. (k - 1) + (n - k) = n - 1
    BY <1>2
  <2>4. ASSUME NEW i \in 1..(n - 1) PROVE w[i] = IF i < k THEN q[i] ELSE q[i + 1]
    <3>1. w[i] = IF i <= k - 1 THEN a[i] ELSE b[i - (k - 1)]
      BY <2>2, <2>3
    <3>2. CASE i < k
      BY <1>2, <1>4, <3>1, <3>2
    <3>3. CASE ~(i < k)
      <4>1. i - (k - 1) \in 1..(n - k) /\ k + (i - (k - 1)) = i + 1 /\ ~(i <= k - 1)
        BY <1>2, <3>3
      <4> QED
        BY <1>5, <3>1, <3>3, <4>1
    <3> QED
      BY <3>2, <3>3
  <2> QED
    BY <2>2, <2>3, <2>4
<1>7. DOMAIN w = 1..(n - 1)
  BY <1>2, <1>6
<1>8. ASSUME NEW i \in 1..n, NEW j \in 1..n, q[i] = q[j] PROVE i = j
  BY <1>2, <1>8 DEF Once
<1>9. ASSUME NEW i \in 1..(n - 1), NEW j \in 1..(n - 1), w[i] = w[j] PROVE i = j
  <2>1. PICK e \in 1..n : w[i] = q[e] /\ e = IF i < k THEN i ELSE i + 1
    BY <1>2, <1>6
  <2>2. PICK f \in 1..n : w[j] = q[f] /\ f = IF j < k THEN j ELSE j + 1
    BY <1>2, <1>6
  <2>3. e = f
    BY <1>8, <1>9, <2>1, <2>2
  <2> QED
    BY <1>2, <2>1, <2>2, <2>3
<1>10. ASSUME NEW i \in 1..(n - 1) PROVE w[i] # p /\ IsOn(q, w[i])
  <2>1. PICK e \in 1..n : w[i] = q[e] /\ e = IF i < k THEN i ELSE i + 1
    BY <1>2, <1>6
  <2>2. e # k
    BY <1>2, <2>1
  <2> QED
    BY <1>2, <1>8, <2>1, <2>2 DEF IsOn
<1>11. ASSUME NEW e \in 1..n, q[e] # p PROVE IsOn(w, q[e])
  <2>1. PICK i \in 1..(n - 1) : e = IF i < k THEN i ELSE i + 1
    <3>1. e # k
      BY <1>11
    <3>2. CASE e < k
      BY <1>2, <3>2
    <3>3. CASE e > k
      <4>1. e - 1 \in 1..(n - 1) /\ ~(e - 1 < k) /\ e - 1 + 1 = e
        BY <1>2, <3>3
      <4> QED
        BY <4>1
    <3> QED
      BY <1>2, <3>1, <3>2, <3>3
  <2>2. w[i] = q[e]
    BY <1>6, <2>1
  <2> QED
    BY <1>7, <2>2 DEF IsOn
<1>12. Once(w)
  BY <1>7, <1>9 DEF Once
<1>13. ASSUME NEW x, IsOn(w, x) PROVE IsOn(q, x) /\ x # p
  <2>1. PICK i \in 1..(n - 1) : w[i] = x
    BY <1>7, <1>13 DEF IsOn
  <2> QED
    BY <1>10, <2>1
<1>14. ASSUME NEW x, IsOn(q, x), x # p PROVE IsOn(w, x)
  <2>1. PICK e \in 1..n : q[e] = x
    BY <1>2, <1>14 DEF IsOn
  <2> QED
    BY <1>11, <1>14, <2>1
<1> QED
  BY <1>6, <1>12, <1>13, <1>14

\* list_add on one list.
LEMMA HeadIs ==
  ASSUME NEW q \in Seq(Pages), Once(q), NEW p \in Pages, ~IsOn(q, p), NEW w, w = <<p>> \o q
  PROVE  /\ w \in Seq(Pages) /\ Once(w)
         /\ \A x : IsOn(w, x) <=> IsOn(q, x) \/ x = p
<1>1. PICK n : n = Len(q)
  OBVIOUS
<1>2. n \in Nat /\ DOMAIN q = 1..n
  BY <1>1
<1>3. PICK a : a = <<p>>
  OBVIOUS
<1>4. a \in Seq(Pages) /\ Len(a) = 1 /\ a[1] = p
  BY <1>3
<1>5. /\ w \in Seq(Pages) /\ Len(w) = 1 + n
      /\ \A i \in 1..(1 + n) : w[i] = IF i <= 1 THEN a[i] ELSE q[i - 1]
  BY <1>1, <1>3, <1>4, ConcatProperties
<1>6. DOMAIN w = 1..(1 + n) /\ 1 \in 1..(1 + n) /\ w[1] = p
  BY <1>2, <1>4, <1>5
<1>7. \A i \in 1..n : i + 1 \in 1..(1 + n) /\ w[i + 1] = q[i]
  BY <1>2, <1>5
<1>8. \A i \in 1..(1 + n) : i = 1 \/ (i - 1 \in 1..n /\ w[i] = q[i - 1])
  BY <1>2, <1>5
<1>9. ASSUME NEW i \in 1..(1 + n), NEW j \in 1..(1 + n), w[i] = w[j] PROVE i = j
  <2>1. CASE i = 1 \/ j = 1
    BY <1>2, <1>6, <1>8, <1>9, <2>1 DEF IsOn
  <2>2. CASE i # 1 /\ j # 1
    <3>1. i - 1 \in 1..n /\ j - 1 \in 1..n /\ q[i - 1] = q[j - 1]
      BY <1>8, <1>9, <2>2
    <3>2. i - 1 = j - 1
      BY <1>2, <3>1 DEF Once
    <3> QED
      BY <1>2, <3>2
  <2> QED
    BY <2>1, <2>2
<1>10. ASSUME NEW x PROVE IsOn(w, x) <=> IsOn(q, x) \/ x = p
  <2>1. ASSUME NEW i \in 1..(1 + n), w[i] = x PROVE IsOn(q, x) \/ x = p
    BY <1>2, <1>6, <1>8, <2>1 DEF IsOn
  <2>2. ASSUME NEW i \in 1..n, q[i] = x PROVE IsOn(w, x)
    BY <1>6, <1>7, <2>2 DEF IsOn
  <2>3. IsOn(w, p)
    BY <1>6 DEF IsOn
  <2> QED
    BY <1>2, <1>6, <2>1, <2>2, <2>3 DEF IsOn
<1> QED
  BY <1>5, <1>6, <1>9, <1>10 DEF Once

\* The lists, one at a time.
LEMMA OnListsIs ==
  ASSUME NEW ls, NEW s
  PROVE  OnLists(ls, s) <=>
           /\ ls \in [Classes -> Seq(Pages)]
           /\ \A c \in Classes : Once(ls[c])
           /\ \A c, d \in Classes : \A x : IsOn(ls[c], x) /\ IsOn(ls[d], x) => c = d
           /\ \A p \in Pages : p \in s <=> \E c \in Classes : IsOn(ls[c], p)
<1>1. ASSUME OnLists(ls, s)
      PROVE  /\ ls \in [Classes -> Seq(Pages)]
             /\ \A c \in Classes : Once(ls[c])
             /\ \A c, d \in Classes : \A x : IsOn(ls[c], x) /\ IsOn(ls[d], x) => c = d
             /\ \A p \in Pages : p \in s <=> \E c \in Classes : IsOn(ls[c], p)
  BY <1>1 DEF OnLists, Once, IsOn
<1>2. ASSUME ls \in [Classes -> Seq(Pages)],
             \A c \in Classes : Once(ls[c]),
             \A c, d \in Classes : \A x : IsOn(ls[c], x) /\ IsOn(ls[d], x) => c = d,
             \A p \in Pages : p \in s <=> \E c \in Classes : IsOn(ls[c], p)
      PROVE  OnLists(ls, s)
  <2>1. ASSUME NEW c \in Classes, NEW d \in Classes, NEW i \in DOMAIN ls[c], NEW j \in DOMAIN ls[d],
               ls[c][i] = ls[d][j]
        PROVE  c = d /\ i = j
    <3>1. IsOn(ls[c], ls[c][i]) /\ IsOn(ls[d], ls[c][i])
      BY <2>1 DEF IsOn
    <3>2. c = d
      BY <1>2, <3>1
    <3> QED
      BY <1>2, <2>1, <3>2 DEF Once
  <2> QED
    BY <1>2, <2>1 DEF OnLists, IsOn
<1> QED
  BY <1>1, <1>2

LEMMA WithoutPageIs ==
  ASSUME NEW ls, NEW s, OnLists(ls, s), NEW p
  PROVE  OnLists(WithoutPage(ls, p), s \ {p})
<1>1. PICK v : v = WithoutPage(ls, p)
  OBVIOUS
<1>2. /\ ls \in [Classes -> Seq(Pages)]
      /\ \A c \in Classes : Once(ls[c])
      /\ \A c, d \in Classes : \A x : IsOn(ls[c], x) /\ IsOn(ls[d], x) => c = d
      /\ \A x \in Pages : x \in s <=> \E c \in Classes : IsOn(ls[c], x)
  BY OnListsIs
<1>3. ASSUME NEW c \in Classes
      PROVE  /\ v[c] \in Seq(Pages) /\ Once(v[c])
             /\ \A x : IsOn(v[c], x) <=> IsOn(ls[c], x) /\ x # p
  <2>1. PICK q \in Seq(Pages) : q = ls[c] /\ Once(q)
    BY <1>2
  <2>2. v[c] = IF \E i \in DOMAIN q : q[i] = p
                 THEN RemoveAt(q, CHOOSE i \in DOMAIN q : q[i] = p) ELSE q
    BY <1>1, <2>1 DEF WithoutPage
  <2>3. CASE \E i \in DOMAIN q : q[i] = p
    <3>1. PICK k : k = CHOOSE i \in DOMAIN q : q[i] = p
      OBVIOUS
    <3>2. k \in DOMAIN q /\ q[k] = p
      BY <2>3, <3>1
    <3>3. v[c] = RemoveAt(q, k)
      BY <2>2, <2>3, <3>1
    <3> QED
      BY <2>1, <3>2, <3>3, RemoveIs
  <2>4. CASE ~(\E i \in DOMAIN q : q[i] = p)
    <3>1. v[c] = q
      BY <2>2, <2>4
    <3>2. ~IsOn(q, p)
      BY <2>4 DEF IsOn
    <3> QED
      BY <2>1, <3>1, <3>2
  <2> QED
    BY <2>3, <2>4
<1>4. v \in [Classes -> Seq(Pages)]
  <2>1. v = [c \in Classes |-> v[c]]
    BY <1>1 DEF WithoutPage
  <2> QED
    BY <1>3, <2>1
<1>5. ASSUME NEW c \in Classes, NEW d \in Classes, NEW x, IsOn(v[c], x), IsOn(v[d], x) PROVE c = d
  BY <1>2, <1>3, <1>5
<1>6. ASSUME NEW x \in Pages PROVE x \in s \ {p} <=> \E c \in Classes : IsOn(v[c], x)
  BY <1>2, <1>3
<1>7. OnLists(v, s \ {p})
  BY <1>3, <1>4, <1>5, <1>6, OnListsIs
<1> QED
  BY <1>1, <1>7

LEMMA AtHeadIs ==
  ASSUME NEW ls, NEW s, OnLists(ls, s), NEW p \in Pages, p \notin s, NEW c \in Classes
  PROVE  OnLists([ls EXCEPT ![c] = <<p>> \o @], s \cup {p})
<1>1. PICK v : v = [ls EXCEPT ![c] = <<p>> \o @]
  OBVIOUS
<1>2. /\ ls \in [Classes -> Seq(Pages)]
      /\ \A d \in Classes : Once(ls[d])
      /\ \A d, e \in Classes : \A x : IsOn(ls[d], x) /\ IsOn(ls[e], x) => d = e
      /\ \A x \in Pages : x \in s <=> \E d \in Classes : IsOn(ls[d], x)
  BY OnListsIs
<1>3. /\ v[c] \in Seq(Pages) /\ Once(v[c])
      /\ \A x : IsOn(v[c], x) <=> IsOn(ls[c], x) \/ x = p
  <2>1. PICK q \in Seq(Pages) : q = ls[c] /\ Once(q) /\ ~IsOn(q, p)
    BY <1>2
  <2>2. v[c] = <<p>> \o q
    BY <1>1, <1>2, <2>1
  <2> QED
    BY <2>1, <2>2, HeadIs
<1>4. \A d \in Classes \ {c} : v[d] = ls[d]
  BY <1>1, <1>2
<1>5. v \in [Classes -> Seq(Pages)]
  <2>1. v = [d \in Classes |-> v[d]]
    BY <1>1, <1>2
  <2> QED
    BY <1>2, <1>3, <1>4, <2>1
<1>6. \A d \in Classes : Once(v[d])
  BY <1>2, <1>3, <1>4
<1>7. ASSUME NEW d \in Classes, NEW e \in Classes, NEW x, IsOn(v[d], x), IsOn(v[e], x) PROVE d = e
  BY <1>2, <1>3, <1>4, <1>7
<1>8. ASSUME NEW x \in Pages PROVE x \in s \cup {p} <=> \E d \in Classes : IsOn(v[d], x)
  BY <1>2, <1>3, <1>4
<1>9. OnLists(v, s \cup {p})
  BY <1>5, <1>6, <1>7, <1>8, OnListsIs
<1> QED
  BY <1>1, <1>9

-----------------------------------------------------------------------------
(* A new page.                                                             *)

\* Remainders of numbers below twice the divisor.
LEMMA SmallRemainder ==
  ASSUME NEW x \in Nat, NEW a \in Nat \ {0}, x < a + a
  PROVE  x % a = IF x < a THEN x ELSE x - a
<1>1. PICK q, d : q = x \div a /\ d = x % a
  OBVIOUS
<1>2. q \in Int /\ d \in 0..(a - 1)
  BY <1>1, RemainderIs
<1>3. x = a * q + d
  BY <1>1
<1>4. CASE q < 0
  <2>1. PICK m \in Nat : q = 0 - 1 - m
    <3>1. 0 - 1 - q \in Nat /\ q = 0 - 1 - (0 - 1 - q)
      BY <1>2, <1>4
    <3> QED
      BY <3>1
  <2>2. a * m \in Nat
    BY <2>1
  <2>3. a * q = 0 - a - a * m
    BY <2>1
  <2> QED
    BY <1>2, <1>3, <2>2, <2>3
<1>5. CASE q = 0
  <2>1. a * q = 0
    BY <1>5
  <2> QED
    BY <1>1, <1>2, <1>3, <2>1
<1>6. CASE q = 1
  <2>1. a * q = a
    BY <1>6
  <2> QED
    BY <1>1, <1>2, <1>3, <2>1
<1>7. CASE q >= 2
  <2>1. PICK m \in Nat : q = 2 + m
    <3>1. q - 2 \in Nat /\ q = 2 + (q - 2)
      BY <1>2, <1>7
    <3> QED
      BY <3>1
  <2>2. a * m \in Nat
    BY <2>1
  <2>3. a * q = a + a + a * m
    BY <2>1
  <2> QED
    BY <1>2, <1>3, <2>2, <2>3
<1> QED
  BY <1>2, <1>4, <1>5, <1>6, <1>7

\* What alignment cuts off the head of an empty page leaves room for the request.
LEMMA NeedAtZero ==
  ASSUME NEW r \in Requests
  PROVE  r.size + Delta(0, r) <= PageUnits
<1>0. PageUnits \in Nat /\ MinAlign \in Nat \ {0}
  BY CallerLimits
<1>1. CASE r.align = 0
  <2>1. Delta(0, r) = 0
    BY <1>1 DEF Delta
  <2> QED
    BY <1>0, <2>1, RequestIs
<1>2. CASE r.align # 0 /\ r \in {CacheRequest(c) : c \in Caches}
  <2>1. PICK a : a = r.align
    OBVIOUS
  <2>2. r.offset = 0 /\ a \in Nat \ {0}
    BY <1>2, <2>1, RequestIs DEF CacheRequest
  <2>3. 0 % a = 0 /\ a % a = 0
    <3>1. 0 \in Nat /\ a \in Nat /\ 0 < a + a /\ 0 < a /\ a < a + a /\ ~(a < a) /\ a - a = 0
      BY <2>2
    <3>2. 0 % a = 0
      BY <2>2, <3>1, SmallRemainder
    <3>3. a % a = 0
      BY <2>2, <3>1, SmallRemainder
    <3> QED
      BY <3>2, <3>3
  <2>4. Delta(0, r) = (a - ((0 + 0) % a)) % a
    BY <1>2, <2>1, <2>2 DEF Delta
  <2>5. 0 + 0 = 0 /\ a - 0 = a
    BY <2>2
  <2>6. Delta(0, r) = 0
    BY <2>3, <2>4, <2>5
  <2> QED
    BY <1>0, <2>6, RequestIs
<1>3. CASE r.align # 0 /\ r \in {KmallocRequest(n) : n \in KmallocSizes}
  <2>2. PICK n \in KmallocSizes : r = KmallocRequest(n)
    BY <1>3
  <2>3. n \in Nat \ {0} /\ n + MinAlign < PageUnits
    <3>1. n \in 1..(PageUnits - MinAlign - 1)
      BY CallerLimits
    <3> QED
      BY <1>0, <3>1
  <2>4. PICK a, m, d : a = r.align /\ m = MinAlign /\ d = Delta(0, r)
    OBVIOUS
  <2>5. /\ r.size = n + m /\ r.offset = m
        /\ a = IF n \in PowersOfTwo /\ n > m THEN n ELSE m
    BY <2>2, <2>4 DEF KmallocRequest
  <2>6. m \in Nat \ {0} /\ a \in Nat \ {0} /\ n \in Nat \ {0}
    BY <1>0, <2>3, <2>4, <2>5
  <2>7. d = (a - (m % a)) % a
    <3>1. d = (a - ((0 + m) % a)) % a
      BY <1>3, <2>4, <2>5 DEF Delta
    <3>2. 0 + m = m
      BY <2>6
    <3> QED
      BY <3>1, <3>2
  <2>8. CASE n \in PowersOfTwo /\ n > m
    <3>1. a = n /\ m < n
      BY <2>5, <2>6, <2>8
    <3>2. m % n = m
      BY <2>6, <3>1, SmallRemainder
    <3>3. (n - m) % n = n - m
      <4>1. PICK k : k = n - m
        OBVIOUS
      <4>2. k \in Nat /\ k < n
        BY <2>6, <3>1, <4>1
      <4>3. k % n = k
        BY <2>6, <4>2, SmallRemainder
      <4> QED
        BY <4>1, <4>3
    <3>4. d = n - m
      BY <2>7, <3>1, <3>2, <3>3
    <3>5. PageUnits % n = 0
      BY <1>0, <2>3, <2>8, PageIsPowerOfTwo
    <3>6. n + n <= PageUnits
      <4>1. ASSUME PageUnits < n + n PROVE FALSE
        <5>1. n < PageUnits
          BY <1>0, <2>3
        <5>2. PICK s \in Nat : s = PageUnits
          BY <1>0
        <5>3. s < n + n /\ ~(s < n)
          BY <2>6, <4>1, <5>1, <5>2
        <5>4. s % n = s - n
          BY <2>6, <5>3, SmallRemainder
        <5> QED
          BY <2>6, <3>5, <5>1, <5>2, <5>4
      <4> QED
        BY <1>0, <2>6, <4>1
    <3>7. r.size + d = n + n
      BY <2>5, <2>6, <3>4
    <3> QED
      BY <2>4, <3>6, <3>7
  <2>9. CASE ~(n \in PowersOfTwo /\ n > m)
    <3>1. a = m
      BY <2>5, <2>9
    <3>2. m % m = 0
      <4>1. m < m + m /\ ~(m < m) /\ m - m = 0
        BY <2>6
      <4> QED
        BY <2>6, <4>1, SmallRemainder
    <3>3. m - 0 = m
      BY <2>6
    <3>4. d = 0
      BY <2>7, <3>1, <3>2, <3>3
    <3> QED
      BY <1>0, <2>3, <2>4, <2>5, <3>4
  <2> QED
    BY <2>8, <2>9
<1> QED
  BY <1>1, <1>2, <1>3 DEF Requests

LEMMA NewPageFits ==
  ASSUME NEW r \in Requests, NEW p \in Pages
  PROVE  ~FailsOn(p, EmptyPage, r)
<1>1. PICK fl, b : fl = EmptyPage /\ b = [at |-> 0, len |-> PageUnits]
  OBVIOUS
<1>2. b \in Blocks
  BY <1>1, CallerLimits DEF Blocks
<1>3. fl = <<b>>
  BY <1>1 DEF EmptyPage
<1>4. fl \in Seq(Blocks) /\ 1 \in 1..Len(fl) /\ fl[1] = b
  BY <1>2, <1>3
<1>5. Need(fl[1], r) = r.size + Delta(0, r)
  BY <1>1, <1>4 DEF Need
<1>6. Room(fl, 1, r)
  BY <1>1, <1>4, <1>5, NeedAtZero DEF Room
<1>7. PICK i : i = SearchPage(NoFit, p, fl, r).index
  OBVIOUS
<1>8. /\ FailsOn(p, fl, r) <=> i = 0
      /\ i = 0 => \A j \in 1..Len(fl) : ~Room(fl, j, r)
  BY <1>4, <1>7, SearchOnePage
<1> QED
  BY <1>1, <1>4, <1>6, <1>8

-----------------------------------------------------------------------------
(* Calls, and the pages in use while they are on their way.                *)

LEMMA CallIs ==
  ASSUME NEW c \in Calls
  PROVE  /\ c.pc \in {"idle", "newpage", "insert", "count", "release"}
         /\ c.pc = "idle" <=> c = Idle
         /\ c.pc \in {"newpage", "insert", "count"} => c.req \in Requests
         /\ Carries(c) => c.page \in Pages
         /\ c.pc = "count" => c.block \in UsedBlocks
BY DEF Calls, Idle, Carries

LEMMA CallsMade ==
  ASSUME NEW r \in Requests, NEW p \in Pages, NEW b \in UsedBlocks
  PROVE  /\ Idle \in Calls /\ ~Carries(Idle)
         /\ [pc |-> "newpage", req |-> r] \in Calls /\ ~Carries([pc |-> "newpage", req |-> r])
         /\ [pc |-> "insert", req |-> r, page |-> p] \in Calls
         /\ Carries([pc |-> "insert", req |-> r, page |-> p])
         /\ [pc |-> "count", req |-> r, block |-> b] \in Calls
         /\ ~Carries([pc |-> "count", req |-> r, block |-> b])
         /\ [pc |-> "release", page |-> p] \in Calls /\ Carries([pc |-> "release", page |-> p])
BY DEF Calls, Idle, Carries

\* The frames of hd that no call has on its way.
Live(cl, hd) == {p \in hd : \A t \in Tasks : Carries(cl[t]) => cl[t].page # p}

LEMMA InUseIs == InUse = Live(call, held)
BY DEF InUse, Live, Carries

LEMMA InUseNext == InUse' = Live(call', held')
BY DEF InUse, Live, Carries

\* The calls are sound and leave the pages of s in use.
LeavesInUse(cl, hd, s) == CallsSound(cl, hd) /\ Live(cl, hd) = s

LEMMA NoPageMoves ==
  ASSUME NEW cl, NEW hd, CallsSound(cl, hd), NEW t \in Tasks, NEW c \in Calls,
         ~Carries(cl[t]), ~Carries(c), NEW dl, dl = [cl EXCEPT ![t] = c]
  PROVE  CallsSound(dl, hd) /\ Live(dl, hd) = Live(cl, hd)
<1>1. dl \in [Tasks -> Calls] /\ dl[t] = c /\ \A u \in Tasks \ {t} : dl[u] = cl[u]
  BY DEF CallsSound
<1>2. \A u \in Tasks : Carries(dl[u]) => Carries(cl[u]) /\ dl[u] = cl[u]
  BY <1>1
<1>3. \A u \in Tasks : Carries(cl[u]) => Carries(dl[u]) /\ dl[u] = cl[u]
  BY <1>1
<1>4. CallsSound(dl, hd)
  BY <1>1, <1>2 DEF CallsSound
<1> QED
  BY <1>2, <1>3, <1>4 DEF Live

LEMMA PageComes ==
  ASSUME NEW cl, NEW hd, CallsSound(cl, hd), NEW t \in Tasks, NEW c \in Calls,
         ~Carries(cl[t]), Carries(c), c.page \in Pages \ hd,
         NEW dl, dl = [cl EXCEPT ![t] = c]
  PROVE  LeavesInUse(dl, hd \cup {c.page}, Live(cl, hd))
<1>1. dl \in [Tasks -> Calls] /\ dl[t] = c /\ \A u \in Tasks \ {t} : dl[u] = cl[u]
  BY DEF CallsSound
<1>2. \A u \in Tasks \ {t} : Carries(dl[u]) <=> Carries(cl[u])
  BY <1>1
<1>3. \A u \in Tasks : Carries(cl[u]) => cl[u].page \in hd /\ u # t
  BY DEF CallsSound
<1>4. CallsSound(dl, hd \cup {c.page})
  <2>1. \A u \in Tasks : Carries(dl[u]) => dl[u].page \in hd \cup {c.page}
    BY <1>1, <1>2, <1>3
  <2>2. ASSUME NEW u \in Tasks, NEW w \in Tasks, Carries(dl[u]), Carries(dl[w]),
               dl[u].page = dl[w].page
        PROVE  u = w
    <3>1. u = t <=> w = t
      BY <1>1, <1>2, <1>3, <2>2
    <3>2. CASE u # t /\ w # t
      BY <1>1, <1>2, <2>2, <3>2 DEF CallsSound
    <3> QED
      BY <3>1, <3>2
  <2>3. hd \cup {c.page} \in SUBSET Pages
    BY DEF CallsSound
  <2> QED
    BY <1>1, <2>1, <2>2, <2>3 DEF CallsSound
<1>5. ASSUME NEW p PROVE p \in Live(dl, hd \cup {c.page}) <=> p \in Live(cl, hd)
  BY <1>1, <1>2, <1>3 DEF Live
<1> QED
  BY <1>4, <1>5 DEF LeavesInUse

LEMMA PageArrives ==
  ASSUME NEW cl, NEW hd, CallsSound(cl, hd), NEW t \in Tasks, NEW c \in Calls,
         Carries(cl[t]), ~Carries(c), NEW p, p = cl[t].page,
         NEW dl, dl = [cl EXCEPT ![t] = c]
  PROVE  /\ p \in hd /\ p \in Pages /\ p \notin Live(cl, hd)
         /\ LeavesInUse(dl, hd, Live(cl, hd) \cup {p})
<1>1. dl \in [Tasks -> Calls] /\ dl[t] = c /\ \A u \in Tasks \ {t} : dl[u] = cl[u]
  BY DEF CallsSound
<1>2. p \in hd /\ p \in Pages /\ p \notin Live(cl, hd)
  BY DEF CallsSound, Live
<1>3. \A u \in Tasks : Carries(dl[u]) => u # t /\ Carries(cl[u]) /\ dl[u] = cl[u]
  BY <1>1
<1>4. \A u \in Tasks : Carries(cl[u]) => u = t \/ (Carries(dl[u]) /\ dl[u] = cl[u])
  BY <1>1
<1>5. CallsSound(dl, hd)
  BY <1>1, <1>3 DEF CallsSound
<1>6. ASSUME NEW q PROVE q \in Live(dl, hd) <=> q \in Live(cl, hd) \/ q = p
  <2>1. \A u \in Tasks : Carries(dl[u]) => dl[u].page # p
    BY <1>3 DEF CallsSound
  <2> QED
    BY <1>2, <1>3, <1>4, <2>1 DEF Live
<1> QED
  BY <1>2, <1>5, <1>6 DEF LeavesInUse

LEMMA PageLeaves ==
  ASSUME NEW cl, NEW hd, CallsSound(cl, hd), NEW t \in Tasks, NEW c \in Calls,
         ~Carries(cl[t]), Carries(c), NEW p, p = c.page, p \in Live(cl, hd),
         NEW dl, dl = [cl EXCEPT ![t] = c]
  PROVE  LeavesInUse(dl, hd, Live(cl, hd) \ {p})
<1>1. dl \in [Tasks -> Calls] /\ dl[t] = c /\ \A u \in Tasks \ {t} : dl[u] = cl[u]
  BY DEF CallsSound
<1>2. p \in hd /\ \A u \in Tasks : Carries(cl[u]) => cl[u].page # p /\ u # t
  BY DEF Live
<1>3. \A u \in Tasks : Carries(dl[u]) => u = t \/ (Carries(cl[u]) /\ dl[u] = cl[u])
  BY <1>1
<1>4. \A u \in Tasks : Carries(cl[u]) => Carries(dl[u]) /\ dl[u] = cl[u]
  BY <1>1, <1>2
<1>5. CallsSound(dl, hd)
  <2>1. \A u \in Tasks : Carries(dl[u]) => dl[u].page \in hd
    BY <1>1, <1>2, <1>3 DEF CallsSound
  <2>2. ASSUME NEW u \in Tasks, NEW w \in Tasks, Carries(dl[u]), Carries(dl[w]),
               dl[u].page = dl[w].page
        PROVE  u = w
    <3>1. u = t <=> w = t
      BY <1>1, <1>2, <1>3, <2>2
    <3>2. CASE u # t /\ w # t
      BY <1>3, <2>2, <3>2 DEF CallsSound
    <3> QED
      BY <3>1, <3>2
  <2> QED
    BY <1>1, <2>1, <2>2 DEF CallsSound
<1>6. ASSUME NEW q PROVE q \in Live(dl, hd) <=> q \in Live(cl, hd) /\ q # p
  BY <1>1, <1>3, <1>4 DEF Live
<1> QED
  BY <1>5, <1>6 DEF LeavesInUse

LEMMA PageGoes ==
  ASSUME NEW cl, NEW hd, CallsSound(cl, hd), NEW t \in Tasks, NEW c \in Calls,
         Carries(cl[t]), ~Carries(c), NEW p, p = cl[t].page,
         NEW dl, dl = [cl EXCEPT ![t] = c]
  PROVE  /\ p \in hd
         /\ LeavesInUse(dl, hd \ {p}, Live(cl, hd))
<1>1. dl \in [Tasks -> Calls] /\ dl[t] = c /\ \A u \in Tasks \ {t} : dl[u] = cl[u]
  BY DEF CallsSound
<1>2. p \in hd /\ p \in Pages /\ p \notin Live(cl, hd)
  BY DEF CallsSound, Live
<1>3. \A u \in Tasks : Carries(dl[u]) => u # t /\ Carries(cl[u]) /\ dl[u] = cl[u]
  BY <1>1
<1>4. \A u \in Tasks : Carries(cl[u]) => u = t \/ (Carries(dl[u]) /\ dl[u] = cl[u])
  BY <1>1
<1>5. \A u \in Tasks : Carries(dl[u]) => dl[u].page # p
  BY <1>3 DEF CallsSound
<1>6. CallsSound(dl, hd \ {p})
  <2>1. \A u \in Tasks : Carries(dl[u]) => dl[u].page \in hd \ {p}
    BY <1>3, <1>5 DEF CallsSound
  <2>2. \A u, w \in Tasks : Carries(dl[u]) /\ Carries(dl[w]) /\ dl[u].page = dl[w].page => u = w
    BY <1>3 DEF CallsSound
  <2>3. hd \ {p} \in SUBSET Pages
    BY DEF CallsSound
  <2> QED
    BY <1>1, <2>1, <2>2, <2>3 DEF CallsSound
<1>7. ASSUME NEW q PROVE q \in Live(dl, hd \ {p}) <=> q \in Live(cl, hd)
  BY <1>2, <1>3, <1>4 DEF Live
<1> QED
  BY <1>2, <1>6, <1>7 DEF LeavesInUse

-----------------------------------------------------------------------------
(* What a step does to the pages in use.                                   *)

\* A block is taken from page p, whose freelist and units are fl and n.
LEMMA AllocKeepsPages ==
  ASSUME NEW fr, NEW un, NEW us, NEW s \in SUBSET Pages, PagesSound(fr, un, us, s),
         NEW p \in Pages, NEW fl, NEW n, Partition(p, fl, n, us),
         NEW r \in Requests, NEW i \in 1..Len(fl), Room(fl, i, r),
         NEW b, b = BlockAt(p, fl, i, r)
  PROVE  /\ b \in UsedBlocks
         /\ n - r.size \in 0..(PageUnits - 1)
         /\ PagesSound([fr EXCEPT ![p] = Carve(fl, i, r)], [un EXCEPT ![p] = n - r.size],
                       us \cup {b}, s \cup {p})
<1>1. PICK gl, m, vs : gl = Carve(fl, i, r) /\ m = n - r.size /\ vs = us \cup {b}
  OBVIOUS
<1>2. us \in SUBSET UsedBlocks
  BY DEF PagesSound
<1>3. b \in UsedBlocks /\ b.page = p /\ m \in 0..(PageUnits - 1) /\ Partition(p, gl, m, vs)
  BY <1>1, <1>2, PartitionAlloc
<1>4. PICK gr, vn : gr = [fr EXCEPT ![p] = gl] /\ vn = [un EXCEPT ![p] = m]
  OBVIOUS
<1>5. PagesSound(gr, vn, vs, s \cup {p})
  <2>1. gl \in Seq(Blocks)
    BY <1>3 DEF Partition, Chain
  <2>2. PageUnits \in Nat /\ m \in 0..PageUnits /\ m < PageUnits
    BY <1>3, CallerLimits
  <2>3. /\ gr \in [Pages -> Seq(Blocks)] /\ vn \in [Pages -> 0..PageUnits]
        /\ gr[p] = gl /\ vn[p] = m
        /\ \A q \in Pages \ {p} : gr[q] = fr[q] /\ vn[q] = un[q]
    BY <1>4, <2>1, <2>2 DEF PagesSound
  <2>4. vs \in SUBSET UsedBlocks /\ \A c \in vs : c.page \in s \cup {p}
    BY <1>1, <1>3 DEF PagesSound
  <2>5. ASSUME NEW q \in s, q # p PROVE Partition(q, gr[q], vn[q], vs) /\ vn[q] < PageUnits
    <3>1. PICK k, l : k = fr[q] /\ l = un[q]
      OBVIOUS
    <3>2. Partition(q, k, l, us) /\ l < PageUnits
      BY <3>1 DEF PagesSound
    <3>3. /\ \A c \in us : c.page = q => c \in vs
          /\ \A c \in vs : c.page = q => c \in us
      BY <1>1, <1>3, <2>5
    <3>4. Partition(q, k, l, vs)
      BY <3>2, <3>3, PartitionSame
    <3> QED
      BY <2>3, <2>5, <3>1, <3>2, <3>4
  <2> QED
    BY <1>3, <2>2, <2>3, <2>4, <2>5 DEF PagesSound
<1> QED
  BY <1>1, <1>3, <1>4, <1>5

\* A block goes back to its page, and the page stays.
LEMMA FreeKeepsPages ==
  ASSUME NEW fr, NEW un, NEW us, NEW s \in SUBSET Pages, PagesSound(fr, un, us, s),
         NEW b \in us, NEW p, p = b.page, un[p] + b.len < PageUnits
  PROVE  /\ un[p] + b.len \in Nat \ {0}
         /\ PagesSound([fr EXCEPT ![p] = Merge(@, [at |-> b.at, len |-> b.len])],
                       [un EXCEPT ![p] = @ + b.len], us \ {b}, s)
<1>1. PICK fl, n, gl, m, vs :
        /\ fl = fr[p] /\ n = un[p]
        /\ gl = Merge(fl, [at |-> b.at, len |-> b.len]) /\ m = n + b.len /\ vs = us \ {b}
  OBVIOUS
<1>2. us \in SUBSET UsedBlocks /\ p \in s /\ p \in Pages /\ Partition(p, fl, n, us)
      /\ n \in 0..PageUnits
  BY <1>1 DEF PagesSound
<1>3. m \in Nat /\ m < PageUnits /\ Partition(p, gl, m, vs)
  <2>1. b.page = p
    OBVIOUS
  <2>2. /\ n + b.len \in Nat
        /\ Partition(p, Merge(fl, [at |-> b.at, len |-> b.len]), n + b.len, us \ {b})
    BY <1>2, <2>1, PartitionFree, Zenon
  <2> QED
    BY <1>1, <2>2
<1>4. m \in Nat \ {0} /\ PageUnits \in Nat /\ m \in 0..PageUnits
  BY <1>1, <1>2, <1>3, UsedBlockIs, CallerLimits
<1>5. PICK gr, vn :
        /\ gr = [fr EXCEPT ![p] = Merge(@, [at |-> b.at, len |-> b.len])]
        /\ vn = [un EXCEPT ![p] = @ + b.len]
  OBVIOUS
<1>6. gr = [fr EXCEPT ![p] = gl] /\ vn = [un EXCEPT ![p] = m]
  BY <1>1, <1>5
<1>7. gl \in Seq(Blocks)
  BY <1>3 DEF Partition, Chain
<1>8. /\ gr \in [Pages -> Seq(Blocks)] /\ vn \in [Pages -> 0..PageUnits]
      /\ gr[p] = gl /\ vn[p] = m
      /\ \A q \in Pages \ {p} : gr[q] = fr[q] /\ vn[q] = un[q]
  BY <1>2, <1>4, <1>6, <1>7 DEF PagesSound
<1>9. vs \in SUBSET UsedBlocks /\ \A c \in vs : c.page \in s
  BY <1>1 DEF PagesSound
<1>10. ASSUME NEW q \in s, q # p PROVE Partition(q, gr[q], vn[q], vs) /\ vn[q] < PageUnits
  <2>1. PICK k, l : k = fr[q] /\ l = un[q]
    OBVIOUS
  <2>2. Partition(q, k, l, us) /\ l < PageUnits
    BY <2>1 DEF PagesSound
  <2>3. /\ \A c \in us : c.page = q => c \in vs
        /\ \A c \in vs : c.page = q => c \in us
    BY <1>1, <1>10
  <2>4. Partition(q, k, l, vs)
    BY <2>2, <2>3, PartitionSame
  <2> QED
    BY <1>8, <1>10, <2>1, <2>2, <2>4
<1>11. PagesSound(gr, vn, vs, s)
  BY <1>3, <1>8, <1>9, <1>10 DEF PagesSound
<1> QED
  BY <1>1, <1>4, <1>5, <1>11

\* The last block goes back to its page, and the page leaves.
LEMMA EmptyKeepsPages ==
  ASSUME NEW fr, NEW un, NEW us, NEW s \in SUBSET Pages, PagesSound(fr, un, us, s),
         NEW b \in us, NEW p, p = b.page, un[p] + b.len = PageUnits
  PROVE  PagesSound([fr EXCEPT ![p] = <<>>], [un EXCEPT ![p] = 0], us \ {b}, s \ {p})
<1>1. PICK fl, n, vs : fl = fr[p] /\ n = un[p] /\ vs = us \ {b}
  OBVIOUS
<1>2. us \in SUBSET UsedBlocks /\ p \in s /\ p \in Pages /\ Partition(p, fl, n, us)
  BY <1>1 DEF PagesSound
<1>3. \A c \in us : c.page = p => c = b
  <2>1. b.page = p
    OBVIOUS
  <2>2. n + b.len = PageUnits => OnlyBlock(us, p, b)
    BY <1>2, <2>1, PartitionFree, Zenon
  <2>3. n + b.len = PageUnits
    BY <1>1
  <2> QED
    BY <2>2, <2>3 DEF OnlyBlock
<1>4. PICK gr, vn : gr = [fr EXCEPT ![p] = <<>>] /\ vn = [un EXCEPT ![p] = 0]
  OBVIOUS
<1>5. <<>> \in Seq(Blocks) /\ 0 \in 0..PageUnits
  BY CallerLimits
<1>6. /\ gr \in [Pages -> Seq(Blocks)] /\ vn \in [Pages -> 0..PageUnits]
      /\ \A q \in Pages \ {p} : gr[q] = fr[q] /\ vn[q] = un[q]
  BY <1>2, <1>4, <1>5 DEF PagesSound
<1>7. vs \in SUBSET UsedBlocks /\ \A c \in vs : c.page \in s \ {p}
  BY <1>1, <1>3 DEF PagesSound
<1>8. ASSUME NEW q \in s \ {p} PROVE Partition(q, gr[q], vn[q], vs) /\ vn[q] < PageUnits
  <2>1. PICK k, l : k = fr[q] /\ l = un[q]
    OBVIOUS
  <2>2. Partition(q, k, l, us) /\ l < PageUnits
    BY <2>1 DEF PagesSound
  <2>3. /\ \A c \in us : c.page = q => c \in vs
        /\ \A c \in vs : c.page = q => c \in us
    BY <1>1, <1>8
  <2>4. Partition(q, k, l, vs)
    BY <2>2, <2>3, PartitionSame
  <2> QED
    BY <1>6, <2>1, <2>2, <2>4
<1>9. PagesSound(gr, vn, vs, s \ {p})
  BY <1>6, <1>7, <1>8 DEF PagesSound
<1> QED
  BY <1>1, <1>4, <1>9

\* The lists after a page without a unit left has left them.
LEMMA UnlistIs ==
  ASSUME NEW ls, NEW un, NEW s \in SUBSET Pages, NEW p \in Pages, un \in [Pages -> Nat],
         OnLists(ls, PartlyFree(un, s) \cup {p}), NEW m \in Nat,
         NEW vn, vn = [un EXCEPT ![p] = m]
  PROVE  OnLists(UnlistIfFull(ls, p, m), PartlyFree(vn, s \cup {p}))
<1>1. PICK a : a = PartlyFree(un, s) \cup {p}
  OBVIOUS
<1>2. vn[p] = m /\ \A q \in Pages \ {p} : vn[q] = un[q]
  OBVIOUS
<1>3. CASE m = 0
  <2>1. OnLists(WithoutPage(ls, p), a \ {p})
    BY <1>1, WithoutPageIs
  <2>2. a \ {p} = PartlyFree(vn, s \cup {p})
    BY <1>1, <1>2, <1>3 DEF PartlyFree
  <2> QED
    BY <1>3, <2>1, <2>2 DEF UnlistIfFull
<1>4. CASE m # 0
  <2>1. m > 0
    BY <1>4
  <2>2. a = PartlyFree(vn, s \cup {p})
    BY <1>1, <1>2, <2>1 DEF PartlyFree
  <2> QED
    BY <1>1, <1>4, <2>2 DEF UnlistIfFull
<1> QED
  BY <1>3, <1>4

\* slob_page_alloc on page p.
LEMMA PageAllocIs ==
  ASSUME NEW t, NEW r \in Requests, NEW p \in Pages, NEW fl, NEW n, NEW ls,
         NEW s \in SUBSET Pages, PagesSound(free, units, used, s), Partition(p, fl, n, used),
         OnLists(ls, PartlyFree(units, s) \cup {p}),
         PageAlloc(t, p, fl, n, ls, r)
  PROVE  /\ PagesSound(free', units', used', s \cup {p})
         /\ OnLists(lists', PartlyFree(units', s \cup {p}))
         /\ \E b \in UsedBlocks :
              call' = [call EXCEPT ![t] = [pc |-> "count", req |-> r, block |-> b]]
<1>1. PICK i, b : i = SearchPage(NoFit, p, fl, r).index /\ b = BlockAt(p, fl, i, r)
  OBVIOUS
<1>2. /\ i # 0
      /\ free' = [free EXCEPT ![p] = Carve(fl, i, r)]
      /\ units' = [units EXCEPT ![p] = n - r.size]
      /\ lists' = UnlistIfFull(ls, p, n - r.size)
      /\ used' = used \cup {b}
      /\ call' = [call EXCEPT ![t] = [pc |-> "count", req |-> r, block |-> b]]
  BY <1>1 DEF PageAlloc
<1>3. fl \in Seq(Blocks)
  BY DEF Partition, Chain
<1>4. i \in 1..Len(fl) /\ Room(fl, i, r)
  BY <1>1, <1>2, <1>3, SearchOnePage
<1>5. /\ b \in UsedBlocks
      /\ n - r.size \in 0..(PageUnits - 1)
      /\ PagesSound([free EXCEPT ![p] = Carve(fl, i, r)], [units EXCEPT ![p] = n - r.size],
                    used \cup {b}, s \cup {p})
  BY <1>1, <1>4, AllocKeepsPages
<1>6. PagesSound(free', units', used', s \cup {p})
  BY <1>2, <1>5
<1>7. PICK m, vn, vl : m = n - r.size /\ vn = units' /\ vl = lists'
  OBVIOUS
<1>8. m \in Nat /\ vn = [units EXCEPT ![p] = m] /\ vl = UnlistIfFull(ls, p, m)
  BY <1>2, <1>5, <1>7
<1>9. units \in [Pages -> Nat]
  BY DEF PagesSound
<1>10. OnLists(vl, PartlyFree(vn, s \cup {p}))
  BY <1>8, <1>9, UnlistIs
<1> QED
  BY <1>2, <1>5, <1>6, <1>7, <1>10

-----------------------------------------------------------------------------
(* The invariant is inductive.                                             *)

LEMMA InUsePages ==
  ASSUME SlobInv
  PROVE  InUse \in SUBSET Pages /\ InUse \in SUBSET held
BY DEF SlobInv, CallsSound, InUse

\* A page on a list is in use and has free units, and its blocks fit in them.
LEMMA ListedPage ==
  ASSUME SlobInv, NEW c \in Classes
  PROVE  /\ lists[c] \in Seq(Pages)
         /\ \A m \in 1..Len(lists[c]) : lists[c][m] \in PartlyFree(units, InUse)
         /\ UnitsBound(lists[c])
<1>1. OnLists(lists, PartlyFree(units, InUse))
  BY DEF SlobInv
<1>2. PICK ls \in Seq(Pages) : ls = lists[c]
  BY <1>1 DEF OnLists
<1>3. DOMAIN ls = 1..Len(ls) /\ \A m \in 1..Len(ls) : ls[m] \in Pages
  BY ElementOfSeq, LenProperties
<1>4. ASSUME NEW m \in 1..Len(ls) PROVE ls[m] \in PartlyFree(units, InUse)
  BY <1>1, <1>2, <1>3 DEF OnLists
<1>5. ASSUME NEW m \in 1..Len(ls), NEW j \in 1..Len(free[ls[m]])
      PROVE  free[ls[m]][j].len <= units[ls[m]]
  <2>1. PICK p, fl, n : p = ls[m] /\ fl = free[p] /\ n = units[p]
    OBVIOUS
  <2>2. Partition(p, fl, n, used)
    BY <1>4, <2>1 DEF SlobInv, PagesSound, PartlyFree
  <2>3. Chain(fl, 0, PageUnits) /\ n = Cardinality(FreeUnits(fl)) /\ j \in 1..Len(fl)
    BY <2>1, <2>2 DEF Partition
  <2>4. fl[j].len <= Cardinality(FreeUnits(fl))
    BY <2>3, BlocksFit
  <2> QED
    BY <2>1, <2>3, <2>4
<1>6. UnitsBound(ls)
  BY <1>5 DEF UnitsBound
<1> QED
  BY <1>2, <1>4, <1>6

LEMMA PagesTyped ==
  ASSUME SlobInv
  PROVE  free \in [Pages -> Seq(Blocks)] /\ units \in [Pages -> Nat]
BY CallerLimits DEF SlobInv, PagesSound

\* The page that the search of slob_alloc ends with.
LEMMA SearchedPage ==
  ASSUME SlobInv, NEW r \in Requests, SearchLists(r).page # NoPage
  PROVE  SearchLists(r).page \in PartlyFree(units, InUse)
<1>1. PICK c \in Classes : c = ClassOf(r.size)
  BY DEF Classes, ClassOf
<1>2. PICK ls \in Seq(Pages) : ls = lists[c]
  BY ListedPage
<1>3. /\ \A m \in 1..Len(ls) : ls[m] \in PartlyFree(units, InUse)
      /\ UnitsBound(ls)
  BY <1>2, ListedPage
<1>4. PICK b : b = SearchLists(r)
  OBVIOUS
<1>5. ListOutcome(b, ls, Len(ls), r)
  BY <1>1, <1>2, <1>3, <1>4, PagesTyped, SearchListsOutcome
<1>6. b # NoFit
  BY <1>4 DEF NoFit
<1>7. PICK m \in 1..Len(ls) : FromPage(b, ls[m], r)
  BY <1>5, <1>6 DEF ListOutcome
<1>8. b.page = ls[m]
  BY <1>7 DEF FromPage
<1> QED
  BY <1>3, <1>4, <1>8

LEMMA InitSlobInv ==
  ASSUME Init
  PROVE  SlobInv
<1>1. InUse = {}
  BY DEF Init, InUse
<1>2. CallsSound(call, held)
  <2>1. Idle \in Calls /\ ~Carries(Idle)
    BY DEF Calls, Carries, Idle
  <2> QED
    BY <2>1 DEF Init, CallsSound
<1>3. PagesSound(free, units, used, InUse)
  <2>1. <<>> \in Seq(Blocks) /\ 0 \in 0..PageUnits
    BY CallerLimits
  <2> QED
    BY <1>1, <2>1 DEF Init, PagesSound
<1>4. OnLists(lists, PartlyFree(units, InUse))
  <2>1. lists \in [Classes -> Seq(Pages)] /\ \A c \in Classes : lists[c] = <<>>
    BY DEF Init
  <2>2. DOMAIN <<>> = {}
    OBVIOUS
  <2>3. PartlyFree(units, InUse) = {}
    BY <1>1 DEF PartlyFree
  <2> QED
    BY <2>1, <2>2, <2>3 DEF OnLists
<1>5. /\ totalFreeSpace \in Nat
      /\ totalAllocatedSpace = PointerSize * (Cardinality(held) + largeCalls)
  BY FS_EmptySet DEF Init, PointerSize
<1>6. large \in SUBSET SUBSET Pages /\ largeCalls \in 0..MaxLarge
  BY CallerLimits DEF Init
<1> QED
  BY <1>2, <1>3, <1>4, <1>5, <1>6 DEF SlobInv

LEMMA AllocKeepsInv ==
  ASSUME SlobInv, NEW t \in Tasks, NEW r \in Requests, AllocFromLists(t, r)
  PROVE  SlobInv'
<1>1. PICK s \in SUBSET Pages : s = InUse
  BY InUsePages
<1>2. s = Live(call, held) /\ CallsSound(call, held) /\ ~Carries(call[t])
  BY <1>1, InUseIs DEF SlobInv, AllocFromLists, Idle, Carries
<1>3. UNCHANGED <<held, large, largeCalls, totalFreeSpace, totalAllocatedSpace>>
  BY DEF AllocFromLists
<1>4. PICK p : p = SearchLists(r).page
  OBVIOUS
<1>5. CASE p # NoPage /\ PageAlloc(t, p, free[p], units[p], lists, r)
  <2>1. p \in PartlyFree(units, s)
    BY <1>1, <1>4, <1>5, SearchedPage
  <2>2. /\ p \in s /\ p \in Pages
        /\ s \cup {p} = s /\ PartlyFree(units, s) \cup {p} = PartlyFree(units, s)
    BY <2>1 DEF PartlyFree
  <2>3. PICK fl, n : fl = free[p] /\ n = units[p]
    OBVIOUS
  <2>4. PagesSound(free, units, used, s) /\ OnLists(lists, PartlyFree(units, s) \cup {p})
    BY <1>1, <2>2 DEF SlobInv
  <2>5. Partition(p, fl, n, used)
    BY <2>2, <2>3, <2>4 DEF PagesSound
  <2>6. PageAlloc(t, p, fl, n, lists, r)
    BY <1>5, <2>3
  <2>7. /\ PagesSound(free', units', used', s \cup {p})
        /\ OnLists(lists', PartlyFree(units', s \cup {p}))
        /\ \E b \in UsedBlocks :
             call' = [call EXCEPT ![t] = [pc |-> "count", req |-> r, block |-> b]]
    BY <2>2, <2>4, <2>5, <2>6, PageAllocIs
  <2>8. PICK c \in Calls : call' = [call EXCEPT ![t] = c] /\ ~Carries(c)
    BY <2>2, <2>7, CallsMade
  <2>9. CallsSound(call', held) /\ Live(call', held) = s
    BY <1>2, <2>8, NoPageMoves
  <2>10. InUse' = s
    BY <1>3, <2>9, InUseNext
  <2> QED
    BY <1>3, <2>2, <2>7, <2>9, <2>10 DEF SlobInv
<1>6. CASE /\ call' = [call EXCEPT ![t] = [pc |-> "newpage", req |-> r]]
           /\ UNCHANGED <<lists, free, units, used>>
  <2>1. PICK c : c = [pc |-> "newpage", req |-> r]
    OBVIOUS
  <2>2. c \in Calls /\ ~Carries(c) /\ call' = [call EXCEPT ![t] = c]
    BY <1>6, <2>1 DEF Calls, Carries
  <2>3. CallsSound(call', held) /\ Live(call', held) = s
    BY <1>2, <2>2, NoPageMoves
  <2>4. InUse' = s
    BY <1>3, <2>3, InUseNext
  <2> QED
    BY <1>1, <1>3, <1>6, <2>3, <2>4 DEF SlobInv
<1> QED
  BY <1>4, <1>5, <1>6 DEF AllocFromLists

LEMMA NewPageKeepsInv ==
  ASSUME SlobInv, NEW t \in Tasks, NewPage(t)
  PROVE  SlobInv'
<1>1. PICK s \in SUBSET Pages : s = InUse
  BY InUsePages
<1>2. s = Live(call, held) /\ CallsSound(call, held)
  BY <1>1, InUseIs DEF SlobInv
<1>3. UNCHANGED <<lists, free, units, used, large, largeCalls, totalFreeSpace>>
  BY DEF NewPage
<1>4. call[t] \in Calls /\ call[t].pc = "newpage" /\ ~Carries(call[t]) /\ call[t].req \in Requests
  <2>1. call[t] \in Calls
    BY <1>2 DEF CallsSound
  <2>2. call[t].pc = "newpage"
    BY DEF NewPage
  <2>3. ~Carries(call[t])
    BY <2>2 DEF Carries
  <2> QED
    BY <2>1, <2>2, <2>3, CallIs
<1>5. ASSUME NEW p \in FramesLeft, held' = held \cup {p},
             totalAllocatedSpace' = totalAllocatedSpace + PointerSize,
             call' = [call EXCEPT ![t] = [pc |-> "insert", req |-> call[t].req, page |-> p]]
      PROVE  SlobInv'
  <2>0. p \in Pages \ held
    BY DEF FramesLeft
  <2>1. PICK c : c = [pc |-> "insert", req |-> call[t].req, page |-> p]
    OBVIOUS
  <2>2. c \in Calls /\ Carries(c) /\ c.page = p /\ call' = [call EXCEPT ![t] = c]
    BY <1>4, <1>5, <2>0, <2>1 DEF Calls, Carries
  <2>3. CallsSound(call', held \cup {c.page}) /\ Live(call', held \cup {c.page}) = s
    <3>1. PICK cs, hd, ds : cs = call /\ hd = held /\ ds = call'
      OBVIOUS
    <3>2. /\ CallsSound(cs, hd) /\ ~Carries(cs[t]) /\ Carries(c)
          /\ c.page \in Pages \ hd /\ ds = [cs EXCEPT ![t] = c]
      BY <1>2, <1>4, <2>0, <2>2, <3>1
    <3>3. LeavesInUse(ds, hd \cup {c.page}, Live(cs, hd))
      BY <2>2, <3>2, PageComes
    <3> QED
      BY <1>2, <3>1, <3>3 DEF LeavesInUse
  <2>4. CallsSound(call', held') /\ InUse' = s
    BY <1>5, <2>2, <2>3, InUseNext
  <2>5. totalAllocatedSpace' = PointerSize * (Cardinality(held') + largeCalls')
    <3>1. IsFiniteSet(held) /\ Cardinality(held) \in Nat
      BY <1>2, FramesFinite, FS_Subset, FS_CardinalityType DEF CallsSound
    <3>2. Cardinality(held \cup {p}) = Cardinality(held) + 1
      BY <2>0, <3>1, FS_AddElement
    <3>3. PICK k, n : k = Cardinality(held) /\ n = largeCalls
      OBVIOUS
    <3>4. /\ k \in Nat /\ n \in Nat /\ Cardinality(held') = k + 1 /\ largeCalls' = n
          /\ totalAllocatedSpace = PointerSize * (k + n)
      BY <1>3, <1>5, <3>1, <3>2, <3>3, CallerLimits DEF SlobInv
    <3> QED
      BY <1>5, <3>4 DEF PointerSize
  <2> QED
    BY <1>1, <1>3, <2>4, <2>5 DEF SlobInv
<1>6. ASSUME call' = [call EXCEPT ![t] = Idle], UNCHANGED <<held, totalAllocatedSpace>>
      PROVE  SlobInv'
  <2>1. Idle \in Calls /\ ~Carries(Idle)
    BY DEF Calls, Carries, Idle
  <2>2. CallsSound(call', held) /\ Live(call', held) = s
    BY <1>2, <1>4, <1>6, <2>1, NoPageMoves
  <2>3. InUse' = s
    BY <1>6, <2>2, InUseNext
  <2> QED
    BY <1>1, <1>3, <1>6, <2>2, <2>3 DEF SlobInv
<1> QED
  BY <1>5, <1>6 DEF NewPage

LEMMA InsertKeepsInv ==
  ASSUME SlobInv, NEW t \in Tasks, InsertPage(t)
  PROVE  SlobInv'
<1>1. PICK s \in SUBSET Pages : s = InUse
  BY InUsePages
<1>2. s = Live(call, held) /\ CallsSound(call, held)
  BY <1>1, InUseIs DEF SlobInv
<1>3. UNCHANGED <<held, large, largeCalls, totalFreeSpace, totalAllocatedSpace>>
  BY DEF InsertPage
<1>4. PICK p, r, cl : p = call[t].page /\ r = call[t].req /\ cl = ClassOf(r.size)
  OBVIOUS
<1>5. call[t] \in Calls /\ call[t].pc = "insert" /\ Carries(call[t]) /\ r \in Requests
  <2>1. call[t] \in Calls
    BY <1>2 DEF CallsSound
  <2>2. call[t].pc = "insert"
    BY DEF InsertPage
  <2>3. Carries(call[t])
    BY <2>2 DEF Carries
  <2> QED
    BY <1>4, <2>1, <2>2, <2>3, CallIs
<1>6. p \in Pages /\ p \notin s
  <2>1. p \in Pages
    BY <1>4, <1>5, CallIs
  <2>2. p \notin s
    BY <1>2, <1>4, <1>5 DEF Live
  <2> QED
    BY <2>1, <2>2
<1>7. PagesSound(free, units, used, s) /\ OnLists(lists, PartlyFree(units, s))
  BY <1>1 DEF SlobInv
<1>8. Partition(p, EmptyPage, PageUnits, used)
  BY <1>6, <1>7, PartitionNew DEF PagesSound
<1>9. PICK ls : ls = [lists EXCEPT ![cl] = <<p>> \o @]
  OBVIOUS
<1>10. cl \in Classes
  BY <1>4 DEF Classes, ClassOf
<1>11. OnLists(ls, PartlyFree(units, s) \cup {p})
  BY <1>6, <1>7, <1>9, <1>10, AtHeadIs DEF PartlyFree
<1>12. PageAlloc(t, p, EmptyPage, PageUnits, ls, r)
  BY <1>4, <1>9 DEF InsertPage
<1>13. /\ PagesSound(free', units', used', s \cup {p})
       /\ OnLists(lists', PartlyFree(units', s \cup {p}))
       /\ \E b \in UsedBlocks :
            call' = [call EXCEPT ![t] = [pc |-> "count", req |-> r, block |-> b]]
  BY <1>5, <1>6, <1>7, <1>8, <1>11, <1>12, PageAllocIs
<1>14. PICK c \in Calls : call' = [call EXCEPT ![t] = c] /\ ~Carries(c)
  BY <1>5, <1>6, <1>13, CallsMade
<1>15. CallsSound(call', held) /\ Live(call', held) = s \cup {p}
  <2>1. PICK cs, hd, ds : cs = call /\ hd = held /\ ds = call'
    OBVIOUS
  <2>2. /\ CallsSound(cs, hd) /\ Carries(cs[t]) /\ ~Carries(c)
        /\ p = cs[t].page /\ ds = [cs EXCEPT ![t] = c]
    BY <1>2, <1>4, <1>5, <1>14, <2>1
  <2>3. LeavesInUse(ds, hd, Live(cs, hd) \cup {p})
    BY <1>14, <2>2, PageArrives
  <2> QED
    BY <1>2, <2>1, <2>3 DEF LeavesInUse
<1>16. InUse' = s \cup {p}
  BY <1>3, <1>15, InUseNext
<1> QED
  BY <1>3, <1>13, <1>15, <1>16 DEF SlobInv

LEMMA FreeSpaceNatural ==
  ASSUME SlobInv
  PROVE  CalcFreeSpace \in Nat
<1>1. PICK n0 : n0 = units
  OBVIOUS
<1>2. n0 \in [Pages -> Nat]
  BY <1>1, PagesTyped
<1>3. \A c \in Classes : TotalUnits(lists[c], n0) \in Nat
  BY <1>2, ListedPage, TotalUnitsNatural
<1>4. CalcFreeSpace = TotalUnits(lists["small"], units) + TotalUnits(lists["medium"], units)
                        + TotalUnits(lists["large"], units)
  BY DEF CalcFreeSpace, TotalUnits
<1>5. {"small", "medium", "large"} \subseteq Classes
  BY DEF Classes
<1>6. /\ TotalUnits(lists["small"], units) \in Nat
      /\ TotalUnits(lists["medium"], units) \in Nat
      /\ TotalUnits(lists["large"], units) \in Nat
  BY <1>1, <1>3, <1>5
<1> QED
  BY <1>4, <1>6

LEMMA CountKeepsInv ==
  ASSUME SlobInv, NEW t \in Tasks, Count(t)
  PROVE  SlobInv'
<1>1. PICK s \in SUBSET Pages : s = InUse
  BY InUsePages
<1>2. s = Live(call, held) /\ CallsSound(call, held)
  BY <1>1, InUseIs DEF SlobInv
<1>3. /\ UNCHANGED <<lists, free, units, held, used, large, largeCalls, totalAllocatedSpace>>
      /\ totalFreeSpace' \in Nat
      /\ call' = [call EXCEPT ![t] = Idle]
  BY FreeSpaceNatural DEF Count
<1>4. ~Carries(call[t])
  BY DEF Count, Carries
<1>5. Idle \in Calls /\ ~Carries(Idle)
  BY DEF Calls, Carries, Idle
<1>6. CallsSound(call', held) /\ Live(call', held) = s
  BY <1>2, <1>3, <1>4, <1>5, NoPageMoves
<1>7. InUse' = s
  BY <1>3, <1>6, InUseNext
<1> QED
  BY <1>1, <1>3, <1>6, <1>7 DEF SlobInv

\* slob_free, when its page keeps other blocks.
LEMMA FreeBlockKeepsInv ==
  ASSUME SlobInv, NEW t \in Tasks, NEW b \in used, NEW p, p = b.page,
         units[p] + b.len < PageUnits,
         used' = used \ {b},
         lists' = IF units[p] = 0 THEN [lists EXCEPT ![ClassOf(b.len)] = <<p>> \o @] ELSE lists,
         free' = [free EXCEPT ![p] = Merge(@, [at |-> b.at, len |-> b.len])],
         units' = [units EXCEPT ![p] = @ + b.len],
         UNCHANGED <<call, held, large, largeCalls, totalFreeSpace, totalAllocatedSpace>>
  PROVE  SlobInv'
<1>1. PICK s \in SUBSET Pages : s = InUse
  BY InUsePages
<1>2. InUse' = s
  BY <1>1, InUseIs, InUseNext
<1>3. PagesSound(free, units, used, s) /\ OnLists(lists, PartlyFree(units, s))
  BY <1>1 DEF SlobInv
<1>4. p \in s /\ p \in Pages /\ units \in [Pages -> Nat]
  BY <1>3, PagesTyped DEF PagesSound
<1>5. PICK m : m = units[p] + b.len
  OBVIOUS
<1>6. /\ m \in Nat \ {0}
      /\ PagesSound(free', units', used', s)
  BY <1>3, <1>5, FreeKeepsPages
<1>7. units'[p] = m /\ \A q \in Pages \ {p} : units'[q] = units[q]
  BY <1>4, <1>5
<1>8. PartlyFree(units', s) = PartlyFree(units, s) \cup {p}
  <2>1. m > 0
    BY <1>6
  <2> QED
    BY <1>4, <1>7, <2>1 DEF PartlyFree
<1>9. OnLists(lists', PartlyFree(units', s))
  <2>1. PICK c \in Classes : c = ClassOf(b.len)
    BY DEF Classes, ClassOf
  <2>2. CASE units[p] = 0
    <3>1. p \notin PartlyFree(units, s)
      BY <2>2 DEF PartlyFree
    <3>2. PICK ls : ls = [lists EXCEPT ![c] = <<p>> \o @]
      OBVIOUS
    <3>3. OnLists(ls, PartlyFree(units, s) \cup {p})
      BY <1>3, <1>4, <3>1, <3>2, AtHeadIs
    <3>4. lists' = ls
      BY <2>1, <2>2, <3>2
    <3> QED
      BY <1>8, <3>3, <3>4
  <2>3. CASE units[p] # 0
    <3>1. p \in PartlyFree(units, s)
      BY <1>4, <2>3 DEF PartlyFree
    <3>2. lists' = lists
      BY <2>3
    <3>3. PartlyFree(units, s) \cup {p} = PartlyFree(units, s)
      BY <3>1
    <3> QED
      BY <1>3, <1>8, <3>2, <3>3
  <2> QED
    BY <2>2, <2>3
<1> QED
  BY <1>2, <1>6, <1>9 DEF SlobInv

\* slob_free, when the block is the last of its page.
LEMMA FreeLastKeepsInv ==
  ASSUME SlobInv, NEW t \in Tasks, call[t] = Idle, NEW b \in used, NEW p, p = b.page,
         units[p] + b.len = PageUnits,
         used' = used \ {b},
         lists' = WithoutPage(lists, p),
         free' = [free EXCEPT ![p] = <<>>],
         units' = [units EXCEPT ![p] = 0],
         call' = [call EXCEPT ![t] = [pc |-> "release", page |-> p]],
         UNCHANGED <<held, large, largeCalls, totalFreeSpace, totalAllocatedSpace>>
  PROVE  SlobInv'
<1>1. PICK s \in SUBSET Pages : s = InUse
  BY InUsePages
<1>2. s = Live(call, held) /\ CallsSound(call, held) /\ ~Carries(call[t])
  BY <1>1, InUseIs DEF SlobInv, Idle, Carries
<1>3. PagesSound(free, units, used, s) /\ OnLists(lists, PartlyFree(units, s))
  BY <1>1 DEF SlobInv
<1>4. p \in s /\ p \in Pages /\ units \in [Pages -> Nat]
  BY <1>3, PagesTyped DEF PagesSound
<1>5. PagesSound(free', units', used', s \ {p})
  BY <1>3, EmptyKeepsPages
<1>6. \A q \in Pages \ {p} : units'[q] = units[q]
  BY <1>4
<1>7. OnLists(lists', PartlyFree(units', s \ {p}))
  <2>1. OnLists(lists', PartlyFree(units, s) \ {p})
    BY <1>3, WithoutPageIs
  <2>2. PartlyFree(units, s) \ {p} = PartlyFree(units', s \ {p})
    BY <1>6 DEF PartlyFree
  <2> QED
    BY <2>1, <2>2
<1>8. PICK c : c = [pc |-> "release", page |-> p]
  OBVIOUS
<1>9. c \in Calls /\ Carries(c) /\ c.page = p /\ call' = [call EXCEPT ![t] = c]
  BY <1>4, <1>8 DEF Calls, Carries
<1>10. CallsSound(call', held) /\ Live(call', held) = s \ {p}
  <2>1. PICK cs, hd, ds : cs = call /\ hd = held /\ ds = call'
    OBVIOUS
  <2>2. /\ CallsSound(cs, hd) /\ ~Carries(cs[t]) /\ Carries(c)
        /\ p = c.page /\ p \in Live(cs, hd) /\ ds = [cs EXCEPT ![t] = c]
    BY <1>2, <1>4, <1>9, <2>1
  <2>3. LeavesInUse(ds, hd, Live(cs, hd) \ {p})
    BY <1>9, <2>2, PageLeaves
  <2> QED
    BY <1>2, <2>1, <2>3 DEF LeavesInUse
<1>11. InUse' = s \ {p}
  BY <1>10, InUseNext
<1> QED
  BY <1>5, <1>7, <1>10, <1>11 DEF SlobInv

LEMMA FreeKeepsInv ==
  ASSUME SlobInv, NEW t \in Tasks, NEW b \in used, Free(t, b)
  PROVE  SlobInv'
<1>1. PICK p : p = b.page
  OBVIOUS
<1>2. /\ call[t] = Idle /\ used' = used \ {b}
      /\ UNCHANGED <<held, large, largeCalls, totalFreeSpace, totalAllocatedSpace>>
  BY DEF Free
<1>3. CASE /\ units[p] + b.len = PageUnits
           /\ lists' = WithoutPage(lists, p)
           /\ free' = [free EXCEPT ![p] = <<>>]
           /\ units' = [units EXCEPT ![p] = 0]
           /\ call' = [call EXCEPT ![t] = [pc |-> "release", page |-> p]]
  BY <1>1, <1>2, <1>3, FreeLastKeepsInv
<1>4. CASE /\ units[p] + b.len < PageUnits
           /\ lists' = IF units[p] = 0 THEN [lists EXCEPT ![ClassOf(b.len)] = <<p>> \o @] ELSE lists
           /\ free' = [free EXCEPT ![p] = Merge(@, [at |-> b.at, len |-> b.len])]
           /\ units' = [units EXCEPT ![p] = @ + b.len]
           /\ UNCHANGED call
  BY <1>1, <1>2, <1>4, FreeBlockKeepsInv
<1> QED
  BY <1>1, <1>3, <1>4 DEF Free

LEMMA FreePagesKeepsInv ==
  ASSUME SlobInv, NEW t \in Tasks, FreePages(t)
  PROVE  SlobInv'
<1>1. PICK s \in SUBSET Pages : s = InUse
  BY InUsePages
<1>2. s = Live(call, held) /\ CallsSound(call, held)
  BY <1>1, InUseIs DEF SlobInv
<1>3. PICK p : p = call[t].page
  OBVIOUS
<1>4. /\ UNCHANGED <<lists, free, units, used, large, largeCalls, totalFreeSpace>>
      /\ held' = held \ {p}
      /\ totalAllocatedSpace' = totalAllocatedSpace - PointerSize
      /\ call' = [call EXCEPT ![t] = Idle]
  BY <1>3 DEF FreePages
<1>5. Carries(call[t])
  BY DEF FreePages, Carries
<1>6. Idle \in Calls /\ ~Carries(Idle)
  BY DEF Calls, Carries, Idle
<1>7. p \in held /\ CallsSound(call', held \ {p}) /\ Live(call', held \ {p}) = s
  <2>1. PICK cs, hd, ds, c : cs = call /\ hd = held /\ ds = call' /\ c = Idle
    OBVIOUS
  <2>2. /\ CallsSound(cs, hd) /\ c \in Calls /\ Carries(cs[t]) /\ ~Carries(c)
        /\ p = cs[t].page /\ ds = [cs EXCEPT ![t] = c]
    BY <1>2, <1>3, <1>4, <1>5, <1>6, <2>1
  <2>3. p \in hd /\ LeavesInUse(ds, hd \ {p}, Live(cs, hd))
    BY <2>2, PageGoes
  <2> QED
    BY <1>2, <2>1, <2>3 DEF LeavesInUse
<1>8. CallsSound(call', held') /\ InUse' = s
  BY <1>4, <1>7, InUseNext
<1>9. totalAllocatedSpace' = PointerSize * (Cardinality(held') + largeCalls')
  <2>1. IsFiniteSet(held) /\ Cardinality(held) \in Nat
    BY <1>2, FramesFinite, FS_Subset, FS_CardinalityType DEF CallsSound
  <2>2. Cardinality(held \ {p}) = Cardinality(held) - 1
    BY <1>7, <2>1, FS_RemoveElement
  <2>3. PICK k, n : k = Cardinality(held) /\ n = largeCalls
    OBVIOUS
  <2>4. /\ k \in Nat /\ n \in Nat /\ Cardinality(held') = k - 1 /\ largeCalls' = n
        /\ totalAllocatedSpace = PointerSize * (k + n)
    BY <1>4, <2>1, <2>2, <2>3, CallerLimits DEF SlobInv
  <2> QED
    BY <1>4, <2>4 DEF PointerSize
<1> QED
  BY <1>1, <1>4, <1>8, <1>9 DEF SlobInv

\* kmalloc and kfree of a page or more touch nothing that slob_alloc works on.
LEMMA LargeKeepsInv ==
  ASSUME SlobInv, UNCHANGED <<lists, free, units, held, used, call, totalFreeSpace>>,
         large' \in SUBSET SUBSET Pages,
         \/ /\ largeCalls < MaxLarge /\ largeCalls' = largeCalls + 1
            /\ totalAllocatedSpace' = totalAllocatedSpace + PointerSize
         \/ UNCHANGED <<largeCalls, totalAllocatedSpace>>
  PROVE  SlobInv'
<1>1. InUse' = InUse
  BY InUseIs, InUseNext
<1>2. PICK k, n : k = Cardinality(held) /\ n = largeCalls
  OBVIOUS
<1>3. /\ k \in Nat /\ n \in 0..MaxLarge /\ MaxLarge \in Nat
      /\ totalAllocatedSpace = PointerSize * (k + n)
  BY <1>2, FramesFinite, FS_Subset, FS_CardinalityType, CallerLimits DEF SlobInv, CallsSound
<1>4. /\ largeCalls' \in 0..MaxLarge
      /\ totalAllocatedSpace' = PointerSize * (k + largeCalls')
  BY <1>2, <1>3 DEF PointerSize
<1> QED
  BY <1>1, <1>2, <1>4 DEF SlobInv

LEMMA LargeStepsKeepInv ==
  ASSUME SlobInv, NEW t \in Tasks,
         \/ \E order \in Orders : LargeAlloc(t, order)
         \/ \E frames \in large : LargeFree(t, frames)
  PROVE  SlobInv'
<1>1. large \in SUBSET SUBSET Pages
  BY DEF SlobInv
<1>2. ASSUME NEW order \in Orders, LargeAlloc(t, order) PROVE SlobInv'
  <2>1. large' \in SUBSET SUBSET Pages
    <3>1. PICK frames \in SUBSET FramesLeft : large' = large \cup {frames}
      BY <1>2 DEF LargeAlloc
    <3>2. frames \in SUBSET Pages
      BY DEF FramesLeft
    <3> QED
      BY <1>1, <3>1, <3>2
  <2> QED
    BY <1>2, <2>1, LargeKeepsInv DEF LargeAlloc
<1>3. ASSUME NEW frames \in large, LargeFree(t, frames) PROVE SlobInv'
  <2>1. large' \in SUBSET SUBSET Pages
    BY <1>1, <1>3 DEF LargeFree
  <2> QED
    BY <1>3, <2>1, LargeKeepsInv DEF LargeFree
<1> QED
  BY <1>2, <1>3

LEMMA NextSlobInv ==
  ASSUME SlobInv, [Next]_vars
  PROVE  SlobInv'
<1>1. ASSUME NEW t \in Tasks, NEW r \in Requests, AllocFromLists(t, r) PROVE SlobInv'
  BY <1>1, AllocKeepsInv
<1>2. ASSUME NEW t \in Tasks, NewPage(t) PROVE SlobInv'
  BY <1>2, NewPageKeepsInv
<1>3. ASSUME NEW t \in Tasks, InsertPage(t) PROVE SlobInv'
  BY <1>3, InsertKeepsInv
<1>4. ASSUME NEW t \in Tasks, Count(t) PROVE SlobInv'
  BY <1>4, CountKeepsInv
<1>5. ASSUME NEW t \in Tasks, NEW b \in used, Free(t, b) PROVE SlobInv'
  BY <1>5, FreeKeepsInv
<1>6. ASSUME NEW t \in Tasks, FreePages(t) PROVE SlobInv'
  BY <1>6, FreePagesKeepsInv
<1>7. ASSUME NEW t \in Tasks,
             \/ \E order \in Orders : LargeAlloc(t, order)
             \/ \E frames \in large : LargeFree(t, frames)
      PROVE  SlobInv'
  BY <1>7, LargeStepsKeepInv
<1>8. CASE UNCHANGED vars
  <2>1. InUse' = InUse
    BY <1>8, InUseIs, InUseNext DEF vars
  <2> QED
    BY <1>8, <2>1 DEF vars, SlobInv
<1> QED
  BY <1>1, <1>2, <1>3, <1>4, <1>5, <1>6, <1>7, <1>8 DEF Next

-----------------------------------------------------------------------------
(* The theorems.                                                           *)

\* The strengthening of the properties below is an invariant: where every task is in
\* slob_alloc or slob_free, what every page is made of, what is on the lists.
THEOREM SlobInvariance == Spec => []SlobInv
<1>1. Init => SlobInv
  BY InitSlobInv
<1>2. SlobInv /\ [Next]_vars => SlobInv'
  BY NextSlobInv
<1> QED
  BY <1>1, <1>2, PTL DEF Spec

\* Whatever is asked for and freed, no block is longer than a page and the counters
\* of the two system calls are never negative.
THEOREM TypeCorrect == Spec => []TypeOK
<1>1. ASSUME SlobInv PROVE TypeOK
  <2>1. lists \in [Classes -> Seq(Pages)]
    BY <1>1 DEF SlobInv, OnLists
  <2>2. /\ free \in [Pages -> Seq(Blocks)] /\ units \in [Pages -> 0..PageUnits]
        /\ used \in SUBSET [page : Pages, at : 0..(PageUnits - 1), len : 1..PageUnits]
    BY <1>1 DEF SlobInv, PagesSound, UsedBlocks
  <2>3. held \in SUBSET Pages
    BY <1>1 DEF SlobInv, CallsSound
  <2>4. totalFreeSpace \in Nat
    BY <1>1 DEF SlobInv
  <2>5. totalAllocatedSpace \in Nat
    <3>1. PICK k, n : k = Cardinality(held) /\ n = largeCalls
      OBVIOUS
    <3>2. k \in Nat /\ n \in Nat
      BY <1>1, <2>3, <3>1, FramesFinite, FS_Subset, FS_CardinalityType, CallerLimits DEF SlobInv
    <3>3. totalAllocatedSpace = 8 * (k + n)
      BY <1>1, <3>1 DEF SlobInv, PointerSize
    <3> QED
      BY <3>2, <3>3
  <2>6. large \in SUBSET SUBSET Pages /\ largeCalls \in 0..MaxLarge
    BY <1>1 DEF SlobInv
  <2> QED
    BY <2>1, <2>2, <2>3, <2>4, <2>5, <2>6 DEF TypeOK
<1> QED
  BY <1>1, SlobInvariance, PTL

LEMMA OnePartCovers ==
  ASSUME NEW p, NEW fl, NEW n, NEW us, Partition(p, fl, n, us), NEW u \in Frame
  PROVE  Cardinality({i \in DOMAIN fl : Covers(fl[i], u)})
           + Cardinality({b \in us : b.page = p /\ Covers(b, u)}) = 1
<1>1. PICK x, y :
        /\ x = {i \in DOMAIN fl : Covers(fl[i], u)}
        /\ y = {b \in us : b.page = p /\ Covers(b, u)}
  OBVIOUS
<1>2. Chain(fl, 0, PageUnits) /\ u \in Nat
  BY DEF Partition, Frame
<1>3. DOMAIN fl = 1..Len(fl)
  BY <1>2, LenProperties DEF Chain
<1>4. CASE u \in FreeUnits(fl)
  <2>1. PICK i \in DOMAIN fl : Covers(fl[i], u)
    BY <1>4 DEF FreeUnits
  <2>2. x = {i}
    BY <1>1, <1>2, <1>3, <2>1, ChainApart
  <2>3. y = {}
    BY <1>1, <1>4 DEF Partition
  <2>4. Cardinality(x) = 1 /\ Cardinality(y) = 0
    BY <2>2, <2>3, FS_Singleton, FS_EmptySet
  <2> QED
    BY <1>1, <2>4
<1>5. CASE u \notin FreeUnits(fl)
  <2>1. PICK b \in us : b.page = p /\ Covers(b, u)
    BY <1>5 DEF Partition
  <2>2. y = {b}
    BY <1>1, <2>1 DEF Partition
  <2>3. x = {}
    BY <1>1, <1>5 DEF FreeUnits
  <2>4. Cardinality(x) = 0 /\ Cardinality(y) = 1
    BY <2>2, <2>3, FS_Singleton, FS_EmptySet
  <2> QED
    BY <1>1, <2>4
<1> QED
  BY <1>4, <1>5

\* No unit of a page is lost and none is given to two callers, however blocks are
\* split by slob_page_alloc and merged by slob_free.
THEOREM EveryUnitHasOneBlock == Spec => []PagesPartitioned
<1>1. ASSUME SlobInv PROVE PagesPartitioned
  <2>1. \A b \in used : b.page \in InUse
    BY <1>1 DEF SlobInv, PagesSound
  <2>2. ASSUME NEW p \in InUse, NEW u \in 0..(PageUnits - 1)
        PROVE  Cardinality({i \in DOMAIN free[p] : Covers(free[p][i], u)})
                 + Cardinality({b \in used : b.page = p /\ Covers(b, u)}) = 1
    <3>1. PICK fl, n, us : fl = free[p] /\ n = units[p] /\ us = used
      OBVIOUS
    <3>2. Partition(p, fl, n, us) /\ u \in Frame
      BY <1>1, <3>1 DEF SlobInv, PagesSound, Frame
    <3>3. Cardinality({i \in DOMAIN fl : Covers(fl[i], u)})
            + Cardinality({b \in us : b.page = p /\ Covers(b, u)}) = 1
      BY <3>2, OnePartCovers
    <3> QED
      BY <3>1, <3>3
  <2> QED
    BY <2>1, <2>2 DEF PagesPartitioned
<1> QED
  BY <1>1, SlobInvariance, PTL

\* A list without repetitions is no longer than there are pages.
LEMMA ListLength ==
  ASSUME NEW q \in Seq(Pages), Once(q), NEW i \in DOMAIN q
  PROVE  i \in 1..Cardinality(Pages)
<1>1. PICK n : n = Len(q)
  OBVIOUS
<1>2. n \in Nat /\ DOMAIN q = 1..n /\ q \in [1..n -> Pages]
  BY <1>1
<1>3. q \in Injection(1..n, Pages)
  BY <1>2 DEF Once, Injection, IsInjective
<1>4. Cardinality(1..n) <= Cardinality(Pages)
  BY <1>3, FramesFinite, FS_Injection
<1>5. Cardinality(1..n) = n
  <2>1. 1 \in Int /\ n \in Int /\ (IF 1 > n THEN 0 ELSE n - 1 + 1) = n
    BY <1>2
  <2> QED
    BY <2>1, FS_Interval
<1>6. Cardinality(Pages) \in Nat
  BY FramesFinite, FS_CardinalityType
<1> QED
  BY <1>2, <1>4, <1>5, <1>6

\* slob_page_free tells slob_free rightly whether the page is on a list, and
\* calcFreeSpace and the search of slob_alloc meet every partly free page once.
THEOREM PartlyFreePagesListed == Spec => []ListsHoldPartlyFree
<1>1. ASSUME SlobInv PROVE ListsHoldPartlyFree
  <2>1. PICK ls, s : ls = lists /\ s = PartlyFree(units, InUse)
    OBVIOUS
  <2>2. OnLists(ls, s)
    BY <1>1, <2>1 DEF SlobInv
  <2>3. ASSUME NEW p \in Pages, NEW X,
               X = {x \in Classes \X (1..Cardinality(Pages)) :
                      x[2] \in DOMAIN ls[x[1]] /\ ls[x[1]][x[2]] = p}
        PROVE  Cardinality(X) = IF p \in s THEN 1 ELSE 0
    <3>1. CASE p \in s
      <4>1. PICK c \in Classes : \E i \in DOMAIN ls[c] : ls[c][i] = p
        BY <2>2, <3>1 DEF OnLists
      <4>2. PICK i \in DOMAIN ls[c] : ls[c][i] = p
        BY <4>1
      <4>3. ls[c] \in Seq(Pages) /\ Once(ls[c])
        BY <2>2, OnListsIs
      <4>4. i \in 1..Cardinality(Pages)
        BY <4>2, <4>3, ListLength
      <4>5. <<c, i>> \in X
        BY <2>3, <4>2, <4>4
      <4>6. ASSUME NEW x \in X PROVE x = <<c, i>>
        <5>1. /\ x \in Classes \X (1..Cardinality(Pages))
              /\ x[2] \in DOMAIN ls[x[1]] /\ ls[x[1]][x[2]] = p
          BY <2>3
        <5>2. PICK d \in Classes, j \in 1..Cardinality(Pages) : x = <<d, j>>
          BY <5>1
        <5>3. j \in DOMAIN ls[d] /\ ls[d][j] = p
          BY <5>1, <5>2
        <5>4. d = c /\ j = i
          BY <2>2, <4>2, <5>3 DEF OnLists
        <5> QED
          BY <5>2, <5>4
      <4>7. X = {<<c, i>>}
        BY <4>5, <4>6
      <4> QED
        BY <3>1, <4>7, FS_Singleton
    <3>2. CASE p \notin s
      <4>1. \A c \in Classes : \A i \in DOMAIN ls[c] : ls[c][i] # p
        BY <2>2, <3>2 DEF OnLists
      <4>2. X = {}
        BY <2>3, <4>1
      <4> QED
        BY <3>2, <4>2, FS_EmptySet
    <3> QED
      BY <3>1, <3>2
  <2>4. ASSUME NEW p \in Pages
        PROVE  Cardinality({x \in Classes \X (1..Cardinality(Pages)) :
                              x[2] \in DOMAIN lists[x[1]] /\ lists[x[1]][x[2]] = p})
                 = IF p \in InUse /\ units[p] > 0 THEN 1 ELSE 0
    <3>1. PICK X : X = {x \in Classes \X (1..Cardinality(Pages)) :
                          x[2] \in DOMAIN lists[x[1]] /\ lists[x[1]][x[2]] = p}
      OBVIOUS
    <3>2. Cardinality(X) = IF p \in s THEN 1 ELSE 0
      BY <2>1, <2>3, <3>1
    <3>3. p \in s <=> p \in InUse /\ units[p] > 0
      BY <2>1 DEF PartlyFree
    <3> QED
      BY <3>1, <3>2, <3>3
  <2> QED
    BY <2>4 DEF ListsHoldPartlyFree
<1> QED
  BY <1>1, SlobInvariance, PTL

\* The units of a page are those of its free blocks: slob_alloc skips no page that
\* has room, and slob_free gives a page back exactly when its last block is freed.
THEOREM UnitsCorrect == Spec => []UnitsAreFreeUnits
<1>1. ASSUME SlobInv PROVE UnitsAreFreeUnits
  <2>1. ASSUME NEW p \in InUse
        PROVE  units[p] = FoldLeft(LAMBDA n, b : n + b.len, 0, free[p])
    <3>1. PICK fl, m : fl = free[p] /\ m = units[p]
      OBVIOUS
    <3>2. Partition(p, fl, m, used)
      BY <1>1, <3>1 DEF SlobInv, PagesSound
    <3>3. m = TotalLength(fl)
      BY <3>2, LengthIsUnits DEF Partition
    <3> QED
      BY <3>1, <3>3 DEF TotalLength
  <2> QED
    BY <2>1 DEF UnitsAreFreeUnits
<1> QED
  BY <1>1, SlobInvariance, PTL

\* The kernel is not stopped by BUG_ON(!b): a page got for a request has room for it.
THEOREM NewPageAlwaysServes == Spec => []NewPageServes
<1>1. ASSUME SlobInv PROVE NewPageServes
  <2>1. ASSUME NEW t \in Tasks, call[t].pc = "insert"
        PROVE  ~FailsOn(call[t].page, EmptyPage, call[t].req)
    <3>1. PICK p, r : p = call[t].page /\ r = call[t].req
      OBVIOUS
    <3>2. call[t] \in Calls /\ Carries(call[t])
      BY <1>1, <2>1 DEF SlobInv, CallsSound, Carries
    <3>3. p \in Pages /\ r \in Requests
      BY <2>1, <3>1, <3>2, CallIs
    <3>4. ~FailsOn(p, EmptyPage, r)
      BY <3>3, NewPageFits
    <3> QED
      BY <3>1, <3>4
  <2> QED
    BY <2>1 DEF NewPageServes
<1> QED
  BY <1>1, SlobInvariance, PTL

\* Nothing is left behind: with every block freed and every call returned, all frames
\* are back and calcFreeSpace finds nothing; totalAllocatedSpace is then what the calls
\* of kmalloc for a page or more have left in it, which nothing takes back.
THEOREM AllFramesGivenBack == Spec => []AllGivenBack
<1>1. ASSUME SlobInv, used = {}, \A t \in Tasks : call[t] = Idle
      PROVE  /\ held = {} /\ CalcFreeSpace = 0
             /\ totalAllocatedSpace = PointerSize * largeCalls
  <2>1. ASSUME NEW p \in InUse PROVE FALSE
    <3>1. PICK fl, n : fl = free[p] /\ n = units[p]
      OBVIOUS
    <3>2. Partition(p, fl, n, used) /\ n < PageUnits
      BY <1>1, <3>1 DEF SlobInv, PagesSound
    <3>3. FreeUnits(fl) = Frame
      BY <1>1, <3>2 DEF Partition, FreeUnits
    <3>4. n = PageUnits
      BY <3>2, <3>3, FrameIs DEF Partition
    <3> QED
      BY <3>2, <3>4, CallerLimits
  <2>2. held = {}
    <3>1. \A t \in Tasks : ~Carries(call[t])
      BY <1>1 DEF Idle, Carries
    <3>2. InUse = held
      BY <3>1, InUseIs DEF Live
    <3> QED
      BY <2>1, <3>2
  <2>3. totalAllocatedSpace = PointerSize * largeCalls
    <3>1. PICK n : n = largeCalls
      OBVIOUS
    <3>2. n \in Nat /\ 0 + n = n
      BY <1>1, <3>1, CallerLimits DEF SlobInv
    <3>3. totalAllocatedSpace = PointerSize * (0 + n)
      BY <1>1, <2>2, <3>1, FS_EmptySet DEF SlobInv
    <3> QED
      BY <3>1, <3>2, <3>3
  <2>4. \A c \in Classes : lists[c] = <<>>
    <3>1. ASSUME NEW c \in Classes, lists[c] # <<>> PROVE FALSE
      <4>1. PICK ls \in Seq(Pages) : ls = lists[c] /\ \A m \in 1..Len(ls) : ls[m] \in InUse
        BY <1>1, ListedPage DEF PartlyFree
      <4>2. 1 \in 1..Len(ls)
        BY <3>1, <4>1, EmptySeq
      <4> QED
        BY <2>1, <4>1, <4>2
    <3> QED
      BY <3>1
  <2>5. CalcFreeSpace = 0
    <3>1. PICK n0 : n0 = units
      OBVIOUS
    <3>2. n0 \in [Pages -> Nat] /\ <<>> \in Seq(Pages)
      BY <1>1, <3>1, PagesTyped
    <3>3. TotalUnits(<<>>, n0) = 0
      BY <3>2, TotalUnitsNatural
    <3>4. CalcFreeSpace = TotalUnits(lists["small"], units) + TotalUnits(lists["medium"], units)
                            + TotalUnits(lists["large"], units)
      BY DEF CalcFreeSpace, TotalUnits
    <3>5. lists["small"] = <<>> /\ lists["medium"] = <<>> /\ lists["large"] = <<>>
      BY <2>4 DEF Classes
    <3>6. /\ TotalUnits(lists["small"], units) = 0 /\ TotalUnits(lists["medium"], units) = 0
          /\ TotalUnits(lists["large"], units) = 0
      BY <3>1, <3>3, <3>5
    <3> QED
      BY <3>4, <3>6
  <2> QED
    BY <2>2, <2>3, <2>5
<1>2. SlobInv => AllGivenBack
  BY <1>1 DEF AllGivenBack
<1> QED
  BY <1>2, SlobInvariance, PTL

\* The free blocks with room for r on the pages of its list.
LEMMA FitsAre ==
  ASSUME SlobInv, NEW r \in Requests, NEW ls, ls = lists[ClassOf(r.size)], NEW x
  PROVE  x \in Fits(r) <=>
           \E m \in 1..Len(ls) : \E j \in 1..Len(free[ls[m]]) :
             x = <<ls[m], j>> /\ Room(free[ls[m]], j, r)
<1>1. PICK c \in Classes : c = ClassOf(r.size)
  BY DEF Classes, ClassOf
<1>2. /\ ls \in Seq(Pages) /\ DOMAIN ls = 1..Len(ls)
      /\ \A m \in 1..Len(ls) : ls[m] \in Pages /\ ls[m] \in PartlyFree(units, InUse)
  BY <1>1, ListedPage, LenProperties, ElementOfSeq
<1>3. ASSUME NEW m \in 1..Len(ls), NEW j \in 1..Len(free[ls[m]]) PROVE j \in 1..PageUnits
  <2>1. PICK p, fl, n : p = ls[m] /\ fl = free[p] /\ n = units[p]
    OBVIOUS
  <2>2. Partition(p, fl, n, used)
    BY <1>2, <2>1 DEF SlobInv, PagesSound, PartlyFree
  <2>3. Chain(fl, 0, PageUnits) /\ j \in 1..Len(fl)
    BY <2>1, <2>2 DEF Partition
  <2> QED
    BY <2>3, BlocksFit
<1>4. \A p \in Pages : free[p] \in Seq(Blocks) /\ DOMAIN free[p] = 1..Len(free[p])
  BY PagesTyped, LenProperties
<1>5. ASSUME x \in Fits(r)
      PROVE  \E m \in 1..Len(ls) : \E j \in 1..Len(free[ls[m]]) :
               x = <<ls[m], j>> /\ Room(free[ls[m]], j, r)
  <2>1. /\ x \in Pages \X (1..PageUnits)
        /\ \E k \in DOMAIN ls : ls[k] = x[1]
        /\ x[2] \in DOMAIN free[x[1]]
        /\ Room(free[x[1]], x[2], r)
    BY <1>5 DEF Fits, Room
  <2>2. PICK m \in 1..Len(ls) : ls[m] = x[1]
    BY <1>2, <2>1
  <2>3. x = <<ls[m], x[2]>> /\ x[2] \in 1..Len(free[ls[m]])
    BY <1>2, <1>4, <2>1, <2>2
  <2> QED
    BY <2>1, <2>2, <2>3
<1>6. ASSUME NEW m \in 1..Len(ls), NEW j \in 1..Len(free[ls[m]]),
             x = <<ls[m], j>>, Room(free[ls[m]], j, r)
      PROVE  x \in Fits(r)
  <2>1. x[1] = ls[m] /\ x[2] = j /\ x \in Pages \X (1..PageUnits)
    BY <1>2, <1>3, <1>6
  <2>2. x[2] \in DOMAIN free[x[1]]
    BY <1>2, <1>4, <2>1
  <2> QED
    BY <1>2, <1>6, <2>1, <2>2 DEF Fits, Room
<1> QED
  BY <1>5, <1>6

\* The block block is a best one for r.
BestBlock(block, r) ==
  \E x \in Fits(r) :
    /\ x[1] = block.page
    /\ Covers(free[x[1]][x[2]], block.at)
    /\ \A y \in Fits(r) : Space(x, r) <= Space(y, r)

\* The two searches agree: the one over the pages ends with the page of a best block,
\* and the one over that page with such a block.
LEMMA AllocIsBestFit ==
  ASSUME SlobInv, NEW t \in Tasks, NEW r \in Requests, AllocFromLists(t, r)
  PROVE  /\ call'[t].req = r
         /\ IF Fits(r) = {} THEN call'[t].pc = "newpage"
            ELSE call'[t].pc = "count" /\ BestBlock(call'[t].block, r)
<1>1. PICK c \in Classes : c = ClassOf(r.size)
  BY DEF Classes, ClassOf
<1>2. PICK ls \in Seq(Pages) : ls = lists[c]
  BY ListedPage
<1>3. /\ UnitsBound(ls)
      /\ \A m \in 1..Len(ls) : ls[m] \in Pages /\ ls[m] \in PartlyFree(units, InUse)
  BY <1>2, ListedPage, ElementOfSeq
<1>4. PICK b : b = SearchLists(r)
  OBVIOUS
<1>5. ListOutcome(b, ls, Len(ls), r)
  BY <1>1, <1>2, <1>3, <1>4, PagesTyped, SearchListsOutcome
<1>6. /\ \A m \in 1..Len(ls) : Unbeaten(b, ls[m], r)
      /\ b = NoFit \/ \E m \in 1..Len(ls) : FromPage(b, ls[m], r)
  BY <1>5 DEF ListOutcome
<1>7. PICK p : p = b.page
  OBVIOUS
<1>8. CASE b = NoFit
  <2>1. p = NoPage
    BY <1>7, <1>8 DEF NoFit
  <2>2. Fits(r) = {}
    <3>1. ASSUME NEW x \in Fits(r) PROVE FALSE
      <4>1. PICK m \in 1..Len(ls) : \E j \in 1..Len(free[ls[m]]) : Room(free[ls[m]], j, r)
        BY <1>1, <1>2, FitsAre
      <4>2. b.index # 0
        BY <1>6, <4>1 DEF Unbeaten
      <4> QED
        BY <1>8, <4>2, NoFitIs
    <3> QED
      BY <3>1
  <2>3. call' = [call EXCEPT ![t] = [pc |-> "newpage", req |-> r]]
    BY <1>4, <1>7, <2>1 DEF AllocFromLists
  <2>4. call'[t] = [pc |-> "newpage", req |-> r]
    BY <2>3 DEF SlobInv, CallsSound
  <2> QED
    BY <2>2, <2>4
<1>9. CASE b # NoFit
  <2>1. PICK m \in 1..Len(ls) : FromPage(b, ls[m], r)
    BY <1>6, <1>9
  <2>2. PICK fl : fl = free[ls[m]]
    OBVIOUS
  <2>3. PICK j \in 1..Len(fl) :
          Room(fl, j, r) /\ b = [page |-> ls[m], index |-> j, space |-> Left(fl, j, r)]
    BY <2>1, <2>2 DEF FromPage
  <2>4. p = ls[m] /\ p \in Pages /\ p # NoPage /\ fl = free[p]
        /\ b.space = Left(fl, j, r)
    BY <1>3, <1>7, <2>2, <2>3, FramesFinite
  <2>5. fl \in Seq(Blocks)
    BY <2>4, PagesTyped
  <2>6. PICK i : i = SearchPage(NoFit, p, fl, r).index
    OBVIOUS
  <2>7. i # 0 /\ ~FailsOn(p, fl, r)
    BY <2>3, <2>4, <2>5, <2>6, SearchOnePage
  <2>8. /\ i \in 1..Len(fl) /\ Room(fl, i, r)
        /\ \A k \in 1..Len(fl) : Room(fl, k, r) => Left(fl, i, r) <= Left(fl, k, r)
    BY <2>4, <2>5, <2>6, <2>7, SearchOnePage
  <2>9. PageAlloc(t, p, fl, units[p], lists, r)
    BY <1>4, <1>7, <2>4, <2>7 DEF AllocFromLists
  <2>10. PICK block : block = BlockAt(p, fl, i, r)
    OBVIOUS
  <2>11. call'[t] = [pc |-> "count", req |-> r, block |-> block]
    <3>1. call' = [call EXCEPT ![t] = [pc |-> "count", req |-> r, block |-> block]]
      BY <2>6, <2>9, <2>10 DEF PageAlloc
    <3> QED
      BY <3>1 DEF SlobInv, CallsSound
  <2>12. PICK x : x = <<p, i>>
    OBVIOUS
  <2>13. x \in Fits(r) /\ x[1] = p /\ x[2] = i
    <3>1. x = <<ls[m], i>> /\ i \in 1..Len(free[ls[m]]) /\ Room(free[ls[m]], i, r)
      BY <2>2, <2>4, <2>8, <2>12
    <3>2. ls = lists[ClassOf(r.size)]
      BY <1>1, <1>2
    <3>3. \E k \in 1..Len(ls) : \E e \in 1..Len(free[ls[k]]) :
            x = <<ls[k], e>> /\ Room(free[ls[k]], e, r)
      BY <3>1
    <3>4. x \in Fits(r)
      BY <3>2, <3>3, FitsAre
    <3> QED
      BY <2>12, <3>4
  <2>14. block.page = p /\ Covers(fl[i], block.at)
    <3>1. PICK z : z = fl[i].at + Delta(fl[i].at, r)
      OBVIOUS
    <3>2. block.page = p /\ block.at = z
      BY <2>10, <3>1 DEF BlockAt
    <3>3. Chain(fl, 0, PageUnits)
      <4>1. PICK n : n = units[p]
        OBVIOUS
      <4>2. Partition(p, fl, n, used)
        BY <1>3, <2>4, <4>1 DEF SlobInv, PagesSound, PartlyFree
      <4> QED
        BY <4>2 DEF Partition
    <3>4. /\ z \in Nat /\ z \in Frame
          /\ \A u \in Frame : z <= u /\ u < z + r.size => Covers(fl[i], u)
      BY <2>8, <3>1, <3>3, CarveIs
    <3>5. z <= z /\ z < z + r.size
      BY <3>4, RequestIs
    <3> QED
      BY <3>2, <3>4, <3>5
  <2>15. ASSUME NEW y \in Fits(r) PROVE Space(x, r) <= Space(y, r)
    <3>0. PICK k \in 1..Len(ls) :
            \E e \in 1..Len(free[ls[k]]) : y = <<ls[k], e>> /\ Room(free[ls[k]], e, r)
      BY <1>1, <1>2, FitsAre
    <3>1. PICK e \in 1..Len(free[ls[k]]) : y = <<ls[k], e>> /\ Room(free[ls[k]], e, r)
      BY <3>0
    <3>2. PICK gl : gl = free[ls[k]]
      OBVIOUS
    <3>3. b.space <= Left(gl, e, r)
      BY <1>6, <3>1, <3>2 DEF Unbeaten
    <3>4. Left(fl, i, r) <= b.space
      BY <2>3, <2>4, <2>8
    <3>5. gl \in Seq(Blocks) /\ e \in 1..Len(gl)
      BY <1>3, <3>1, <3>2, PagesTyped
    <3>6. Left(gl, e, r) \in Int /\ Left(fl, i, r) \in Int /\ Left(fl, j, r) \in Int
      BY <2>3, <2>5, <2>8, <3>5, RoomIs
    <3>7. Space(y, r) = Left(gl, e, r)
      BY <3>1, <3>2 DEF Space, Left
    <3>8. Space(x, r) = Left(fl, i, r)
      BY <2>4, <2>13 DEF Space, Left
    <3>9. PICK d, f, g : d = Left(fl, i, r) /\ f = b.space /\ g = Left(gl, e, r)
      OBVIOUS
    <3>10. d \in Int /\ f \in Int /\ g \in Int /\ d <= f /\ f <= g
      BY <2>4, <3>3, <3>4, <3>6, <3>9
    <3> QED
      BY <3>7, <3>8, <3>9, <3>10
  <2>16. BestBlock(block, r)
    BY <2>4, <2>13, <2>14, <2>15 DEF BestBlock
  <2> QED
    BY <2>11, <2>13, <2>16
<1> QED
  BY <1>8, <1>9

\* Only the search takes a task from idle to a block or to a new page.
LEMMA OnlyTheSearch ==
  ASSUME SlobInv, [Next]_vars, NEW t \in Tasks, call[t] = Idle,
         call'[t].pc \in {"count", "newpage"}
  PROVE  \E r \in Requests : AllocFromLists(t, r)
<1>1. call \in [Tasks -> Calls] /\ Idle.pc = "idle"
  BY DEF SlobInv, CallsSound, Idle
<1>2. call'[t] # Idle
  BY <1>1
<1>3. ASSUME NEW u \in Tasks, u # t, NEW c, call' = [call EXCEPT ![u] = c] PROVE FALSE
  BY <1>1, <1>2, <1>3
<1>4. ASSUME NEW c, call' = [call EXCEPT ![t] = c], c.pc \notin {"count", "newpage"} PROVE FALSE
  BY <1>1, <1>4
<1>5. CASE UNCHANGED vars
  BY <1>2, <1>5 DEF vars
<1>6. ASSUME NEW u \in Tasks, NEW r \in Requests, AllocFromLists(u, r)
      PROVE  \E q \in Requests : AllocFromLists(t, q)
  <2>1. \E c : call' = [call EXCEPT ![u] = c]
    BY <1>6 DEF AllocFromLists, PageAlloc
  <2>2. u = t
    BY <1>3, <2>1
  <2> QED
    BY <1>6, <2>2
<1>7. ASSUME NEW u \in Tasks, NewPage(u) \/ InsertPage(u) \/ Count(u) \/ FreePages(u) PROVE FALSE
  <2>1. \E c : call' = [call EXCEPT ![u] = c]
    BY <1>7 DEF NewPage, InsertPage, PageAlloc, Count, FreePages
  <2>2. u = t
    BY <1>3, <2>1
  <2>3. call[u].pc # "idle"
    BY <1>7 DEF NewPage, InsertPage, Count, FreePages
  <2> QED
    BY <1>1, <2>2, <2>3
<1>8. ASSUME NEW u \in Tasks, NEW b \in used, Free(u, b) PROVE FALSE
  <2>1. call' = call \/ call' = [call EXCEPT ![u] = [pc |-> "release", page |-> b.page]]
    BY <1>8 DEF Free
  <2>2. call' = [call EXCEPT ![u] = [pc |-> "release", page |-> b.page]]
    BY <1>2, <2>1
  <2>3. u = t
    BY <1>3, <2>2
  <2> QED
    BY <1>4, <2>2, <2>3
<1>9. ASSUME NEW u \in Tasks,
             \/ \E order \in Orders : LargeAlloc(u, order)
             \/ \E frames \in large : LargeFree(u, frames)
      PROVE  FALSE
  BY <1>2, <1>9 DEF LargeAlloc, LargeFree
<1> QED
  BY <1>5, <1>6, <1>7, <1>8, <1>9 DEF Next

\* What slob_alloc hands out from its lists is a best fit, and it takes a new page only
\* if no block has room: neither its early exits nor the test that skips a page lose one.
THEOREM BestFitHolds == Spec => BestFit
<1>1. ASSUME SlobInv, [Next]_vars, NEW t \in Tasks, call[t] = Idle,
             call'[t].pc \in {"count", "newpage"}
      PROVE  LET r == call'[t].req
             IN  IF Fits(r) = {} THEN call'[t].pc = "newpage"
                 ELSE /\ call'[t].pc = "count"
                      /\ \E x \in Fits(r) :
                           /\ x[1] = call'[t].block.page
                           /\ Covers(free[x[1]][x[2]], call'[t].block.at)
                           /\ \A y \in Fits(r) : Space(x, r) <= Space(y, r)
  <2>1. PICK r \in Requests : AllocFromLists(t, r)
    BY <1>1, OnlyTheSearch
  <2>2. /\ call'[t].req = r
        /\ IF Fits(r) = {} THEN call'[t].pc = "newpage"
           ELSE call'[t].pc = "count" /\ BestBlock(call'[t].block, r)
    BY <1>1, <2>1, AllocIsBestFit
  <2> QED
    BY <2>2 DEF BestBlock
<1> DEFINE Best ==
      \A t \in Tasks :
        call[t] = Idle /\ call'[t].pc \in {"count", "newpage"}
        => LET r == call'[t].req
           IN  IF Fits(r) = {} THEN call'[t].pc = "newpage"
               ELSE /\ call'[t].pc = "count"
                    /\ \E x \in Fits(r) :
                         /\ x[1] = call'[t].block.page
                         /\ Covers(free[x[1]][x[2]], call'[t].block.at)
                         /\ \A y \in Fits(r) : Space(x, r) <= Space(y, r)
<1>2. SlobInv /\ [Next]_vars => [Best]_vars
  BY <1>1
<1> HIDE DEF Best
<1>3. [][Next]_vars /\ []SlobInv => [][Best]_vars
  BY <1>2, PTL
<1>4. Spec => [][Best]_vars
  BY <1>3, SlobInvariance, PTL DEF Spec
<1> QED
  BY <1>4 DEF Best, BestFit

=============================================================================
