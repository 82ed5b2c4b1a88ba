---------------------------- MODULE SchedulerProofs ----------------------------
(***************************************************************************)
(* Proofs about Scheduler, for every number of tasks and any clock.        *)
(***************************************************************************)
EXTENDS Scheduler, NumberProofs, FiniteSetTheorems, SequenceTheorems

\* A sequence without the element at position k.
Without(s, k) == SubSeq(s, 1, k - 1) \o SubSeq(s, k + 1, Len(s))

\* Its elements.
LEMMA WithoutOne ==
  ASSUME NEW S, NEW s \in Seq(S), NEW k \in 1..Len(s)
  PROVE  /\ Without(s, k) \in Seq(S)
         /\ Len(Without(s, k)) = Len(s) - 1
         /\ \A i \in 1..(Len(s) - 1) :
              Without(s, k)[i] = IF i < k THEN s[i] ELSE s[i + 1]
<1> DEFINE a == SubSeq(s, 1, k - 1)
           b == SubSeq(s, k + 1, Len(s))
           n == Len(s)
<1>1. n \in Nat /\ k \in 1..n /\ \A i \in 1..n : s[i] \in S
  OBVIOUS
<1>2. a \in Seq(S) /\ Len(a) = k - 1
  BY <1>1
<1>3. ASSUME NEW i \in 1..(k - 1) PROVE a[i] = s[i]
  BY <1>1
<1>4. /\ b \in Seq(S) /\ Len(b) = IF k + 1 <= n THEN n - (k + 1) + 1 ELSE 0
      /\ \A i \in 1..(n - (k + 1) + 1) : b[i] = s[(k + 1) + i - 1]
  <2>1. k + 1 \in Int /\ n \in Int /\ \A i \in (k + 1)..n : s[i] \in S
    BY <1>1
  <2> HIDE DEF n
  <2> QED
    BY <2>1, SubSeqProperties DEF n
<1> HIDE DEF a, b, n
<1>5. Len(b) = n - k
  BY <1>1, <1>4
<1>6. ASSUME NEW i \in 1..(n - k) PROVE b[i] = s[i + k]
  <2>1. i \in 1..(n - (k + 1) + 1) /\ (k + 1) + i - 1 = i + k
    BY <1>1
  <2> QED
    BY <1>4, <2>1
<1>7. /\ a \o b \in Seq(S) /\ Len(a \o b) = Len(a) + Len(b)
      /\ \A i \in 1..(Len(a) + Len(b)) : (a \o b)[i] = IF i <= Len(a) THEN a[i] ELSE b[i - Len(a)]
  BY <1>2, <1>4, ConcatProperties
<1>8. Len(a \o b) = n - 1
  BY <1>1, <1>2, <1>5, <1>7
<1>9. ASSUME NEW i \in 1..(n - 1)
      PROVE  (a \o b)[i] = IF i < k THEN s[i] ELSE s[i + 1]
  <2>1. i \in 1..(Len(a) + Len(b)) /\ (i <= Len(a) <=> i < k)
    BY <1>1, <1>2, <1>5
  <2>2. CASE i < k
    BY <1>1, <1>3, <1>7, <2>1, <2>2
  <2>3. CASE ~ (i < k)
    <3>1. i - Len(a) \in 1..(n - k) /\ (i - Len(a)) + k = i + 1
      BY <1>1, <1>2, <2>3
    <3>2. b[i - Len(a)] = s[i + 1]
      BY <1>6, <3>1
    <3> QED
      BY <1>7, <2>1, <2>3, <3>2
  <2> QED
    BY <2>2, <2>3
<1> QED
  BY <1>7, <1>8, <1>9 DEF a, b, n, Without

-----------------------------------------------------------------------------
(* The ring.                                                               *)

\* The i-th task behind the head, the head being before the first and behind the
\* last.
At(s, i) == IF i = 0 \/ i = Len(s) + 1 THEN Seed ELSE s[i]

\* The links nx and pv make the tasks of s a ring behind the head, each once, and
\* every other task has no links.
IsRing(nx, pv, s) ==
  /\ s \in Seq(Tasks)
  /\ \A i, j \in 1..Len(s) : s[i] = s[j] => i = j
  /\ \A i \in 0..Len(s) : nx[At(s, i)] = At(s, i + 1) /\ pv[At(s, i + 1)] = At(s, i)
  /\ \A t \in Tasks : (\A i \in 1..Len(s) : s[i] # t) => nx[t] = Null /\ pv[t] = Null

\* The equation of the function that Ring defines by recursion.
IsWalk(nx, w) ==
  w = [i \in Nat |->
         IF i = 0 THEN nx[Seed]
         ELSE IF w[i - 1] \in {Seed, Null} THEN Seed ELSE nx[w[i - 1]]]

\* Along a ring the equation has one solution: the tasks in order, then the head.
LEMMA WalkAlongRing ==
  ASSUME NEW nx, NEW pv, NEW s, IsRing(nx, pv, s), NEW w
  PROVE  IsWalk(nx, w) <=> w = [i \in Nat |-> IF i < Len(s) THEN s[i + 1] ELSE Seed]
<1> DEFINE walk == [i \in Nat |-> IF i < Len(s) THEN s[i + 1] ELSE Seed]
<1>1. Len(s) \in Nat /\ \A i \in 1..Len(s) : s[i] \in Tasks
  BY DEF IsRing
<1>2. nx[Seed] = walk[0]
  BY <1>1 DEF IsRing, At
<1>3. ASSUME NEW i \in Nat \ {0}
      PROVE  walk[i] = IF walk[i - 1] \in {Seed, Null} THEN Seed ELSE nx[walk[i - 1]]
  <2>1. CASE i <= Len(s)
    <3>1. walk[i - 1] = s[i] /\ s[i] \notin {Seed, Null}
      BY <1>1, <2>1, TasksFinite
    <3>2. nx[s[i]] = IF i = Len(s) THEN Seed ELSE s[i + 1]
      BY <1>1, <2>1 DEF IsRing, At
    <3> QED
      BY <1>1, <2>1, <3>1, <3>2
  <2>2. CASE i > Len(s)
    BY <1>1, <2>2
  <2> QED
    BY <1>1, <2>1, <2>2
<1>4. IsWalk(nx, walk)
  <2>1. \A i \in Nat : walk[i] = IF i = 0 THEN nx[Seed]
                                 ELSE IF walk[i - 1] \in {Seed, Null} THEN Seed
                                 ELSE nx[walk[i - 1]]
    BY <1>2, <1>3
  <2>2. walk = [i \in Nat |-> walk[i]]
    OBVIOUS
  <2> HIDE DEF walk
  <2> QED
    BY <2>1, <2>2 DEF IsWalk
<1>5. ASSUME IsWalk(nx, w) PROVE w = walk
  <2> DEFINE wrong == {i \in Nat : w[i] # walk[i]}
  <2>1. w = [i \in Nat |-> w[i]]
    BY <1>5 DEF IsWalk
  <2>2. \A i \in Nat : w[i] = IF i = 0 THEN nx[Seed]
                              ELSE IF w[i - 1] \in {Seed, Null} THEN Seed ELSE nx[w[i - 1]]
    BY <1>5 DEF IsWalk
  <2>3. ASSUME wrong # {} PROVE FALSE
    <3>1. wrong \in SUBSET Nat
      OBVIOUS
    <3>2. Min(wrong) \in wrong /\ \A i \in wrong : Min(wrong) <= i
      <4> HIDE DEF wrong
      <4> QED
        BY <2>3, <3>1, MinOfNaturals
    <3>3. PICK m \in Nat : w[m] # walk[m] /\ \A i \in Nat : w[i] # walk[i] => m <= i
      BY <3>2
    <3> HIDE DEF walk, wrong
    <3>4. m # 0
      BY <1>2, <2>2, <3>3
    <3>5. m - 1 \in Nat /\ w[m - 1] = walk[m - 1]
      BY <3>3, <3>4
    <3> QED
      BY <1>3, <2>2, <3>3, <3>4, <3>5
  <2> QED
    BY <2>1, <2>3
<1> QED
  BY <1>4, <1>5

\* The loops over a ring, bounded by nr_running, meet its tasks in order.
LEMMA RingIs ==
  ASSUME NEW nx, NEW pv, NEW s, IsRing(nx, pv, s)
  PROVE  Ring(nx, Len(s) + 1) = s
<1> DEFINE walk == [i \in Nat |-> IF i < Len(s) THEN s[i + 1] ELSE Seed]
           W == CHOOSE w : IsWalk(nx, w)
           visited == {i \in 0..((Len(s) + 1) - 1) : W[i] # Seed}
<1>1. Len(s) \in Nat /\ \A i \in 1..Len(s) : s[i] \in Tasks
  BY DEF IsRing
<1>2. W = walk
  BY WalkAlongRing
<1>3. Ring(nx, Len(s) + 1) = [i \in 1..Cardinality(visited) |-> W[i - 1]]
  BY DEF Ring, IsWalk
<1> HIDE DEF W
<1>4. visited = 0..(Len(s) - 1)
  <2>1. ASSUME NEW i \in Nat PROVE walk[i] # Seed <=> i < Len(s)
    BY <1>1, TasksFinite
  <2> HIDE DEF walk
  <2> QED
    BY <1>1, <1>2, <2>1
<1>5. Cardinality(visited) = Len(s)
  <2>1. Cardinality(0..(Len(s) - 1)) = IF 0 > Len(s) - 1 THEN 0 ELSE (Len(s) - 1) - 0 + 1
    <3>1. 0 \in Int /\ Len(s) - 1 \in Int
      BY <1>1
    <3> QED
      BY <3>1, FS_Interval
  <2>2. Cardinality(0..(Len(s) - 1)) = Len(s)
    BY <1>1, <2>1
  <2> HIDE DEF visited
  <2> QED
    BY <1>4, <2>2
<1> HIDE DEF visited
<1>6. s = [i \in 1..Len(s) |-> s[i]]
  BY DEF IsRing
<1>7. \A i \in 1..Len(s) : walk[i - 1] = s[i]
  BY <1>1
<1> QED
  BY <1>2, <1>3, <1>5, <1>6, <1>7

\* The head and the tasks of a ring are different from each other.
LEMMA RingPositions ==
  ASSUME NEW nx, NEW pv, NEW s, IsRing(nx, pv, s)
  PROVE  /\ Len(s) \in Nat
         /\ \A i \in 1..Len(s) : s[i] \in Tasks /\ At(s, i) = s[i] /\ s[i] \in All
         /\ At(s, 0) = Seed /\ At(s, Len(s) + 1) = Seed
         /\ \A i \in 0..(Len(s) + 1) : At(s, i) \in All
         /\ \A i, j \in 1..(Len(s) + 1) : At(s, i) = At(s, j) => i = j
         /\ \A i, j \in 0..Len(s) : At(s, i) = At(s, j) => i = j
<1>1. Len(s) \in Nat /\ \A i \in 1..Len(s) : s[i] \in Tasks /\ s[i] # Seed
  BY TasksFinite DEF IsRing
<1>2. At(s, 0) = Seed /\ At(s, Len(s) + 1) = Seed /\ \A i \in 1..Len(s) : At(s, i) = s[i]
  BY <1>1 DEF At
<1>3. \A i \in 0..(Len(s) + 1) : At(s, i) \in All
  BY <1>1, <1>2 DEF All, At
<1>4. \A i, j \in 1..Len(s) : s[i] = s[j] => i = j
  BY DEF IsRing
<1>5. \A i, j \in 1..(Len(s) + 1) : At(s, i) = At(s, j) => i = j
  BY <1>1, <1>4 DEF At
<1>6. \A i, j \in 0..Len(s) : At(s, i) = At(s, j) => i = j
  BY <1>1, <1>4 DEF At
<1> QED
  BY <1>1, <1>2, <1>3, <1>5, <1>6 DEF All

\* Linking a task behind the head puts it before the others.
LEMMA LinkedRing ==
  ASSUME NEW nx, NEW pv, NEW s, IsRing(nx, pv, s), NEW t \in Tasks,
         \A i \in 1..Len(s) : s[i] # t,
         NEW nx2, nx2[Seed] = t, nx2[t] = nx[Seed],
         \A x \in All \ {t, Seed} : nx2[x] = nx[x],
         NEW pv2, pv2[t] = Seed, pv2[nx[Seed]] = t,
         \A x \in All \ {t, nx[Seed]} : pv2[x] = pv[x]
  PROVE  IsRing(nx2, pv2, <<t>> \o s)
<1> DEFINE u == <<t>> \o s
<1>1. /\ u \in Seq(Tasks) /\ Len(u) = Len(s) + 1 /\ u[1] = t
      /\ \A i \in 1..Len(s) : u[i + 1] = s[i]
      /\ Len(s) \in Nat
  BY DEF IsRing
<1> HIDE DEF u
<1>2. /\ At(u, 0) = Seed /\ At(u, 1) = t
      /\ \A i \in 1..(Len(s) + 1) : At(u, i + 1) = At(s, i)
  BY <1>1 DEF At
<1>3. \A i, j \in 1..Len(u) : u[i] = u[j] => i = j
  <2>1. \A i, j \in 1..Len(s) : s[i] = s[j] => i = j
    BY DEF IsRing
  <2>2. ASSUME NEW i \in 1..Len(u), i # 1
        PROVE  i - 1 \in 1..Len(s) /\ u[i] = s[i - 1] /\ u[i] # t
    <3>1. i - 1 \in 1..Len(s) /\ (i - 1) + 1 = i
      BY <1>1, <2>2
    <3> QED
      BY <1>1, <3>1
  <2>3. SUFFICES ASSUME NEW i \in 1..Len(u), NEW j \in 1..Len(u), u[i] = u[j] PROVE i = j
    OBVIOUS
  <2>4. CASE i = 1 \/ j = 1
    BY <1>1, <2>2, <2>3, <2>4
  <2>5. CASE i # 1 /\ j # 1
    <3>1. i - 1 = j - 1
      BY <2>1, <2>2, <2>3, <2>5
    <3> QED
      BY <3>1
  <2> QED
    BY <2>4, <2>5
<1>4. /\ nx[Seed] = At(s, 1) /\ t # Seed /\ At(s, 1) # t
      /\ \A i \in 0..Len(s) : nx[At(s, i)] = At(s, i + 1) /\ pv[At(s, i + 1)] = At(s, i)
      /\ \A i \in 1..(Len(s) + 1) : At(s, i) \in All \ {t}
  <2>1. \A i \in 0..Len(s) : nx[At(s, i)] = At(s, i + 1) /\ pv[At(s, i + 1)] = At(s, i)
    BY DEF IsRing
  <2>2. t # Seed
    BY TasksFinite
  <2>3. \A i \in 1..(Len(s) + 1) : At(s, i) \in All \ {t}
    <3>1. \A i \in 0..(Len(s) + 1) : At(s, i) \in All
      BY RingPositions
    <3>2. \A i \in 1..(Len(s) + 1) : At(s, i) # t
      BY <1>1, <2>2 DEF At
    <3> QED
      BY <1>1, <3>1, <3>2
  <2>4. nx[Seed] = At(s, 1) /\ At(s, 1) # t
    <3>1. 0 \in 0..Len(s) /\ 1 \in 1..(Len(s) + 1) /\ 0 + 1 = 1 /\ At(s, 0) = Seed
      BY <1>1 DEF At
    <3> QED
      BY <2>1, <2>3, <3>1
  <2> QED
    BY <2>1, <2>2, <2>3, <2>4
<1>5. ASSUME NEW i \in 0..Len(u)
      PROVE  nx2[At(u, i)] = At(u, i + 1) /\ pv2[At(u, i + 1)] = At(u, i)
  <2>1. CASE i = 0
    BY <1>2, <2>1
  <2>2. CASE i = 1
    <3>1. 1 \in 1..(Len(s) + 1)
      BY <1>1
    <3> QED
      BY <1>2, <1>4, <2>2, <3>1
  <2>3. CASE i > 1
    <3>1. PICK j \in 1..Len(s) : i = j + 1
      <4>1. i - 1 \in 1..Len(s) /\ i = (i - 1) + 1
        BY <1>1, <2>3
      <4> QED
        BY <4>1
    <3>2. At(u, i) = At(s, j) /\ At(u, i + 1) = At(s, j + 1)
      BY <1>1, <1>2, <3>1
    <3>3. At(s, j) \in All \ {t, Seed} /\ At(s, j + 1) \in All \ {t, At(s, 1)}
      BY <1>1, <1>4, RingPositions, TasksFinite
    <3>4. nx[At(s, j)] = At(s, j + 1) /\ pv[At(s, j + 1)] = At(s, j)
      BY <1>4
    <3> QED
      BY <1>4, <3>2, <3>3, <3>4
  <2> QED
    BY <1>1, <2>1, <2>2, <2>3
<1>6. ASSUME NEW x \in Tasks, \A i \in 1..Len(u) : u[i] # x
      PROVE  nx2[x] = Null /\ pv2[x] = Null
  <2>1. x # t /\ \A i \in 1..Len(s) : s[i] # x
    BY <1>1, <1>6
  <2>2. nx[x] = Null /\ pv[x] = Null
    BY <2>1 DEF IsRing
  <2>3. x \in All \ {t, Seed} /\ x # At(s, 1)
    BY <1>1, <2>1, TasksFinite DEF All, At
  <2> QED
    BY <1>4, <2>2, <2>3
<1>7. IsRing(nx2, pv2, u)
  BY <1>1, <1>3, <1>5, <1>6 DEF IsRing
<1> QED
  BY <1>7 DEF u

\* Unlinking a task c, between a and b, closes the ring behind it.
LEMMA UnlinkedRing ==
  ASSUME NEW nx, NEW pv, NEW s, IsRing(nx, pv, s), NEW k \in 1..Len(s),
         NEW c, c = s[k], NEW a, a = pv[c], NEW b, b = nx[c],
         NEW nx2, nx2[c] = Null, nx2[a] = b, \A x \in All \ {c, a} : nx2[x] = nx[x],
         NEW pv2, pv2[c] = Null, pv2[b] = a, \A x \in All \ {c, b} : pv2[x] = pv[x]
  PROVE  /\ IsRing(nx2, pv2, Without(s, k))
         /\ Len(Without(s, k)) = Len(s) - 1
         /\ \A x \in Tasks :
              x # c /\ (\E i \in 1..Len(s) : s[i] = x)
              <=> \E i \in 1..Len(Without(s, k)) : Without(s, k)[i] = x
<1> DEFINE u == Without(s, k)
<1>1. /\ u \in Seq(Tasks) /\ Len(s) \in Nat /\ Len(u) = Len(s) - 1
      /\ \A i \in 1..Len(u) : u[i] = IF i < k THEN s[i] ELSE s[i + 1]
  <2>1. s \in Seq(Tasks) /\ Len(s) \in Nat
    BY DEF IsRing
  <2>2. Len(u) = Len(s) - 1
    BY <2>1, WithoutOne
  <2> QED
    BY <2>1, <2>2, WithoutOne
<1> HIDE DEF u
<1>2. ASSUME NEW i \in 0..Len(s)
      PROVE  At(u, i) = IF i < k THEN At(s, i) ELSE At(s, i + 1)
  <2>1. CASE i = 0
    BY <1>1, <2>1 DEF At
  <2>2. CASE i = Len(s)
    <3>1. i = Len(u) + 1 /\ ~ (i < k)
      BY <1>1, <2>2
    <3> QED
      BY <2>2, <3>1 DEF At
  <2>3. CASE i # 0 /\ i # Len(s)
    <3>1. i \in 1..Len(u) /\ i # Len(u) + 1 /\ i + 1 # Len(s) + 1 /\ i + 1 # 0 /\ i # Len(s) + 1
      BY <1>1, <2>3
    <3> QED
      BY <1>1, <2>3, <3>1 DEF At
  <2> QED
    BY <2>1, <2>2, <2>3
<1>3. /\ \A i \in 0..Len(s) : nx[At(s, i)] = At(s, i + 1) /\ pv[At(s, i + 1)] = At(s, i)
      /\ \A i, j \in 1..Len(s) : s[i] = s[j] => i = j
      /\ \A t \in Tasks : (\A i \in 1..Len(s) : s[i] # t) => nx[t] = Null /\ pv[t] = Null
  BY DEF IsRing
<1>4. /\ \A i \in 0..(Len(s) + 1) : At(s, i) \in All
      /\ \A i, j \in 1..(Len(s) + 1) : At(s, i) = At(s, j) => i = j
      /\ \A i, j \in 0..Len(s) : At(s, i) = At(s, j) => i = j
      /\ \A i \in 1..Len(s) : At(s, i) = s[i] /\ s[i] \in Tasks
  BY RingPositions
<1>5. c = At(s, k) /\ a = At(s, k - 1) /\ b = At(s, k + 1)
  <2>1. k - 1 \in 0..Len(s) /\ (k - 1) + 1 = k
    BY <1>1
  <2> QED
    BY <1>1, <1>3, <1>4, <2>1
<1>6. \A i, j \in 1..Len(u) : u[i] = u[j] => i = j
  <2>1. \A i \in 1..Len(u) : /\ (IF i < k THEN i ELSE i + 1) \in 1..Len(s)
                             /\ u[i] = s[IF i < k THEN i ELSE i + 1]
    BY <1>1
  <2> QED
    BY <1>1, <1>3, <2>1
<1>7. ASSUME NEW i \in 0..Len(u)
      PROVE  nx2[At(u, i)] = At(u, i + 1) /\ pv2[At(u, i + 1)] = At(u, i)
  <2> DEFINE p == IF i < k THEN i ELSE i + 1
             q == IF i + 1 < k THEN i + 1 ELSE i + 2
  <2>1. /\ At(u, i) = At(s, p) /\ At(u, i + 1) = At(s, q)
        /\ p \in 0..Len(s) /\ q \in 1..(Len(s) + 1)
        /\ p # k /\ q # k
        /\ p = k - 1 <=> q = k + 1
        /\ p # k - 1 => q = p + 1
    <3>1. i \in 0..Len(s) /\ i + 1 \in 0..Len(s)
      BY <1>1
    <3> QED
      BY <1>1, <1>2, <3>1
  <2> HIDE DEF p, q
  <2>2. CASE p = k - 1
    BY <1>5, <2>1, <2>2
  <2>3. CASE p # k - 1
    <3>1. /\ At(s, p) \in All \ {At(s, k), At(s, k - 1)}
          /\ At(s, q) \in All \ {At(s, k), At(s, k + 1)}
      <4>1. k \in 0..Len(s) /\ k - 1 \in 0..Len(s) /\ k \in 1..(Len(s) + 1)
            /\ k + 1 \in 1..(Len(s) + 1) /\ p \in 0..(Len(s) + 1) /\ q \in 0..(Len(s) + 1)
        BY <1>1, <2>1
      <4> QED
        BY <1>4, <2>1, <2>3, <4>1
    <3>2. nx[At(s, p)] = At(s, q) /\ pv[At(s, q)] = At(s, p)
      BY <1>3, <2>1, <2>3
    <3> QED
      BY <1>5, <2>1, <3>1, <3>2
  <2> QED
    BY <2>2, <2>3
<1>8. \A x \in Tasks : x # c /\ (\E i \in 1..Len(s) : s[i] = x) <=> \E i \in 1..Len(u) : u[i] = x
  <2> SUFFICES ASSUME NEW x \in Tasks
               PROVE  x # c /\ (\E i \in 1..Len(s) : s[i] = x) <=> \E i \in 1..Len(u) : u[i] = x
    OBVIOUS
  <2>1. ASSUME NEW i \in 1..Len(s), s[i] = x, x # c PROVE \E j \in 1..Len(u) : u[j] = x
    <3>1. i # k
      BY <2>1
    <3>2. CASE i < k
      BY <1>1, <2>1, <3>2
    <3>3. CASE i > k
      <4>1. i - 1 \in 1..Len(u) /\ ~ (i - 1 < k) /\ (i - 1) + 1 = i
        BY <1>1, <3>3
      <4> QED
        BY <1>1, <2>1, <4>1
    <3> QED
      BY <3>1, <3>2, <3>3
  <2>2. ASSUME NEW j \in 1..Len(u), u[j] = x PROVE x # c /\ \E i \in 1..Len(s) : s[i] = x
    <3> DEFINE i == IF j < k THEN j ELSE j + 1
    <3>1. i \in 1..Len(s) /\ i # k /\ s[i] = x
      BY <1>1, <2>2
    <3> HIDE DEF i
    <3> QED
      BY <1>3, <3>1
  <2> QED
    BY <2>1, <2>2
<1>9. ASSUME NEW x \in Tasks, \A i \in 1..Len(u) : u[i] # x
      PROVE  nx2[x] = Null /\ pv2[x] = Null
  <2>1. CASE x = c
    BY <2>1
  <2>2. CASE x # c
    <3>1. \A i \in 1..Len(s) : s[i] # x
      BY <1>8, <1>9, <2>2
    <3>2. nx[x] = Null /\ pv[x] = Null
      BY <1>3, <3>1
    <3>3. x \in All \ {c, a, b}
      <4>1. x # Seed /\ x \in All
        BY TasksFinite DEF All
      <4>2. \A i \in 0..(Len(s) + 1) : At(s, i) # x
        BY <1>1, <3>1, <4>1 DEF At
      <4>3. k - 1 \in 0..(Len(s) + 1) /\ k + 1 \in 0..(Len(s) + 1)
        BY <1>1
      <4> QED
        BY <1>5, <2>2, <4>1, <4>2, <4>3
    <3> QED
      BY <3>2, <3>3
  <2> QED
    BY <2>1, <2>2
<1>10. IsRing(nx2, pv2, u)
  BY <1>1, <1>6, <1>7, <1>9 DEF IsRing
<1> QED
  BY <1>1, <1>8, <1>10 DEF u

-----------------------------------------------------------------------------
(* The choice of the next task.                                            *)

\* The tasks of a ring have burst data with which schedule can compute: nothing
\* is negative, no unsigned difference wraps around.
Computable(ring, tk, now) ==
  /\ now \in Nat
  /\ \A i \in 1..Len(ring) :
       /\ tk[ring[i]].pred \in Nat
       /\ tk[ring[i]].lastRun \in Nat
       /\ tk[ring[i]].lastRun <= now

\* The goodness of every task is made of the same two numbers: m, 1 + the least
\* prediction, and W, 1 + the longest waiting time.
LEMMA GoodnessIs ==
  ASSUME NEW ring \in Seq(Tasks), ring # <<>>, NEW tk, NEW now, Computable(ring, tk, now)
  PROVE  \E m, W \in Nat \ {0} : \A i \in 1..Len(ring) :
           /\ WaitingInRQ(tk, now, ring[i]) \in 0..now
           /\ m <= 1 + tk[ring[i]].pred
           /\ 1 + WaitingInRQ(tk, now, ring[i]) <= W
           /\ Goodness(ring, tk, now, ring[i])
                = ((1 + tk[ring[i]].pred) \div m) * (W \div (1 + WaitingInRQ(tk, now, ring[i])))
<1> DEFINE preds == {tk[ring[i]].pred : i \in DOMAIN ring}
           waits == {WaitingInRQ(tk, now, ring[i]) : i \in DOMAIN ring}
           m == 1 + Min(preds)
           W == 1 + Max(waits)
<1>1. DOMAIN ring = 1..Len(ring) /\ Len(ring) \in Nat /\ 1 \in 1..Len(ring)
  OBVIOUS
<1>2. ASSUME NEW i \in 1..Len(ring) PROVE WaitingInRQ(tk, now, ring[i]) \in 0..now
  BY DEF Computable, WaitingInRQ
<1>3. Min(preds) \in preds /\ \A y \in preds : Min(preds) <= y
  <2>1. preds \in SUBSET Nat /\ preds # {}
    BY <1>1 DEF Computable
  <2> HIDE DEF preds
  <2> QED
    BY <2>1, MinOfNaturals
<1>4. Max(waits) \in waits /\ \A y \in waits : y <= Max(waits)
  <2>1. waits \in SUBSET Nat /\ waits # {} /\ \A y \in waits : y <= now
    <3>1. \A i \in 1..Len(ring) : /\ WaitingInRQ(tk, now, ring[i]) \in Nat
                                  /\ WaitingInRQ(tk, now, ring[i]) <= now
      BY <1>2 DEF Computable
    <3> QED
      BY <1>1, <3>1
  <2>2. now \in Nat
    BY DEF Computable
  <2> HIDE DEF waits
  <2> QED
    BY <2>1, <2>2, MaxOfNaturals
<1>5. \A i \in 1..Len(ring) : tk[ring[i]].pred \in preds /\ WaitingInRQ(tk, now, ring[i]) \in waits
  BY <1>1
<1>6. preds \in SUBSET Nat /\ waits \in SUBSET Nat
  <2>1. \A i \in 1..Len(ring) : WaitingInRQ(tk, now, ring[i]) \in Nat
    BY <1>2 DEF Computable
  <2> QED
    BY <1>1, <2>1 DEF Computable
<1>7. \A t : Goodness(ring, tk, now, t)
               = ((1 + tk[t].pred) \div m) * (W \div (1 + WaitingInRQ(tk, now, t)))
  BY DEF Goodness
<1> HIDE DEF preds, waits
<1>8. Min(preds) \in Nat /\ Max(waits) \in Nat
  BY <1>3, <1>4, <1>6
<1>9. ASSUME NEW i \in 1..Len(ring)
      PROVE  /\ m <= 1 + tk[ring[i]].pred
             /\ 1 + WaitingInRQ(tk, now, ring[i]) <= W
  <2>1. tk[ring[i]].pred \in Nat /\ WaitingInRQ(tk, now, ring[i]) \in Nat
    BY <1>5, <1>6
  <2>2. Min(preds) <= tk[ring[i]].pred /\ WaitingInRQ(tk, now, ring[i]) <= Max(waits)
    BY <1>3, <1>4, <1>5
  <2> QED
    BY <1>8, <2>1, <2>2
<1>10. m \in Nat \ {0} /\ W \in Nat \ {0}
  BY <1>8
<1> HIDE DEF m, W
<1> QED
  BY <1>2, <1>7, <1>9, <1>10

\* The search ends with a task of the ring, one of least goodness: curr is never
\* null.
LEMMA MinGoodnessIs ==
  ASSUME NEW ring \in Seq(Tasks), ring # <<>>, NEW tk, NEW now, Computable(ring, tk, now)
  PROVE  \E c \in 1..Len(ring) :
           /\ MinGoodness(ring, tk, now) = ring[c]
           /\ \A j \in 1..Len(ring) :
                Goodness(ring, tk, now, ring[c]) <= Goodness(ring, tk, now, ring[j])
<1> DEFINE G(i) == Goodness(ring, tk, now, ring[i])
           val == [i \in 1..Len(ring) |-> G(i)]
           least == {i \in 1..Len(ring) : \A j \in 1..Len(ring) : val[i] <= val[j]}
<1>1. DOMAIN ring = 1..Len(ring) /\ Len(ring) \in Nat \ {0}
  OBVIOUS
<1>2. ASSUME NEW i \in 1..Len(ring) PROVE G(i) \in Nat
  <2>1. PICK m \in Nat \ {0}, W \in Nat \ {0} :
          /\ WaitingInRQ(tk, now, ring[i]) \in 0..now
          /\ G(i) = ((1 + tk[ring[i]].pred) \div m)
                    * (W \div (1 + WaitingInRQ(tk, now, ring[i])))
    BY GoodnessIs
  <2> DEFINE p == 1 + tk[ring[i]].pred
             w == 1 + WaitingInRQ(tk, now, ring[i])
  <2>2. p \in Nat /\ w \in Nat \ {0}
    <3>1. tk[ring[i]].pred \in Nat /\ WaitingInRQ(tk, now, ring[i]) \in Nat
      BY <2>1 DEF Computable
    <3> QED
      BY <3>1
  <2> HIDE DEF p, w
  <2>3. p \div m \in Nat /\ W \div w \in Nat
    BY <2>2, Quotient
  <2>4. (p \div m) * (W \div w) \in Nat
    BY <2>3
  <2> QED
    BY <2>1, <2>4 DEF p, w
<1> HIDE DEF G
<1>3. val \in [1..Len(ring) -> Nat]
  BY <1>2
<1>4. Max(least) \in least
  <2> HIDE DEF val
  <2> QED
    BY <1>1, <1>3, LastOfLeast
<1>5. MinGoodness(ring, tk, now) = ring[Max(least)]
  <2>1. least = {i \in DOMAIN ring : \A j \in DOMAIN ring : G(i) <= G(j)}
    BY <1>1
  <2> QED
    BY <2>1 DEF MinGoodness, G
<1>6. Max(least) \in 1..Len(ring) /\ \A j \in 1..Len(ring) : G(Max(least)) <= G(j)
  BY <1>4
<1> QED
  BY <1>5, <1>6 DEF G

-----------------------------------------------------------------------------
(* The accounting.                                                         *)

TaskRec == [lastBurst : Nat, pred : Nat, lastRun : Nat, started : Nat, exec : Nat]

\* The times of a task are not ahead of the clock, and neither its burst nor its
\* prediction exceeds what it has executed.
Sound(d, now) ==
  /\ d \in TaskRec
  /\ d.lastRun <= now
  /\ d.started <= now
  /\ d.exec <= now
  /\ d.lastBurst <= d.exec
  /\ d.pred <= d.exec

\* Time passing leaves burst data sound.
LEMMA SoundLater ==
  ASSUME NEW d, NEW now \in Nat, NEW later \in Nat, now <= later, Sound(d, now)
  PROVE  Sound(d, later)
BY DEF Sound, TaskRec

\* Smoothing stays below a bound of both its arguments.
LEMMA SmoothedBound ==
  ASSUME NEW burst \in Nat, NEW prediction \in Nat, NEW e \in Nat,
         burst <= e, prediction <= e
  PROVE  Smoothed(burst, prediction) \in Nat /\ Smoothed(burst, prediction) <= e
<1> DEFINE q == (2 * burst + prediction) \div 3
<1>1. q \in Nat /\ 3 * q <= 2 * burst + prediction
  BY Quotient
<1> HIDE DEF q
<1>2. q <= e
  BY <1>1
<1> QED
  BY <1>1, <1>2 DEF Smoothed, q

\* A task that had the CPU since it was last charged is charged no more than the
\* time that has passed since then.
LEMMA ChargeSound ==
  ASSUME NEW d, NEW now \in Nat, Sound(d, now), d.exec <= d.started
  PROVE  /\ Sound(Charge(d, now), now)
         /\ Charge(d, now).exec >= d.exec
         /\ Charge(d, now).lastRun = d.lastRun
<1> DEFINE used == now - d.started
           burst == d.lastBurst + used
<1>1. used \in Nat /\ burst \in Nat /\ d.exec + used <= now /\ d.exec + used \in Nat
      /\ burst <= d.exec + used
  BY DEF Sound, TaskRec
<1>2. Smoothed(burst, d.pred) \in Nat /\ Smoothed(burst, d.pred) <= d.exec + used
  <2>1. d.pred \in Nat /\ d.pred <= d.exec + used
    BY <1>1 DEF Sound, TaskRec
  <2> HIDE DEF burst, used
  <2> QED
    BY <1>1, <2>1, SmoothedBound
<1>3. Charge(d, now) = [d EXCEPT !.lastBurst = burst, !.exec = d.exec + used,
                                 !.pred = Smoothed(burst, d.pred)]
  BY DEF Charge, Sound, TaskRec
<1> DEFINE p == Smoothed(burst, d.pred)
           e == d.exec + used
<1>4. p \in Nat /\ p <= e /\ e \in Nat /\ e <= now /\ burst \in Nat /\ burst <= e
  BY <1>1, <1>2
<1>5. Charge(d, now) = [d EXCEPT !.lastBurst = burst, !.exec = e, !.pred = p]
  BY <1>3
<1>6. e >= d.exec
  BY <1>1 DEF Sound, TaskRec
<1> HIDE DEF burst, used, e, p
<1>7. Charge(d, now) \in TaskRec
  BY <1>4, <1>5 DEF Sound, TaskRec
<1>8. /\ Charge(d, now).lastBurst = burst /\ Charge(d, now).pred = p
      /\ Charge(d, now).lastRun = d.lastRun /\ Charge(d, now).started = d.started
      /\ Charge(d, now).exec = e
  BY <1>5 DEF Sound, TaskRec
<1> QED
  BY <1>4, <1>6, <1>7, <1>8 DEF Sound

\* The end of a burst takes nothing from what was executed.
LEMMA EndBurstSound ==
  ASSUME NEW d, NEW now \in Nat, Sound(d, now)
  PROVE  /\ Sound(EndBurst(d), now)
         /\ EndBurst(d).exec = d.exec
         /\ EndBurst(d).lastRun = d.lastRun
<1>1. d.lastBurst \in Nat /\ d.pred \in Nat /\ d.exec \in Nat
      /\ d.lastBurst <= d.exec /\ d.pred <= d.exec
  BY DEF Sound, TaskRec
<1>2. Smoothed(d.lastBurst, d.pred) \in Nat /\ Smoothed(d.lastBurst, d.pred) <= d.exec
  BY <1>1, SmoothedBound
<1> DEFINE p == Smoothed(d.lastBurst, d.pred)
<1>3. EndBurst(d) = [d EXCEPT !.pred = p, !.lastBurst = 0] /\ p \in Nat
  BY <1>2 DEF EndBurst, Sound, TaskRec
<1> HIDE DEF p
<1>4. EndBurst(d) \in TaskRec
  <2>1. d \in TaskRec /\ 0 \in Nat
    BY DEF Sound
  <2>2. ASSUME NEW z \in Nat PROVE [d EXCEPT !.pred = p, !.lastBurst = z] \in TaskRec
    BY <1>3, <2>1 DEF TaskRec
  <2> QED
    BY <1>3, <2>1, <2>2
<1>5. /\ EndBurst(d).lastBurst = 0 /\ EndBurst(d).pred = p
      /\ EndBurst(d).lastRun = d.lastRun /\ EndBurst(d).started = d.started
      /\ EndBurst(d).exec = d.exec
  BY <1>3 DEF Sound, TaskRec
<1> QED
  BY <1>1, <1>2, <1>4, <1>5 DEF Sound, p

\* What the invariant says of the burst data at time now.
DataSound(now) ==
  /\ task \in [Tasks -> TaskRec \cup {Null}]
  /\ current \in Forked \cup {Seed}
  /\ \A t \in Forked : Sound(task[t], now)
  /\ current # Seed => task[current].exec <= task[current].started

\* Charging touches the data of the running task only.
LEMMA ChargedIs ==
  ASSUME NEW nx, NEW now \in Nat, DataSound(now)
  PROVE  /\ Charged(nx, now) \in [Tasks -> TaskRec \cup {Null}]
         /\ \A t \in Tasks \ {current} : Charged(nx, now)[t] = task[t]
         /\ \A t \in Forked : /\ Sound(Charged(nx, now)[t], now)
                              /\ Charged(nx, now)[t].exec >= task[t].exec
                              /\ Charged(nx, now)[t].lastRun = task[t].lastRun
<1>1. ASSUME NEW t \in Forked PROVE /\ Sound(task[t], now) /\ t \in Tasks
                                    /\ task[t].exec \in Nat
  BY DEF DataSound, Forked, Sound, TaskRec
<1>2. CASE current = Seed
  <2>1. Charged(nx, now) = task
    BY <1>2 DEF Charged
  <2> QED
    BY <1>1, <2>1 DEF DataSound
<1>3. CASE current # Seed
  <2> DEFINE d == task[current]
             c == Charge(d, now)
             new == IF nx[current] = Null THEN EndBurst(c) ELSE c
  <2>1. current \in Forked /\ current \in Tasks
    BY <1>3, TasksFinite DEF DataSound, Forked
  <2>2. Sound(d, now) /\ d.exec <= d.started
    BY <1>3, <2>1 DEF DataSound
  <2> HIDE DEF d
  <2>3. Sound(c, now) /\ c.exec >= d.exec /\ c.lastRun = d.lastRun
    BY <2>2, ChargeSound
  <2> HIDE DEF c
  <2>4. Sound(EndBurst(c), now) /\ EndBurst(c).exec = c.exec /\ EndBurst(c).lastRun = c.lastRun
    BY <2>3, EndBurstSound
  <2>5. Sound(new, now) /\ new.exec >= d.exec /\ new.lastRun = d.lastRun
    BY <2>3, <2>4
  <2>6. Charged(nx, now) = [task EXCEPT ![current] = new]
    BY <1>3, <2>1 DEF Charged, c, d, DataSound
  <2> HIDE DEF new
  <2>7. new \in TaskRec
    BY <2>5 DEF Sound
  <2> QED
    BY <1>1, <2>1, <2>5, <2>6, <2>7 DEF DataSound, d
<1> QED
  BY <1>2, <1>3

\* Giving the CPU to a forked task: its clock starts now, and the data of every
\* task stay sound.
LEMMA GiveCPUIs ==
  ASSUME NEW nx, NEW now \in Nat, DataSound(now), NEW t \in Forked
  PROVE  LET tk == GiveCPU(Charged(nx, now), now, t)
         IN  /\ tk \in [Tasks -> TaskRec \cup {Null}]
             /\ \A u \in Tasks : tk[u] = Null <=> task[u] = Null
             /\ \A u \in Forked : Sound(tk[u], now)
             /\ tk[t].exec <= tk[t].started
<1> DEFINE ch == Charged(nx, now)
           tk == GiveCPU(ch, now, t)
<1>1. /\ ch \in [Tasks -> TaskRec \cup {Null}]
      /\ \A u \in Tasks \ {current} : ch[u] = task[u]
      /\ \A u \in Forked : Sound(ch[u], now) /\ ch[u].exec >= task[u].exec
  BY ChargedIs
<1> HIDE DEF ch
<1>2. Null \notin TaskRec
  BY NullIsNoTaskData DEF TaskRec
<1>3. ASSUME NEW u \in Forked
      PROVE  Sound(tk[u], now) /\ (u = t => tk[u].exec <= tk[u].started)
  <2>1. u \in Tasks /\ Sound(ch[u], now) /\ ch[u].exec >= task[u].exec
    BY <1>1 DEF Forked
  <2>2. task[u].pred \in Nat /\ task[u].pred <= task[u].exec /\ task[u].exec \in Nat
    BY DEF DataSound, Sound, TaskRec
  <2> DEFINE d == ch[u]
  <2>3. tk[u] = IF u = t /\ u = current THEN [d EXCEPT !.started = now, !.pred = task[u].pred]
                ELSE IF u = t           THEN [d EXCEPT !.started = now]
                ELSE IF u = current     THEN [d EXCEPT !.lastRun = Max({now, d.lastRun})]
                ELSE d
    BY <2>1 DEF GiveCPU, Sound, TaskRec
  <2>4. Sound(d, now) /\ task[u].pred <= d.exec
    BY <2>1, <2>2 DEF Sound, TaskRec
  <2>5. Max({now, d.lastRun}) = now
    BY <2>4, MaxOfTwo DEF Sound, TaskRec
  <2> HIDE DEF d, tk
  <2>6. /\ d \in TaskRec /\ d.lastBurst \in Nat /\ d.pred \in Nat /\ d.lastRun \in Nat
        /\ d.started \in Nat /\ d.exec \in Nat /\ now <= now
        /\ d.lastRun <= now /\ d.exec <= now /\ d.lastBurst <= d.exec /\ d.pred <= d.exec
        /\ d.started <= now
    BY <2>4 DEF Sound, TaskRec
  <2>7. CASE u = t /\ u = current
    <3>1. tk[u] \in TaskRec
      BY <2>2, <2>3, <2>5, <2>6, <2>7 DEF TaskRec
    <3>2. /\ tk[u].lastBurst = d.lastBurst /\ tk[u].pred = task[u].pred
          /\ tk[u].lastRun = d.lastRun /\ tk[u].started = now /\ tk[u].exec = d.exec
      BY <2>3, <2>5, <2>6, <2>7 DEF TaskRec
    <3> QED
      BY <2>2, <2>4, <2>6, <2>7, <3>1, <3>2 DEF Sound
  <2>8. CASE u = t /\ u # current
    <3>1. tk[u] \in TaskRec
      BY <2>2, <2>3, <2>5, <2>6, <2>8 DEF TaskRec
    <3>2. /\ tk[u].lastBurst = d.lastBurst /\ tk[u].pred = d.pred
          /\ tk[u].lastRun = d.lastRun /\ tk[u].started = now /\ tk[u].exec = d.exec
      BY <2>3, <2>5, <2>6, <2>8 DEF TaskRec
    <3> QED
      BY <2>2, <2>4, <2>6, <2>8, <3>1, <3>2 DEF Sound
  <2>9. CASE u # t /\ u = current
    <3>1. tk[u] \in TaskRec
      BY <2>2, <2>3, <2>5, <2>6, <2>9 DEF TaskRec
    <3>2. /\ tk[u].lastBurst = d.lastBurst /\ tk[u].pred = d.pred
          /\ tk[u].lastRun = now /\ tk[u].started = d.started /\ tk[u].exec = d.exec
      BY <2>3, <2>5, <2>6, <2>9 DEF TaskRec
    <3> QED
      BY <2>2, <2>4, <2>6, <2>9, <3>1, <3>2 DEF Sound
  <2>10. CASE u # t /\ u # current
    BY <2>3, <2>4, <2>10
  <2> QED
    BY <2>7, <2>8, <2>9, <2>10
<1>4. ASSUME NEW u \in Tasks, task[u] = Null
      PROVE  tk[u] = Null
  <2>1. u # t /\ u # current
    <3>1. u \notin Forked /\ u # Seed
      BY <1>4, TasksFinite DEF Forked
    <3> QED
      BY <3>1 DEF DataSound
  <2>2. tk[u] = ch[u]
    BY <2>1 DEF GiveCPU
  <2> QED
    BY <1>1, <1>4, <2>1, <2>2
<1>5. ASSUME NEW u \in Tasks PROVE /\ tk[u] \in TaskRec \cup {Null}
                                   /\ tk[u] = Null <=> task[u] = Null
  <2>1. CASE u \in Forked
    <3>1. tk[u] \in TaskRec
      BY <1>3, <2>1 DEF Sound
    <3> HIDE DEF tk
    <3> QED
      BY <1>2, <2>1, <3>1 DEF Forked
  <2>2. CASE u \notin Forked
    <3>1. task[u] = Null
      BY <2>2 DEF Forked
    <3> QED
      BY <1>4, <3>1
  <2> QED
    BY <2>1, <2>2
<1>6. tk = [u \in Tasks |-> tk[u]]
  BY DEF GiveCPU
<1> HIDE DEF tk
<1>7. tk \in [Tasks -> TaskRec \cup {Null}]
  BY <1>5, <1>6
<1> QED
  BY <1>3, <1>5, <1>7 DEF tk, ch

\* schedule() on the ring s at time now: the seed task gets the CPU when the ring is
\* empty and a task of least goodness otherwise; burst data stay sound.
LEMMA ScheduleIs ==
  ASSUME NEW nx, NEW pv, NEW s, IsRing(nx, pv, s), \A i \in 1..Len(s) : s[i] \in Forked,
         NEW n, n = Len(s) + 1, NEW now \in Nat, DataSound(now), Schedule(nx, n, now)
  PROVE  /\ task' \in [Tasks -> TaskRec \cup {Null}]
         /\ \A t \in Tasks : task'[t] = Null <=> task[t] = Null
         /\ \A t \in Forked : Sound(task'[t], now)
         /\ \/ s = <<>> /\ current' = Seed
            \/ /\ s # <<>>
               /\ Computable(s, Charged(nx, now), now)
               /\ \E c \in 1..Len(s) :
                    /\ current' = s[c]
                    /\ \A j \in 1..Len(s) : Goodness(s, Charged(nx, now), now, s[c])
                                              <= Goodness(s, Charged(nx, now), now, s[j])
               /\ task'[current'].exec <= task'[current'].started
<1>1. s \in Seq(Tasks) /\ Len(s) \in Nat /\ (s = <<>> <=> Len(s) = 0)
  <2>1. s \in Seq(Tasks)
    BY DEF IsRing
  <2> QED
    BY <2>1, EmptySeq
<1>2. CASE n = 1
  <2>1. s = <<>> /\ current' = Seed /\ task' = task
    BY <1>1, <1>2 DEF Schedule
  <2> QED
    BY <2>1 DEF DataSound
<1>3. CASE n # 1
  <2> DEFINE tk == Charged(nx, now)
  <2>1. s # <<>> /\ Ring(nx, n) = s
    BY <1>1, <1>3, RingIs
  <2>2. current' = MinGoodness(s, tk, now) /\ task' = GiveCPU(tk, now, current')
    BY <1>3, <2>1 DEF Schedule
  <2>3. Computable(s, tk, now)
    <3>1. ASSUME NEW i \in 1..Len(s) PROVE Sound(tk[s[i]], now)
      BY ChargedIs
    <3> HIDE DEF tk
    <3> QED
      BY <3>1 DEF Computable, Sound, TaskRec
  <2>4. PICK c \in 1..Len(s) :
          /\ current' = s[c]
          /\ \A j \in 1..Len(s) : Goodness(s, tk, now, s[c]) <= Goodness(s, tk, now, s[j])
    <3> HIDE DEF tk
    <3> QED
      BY <1>1, <2>1, <2>2, <2>3, MinGoodnessIs
  <2>5. current' \in Forked
    BY <2>4
  <2>6. /\ task' \in [Tasks -> TaskRec \cup {Null}]
        /\ \A t \in Tasks : task'[t] = Null <=> task[t] = Null
        /\ \A t \in Forked : Sound(task'[t], now)
        /\ task'[current'].exec <= task'[current'].started
    BY <2>2, <2>5, GiveCPUIs
  <2> QED
    BY <2>1, <2>3, <2>4, <2>6
<1> QED
  BY <1>2, <1>3

-----------------------------------------------------------------------------
(* The inductive invariant.                                                *)

\* Some list of forked tasks makes the ring, it is the one the loops go through,
\* and the CPU is with one of its tasks or with the seed task.
RingInv ==
  /\ next \in [All -> All \cup {Null}]
  /\ prev \in [All -> All \cup {Null}]
  /\ IsRing(next, prev, Queue)
  /\ nrRunning = Len(Queue) + 1
  /\ \A i \in 1..Len(Queue) : Queue[i] \in Forked
  /\ current = Seed \/ \E i \in 1..Len(Queue) : Queue[i] = current

\* No part is inductive alone: who is chosen is in the ring because its loops end,
\* the loops end because links are those of a list, a task may be linked behind the
\* head because it is in no list, and goodness exists because no time is ahead of
\* the clock.
Inv ==
  /\ clock \in Times
  /\ RingInv
  /\ DataSound(clock)

\* A task has links exactly when it is in the ring.
LEMMA LinkedIs ==
  ASSUME NEW nx \in [All -> All \cup {Null}], NEW pv, NEW s, IsRing(nx, pv, s)
  PROVE  /\ nx[Seed] # Null
         /\ \A t \in Tasks : nx[t] = Null <=> \A i \in 1..Len(s) : s[i] # t
<1>1. /\ \A i \in 0..Len(s) : nx[At(s, i)] = At(s, i + 1)
      /\ \A t \in Tasks : (\A i \in 1..Len(s) : s[i] # t) => nx[t] = Null
  BY DEF IsRing
<1>2. /\ Len(s) \in Nat /\ At(s, 0) = Seed
      /\ \A i \in 1..Len(s) : At(s, i) = s[i]
      /\ \A i \in 0..(Len(s) + 1) : At(s, i) \in All
  BY RingPositions
<1>3. Null \notin All
  BY TasksFinite DEF All
<1>4. ASSUME NEW i \in 0..Len(s) PROVE nx[At(s, i)] # Null
  <2>1. i + 1 \in 0..(Len(s) + 1)
    BY <1>2
  <2> QED
    BY <1>1, <1>2, <1>3, <2>1
<1> QED
  BY <1>1, <1>2, <1>4

\* The ring of the next state, once its list is known.
LEMMA RingInvNext ==
  ASSUME NEW s, IsRing(next', prev', s), nrRunning' = Len(s) + 1,
         next' \in [All -> All \cup {Null}], prev' \in [All -> All \cup {Null}],
         \A i \in 1..Len(s) : s[i] \in Forked',
         current' = Seed \/ \E i \in 1..Len(s) : s[i] = current'
  PROVE  RingInv' /\ Queue' = s
<1>1. Queue' = s
  <2>1. Ring(next', Len(s) + 1) = s
    BY RingIs
  <2> QED
    BY <2>1 DEF Queue
<1> QED
  BY <1>1 DEF RingInv

\* The machine starts with the empty ring.
LEMMA InitInv == Init => Inv /\ Queue = <<>>
<1> SUFFICES ASSUME Init PROVE Inv /\ Queue = <<>>
  OBVIOUS
<1>1. /\ next = [t \in All |-> IF t = Seed THEN Seed ELSE Null] /\ prev = next
      /\ nrRunning = 1 /\ current = Seed /\ clock = 0 /\ task = [t \in Tasks |-> Null]
  BY DEF Init
<1>2. /\ next \in [All -> All \cup {Null}] /\ next[Seed] = Seed
      /\ \A t \in Tasks : next[t] = Null
  BY <1>1, TasksFinite DEF All
<1>3. <<>> \in Seq(Tasks) /\ Len(<<>>) = 0
  OBVIOUS
<1>4. IsRing(next, prev, <<>>)
  BY <1>1, <1>2, <1>3 DEF IsRing, At
<1>5. Queue = <<>>
  BY <1>1, <1>3, <1>4, RingIs DEF Queue
<1>6. RingInv
  BY <1>1, <1>2, <1>3, <1>4, <1>5 DEF RingInv
<1>7. Forked = {}
  BY <1>1 DEF Forked
<1>8. DataSound(clock) /\ clock \in Times
  BY <1>1, <1>7, TimesNatural DEF DataSound, Times
<1> QED
  BY <1>5, <1>6, <1>8 DEF Inv

-----------------------------------------------------------------------------
(* Each call preserves the invariant, and does to the list of ready tasks  *)
(* what its name says.                                                     *)

\* wake_up_new_task and activate_task.
LEMMA EnqueueInv ==
  ASSUME Inv, NEW t \in Tasks, next[t] = Null, NEW tk, Sound(tk, clock), Enqueue(t, tk)
  PROVE  /\ Inv'
         /\ Queue' = <<t>> \o Queue
         /\ \A i \in 1..Len(Queue) : Queue[i] # t
<1> USE DEF Inv
<1>1. /\ next \in [All -> All \cup {Null}] /\ prev \in [All -> All \cup {Null}]
      /\ IsRing(next, prev, Queue) /\ nrRunning = Len(Queue) + 1
      /\ \A i \in 1..Len(Queue) : Queue[i] \in Forked
      /\ current = Seed \/ \E i \in 1..Len(Queue) : Queue[i] = current
  BY DEF RingInv
<1>2. /\ next' = [next EXCEPT ![t] = next[Seed], ![Seed] = t]
      /\ prev' = [prev EXCEPT ![next[Seed]] = t, ![t] = Seed]
      /\ nrRunning' = nrRunning + 1
      /\ task' = [task EXCEPT ![t] = [tk EXCEPT !.lastRun = Max({clock, tk.lastRun})]]
      /\ clock' = clock /\ current' = current
  BY DEF Enqueue, LinkBehindHead, Sound, TaskRec
<1>3. t \in All /\ Seed \in All /\ t # Seed
  BY TasksFinite DEF All
<1>4. /\ \A i \in 1..Len(Queue) : Queue[i] # t
      /\ next[Seed] \in All /\ next[Seed] # t
  <2>1. \A i \in 1..Len(Queue) : Queue[i] # t
    BY <1>1, LinkedIs
  <2>2. Len(Queue) \in Nat /\ At(Queue, 0) = Seed /\ At(Queue, 1) \in All
    BY <1>1, RingPositions
  <2>3. next[Seed] = At(Queue, 1)
    <3>1. 0 \in 0..Len(Queue) /\ 0 + 1 = 1
      BY <2>2
    <3> QED
      BY <1>1, <2>2, <3>1 DEF IsRing
  <2>4. At(Queue, 1) # t
    BY <1>3, <2>1, <2>2 DEF At
  <2> QED
    BY <2>1, <2>2, <2>3, <2>4
<1>5. /\ next'[Seed] = t /\ next'[t] = next[Seed]
      /\ \A x \in All \ {t, Seed} : next'[x] = next[x]
      /\ next' \in [All -> All \cup {Null}]
  BY <1>1, <1>2, <1>3, <1>4
<1>6. /\ prev'[t] = Seed /\ prev'[next[Seed]] = t
      /\ \A x \in All \ {t, next[Seed]} : prev'[x] = prev[x]
      /\ prev' \in [All -> All \cup {Null}]
  BY <1>1, <1>2, <1>3, <1>4
<1> DEFINE u == <<t>> \o Queue
<1>7. IsRing(next', prev', u)
  BY <1>1, <1>4, <1>5, <1>6, LinkedRing
<1>8. /\ Len(u) = Len(Queue) + 1 /\ Len(Queue) \in Nat /\ u[1] = t
      /\ \A i \in 1..Len(Queue) : u[i + 1] = Queue[i]
  <2>1. Queue \in Seq(Tasks)
    BY <1>1 DEF IsRing
  <2> HIDE DEF Queue
  <2> QED
    BY <2>1
<1> HIDE DEF u
<1> DEFINE d == [tk EXCEPT !.lastRun = Max({clock, tk.lastRun})]
<1>9. Sound(d, clock) /\ d \in TaskRec
  <2>1. tk \in TaskRec /\ clock \in Nat /\ tk.lastRun \in Nat /\ tk.lastRun <= clock
    BY TimesNatural DEF Sound, TaskRec, Times
  <2>2. Max({clock, tk.lastRun}) = clock
    BY <2>1, MaxOfTwo
  <2>3. d = [tk EXCEPT !.lastRun = clock]
    BY <2>2
  <2> HIDE DEF d
  <2>4. d \in TaskRec
    BY <2>1, <2>3 DEF TaskRec
  <2>5. /\ d.lastRun = clock /\ d.started = tk.started /\ d.exec = tk.exec
        /\ d.lastBurst = tk.lastBurst /\ d.pred = tk.pred
    BY <2>1, <2>3 DEF TaskRec
  <2> QED
    BY <2>1, <2>4, <2>5 DEF Sound
<1>10. d # Null
  BY <1>9, NullIsNoTaskData DEF TaskRec
<1>11. task' = [task EXCEPT ![t] = d] /\ task \in [Tasks -> TaskRec \cup {Null}]
  BY <1>2 DEF DataSound
<1> HIDE DEF d
<1>12. Forked' = Forked \cup {t}
  BY <1>10, <1>11 DEF Forked
<1>13. t # current
  BY <1>1, <1>3, <1>4
<1>14. DataSound(clock)'
  <2>1. task' \in [Tasks -> TaskRec \cup {Null}]
    BY <1>9, <1>11
  <2>2. \A x \in Forked' : Sound(task'[x], clock)
    BY <1>9, <1>11, <1>12 DEF DataSound, Forked
  <2>3. current' # Seed => task'[current'].exec <= task'[current'].started
    BY <1>2, <1>11, <1>13 DEF DataSound
  <2>4. current' \in Forked' \cup {Seed}
    BY <1>2, <1>12 DEF DataSound
  <2> QED
    BY <1>2, <2>1, <2>2, <2>3, <2>4 DEF DataSound
<1>15. \A i \in 1..Len(u) : u[i] \in Forked'
  <2>1. ASSUME NEW i \in 1..Len(u), i # 1 PROVE u[i] \in Forked
    <3>1. i - 1 \in 1..Len(Queue) /\ (i - 1) + 1 = i
      BY <1>8, <2>1
    <3> QED
      BY <1>1, <1>8, <3>1
  <2> QED
    BY <1>8, <1>12, <2>1
<1>16. current' = Seed \/ \E i \in 1..Len(u) : u[i] = current'
  <2>1. ASSUME NEW i \in 1..Len(Queue) PROVE i + 1 \in 1..Len(u) /\ u[i + 1] = Queue[i]
    BY <1>8
  <2> QED
    BY <1>1, <1>2, <2>1
<1>17. RingInv' /\ Queue' = u
  <2>1. nrRunning' = Len(u) + 1
    BY <1>1, <1>2, <1>8
  <2> QED
    BY <1>5, <1>6, <1>7, <1>15, <1>16, <2>1, RingInvNext
<1>18. clock' \in Times
  BY <1>2
<1> QED
  BY <1>4, <1>14, <1>17, <1>18 DEF u

\* A call of schedule(), on the ring that it finds.
LEMMA ScheduleInv ==
  ASSUME Inv, NEW nx, NEW pv, NEW n, NEW now, NEW s,
         next' = nx, prev' = pv, nrRunning' = n, clock' = now,
         nx \in [All -> All \cup {Null}], pv \in [All -> All \cup {Null}],
         IsRing(nx, pv, s), n = Len(s) + 1, \A i \in 1..Len(s) : s[i] \in Forked,
         now \in Times, clock <= now, Schedule(nx, n, now)
  PROVE  /\ Inv'
         /\ Queue' = s
         /\ \/ s = <<>> /\ current' = Seed
            \/ \E i \in 1..Len(s) : s[i] = current'
<1> USE DEF Inv
<1>1. now \in Nat /\ clock \in Nat
  BY TimesNatural DEF Times
<1>2. DataSound(now)
  <2>1. \A t \in Forked : Sound(task[t], now)
    BY <1>1, SoundLater DEF DataSound
  <2> QED
    BY <2>1 DEF DataSound
<1>3. /\ task' \in [Tasks -> TaskRec \cup {Null}]
      /\ \A t \in Tasks : task'[t] = Null <=> task[t] = Null
      /\ \A t \in Forked : Sound(task'[t], now)
      /\ \/ s = <<>> /\ current' = Seed
         \/ /\ \E i \in 1..Len(s) : s[i] = current'
            /\ task'[current'].exec <= task'[current'].started
  BY <1>1, <1>2, ScheduleIs
<1>4. Forked' = Forked
  BY <1>3 DEF Forked
<1>5. DataSound(clock)'
  BY <1>3, <1>4 DEF DataSound
<1>6. RingInv' /\ Queue' = s
  BY <1>3, <1>4, RingInvNext
<1> QED
  BY <1>3, <1>5, <1>6

\* deactivate_task unlinks the running task, wherever it is in the ring.
LEMMA SleepUnlinks ==
  ASSUME Inv, Sleep
  PROVE  /\ next' \in [All -> All \cup {Null}] /\ prev' \in [All -> All \cup {Null}]
         /\ \E k \in 1..Len(Queue) :
              /\ Queue[k] = current
              /\ IsRing(next', prev', Without(Queue, k))
              /\ nrRunning' = Len(Without(Queue, k)) + 1
              /\ \A i \in 1..Len(Without(Queue, k)) : Without(Queue, k)[i] \in Forked
              /\ \A x \in Tasks :
                   x # current /\ (\E i \in 1..Len(Queue) : Queue[i] = x)
                   <=> \E i \in 1..Len(Without(Queue, k)) : Without(Queue, k)[i] = x
<1> USE DEF Inv
<1>1. /\ next \in [All -> All \cup {Null}] /\ prev \in [All -> All \cup {Null}]
      /\ IsRing(next, prev, Queue) /\ nrRunning = Len(Queue) + 1
      /\ \A i \in 1..Len(Queue) : Queue[i] \in Forked
  BY DEF RingInv
<1>2. PICK k \in 1..Len(Queue) : Queue[k] = current
  BY DEF RingInv, Sleep
<1> DEFINE a == prev[current]
           b == next[current]
<1>3. a \in All \ {current} /\ b \in All \ {current} /\ current \in All
  <2>1. /\ Len(Queue) \in Nat /\ At(Queue, k) = current
        /\ \A i \in 0..(Len(Queue) + 1) : At(Queue, i) \in All
        /\ \A i, j \in 1..(Len(Queue) + 1) : At(Queue, i) = At(Queue, j) => i = j
        /\ \A i, j \in 0..Len(Queue) : At(Queue, i) = At(Queue, j) => i = j
    BY <1>1, <1>2, RingPositions
  <2>2. k \in 0..Len(Queue) /\ k - 1 \in 0..Len(Queue) /\ (k - 1) + 1 = k
        /\ k \in 1..(Len(Queue) + 1) /\ k + 1 \in 1..(Len(Queue) + 1)
    BY <2>1
  <2>3. /\ \A i \in 0..Len(Queue) : next[At(Queue, i)] = At(Queue, i + 1)
        /\ \A i \in 0..Len(Queue) : prev[At(Queue, i + 1)] = At(Queue, i)
    BY <1>1 DEF IsRing
  <2>4. a = At(Queue, k - 1) /\ b = At(Queue, k + 1)
    BY <2>1, <2>2, <2>3
  <2>5. At(Queue, k - 1) # At(Queue, k) /\ At(Queue, k + 1) # At(Queue, k)
    BY <2>1, <2>2
  <2> QED
    BY <2>1, <2>2, <2>4, <2>5
<1>4. /\ next' = [[next EXCEPT ![a] = b] EXCEPT ![current] = Null]
      /\ prev' = [[prev EXCEPT ![b] = a] EXCEPT ![current] = Null]
      /\ nrRunning' = nrRunning - 1
  BY DEF Sleep
<1> HIDE DEF a, b
<1>5. /\ next'[current] = Null /\ next'[a] = b
      /\ \A x \in All \ {current, a} : next'[x] = next[x]
      /\ next' \in [All -> All \cup {Null}]
  BY <1>1, <1>3, <1>4
<1>6. /\ prev'[current] = Null /\ prev'[b] = a
      /\ \A x \in All \ {current, b} : prev'[x] = prev[x]
      /\ prev' \in [All -> All \cup {Null}]
  BY <1>1, <1>3, <1>4
<1> DEFINE u == Without(Queue, k)
<1>7. /\ IsRing(next', prev', u)
      /\ Len(u) = Len(Queue) - 1
      /\ \A x \in Tasks : x # current /\ (\E i \in 1..Len(Queue) : Queue[i] = x)
                          <=> \E i \in 1..Len(u) : u[i] = x
  <2>1. current = Queue[k] /\ a = prev[current] /\ b = next[current]
    BY <1>2 DEF a, b
  <2> QED
    BY <1>1, <1>5, <1>6, <2>1, UnlinkedRing
<1> HIDE DEF u
<1>8. nrRunning' = Len(u) + 1
  <2>1. Len(Queue) \in Nat
    BY <1>1 DEF IsRing
  <2> QED
    BY <1>1, <1>4, <1>7, <2>1
<1>9. \A i \in 1..Len(u) : u[i] \in Forked
  <2>1. \A i \in 1..Len(u) : u[i] \in Tasks
    BY <1>7 DEF IsRing
  <2> QED
    BY <1>1, <1>7, <2>1
<1> QED
  BY <1>2, <1>5, <1>6, <1>7, <1>8, <1>9 DEF u

\* deactivate_task, then schedule.
LEMMA SleepInv ==
  ASSUME Inv, Sleep
  PROVE  /\ Inv'
         /\ \E k \in 1..Len(Queue) : Queue[k] = current /\ Queue' = Without(Queue, k)
         /\ \/ Queue' = <<>> /\ current' = Seed
            \/ \E i \in 1..Len(Queue') : Queue'[i] = current'
<1>1. PICK k \in 1..Len(Queue) :
        /\ Queue[k] = current
        /\ IsRing(next', prev', Without(Queue, k))
        /\ nrRunning' = Len(Without(Queue, k)) + 1
        /\ \A i \in 1..Len(Without(Queue, k)) : Without(Queue, k)[i] \in Forked
  BY SleepUnlinks
<1>2. PICK u, nx, pv, n :
        u = Without(Queue, k) /\ next' = nx /\ prev' = pv /\ nrRunning' = n
  OBVIOUS
<1>3. /\ IsRing(nx, pv, u) /\ n = Len(u) + 1 /\ \A i \in 1..Len(u) : u[i] \in Forked
      /\ nx \in [All -> All \cup {Null}] /\ pv \in [All -> All \cup {Null}]
  BY <1>1, <1>2, SleepUnlinks
<1>4. Schedule(nx, n, clock) /\ clock' = clock
  <2>1. Schedule(next', nrRunning', clock) /\ clock' = clock
    BY DEF Sleep
  <2> QED
    BY <1>2, <2>1 DEF Schedule
<1>5. clock \in Times /\ clock <= clock
  BY TimesNatural DEF Inv, Times
<1>6. /\ Inv' /\ Queue' = u
      /\ \/ u = <<>> /\ current' = Seed
         \/ \E i \in 1..Len(u) : u[i] = current'
  BY <1>2, <1>3, <1>4, <1>5, ScheduleInv
<1> QED
  BY <1>1, <1>2, <1>6

\* scheduler_tick, and a call of schedule by the machine.
LEMMA TickInv ==
  ASSUME Inv, Tick
  PROVE  /\ Inv'
         /\ Queue' = Queue
         /\ \/ Queue = <<>> /\ current' = Seed
            \/ \E i \in 1..Len(Queue) : Queue[i] = current'
<1>1. /\ next' = next /\ prev' = prev /\ nrRunning' = nrRunning
      /\ Schedule(next, nrRunning, clock')
      /\ clock' \in Times /\ clock <= clock'
  <2>1. clock' = clock /\ Schedule(next, nrRunning, clock)
    BY DEF Tick
  <2>2. Schedule(next, nrRunning, clock')
    BY <2>1 DEF Schedule
  <2> QED
    BY <2>1, <2>2, TimesNatural DEF Tick, Inv, Times
<1>2. /\ next \in [All -> All \cup {Null}] /\ prev \in [All -> All \cup {Null}]
      /\ IsRing(next, prev, Queue) /\ nrRunning = Len(Queue) + 1
      /\ \A i \in 1..Len(Queue) : Queue[i] \in Forked
  BY DEF Inv, RingInv
<1> DEFINE q == Queue
<1> HIDE DEF q
<1>3. /\ Inv' /\ Queue' = q
      /\ \/ q = <<>> /\ current' = Seed
         \/ \E i \in 1..Len(q) : q[i] = current'
  BY <1>1, <1>2, ScheduleInv DEF q
<1> QED
  BY <1>3 DEF q

\* Time passes: every time of a task falls behind the clock, none gets ahead.
LEMMA PassInv ==
  ASSUME Inv, Pass
  PROVE  /\ Inv'
         /\ Queue' = Queue /\ current' = current
         /\ clock \in Nat /\ clock' \in Nat /\ clock <= clock'
<1>1. /\ next' = next /\ prev' = prev /\ nrRunning' = nrRunning
      /\ current' = current /\ task' = task
  BY DEF Pass
<1>2. PICK now \in Nat : clock' = now /\ clock <= now /\ now \in Times
  BY TimesNatural DEF Pass, Inv, Times
<1>3. clock \in Nat /\ DataSound(clock)
  BY TimesNatural DEF Inv, Times
<1>4. \A x \in Forked : Sound(task[x], now)
  BY <1>2, <1>3, SoundLater DEF DataSound
<1>5. DataSound(clock)'
  BY <1>1, <1>2, <1>3, <1>4 DEF DataSound, Forked
<1>6. Queue' = Queue
  BY <1>1 DEF Queue
<1>7. RingInv'
  BY <1>1, <1>6 DEF Inv, RingInv, Forked
<1> QED
  BY <1>1, <1>2, <1>3, <1>5, <1>6, <1>7 DEF Inv

\* sched_fork with wake_up_new_task, and activate_task.
LEMMA ArrivalInv ==
  ASSUME Inv, NEW t \in Tasks, Fork(t) \/ Wake(t)
  PROVE  /\ Inv'
         /\ Queue' = <<t>> \o Queue
         /\ \A i \in 1..Len(Queue) : Queue[i] # t
         /\ current' = current
<1>1. /\ next \in [All -> All \cup {Null}]
      /\ IsRing(next, prev, Queue)
      /\ \A i \in 1..Len(Queue) : Queue[i] \in Forked
      /\ clock \in Nat
  BY TimesNatural DEF Inv, RingInv, Times
<1>2. CASE Fork(t)
  <2>1. Sound(NewTask, clock)
    BY <1>1 DEF Sound, NewTask, TaskRec
  <2>2. next[t] = Null
    BY <1>1, <1>2, LinkedIs DEF Fork, Forked
  <2> QED
    BY <1>2, <2>1, <2>2, EnqueueInv DEF Fork, Enqueue
<1>3. CASE Wake(t)
  <2>1. Sound(task[t], clock)
    BY <1>3 DEF Wake, Inv, DataSound
  <2>2. next[t] = Null
    BY <1>3 DEF Wake, Linked
  <2> QED
    BY <1>3, <2>1, <2>2, EnqueueInv DEF Wake, Enqueue
<1> QED
  BY <1>2, <1>3

\* Every step preserves the invariant.
LEMMA NextInv == Inv /\ [Next]_vars => Inv'
<1> SUFFICES ASSUME Inv, [Next]_vars PROVE Inv'
  OBVIOUS
<1>1. CASE Tick
  BY <1>1, TickInv
<1>2. CASE Sleep
  BY <1>2, SleepInv
<1>3. ASSUME NEW t \in Tasks, Fork(t) \/ Wake(t) PROVE Inv'
  BY <1>3, ArrivalInv
<1>4. CASE UNCHANGED vars
  BY <1>4 DEF vars, Inv, RingInv, DataSound, Queue, Forked
<1>5. CASE Pass
  BY <1>5, PassInv
<1> QED
  BY <1>1, <1>2, <1>3, <1>4, <1>5 DEF Next

\* The invariant holds throughout.
THEOREM Invariance == Spec => []Inv
<1> QED
  BY InitInv, NextInv, PTL DEF Spec

-----------------------------------------------------------------------------
(* What the invariant says of the links and the counts.                    *)

\* The tasks with links are those of the list, and the head has links.
LEMMA LinkedTasks ==
  ASSUME RingInv
  PROVE  /\ {Queue[i] : i \in DOMAIN Queue} = {t \in Tasks : Linked(t)}
         /\ {At(Queue, i) : i \in 0..Len(Queue)} = {t \in All : Linked(t)}
<1>1. /\ next \in [All -> All \cup {Null}] /\ IsRing(next, prev, Queue)
      /\ Queue \in Seq(Tasks)
      /\ \A t \in Tasks : (\A i \in 1..Len(Queue) : Queue[i] # t)
                             => next[t] = Null /\ prev[t] = Null
  BY DEF RingInv, IsRing
<1>2. /\ Len(Queue) \in Nat /\ At(Queue, 0) = Seed
      /\ \A i \in 1..Len(Queue) : Queue[i] \in Tasks /\ At(Queue, i) = Queue[i]
  BY <1>1, RingPositions
<1>3. DOMAIN Queue = 1..Len(Queue)
  BY <1>1
<1>4. \A t \in Tasks : Linked(t) <=> \E i \in 1..Len(Queue) : Queue[i] = t
  BY <1>1, LinkedIs DEF Linked
<1>5. Linked(Seed)
  BY <1>1, LinkedIs DEF Linked
<1>6. ASSUME NEW t \in All
      PROVE  Linked(t) <=> \E i \in 0..Len(Queue) : At(Queue, i) = t
  <2>1. CASE t = Seed
    <3>1. 0 \in 0..Len(Queue)
      BY <1>2
    <3> QED
      BY <1>2, <1>5, <2>1, <3>1
  <2>2. CASE t # Seed
    <3>1. t \in Tasks
      BY <2>2 DEF All
    <3>2. \A i \in 0..Len(Queue) : i = 0 \/ i \in 1..Len(Queue)
      BY <1>2
    <3>3. \A i \in 1..Len(Queue) : i \in 0..Len(Queue)
      BY <1>2
    <3> QED
      BY <1>2, <1>4, <2>2, <3>1, <3>2, <3>3
  <2> QED
    BY <2>1, <2>2
<1>7. \A i \in 0..Len(Queue) : At(Queue, i) \in All
  BY <1>2 DEF All
<1> QED
  BY <1>2, <1>3, <1>4, <1>6, <1>7

\* nr_running counts them, and there are no more than tasks.
LEMMA RunningCount ==
  ASSUME RingInv
  PROVE  /\ nrRunning = Cardinality({t \in All : Linked(t)})
         /\ Len(Queue) <= Cardinality(Tasks)
<1>1. /\ IsRing(next, prev, Queue) /\ nrRunning = Len(Queue) + 1
      /\ Queue \in Seq(Tasks)
  BY DEF RingInv, IsRing
<1>2. /\ Len(Queue) \in Nat
      /\ \A i, j \in 0..Len(Queue) : At(Queue, i) = At(Queue, j) => i = j
      /\ \A i \in 1..Len(Queue) : Queue[i] \in Tasks
      /\ \A i, j \in 1..Len(Queue) : Queue[i] = Queue[j] => i = j
  BY <1>1, RingPositions DEF IsRing
<1> DEFINE places == 0..Len(Queue)
           linked == {t \in All : Linked(t)}
           f == [i \in places |-> At(Queue, i)]
<1>3. linked = {At(Queue, i) : i \in places}
  BY LinkedTasks
<1>4. f \in Bijection(places, linked)
  <2> HIDE DEF linked, places
  <2>1. f \in [places -> linked]
    BY <1>3
  <2>2. \A i, j \in places : f[i] = f[j] => i = j
    BY <1>2 DEF places
  <2>3. \A t \in linked : \E i \in places : f[i] = t
    BY <1>3
  <2> HIDE DEF f
  <2> QED
    BY <2>1, <2>2, <2>3 DEF Bijection, Injection, Surjection, IsInjective
<1>5. Cardinality(linked) = Len(Queue) + 1
  <2>1. IsFiniteSet(places) /\ Cardinality(places) = Len(Queue) + 1
    <3>1. 0 \in Int /\ Len(Queue) \in Int /\ ~ (0 > Len(Queue)) /\ Len(Queue) - 0 + 1 = Len(Queue) + 1
      BY <1>2
    <3> QED
      BY <3>1, FS_Interval
  <2>2. ExistsBijection(places, linked)
    BY <1>4 DEF ExistsBijection
  <2> QED
    BY <2>1, <2>2, FS_Bijection
<1>6. Len(Queue) <= Cardinality(Tasks)
  <2> DEFINE ids == 1..Len(Queue)
             g == [i \in ids |-> Queue[i]]
  <2>1. g \in Injection(ids, Tasks)
    <3>1. g \in [ids -> Tasks] /\ \A i, j \in ids : g[i] = g[j] => i = j
      BY <1>2
    <3> HIDE DEF g, ids
    <3> QED
      BY <3>1 DEF Injection, IsInjective
  <2>2. Cardinality(ids) = Len(Queue)
    <3>1. 1 \in Int /\ Len(Queue) \in Int
      BY <1>2
    <3>2. Cardinality(1..Len(Queue)) = IF 1 > Len(Queue) THEN 0 ELSE Len(Queue) - 1 + 1
      BY <3>1, FS_Interval
    <3> QED
      BY <1>2, <3>2
  <2> HIDE DEF g, ids
  <2>3. Cardinality(ids) <= Cardinality(Tasks)
    BY <2>1, TasksFinite, FS_Injection
  <2> QED
    BY <2>2, <2>3
<1> QED
  BY <1>1, <1>5, <1>6

\* The invariant implies the state properties.
LEMMA InvImpliesRingIntact == Inv => RingIntact /\ CurrentIsLinked
<1> SUFFICES ASSUME Inv PROVE RingIntact /\ CurrentIsLinked
  OBVIOUS
<1>1. RingInv /\ IsRing(next, prev, Queue) /\ next \in [All -> All \cup {Null}]
  BY DEF Inv, RingInv
<1>2. nrRunning = Cardinality({t \in All : Linked(t)})
  BY <1>1, RunningCount
<1>3. {Queue[i] : i \in DOMAIN Queue} = {t \in Tasks : Linked(t)}
  BY <1>1, LinkedTasks
<1>4. ASSUME NEW t \in All, Linked(t)
      PROVE  next[prev[t]] = t /\ prev[next[t]] = t
  <2>1. PICK i \in 0..Len(Queue) : At(Queue, i) = t
    <3>1. t \in {At(Queue, i) : i \in 0..Len(Queue)}
      BY <1>1, <1>4, LinkedTasks
    <3> QED
      BY <3>1
  <2>2. /\ \A j \in 0..Len(Queue) : next[At(Queue, j)] = At(Queue, j + 1)
        /\ \A j \in 0..Len(Queue) : prev[At(Queue, j + 1)] = At(Queue, j)
    BY <1>1 DEF IsRing
  <2>3. prev[next[t]] = t
    BY <2>1, <2>2
  <2>4. PICK h \in 0..Len(Queue) : At(Queue, h + 1) = t
    <3>1. Len(Queue) \in Nat /\ At(Queue, 0) = Seed /\ At(Queue, Len(Queue) + 1) = Seed
      BY <1>1, RingPositions
    <3>2. CASE i = 0
      <4>1. Len(Queue) \in 0..Len(Queue)
        BY <3>1
      <4> QED
        BY <2>1, <3>1, <3>2, <4>1
    <3>3. CASE i # 0
      <4>1. i - 1 \in 0..Len(Queue) /\ (i - 1) + 1 = i
        BY <3>1, <3>3
      <4> QED
        BY <2>1, <4>1
    <3> QED
      BY <3>2, <3>3
  <2>5. next[prev[t]] = t
    BY <2>2, <2>4
  <2> QED
    BY <2>3, <2>5
<1>5. CurrentIsLinked
  <2>1. current = Seed \/ current \in {Queue[i] : i \in DOMAIN Queue}
    <3>1. DOMAIN Queue = 1..Len(Queue)
      BY <1>1 DEF IsRing
    <3> QED
      BY <1>1, <3>1 DEF RingInv
  <2>2. Linked(Seed)
    BY <1>1, LinkedIs DEF Linked
  <2> QED
    BY <1>3, <2>1, <2>2 DEF CurrentIsLinked
<1> QED
  BY <1>2, <1>3, <1>4, <1>5 DEF RingIntact

LEMMA InvImpliesTypeOK == Inv => TypeOK
<1> SUFFICES ASSUME Inv PROVE TypeOK
  OBVIOUS
<1>1. /\ clock \in Times /\ RingInv /\ DataSound(clock)
      /\ next \in [All -> All \cup {Null}] /\ prev \in [All -> All \cup {Null}]
  BY DEF Inv, RingInv
<1>2. nrRunning \in 1..(Cardinality(Tasks) + 1)
  <2>1. nrRunning = Len(Queue) + 1 /\ Len(Queue) \in Nat
    BY <1>1 DEF RingInv, IsRing
  <2>2. Len(Queue) <= Cardinality(Tasks) /\ Cardinality(Tasks) \in Nat
    BY <1>1, RunningCount, TasksFinite, FS_CardinalityType
  <2> QED
    BY <2>1, <2>2
<1>3. current \in All
  BY <1>1 DEF DataSound, Forked, All
<1>4. ASSUME NEW d, Sound(d, clock) PROVE d \in TaskData
  <2>1. d \in TaskRec
    BY <1>4 DEF Sound
  <2>2. /\ d.lastBurst \in Times /\ d.pred \in Times /\ d.lastRun \in Times
        /\ d.started \in Times /\ d.exec \in Times
    BY <1>1, <1>4, <2>1, TimesNatural DEF Sound, TaskRec, Times
  <2> QED
    BY <2>1, <2>2 DEF TaskRec, TaskData
<1>5. task \in [Tasks -> TaskData \cup {Null}]
  <2>1. ASSUME NEW t \in Tasks PROVE task[t] \in TaskData \cup {Null}
    <3>1. t \in Forked => task[t] \in TaskData
      BY <1>1, <1>4 DEF DataSound
    <3> QED
      BY <3>1 DEF Forked
  <2> QED
    BY <1>1, <2>1 DEF DataSound
<1>6. \A t \in Forked : task[t].lastRun <= clock /\ task[t].started <= clock
  BY <1>1 DEF DataSound, Sound
<1> QED
  BY <1>1, <1>2, <1>3, <1>5, <1>6 DEF TypeOK

\* No time of schedule() is ahead of the clock, so no unsigned difference of it
\* wraps around, however many tasks there are and however they arrive.
THEOREM TypeCorrect == Spec => []TypeOK
<1> QED
  BY Invariance, InvImpliesTypeOK, PTL

\* The loops of schedule.c end at the head and meet every runnable task once.
THEOREM RingStaysIntact == Spec => []RingIntact
<1> QED
  BY Invariance, InvImpliesRingIntact, PTL

\* The CPU is never left with a task that has gone to sleep.
THEOREM CurrentStaysLinked == Spec => []CurrentIsLinked
<1> QED
  BY Invariance, InvImpliesRingIntact, PTL

-----------------------------------------------------------------------------
(* The ring is a list of ready tasks.                                      *)

\* Every step of the scheduler is one of the list, or leaves it and the running
\* task alone.
LEMMA StepRefines == Inv /\ [Next]_vars => [RL!Next]_(RL!vars)
<1> SUFFICES ASSUME Inv, [Next]_vars PROVE [RL!Next]_(RL!vars)
  OBVIOUS
<1>1. Queue \in Seq(Tasks) /\ DOMAIN Queue = 1..Len(Queue)
  <2>1. Queue \in Seq(Tasks)
    BY DEF Inv, RingInv, IsRing
  <2> HIDE DEF Queue
  <2> QED
    BY <2>1
<1>2. Queue' \in Seq(Tasks) /\ DOMAIN Queue' = 1..Len(Queue')
  <2>1. Queue' \in Seq(Tasks)
    BY NextInv DEF Inv, RingInv, IsRing
  <2>2. ASSUME NEW s \in Seq(Tasks) PROVE DOMAIN s = 1..Len(s)
    OBVIOUS
  <2> QED
    BY <2>1, <2>2
<1>3. ASSUME \/ Queue' = <<>> /\ current' = Seed
             \/ \E i \in 1..Len(Queue') : Queue'[i] = current'
      PROVE  RL!Dispatch
  BY <1>2, <1>3 DEF RL!Dispatch, RL!ToSet
<1>4. CASE Tick
  <2>1. /\ Queue' = Queue
        /\ \/ Queue = <<>> /\ current' = Seed
           \/ \E i \in 1..Len(Queue) : Queue[i] = current'
    BY <1>4, TickInv
  <2>2. RL!Dispatch
    BY <1>3, <2>1
  <2> QED
    BY <2>1, <2>2 DEF RL!Next, RL!Reschedule
<1>5. CASE Sleep
  <2>1. PICK k \in 1..Len(Queue) : Queue[k] = current /\ Queue' = Without(Queue, k)
    BY <1>5, SleepInv
  <2>2. RL!Dispatch
    BY <1>3, <1>5, SleepInv
  <2>3. Queue' = RL!RemoveAt(Queue, k)
    BY <2>1 DEF RL!RemoveAt, Without
  <2> QED
    BY <1>1, <2>1, <2>2, <2>3 DEF RL!Next, RL!Leave
<1>6. ASSUME NEW t \in Tasks, Fork(t) \/ Wake(t)
      PROVE  RL!Next
  <2>1. Queue' = <<t>> \o Queue /\ current' = current /\ \A i \in 1..Len(Queue) : Queue[i] # t
    BY <1>6, ArrivalInv
  <2> QED
    BY <1>1, <2>1 DEF RL!Next, RL!Arrive, RL!ToSet
<1>7. CASE UNCHANGED vars
  <2>1. Queue' = Queue /\ current' = current
    BY <1>7 DEF vars, Queue
  <2> QED
    BY <2>1 DEF RL!vars
<1>8. CASE Pass
  BY <1>8, PassInv DEF RL!vars
<1> QED
  BY <1>4, <1>5, <1>6, <1>7, <1>8 DEF Next

\* schedule.c:130 "curr can never be null": the ring is a list that tasks join in
\* front and the running one leaves, and the CPU goes to one of its tasks as long
\* as it has one.
THEOREM RingImplementsReadyList == Spec => Implements
<1>1. Init => RL!Init
  BY InitInv DEF Init, RL!Init
<1> QED
  BY <1>1, Invariance, StepRefines, PTL DEF Spec, Implements, RL!Spec

-----------------------------------------------------------------------------
(* The chosen task has waited its share.                                   *)

\* A call that gives the CPU to another task, on the ring that it finds.
LEMMA ChoiceBoundsWaiting ==
  ASSUME Inv, NEW nx, NEW pv, NEW s, IsRing(nx, pv, s), \A i \in 1..Len(s) : s[i] \in Forked,
         NEW n, n = Len(s) + 1, NEW now \in Nat, clock <= now, Schedule(nx, n, now),
         current' # current, current' # Seed,
         NEW j \in 1..Len(s), s[j] # current
  PROVE  1 + now - task[s[j]].lastRun
           <= (2 + task[s[j]].pred) * (1 + now - task[current'].lastRun)
<1> DEFINE ch == Charged(nx, now)
           t == s[j]
<1>1. DataSound(now) /\ clock \in Nat
  <2>1. clock \in Nat
    BY TimesNatural DEF Inv, Times
  <2>2. \A x \in Forked : Sound(task[x], now)
    BY <2>1, SoundLater DEF Inv, DataSound
  <2> QED
    BY <2>1, <2>2 DEF Inv, DataSound
<1>2. /\ s # <<>> /\ Computable(s, ch, now)
      /\ \E c \in 1..Len(s) : /\ current' = s[c]
                              /\ \A i \in 1..Len(s) : Goodness(s, ch, now, s[c])
                                                        <= Goodness(s, ch, now, s[i])
  BY <1>1, ScheduleIs
<1>3. \A x \in Tasks \ {current} : ch[x] = task[x]
  BY <1>1, ChargedIs
<1> HIDE DEF ch
<1>4. PICK c \in 1..Len(s) :
        /\ current' = s[c]
        /\ Goodness(s, ch, now, s[c]) <= Goodness(s, ch, now, t)
  BY <1>2
<1>5. s \in Seq(Tasks) /\ t \in Tasks /\ s[c] \in Tasks
  BY DEF IsRing
<1>6. PICK m \in Nat \ {0}, W \in Nat \ {0} : \A i \in 1..Len(s) :
        /\ m <= 1 + ch[s[i]].pred
        /\ 1 + WaitingInRQ(ch, now, s[i]) <= W
        /\ Goodness(s, ch, now, s[i])
             = ((1 + ch[s[i]].pred) \div m) * (W \div (1 + WaitingInRQ(ch, now, s[i])))
  BY <1>2, <1>5, GoodnessIs
<1> HIDE DEF t
<1>7. /\ ch[t] = task[t] /\ ch[current'] = task[current']
      /\ WaitingInRQ(ch, now, t) = now - task[t].lastRun
      /\ WaitingInRQ(ch, now, current') = now - task[current'].lastRun
  BY <1>3, <1>4, <1>5 DEF WaitingInRQ, t
<1>8. /\ task[t].pred \in Nat /\ task[t].lastRun \in Nat /\ task[t].lastRun <= now
      /\ task[current'].pred \in Nat /\ task[current'].lastRun \in Nat
      /\ task[current'].lastRun <= now
  <2>1. Sound(task[t], now) /\ Sound(task[current'], now)
    BY <1>1, <1>4 DEF DataSound, t
  <2> QED
    BY <2>1 DEF Sound, TaskRec
<1> DEFINE P == 1 + task[t].pred
           Q == 1 + task[current'].pred
           v == 1 + (now - task[t].lastRun)
           w == 1 + (now - task[current'].lastRun)
<1>9. P \in Nat \ {0} /\ Q \in Nat \ {0} /\ v \in Nat \ {0} /\ w \in Nat \ {0}
  <2>1. ASSUME NEW x \in Nat, x <= now
        PROVE  1 + x \in Nat \ {0} /\ 1 + (now - x) \in Nat \ {0}
    BY <2>1
  <2>2. ASSUME NEW x \in Nat PROVE 1 + x \in Nat \ {0}
    OBVIOUS
  <2>3. P \in Nat \ {0} /\ Q \in Nat \ {0}
    BY <1>8, <2>2
  <2> QED
    BY <1>8, <2>1, <2>3
<1>10. /\ m <= P /\ m <= Q /\ v <= W /\ w <= W
       /\ (Q \div m) * (W \div w) <= (P \div m) * (W \div v)
  BY <1>4, <1>6, <1>7 DEF t
<1> HIDE DEF P, Q, v, w
<1>11. v <= (1 + P) * w
  BY <1>9, <1>10, GoodnessBoundsWaiting
<1>12. /\ 1 + now - task[t].lastRun = v /\ 1 + P = 2 + task[t].pred
       /\ 1 + now - task[current'].lastRun = w
  BY <1>8 DEF P, v, w
<1> QED
  BY <1>11, <1>12 DEF t

\* Which step can give the CPU to another task, and to the ring of which links.
LEMMA StepBoundsWaiting ==
  ASSUME Inv, [Next]_vars, current' # current, current' # Seed,
         NEW t \in {Queue[i] : i \in DOMAIN Queue} \ {current}
  PROVE  1 + clock' - task[t].lastRun
           <= (2 + task[t].pred) * (1 + clock' - task[current'].lastRun)
<1>1. /\ IsRing(next, prev, Queue) /\ nrRunning = Len(Queue) + 1
      /\ \A i \in 1..Len(Queue) : Queue[i] \in Forked
      /\ DOMAIN Queue = 1..Len(Queue)
      /\ clock \in Nat
  BY TimesNatural DEF Inv, RingInv, IsRing, Times
<1>2. PICK j \in 1..Len(Queue) : Queue[j] = t
  BY <1>1
<1>3. CASE Tick
  <2>1. PICK now \in Nat : clock' = now /\ clock <= now /\ Schedule(next, nrRunning, now)
    BY <1>1, <1>3 DEF Tick
  <2> DEFINE q == Queue
  <2> HIDE DEF q
  <2>2. IsRing(next, prev, q) /\ nrRunning = Len(q) + 1 /\ j \in 1..Len(q)
        /\ (\A i \in 1..Len(q) : q[i] \in Forked) /\ q[j] = t /\ t # current
    BY <1>1, <1>2 DEF q
  <2> QED
    BY <2>1, <2>2, ChoiceBoundsWaiting
<1>4. CASE Sleep
  <2>1. PICK k \in 1..Len(Queue) :
          /\ IsRing(next', prev', Without(Queue, k))
          /\ nrRunning' = Len(Without(Queue, k)) + 1
          /\ \A i \in 1..Len(Without(Queue, k)) : Without(Queue, k)[i] \in Forked
          /\ \A x \in Tasks :
               x # current /\ (\E i \in 1..Len(Queue) : Queue[i] = x)
               <=> \E i \in 1..Len(Without(Queue, k)) : Without(Queue, k)[i] = x
    BY <1>4, SleepUnlinks
  <2>2. PICK u, nx, pv, n :
          u = Without(Queue, k) /\ next' = nx /\ prev' = pv /\ nrRunning' = n
    OBVIOUS
  <2>3. /\ IsRing(nx, pv, u) /\ n = Len(u) + 1 /\ \A i \in 1..Len(u) : u[i] \in Forked
    BY <2>1, <2>2
  <2>4. t \in Tasks
    BY <1>1, <1>2 DEF Forked
  <2>5. PICK i \in 1..Len(u) : u[i] = t
    BY <1>2, <2>1, <2>2, <2>4
  <2>6. Schedule(nx, n, clock) /\ clock' = clock /\ clock <= clock
    <3>1. Schedule(next', nrRunning', clock) /\ clock' = clock
      BY <1>4 DEF Sleep
    <3> QED
      BY <1>1, <2>2, <3>1 DEF Schedule
  <2>7. 1 + clock - task[u[i]].lastRun
          <= (2 + task[u[i]].pred) * (1 + clock - task[current'].lastRun)
    BY <1>1, <2>3, <2>5, <2>6, ChoiceBoundsWaiting
  <2> QED
    BY <2>5, <2>6, <2>7
<1>5. ASSUME NEW x \in Tasks, Fork(x) \/ Wake(x) PROVE FALSE
  BY <1>5 DEF Fork, Wake, Enqueue
<1>6. CASE Pass
  BY <1>6 DEF Pass
<1> QED
  BY <1>3, <1>4, <1>5, <1>6 DEF Next, vars

\* README.md:36: whatever the bursts, a task that gets the CPU from another has
\* waited for at least 1 / (2 + prediction) of the time of any task that stays.
THEOREM NoTaskIsPassedOver == Spec => ChosenHasWaited
<1>1. Inv /\ [Next]_vars =>
        [(current' # current /\ current' # Seed) =>
           \A t \in {Queue[i] : i \in DOMAIN Queue} \ {current} :
             Linked(t)' =>
               1 + clock' - task[t].lastRun
                 <= (2 + task[t].pred) * (1 + clock' - task[current'].lastRun)]_vars
  BY StepBoundsWaiting
<1> QED
  BY <1>1, Invariance, PTL DEF Spec, ChosenHasWaited

=============================================================================
