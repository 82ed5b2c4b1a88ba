---------------------------- MODULE CpuTimeProofs ----------------------------
(***************************************************************************)
(* One CPU: the execution times of all tasks add up to no more than the    *)
(* time that passed, for every number of tasks.                            *)
(***************************************************************************)
EXTENDS SchedulerProofs

-----------------------------------------------------------------------------
(* The sum of the execution times, as the number of clock units executed.  *)

\* The pairs of a task of s and a number below its execution time.
Units(tk, s) == {p \in s \X Nat : p[2] < tk[p[1]].exec}

Executed(tk, s) == Cardinality(Units(tk, s))

\* The execution times of the tasks of s are numbers up to b.
Bounded(tk, s, b) ==
  /\ IsFiniteSet(s) /\ b \in Nat
  /\ \A t \in s : tk[t].exec \in Nat /\ tk[t].exec <= b

LEMMA ExecutedFinite ==
  ASSUME NEW tk, NEW s, NEW b, Bounded(tk, s, b)
  PROVE  IsFiniteSet(Units(tk, s)) /\ Executed(tk, s) \in Nat
<1>1. IsFiniteSet(s) /\ b \in Nat /\ \A t \in s : tk[t].exec \in Nat /\ tk[t].exec <= b
  BY DEF Bounded
<1>2. IsFiniteSet(0..b)
  <2>1. 0 \in Int /\ b \in Int
    BY <1>1
  <2> QED
    BY <2>1, FS_Interval
<1>3. IsFiniteSet(s \X (0..b))
  BY <1>1, <1>2, FS_Product
<1>4. Units(tk, s) \in SUBSET (s \X (0..b))
  <2>1. ASSUME NEW t \in s, NEW n \in Nat, n < tk[t].exec PROVE n \in 0..b
    BY <1>1, <2>1
  <2> QED
    BY <2>1 DEF Units
<1>5. IsFiniteSet(Units(tk, s))
  BY <1>3, <1>4, FS_Subset
<1> QED
  BY <1>5, FS_CardinalityType DEF Executed

\* Each task adds its execution time.
LEMMA ExecutedAdds ==
  ASSUME NEW tk, NEW s, NEW b, Bounded(tk, s, b), NEW x \in s
  PROVE  Executed(tk, s) = tk[x].exec + Executed(tk, s \ {x})
<1> DEFINE rest == s \ {x}
           own == {x} \X (0..(tk[x].exec - 1))
<1>1. IsFiniteSet(rest) /\ Bounded(tk, rest, b) /\ tk[x].exec \in Nat
  BY FS_RemoveElement DEF Bounded
<1>2. IsFiniteSet(Units(tk, rest)) /\ Executed(tk, rest) \in Nat
  BY <1>1, ExecutedFinite
<1>3. IsFiniteSet(own) /\ Cardinality(own) = tk[x].exec
  <2>1. 0 \in Int /\ tk[x].exec - 1 \in Int
    BY <1>1
  <2>2. IsFiniteSet(0..(tk[x].exec - 1))
    BY <2>1, FS_Interval
  <2>3. Cardinality(0..(tk[x].exec - 1))
          = IF 0 > tk[x].exec - 1 THEN 0 ELSE (tk[x].exec - 1) - 0 + 1
    BY <2>1, FS_Interval
  <2>4. Cardinality(0..(tk[x].exec - 1)) = tk[x].exec
    BY <1>1, <2>3
  <2>5. IsFiniteSet({x}) /\ Cardinality({x}) = 1
    BY FS_Singleton
  <2>6. IsFiniteSet(own) /\ Cardinality(own) = 1 * tk[x].exec
    <3> DEFINE mine == 0..(tk[x].exec - 1)
    <3>1. IsFiniteSet(mine) /\ Cardinality(mine) = tk[x].exec /\ own = {x} \X mine
      BY <2>2, <2>4
    <3> HIDE DEF mine, own
    <3>2. /\ IsFiniteSet({x} \X mine)
          /\ Cardinality({x} \X mine) = Cardinality({x}) * Cardinality(mine)
      BY <2>5, <3>1, FS_Product
    <3> QED
      BY <2>5, <3>1, <3>2
  <2> QED
    BY <1>1, <2>6
<1>4. Units(tk, s) = own \cup Units(tk, rest) /\ own \cap Units(tk, rest) = {}
  <2>1. ASSUME NEW n \in Nat PROVE n < tk[x].exec <=> n \in 0..(tk[x].exec - 1)
    BY <1>1
  <2>2. 0..(tk[x].exec - 1) \subseteq Nat
    BY <1>1
  <2> DEFINE mine == 0..(tk[x].exec - 1)
  <2> HIDE DEF mine
  <2>3. own = {x} \X mine /\ mine \subseteq Nat
        /\ \A n \in Nat : n < tk[x].exec <=> n \in mine
    BY <2>1, <2>2 DEF mine
  <2> HIDE DEF own
  <2> QED
    BY <2>3 DEF Units
<1> HIDE DEF own, rest
<1>5. Cardinality(own \cup Units(tk, rest))
        = Cardinality(own) + Cardinality(Units(tk, rest)) - Cardinality(own \cap Units(tk, rest))
  BY <1>2, <1>3, FS_Union
<1>6. Cardinality(own \cap Units(tk, rest)) = 0
  BY <1>4, FS_EmptySet
<1> QED
  BY <1>1, <1>2, <1>3, <1>4, <1>5, <1>6 DEF Executed, rest

\* Only the execution times count.
LEMMA ExecutedSame ==
  ASSUME NEW tk, NEW tk2, NEW s, \A t \in s : tk2[t].exec = tk[t].exec
  PROVE  Executed(tk2, s) = Executed(tk, s)
BY DEF Executed, Units

\* The equation of the function that MapThenSumSet defines by recursion.
IsSum(tk, s, w) ==
  w = [u \in SUBSET s |->
         IF u = {} THEN 0
         ELSE tk[CHOOSE x \in u : TRUE].exec + w[u \ {CHOOSE x \in u : TRUE}]]

\* Its one solution counts units.
LEMMA SumCounts ==
  ASSUME NEW tk, NEW s, NEW b, Bounded(tk, s, b), NEW w
  PROVE  IsSum(tk, s, w) <=> w = [u \in SUBSET s |-> Executed(tk, u)]
<1> DEFINE sum == [u \in SUBSET s |-> Executed(tk, u)]
           First(u) == CHOOSE x \in u : TRUE
<1>1. ASSUME NEW u \in SUBSET s
      PROVE  Bounded(tk, u, b) /\ IsFiniteSet(u)
  BY FS_Subset DEF Bounded
<1>2. ASSUME NEW u \in SUBSET s, u # {}
      PROVE  First(u) \in u /\ u \ {First(u)} \in SUBSET s
  BY <1>2
<1>3. Executed(tk, {}) = 0
  <2>1. Units(tk, {}) = {}
    BY DEF Units
  <2> QED
    BY <2>1, FS_EmptySet DEF Executed
<1>4. ASSUME NEW u \in SUBSET s
      PROVE  sum[u] = IF u = {} THEN 0 ELSE tk[First(u)].exec + sum[u \ {First(u)}]
  <2>1. CASE u = {}
    BY <1>3, <2>1
  <2>2. CASE u # {}
    <3>1. First(u) \in u /\ u \ {First(u)} \in SUBSET s
      BY <1>2, <2>2
    <3> HIDE DEF First
    <3>2. ASSUME NEW x \in u PROVE Executed(tk, u) = tk[x].exec + Executed(tk, u \ {x})
      <4>1. Bounded(tk, u, b)
        BY <1>1
      <4> QED
        BY <4>1, ExecutedAdds
    <3> QED
      BY <2>2, <3>1, <3>2
  <2> QED
    BY <2>1, <2>2
<1>5. IsSum(tk, s, sum)
  <2>1. sum = [u \in SUBSET s |-> sum[u]]
    OBVIOUS
  <2> HIDE DEF sum
  <2> QED
    BY <1>4, <2>1 DEF IsSum
<1>6. ASSUME IsSum(tk, s, w) PROVE w = sum
  <2>1. w = [u \in SUBSET s |-> w[u]]
    BY <1>6 DEF IsSum
  <2>2. \A u \in SUBSET s : w[u] = IF u = {} THEN 0
                                   ELSE tk[First(u)].exec + w[u \ {First(u)}]
    BY <1>6 DEF IsSum
  <2> DEFINE sizes == {n \in Nat : \E u \in SUBSET s : w[u] # sum[u] /\ n = Cardinality(u)}
  <2>3. ASSUME NEW v \in SUBSET s, w[v] # sum[v] PROVE FALSE
    <3>1. Cardinality(v) \in sizes
      BY <1>1, <2>3, FS_CardinalityType
    <3>2. Min(sizes) \in sizes /\ \A n \in sizes : Min(sizes) <= n
      <4>1. sizes \in SUBSET Nat /\ sizes # {}
        BY <3>1
      <4> HIDE DEF sizes
      <4> QED
        BY <4>1, MinOfNaturals
    <3>3. PICK u \in SUBSET s : w[u] # sum[u] /\ Min(sizes) = Cardinality(u)
      BY <3>2
    <3> HIDE DEF sum
    <3>4. u # {}
      BY <1>4, <2>2, <3>3
    <3>5. First(u) \in u /\ u \ {First(u)} \in SUBSET s
      BY <1>2, <3>4
    <3>6. w[u \ {First(u)}] # sum[u \ {First(u)}]
      BY <1>4, <2>2, <3>3, <3>4
    <3> HIDE DEF First
    <3>7. /\ Cardinality(u) \in Nat
          /\ Cardinality(u \ {First(u)}) = Cardinality(u) - 1
          /\ Cardinality(u \ {First(u)}) \in Nat
      BY <1>1, <3>5, FS_CardinalityType, FS_RemoveElement
    <3>8. Cardinality(u \ {First(u)}) \in sizes
      BY <3>5, <3>6, <3>7
    <3>9. Cardinality(u) <= Cardinality(u \ {First(u)})
      BY <3>2, <3>3, <3>8
    <3> DEFINE m == Cardinality(u)
               n == Cardinality(u \ {First(u)})
    <3>10. m \in Nat /\ n = m - 1 /\ m <= n
      BY <3>7, <3>9
    <3> HIDE DEF m, n
    <3> QED
      BY <3>10
  <2> QED
    BY <2>1, <2>3
<1> QED
  BY <1>5, <1>6

LEMMA SumIsExecuted ==
  ASSUME NEW tk, NEW s, NEW b, Bounded(tk, s, b)
  PROVE  MapThenSumSet(LAMBDA t : tk[t].exec, s) = Executed(tk, s)
<1>1. MapThenSumSet(LAMBDA t : tk[t].exec, s) = (CHOOSE w : IsSum(tk, s, w))[s]
  BY DEF MapThenSumSet, MapThenFoldSet, IsSum
<1>2. (CHOOSE w : IsSum(tk, s, w)) = [u \in SUBSET s |-> Executed(tk, u)]
  BY SumCounts
<1> QED
  BY <1>1, <1>2

-----------------------------------------------------------------------------
(* The accounting of schedule().                                           *)

\* What all tasks have executed together fits before the moment up to which the
\* running task has been charged, which is when it got the CPU.
CpuInv ==
  Executed(task, Forked) <= IF current = Seed THEN clock ELSE task[current].started

\* The execution times are numbers up to the clock, so they have a sum.
LEMMA TimesBounded ==
  ASSUME NEW now \in Nat, DataSound(now)
  PROVE  Bounded(task, Forked, now)
<1>1. IsFiniteSet(Forked)
  <2>1. Forked \in SUBSET Tasks
    BY DEF Forked
  <2> QED
    BY <2>1, TasksFinite, FS_Subset
<1>2. \A t \in Forked : task[t].exec \in Nat /\ task[t].exec <= now
  BY DEF DataSound, Sound, TaskRec
<1> QED
  BY <1>1, <1>2 DEF Bounded

\* Only the running task is charged, for the time since it got the CPU, and the
\* chosen one starts now.
LEMMA ChargedTimes ==
  ASSUME NEW nx, NEW now \in Nat, DataSound(now), NEW t \in Forked
  PROVE  LET tk == GiveCPU(Charged(nx, now), now, t)
         IN  /\ tk[t].started = now
             /\ \A u \in Forked \ {current} : tk[u].exec = task[u].exec
             /\ current # Seed =>
                  tk[current].exec = task[current].exec + (now - task[current].started)
<1> DEFINE ch == Charged(nx, now)
           tk == GiveCPU(ch, now, t)
<1>1. /\ \A u \in Tasks \ {current} : ch[u] = task[u]
      /\ \A u \in Forked : ch[u] \in TaskRec
  BY ChargedIs DEF Sound
<1>2. current # Seed => /\ current \in Forked
                        /\ ch[current].exec
                             = task[current].exec + (now - task[current].started)
  <2> SUFFICES ASSUME current # Seed
               PROVE  /\ current \in Forked
                      /\ ch[current].exec
                           = task[current].exec + (now - task[current].started)
    OBVIOUS
  <2>1. current \in Forked /\ current \in Tasks
    BY DEF DataSound, Forked
  <2> DEFINE d == task[current]
  <2>2. d \in TaskRec
    BY <2>1 DEF DataSound, Sound
  <2>3. ch[current] = IF nx[current] = Null THEN EndBurst(Charge(d, now)) ELSE Charge(d, now)
    BY <2>1 DEF Charged, DataSound
  <2> HIDE DEF d, ch
  <2>4. Charge(d, now).exec = d.exec + (now - d.started)
    BY <2>2 DEF Charge, TaskRec
  <2>5. Charge(d, now) = [d EXCEPT !.lastBurst = Charge(d, now).lastBurst,
                                   !.exec = Charge(d, now).exec,
                                   !.pred = Charge(d, now).pred]
    BY <2>2 DEF Charge, TaskRec
  <2>6. EndBurst(Charge(d, now)).exec = Charge(d, now).exec
    BY <2>2, <2>5 DEF EndBurst, TaskRec
  <2> QED
    BY <2>1, <2>3, <2>4, <2>6 DEF d
<1> HIDE DEF ch
<1>3. ASSUME NEW u \in Forked
      PROVE  tk[u].exec = ch[u].exec /\ (u = t => tk[u].started = now)
  <2> DEFINE d == ch[u]
  <2>1. tk[u] = IF u = t /\ u = current THEN [d EXCEPT !.started = now, !.pred = task[u].pred]
                ELSE IF u = t           THEN [d EXCEPT !.started = now]
                ELSE IF u = current     THEN [d EXCEPT !.lastRun = Max({now, d.lastRun})]
                ELSE d
    BY <1>1 DEF GiveCPU, Forked, TaskRec
  <2>2. d \in TaskRec
    BY <1>1
  <2> HIDE DEF d, tk
  <2>3. tk[u].exec = d.exec /\ (u = t => tk[u].started = now)
    BY <2>1, <2>2 DEF TaskRec
  <2> QED
    BY <2>3 DEF d
<1> HIDE DEF tk
<1>4. \A u \in Forked \ {current} : tk[u].exec = task[u].exec
  BY <1>1, <1>3 DEF Forked
<1> QED
  BY <1>2, <1>3, <1>4 DEF tk, ch

\* A call of schedule() counts the time since the last one, once.
LEMMA ScheduleCounts ==
  ASSUME Inv, CpuInv, NEW nx, NEW pv, NEW s, IsRing(nx, pv, s),
         \A i \in 1..Len(s) : s[i] \in Forked,
         NEW n, n = Len(s) + 1, NEW now \in Nat, clock' = now, clock <= now,
         Schedule(nx, n, now)
  PROVE  CpuInv'
<1>1. DataSound(now) /\ clock \in Nat
  <2>1. clock \in Nat
    BY TimesNatural DEF Inv, Times
  <2>2. \A x \in Forked : Sound(task[x], now)
    BY <2>1, SoundLater DEF Inv, DataSound
  <2> QED
    BY <2>1, <2>2 DEF Inv, DataSound
<1>2. /\ \A t \in Tasks : task'[t] = Null <=> task[t] = Null
      /\ \A t \in Forked : Sound(task'[t], now)
      /\ \/ s = <<>> /\ current' = Seed
         \/ \E c \in 1..Len(s) : current' = s[c]
  BY <1>1, ScheduleIs
<1>3. Forked' = Forked
  BY <1>2 DEF Forked
<1>4. Bounded(task, Forked, now) /\ Bounded(task', Forked, now)
  <2>1. Bounded(task, Forked, now)
    BY <1>1, TimesBounded
  <2> QED
    BY <1>2, <2>1 DEF Bounded, Sound, TaskRec
<1>5. Executed(task, Forked) \in Nat
  BY <1>4, ExecutedFinite
<1>6. current # Seed => /\ current \in Forked
                        /\ task[current].started \in Nat /\ task[current].started <= now
                        /\ Executed(task, Forked) <= task[current].started
  BY <1>1 DEF CpuInv, DataSound, Sound, TaskRec
<1>7. Executed(task, Forked) <= now
  BY <1>1, <1>5, <1>6 DEF CpuInv
<1>8. CASE n = 1
  <2>1. current' = Seed /\ task' = task
    BY <1>8 DEF Schedule
  <2> QED
    BY <1>3, <1>7, <2>1 DEF CpuInv
<1>9. CASE n # 1
  <2>1. task' = GiveCPU(Charged(nx, now), now, current') /\ s # <<>>
    <3>1. s # <<>>
      BY <1>9, EmptySeq DEF IsRing
    <3> QED
      BY <1>9, <3>1 DEF Schedule
  <2>2. current' \in Forked /\ current' # Seed
    BY <1>2, <2>1, TasksFinite DEF Forked
  <2>3. /\ task'[current'].started = now
        /\ \A u \in Forked \ {current} : task'[u].exec = task[u].exec
        /\ current # Seed =>
             task'[current].exec = task[current].exec + (now - task[current].started)
    BY <1>1, <2>1, <2>2, ChargedTimes
  <2>4. Executed(task', Forked) <= now
    <3>1. CASE current = Seed
      <4>1. \A u \in Forked : task'[u].exec = task[u].exec
        BY <2>3, <3>1, TasksFinite DEF Forked
      <4>2. Executed(task', Forked) = Executed(task, Forked)
        BY <4>1, ExecutedSame
      <4> QED
        BY <1>7, <4>2
    <3>2. CASE current # Seed
      <4> DEFINE others == Forked \ {current}
      <4>1. Executed(task, Forked) = task[current].exec + Executed(task, others)
        BY <1>4, <1>6, <3>2, ExecutedAdds
      <4>2. Executed(task', Forked) = task'[current].exec + Executed(task', others)
        <5> DEFINE tk == task'
        <5> HIDE DEF tk
        <5>1. Bounded(tk, Forked, now)
          BY <1>4 DEF tk
        <5>2. Executed(tk, Forked) = tk[current].exec + Executed(tk, others)
          BY <1>6, <3>2, <5>1, ExecutedAdds
        <5> QED
          BY <5>2 DEF tk
      <4>3. Executed(task', others) = Executed(task, others)
        BY <2>3, ExecutedSame
      <4>4. Bounded(task, others, now)
        BY <1>4, FS_RemoveElement DEF Bounded
      <4>5. Executed(task, others) \in Nat /\ task[current].exec \in Nat
        BY <1>4, <1>6, <3>2, <4>4, ExecutedFinite DEF Bounded
      <4> HIDE DEF others
      <4>6. PICK sum, own, rest, start \in Nat :
              /\ sum = Executed(task, Forked) /\ own = task[current].exec
              /\ rest = Executed(task, others) /\ start = task[current].started
        BY <1>5, <1>6, <3>2, <4>5
      <4>7. sum = own + rest /\ sum <= start /\ start <= now
        BY <1>6, <3>2, <4>1, <4>6
      <4>8. PICK less \in Nat : less = now - start /\ task'[current].exec = own + less
        BY <2>3, <3>2, <4>6, <4>7
      <4>9. Executed(task', Forked) = own + less + rest
        BY <4>2, <4>3, <4>6, <4>8
      <4>10. own + less + rest <= now
        BY <4>7, <4>8
      <4> QED
        BY <4>9, <4>10
    <3> QED
      BY <3>1, <3>2
  <2> QED
    BY <1>3, <2>2, <2>3, <2>4 DEF CpuInv
<1> QED
  BY <1>8, <1>9

-----------------------------------------------------------------------------
(* The calls.                                                              *)

\* A new task has executed nothing, a task that wakes up what it had before.
LEMMA ArrivalCounts ==
  ASSUME Inv, CpuInv, NEW t \in Tasks, Fork(t) \/ Wake(t)
  PROVE  CpuInv'
<1>1. /\ clock' = clock /\ current' = current /\ clock \in Nat
      /\ task \in [Tasks -> TaskRec \cup {Null}]
      /\ current \in Forked \cup {Seed}
      /\ DataSound(clock)
  BY TimesNatural DEF Fork, Wake, Enqueue, Inv, DataSound, Times
<1>2. Bounded(task, Forked, clock)
  BY <1>1, TimesBounded
<1>3. ASSUME NEW tk, tk \in TaskRec, Enqueue(t, tk)
      PROVE  /\ \A u \in Tasks \ {t} : task'[u] = task[u]
             /\ task'[t] \in TaskRec
             /\ task'[t].exec = tk.exec /\ task'[t].started = tk.started
  <2> DEFINE m == Max({clock, tk.lastRun})
             d == [tk EXCEPT !.lastRun = m]
  <2>1. task' = [task EXCEPT ![t] = d]
    BY <1>3 DEF Enqueue, TaskRec
  <2>2. m \in Nat
    <3>1. tk.lastRun \in Nat
      BY <1>3 DEF TaskRec
    <3>2. CASE tk.lastRun <= clock
      BY <1>1, <3>1, <3>2, MaxOfTwo
    <3>3. CASE ~ (tk.lastRun <= clock)
      <4>1. clock <= tk.lastRun /\ {clock, tk.lastRun} = {tk.lastRun, clock}
        BY <1>1, <3>1, <3>3
      <4> QED
        BY <1>1, <3>1, <4>1, MaxOfTwo
    <3> QED
      BY <3>2, <3>3
  <2> HIDE DEF m
  <2>3. d \in TaskRec /\ d.exec = tk.exec /\ d.started = tk.started
    BY <1>3, <2>2 DEF TaskRec
  <2> HIDE DEF d
  <2> QED
    BY <1>1, <2>1, <2>3
<1>4. CASE Fork(t)
  <2>1. NewTask \in TaskRec /\ Enqueue(t, NewTask) /\ task[t] = Null
    BY <1>4 DEF Fork, NewTask, TaskRec
  <2>2. /\ \A u \in Tasks \ {t} : task'[u] = task[u]
        /\ task'[t] \in TaskRec /\ task'[t].exec = 0
    BY <1>3, <2>1 DEF NewTask
  <2>3. Forked' = Forked \cup {t} /\ t \notin Forked /\ t # current
    <3>1. task'[t] # Null
      BY <2>2, NullIsNoTaskData DEF TaskRec
    <3> QED
      BY <1>1, <2>1, <2>2, <3>1, TasksFinite DEF Forked
  <2>4. Executed(task', Forked) = Executed(task, Forked)
    <3>1. \A u \in Forked : task'[u].exec = task[u].exec
      BY <2>2, <2>3 DEF Forked
    <3> QED
      BY <3>1, ExecutedSame
  <2> DEFINE tk == task'
             more == Forked \cup {t}
  <2>5. Bounded(tk, more, clock) /\ more \ {t} = Forked /\ t \in more /\ tk[t].exec = 0
    <3>1. IsFiniteSet(more)
      BY <1>2, FS_AddElement DEF Bounded
    <3>2. \A u \in more : tk[u].exec \in Nat /\ tk[u].exec <= clock
      BY <1>1, <1>2, <2>2, <2>3 DEF Bounded, Forked
    <3> QED
      BY <1>1, <2>2, <2>3, <3>1, <3>2 DEF Bounded
  <2> HIDE DEF tk, more
  <2>6. Executed(tk, more) = tk[t].exec + Executed(tk, more \ {t})
    BY <2>5, ExecutedAdds
  <2>7. Executed(tk, Forked) \in Nat
    <3>1. Executed(task, Forked) \in Nat
      BY <1>2, ExecutedFinite
    <3> QED
      BY <2>4, <3>1 DEF tk
  <2>8. Executed(task', Forked') = Executed(task, Forked)
    <3>1. Executed(tk, more) = Executed(tk, Forked)
      BY <2>5, <2>6, <2>7
    <3> QED
      BY <2>3, <2>4, <3>1 DEF tk, more
  <2>9. current # Seed => task'[current].started = task[current].started
    BY <1>1, <2>2, <2>3 DEF Forked
  <2> QED
    BY <1>1, <2>8, <2>9 DEF CpuInv
<1>5. CASE Wake(t)
  <2>1. t \in Forked /\ Enqueue(t, task[t]) /\ task[t] \in TaskRec
    BY <1>1, <1>5 DEF Wake, DataSound, Sound
  <2>2. /\ \A u \in Tasks \ {t} : task'[u] = task[u]
        /\ task'[t] \in TaskRec
        /\ task'[t].exec = task[t].exec /\ task'[t].started = task[t].started
    BY <1>3, <2>1
  <2>3. Forked' = Forked
    <3>1. task'[t] # Null
      BY <2>2, NullIsNoTaskData DEF TaskRec
    <3> QED
      BY <2>1, <2>2, <3>1 DEF Forked
  <2>4. \A u \in Forked : task'[u].exec = task[u].exec /\ task'[u].started = task[u].started
    BY <2>2 DEF Forked
  <2>5. Executed(task', Forked) = Executed(task, Forked)
    BY <2>4, ExecutedSame
  <2>6. current # Seed => task'[current].started = task[current].started
    BY <1>1, <2>4
  <2> QED
    BY <1>1, <2>3, <2>5, <2>6 DEF CpuInv
<1> QED
  BY <1>4, <1>5

\* Every step preserves the accounting.
LEMMA StepCounts == Inv /\ CpuInv /\ [Next]_vars => CpuInv'
<1> SUFFICES ASSUME Inv, CpuInv, [Next]_vars PROVE CpuInv'
  OBVIOUS
<1>1. /\ IsRing(next, prev, Queue) /\ nrRunning = Len(Queue) + 1
      /\ \A i \in 1..Len(Queue) : Queue[i] \in Forked
      /\ clock \in Nat
  BY TimesNatural DEF Inv, RingInv, Times
<1>2. CASE Tick
  <2>1. PICK now \in Nat : clock' = now /\ clock <= now /\ Schedule(next, nrRunning, now)
    BY <1>1, <1>2 DEF Tick
  <2> DEFINE q == Queue
  <2> HIDE DEF q
  <2>2. IsRing(next, prev, q) /\ nrRunning = Len(q) + 1 /\ \A i \in 1..Len(q) : q[i] \in Forked
    BY <1>1 DEF q
  <2> QED
    BY <2>1, <2>2, ScheduleCounts
<1>3. CASE Sleep
  <2>1. PICK k \in 1..Len(Queue) :
          /\ IsRing(next', prev', Without(Queue, k))
          /\ nrRunning' = Len(Without(Queue, k)) + 1
          /\ \A i \in 1..Len(Without(Queue, k)) : Without(Queue, k)[i] \in Forked
    BY <1>3, SleepUnlinks
  <2>2. PICK u, nx, pv, n :
          u = Without(Queue, k) /\ next' = nx /\ prev' = pv /\ nrRunning' = n
    OBVIOUS
  <2>3. IsRing(nx, pv, u) /\ n = Len(u) + 1 /\ \A i \in 1..Len(u) : u[i] \in Forked
    BY <2>1, <2>2
  <2>4. Schedule(nx, n, clock) /\ clock' = clock /\ clock <= clock
    <3>1. Schedule(next', nrRunning', clock) /\ clock' = clock
      BY <1>3 DEF Sleep
    <3> QED
      BY <1>1, <2>2, <3>1 DEF Schedule
  <2> QED
    BY <1>1, <2>3, <2>4, ScheduleCounts
<1>4. ASSUME NEW t \in Tasks, Fork(t) \/ Wake(t) PROVE CpuInv'
  BY <1>4, ArrivalCounts
<1>5. CASE UNCHANGED vars
  BY <1>5 DEF vars, CpuInv, Forked
<1>6. CASE Pass
  <2>1. /\ clock \in Nat /\ clock' \in Nat /\ clock <= clock'
        /\ current' = current /\ task' = task
    BY <1>6, PassInv DEF Pass
  <2>2. Executed(task, Forked) \in Nat
    <3>1. DataSound(clock)
      BY DEF Inv
    <3> QED
      BY <2>1, <3>1, TimesBounded, ExecutedFinite
  <2>3. Executed(task, Forked)' = Executed(task, Forked)
    BY <2>1 DEF Forked
  <2> QED
    BY <2>1, <2>2, <2>3 DEF CpuInv
<1> QED
  BY <1>2, <1>3, <1>4, <1>5, <1>6 DEF Next

\* At the start nothing has executed.
LEMMA InitCounts == Init => CpuInv
<1> SUFFICES ASSUME Init PROVE CpuInv
  OBVIOUS
<1>1. Forked = {} /\ current = Seed /\ clock = 0
  BY DEF Init, Forked
<1>2. Executed(task, {}) = 0
  <2>1. Units(task, {}) = {}
    BY DEF Units
  <2> QED
    BY <2>1, FS_EmptySet DEF Executed
<1> QED
  BY <1>1, <1>2 DEF CpuInv

\* What the invariants say of the sum that the run checks.
LEMMA InvImpliesCountedOnce == Inv /\ CpuInv => CpuTimeCountedOnce
<1> SUFFICES ASSUME Inv, CpuInv PROVE CpuTimeCountedOnce
  OBVIOUS
<1>1. clock \in Nat /\ DataSound(clock)
  BY TimesNatural DEF Inv, Times
<1>2. Bounded(task, Forked, clock)
  BY <1>1, TimesBounded
<1>3. MapThenSumSet(LAMBDA t : task[t].exec, Forked) = Executed(task, Forked)
  BY <1>2, SumIsExecuted
<1>4. Executed(task, Forked) \in Nat
  BY <1>2, ExecutedFinite
<1>5. Executed(task, Forked)
        + (IF current = Seed THEN 0 ELSE clock - task[current].started) <= clock
  <2>1. CASE current = Seed
    BY <1>1, <1>4, <2>1 DEF CpuInv
  <2>2. CASE current # Seed
    <3>1. task[current].started \in Nat /\ Executed(task, Forked) <= task[current].started
      BY <1>1, <2>2 DEF CpuInv, DataSound, Sound, TaskRec
    <3> QED
      BY <1>1, <1>4, <2>2, <3>1
  <2> QED
    BY <2>1, <2>2
<1>6. \A t \in Forked : task[t].lastBurst <= task[t].exec /\ task[t].pred <= task[t].exec
  BY <1>1 DEF DataSound, Sound
<1> QED
  BY <1>3, <1>5, <1>6 DEF CpuTimeCountedOnce

\* schedule.c:100-118: time is charged when the CPU is given up or kept, and the
\* clock of the task that has it restarts then, so that no unit is counted twice.
THEOREM TimeIsCountedOnce == Spec => []CpuTimeCountedOnce
<1>1. Spec => [](Inv /\ CpuInv)
  <2>1. Init => Inv /\ CpuInv
    BY InitInv, InitCounts
  <2>2. Inv /\ CpuInv /\ [Next]_vars => (Inv /\ CpuInv)'
    BY NextInv, StepCounts
  <2> QED
    BY <2>1, <2>2, PTL DEF Spec
<1> QED
  BY <1>1, InvImpliesCountedOnce, PTL

=============================================================================
