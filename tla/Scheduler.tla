------------------------------ MODULE Scheduler ------------------------------
(***************************************************************************)
(* Project 2/schedule.c: a ring of runnable tasks that starts at the seed  *)
(* task, and schedule(), which predicts CPU bursts and picks the task of   *)
(* least goodness.  The virtual machine that calls it is not part of the   *)
(* repository: it spawns tasks, ticks, puts the running task to sleep (or  *)
(* ends it, a sleep without wake-up) and wakes sleepers.                   *)
(*                                                                         *)
(* Time passes between the calls, as much or as little as it may, and not  *)
(* inside one.  waitingInRQ and goodness are recomputed by every           *)
(* schedule() that reads them, so they are operators; the seed task has no *)
(* burst data: no loop visits it.                                          *)
(***************************************************************************)
EXTENDS Naturals, FiniteSets, FiniteSetsExt

CONSTANTS
  Tasks,     \* the tasks other than the seed
  Seed,      \* the seed task, rq->head
  Null,
  TimeStep,  \* clock units that pass at a time
  MaxTime    \* bound of the clock

ASSUME TasksFinite == IsFiniteSet(Tasks) /\ Seed \notin Tasks /\ Null \notin Tasks \cup {Seed}
ASSUME TimesNatural == TimeStep \in Nat \ {0} /\ MaxTime \in Nat

\* A task that is not forked yet is told from one that is.
ASSUME NullIsNoTaskData ==
  Null \notin [lastBurst : Nat, pred : Nat, lastRun : Nat, started : Nat, exec : Nat]

VARIABLES
  clock,      \* sched_clock()
  next, prev, \* the links of the ring
  nrRunning,  \* rq->nr_running
  current,
  task        \* the burst data of the forked tasks

vars == <<clock, next, prev, nrRunning, current, task>>

All == Tasks \cup {Seed}

Linked(t) == ~(next[t] = Null /\ prev[t] = Null)

\* sched_fork.
NewTask == [lastBurst |-> 0, pred |-> 0, lastRun |-> 0, started |-> 0, exec |-> 0]

Forked == {t \in Tasks : task[t] # Null}

\* initschedule.
Init ==
  /\ clock = 0
  /\ next = [t \in All |-> IF t = Seed THEN Seed ELSE Null]
  /\ prev = next
  /\ nrRunning = 1
  /\ current = Seed
  /\ task = [t \in Tasks |-> Null]

-----------------------------------------------------------------------------
(* The loops over the ring: from the head's successor, n times at most and *)
(* not past the head.                                                      *)

Ring(nx, n) ==
  LET Walk[i \in Nat] ==
        IF i = 0 THEN nx[Seed]
        ELSE IF Walk[i - 1] \in {Seed, Null} THEN Seed ELSE nx[Walk[i - 1]]
      visited == {i \in 0..(n - 1) : Walk[i] # Seed}
  IN  [i \in 1..Cardinality(visited) |-> Walk[i - 1]]

\* updateWaitingInRQ: the running task has not waited.
WaitingInRQ(tk, now, t) == IF t = current THEN 0 ELSE now - tk[t].lastRun

Goodness(ring, tk, now, t) ==
  LET minExpBurst == Min({tk[ring[i]].pred : i \in DOMAIN ring})
      maxWaiting  == Max({WaitingInRQ(tk, now, ring[i]) : i \in DOMAIN ring})
  IN  ((1 + tk[t].pred) \div (1 + minExpBurst))
      * ((1 + maxWaiting) \div (1 + WaitingInRQ(tk, now, t)))

\* getMinExpBurst, which schedule() can be compiled with instead.
MinExpBurst(ring, tk, now) ==
  ring[Min({i \in DOMAIN ring : \A j \in DOMAIN ring :
              tk[ring[i]].pred <= tk[ring[j]].pred})]

\* The last task of the ring among those of least goodness.
MinGoodness(ring, tk, now) ==
  ring[Max({i \in DOMAIN ring : \A j \in DOMAIN ring :
              Goodness(ring, tk, now, ring[i]) <= Goodness(ring, tk, now, ring[j])})]

-----------------------------------------------------------------------------
(* schedule().                                                             *)

\* Mistake: the weights 1 and 0.5 are not divided by their sum.
SmoothedUnscaled(burst, prediction) == (2 * burst + prediction) \div 2

\* (burst + 0.5 * prediction) / 1.5, cut to an integer.
Smoothed(burst, prediction) == (2 * burst + prediction) \div 3

\* What the running task has used since it got the CPU is added to its burst,
\* and its prediction is made as if it lost the CPU.
Charge(tk, now) ==
  LET used  == now - tk.started
      burst == tk.lastBurst + used
  IN  [tk EXCEPT !.lastBurst = burst, !.exec = @ + used,
                 !.pred = Smoothed(burst, @)]

\* A task that left the ring is smoothed once more and starts a new burst.
EndBurst(tk) == [tk EXCEPT !.pred = Smoothed(tk.lastBurst, @), !.lastBurst = 0]

Charged(nx, now) ==
  IF current = Seed THEN task
  ELSE [task EXCEPT ![current] =
          IF nx[current] = Null THEN EndBurst(Charge(@, now)) ELSE Charge(@, now)]

\* Mistake: the clock of a task that keeps the CPU is not restarted.
GiveCPUToOther(tk, now, t) ==
  IF t = current THEN [tk EXCEPT ![t].pred = task[t].pred]
  ELSE [u \in Tasks |-> IF u = t THEN [tk[u] EXCEPT !.started = now]
                        ELSE IF u = current THEN [tk[u] EXCEPT !.lastRun = now]
                        ELSE tk[u]]

\* The chosen task starts to run; one that keeps the CPU gets its prediction
\* back, one that loses it starts to wait.
GiveCPU(tk, now, t) ==
  [u \in Tasks |->
     IF u = t /\ u = current THEN [tk[u] EXCEPT !.started = now, !.pred = task[u].pred]
     ELSE IF u = t           THEN [tk[u] EXCEPT !.started = now]
     ELSE IF u = current     THEN [tk[u] EXCEPT !.lastRun = Max({now, @})]
     ELSE tk[u]]

\* Mistake: alone in the ring, the seed task does not get the CPU.
ScheduleAmongTasks(nx, n, now) ==
  \/ n = 1 /\ UNCHANGED <<current, task>>
  \/ /\ n # 1
     /\ current' = MinGoodness(Ring(nx, n), Charged(nx, now), now)
     /\ task' = GiveCPU(Charged(nx, now), now, current')

\* On the ring nx of n tasks.  Alone in the ring, the seed task gets the CPU and
\* nothing is charged.
Schedule(nx, n, now) ==
  \/ /\ n = 1
     /\ current' = Seed
     /\ UNCHANGED task
  \/ /\ n # 1
     /\ current' = MinGoodness(Ring(nx, n), Charged(nx, now), now)
     /\ task' = GiveCPU(Charged(nx, now), now, current')

-----------------------------------------------------------------------------
(* The calls of the virtual machine.                                       *)

\* Mistake: the new task's predecessor is linked, its successor is not.
LinkForwardOnly(t) ==
  /\ next' = [next EXCEPT ![t] = next[Seed], ![Seed] = t]
  /\ prev' = [prev EXCEPT ![t] = Seed]
  /\ nrRunning' = nrRunning + 1

\* wake_up_new_task and activate_task put the task behind the head.
LinkBehindHead(t) ==
  /\ next' = [next EXCEPT ![t] = next[Seed], ![Seed] = t]
  /\ prev' = [prev EXCEPT ![next[Seed]] = t, ![t] = Seed]
  /\ nrRunning' = nrRunning + 1

Enqueue(t, tk) ==
  /\ LinkBehindHead(t)
  /\ task' = [task EXCEPT ![t] = [tk EXCEPT !.lastRun = Max({clock, @})]]
  /\ UNCHANGED <<clock, current>>

\* sched_fork and wake_up_new_task.
Fork(t) ==
  /\ task[t] = Null
  /\ Enqueue(t, NewTask)

\* activate_task for a sleeping task.
Wake(t) ==
  /\ t \in Forked
  /\ ~Linked(t)
  /\ Enqueue(t, task[t])

\* scheduler_tick, which is schedule; the machine also calls schedule on its own,
\* for a task whose need_reschedule is set.
Tick ==
  /\ Schedule(next, nrRunning, clock)
  /\ UNCHANGED <<clock, next, prev, nrRunning>>

\* deactivate_task for the running task, then schedule.
Sleep ==
  /\ current # Seed
  /\ next' = [[next EXCEPT ![prev[current]] = next[current]] EXCEPT ![current] = Null]
  /\ prev' = [[prev EXCEPT ![next[current]] = prev[current]] EXCEPT ![current] = Null]
  /\ nrRunning' = nrRunning - 1
  /\ Schedule(next', nrRunning', clock)
  /\ UNCHANGED clock

\* The time until the next call: the task that has the CPU executes.
Pass ==
  /\ clock + TimeStep <= MaxTime
  /\ clock' = clock + TimeStep
  /\ UNCHANGED <<next, prev, nrRunning, current, task>>

Next == Pass \/ Tick \/ Sleep \/ \E t \in Tasks : Fork(t) \/ Wake(t)

Spec == Init /\ [][Next]_vars

-----------------------------------------------------------------------------
(* Properties.                                                             *)

Times == 0..MaxTime

TaskData ==
  [lastBurst : Times, pred : Times, lastRun : Times, started : Times, exec : Times]

\* The variables have their types; no time of a task is ahead of the clock, so
\* no unsigned difference of schedule() wraps around.
TypeOK ==
  /\ clock \in Times
  /\ next \in [All -> All \cup {Null}]
  /\ prev \in [All -> All \cup {Null}]
  /\ nrRunning \in 1..(Cardinality(Tasks) + 1)
  /\ current \in All
  /\ task \in [Tasks -> TaskData \cup {Null}]
  /\ \A t \in Forked : task[t].lastRun <= clock /\ task[t].started <= clock

Queue == Ring(next, nrRunning)

\* The loops meet every task that has links once, following next they meet what
\* following prev meets, and nr_running counts them and the head: otherwise a
\* task is never chosen, or a loop ends on a null pointer.
RingIntact ==
  /\ nrRunning = Cardinality({t \in All : Linked(t)})
  /\ {Queue[i] : i \in DOMAIN Queue} = {t \in Tasks : Linked(t)}
  /\ \A t \in All : Linked(t) => next[prev[t]] = t /\ prev[next[t]] = t

\* Only a task in the ring has the CPU.
CurrentIsLinked == Linked(current)

\* One CPU: the execution times add up to no more than the time that passed, also
\* with what the running task has not been charged yet, and so does any burst
\* and prediction of a task to its execution time.
CpuTimeCountedOnce ==
  /\ MapThenSumSet(LAMBDA t : task[t].exec, Forked)
       + (IF current = Seed THEN 0 ELSE clock - task[current].started) <= clock
  /\ \A t \in Forked :
       task[t].lastBurst <= task[t].exec /\ task[t].pred <= task[t].exec

\* The task that gets the CPU has waited its share: whatever the bursts, no task
\* t of the ring has waited for longer than 2 + prediction of t times as long.
\* This is what goodness adds to shortest-burst-first (README.md:36).
ChosenHasWaited ==
  [][(current' # current /\ current' # Seed) =>
       \A t \in {Queue[i] : i \in DOMAIN Queue} \ {current} :
         Linked(t)' =>
           1 + clock' - task[t].lastRun
             <= (2 + task[t].pred) * (1 + clock' - task[current'].lastRun)]_vars

RL == INSTANCE ReadyList WITH ready <- Queue, running <- current

\* The ring is a list of ready tasks, and schedule() gives the CPU to one of them
\* whenever there is one (schedule.c:130, "curr can never be null").
Implements == RL!Spec

\* A task that leaves the ring has its burst counter reset (schedule.c:112, "If
\* process has been removed from the queue, calculate final burst prediction and
\* reset burst counter").
BurstResetOnLeaving ==
  [][\A t \in Forked : Linked(t) /\ ~Linked(t)' => task'[t].lastBurst = 0]_vars

=============================================================================
