------------------------------ MODULE ReadyList ------------------------------
(***************************************************************************)
(* What the run queue of Project 2/schedule.c is to the virtual machine:   *)
(* the tasks that can run, the latest arrival first, and the task that has *)
(* the CPU, which is one of them whenever there is one to choose.          *)
(***************************************************************************)
EXTENDS Naturals, Sequences, SequencesExt

CONSTANTS Tasks, Seed

VARIABLES ready, running

vars == <<ready, running>>

Init == ready = <<>> /\ running = Seed

\* A task arrives; the CPU is not taken from the one that has it.
Arrive(t) ==
  /\ t \notin ToSet(ready)
  /\ ready' = <<t>> \o ready
  /\ UNCHANGED running

\* The CPU goes to a task that can run, and to the seed task if there is none.
Dispatch ==
  \/ ready' = <<>> /\ running' = Seed
  \/ running' \in ToSet(ready')

Reschedule == UNCHANGED ready /\ Dispatch

\* The running task leaves, the others keep their order.
Leave ==
  /\ \E i \in DOMAIN ready : ready[i] = running /\ ready' = RemoveAt(ready, i)
  /\ Dispatch

Next == Reschedule \/ Leave \/ \E t \in Tasks : Arrive(t)

Spec == Init /\ [][Next]_vars

=============================================================================
