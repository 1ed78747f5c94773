------------------------------- MODULE Barrier -------------------------------
(***************************************************************************)
(* The barriers of src/src/runtime/thread-barrier.scm, over the condition  *)
(* variable of CondVar: the callers' mutex there is the barrier's lock.    *)
(* A condition variable belongs to a barrier, and is only used by it, or   *)
(* to none (current is None), and is used directly.                        *)
(***************************************************************************)
EXTENDS CondVar, FiniteSets

CONSTANTS
  Count,         \* the threads that a generation waits for
  MaxGeneration  \* bound: no thread enters a later generation

ASSUME BarrierAssumption ==
  Count \in Nat \ {0} /\ MaxGeneration \in Nat /\ None \notin Nat

VARIABLES
  current,       \* arrivals that are missing, None if there is no barrier
  generation,
  my_generation  \* the generation a thread has read, None outside

barrierVars == <<current, generation, my_generation>>

BarrierInit ==
  /\ Init
  /\ current \in {Count, None}
  /\ generation = 0
  /\ my_generation = [t \in Threads |-> None]

\* with-thread-mutex-lock on the way in
BarrierEnter(t) ==
  /\ generation < MaxGeneration
  /\ LockMutex(t)
  /\ UNCHANGED barrierVars

\* Slip (BarrierCount): the last thread to arrive does not reset the count.
ArriveNoReset(t) ==
  /\ pc[t] = "locked"
  /\ my_generation[t] = None
  /\ my_generation' = [my_generation EXCEPT ![t] = generation]
  /\ current' = current - 1
  /\ IF current = 1
     THEN generation' = generation + 1 /\ BeginSignal(t, "broadcast")
     ELSE UNCHANGED <<vars, generation>>

\* A thread arrives; the last one starts the next generation and wakes the
\* others.
Arrive(t) ==
  /\ pc[t] = "locked"
  /\ my_generation[t] = None
  /\ my_generation' = [my_generation EXCEPT ![t] = generation]
  /\ IF current = 1
     THEN /\ current' = Count
          /\ generation' = generation + 1
          /\ BeginSignal(t, "broadcast")
     ELSE /\ current' = current - 1
          /\ UNCHANGED <<vars, generation>>

\* the loop around condition-variable-wait!
BarrierWait(t) ==
  /\ my_generation[t] = generation
  /\ BeginWait(t, "wait", FALSE)
  /\ UNCHANGED barrierVars

\* Slip (GenerationComplete): the loop's test is left out.
BarrierLeaveUntested(t) ==
  /\ my_generation[t] # None
  /\ UnlockMutex(t)
  /\ my_generation' = [my_generation EXCEPT ![t] = None]
  /\ UNCHANGED <<current, generation>>

\* thread-barrier-wait returns
BarrierLeave(t) ==
  /\ my_generation[t] # None
  /\ my_generation[t] < generation
  /\ UnlockMutex(t)
  /\ my_generation' = [my_generation EXCEPT ![t] = None]
  /\ UNCHANGED <<current, generation>>

BarrierNext ==
  \/ \E t \in Threads :
       /\ current # None
       /\ \/ BarrierEnter(t) \/ Arrive(t) \/ BarrierWait(t) \/ BarrierLeave(t)
          \/ (Step(t) \/ OtherEvent(t)) /\ UNCHANGED barrierVars
  \/ current = None /\ Next /\ UNCHANGED barrierVars

BarrierSpec == BarrierInit /\ [][BarrierNext]_<<vars, barrierVars>>

Arrived(g) == {t \in Threads : my_generation[t] = g}

\* The asserts of thread-barrier-wait, and what the count stands for: the
\* arrivals that the present generation still misses.
BarrierCount ==
  current # None =>
    /\ current \in 1..Count
    /\ Cardinality(Arrived(generation)) = Count - current

\* Nobody passes the barrier alone: when a generation ends its Count threads
\* are all inside, the one that ends it among them.
GenerationComplete ==
  [][generation' # generation =>
       Cardinality({t \in Threads : my_generation'[t] = generation})
         = Count]_<<vars, barrierVars>>
=============================================================================
