------------------------------- MODULE CondVar -------------------------------
(***************************************************************************)
(* The condition variables of src/src/runtime/condvar.scm: a queue of      *)
(* waiters under a lock of its own, and the mutex that a caller gives up   *)
(* while it waits.                                                         *)
(*                                                                         *)
(* A waiter is the thread that made it: a thread waits at most once at a   *)
(* time.  The queue is a sequence; enqueue-waiter! and remove-waiter!      *)
(* commit their pointers without interruption.  A signaller keeps its      *)
(* events unblocked and can be preempted, or made to exit, between any two *)
(* of its steps.  Of the thread system only mutual exclusion and the event *)
(* #f are seen: it stays pending until the thread suspends, and a thread   *)
(* with a pending event does not suspend (NoLostWakeup of                  *)
(* ThreadScheduler).                                                       *)
(***************************************************************************)
EXTENDS Naturals, Sequences

CONSTANTS
  Threads,
  None,
  Ops          \* the operations the threads of this instance call

AllOps == {"wait", "wait_unlock", "timeout", "signal", "broadcast", "event",
           "exit"}

ASSUME CondVarAssumption == None \notin Threads /\ Ops \subseteq AllOps

VARIABLES
  waiters,  \* waiter-head ... waiter-tail
  done,     \* waiter.done? of a thread's waiter
  lock,     \* the owner of the condition variable's lock
  mutex,    \* the owner of the callers' mutex
  pc, op,   \* a thread's call and where it stands
  timed,    \* the call was given a timeout
  late,     \* and the clock is past it
  timer,    \* threads with a registered timer event
  pending   \* threads with a pending event

lockVars == <<lock, mutex>>
callVars == <<op, timed, late>>
eventVars == <<timer, pending>>
vars == <<waiters, done, lockVars, pc, callVars, eventVars>>

Queued(t) == \E i \in 1..Len(waiters) : waiters[i] = t

\* remove-waiter!, unless the waiter is detached: its neighbours are linked.
Without(t) ==
  IF ~Queued(t) THEN waiters
  ELSE LET i == CHOOSE i \in 1..Len(waiters) : waiters[i] = t
       IN  [j \in 1..(Len(waiters) - 1) |->
              waiters[IF j < i THEN j ELSE j + 1]]

Goto(t, next) == pc' = [pc EXCEPT ![t] = next]

Init ==
  /\ waiters = << >>
  /\ done = [t \in Threads |-> FALSE]
  /\ lock = None
  /\ mutex = None
  /\ pc = [t \in Threads |-> "idle"]
  /\ op = [t \in Threads |-> None]
  /\ timed = [t \in Threads |-> FALSE]
  /\ late = [t \in Threads |-> FALSE]
  /\ timer = {}
  /\ pending = {}

\* A call returns: what it knew of itself is gone.
Return(t) ==
  /\ op' = [op EXCEPT ![t] = None]
  /\ timed' = [timed EXCEPT ![t] = FALSE]
  /\ late' = [late EXCEPT ![t] = FALSE]

(***************************************************************************)
(* The callers' mutex.                                                     *)
(***************************************************************************)

LockMutex(t) ==
  /\ pc[t] = "idle"
  /\ mutex = None
  /\ mutex' = t
  /\ Goto(t, "locked")
  /\ UNCHANGED <<waiters, done, lock, callVars, eventVars>>

UnlockMutex(t) ==
  /\ pc[t] = "locked"
  /\ mutex' = None
  /\ Goto(t, "idle")
  /\ UNCHANGED <<waiters, done, lock, callVars, eventVars>>

(***************************************************************************)
(* Waiting.                                                                *)
(***************************************************************************)

\* condition-variable-wait! and unlock-thread-mutex-and-wait: make-waiter,
\* block-thread-events
BeginWait(t, o, timeout) ==
  /\ pc[t] = "locked"
  /\ Goto(t, "enqueue")
  /\ op' = [op EXCEPT ![t] = o]
  /\ timed' = [timed EXCEPT ![t] = timeout]
  /\ done' = [done EXCEPT ![t] = FALSE]
  /\ UNCHANGED <<waiters, lockVars, late, eventVars>>

\* enqueue-waiter!
Enqueue(t) ==
  /\ pc[t] = "enqueue"
  /\ lock = None
  /\ waiters' = Append(waiters, t)
  /\ Goto(t, "release")
  /\ UNCHANGED <<done, lockVars, callVars, eventVars>>

\* unlock-thread-mutex, and register-timer-event if there is a timeout
Release(t) ==
  /\ pc[t] = "release"
  /\ mutex' = None
  /\ timer' = IF timed[t] THEN timer \cup {t} ELSE timer
  /\ Goto(t, "test")
  /\ UNCHANGED <<waiters, done, lock, callVars, pending>>

\* the tests of the loop in %condition-variable-wait!/unlock; after the loop,
\* deregister-timer-event
Test(t) ==
  /\ pc[t] = "test"
  /\ IF (timed[t] /\ ~late[t]) \/ done[t]
     THEN Goto(t, "cleanup") /\ timer' = timer \ {t}
     ELSE Goto(t, "suspend") /\ UNCHANGED timer
  /\ UNCHANGED <<waiters, done, lockVars, callVars, pending>>

\* suspend-current-thread: a pending event is handled at once ...
Suspend(t) ==
  /\ pc[t] = "suspend"
  /\ Goto(t, IF t \in pending THEN "test" ELSE "suspended")
  /\ pending' = pending \ {t}
  /\ UNCHANGED <<waiters, done, lockVars, callVars, timer>>

\* ... and one that is signalled later resumes the thread.
Resume(t) ==
  /\ pc[t] = "suspended"
  /\ t \in pending
  /\ Goto(t, "test")
  /\ pending' = pending \ {t}
  /\ UNCHANGED <<waiters, done, lockVars, callVars, timer>>

\* Slip (QueueClean): the waiter of a call that timed out stays queued.
CleanupDoneOnly(t) ==
  /\ pc[t] = "cleanup"
  /\ lock = None
  /\ waiters' = IF done[t] THEN Without(t) ELSE waiters
  /\ Goto(t, IF op[t] = "wait" THEN "relock" ELSE "idle")
  /\ pending' \in {pending, pending \ {t}}
  /\ Return(t)
  /\ UNCHANGED <<done, lockVars, timer>>

\* A waiter that is still in the queue is removed.  Then events are
\* unblocked, unless the caller had blocked them.
Cleanup(t) ==
  /\ pc[t] = "cleanup"
  /\ lock = None
  /\ waiters' = Without(t)
  /\ Goto(t, IF op[t] = "wait" THEN "relock" ELSE "idle")
  /\ pending' \in {pending, pending \ {t}}
  /\ Return(t)
  /\ UNCHANGED <<done, lockVars, timer>>

\* condition-variable-wait! locks the mutex again
Relock(t) ==
  /\ pc[t] = "relock"
  /\ mutex = None
  /\ mutex' = t
  /\ Goto(t, "locked")
  /\ pending' \in {pending, pending \ {t}}
  /\ UNCHANGED <<waiters, done, lock, callVars, timer>>

(***************************************************************************)
(* Signalling.                                                             *)
(***************************************************************************)

\* condition-variable-signal! and condition-variable-broadcast!, by a thread
\* that holds the mutex or not
BeginSignal(t, o) ==
  /\ pc[t] \in {"idle", "locked"}
  /\ Goto(t, "sig_lock")
  /\ op' = [op EXCEPT ![t] = o]
  /\ UNCHANGED <<waiters, done, lockVars, timed, late, eventVars>>

SignalLock(t) ==
  /\ pc[t] = "sig_lock"
  /\ lock = None
  /\ lock' = t
  /\ Goto(t, "sig_scan")
  /\ UNCHANGED <<waiters, done, mutex, callVars, eventVars>>

\* The lock is released, whether the loop is over or an error ends it.
EndSignal(t) ==
  /\ lock' = None
  /\ Goto(t, IF mutex = t THEN "locked" ELSE "idle")
  /\ Return(t)

\* the loop looks at the first waiter
SignalScan(t) ==
  /\ pc[t] = "sig_scan"
  /\ IF waiters = << >> THEN EndSignal(t) /\ UNCHANGED waiters
     ELSE IF done[Head(waiters)]
     THEN waiters' = Tail(waiters) /\ UNCHANGED <<lock, pc, callVars>>
     ELSE Goto(t, "sig_wake") /\ UNCHANGED <<waiters, lock, callVars>>
  /\ UNCHANGED <<done, mutex, eventVars>>

\* Slip (WaiterReachable): the waiter leaves the queue before it is marked.
SignalWakeRemoves(t) ==
  /\ pc[t] = "sig_wake"
  /\ EndSignal(t)
  /\ IF pc[Head(waiters)] = "dead" THEN UNCHANGED <<waiters, pending>>
     ELSE /\ pending' = pending \cup {Head(waiters)}
          /\ waiters' = Tail(waiters)
  /\ UNCHANGED <<done, mutex, timer>>

\* signal-thread-event, which signals an error if the waiter has exited ...
SignalWake(t) ==
  /\ pc[t] = "sig_wake"
  /\ IF pc[Head(waiters)] = "dead" THEN EndSignal(t) /\ UNCHANGED pending
     ELSE /\ pending' = pending \cup {Head(waiters)}
          /\ Goto(t, "sig_done")
          /\ UNCHANGED <<lock, callVars>>
  /\ UNCHANGED <<waiters, done, mutex, timer>>

\* ... set-waiter.done?! ...
SignalDone(t) ==
  /\ pc[t] = "sig_done"
  /\ done' = [done EXCEPT ![Head(waiters)] = TRUE]
  /\ Goto(t, "sig_remove")
  /\ UNCHANGED <<waiters, lockVars, callVars, eventVars>>

\* ... and remove-waiter!
SignalRemove(t) ==
  /\ pc[t] = "sig_remove"
  /\ waiters' = Tail(waiters)
  /\ IF op[t] = "signal" THEN EndSignal(t)
     ELSE Goto(t, "sig_scan") /\ UNCHANGED <<lock, callVars>>
  /\ UNCHANGED <<done, mutex, eventVars>>

(***************************************************************************)
(* Time, other events, exits.                                              *)
(***************************************************************************)

\* The clock passes the timeout of a call.
TimePasses(t) ==
  /\ timed[t] /\ ~late[t]
  /\ late' = [late EXCEPT ![t] = TRUE]
  /\ UNCHANGED <<waiters, done, lockVars, pc, op, timed, eventVars>>

\* The timer event that is registered for it arrives.
TimerEvent(t) ==
  /\ t \in timer /\ late[t]
  /\ timer' = timer \ {t}
  /\ pending' = pending \cup {t}
  /\ UNCHANGED <<waiters, done, lockVars, pc, callVars>>

\* An event that has nothing to do with the condition variable is signalled.
OtherEvent(t) ==
  /\ "event" \in Ops
  /\ pc[t] \in {"suspend", "suspended"}
  /\ t \notin pending
  /\ pending' = pending \cup {t}
  /\ UNCHANGED <<waiters, done, lockVars, pc, callVars, timer>>

\* A thread is made to exit where it does not block events, or suspends.
\* Its locks are released and its timer event is dropped; its waiter stays in
\* the queue.
Exit(t) ==
  /\ "exit" \in Ops
  /\ pc[t] \notin {"release", "test", "suspend", "dead"}
  /\ Goto(t, "dead")
  /\ Return(t)
  /\ lock' = IF lock = t THEN None ELSE lock
  /\ mutex' = IF mutex = t THEN None ELSE mutex
  /\ timer' = timer \ {t}
  /\ pending' = pending \ {t}
  /\ UNCHANGED <<waiters, done>>

\* A thread goes on inside a call.
Step(t) ==
  \/ Enqueue(t) \/ Release(t) \/ Test(t) \/ Suspend(t) \/ Resume(t)
  \/ Cleanup(t) \/ Relock(t)
  \/ SignalLock(t) \/ SignalScan(t) \/ SignalWake(t) \/ SignalDone(t)
  \/ SignalRemove(t)

Environment(t) ==
  TimePasses(t) \/ TimerEvent(t) \/ OtherEvent(t) \/ Exit(t)

Next ==
  \E t \in Threads :
    \/ LockMutex(t) \/ UnlockMutex(t) \/ Step(t) \/ Environment(t)
    \/ \E o \in Ops \cap {"wait", "wait_unlock"} :
         \/ BeginWait(t, o, FALSE)
         \/ "timeout" \in Ops /\ BeginWait(t, o, TRUE)
    \/ \E o \in Ops \cap {"signal", "broadcast"} : BeginSignal(t, o)

Spec == Init /\ [][Next]_vars

(***************************************************************************)
(* Properties.                                                             *)
(***************************************************************************)

InLoop(t) == pc[t] \in {"release", "test", "suspend", "suspended"}

\* "If we remove it from the queue before marking it done, it may never be
\* marked done and the thread may awaken but go right back to sleep
\* forever": while a thread waits for a signal it has not had, its waiter is
\* in the queue, from before the mutex is released and even if a signaller
\* is interrupted.
WaiterReachable ==
  \A t \in Threads : InLoop(t) /\ ~done[t] => Queued(t)

\* "Signaller got interrupted or we timed out.  Clean up.": a thread that
\* has left its wait has no waiter in the queue, which holds no waiter twice.
QueueClean ==
  /\ \A t \in Threads :
       Queued(t) => InLoop(t) \/ pc[t] \in {"cleanup", "dead"}
  /\ \A i, j \in 1..Len(waiters) : waiters[i] = waiters[j] => i = j
=============================================================================
