----------------------------- MODULE ThreadQueue -----------------------------
(***************************************************************************)
(* The thread queues of src/src/runtime/thread-queue.scm: a list of items  *)
(* kept in pairs, under a mutex that a thread releases while it is         *)
(* suspended because the queue is empty or full.                           *)
(*                                                                         *)
(* From locking the mutex to releasing it an operation is one step: it     *)
(* has thread events blocked, and no other operation can come in between.  *)
(* Of the thread system only the event #f is seen: an event signalled to a *)
(* thread stays pending until the thread suspends, and a thread with a     *)
(* pending event does not suspend (NoLostWakeup of ThreadScheduler).       *)
(***************************************************************************)
EXTENDS Naturals, Sequences

CONSTANTS
  Threads,
  Items,
  Pairs,        \* bound: the pairs that can be allocated
  None,         \* #f, and the empty list
  MaxElements,  \* max-elements, None for #f
  Ops,          \* the operations each thread of this instance calls, and whether
                \* it may exit and get other events
  MaxWaiting    \* bound: what makes a waiting list grow stops here

AllOps == {"queue", "queue_no_hang", "dequeue", "dequeue_until", "peek",
           "peek_until", "push", "empty", "exit", "event"}

ASSUME QueueAssumption ==
  /\ None \notin Threads \cup Items \cup Pairs
  /\ MaxElements = None \/ MaxElements \in Nat
  /\ Ops \in [Threads -> SUBSET AllOps]
  /\ MaxWaiting \in Nat

VARIABLES
  first_pair, last_pair, element_count,
  car, cdr,           \* the contents of the pairs
  waiting_queuers, waiting_dequeuers,
  pc, op, item,       \* a thread's call and where it stands
  late,               \* the time given to dequeue-until! has come
  timers,             \* threads with a timer record that is not due yet
  pending             \* threads with a pending event

pairVars  == <<first_pair, last_pair, element_count, car, cdr>>
waitVars  == <<waiting_queuers, waiting_dequeuers>>
callVars  == <<op, item>>
timeVars  == <<late, timers>>
vars == <<pairVars, waitVars, pc, callVars, timeVars, pending>>

Full == MaxElements # None /\ element_count >= MaxElements
Empty == element_count = 0

Init ==
  /\ first_pair = None
  /\ last_pair = None
  /\ element_count = 0
  /\ car = [p \in Pairs |-> None]
  /\ cdr = [p \in Pairs |-> None]
  /\ waiting_queuers = << >>
  /\ waiting_dequeuers = << >>
  /\ pc = [t \in Threads |-> "idle"]
  /\ op = [t \in Threads |-> None]
  /\ item = [t \in Threads |-> None]
  /\ late = [t \in Threads |-> FALSE]
  /\ timers = {}
  /\ pending = {}

(***************************************************************************)
(* The list.                                                               *)
(***************************************************************************)

\* The pair reached from first-pair by n cdrs.
Follow[n \in Nat] ==
  IF n = 0 THEN first_pair
  ELSE LET p == Follow[n - 1] IN IF p = None THEN None ELSE cdr[p]

InUse == {Follow[n] : n \in 0..element_count} \ {None}

\* What the list holds, by the count.
Contents == [i \in 1..element_count |-> car[Follow[i - 1]]]

\* %queue!, before %resume-dequeuers
AddLast(x) ==
  \E new \in Pairs \ InUse :
    /\ car' = [car EXCEPT ![new] = x]
    /\ cdr' = [p \in Pairs |-> IF p = last_pair THEN new
                               ELSE IF p = new THEN None ELSE cdr[p]]
    /\ last_pair' = new
    /\ first_pair' = IF first_pair = None THEN new ELSE first_pair
    /\ element_count' = element_count + 1

\* Slip (QueueShape): last-pair keeps pointing to the pair taken out.
TakeFirstKeepsLast ==
  /\ first_pair' = cdr[first_pair]
  /\ car' = [car EXCEPT ![first_pair] = None]
  /\ cdr' = [cdr EXCEPT ![first_pair] = None]
  /\ element_count' = element_count - 1
  /\ UNCHANGED last_pair

\* %dequeue!, before %resume-queuers.  The pair taken out is garbage.
TakeFirst ==
  /\ IF first_pair = last_pair
     THEN first_pair' = None /\ last_pair' = None
     ELSE first_pair' = cdr[first_pair] /\ UNCHANGED last_pair
  /\ car' = [car EXCEPT ![first_pair] = None]
  /\ cdr' = [cdr EXCEPT ![first_pair] = None]
  /\ element_count' = element_count - 1

\* %push!, before %resume-dequeuers
AddFirst(x) ==
  \E new \in Pairs \ InUse :
    /\ car' = [car EXCEPT ![new] = x]
    /\ cdr' = [cdr EXCEPT ![new] = first_pair]
    /\ first_pair' = new
    /\ last_pair' = IF last_pair = None THEN new ELSE last_pair
    /\ element_count' = element_count + 1

\* The pair that before-last finds in push!.
IsBeforeLast(p) == p \in InUse /\ cdr[p] = last_pair

\* Slip (RefinesBoundedQueue): the oldest item is clobbered.
RotateClobbersFirst(x) ==
  /\ \E p \in Pairs : IsBeforeLast(p)
  /\ car' = [car EXCEPT ![first_pair] = x]
  /\ UNCHANGED <<cdr, first_pair, last_pair, element_count>>

\* push! on a full queue: the last pair becomes the first one
Rotate(x) ==
  \E new_last \in Pairs :
    /\ IsBeforeLast(new_last)
    /\ car' = [car EXCEPT ![last_pair] = x]
    /\ cdr' = [cdr EXCEPT ![new_last] = None, ![last_pair] = first_pair]
    /\ last_pair' = new_last
    /\ first_pair' = last_pair
    /\ UNCHANGED element_count

(***************************************************************************)
(* Calls, and the threads that wait.                                       *)
(***************************************************************************)

\* A thread calls an operation and goes to lock the mutex.  The calls are
\* bounded: a thread that times out leaves an entry in its list, and nothing
\* is removed from a list with a thread that has exited.
Call(t, o, x) ==
  /\ pc[t] = "idle"
  /\ o \in Ops[t]
  /\ Len(waiting_queuers) <= MaxWaiting
  /\ Len(waiting_dequeuers) <= MaxWaiting
  /\ o \in {"dequeue_until", "peek_until"} =>
       Len(waiting_dequeuers) < MaxWaiting
  /\ pc' = [pc EXCEPT ![t] = "lock"]
  /\ op' = [op EXCEPT ![t] = o]
  /\ item' = [item EXCEPT ![t] = x]
  /\ UNCHANGED <<pairVars, waitVars, timeVars, pending>>

\* The thread has locked the mutex in one of the operations ops.
Locked(t, ops) == pc[t] = "lock" /\ op[t] \in ops

\* A call ends: the mutex is released, and events are unblocked unless the
\* caller had blocked them.  A timer record that outlives the call only
\* signals one more event.
Return(t, signalled) ==
  /\ pc' = [pc EXCEPT ![t] = "idle"]
  /\ op' = [op EXCEPT ![t] = None]
  /\ item' = [item EXCEPT ![t] = None]
  /\ timers' = timers \ {t}
  /\ late' = [late EXCEPT ![t] = FALSE]
  /\ pending' \in {pending \cup signalled, (pending \cup signalled) \ {t}}

\* The waiting threads that signal-thread-event reaches: it signals an error
\* when it comes to a thread that has exited.
Reached(list) ==
  {list[i] : i \in {j \in 1..Len(list) :
                      \A k \in 1..j : pc[list[k]] # "dead"}}

\* The list after the loop of %resume-queuers or %resume-dequeuers: an error
\* leaves it as it was.
AfterResume(list) ==
  IF \A i \in 1..Len(list) : pc[list[i]] # "dead" THEN << >> ELSE list

\* The thread releases the mutex and is about to suspend.
Unlock(t) ==
  /\ pc' = [pc EXCEPT ![t] = "unlocked"]
  /\ UNCHANGED <<pairVars, callVars, pending>>

(***************************************************************************)
(* The operations, once the mutex is locked.                               *)
(***************************************************************************)

\* Slip (DequeuersRestarted): the dequeuers are forgotten, not resumed.
QueueForgets(t) ==
  /\ Locked(t, {"queue", "queue_no_hang"})
  /\ ~Full
  /\ AddLast(item[t])
  /\ waiting_dequeuers' = << >>
  /\ Return(t, {})
  /\ UNCHANGED waiting_queuers

\* queue! and queue-no-hang! when there is room
Queue(t) ==
  /\ Locked(t, {"queue", "queue_no_hang"})
  /\ ~Full
  /\ AddLast(item[t])
  /\ waiting_dequeuers' = AfterResume(waiting_dequeuers)
  /\ Return(t, Reached(waiting_dequeuers))
  /\ UNCHANGED waiting_queuers

\* queue-no-hang! returns #f
QueueFull(t) ==
  /\ Locked(t, {"queue_no_hang"})
  /\ Full
  /\ Return(t, {})
  /\ UNCHANGED <<pairVars, waitVars>>

\* queue! suspends
QueueWait(t) ==
  /\ Locked(t, {"queue"})
  /\ Full
  /\ waiting_queuers' = Append(waiting_queuers, t)
  /\ Unlock(t)
  /\ UNCHANGED <<waiting_dequeuers, timeVars>>

\* Slip (QueuersRestarted): the queuers are resumed only when the queue
\* becomes empty.
DequeueResumesLate(t) ==
  /\ Locked(t, {"dequeue", "dequeue_until"})
  /\ ~Empty
  /\ TakeFirst
  /\ IF element_count = 1
     THEN /\ waiting_queuers' = AfterResume(waiting_queuers)
          /\ Return(t, Reached(waiting_queuers))
     ELSE Return(t, {}) /\ UNCHANGED waiting_queuers
  /\ UNCHANGED waiting_dequeuers

\* dequeue! and dequeue-until! when there is an item
Dequeue(t) ==
  /\ Locked(t, {"dequeue", "dequeue_until"})
  /\ ~Empty
  /\ TakeFirst
  /\ waiting_queuers' = AfterResume(waiting_queuers)
  /\ Return(t, Reached(waiting_queuers))
  /\ UNCHANGED waiting_dequeuers

\* peek and peek-until when there is one
Peek(t) ==
  /\ Locked(t, {"peek", "peek_until"})
  /\ ~Empty
  /\ Return(t, {})
  /\ UNCHANGED <<pairVars, waitVars>>

\* dequeue! and peek suspend
DequeueWait(t) ==
  /\ Locked(t, {"dequeue", "peek"})
  /\ Empty
  /\ waiting_dequeuers' = Append(waiting_dequeuers, t)
  /\ Unlock(t)
  /\ UNCHANGED <<waiting_queuers, timeVars>>

\* when-non-empty-before: the time has come ...
TimedOut(t) ==
  /\ Locked(t, {"dequeue_until", "peek_until"})
  /\ Empty
  /\ late[t]
  /\ Return(t, {})
  /\ UNCHANGED <<pairVars, waitVars>>

\* Slip (TimedCallReturns): no timer event is registered.
TimedWaitNoTimer(t) ==
  /\ Locked(t, {"dequeue_until", "peek_until"})
  /\ Empty
  /\ ~late[t]
  /\ waiting_dequeuers' = Append(waiting_dequeuers, t)
  /\ Unlock(t)
  /\ UNCHANGED <<waiting_queuers, timeVars>>

\* ... or a timer event is registered and the thread suspends
TimedWait(t) ==
  /\ Locked(t, {"dequeue_until", "peek_until"})
  /\ Empty
  /\ ~late[t]
  /\ waiting_dequeuers' = Append(waiting_dequeuers, t)
  /\ timers' = timers \cup {t}
  /\ Unlock(t)
  /\ UNCHANGED <<waiting_queuers, late>>

\* push!; on a full queue of one element before-last runs off the list, an
\* error that leaves the queue as it was
Push(t) ==
  /\ Locked(t, {"push"})
  /\ \/ /\ ~Full
        /\ AddFirst(item[t])
        /\ waiting_dequeuers' = AfterResume(waiting_dequeuers)
        /\ Return(t, Reached(waiting_dequeuers))
     \/ /\ Full
        /\ Rotate(item[t])
        /\ Return(t, {})
        /\ UNCHANGED waiting_dequeuers
     \/ /\ Full
        /\ ~ \E p \in Pairs : IsBeforeLast(p)
        /\ Return(t, {})
        /\ UNCHANGED <<pairVars, waiting_dequeuers>>
  /\ UNCHANGED waiting_queuers

\* thread-queue/empty!
EmptyQueue(t) ==
  /\ Locked(t, {"empty"})
  /\ IF Empty
     THEN Return(t, {}) /\ UNCHANGED <<pairVars, waiting_queuers>>
     ELSE /\ first_pair' = None
          /\ last_pair' = None
          /\ element_count' = 0
          /\ car' = [p \in Pairs |-> None]
          /\ cdr' = [p \in Pairs |-> None]
          /\ waiting_queuers' = AfterResume(waiting_queuers)
          /\ Return(t, Reached(waiting_queuers))
  /\ UNCHANGED waiting_dequeuers

(***************************************************************************)
(* Suspension, time, exits.                                                *)
(***************************************************************************)

\* suspend-current-thread: a pending event is handled at once ...
Suspend(t) ==
  /\ pc[t] = "unlocked"
  /\ pc' = [pc EXCEPT ![t] = IF t \in pending THEN "lock" ELSE "suspended"]
  /\ pending' = pending \ {t}
  /\ UNCHANGED <<pairVars, waitVars, callVars, timeVars>>

\* ... and one that is signalled later resumes the thread.
Resume(t) ==
  /\ pc[t] = "suspended"
  /\ t \in pending
  /\ pc' = [pc EXCEPT ![t] = "lock"]
  /\ pending' = pending \ {t}
  /\ UNCHANGED <<pairVars, waitVars, callVars, timeVars>>

\* An event that has nothing to do with the queue is signalled to a thread.
OtherEvent(t) ==
  /\ "event" \in Ops[t]
  /\ pc[t] \in {"unlocked", "suspended"}
  /\ t \notin pending
  /\ Len(waiting_queuers) + Len(waiting_dequeuers) <= MaxWaiting
  /\ pending' = pending \cup {t}
  /\ UNCHANGED <<pairVars, waitVars, pc, callVars, timeVars>>

\* The time given to a call comes, and its timer event is delivered.
TimePasses(t) ==
  /\ pc[t] \notin {"idle", "dead"}
  /\ op[t] \in {"dequeue_until", "peek_until"}
  /\ ~late[t]
  /\ late' = [late EXCEPT ![t] = TRUE]
  /\ timers' = timers \ {t}
  /\ pending' = IF t \in timers THEN pending \cup {t} ELSE pending
  /\ UNCHANGED <<pairVars, waitVars, pc, callVars>>

\* The thread is made to exit.  Unwinding a suspended call locks and
\* unlocks the mutex; the thread stays in the lists.
Exit(t) ==
  /\ "exit" \in Ops[t]
  /\ pc[t] \in {"idle", "lock", "suspended"}
  /\ pc' = [pc EXCEPT ![t] = "dead"]
  /\ pending' = pending \ {t}
  /\ timers' = timers \ {t}
  /\ UNCHANGED <<pairVars, waitVars, callVars, late>>

Body(t) ==
  \/ Queue(t) \/ QueueFull(t) \/ QueueWait(t) \/ Dequeue(t) \/ Peek(t)
  \/ DequeueWait(t) \/ TimedOut(t) \/ TimedWait(t) \/ Push(t) \/ EmptyQueue(t)

Calls(t) ==
  \/ \E o \in {"queue", "queue_no_hang", "push"}, x \in Items : Call(t, o, x)
  \/ \E o \in {"dequeue", "dequeue_until", "peek", "peek_until", "empty"} :
       Call(t, o, None)

Next ==
  \E t \in Threads :
    \/ Calls(t) \/ Body(t) \/ Suspend(t) \/ Resume(t)
    \/ OtherEvent(t) \/ TimePasses(t) \/ Exit(t)

Spec == Init /\ [][Next]_vars

\* Fairness.  A thread in a call goes on; the mutex is handed over in the
\* order of arrival (MutexFIFO of ThreadScheduler); time passes.
FairSpec ==
  /\ Spec
  /\ \A t \in Threads :
       /\ WF_vars(Body(t) \/ Suspend(t) \/ Resume(t))
       /\ WF_vars(TimePasses(t))

(***************************************************************************)
(* Properties.                                                             *)
(***************************************************************************)

\* The pairs of the queue form one chain: element-count cdrs lead from
\* first-pair to the end, over distinct pairs, the last one is last-pair,
\* and the count respects max-elements.  Every mutation (queue!, dequeue!,
\* push!, its rotation of a full queue, empty!) keeps the four in step.
QueueShape ==
  /\ MaxElements # None => element_count <= MaxElements
  /\ (first_pair = None) <=> Empty
  /\ (last_pair = None) <=> Empty
  /\ ~Empty => last_pair = Follow[element_count - 1] /\ cdr[last_pair] = None
  /\ \A m, n \in 0..(element_count - 1) : m # n => Follow[m] # Follow[n]

Waiting(t, ops) ==
  pc[t] \in {"unlocked", "suspended"} /\ op[t] \in ops /\ t \notin pending

\* A thread that has exited stays in a waiting list, and signal-thread-event
\* fails when it comes to it: what is behind it is not reached.
Behind(t, list) ==
  \E i, j \in 1..Len(list) : i < j /\ pc[list[i]] = "dead" /\ list[j] = t

\* "They are ALL restarted whenever an item becomes available": a thread
\* that waits for an item and has not been signalled waits in an empty
\* queue, or behind a thread that has exited (%resume-dequeuers).
DequeuersRestarted ==
  \A t \in Threads :
    Waiting(t, {"dequeue", "dequeue_until", "peek", "peek_until"}) =>
      Empty \/ Behind(t, waiting_dequeuers)

\* A thread that waits for room and has not been signalled waits in a full
\* queue, or behind a thread that has exited (%resume-queuers).
QueuersRestarted ==
  \A t \in Threads : Waiting(t, {"queue"}) => Full \/ Behind(t, waiting_queuers)

\* The pairs implement the bounded sequence, whoever suspends and resumes.
Abstract == INSTANCE BoundedQueue WITH items <- Contents
RefinesBoundedQueue == Abstract!Spec

\* dequeue-until! and peek-until return, with an item or without, unless the
\* thread is made to exit; other threads exiting cannot hold them up.
TimedCallReturns ==
  \A t \in Threads :
    pc[t] = "lock" /\ op[t] \in {"dequeue_until", "peek_until"}
      ~> pc[t] \in {"idle", "dead"}
=============================================================================
