------------------------ MODULE ThreadSchedulerProofs ------------------------
(***************************************************************************)
(* Proofs about ThreadScheduler for any set of threads and mutexes, any    *)
(* choice of operations and any bound on the event queues.                 *)
(*                                                                         *)
(* The first part proves the type invariant, action by action.  The second *)
(* part proves that the run queue, the saved continuations and the waiting *)
(* threads stay consistent, from the inductive invariant SchedInv: the     *)
(* actions touch the scheduler's variables in a few ways only (OwnStep,    *)
(* SignalStep, DispatchStep, NotRunningStep, YieldStep, StartStep,         *)
(* HeadStateStep), each of which has a lemma of its own.  The third part   *)
(* is about the calls that take several steps: sleeping and blocking on    *)
(* I/O.  The last part is about mutexes, joining and exiting.              *)
(***************************************************************************)
EXTENDS ThreadScheduler, TLAPS

\* %add-pending-event makes an event queue of an event queue.
LEMMA AddPendingEventType ==
  ASSUME NEW q \in Seq(Events), NEW e \in Events
  PROVE  AddPendingEvent(q, e) \in Seq(Events)
<1>1. <<e>> \in Seq(Events) /\ Append(q, e) \in Seq(Events)
  OBVIOUS
<1>2. AddPendingEvent(q, e) \in {q, <<e>>, Append(q, e)}
  BY DEF AddPendingEvent
<1>3. QED
  BY <1>1, <1>2

\* first-running-thread is a thread, and what follows it is a queue.
LEMMA HeadType ==
  ASSUME TypeOK, run_queue # << >>
  PROVE  Head(run_queue) \in Threads /\ Tail(run_queue) \in Seq(Threads)
BY DEF TypeOK

\* handle-thread-events keeps the types of the variables it sets.
LEMMA HandleThreadEventsType ==
  ASSUME TypeOK, NEW t \in Threads, NEW q \in Seq(Events),
         NEW b \in {"no", "yes", "suspended"}, HandleThreadEvents(t, q, b)
  PROVE  /\ pending_events' \in [Threads -> Seq(Events)]
         /\ block_events' \in [Threads -> {"no", "yes", "suspended"}]
         /\ delivered' \in [Threads -> BOOLEAN]
         /\ io_result' \in [Threads -> BOOLEAN]
BY DEF TypeOK, HandleThreadEvents, Contains

\* The first part of exit-current-thread preserves the types.
LEMMA BeginExitType ==
  ASSUME TypeOK, NEW t \in Threads, BeginExit(t)
  PROVE  TypeOK'
BY ThreadAssumption DEF TypeOK, BeginExit, schedVars, releaseVars, CPU, PCs,
                        Events

\* %signal-thread-event keeps the types of the variables it sets.
LEMMA SignalThreadEventType ==
  ASSUME TypeOK, NEW t \in Threads, NEW e \in Events, SignalThreadEvent(t, e)
  PROVE  /\ pending_events' \in [Threads -> Seq(Events)]
         /\ execution_state' \in [Threads -> States]
         /\ run_queue' \in Seq(Threads)
<1>1. AddPendingEvent(pending_events[t], e) \in Seq(Events)
  BY AddPendingEventType DEF TypeOK
<1>2. pending_events' \in [Threads -> Seq(Events)]
  BY <1>1 DEF TypeOK, SignalThreadEvent
<1>3. CASE block_events[t] # "yes" /\ execution_state[t] = "waiting"
  <2>0. /\ execution_state' = [execution_state EXCEPT ![t] = "running"]
        /\ run_queue' = Append(run_queue, t)
    BY <1>3 DEF SignalThreadEvent
  <2>1. execution_state' \in [Threads -> States]
    BY <2>0 DEF TypeOK, States
  <2>2. run_queue' \in Seq(Threads)
    BY <2>0 DEF TypeOK
  <2>3. QED
    BY <1>2, <2>1, <2>2
<1>4. CASE ~(block_events[t] # "yes" /\ execution_state[t] = "waiting")
  BY <1>2, <1>4 DEF TypeOK, SignalThreadEvent
<1>5. QED
  BY <1>3, <1>4

\* run-first-thread over a queue of threads keeps the types.
LEMMA DispatchType ==
  ASSUME NEW q \in Seq(Threads), NEW c \in [Threads -> BOOLEAN], Dispatch(q, c)
  PROVE  /\ run_queue' \in Seq(Threads)
         /\ continuation' \in [Threads -> BOOLEAN]
         /\ cpu' \in CPU
BY DEF Dispatch, CPU

\* thread-not-running keeps the types of the variables it sets.
LEMMA ThreadNotRunningType ==
  ASSUME TypeOK, run_queue # << >>, NEW t \in Threads, NEW s \in States,
         ThreadNotRunning(t, s)
  PROVE  /\ execution_state' \in [Threads -> States]
         /\ run_queue' \in Seq(Threads)
         /\ continuation' \in [Threads -> BOOLEAN]
         /\ cpu' \in CPU
<1>1. [continuation EXCEPT ![t] = (s # "dead")] \in [Threads -> BOOLEAN]
  BY DEF TypeOK
<1>2. QED
  BY <1>1, HeadType, DispatchType DEF TypeOK, ThreadNotRunning

\* yield-thread keeps the types of the variables it sets.
LEMMA YieldThreadType ==
  ASSUME TypeOK, run_queue # << >>, NEW t \in Threads, YieldThread(t)
  PROVE  /\ run_queue' \in Seq(Threads)
         /\ continuation' \in [Threads -> BOOLEAN]
         /\ cpu' \in CPU
<1>1. Append(Tail(run_queue), t) \in Seq(Threads)
  BY HeadType
<1>2. [continuation EXCEPT ![t] = TRUE] \in [Threads -> BOOLEAN]
  BY DEF TypeOK
<1>3. CASE Len(run_queue) = 1
  BY <1>3 DEF TypeOK, YieldThread, CPU
<1>4. CASE Len(run_queue) # 1
  BY <1>1, <1>2, <1>4, DispatchType DEF YieldThread
<1>5. QED
  BY <1>3, <1>4

\* An event that exits its thread preserves the types.
LEMMA ExitEventType ==
  ASSUME TypeOK, NEW t \in Threads, NEW q, ExitEvent(t, q)
  PROVE  TypeOK'
BY BeginExitType DEF ExitEvent

\* %%unlock-thread-mutex keeps the types of the variables it sets.
LEMMA HandOffType ==
  ASSUME TypeOK, NEW m \in Mutexes, HandOff(m)
  PROVE  /\ owner' \in [Mutexes -> Threads \cup {None}]
         /\ waiting_threads' \in [Mutexes -> Seq(Threads)]
         /\ execution_state' \in [Threads -> States]
         /\ run_queue' \in Seq(Threads)
         /\ pending_events' \in [Threads -> Seq(Events)]
<1>1. CASE waiting_threads[m] = << >>
  BY <1>1 DEF TypeOK, HandOff
<1>2. CASE waiting_threads[m] # << >>
  <2>1. /\ Head(waiting_threads[m]) \in Threads
        /\ Tail(waiting_threads[m]) \in Seq(Threads)
    BY <1>2 DEF TypeOK
  <2>2. "wake" \in Events /\ SignalThreadEvent(Head(waiting_threads[m]), "wake")
    BY <1>2 DEF HandOff, Events
  <2>3. /\ execution_state' \in [Threads -> States]
        /\ run_queue' \in Seq(Threads)
        /\ pending_events' \in [Threads -> Seq(Events)]
    BY <2>1, <2>2, SignalThreadEventType
  <2>4. QED
    BY <1>2, <2>1, <2>3 DEF TypeOK, HandOff
<1>3. QED
  BY <1>1, <1>2

\* unblock-thread-events and the restoring of block-events? preserve the types.
LEMMA UnblockType ==
  ASSUME TypeOK, NEW t \in Threads, Unblock(t)
  PROVE  TypeOK'
<1>1. CASE ExitEvent(t, pending_events[t])
  BY <1>1, ExitEventType
<1>2. CASE ~ExitEvent(t, pending_events[t])
  <2>1. HandleThreadEvents(t, pending_events[t], "no")
    BY <1>2 DEF Unblock
  <2>2. /\ pending_events' \in [Threads -> Seq(Events)]
        /\ block_events' \in [Threads -> {"no", "yes", "suspended"}]
        /\ delivered' \in [Threads -> BOOLEAN]
        /\ io_result' \in [Threads -> BOOLEAN]
    BY <2>1, HandleThreadEventsType DEF TypeOK
  <2>3. QED
    BY <1>2, <2>2 DEF TypeOK, Unblock, schedVars, callVars, mutexVars,
                      joinVars, releaseVars
<1>3. QED
  BY <1>1, <1>2

\* %set-thread-event-block! at the end of a call preserves the types.
LEMMA RestoreType ==
  ASSUME TypeOK, NEW t \in Threads, NEW next \in PCs, Restore(t, next)
  PROVE  TypeOK'
<1>1. CASE ExitEvent(t, pending_events[t])
  BY <1>1, ExitEventType
<1>2. CASE ~ExitEvent(t, pending_events[t])
  <2>1. \/ HandleThreadEvents(t, pending_events[t], "no")
        \/ UNCHANGED <<eventVars, delivered, io_result>>
    BY <1>2 DEF Restore
  <2>2. /\ pending_events' \in [Threads -> Seq(Events)]
        /\ block_events' \in [Threads -> {"no", "yes", "suspended"}]
        /\ delivered' \in [Threads -> BOOLEAN]
        /\ io_result' \in [Threads -> BOOLEAN]
    BY <2>1, HandleThreadEventsType DEF TypeOK, eventVars
  <2>3. /\ pc' = [pc EXCEPT ![t] = next]
        /\ saved_block' = [saved_block EXCEPT ![t] = "no"]
        /\ self_event' = [self_event EXCEPT ![t] = "wake"]
        /\ UNCHANGED <<schedVars, cpu, mutexVars, joinVars, releaseVars,
                       timer_records, io_registrations>>
    BY <1>2 DEF Restore
  <2>4. QED
    BY <2>2, <2>3 DEF TypeOK, schedVars, mutexVars, joinVars, releaseVars,
                      Events
<1>3. QED
  BY <1>1, <1>2

\* Each action of UserCall preserves the types.
LEMMA UserCallType ==
  ASSUME TypeOK, NEW t \in Threads, UserCall(t)
  PROVE  TypeOK'
<1> USE DEF schedVars, eventVars, callVars, mutexVars, joinVars, releaseVars,
            timerVars, ioVars
<1>1. CASE SuspendCurrentThread(t)
  BY <1>1 DEF TypeOK, SuspendCurrentThread, EnterSuspend, CPU
<1>2. CASE StopCurrentThread(t)
  BY <1>2, ThreadNotRunningType DEF TypeOK, StopCurrentThread, Calls, Current, States
<1>3. CASE YieldCurrentThread(t)
  BY <1>3 DEF TypeOK, YieldCurrentThread, States, CPU
<1>4. CASE ExitCurrentThread(t)
  BY <1>4, BeginExitType DEF ExitCurrentThread
<1>5. CASE BlockThreadEvents(t)
  BY <1>5 DEF TypeOK, BlockThreadEvents
<1>6. CASE UnblockThreadEvents(t)
  BY <1>6, UnblockType DEF UnblockThreadEvents
<1>7. CASE HandleCurrentThreadEvents(t)
  BY <1>7, UnblockType DEF HandleCurrentThreadEvents
<1>8. CASE AllowEventDelivery(t)
  BY <1>8 DEF TypeOK, AllowEventDelivery, CPU
<1>9. CASE DeregisterAllEvents(t)
  BY <1>9 DEF TypeOK, DeregisterAllEvents
<1>10. CASE Sleep(t)
  BY <1>10 DEF TypeOK, Sleep, PCs
<1>11. CASE BlockOnIO(t)
  BY <1>11 DEF TypeOK, BlockOnIO, PCs
<1>12. CASE \E state \in {"running", "running_without_preemption"} :
               SetPreempt(t, state)
  BY <1>12 DEF TypeOK, SetPreempt, States
<1>13. ASSUME NEW u \in Threads, CreateThread(t, u)
      PROVE  TypeOK'
  <2>1. CASE ExitEvent(t, pending_events[t])
    BY <2>1, ExitEventType
  <2>2. CASE ~ExitEvent(t, pending_events[t])
    <3>1. HandleThreadEvents(t, pending_events[t], block_events[t])
      BY <1>13, <2>2 DEF CreateThread
    <3>2. /\ pending_events' \in [Threads -> Seq(Events)]
          /\ block_events' \in [Threads -> {"no", "yes", "suspended"}]
          /\ delivered' \in [Threads -> BOOLEAN]
          /\ io_result' \in [Threads -> BOOLEAN]
      BY <3>1, HandleThreadEventsType DEF TypeOK
    <3>3. /\ execution_state' = [execution_state EXCEPT ![u] = "running"]
          /\ run_queue' = Append(run_queue, u)
          /\ continuation' = [continuation EXCEPT ![u] = TRUE]
          /\ UNCHANGED <<cpu, pc, callVars, mutexVars, joinVars, releaseVars,
                         timer_records, io_registrations>>
      BY <1>13, <2>2 DEF CreateThread
    <3>4. QED
      BY <3>2, <3>3 DEF TypeOK, States
  <2>3. QED
    BY <2>1, <2>2
<1>14. ASSUME NEW u \in Threads, JoinThread(t, u)
      PROVE  TypeOK'
  <2>1. CASE exit_value[u] = "none"
    <3>1. /\ joined_threads' = [joined_threads EXCEPT ![u] = @ \cup {t}]
          /\ joined_to' = [joined_to EXCEPT ![t] = @ \cup {u}]
          /\ UNCHANGED <<schedVars, cpu, pc, eventVars, callVars, mutexVars,
                         exit_value, releaseVars, timerVars, ioVars>>
      BY <1>14, <2>1 DEF JoinThread
    <3>2. QED
      BY <3>1 DEF TypeOK
  <2>2. CASE ExitEvent(t, pending_events[t])
    BY <2>2, ExitEventType
  <2>3. CASE exit_value[u] # "none" /\ ~ExitEvent(t, pending_events[t])
    <3>1. /\ "joined" \in Events /\ pending_events[t] \in Seq(Events)
          /\ AddPendingEvent(pending_events[t], "joined") \in Seq(Events)
      BY AddPendingEventType DEF TypeOK, Events
    <3>2. CASE block_events[t] = "no"
      <4>1. HandleThreadEvents(t, AddPendingEvent(pending_events[t], "joined"),
                               "no")
        BY <1>14, <2>3, <3>2 DEF JoinThread
      <4>2. /\ pending_events' \in [Threads -> Seq(Events)]
            /\ block_events' \in [Threads -> {"no", "yes", "suspended"}]
            /\ delivered' \in [Threads -> BOOLEAN]
            /\ io_result' \in [Threads -> BOOLEAN]
        BY <3>1, <4>1, HandleThreadEventsType
      <4>3. QED
        BY <1>14, <2>3, <3>2, <4>2 DEF TypeOK, JoinThread
    <3>3. CASE block_events[t] # "no"
      BY <1>14, <2>3, <3>1, <3>3, ZenonT(40) DEF TypeOK, JoinThread
    <3>4. QED
      BY <3>2, <3>3
  <2>4. QED
    BY <2>1, <2>2, <2>3
<1>15. ASSUME NEW u \in Threads, DetachThread(t, u)
      PROVE  TypeOK'
  BY <1>15 DEF TypeOK, DetachThread, CPU
<1>16. ASSUME NEW u \in Threads, NEW discard \in BOOLEAN,
             NEW e \in {None, "call", "exit"}, RestartThread(t, u, discard, e)
      PROVE  TypeOK'
  <2> DEFINE q == IF discard THEN << >> ELSE pending_events[u]
  <2>1. q \in Seq(Events)
    BY DEF TypeOK
  <2>2. (IF e = None THEN q ELSE AddPendingEvent(q, e)) \in Seq(Events)
    BY <2>1, AddPendingEventType DEF Events
  <2>3. pending_events' \in [Threads -> Seq(Events)]
    BY <1>16, <2>2 DEF TypeOK, RestartThread
  <2>4. QED
    BY <1>16, <2>3 DEF TypeOK, RestartThread, States
<1>17. ASSUME NEW e \in {"wake", "call", "exit"}, SelfSignal(t, e)
      PROVE  TypeOK'
  BY <1>17 DEF TypeOK, SelfSignal, PCs, Events
<1>18. ASSUME NEW e \in {"wake", "call", "exit"}, NEW u \in Threads, SignalEvent(t, u, e)
      PROVE  TypeOK'
  <2>1. e \in Events /\ SignalThreadEvent(u, e)
    BY <1>18 DEF SignalEvent, Events
  <2>2. QED
    BY <1>18, <2>1, SignalThreadEventType DEF TypeOK, SignalEvent
<1>19. ASSUME NEW m \in Mutexes, LockFree(t, m)
      PROVE  TypeOK'
  BY <1>19 DEF TypeOK, LockFree
<1>20. ASSUME NEW m \in Mutexes, LockWait(t, m)
      PROVE  TypeOK'
  BY <1>20 DEF TypeOK, LockWait, EnterSuspend, CPU, PCs
<1>21. ASSUME NEW m \in Mutexes, UnlockMutex(t, m)
      PROVE  TypeOK'
  <2>1. /\ owner' \in [Mutexes -> Threads \cup {None}]
        /\ waiting_threads' \in [Mutexes -> Seq(Threads)]
        /\ execution_state' \in [Threads -> States]
        /\ run_queue' \in Seq(Threads)
        /\ pending_events' \in [Threads -> Seq(Events)]
    BY <1>21, HandOffType DEF UnlockMutex
  <2>2. QED
    BY <1>21, <2>1 DEF TypeOK, UnlockMutex
<1>22. QED
  BY <1>1, <1>2, <1>3, <1>4, <1>5, <1>6, <1>7, <1>8, <1>9, <1>10, <1>11, <1>12, <1>13, <1>14, <1>15, <1>16, <1>17, <1>18, <1>19, <1>20, <1>21 DEF UserCall

\* Each action of UserStep preserves the types.
LEMMA UserStepType ==
  ASSUME TypeOK, NEW t \in Threads, UserStep(t)
  PROVE  TypeOK'
<1> USE DEF schedVars, eventVars, callVars, mutexVars, joinVars, releaseVars,
            timerVars, ioVars
<1>1. CASE SelfSignalCount(t)
  BY <1>1 DEF TypeOK, SelfSignalCount, PCs
<1>2. CASE SelfSignalAdd(t)
  <2>1. self_event[t] \in Events
    BY DEF TypeOK
  <2>2. pending_events' \in [Threads -> Seq(Events)]
    <3>1. CASE pending_events' = [pending_events EXCEPT ![t] =
                                    Append(@, self_event[t])]
      BY <2>1, <3>1 DEF TypeOK
    <3>2. CASE pending_events' = [pending_events EXCEPT ![t][1] = self_event[t]]
      <4> DEFINE r == [pending_events[t] EXCEPT ![1] = self_event[t]]
      <4>1. pending_events[t] \in Seq(Events)
        BY DEF TypeOK
      <4>2. r \in [1..Len(pending_events[t]) -> Events]
        <5>1. pending_events[t] \in [1..Len(pending_events[t]) -> Events]
          BY <4>1
        <5>2. QED
          BY <2>1, <5>1
      <4>3. r \in Seq(Events)
        BY <4>1, <4>2
      <4>4. QED
        BY <3>2, <4>3 DEF TypeOK
    <3>3. QED
      BY <1>2, <3>1, <3>2 DEF SelfSignalAdd
  <2>3. QED
    BY <1>2, <2>2 DEF TypeOK, SelfSignalAdd, PCs
<1>3. CASE SelfSignalUnblock(t)
  BY <1>3, RestoreType DEF SelfSignalUnblock, PCs
<1>4. CASE SleepRegister(t)
  BY <1>4 DEF TypeOK, SleepRegister, PCs
<1>5. CASE SleepLoop(t)
  BY <1>5 DEF TypeOK, SleepLoop, EnterSuspend, CPU
<1>6. CASE SleepDone(t)
  BY <1>6, RestoreType DEF SleepDone, PCs
<1>7. CASE IOBlock(t)
  BY <1>7 DEF TypeOK, IOBlock, PCs
<1>8. CASE IOCheck(t)
  BY <1>8 DEF TypeOK, IOCheck, EnterSuspend, CPU, PCs
<1>9. CASE IOReturn(t)
  BY <1>9, RestoreType DEF IOReturn, PCs
<1>10. CASE IODeregister(t)
  <2>1. pending_events' \in [Threads -> Seq(Events)]
    BY <1>10 DEF TypeOK, IODeregister, Events
  <2>2. QED
    BY <1>10, <2>1 DEF TypeOK, IODeregister, PCs
<1>11. QED
  BY <1>1, <1>2, <1>3, <1>4, <1>5, <1>6, <1>7, <1>8, <1>9, <1>10 DEF UserStep

\* ring/remove-item makes a ring of threads of a ring of threads.
LEMMA RemoveItemType ==
  ASSUME NEW s \in Seq(Threads), NEW x
  PROVE  RemoveItem(s, x) \in Seq(Threads)
<1>1. CASE ~Contains(s, x)
  BY <1>1 DEF RemoveItem
<1>2. CASE Contains(s, x)
  <2> DEFINE i == CHOOSE i \in 1..Len(s) :
                    s[i] = x /\ \A j \in 1..(i - 1) : s[j] # x
             r == [j \in 1..(Len(s) - 1) |-> s[IF j < i THEN j ELSE j + 1]]
  <2>1. Len(s) \in Nat \ {0}
    BY <1>2 DEF Contains
  <2>2. \A j \in 1..(Len(s) - 1) : j \in 1..Len(s) /\ j + 1 \in 1..Len(s)
    BY <2>1
  <2>3. r \in [1..(Len(s) - 1) -> Threads]
    <3>1. \A j \in 1..Len(s) : s[j] \in Threads
      OBVIOUS
    <3>2. QED
      BY <2>2, <3>1
  <2>4. r \in Seq(Threads)
    BY <2>1, <2>3
  <2>5. RemoveItem(s, x) = r
    BY <1>2 DEF RemoveItem
  <2>6. QED
    BY <2>4, <2>5
<1>3. QED
  BY <1>1, <1>2

\* Each action of MaskedStep preserves the types.
LEMMA MaskedStepType ==
  ASSUME TypeOK, NEW t \in Threads, MaskedStep(t)
  PROVE  TypeOK'
<1> USE DEF schedVars, eventVars, callVars, mutexVars, joinVars, releaseVars,
            timerVars, ioVars
<1>1. CASE SuspendHandle(t)
  <2>1. CASE ExitEvent(t, pending_events[t])
    BY <2>1, ExitEventType
  <2>2. CASE ~ExitEvent(t, pending_events[t])
    <3>1. HandleThreadEvents(t, pending_events[t], 
                             IF block_events[t] = "no" THEN "no" ELSE "yes")
      BY <1>1, <2>2 DEF SuspendHandle
    <3>2. /\ pending_events' \in [Threads -> Seq(Events)]
          /\ block_events' \in [Threads -> {"no", "yes", "suspended"}]
          /\ delivered' \in [Threads -> BOOLEAN]
          /\ io_result' \in [Threads -> BOOLEAN]
      BY <3>1, HandleThreadEventsType DEF TypeOK
    <3>3. QED
      BY <1>1, <2>2, <3>2 DEF TypeOK, SuspendHandle, ReturnTo, CPU
  <2>3. QED
    BY <2>1, <2>2
<1>2. CASE SuspendWait(t)
  BY <1>2, ThreadNotRunningType DEF TypeOK, SuspendWait, Masked, States
<1>3. CASE ResumeCurrentThread(t)
  <2>1. CASE ExitEvent(t, pending_events[t])
    BY <2>1, ExitEventType
  <2>2. CASE block_events[t] = "yes"
    BY <1>3, <2>2 DEF TypeOK, ResumeCurrentThread, ReturnTo, CPU
  <2>3. CASE block_events[t] # "yes" /\ ~ExitEvent(t, pending_events[t])
    <3>1. HandleThreadEvents(t, pending_events[t],
                             IF block_events[t] = "no" THEN "no" ELSE "yes")
      BY <1>3, <2>3 DEF ResumeCurrentThread
    <3>2. /\ pending_events' \in [Threads -> Seq(Events)]
          /\ block_events' \in [Threads -> {"no", "yes", "suspended"}]
          /\ delivered' \in [Threads -> BOOLEAN]
          /\ io_result' \in [Threads -> BOOLEAN]
      BY <3>1, HandleThreadEventsType DEF TypeOK
    <3>3. QED
      BY <1>3, <2>3, <3>2 DEF TypeOK, ResumeCurrentThread, ReturnTo, CPU
  <2>4. QED
    BY <2>1, <2>2, <2>3
<1>4. CASE YieldNow(t)
  BY <1>4, YieldThreadType DEF TypeOK, YieldNow, Masked
<1>5. CASE LockLoop(t)
  BY <1>5 DEF TypeOK, LockLoop, EnterSuspend, CPU, PCs
<1>6. CASE AllowDone(t)
  <2>1. CASE ExitEvent(t, pending_events[t])
    BY <2>1, ExitEventType
  <2>2. CASE ~ExitEvent(t, pending_events[t])
    <3>1. HandleThreadEvents(t, pending_events[t], saved_block[t])
      BY <1>6, <2>2 DEF AllowDone
    <3>2. /\ pending_events' \in [Threads -> Seq(Events)]
          /\ block_events' \in [Threads -> {"no", "yes", "suspended"}]
          /\ delivered' \in [Threads -> BOOLEAN]
          /\ io_result' \in [Threads -> BOOLEAN]
      BY <3>1, HandleThreadEventsType DEF TypeOK
    <3>3. QED
      BY <1>6, <2>2, <3>2, ZenonT(40) DEF TypeOK, AllowDone, CPU
  <2>3. QED
    BY <2>1, <2>2
<1>7. CASE ExitValue(t)
  <2>1. CASE exit_value[t] = "none"
    <3>1. /\ cpu' = "release"
          /\ release_thread' = t
          /\ exit_value' = [exit_value EXCEPT ![t] = "value"]
          /\ release_list' = joined_threads[t]
          /\ UNCHANGED <<schedVars, pc, eventVars, callVars, mutexVars,
                         joined_threads, joined_to, timerVars, ioVars>>
      BY <1>7, <2>1 DEF ExitValue
    <3>2. QED
      BY <3>1 DEF TypeOK, CPU
  <2>2. CASE exit_value[t] # "none"
    <3>1. /\ cpu' = "release"
          /\ release_thread' = t
          /\ UNCHANGED <<schedVars, pc, eventVars, callVars, mutexVars,
                         joinVars, release_list, timerVars, ioVars>>
      BY <1>7, <2>2 DEF ExitValue
    <3>2. QED
      BY <3>1 DEF TypeOK, CPU
  <2>3. QED
    BY <2>1, <2>2
<1>8. CASE ExitDone(t)
  BY <1>8, ThreadNotRunningType DEF TypeOK, ExitDone, Masked, States, PCs
<1>9. CASE DetachDone(t)
  BY <1>9 DEF TypeOK, DetachDone, CPU
<1>10. CASE ReleaseJoined(t)
  <2>1. "joined" \in Events /\ SignalThreadEvent(t, "joined")
    BY <1>10 DEF ReleaseJoined, Events
  <2>2. QED
    BY <1>10, <2>1, SignalThreadEventType DEF TypeOK, ReleaseJoined
<1>11. ASSUME NEW m \in Mutexes, ExitMutex(t, m)
       PROVE  TypeOK'
  <2>1. /\ owner' \in [Mutexes -> Threads \cup {None}]
        /\ waiting_threads' \in [Mutexes -> Seq(Threads)]
        /\ execution_state' \in [Threads -> States]
        /\ run_queue' \in Seq(Threads)
        /\ pending_events' \in [Threads -> Seq(Events)]
    <3>1. CASE owner[m] = t
      BY <1>11, <3>1, HandOffType DEF ExitMutex
    <3>2. CASE owner[m] # t
      <4>1. RemoveItem(waiting_threads[m], t) \in Seq(Threads)
        BY RemoveItemType DEF TypeOK
      <4>2. QED
        BY <1>11, <3>2, <4>1 DEF TypeOK, ExitMutex
    <3>3. QED
      BY <3>1, <3>2
  <2>2. QED
    BY <1>11, <2>1 DEF TypeOK, ExitMutex
<1>12. QED
  BY <1>1, <1>2, <1>3, <1>4, <1>5, <1>6, <1>7, <1>8, <1>9, <1>10, <1>11
     DEF MaskedStep

\* Each action of System, and the two that enter it, preserve the types.
LEMMA SystemType ==
  ASSUME TypeOK, System \/ TimerInterrupt \/ SelectReturns
  PROVE  TypeOK'
<1> USE DEF schedVars, eventVars, callVars, mutexVars, joinVars, releaseVars,
            timerVars, ioVars
<1>1. CASE TimersDelivered
  BY <1>1 DEF TypeOK, TimersDelivered, CPU
<1>2. CASE Preempt
  <2>1. /\ run_queue' \in Seq(Threads)
        /\ continuation' \in [Threads -> BOOLEAN]
        /\ cpu' \in CPU
    <3>1. CASE run_queue = << >>
      BY <1>2, <3>1 DEF TypeOK, Preempt, CPU
    <3>2. CASE run_queue # << >> /\ Dispatch(run_queue, continuation)
      BY <3>2, DispatchType DEF TypeOK
    <3>3. CASE run_queue # << >> /\ YieldThread(Head(run_queue))
      BY <3>3, HeadType, YieldThreadType
    <3>4. CASE /\ cpu' = "resume"
               /\ UNCHANGED <<run_queue, continuation>>
      BY <3>4 DEF TypeOK, CPU
    <3>5. QED
      BY <1>2, <3>1, <3>2, <3>3, <3>4 DEF Preempt
  <2>2. QED
    BY <1>2, <2>1 DEF TypeOK, Preempt
<1>3. CASE SelectDone
  BY <1>3, DispatchType DEF TypeOK, SelectDone
<1>4. CASE TimerInterrupt
  BY <1>4 DEF TypeOK, TimerInterrupt, CPU
<1>5. CASE SelectReturns
  BY <1>5 DEF TypeOK, SelectReturns, CPU
<1>6. QED
  BY <1>1, <1>2, <1>3, <1>4, <1>5 DEF System

\* Timer, I/O and console events that arrive preserve the types.
LEMMA ArrivalType ==
  ASSUME TypeOK, NEW t \in Threads,
         \/ DeliverTimer(t)
         \/ SignalIO(t)
         \/ \E e \in {"call", "exit"} : IdleSignal(t, e)
  PROVE  TypeOK'
<1> USE DEF schedVars, eventVars, callVars, mutexVars, joinVars, releaseVars,
            timerVars, ioVars
<1>1. CASE DeliverTimer(t)
  <2>1. "timer" \in Events /\ SignalThreadEvent(t, "timer")
    BY <1>1 DEF DeliverTimer, Events
  <2>2. QED
    BY <1>1, <2>1, SignalThreadEventType DEF TypeOK, DeliverTimer
<1>2. CASE SignalIO(t)
  <2>1. "io" \in Events /\ SignalThreadEvent(t, "io")
    BY <1>2 DEF SignalIO, Events
  <2>2. QED
    BY <1>2, <2>1, SignalThreadEventType DEF TypeOK, SignalIO
<1>3. ASSUME NEW e \in {"call", "exit"}, IdleSignal(t, e)
      PROVE  TypeOK'
  <2>1. AddPendingEvent(pending_events[t], e) \in Seq(Events)
    BY AddPendingEventType DEF TypeOK, Events
  <2>2. pending_events' \in [Threads -> Seq(Events)]
    BY <1>3, <2>1 DEF TypeOK, IdleSignal
  <2>3. CASE block_events[t] # "yes" /\ execution_state[t] = "waiting"
    <3>1. Append(run_queue, t) \in Seq(Threads)
      BY DEF TypeOK
    <3>2. /\ execution_state' = [execution_state EXCEPT ![t] = "running"]
          /\ Dispatch(Append(run_queue, t), continuation)
      BY <1>3, <2>3 DEF IdleSignal
    <3>3. /\ run_queue' \in Seq(Threads)
          /\ continuation' \in [Threads -> BOOLEAN]
          /\ cpu' \in CPU
      BY <3>1, <3>2, DispatchType DEF TypeOK
    <3>4. QED
      BY <1>3, <2>2, <3>2, <3>3 DEF TypeOK, IdleSignal, States
  <2>4. CASE ~(block_events[t] # "yes" /\ execution_state[t] = "waiting")
    <3>1. UNCHANGED <<schedVars, cpu>>
      BY <1>3, <2>4 DEF IdleSignal
    <3>2. QED
      BY <1>3, <2>2, <3>1 DEF TypeOK, IdleSignal
  <2>5. QED
    BY <2>3, <2>4
<1>4. QED
  BY <1>1, <1>2, <1>3

\* Every reachable state is type correct.
THEOREM TypeCorrect == Spec => []TypeOK
<1>1. Init => TypeOK
  BY ThreadAssumption DEF Init, TypeOK, States, CPU, PCs, Events
<1>2. TypeOK /\ [Next]_vars => TypeOK'
  <2>1. ASSUME TypeOK, Next PROVE TypeOK'
    BY <2>1, UserCallType, UserStepType, MaskedStepType, SystemType,
       ArrivalType DEF Next
  <2>2. ASSUME TypeOK, UNCHANGED vars PROVE TypeOK'
    BY <2>2 DEF TypeOK, vars, schedVars, eventVars, callVars, mutexVars,
                joinVars, releaseVars, timerVars, ioVars
  <2>3. QED
    BY <2>1, <2>2
<1>3. QED
  BY <1>1, <1>2, PTL DEF Spec

(***************************************************************************)
(* The run queue and the waiting threads.                                  *)
(***************************************************************************)

\* Sequences without duplicates: their first element, and what Append and
\* Tail do to their elements.
LEMMA HeadContained ==
  ASSUME NEW s \in Seq(Threads), s # << >>
  PROVE  /\ Contains(s, Head(s)) /\ Head(s) = s[1] /\ Head(s) \in Threads
         /\ Len(s) \in Nat /\ Len(s) >= 1
BY DEF Contains

\* What Append does to the elements of a queue and to their number.
LEMMA AppendElements ==
  ASSUME NEW s \in Seq(Threads), NEW x \in Threads
  PROVE  /\ \A y : Contains(Append(s, x), y) <=> Contains(s, y) \/ y = x
         /\ NoDuplicates(s) /\ ~Contains(s, x) => NoDuplicates(Append(s, x))
         /\ s # << >> => Head(Append(s, x)) = Head(s)
         /\ s = << >> => Head(Append(s, x)) = x
         /\ Append(s, x) # << >>
<1> DEFINE r == Append(s, x)
<1>1. /\ Len(s) \in Nat /\ Len(r) = Len(s) + 1
      /\ r[Len(r)] = x
      /\ \A i \in 1..Len(s) : r[i] = s[i]
  OBVIOUS
<1>2. \A y : Contains(r, y) <=> Contains(s, y) \/ y = x
  BY <1>1 DEF Contains
<1>3. NoDuplicates(s) /\ ~Contains(s, x) => NoDuplicates(r)
  BY <1>1 DEF Contains, NoDuplicates
<1>4. s # << >> => Head(r) = Head(s)
  <2>1. s # << >> => Head(r) = r[1] /\ Head(s) = s[1] /\ 1 \in 1..Len(s)
    BY <1>1
  <2>2. QED
    BY <1>1, <2>1
<1>5. s = << >> => Head(r) = x
  OBVIOUS
<1>6. r # << >>
  BY <1>1
<1>7. QED
  BY <1>2, <1>3, <1>4, <1>5, <1>6

\* What Tail does to the elements of a queue without duplicates.
LEMMA TailElements ==
  ASSUME NEW s \in Seq(Threads), s # << >>, NoDuplicates(s)
  PROVE  /\ Tail(s) \in Seq(Threads)
         /\ NoDuplicates(Tail(s))
         /\ \A y : Contains(Tail(s), y) <=> Contains(s, y) /\ y # Head(s)
<1>1. /\ Len(s) \in Nat /\ Len(s) >= 1 /\ Head(s) = s[1]
      /\ Tail(s) \in Seq(Threads) /\ Len(Tail(s)) = Len(s) - 1
      /\ \A i \in 1..Len(Tail(s)) : Tail(s)[i] = s[i + 1]
  OBVIOUS
<1>2. NoDuplicates(Tail(s))
  BY <1>1 DEF NoDuplicates
<1>3. ASSUME NEW y, Contains(Tail(s), y) PROVE Contains(s, y) /\ y # Head(s)
  BY <1>1, <1>3 DEF Contains, NoDuplicates
<1>4. ASSUME NEW y, Contains(s, y), y # Head(s) PROVE Contains(Tail(s), y)
  <2>1. PICK i \in 1..Len(s) : s[i] = y
    BY <1>4 DEF Contains
  <2>2. i - 1 \in 1..Len(Tail(s)) /\ Tail(s)[i - 1] = y
    BY <1>1, <1>4, <2>1
  <2>3. QED
    BY <2>2 DEF Contains
<1>5. QED
  BY <1>1, <1>2, <1>3, <1>4

\* What a masked stretch relies on about the thread it runs for:
\* %suspend-current-thread has replaced #t by 'suspended before it parks the
\* thread, and yield-thread only rotates a thread that allows preemption.
StretchOK ==
  /\ cpu = "suspend" => block_events[Head(run_queue)] # "yes"
  /\ cpu = "yield" => execution_state[Head(run_queue)] = "running"

\* The inductive invariant of the scheduler proper.
SchedInv ==
  TypeOK /\ RunQueueOK /\ ContinuationOK /\ NoLostWakeup /\ StretchOK

\* RunQueueOK as a statement about elements: only the first thread can have
\* another state than "running".
LEMMA RunQueueElements ==
  ASSUME TypeOK
  PROVE  RunQueueOK <=>
           /\ NoDuplicates(run_queue)
           /\ \A t \in Threads : Running(t) <=> Contains(run_queue, t)
           /\ \A t \in Threads : Contains(run_queue, t) /\ t # Head(run_queue)
                                  => execution_state[t] = "running"
<1>1. /\ run_queue \in Seq(Threads) /\ Len(run_queue) \in Nat
      /\ \A i \in 1..Len(run_queue) : run_queue[i] \in Threads
      /\ run_queue # << >> => Head(run_queue) = run_queue[1]
      /\ Len(run_queue) > 0 => run_queue # << >>
  BY DEF TypeOK
<1>2. ASSUME NoDuplicates(run_queue),
             \A i \in 2..Len(run_queue) : execution_state[run_queue[i]] = "running",
             NEW t \in Threads, Contains(run_queue, t), t # Head(run_queue)
      PROVE  execution_state[t] = "running"
  <2>1. PICK i \in 1..Len(run_queue) : run_queue[i] = t
    BY <1>2 DEF Contains
  <2>2. i \in 2..Len(run_queue)
    BY <1>1, <1>2, <2>1
  <2>3. QED
    BY <1>2, <2>1, <2>2
<1>3. ASSUME NoDuplicates(run_queue),
             \A t \in Threads : Contains(run_queue, t) /\ t # Head(run_queue)
                                  => execution_state[t] = "running",
             NEW i \in 2..Len(run_queue)
      PROVE  execution_state[run_queue[i]] = "running"
  <2>1. /\ i \in 1..Len(run_queue) /\ 1 \in 1..Len(run_queue)
        /\ run_queue[i] # run_queue[1]
    BY <1>1, <1>3 DEF NoDuplicates
  <2>2. QED
    BY <1>1, <1>3, <2>1 DEF Contains
<1>4. QED
  BY <1>2, <1>3 DEF RunQueueOK

\* A step of the first thread that leaves the queue and every other thread's
\* events alone.
LEMMA OwnStep ==
  ASSUME SchedInv, TypeOK', NEW t \in Threads,
         run_queue # << >>, t = Head(run_queue), UNCHANGED schedVars,
         \A u \in Threads \ {t} : /\ pending_events'[u] = pending_events[u]
                                  /\ block_events'[u] = block_events[u],
         cpu \notin {"idle", "select", "timer", "preempt"},
         cpu' \notin {"idle", "select", "timer", "preempt"},
         cpu' = "suspend" => block_events'[t] # "yes",
         cpu' = "yield" => execution_state[t] = "running"
  PROVE  SchedInv'
<1>1. Running(t)
  BY HeadContained DEF SchedInv, TypeOK, RunQueueOK
<1>2. RunQueueOK'
  BY DEF SchedInv, RunQueueOK, Running, schedVars
<1>3. ContinuationOK'
  BY DEF SchedInv, ContinuationOK, Live, schedVars
<1>4. NoLostWakeup'
  BY <1>1 DEF SchedInv, NoLostWakeup, Running, schedVars
<1>5. StretchOK'
  BY DEF StretchOK, schedVars
<1>6. QED
  BY <1>2, <1>3, <1>4, <1>5 DEF SchedInv

\* A thread that is not in the run queue enters it at the end.
LEMMA AppendRunQueue ==
  ASSUME TypeOK, TypeOK', RunQueueOK, NEW u \in Threads, ~Running(u),
         execution_state' = [execution_state EXCEPT ![u] = "running"],
         run_queue' = Append(run_queue, u)
  PROVE  /\ RunQueueOK'
         /\ run_queue # << >> => Head(run_queue') = Head(run_queue)
         /\ run_queue = << >> => Head(run_queue') = u
         /\ run_queue' # << >>
<1>1. run_queue \in Seq(Threads) /\ ~Contains(run_queue, u)
  BY DEF TypeOK, RunQueueOK
<1>2. /\ \A y : Contains(run_queue', y) <=> Contains(run_queue, y) \/ y = u
      /\ NoDuplicates(run_queue')
      /\ run_queue # << >> => Head(run_queue') = Head(run_queue)
      /\ run_queue = << >> => Head(run_queue') = u
      /\ run_queue' # << >>
  BY <1>1, AppendElements DEF RunQueueOK
<1>3. \A t \in Threads : t # u => execution_state'[t] = execution_state[t]
  BY DEF TypeOK
<1>4. execution_state'[u] = "running"
  BY DEF TypeOK
<1>5. \A t \in Threads : Running(t)' <=> Contains(run_queue', t)
  BY <1>2, <1>3, <1>4 DEF RunQueueOK, Running
<1>6. ASSUME NEW t \in Threads, Contains(run_queue', t), t # Head(run_queue')
      PROVE  execution_state'[t] = "running"
  <2>1. CASE t = u
    BY <2>1, <1>4
  <2>2. CASE t # u
    <3>1. Contains(run_queue, t) /\ run_queue # << >>
      BY <1>2, <1>6, <2>2 DEF Contains
    <3>2. QED
      BY <1>2, <1>3, <1>6, <2>2, <3>1, RunQueueElements
  <2>3. QED
    BY <2>1, <2>2
<1>7. (RunQueueOK)'
  <2>1. (TypeOK => (RunQueueOK <=>
           /\ NoDuplicates(run_queue)
           /\ \A t \in Threads : Running(t) <=> Contains(run_queue, t)
           /\ \A t \in Threads : Contains(run_queue, t) /\ t # Head(run_queue)
                                  => execution_state[t] = "running"))'
    BY RunQueueElements, PTL
  <2>2. QED
    BY <1>2, <1>5, <1>6, <2>1
<1>8. QED
  BY <1>2, <1>7

\* %signal-thread-event preserves the invariant wherever a thread or the
\* scheduler calls it.
LEMMA SignalStep ==
  ASSUME SchedInv, TypeOK', NEW u \in Threads, NEW e \in Events,
         SignalThreadEvent(u, e), cpu # "idle",
         UNCHANGED <<continuation, cpu, block_events>>
  PROVE  SchedInv'
<1>1. \A t \in Threads : t # u => pending_events'[t] = pending_events[t]
  BY DEF SchedInv, TypeOK, SignalThreadEvent
<1>2. CASE block_events[u] # "yes" /\ execution_state[u] = "waiting"
  <2>1. /\ execution_state' = [execution_state EXCEPT ![u] = "running"]
        /\ run_queue' = Append(run_queue, u)
    BY <1>2 DEF SignalThreadEvent
  <2>2. ~Running(u) /\ Live(u)
    BY <1>2 DEF Running, Live
  <2>3. /\ RunQueueOK'
        /\ run_queue # << >> => Head(run_queue') = Head(run_queue)
        /\ run_queue = << >> => Head(run_queue') = u
        /\ run_queue' # << >>
    BY <2>1, <2>2, AppendRunQueue DEF SchedInv
  <2>4. /\ \A t \in Threads : t # u => execution_state'[t] = execution_state[t]
        /\ execution_state'[u] = "running"
    BY <2>1 DEF SchedInv, TypeOK
  <2>5. \A t \in Threads : Live(t)' <=> Live(t)
    BY <2>2, <2>4 DEF Live
  <2>6. u # Head(run_queue) \/ run_queue = << >>
    BY <2>2, HeadContained DEF SchedInv, TypeOK, RunQueueOK
  <2>7. continuation[u]
    BY <2>2, <2>6 DEF SchedInv, ContinuationOK
  <2>8. ContinuationOK'
    <3>1. \A t \in Threads : ~Live(t)' => ~continuation'[t]
      BY <2>5 DEF SchedInv, ContinuationOK
    <3>2. ASSUME NEW t \in Threads, Live(t)', t # Head(run_queue')
          PROVE  continuation'[t]
      BY <2>3, <2>5, <2>7, <3>2 DEF SchedInv, ContinuationOK
    <3>3. QED
      BY <2>3, <2>7, <3>1, <3>2 DEF SchedInv, ContinuationOK
  <2>9. NoLostWakeup'
    BY <1>1, <2>4 DEF SchedInv, NoLostWakeup
  <2>10. StretchOK'
    <3>1. cpu \in {"suspend", "yield"} => run_queue # << >>
      BY DEF SchedInv, ContinuationOK
    <3>2. cpu = "yield" => execution_state'[Head(run_queue)] = "running"
      <4>1. cpu = "yield" => Head(run_queue) \in Threads
        BY <3>1, HeadContained DEF SchedInv, TypeOK
      <4>2. QED
        BY <2>4, <4>1 DEF SchedInv, StretchOK
    <3>3. QED
      BY <2>3, <3>1, <3>2 DEF SchedInv, StretchOK
  <2>11. QED
    BY <2>3, <2>8, <2>9, <2>10 DEF SchedInv
<1>3. CASE ~(block_events[u] # "yes" /\ execution_state[u] = "waiting")
  <2>1. UNCHANGED <<execution_state, run_queue>>
    BY <1>3 DEF SignalThreadEvent
  <2>2. RunQueueOK' /\ ContinuationOK' /\ StretchOK'
    BY <2>1 DEF SchedInv, RunQueueOK, Running, ContinuationOK, Live, StretchOK
  <2>3. execution_state[u] # "waiting"
    BY <1>3 DEF SchedInv, NoLostWakeup
  <2>4. NoLostWakeup'
    BY <1>1, <2>1, <2>3 DEF SchedInv, NoLostWakeup
  <2>5. QED
    BY <2>2, <2>4 DEF SchedInv
<1>4. QED
  BY <1>2, <1>3

\* run-first-thread over the queue as it is.
LEMMA DispatchStep ==
  ASSUME SchedInv, TypeOK', Dispatch(run_queue, continuation),
         UNCHANGED <<execution_state, block_events, pending_events>>
  PROVE  SchedInv'
<1>1. run_queue' = run_queue /\ cpu' \in {"idle", "resume"}
  BY DEF Dispatch
<1>2. cpu' = "idle" <=> run_queue = << >>
  BY DEF Dispatch
<1>3. \A t \in Threads : continuation'[t] <=>
          continuation[t] /\ ~(run_queue # << >> /\ t = Head(run_queue))
  BY DEF Dispatch
<1>4. run_queue # << >> => Head(run_queue) \in Threads
  BY HeadContained DEF SchedInv, TypeOK
<1>5. ContinuationOK'
  BY <1>1, <1>2, <1>3, <1>4 DEF SchedInv, ContinuationOK, Live
<1>6. RunQueueOK' /\ NoLostWakeup'
  BY <1>1 DEF SchedInv, RunQueueOK, Running, NoLostWakeup
<1>7. StretchOK'
  BY <1>1 DEF StretchOK
<1>8. QED
  BY <1>5, <1>6, <1>7 DEF SchedInv

\* thread-not-running: the first thread leaves the queue.
LEMMA NotRunningStep ==
  ASSUME SchedInv, TypeOK', NEW t \in Threads,
         NEW state \in {"waiting", "stopped", "dead"},
         run_queue # << >>, t = Head(run_queue), ThreadNotRunning(t, state),
         UNCHANGED <<block_events, pending_events>>,
         state = "waiting" => pending_events[t] = << >> /\ block_events[t] # "yes"
  PROVE  SchedInv'
<1> DEFINE q == Tail(run_queue)
<1>1. /\ run_queue' = q /\ q \in Seq(Threads) /\ NoDuplicates(q)
      /\ \A y : Contains(q, y) <=> Contains(run_queue, y) /\ y # t
  BY TailElements DEF SchedInv, TypeOK, RunQueueOK, ThreadNotRunning, Dispatch
<1>2. /\ execution_state'[t] = state
      /\ \A u \in Threads : u # t => execution_state'[u] = execution_state[u]
  BY DEF SchedInv, TypeOK, ThreadNotRunning
<1>3. ASSUME NEW u \in Threads
      PROVE  continuation'[u] <=>
               /\ IF u = t THEN state # "dead" ELSE continuation[u]
               /\ ~(q # << >> /\ u = Head(q))
  BY DEF ThreadNotRunning, Dispatch, SchedInv, TypeOK
<1>4. cpu' = IF q = << >> THEN "idle" ELSE "resume"
  BY DEF ThreadNotRunning, Dispatch
<1>5. q # << >> => Head(q) \in Threads /\ Contains(q, Head(q)) /\ Head(q) # t
  BY <1>1, HeadContained
<1>6. \A u \in Threads : Running(u)' <=> Contains(q, u)
  BY <1>1, <1>2 DEF Running, SchedInv, RunQueueOK
<1>7. \A u \in Threads : Contains(q, u) => execution_state'[u] = "running"
  BY <1>1, <1>2, RunQueueElements DEF SchedInv
<1>8. RunQueueOK'
  <2>1. \A i \in 2..Len(q) : q[i] \in Threads /\ Contains(q, q[i])
    BY <1>1 DEF Contains
  <2>2. QED
    BY <1>1, <1>6, <1>7, <2>1 DEF RunQueueOK
<1>9. ContinuationOK'
  <2>1. \A u \in Threads : u # t => (Live(u)' <=> Live(u))
    BY <1>2 DEF Live
  <2>2. Live(t)' <=> state # "dead"
    BY <1>2 DEF Live
  <2>3. ASSUME NEW u \in Threads
        PROVE  /\ Live(u)' /\ (q = << >> \/ u # Head(q)) => continuation'[u]
               /\ ~Live(u)' => ~continuation'[u]
    BY <1>3, <2>1, <2>2 DEF SchedInv, ContinuationOK
  <2>4. cpu' # "idle" => q # << >> /\ ~continuation'[Head(q)]
    BY <1>3, <1>4, <1>5
  <2>5. QED
    BY <1>1, <1>4, <2>3, <2>4 DEF ContinuationOK
<1>10. NoLostWakeup'
  BY <1>2 DEF SchedInv, NoLostWakeup
<1>11. StretchOK'
  BY <1>4 DEF StretchOK
<1>12. QED
  BY <1>8, <1>9, <1>10, <1>11 DEF SchedInv

\* yield-thread: the first thread goes to the end of the queue.
LEMMA YieldStep ==
  ASSUME SchedInv, TypeOK', NEW t \in Threads,
         run_queue # << >>, t = Head(run_queue), ~continuation[t],
         execution_state[t] = "running", YieldThread(t),
         UNCHANGED <<execution_state, block_events, pending_events>>
  PROVE  SchedInv'
<1> DEFINE r == Tail(run_queue)
           q == Append(r, t)
<1>1. CASE Len(run_queue) = 1
  <2>1. cpu' = "resume" /\ UNCHANGED <<run_queue, continuation>>
    BY <1>1 DEF YieldThread
  <2>2. ContinuationOK'
    BY <2>1 DEF SchedInv, ContinuationOK, Live
  <2>3. RunQueueOK' /\ NoLostWakeup' /\ StretchOK'
    BY <2>1 DEF SchedInv, RunQueueOK, Running, NoLostWakeup, StretchOK
  <2>4. QED
    BY <2>2, <2>3 DEF SchedInv
<1>2. CASE Len(run_queue) # 1
  <2>1. /\ run_queue' = q /\ cpu' = "resume"
        /\ \A u \in Threads : continuation'[u] <=>
              (u = t \/ continuation[u]) /\ ~(q # << >> /\ u = Head(q))
    <3>1. Dispatch(q, [continuation EXCEPT ![t] = TRUE])
      BY <1>2 DEF YieldThread
    <3>2. q # << >>
      BY HeadType, AppendElements DEF SchedInv
    <3>3. QED
      BY <3>1, <3>2, ZenonT(40) DEF Dispatch, SchedInv, TypeOK
  <2>2. /\ r \in Seq(Threads) /\ NoDuplicates(r)
        /\ \A y : Contains(r, y) <=> Contains(run_queue, y) /\ y # t
    BY TailElements DEF SchedInv, TypeOK, RunQueueOK
  <2>3. r # << >>
    <3>0. run_queue \in Seq(Threads)
      BY DEF SchedInv, TypeOK
    <3>1. Len(run_queue) \in Nat /\ Len(run_queue) > 1
      <4>1. Len(run_queue) \in Nat /\ Len(run_queue) >= 1
        BY <3>0, HeadContained
      <4>2. QED
        BY <1>2, <4>1
    <3>2. Len(r) > 0
      BY <3>0, <3>1
    <3>3. QED
      BY <3>2
  <2>4. /\ Head(r) \in Threads /\ Contains(r, Head(r)) /\ Head(r) # t
        /\ Head(q) = Head(r) /\ NoDuplicates(q) /\ q # << >>
        /\ \A y : Contains(q, y) <=> Contains(r, y) \/ y = t
    BY <2>2, <2>3, HeadContained, AppendElements
  <2>5. Contains(run_queue, t)
    BY HeadContained DEF SchedInv, TypeOK
  <2>6. \A u \in Threads : Running(u)' <=> Contains(q, u)
    BY <2>2, <2>4, <2>5 DEF Running, SchedInv, RunQueueOK
  <2>7. \A u \in Threads : Contains(q, u) => execution_state'[u] = "running"
    BY <2>2, <2>4, RunQueueElements DEF SchedInv
  <2>8. RunQueueOK'
    <3>1. q \in Seq(Threads)
      BY <2>2
    <3>2. \A i \in 2..Len(q) : q[i] \in Threads /\ Contains(q, q[i])
      BY <3>1 DEF Contains
    <3>3. QED
      BY <2>1, <2>4, <2>6, <2>7, <3>2 DEF RunQueueOK
  <2>9. ContinuationOK'
    BY <2>1, <2>4 DEF SchedInv, ContinuationOK, Live
  <2>10. NoLostWakeup' /\ StretchOK'
    BY <2>1 DEF SchedInv, NoLostWakeup, StretchOK
  <2>11. QED
    BY <2>8, <2>9, <2>10 DEF SchedInv
<1>3. QED
  BY <1>1, <1>2

\* make-thread and restart-thread: a thread that does not run is started.
LEMMA StartStep ==
  ASSUME SchedInv, TypeOK', NEW t \in Threads, NEW u \in Threads,
         cpu = "user", t = Head(run_queue), cpu' = "user",
         execution_state[u] \in {"unborn", "stopped"},
         execution_state' = [execution_state EXCEPT ![u] = "running"],
         run_queue' = Append(run_queue, u),
         continuation'[u],
         \A v \in Threads \ {u} : continuation'[v] = continuation[v],
         \A v \in Threads \ {t, u} : /\ pending_events'[v] = pending_events[v]
                                     /\ block_events'[v] = block_events[v]
  PROVE  SchedInv'
<1>1. run_queue # << >> /\ ~continuation[t]
  BY DEF SchedInv, ContinuationOK
<1>2. ~Running(u)
  BY DEF Running
<1>3. Running(t)
  BY <1>1, HeadContained DEF SchedInv, TypeOK, RunQueueOK
<1>4. RunQueueOK' /\ Head(run_queue') = t /\ run_queue' # << >>
  BY <1>1, <1>2, AppendRunQueue DEF SchedInv
<1>5. /\ execution_state'[u] = "running"
      /\ \A v \in Threads : v # u => execution_state'[v] = execution_state[v]
  BY DEF SchedInv, TypeOK
<1>6. ContinuationOK'
  <2>1. Live(u)' /\ \A v \in Threads : v # u => (Live(v)' <=> Live(v))
    BY <1>5 DEF Live
  <2>2. QED
    BY <1>1, <1>2, <1>3, <1>4, <2>1 DEF SchedInv, ContinuationOK
<1>7. NoLostWakeup'
  BY <1>2, <1>3, <1>5 DEF SchedInv, NoLostWakeup, Running
<1>8. StretchOK'
  BY DEF StretchOK
<1>9. QED
  BY <1>4, <1>6, <1>7, <1>8 DEF SchedInv

\* The first thread changes between the two running states.
LEMMA HeadStateStep ==
  ASSUME SchedInv, TypeOK', NEW t \in Threads, cpu = "user",
         t = Head(run_queue),
         NEW state \in {"running", "running_without_preemption"},
         execution_state' = [execution_state EXCEPT ![t] = state],
         UNCHANGED <<run_queue, continuation, block_events, pending_events>>,
         cpu' \in {"user", "yield"}, cpu' = "yield" => state = "running"
  PROVE  SchedInv'
<1>1. run_queue # << >> /\ ~continuation[t]
  BY DEF SchedInv, ContinuationOK
<1>2. Running(t) /\ run_queue \in Seq(Threads) /\ t = run_queue[1]
  BY <1>1, HeadContained DEF SchedInv, TypeOK, RunQueueOK
<1>3. /\ execution_state'[t] = state
      /\ \A v \in Threads : v # t => execution_state'[v] = execution_state[v]
  BY DEF SchedInv, TypeOK
<1>4. \A v \in Threads : (Running(v)' <=> Running(v)) /\ (Live(v)' <=> Live(v))
  BY <1>2, <1>3 DEF Running, Live
<1>5. RunQueueOK'
  <2>1. \A i \in 2..Len(run_queue) : run_queue[i] \in Threads /\ run_queue[i] # t
    <3>1. Len(run_queue) \in Nat
      BY <1>2
    <3>2. \A i \in 2..Len(run_queue) : i \in 1..Len(run_queue) /\ 1 \in 1..Len(run_queue)
      BY <3>1
    <3>3. QED
      BY <1>2, <3>2 DEF SchedInv, RunQueueOK, NoDuplicates
  <2>2. QED
    BY <1>3, <1>4, <2>1 DEF SchedInv, RunQueueOK
<1>6. ContinuationOK'
  BY <1>1, <1>4 DEF SchedInv, ContinuationOK
<1>7. NoLostWakeup'
  BY <1>3 DEF SchedInv, NoLostWakeup
<1>8. StretchOK'
  BY <1>3 DEF StretchOK
<1>9. QED
  BY <1>5, <1>6, <1>7, <1>8 DEF SchedInv

\* The actions that only concern the current thread: exiting, and handling
\* its events.
LEMMA BeginExitSched ==
  ASSUME SchedInv, TypeOK', NEW t \in Threads, BeginExit(t),
         run_queue # << >>, t = Head(run_queue),
         cpu \notin {"idle", "select", "timer", "preempt"}
  PROVE  SchedInv'
<1>1. /\ cpu' = "exit" /\ UNCHANGED schedVars
      /\ \A u \in Threads \ {t} : /\ pending_events'[u] = pending_events[u]
                                  /\ block_events'[u] = block_events[u]
  BY DEF BeginExit, SchedInv, TypeOK
<1>2. QED
  BY <1>1, OwnStep

\* handle-thread-events leaves the queue alone and wakes no thread.
LEMMA HandleSched ==
  ASSUME SchedInv, TypeOK', NEW t \in Threads, NEW q, NEW b,
         HandleThreadEvents(t, q, b), UNCHANGED schedVars,
         run_queue # << >>, t = Head(run_queue),
         cpu \notin {"idle", "select", "timer", "preempt"},
         cpu' \in {"user", "lock"}
  PROVE  SchedInv'
<1>1. \A u \in Threads \ {t} : /\ pending_events'[u] = pending_events[u]
                               /\ block_events'[u] = block_events[u]
  BY DEF HandleThreadEvents, SchedInv, TypeOK
<1>2. QED
  BY <1>1, OwnStep

\* The thread of a user step or of a masked stretch is the first one.
LEMMA CurrentFacts ==
  ASSUME NEW t, Current(t)
  PROVE  /\ cpu = "user" /\ run_queue # << >> /\ t = Head(run_queue)
         /\ cpu \notin {"idle", "select", "timer", "preempt"}
BY DEF Current

\* unblock-thread-events by the first thread preserves the invariant.
LEMMA UnblockSched ==
  ASSUME SchedInv, TypeOK', NEW t \in Threads, Unblock(t), Current(t)
  PROVE  SchedInv'
<1>1. CASE ExitEvent(t, pending_events[t])
  BY <1>1, CurrentFacts, BeginExitSched DEF ExitEvent
<1>2. CASE ~ExitEvent(t, pending_events[t])
  <2>1. /\ HandleThreadEvents(t, pending_events[t], "no")
        /\ UNCHANGED schedVars /\ cpu' = cpu
    BY <1>2 DEF Unblock
  <2>2. QED
    BY <2>1, CurrentFacts, HandleSched
<1>3. QED
  BY <1>1, <1>2

\* So does putting back block-events? at the end of a call.
LEMMA RestoreSched ==
  ASSUME SchedInv, TypeOK', NEW t \in Threads, NEW next, Restore(t, next),
         Current(t)
  PROVE  SchedInv'
<1>1. CASE ExitEvent(t, pending_events[t])
  BY <1>1, CurrentFacts, BeginExitSched DEF ExitEvent
<1>2. CASE ~ExitEvent(t, pending_events[t])
  <2>1. /\ \/ HandleThreadEvents(t, pending_events[t], "no")
           \/ UNCHANGED eventVars
        /\ UNCHANGED schedVars /\ cpu' = cpu
    BY <1>2 DEF Restore
  <2>2. CASE HandleThreadEvents(t, pending_events[t], "no")
    BY <2>1, <2>2, CurrentFacts, HandleSched
  <2>3. CASE UNCHANGED eventVars
    BY <2>1, <2>3, CurrentFacts, OwnStep DEF eventVars
  <2>4. QED
    BY <2>1, <2>2, <2>3
<1>3. QED
  BY <1>1, <1>2

\* An action of the current thread that changes no other thread's events
\* and not the queue.
LEMMA CurrentStep ==
  ASSUME SchedInv, TypeOK', NEW t \in Threads, Current(t), UNCHANGED schedVars,
         cpu' \in {"user", "suspend", "allow", "release"},
         cpu' = "suspend" => block_events'[t] # "yes",
         \A u \in Threads \ {t} : /\ pending_events'[u] = pending_events[u]
                                  /\ block_events'[u] = block_events[u]
  PROVE  SchedInv'
BY CurrentFacts, OwnStep

\* Each action of UserCall preserves the invariant, %%unlock-thread-mutex
\* first.
LEMMA HandOffSched ==
  ASSUME SchedInv, TypeOK', NEW m \in Mutexes, HandOff(m),
         run_queue # << >>, cpu \notin {"idle", "select", "timer", "preempt"},
         UNCHANGED <<continuation, cpu, block_events>>
  PROVE  SchedInv'
<1>1. CASE waiting_threads[m] = << >>
  <2>1. UNCHANGED <<execution_state, run_queue, pending_events>>
    BY <1>1 DEF HandOff
  <2>2. Head(run_queue) \in Threads
    BY HeadContained DEF SchedInv, TypeOK
  <2>3. cpu = "suspend" => block_events[Head(run_queue)] # "yes"
    BY DEF SchedInv, StretchOK
  <2>4. cpu = "yield" => execution_state[Head(run_queue)] = "running"
    BY DEF SchedInv, StretchOK
  <2>5. QED
    BY <2>1, <2>2, <2>3, <2>4, OwnStep DEF schedVars
<1>2. CASE waiting_threads[m] # << >>
  <2>1. Head(waiting_threads[m]) \in Threads
    BY <1>2 DEF SchedInv, TypeOK
  <2>2. "wake" \in Events /\ SignalThreadEvent(Head(waiting_threads[m]), "wake")
    BY <1>2 DEF HandOff, Events
  <2>3. QED
    BY <2>1, <2>2, SignalStep
<1>3. QED
  BY <1>1, <1>2

\* Each operation a thread can call preserves the invariant.
LEMMA UserCallSched ==
  ASSUME SchedInv, TypeOK', NEW t \in Threads, UserCall(t)
  PROVE  SchedInv'
<1>1. CASE SuspendCurrentThread(t)
  <2>1. /\ Current(t) /\ UNCHANGED schedVars
        /\ cpu' \in {"user", "suspend", "allow", "release"}
        /\ cpu' = "suspend" => block_events'[t] # "yes"
        /\ \A u \in Threads \ {t} : /\ pending_events'[u] = pending_events[u]
                                    /\ block_events'[u] = block_events[u]
    BY <1>1 DEF SuspendCurrentThread, Calls, Current, SchedInv, TypeOK, eventVars, EnterSuspend
  <2>2. QED
    BY <2>1, CurrentStep
<1>2. CASE StopCurrentThread(t)
  <2>1. /\ run_queue # << >> /\ t = Head(run_queue)
        /\ ThreadNotRunning(t, "stopped")
        /\ UNCHANGED <<block_events, pending_events>>
    BY <1>2 DEF StopCurrentThread, Calls, Current, eventVars
  <2>2. QED
    BY <2>1, NotRunningStep
<1>3. CASE YieldCurrentThread(t)
  BY <1>3, HeadStateStep DEF YieldCurrentThread, Calls, Current, eventVars
<1>4. CASE ExitCurrentThread(t)
  BY <1>4, CurrentFacts, BeginExitSched DEF ExitCurrentThread, Calls
<1>5. CASE BlockThreadEvents(t)
  <2>1. /\ Current(t) /\ UNCHANGED schedVars
        /\ cpu' \in {"user", "suspend", "allow", "release"}
        /\ cpu' = "suspend" => block_events'[t] # "yes"
        /\ \A u \in Threads \ {t} : /\ pending_events'[u] = pending_events[u]
                                    /\ block_events'[u] = block_events[u]
    BY <1>5 DEF BlockThreadEvents, Calls, Current, SchedInv, TypeOK, eventVars
  <2>2. QED
    BY <2>1, CurrentStep
<1>6. CASE UnblockThreadEvents(t)
  BY <1>6, UnblockSched DEF UnblockThreadEvents, Calls
<1>7. CASE HandleCurrentThreadEvents(t)
  BY <1>7, UnblockSched DEF HandleCurrentThreadEvents
<1>8. CASE AllowEventDelivery(t)
  <2>1. /\ Current(t) /\ UNCHANGED schedVars
        /\ cpu' \in {"user", "suspend", "allow", "release"}
        /\ cpu' = "suspend" => block_events'[t] # "yes"
        /\ \A u \in Threads \ {t} : /\ pending_events'[u] = pending_events[u]
                                    /\ block_events'[u] = block_events[u]
    BY <1>8 DEF AllowEventDelivery, Calls, Current, SchedInv, TypeOK, eventVars
  <2>2. QED
    BY <2>1, CurrentStep
<1>9. CASE DeregisterAllEvents(t)
  <2>1. /\ Current(t) /\ UNCHANGED schedVars
        /\ cpu' \in {"user", "suspend", "allow", "release"}
        /\ cpu' = "suspend" => block_events'[t] # "yes"
        /\ \A u \in Threads \ {t} : /\ pending_events'[u] = pending_events[u]
                                    /\ block_events'[u] = block_events[u]
    BY <1>9 DEF DeregisterAllEvents, Calls, Current, SchedInv, TypeOK, eventVars
  <2>2. QED
    BY <2>1, CurrentStep
<1>10. CASE Sleep(t)
  <2>1. /\ Current(t) /\ UNCHANGED schedVars
        /\ cpu' \in {"user", "suspend", "allow", "release"}
        /\ cpu' = "suspend" => block_events'[t] # "yes"
        /\ \A u \in Threads \ {t} : /\ pending_events'[u] = pending_events[u]
                                    /\ block_events'[u] = block_events[u]
    BY <1>10 DEF Sleep, Calls, Current, SchedInv, TypeOK, eventVars
  <2>2. QED
    BY <2>1, CurrentStep
<1>11. CASE BlockOnIO(t)
  <2>1. /\ Current(t) /\ UNCHANGED schedVars
        /\ cpu' \in {"user", "suspend", "allow", "release"}
        /\ cpu' = "suspend" => block_events'[t] # "yes"
        /\ \A u \in Threads \ {t} : /\ pending_events'[u] = pending_events[u]
                                    /\ block_events'[u] = block_events[u]
    BY <1>11 DEF BlockOnIO, Calls, Current, SchedInv, TypeOK, eventVars
  <2>2. QED
    BY <2>1, CurrentStep
<1>12. ASSUME NEW state \in {"running", "running_without_preemption"},
              SetPreempt(t, state)
       PROVE  SchedInv'
  BY <1>12, HeadStateStep DEF SetPreempt, Calls, Current, eventVars
<1>13. ASSUME NEW u \in Threads, CreateThread(t, u)
       PROVE  SchedInv'
  <2>1. Current(t) /\ execution_state[u] = "unborn"
    BY <1>13 DEF CreateThread, Calls
  <2>2. CASE ExitEvent(t, pending_events[t])
    BY <2>1, <2>2, CurrentFacts, BeginExitSched DEF ExitEvent
  <2>3. CASE ~ExitEvent(t, pending_events[t])
    <3>1. /\ HandleThreadEvents(t, pending_events[t], block_events[t])
          /\ execution_state' = [execution_state EXCEPT ![u] = "running"]
          /\ run_queue' = Append(run_queue, u)
          /\ continuation' = [continuation EXCEPT ![u] = TRUE]
          /\ cpu' = cpu
      BY <1>13, <2>3 DEF CreateThread
    <3>2. /\ continuation'[u]
          /\ \A v \in Threads \ {u} : continuation'[v] = continuation[v]
          /\ \A v \in Threads \ {t, u} :
               /\ pending_events'[v] = pending_events[v]
               /\ block_events'[v] = block_events[v]
      BY <3>1 DEF HandleThreadEvents, SchedInv, TypeOK
    <3>3. QED
      BY <2>1, <3>1, <3>2, CurrentFacts, StartStep
  <2>4. QED
    BY <2>2, <2>3
<1>14. ASSUME NEW u \in Threads, JoinThread(t, u)
       PROVE  SchedInv'
  <2>1. Current(t)
    BY <1>14 DEF JoinThread, Calls
  <2>2. CASE ExitEvent(t, pending_events[t])
    BY <2>1, <2>2, CurrentFacts, BeginExitSched DEF ExitEvent
  <2>3. CASE ~ExitEvent(t, pending_events[t])
    <3>1. /\ UNCHANGED schedVars /\ cpu' = cpu
          /\ \/ UNCHANGED eventVars
             \/ HandleThreadEvents(t,
                   AddPendingEvent(pending_events[t], "joined"), "no")
             \/ /\ pending_events' = [pending_events EXCEPT ![t] =
                                         AddPendingEvent(@, "joined")]
                /\ block_events' = block_events
      BY <1>14, <2>3 DEF JoinThread
    <3>2. \A v \in Threads \ {t} : /\ pending_events'[v] = pending_events[v]
                                  /\ block_events'[v] = block_events[v]
      BY <3>1 DEF HandleThreadEvents, SchedInv, TypeOK, eventVars
    <3>3. QED
      BY <2>1, <3>1, <3>2, CurrentStep DEF Current
  <2>4. QED
    BY <2>2, <2>3
<1>15. ASSUME NEW u \in Threads, DetachThread(t, u)
      PROVE  SchedInv'
  <2>1. /\ Current(t) /\ UNCHANGED schedVars
        /\ cpu' \in {"user", "suspend", "allow", "release"}
        /\ cpu' = "suspend" => block_events'[t] # "yes"
        /\ \A v \in Threads \ {t} : /\ pending_events'[v] = pending_events[v]
                                    /\ block_events'[v] = block_events[v]
    BY <1>15 DEF DetachThread, Calls, Current, SchedInv, TypeOK, eventVars
  <2>2. QED
    BY <2>1, CurrentStep
<1>16. ASSUME NEW u \in Threads, NEW discard \in BOOLEAN,
              NEW e \in {None, "call", "exit"}, RestartThread(t, u, discard, e)
       PROVE  SchedInv'
  <2>1. /\ Current(t) /\ execution_state[u] = "stopped" /\ cpu' = cpu
        /\ execution_state' = [execution_state EXCEPT ![u] = "running"]
        /\ run_queue' = Append(run_queue, u)
        /\ continuation' = continuation
    BY <1>16 DEF RestartThread, Calls
  <2>2. \A v \in Threads \ {t, u} : /\ pending_events'[v] = pending_events[v]
                                   /\ block_events'[v] = block_events[v]
    BY <1>16 DEF RestartThread, SchedInv, TypeOK
  <2>3. continuation[u]
    <3>1. Live(u) /\ ~Running(u)
      BY <2>1 DEF Live, Running
    <3>2. u # Head(run_queue)
      BY <2>1, <3>1, CurrentFacts, HeadContained DEF SchedInv, TypeOK, RunQueueOK
    <3>3. QED
      BY <3>1, <3>2 DEF SchedInv, ContinuationOK
  <2>4. QED
    BY <2>1, <2>2, <2>3, CurrentFacts, StartStep
<1>17. ASSUME NEW e \in {"wake", "call", "exit"}, SelfSignal(t, e)
      PROVE  SchedInv'
  <2>1. /\ Current(t) /\ UNCHANGED schedVars
        /\ cpu' \in {"user", "suspend", "allow", "release"}
        /\ cpu' = "suspend" => block_events'[t] # "yes"
        /\ \A v \in Threads \ {t} : /\ pending_events'[v] = pending_events[v]
                                    /\ block_events'[v] = block_events[v]
    BY <1>17 DEF SelfSignal, Calls, Current, SchedInv, TypeOK, eventVars
  <2>2. QED
    BY <2>1, CurrentStep
<1>18. ASSUME NEW e \in {"wake", "call", "exit"}, NEW u \in Threads,
              SignalEvent(t, u, e)
       PROVE  SchedInv'
  <2>1. /\ e \in Events /\ SignalThreadEvent(u, e) /\ cpu # "idle"
        /\ UNCHANGED <<continuation, cpu, block_events>>
    BY <1>18 DEF SignalEvent, Calls, Current, Events
  <2>2. QED
    BY <2>1, SignalStep
<1>19. ASSUME NEW m \in Mutexes, LockFree(t, m)
      PROVE  SchedInv'
  <2>1. /\ Current(t) /\ UNCHANGED schedVars
        /\ cpu' \in {"user", "suspend", "allow", "release"}
        /\ cpu' = "suspend" => block_events'[t] # "yes"
        /\ \A v \in Threads \ {t} : /\ pending_events'[v] = pending_events[v]
                                    /\ block_events'[v] = block_events[v]
    BY <1>19 DEF LockFree, Calls, Current, SchedInv, TypeOK, eventVars
  <2>2. QED
    BY <2>1, CurrentStep
<1>20. ASSUME NEW m \in Mutexes, LockWait(t, m)
      PROVE  SchedInv'
  <2>1. /\ Current(t) /\ UNCHANGED schedVars
        /\ cpu' \in {"user", "suspend", "allow", "release"}
        /\ cpu' = "suspend" => block_events'[t] # "yes"
        /\ \A v \in Threads \ {t} : /\ pending_events'[v] = pending_events[v]
                                    /\ block_events'[v] = block_events[v]
    BY <1>20 DEF LockWait, Calls, Current, SchedInv, TypeOK, eventVars, EnterSuspend
  <2>2. QED
    BY <2>1, CurrentStep
<1>21. ASSUME NEW m \in Mutexes, UnlockMutex(t, m)
       PROVE  SchedInv'
  <2>1. /\ Current(t) /\ HandOff(m)
        /\ UNCHANGED <<continuation, cpu, block_events>>
    BY <1>21 DEF UnlockMutex, Calls
  <2>2. QED
    BY <2>1, CurrentFacts, HandOffSched
<1>22. QED
  BY <1>1, <1>2, <1>3, <1>4, <1>5, <1>6, <1>7, <1>8, <1>9,
     <1>10, <1>11, <1>12, <1>13, <1>14, <1>15, <1>16, <1>17, <1>18,
     <1>19, <1>20, <1>21
     DEF UserCall

\* The steps of a thread inside a call preserve the invariant.
LEMMA UserStepSched ==
  ASSUME SchedInv, TypeOK', NEW t \in Threads, UserStep(t)
  PROVE  SchedInv'
<1>1. CASE SelfSignalCount(t)
  <2>1. /\ Current(t) /\ UNCHANGED schedVars
        /\ cpu' \in {"user", "suspend", "allow", "release"}
        /\ cpu' = "suspend" => block_events'[t] # "yes"
        /\ \A u \in Threads \ {t} : /\ pending_events'[u] = pending_events[u]
                                    /\ block_events'[u] = block_events[u]
    BY <1>1 DEF SelfSignalCount, Current, SchedInv, TypeOK, eventVars
  <2>2. QED
    BY <2>1, CurrentStep
<1>2. CASE SelfSignalAdd(t)
  <2>1. /\ Current(t) /\ UNCHANGED schedVars
        /\ cpu' \in {"user", "suspend", "allow", "release"}
        /\ cpu' = "suspend" => block_events'[t] # "yes"
        /\ \A u \in Threads \ {t} : /\ pending_events'[u] = pending_events[u]
                                    /\ block_events'[u] = block_events[u]
    BY <1>2 DEF SelfSignalAdd, Current, SchedInv, TypeOK, eventVars
  <2>2. QED
    BY <2>1, CurrentStep
<1>3. CASE SelfSignalUnblock(t)
  BY <1>3, RestoreSched DEF SelfSignalUnblock
<1>4. CASE SleepRegister(t)
  <2>1. /\ Current(t) /\ UNCHANGED schedVars
        /\ cpu' \in {"user", "suspend", "allow", "release"}
        /\ cpu' = "suspend" => block_events'[t] # "yes"
        /\ \A u \in Threads \ {t} : /\ pending_events'[u] = pending_events[u]
                                    /\ block_events'[u] = block_events[u]
    BY <1>4 DEF SleepRegister, Current, SchedInv, TypeOK, eventVars
  <2>2. QED
    BY <2>1, CurrentStep
<1>5. CASE SleepLoop(t)
  <2>1. /\ Current(t) /\ UNCHANGED schedVars
        /\ cpu' \in {"user", "suspend", "allow", "release"}
        /\ cpu' = "suspend" => block_events'[t] # "yes"
        /\ \A u \in Threads \ {t} : /\ pending_events'[u] = pending_events[u]
                                    /\ block_events'[u] = block_events[u]
    BY <1>5 DEF SleepLoop, Current, SchedInv, TypeOK, eventVars, EnterSuspend
  <2>2. QED
    BY <2>1, CurrentStep
<1>6. CASE SleepDone(t)
  BY <1>6, RestoreSched DEF SleepDone
<1>7. CASE IOBlock(t)
  <2>1. /\ Current(t) /\ UNCHANGED schedVars
        /\ cpu' \in {"user", "suspend", "allow", "release"}
        /\ cpu' = "suspend" => block_events'[t] # "yes"
        /\ \A u \in Threads \ {t} : /\ pending_events'[u] = pending_events[u]
                                    /\ block_events'[u] = block_events[u]
    BY <1>7 DEF IOBlock, Current, SchedInv, TypeOK, eventVars
  <2>2. QED
    BY <2>1, CurrentStep
<1>8. CASE IOCheck(t)
  <2>1. /\ Current(t) /\ UNCHANGED schedVars
        /\ cpu' \in {"user", "suspend", "allow", "release"}
        /\ cpu' = "suspend" => block_events'[t] # "yes"
        /\ \A u \in Threads \ {t} : /\ pending_events'[u] = pending_events[u]
                                    /\ block_events'[u] = block_events[u]
    BY <1>8 DEF IOCheck, Current, SchedInv, TypeOK, eventVars, EnterSuspend
  <2>2. QED
    BY <2>1, CurrentStep
<1>9. CASE IOReturn(t)
  BY <1>9, RestoreSched DEF IOReturn
<1>10. CASE IODeregister(t)
  <2>1. /\ Current(t) /\ UNCHANGED schedVars
        /\ cpu' \in {"user", "suspend", "allow", "release"}
        /\ cpu' = "suspend" => block_events'[t] # "yes"
        /\ \A u \in Threads \ {t} : /\ pending_events'[u] = pending_events[u]
                                    /\ block_events'[u] = block_events[u]
    BY <1>10 DEF IODeregister, Current, SchedInv, TypeOK, eventVars
  <2>2. QED
    BY <2>1, CurrentStep
<1>11. QED
  BY <1>1, <1>2, <1>3, <1>4, <1>5, <1>6, <1>7, <1>8, <1>9, <1>10 DEF UserStep

\* So do the masked steps ...
LEMMA MaskedStepSched ==
  ASSUME SchedInv, TypeOK', NEW t \in Threads, MaskedStep(t)
  PROVE  SchedInv'
<1>1. CASE SuspendHandle(t)
  <2>1. /\ run_queue # << >> /\ t = Head(run_queue)
        /\ cpu \notin {"idle", "select", "timer", "preempt"}
    BY <1>1 DEF SuspendHandle, Masked
  <2>2. CASE ExitEvent(t, pending_events[t])
    BY <2>1, <2>2, BeginExitSched DEF ExitEvent
  <2>3. CASE ~ExitEvent(t, pending_events[t])
    <3>1. /\ \E b : HandleThreadEvents(t, pending_events[t], b)
          /\ cpu' \in {"user", "lock"} /\ UNCHANGED schedVars
      BY <1>1, <2>3 DEF SuspendHandle, ReturnTo
    <3>2. QED
      BY <2>1, <3>1, HandleSched
  <2>4. QED
    BY <2>2, <2>3
<1>2. CASE SuspendWait(t)
  <2>1. /\ run_queue # << >> /\ t = Head(run_queue) /\ cpu = "suspend"
        /\ ThreadNotRunning(t, "waiting") /\ pending_events[t] = << >>
        /\ UNCHANGED <<block_events, pending_events>>
    BY <1>2 DEF SuspendWait, Masked, eventVars
  <2>2. block_events[t] # "yes"
    BY <2>1 DEF SchedInv, StretchOK
  <2>3. QED
    BY <2>1, <2>2, NotRunningStep
<1>3. CASE ResumeCurrentThread(t)
  <2>1. /\ run_queue # << >> /\ t = Head(run_queue)
        /\ cpu \notin {"idle", "select", "timer", "preempt"}
    BY <1>3 DEF ResumeCurrentThread, Masked
  <2>2. CASE ExitEvent(t, pending_events[t])
    BY <2>1, <2>2, BeginExitSched DEF ExitEvent
  <2>3. CASE ~ExitEvent(t, pending_events[t])
    <3>1. /\ \/ \E b : HandleThreadEvents(t, pending_events[t], b)
             \/ UNCHANGED eventVars
          /\ cpu' \in {"user", "lock"} /\ UNCHANGED schedVars
      BY <1>3, <2>3 DEF ResumeCurrentThread, ReturnTo
    <3>2. CASE UNCHANGED eventVars
      BY <2>1, <3>1, <3>2, OwnStep DEF eventVars
    <3>3. QED
      BY <2>1, <3>1, <3>2, HandleSched
  <2>4. QED
    BY <2>2, <2>3
<1>4. CASE YieldNow(t)
  <2>1. /\ run_queue # << >> /\ t = Head(run_queue) /\ cpu = "yield"
        /\ YieldThread(t)
        /\ UNCHANGED <<execution_state, block_events, pending_events>>
    BY <1>4 DEF YieldNow, Masked, eventVars
  <2>2. ~continuation[t] /\ execution_state[t] = "running"
    BY <2>1 DEF SchedInv, ContinuationOK, StretchOK
  <2>3. QED
    BY <2>1, <2>2, YieldStep
<1>5. CASE LockLoop(t)
  <2>1. /\ run_queue # << >> /\ t = Head(run_queue) /\ cpu = "lock"
        /\ UNCHANGED schedVars /\ pending_events' = pending_events
    BY <1>5 DEF LockLoop, Masked
  <2>2. /\ cpu' \in {"user", "suspend"}
        /\ cpu' = "suspend" => block_events'[t] # "yes"
        /\ \A u \in Threads \ {t} : block_events'[u] = block_events[u]
    BY <1>5 DEF LockLoop, EnterSuspend, SchedInv, TypeOK
  <2>3. QED
    BY <2>1, <2>2, OwnStep
<1>6. CASE AllowDone(t)
  <2>1. /\ run_queue # << >> /\ t = Head(run_queue)
        /\ cpu \notin {"idle", "select", "timer", "preempt"}
    BY <1>6 DEF AllowDone, Masked
  <2>2. CASE ExitEvent(t, pending_events[t])
    BY <2>1, <2>2, BeginExitSched DEF ExitEvent
  <2>3. CASE ~ExitEvent(t, pending_events[t])
    <3>1. /\ \E b : HandleThreadEvents(t, pending_events[t], b)
          /\ cpu' \in {"user", "lock"} /\ UNCHANGED schedVars
      BY <1>6, <2>3 DEF AllowDone, ReturnTo
    <3>2. QED
      BY <2>1, <3>1, HandleSched
  <2>4. QED
    BY <2>2, <2>3
<1>7. CASE ExitValue(t)
  BY <1>7, OwnStep DEF ExitValue, Masked, eventVars
<1>8. CASE ExitDone(t)
  BY <1>8, NotRunningStep DEF ExitDone, Masked, eventVars
<1>9. CASE DetachDone(t)
  BY <1>9, OwnStep DEF DetachDone, Masked, eventVars
<1>10. CASE ReleaseJoined(t)
  <2>1. /\ "joined" \in Events /\ SignalThreadEvent(t, "joined")
        /\ cpu # "idle" /\ UNCHANGED <<continuation, cpu, block_events>>
    BY <1>10 DEF ReleaseJoined, Events
  <2>2. QED
    BY <2>1, SignalStep
<1>11. ASSUME NEW m \in Mutexes, ExitMutex(t, m)
       PROVE  SchedInv'
  <2>1. /\ run_queue # << >> /\ t = Head(run_queue) /\ cpu = "exit"
        /\ UNCHANGED <<continuation, cpu, block_events>>
    BY <1>11 DEF ExitMutex, Masked
  <2>2. CASE owner[m] = t
    BY <1>11, <2>1, <2>2, HandOffSched DEF ExitMutex
  <2>3. CASE owner[m] # t
    <3>1. UNCHANGED <<execution_state, run_queue, pending_events>>
      BY <1>11, <2>3 DEF ExitMutex
    <3>2. QED
      BY <2>1, <3>1, OwnStep DEF schedVars
  <2>4. QED
    BY <2>2, <2>3
<1>12. QED
  BY <1>1, <1>2, <1>3, <1>4, <1>5, <1>6, <1>7, <1>8, <1>9, <1>10, <1>11
     DEF MaskedStep

\* ... the timer interrupt and select ...
LEMMA SystemSched ==
  ASSUME SchedInv, TypeOK', System \/ TimerInterrupt \/ SelectReturns
  PROVE  SchedInv'
<1>1. ASSUME UNCHANGED <<schedVars, eventVars>>,
             \/ cpu \in {"user", "idle"} /\ cpu' = "timer"
             \/ cpu = "timer" /\ cpu' = "preempt"
             \/ cpu = "allow" /\ cpu' = "allow_io"
             \/ cpu = "idle" /\ cpu' = "select"
      PROVE  SchedInv'
  <2>1. RunQueueOK' /\ NoLostWakeup'
    BY <1>1 DEF SchedInv, RunQueueOK, Running, NoLostWakeup, schedVars,
                eventVars
  <2>2. ContinuationOK'
    BY <1>1 DEF SchedInv, ContinuationOK, Live, schedVars
  <2>3. StretchOK'
    BY <1>1 DEF StretchOK
  <2>4. QED
    BY <2>1, <2>2, <2>3 DEF SchedInv
<1>2. CASE TimersDelivered
  BY <1>1, <1>2 DEF TimersDelivered
<1>3. CASE TimerInterrupt
  BY <1>1, <1>3 DEF TimerInterrupt
<1>4. CASE SelectReturns
  BY <1>1, <1>4 DEF SelectReturns
<1>5. CASE SelectDone
  BY <1>5, DispatchStep DEF SelectDone, eventVars
<1>6. CASE Preempt
  <2>1. UNCHANGED <<execution_state, block_events, pending_events>>
    BY <1>6 DEF Preempt, eventVars
  <2>2. CASE run_queue = << >>
    <3>1. cpu' = "idle" /\ UNCHANGED <<run_queue, continuation>>
      BY <1>6, <2>2 DEF Preempt
    <3>2. ContinuationOK' /\ StretchOK'
      BY <2>1, <2>2, <3>1 DEF SchedInv, ContinuationOK, Live, StretchOK
    <3>3. RunQueueOK' /\ NoLostWakeup'
      BY <2>1, <3>1 DEF SchedInv, RunQueueOK, Running, NoLostWakeup
    <3>4. QED
      BY <3>2, <3>3 DEF SchedInv
  <2>3. CASE run_queue # << >>
    <3> DEFINE t == Head(run_queue)
    <3>1. t \in Threads /\ Running(t)
      BY <2>3, HeadContained DEF SchedInv, TypeOK, RunQueueOK
    <3>2. CASE continuation[t]
      BY <1>6, <2>1, <2>3, <3>2, DispatchStep DEF Preempt
    <3>3. CASE /\ ~continuation[t]
               /\ execution_state[t] # "running_without_preemption"
      <4>1. YieldThread(t) /\ execution_state[t] = "running"
        BY <1>6, <2>3, <3>1, <3>3 DEF Preempt, Running
      <4>2. QED
        BY <2>1, <2>3, <3>1, <3>3, <4>1, YieldStep
    <3>4. CASE /\ ~continuation[t]
               /\ execution_state[t] = "running_without_preemption"
      <4>1. cpu' = "resume" /\ UNCHANGED <<run_queue, continuation>>
        BY <1>6, <2>3, <3>4 DEF Preempt
      <4>2. ContinuationOK' /\ StretchOK'
        BY <2>1, <2>3, <3>4, <4>1 DEF SchedInv, ContinuationOK, Live, StretchOK
      <4>3. RunQueueOK' /\ NoLostWakeup'
        BY <2>1, <4>1 DEF SchedInv, RunQueueOK, Running, NoLostWakeup
      <4>4. QED
        BY <4>2, <4>3 DEF SchedInv
    <3>5. QED
      BY <3>2, <3>3, <3>4
  <2>4. QED
    BY <2>2, <2>3
<1>7. QED
  BY <1>2, <1>3, <1>4, <1>5, <1>6 DEF System

\* ... and the events that arrive from outside.
LEMMA ArrivalSched ==
  ASSUME SchedInv, TypeOK', NEW t \in Threads,
         \/ DeliverTimer(t)
         \/ SignalIO(t)
         \/ \E e \in {"call", "exit"} : IdleSignal(t, e)
  PROVE  SchedInv'
<1>1. CASE DeliverTimer(t)
  <2>1. /\ "timer" \in Events /\ SignalThreadEvent(t, "timer")
        /\ cpu # "idle" /\ UNCHANGED <<continuation, cpu, block_events>>
    BY <1>1 DEF DeliverTimer, Events
  <2>2. QED
    BY <2>1, SignalStep
<1>2. CASE SignalIO(t)
  <2>1. /\ "io" \in Events /\ SignalThreadEvent(t, "io")
        /\ cpu # "idle" /\ UNCHANGED <<continuation, cpu, block_events>>
    BY <1>2 DEF SignalIO, Events
  <2>2. QED
    BY <2>1, SignalStep
<1>3. ASSUME NEW e \in {"call", "exit"}, IdleSignal(t, e)
      PROVE  SchedInv'
  <2>1. /\ cpu = "idle" /\ run_queue = << >> /\ block_events' = block_events
        /\ \A u \in Threads : u # t => pending_events'[u] = pending_events[u]
    BY <1>3 DEF IdleSignal, SchedInv, ContinuationOK, TypeOK
  <2>2. CASE block_events[t] # "yes" /\ execution_state[t] = "waiting"
    <3> DEFINE q == Append(run_queue, t)
    <3>1. /\ execution_state' = [execution_state EXCEPT ![t] = "running"]
          /\ Dispatch(q, continuation)
      BY <1>3, <2>2 DEF IdleSignal
    <3>2. ~Running(t) /\ Live(t)
      BY <2>2 DEF Running, Live
    <3>3. run_queue' = q
      BY <3>1 DEF Dispatch
    <3>4. RunQueueOK' /\ Head(q) = t /\ q # << >>
      BY <2>1, <3>1, <3>2, <3>3, AppendRunQueue DEF SchedInv
    <3>5. /\ cpu' = "resume"
          /\ \A u \in Threads : continuation'[u] <=> continuation[u] /\ u # t
      BY <3>1, <3>4 DEF Dispatch
    <3>6. /\ execution_state'[t] = "running"
          /\ \A u \in Threads : u # t => execution_state'[u] = execution_state[u]
      BY <3>1 DEF SchedInv, TypeOK
    <3>7. ContinuationOK'
      <4>1. \A u \in Threads : Live(u)' <=> Live(u)
        BY <3>2, <3>6 DEF Live
      <4>2. QED
        BY <2>1, <3>3, <3>4, <3>5, <4>1 DEF SchedInv, ContinuationOK
    <3>8. NoLostWakeup' /\ StretchOK'
      BY <2>1, <3>5, <3>6 DEF SchedInv, NoLostWakeup, StretchOK
    <3>9. QED
      BY <3>4, <3>7, <3>8 DEF SchedInv
  <2>3. CASE ~(block_events[t] # "yes" /\ execution_state[t] = "waiting")
    <3>1. UNCHANGED <<execution_state, run_queue, continuation, cpu>>
      BY <1>3, <2>3 DEF IdleSignal, schedVars
    <3>2. execution_state[t] # "waiting"
      BY <2>3 DEF SchedInv, NoLostWakeup
    <3>3. RunQueueOK' /\ ContinuationOK' /\ StretchOK'
      BY <2>1, <3>1 DEF SchedInv, RunQueueOK, Running, ContinuationOK, Live,
                        StretchOK
    <3>4. NoLostWakeup'
      BY <2>1, <3>1, <3>2 DEF SchedInv, NoLostWakeup
    <3>5. QED
      BY <3>3, <3>4 DEF SchedInv
  <2>4. QED
    BY <2>2, <2>3
<1>4. QED
  BY <1>1, <1>2, <1>3

\* The inductive invariant holds in every reachable state.
LEMMA SchedInvInductive == Spec => []SchedInv
<1>1. Init => SchedInv
  <2>1. ASSUME Init PROVE SchedInv
    <3>1. TypeOK
      BY <2>1, ThreadAssumption DEF Init, TypeOK, States, CPU, PCs, Events
    <3>2. /\ run_queue = <<InitialThread>> /\ Len(run_queue) = 1
          /\ Head(run_queue) = InitialThread /\ run_queue[1] = InitialThread
      BY <2>1 DEF Init
    <3>3. RunQueueOK
      BY <2>1, <3>2, ThreadAssumption
         DEF Init, RunQueueOK, NoDuplicates, Running, Contains
    <3>4. ContinuationOK
      BY <2>1, <3>2, ThreadAssumption DEF Init, ContinuationOK, Live
    <3>5. NoLostWakeup /\ StretchOK
      BY <2>1 DEF Init, NoLostWakeup, StretchOK
    <3>6. QED
      BY <3>1, <3>3, <3>4, <3>5 DEF SchedInv
  <2>2. QED
    BY <2>1
<1>2. TypeOK' /\ SchedInv /\ [Next]_vars => SchedInv'
  <2>1. ASSUME SchedInv, TypeOK', Next PROVE SchedInv'
    BY <2>1, UserCallSched, UserStepSched, MaskedStepSched, SystemSched,
       ArrivalSched DEF Next
  <2>2. ASSUME SchedInv, TypeOK', UNCHANGED vars PROVE SchedInv'
    BY <2>2 DEF SchedInv, RunQueueOK, Running, ContinuationOK, Live,
                NoLostWakeup, StretchOK, vars, schedVars, eventVars
  <2>3. QED
    BY <2>1, <2>2
<1>3. QED
  BY <1>1, <1>2, TypeCorrect, PTL DEF Spec

\* The run queue holds exactly the running threads, each once, and only its
\* first thread can have disallowed preemption.
THEOREM RunQueueCorrect == Spec => []RunQueueOK
BY SchedInvInductive, PTL DEF SchedInv

\* run-thread always finds a continuation, and never a stale one.
THEOREM ContinuationCorrect == Spec => []ContinuationOK
BY SchedInvInductive, PTL DEF SchedInv

\* No thread waits with an event it could handle.
THEOREM NoWakeupIsLost == Spec => []NoLostWakeup
BY SchedInvInductive, PTL DEF SchedInv

-----------------------------------------------------------------------------
(***************************************************************************)
(* The calls that take several steps: where a thread stands in a call      *)
(* (PcOK), sleep-current-thread and block-on-io-descriptor.                *)
(*                                                                         *)
(* SleepOK and BlockOnIOOK are not inductive by themselves: whether an     *)
(* event can still be discarded, or a thread parked, depends on where its  *)
(* call stands and on the masked stretch that runs.  CallInv adds both.    *)
(***************************************************************************)

\* A thread that has not started or is stopped is inside no call, a thread
\* is dead when its code has ended, and the stretches of exit-current-thread
\* and of the loop of %lock-thread-mutex run for a thread that is in them.
PcOK ==
  /\ \A t \in Threads :
       /\ execution_state[t] \in {"unborn", "stopped"} => pc[t] = "user"
       /\ execution_state[t] = "dead" <=> pc[t] = "dead"
       /\ pc[t] = "exiting" => /\ run_queue # << >> /\ t = Head(run_queue)
                               /\ cpu \in {"exit", "release"}
  /\ cpu = "exit" => pc[Head(run_queue)] = "exiting"
  /\ cpu = "lock" => pc[Head(run_queue)] = "lock"

\* %signal-thread-event changes the events of its thread only, and a thread
\* enters the run queue behind the first one.
LEMMA SignalEffect ==
  ASSUME SchedInv, SchedInv', NEW u \in Threads, NEW e \in Events,
         SignalThreadEvent(u, e)
  PROVE  /\ \A v \in Threads \ {u} : /\ pending_events'[v] = pending_events[v]
                                     /\ execution_state'[v] = execution_state[v]
         /\ pending_events'[u] = AddPendingEvent(pending_events[u], e)
         /\ \/ execution_state'[u] = execution_state[u]
            \/ execution_state[u] = "waiting" /\ execution_state'[u] = "running"
         /\ execution_state'[u] # "waiting"
         /\ run_queue # << >> => /\ run_queue' # << >>
                                 /\ Head(run_queue') = Head(run_queue)
<1>1. /\ \A v \in Threads \ {u} : pending_events'[v] = pending_events[v]
      /\ pending_events'[u] = AddPendingEvent(pending_events[u], e)
  BY DEF SignalThreadEvent, SchedInv, TypeOK
<1>2. CASE block_events[u] # "yes" /\ execution_state[u] = "waiting"
  <2>1. /\ execution_state' = [execution_state EXCEPT ![u] = "running"]
        /\ run_queue' = Append(run_queue, u)
    BY <1>2 DEF SignalThreadEvent
  <2>2. /\ execution_state'[u] = "running"
        /\ \A v \in Threads \ {u} : execution_state'[v] = execution_state[v]
    BY <2>1 DEF SchedInv, TypeOK
  <2>3. run_queue # << >> => /\ run_queue' # << >>
                             /\ Head(run_queue') = Head(run_queue)
    BY <2>1, AppendElements DEF SchedInv, TypeOK
  <2>4. QED
    BY <1>1, <1>2, <2>2, <2>3
<1>3. CASE ~(block_events[u] # "yes" /\ execution_state[u] = "waiting")
  <2>1. UNCHANGED <<execution_state, run_queue>>
    BY <1>3 DEF SignalThreadEvent
  <2>2. execution_state[u] # "waiting"
    BY <1>3 DEF SchedInv, NoLostWakeup
  <2>3. QED
    BY <1>1, <2>1, <2>2
<1>4. QED
  BY <1>2, <1>3

\* %add-pending-event drops no event but #f.
LEMMA AddPendingEventKeeps ==
  ASSUME NEW q \in Seq(Events), NEW e \in Events, NEW x, x # "wake"
  PROVE  /\ Contains(q, x) => Contains(AddPendingEvent(q, e), x)
         /\ x = e => Contains(AddPendingEvent(q, e), x)
         /\ AddPendingEvent(q, e) # << >>
<1> DEFINE r == Append(q, e)
<1>1. /\ Len(q) \in Nat /\ Len(r) = Len(q) + 1 /\ r[Len(r)] = e
      /\ Len(r) \in 1..Len(r)
      /\ \A i \in 1..Len(q) : r[i] = q[i] /\ i \in 1..Len(r)
  OBVIOUS
<1>2. Contains(r, e) /\ (Contains(q, x) => Contains(r, x)) /\ r # << >>
  BY <1>1 DEF Contains
<1>3. Contains(<<e>>, e) /\ <<e>> # << >> /\ ~Contains(<<"wake">>, x)
  BY DEF Contains
<1>4. Contains(q, x) => q # << >>
  BY DEF Contains
<1>5. QED
  BY <1>2, <1>3, <1>4 DEF AddPendingEvent

\* The first thread of the run queue is running.
LEMMA HeadRuns ==
  ASSUME SchedInv, run_queue # << >>
  PROVE  Head(run_queue) \in Threads /\ Running(Head(run_queue))
BY HeadContained DEF SchedInv, TypeOK, RunQueueOK

\* Outside the stretches of exit-current-thread and detach-thread no thread
\* is exiting.
LEMMA NobodyExits ==
  ASSUME PcOK, cpu \notin {"exit", "release"}
  PROVE  \A v \in Threads : pc[v] # "exiting"
BY DEF PcOK

\* A step in which no thread exits, and which enters neither "exit" nor the
\* loop of %lock-thread-mutex: a thread in another place than its own code
\* is neither stopped nor new.
LEMMA PcFrame ==
  ASSUME PcOK, cpu \notin {"exit", "release"},
         cpu' \notin {"exit", "lock"},
         \A v \in Threads :
           /\ pc'[v] # "exiting"
           /\ execution_state'[v] \in {"unborn", "stopped"} => pc'[v] = "user"
           /\ execution_state'[v] = "dead" <=> execution_state[v] = "dead"
           /\ pc'[v] = "dead" <=> pc[v] = "dead"
  PROVE  PcOK'
BY DEF PcOK

\* A step of the first thread inside its own code.
LEMMA PcOwn ==
  ASSUME SchedInv, PcOK, NEW t \in Threads, run_queue # << >>,
         t = Head(run_queue), cpu \notin {"exit", "release"},
         UNCHANGED <<execution_state, run_queue>>, cpu' # "exit",
         cpu' = "lock" => pc'[t] = "lock",
         pc'[t] \notin {"exiting", "dead"},
         \A v \in Threads \ {t} : pc'[v] = pc[v]
  PROVE  PcOK'
<1>1. Running(t)
  BY HeadRuns
<1>2. execution_state[t] \notin {"unborn", "stopped", "dead"}
  BY <1>1 DEF Running
<1>3. QED
  BY <1>2, NobodyExits DEF PcOK

\* %signal-thread-event moves no thread.
LEMMA PcSignal ==
  ASSUME SchedInv, SchedInv', PcOK, NEW u \in Threads, NEW e \in Events,
         SignalThreadEvent(u, e), UNCHANGED <<cpu, pc>>
  PROVE  PcOK'
<1>1. \A v \in Threads : \/ execution_state'[v] = execution_state[v]
                         \/ execution_state[v] = "waiting"
                            /\ execution_state'[v] = "running"
  BY SignalEffect
<1>2. run_queue # << >> => /\ run_queue' # << >>
                           /\ Head(run_queue') = Head(run_queue)
  BY SignalEffect
<1>3. cpu \in {"exit", "lock"} => run_queue # << >>
  BY DEF SchedInv, ContinuationOK
<1>4. QED
  BY <1>1, <1>2, <1>3 DEF PcOK

\* Neither does %%unlock-thread-mutex.
LEMMA PcHandOff ==
  ASSUME SchedInv, SchedInv', PcOK, NEW m \in Mutexes, HandOff(m),
         UNCHANGED <<cpu, pc>>
  PROVE  PcOK'
<1>1. CASE waiting_threads[m] = << >>
  BY <1>1 DEF HandOff, PcOK
<1>2. CASE waiting_threads[m] # << >>
  <2>1. Head(waiting_threads[m]) \in Threads
    BY <1>2 DEF SchedInv, TypeOK
  <2>2. "wake" \in Events /\ SignalThreadEvent(Head(waiting_threads[m]), "wake")
    BY <1>2 DEF HandOff, Events
  <2>3. QED
    BY <2>1, <2>2, PcSignal
<1>3. QED
  BY <1>1, <1>2

\* exit-current-thread puts the first thread, and no other, in "exit".
LEMMA PcExit ==
  ASSUME SchedInv, PcOK, NEW t \in Threads, BeginExit(t),
         run_queue # << >>, t = Head(run_queue), cpu \notin {"exit", "release"}
  PROVE  PcOK'
<1>1. Running(t)
  BY HeadRuns
<1>2. execution_state[t] \notin {"unborn", "stopped", "dead"}
  BY <1>1 DEF Running
<1>3. /\ cpu' = "exit" /\ UNCHANGED <<execution_state, run_queue>>
      /\ pc'[t] = "exiting" /\ \A v \in Threads \ {t} : pc'[v] = pc[v]
  BY DEF BeginExit, schedVars, SchedInv, TypeOK
<1>4. QED
  BY <1>2, <1>3, NobodyExits DEF PcOK

\* The ways a step of the first thread handles its events.
LEMMA PcUnblock ==
  ASSUME SchedInv, PcOK, NEW t \in Threads, Unblock(t), Current(t)
  PROVE  PcOK'
<1>0. /\ cpu = "user" /\ run_queue # << >> /\ t = Head(run_queue)
      /\ cpu \notin {"exit", "release"}
  BY DEF Current
<1>1. CASE ExitEvent(t, pending_events[t])
  BY <1>0, <1>1, PcExit DEF ExitEvent
<1>2. CASE ~ExitEvent(t, pending_events[t])
  <2>1. UNCHANGED <<execution_state, run_queue, cpu, pc>>
    BY <1>2 DEF Unblock, schedVars
  <2>2. QED
    BY <2>1 DEF PcOK
<1>3. QED
  BY <1>1, <1>2

\* So does the end of a call.
LEMMA PcRestore ==
  ASSUME SchedInv, PcOK, NEW t \in Threads,
         NEW next \in {"user", "io_deregister"}, Restore(t, next), Current(t)
  PROVE  PcOK'
<1>0. /\ cpu = "user" /\ run_queue # << >> /\ t = Head(run_queue)
      /\ cpu \notin {"exit", "release"}
  BY DEF Current
<1>1. CASE ExitEvent(t, pending_events[t])
  BY <1>0, <1>1, PcExit DEF ExitEvent
<1>2. CASE ~ExitEvent(t, pending_events[t])
  <2>1. /\ UNCHANGED <<execution_state, run_queue, cpu>>
        /\ pc'[t] = next /\ \A v \in Threads \ {t} : pc'[v] = pc[v]
    BY <1>2 DEF Restore, schedVars, SchedInv, TypeOK
  <2>2. QED
    BY <1>0, <2>1, PcOwn
<1>3. QED
  BY <1>1, <1>2

\* A thread joins the queue behind the first one, which goes on.
LEMMA PcStart ==
  ASSUME SchedInv, SchedInv', PcOK, NEW u \in Threads,
         execution_state[u] \in {"unborn", "stopped"},
         execution_state' = [execution_state EXCEPT ![u] = "running"],
         cpu = "user", UNCHANGED <<cpu, pc>>
  PROVE  PcOK'
<1>1. /\ execution_state'[u] = "running"
      /\ \A v \in Threads \ {u} : execution_state'[v] = execution_state[v]
  BY DEF SchedInv, TypeOK
<1>2. QED
  BY <1>1, NobodyExits, PcFrame DEF PcOK

\* Each operation a thread can call keeps PcOK.
LEMMA UserCallPc ==
  ASSUME SchedInv, SchedInv', PcOK, NEW t \in Threads, UserCall(t)
  PROVE  PcOK'
<1> USE DEF schedVars, Calls, Current
<1>0. /\ cpu = "user" /\ run_queue # << >> /\ t = Head(run_queue)
      /\ cpu \notin {"exit", "release"}
      /\ pc \in [Threads -> PCs] /\ pc[t] \notin {"exiting", "dead"}
  <2>1. Current(t)
    BY DEF UserCall, SuspendCurrentThread, StopCurrentThread,
           YieldCurrentThread, ExitCurrentThread, BlockThreadEvents,
           UnblockThreadEvents, HandleCurrentThreadEvents, AllowEventDelivery,
           DeregisterAllEvents, Sleep, BlockOnIO, SetPreempt, CreateThread,
           JoinThread, DetachThread, RestartThread, SelfSignal, SignalEvent,
           LockFree, LockWait, UnlockMutex
  <2>2. Running(t)
    BY <2>1, HeadRuns
  <2>3. QED
    BY <2>1, <2>2 DEF PcOK, Running, SchedInv, TypeOK
<1>1. CASE SuspendCurrentThread(t)
  BY <1>0, <1>1, PcOwn DEF SuspendCurrentThread, EnterSuspend
<1>2. CASE StopCurrentThread(t)
  <2>1. /\ execution_state'[t] = "stopped" /\ pc' = pc /\ pc[t] = "user"
        /\ \A v \in Threads \ {t} : execution_state'[v] = execution_state[v]
        /\ cpu' \in {"idle", "resume"}
    BY <1>2 DEF StopCurrentThread, ThreadNotRunning, Dispatch, SchedInv, TypeOK
  <2>2. execution_state[t] # "dead"
    BY <1>0 DEF PcOK
  <2>3. QED
    BY <1>0, <2>1, <2>2, NobodyExits, PcFrame DEF PcOK
<1>3. CASE YieldCurrentThread(t)
  <2>1. /\ execution_state'[t] = "running" /\ pc' = pc /\ cpu' = "yield"
        /\ \A v \in Threads \ {t} : execution_state'[v] = execution_state[v]
    BY <1>3 DEF YieldCurrentThread, SchedInv, TypeOK
  <2>2. execution_state[t] # "dead"
    BY <1>0 DEF PcOK
  <2>3. QED
    BY <1>0, <2>1, <2>2, NobodyExits, PcFrame DEF PcOK
<1>4. CASE ExitCurrentThread(t)
  BY <1>0, <1>4, PcExit DEF ExitCurrentThread
<1>5. CASE BlockThreadEvents(t)
  BY <1>0, <1>5, PcOwn DEF BlockThreadEvents
<1>6. CASE UnblockThreadEvents(t)
  BY <1>6, PcUnblock DEF UnblockThreadEvents
<1>7. CASE HandleCurrentThreadEvents(t)
  BY <1>7, PcUnblock DEF HandleCurrentThreadEvents
<1>8. CASE AllowEventDelivery(t)
  BY <1>0, <1>8, PcOwn DEF AllowEventDelivery
<1>9. CASE DeregisterAllEvents(t)
  BY <1>0, <1>9, PcOwn DEF DeregisterAllEvents
<1>10. CASE Sleep(t)
  BY <1>0, <1>10, PcOwn DEF Sleep
<1>11. CASE BlockOnIO(t)
  BY <1>0, <1>11, PcOwn DEF BlockOnIO
<1>12. ASSUME NEW state \in {"running", "running_without_preemption"},
              SetPreempt(t, state)
       PROVE  PcOK'
  <2>1. /\ execution_state'[t] = state /\ pc' = pc /\ cpu' = cpu
        /\ \A v \in Threads \ {t} : execution_state'[v] = execution_state[v]
    BY <1>12 DEF SetPreempt, SchedInv, TypeOK
  <2>2. execution_state[t] # "dead"
    BY <1>0 DEF PcOK
  <2>3. QED
    BY <1>0, <2>1, <2>2, NobodyExits, PcFrame DEF PcOK
<1>13. ASSUME NEW u \in Threads, CreateThread(t, u)
       PROVE  PcOK'
  <2>1. CASE ExitEvent(t, pending_events[t])
    BY <1>0, <2>1, PcExit DEF ExitEvent
  <2>2. CASE ~ExitEvent(t, pending_events[t])
    BY <1>0, <1>13, <2>2, PcStart DEF CreateThread
  <2>3. QED
    BY <2>1, <2>2
<1>14. ASSUME NEW u \in Threads, JoinThread(t, u)
       PROVE  PcOK'
  <2>1. CASE ExitEvent(t, pending_events[t])
    BY <1>0, <2>1, PcExit DEF ExitEvent
  <2>2. CASE ~ExitEvent(t, pending_events[t])
    <3>1. UNCHANGED <<execution_state, run_queue, cpu, pc>>
      BY <1>14, <2>2 DEF JoinThread
    <3>2. QED
      BY <3>1 DEF PcOK
  <2>3. QED
    BY <2>1, <2>2
<1>15. ASSUME NEW u \in Threads, DetachThread(t, u)
       PROVE  PcOK'
  BY <1>0, <1>15, PcOwn DEF DetachThread
<1>16. ASSUME NEW u \in Threads, NEW discard \in BOOLEAN,
              NEW e \in {None, "call", "exit"}, RestartThread(t, u, discard, e)
       PROVE  PcOK'
  BY <1>0, <1>16, PcStart DEF RestartThread
<1>17. ASSUME NEW e \in {"wake", "call", "exit"}, SelfSignal(t, e)
       PROVE  PcOK'
  BY <1>0, <1>17, PcOwn DEF SelfSignal
<1>18. ASSUME NEW e \in {"wake", "call", "exit"}, NEW u \in Threads,
              SignalEvent(t, u, e)
       PROVE  PcOK'
  BY <1>18, PcSignal DEF SignalEvent, Events
<1>19. ASSUME NEW m \in Mutexes, LockFree(t, m)
       PROVE  PcOK'
  BY <1>0, <1>19, PcOwn DEF LockFree
<1>20. ASSUME NEW m \in Mutexes, LockWait(t, m)
       PROVE  PcOK'
  BY <1>0, <1>20, PcOwn DEF LockWait, EnterSuspend
<1>21. ASSUME NEW m \in Mutexes, UnlockMutex(t, m)
       PROVE  PcOK'
  BY <1>21, PcHandOff DEF UnlockMutex
<1>22. QED
  BY <1>1, <1>2, <1>3, <1>4, <1>5, <1>6, <1>7, <1>8, <1>9, <1>10, <1>11,
     <1>12, <1>13, <1>14, <1>15, <1>16, <1>17, <1>18, <1>19, <1>20, <1>21
     DEF UserCall

\* So does each step inside a call ...
LEMMA UserStepPc ==
  ASSUME SchedInv, SchedInv', PcOK, NEW t \in Threads, UserStep(t)
  PROVE  PcOK'
<1> USE DEF schedVars
<1>0. /\ Current(t) /\ cpu = "user" /\ run_queue # << >> /\ t = Head(run_queue)
      /\ cpu \notin {"exit", "release"} /\ pc \in [Threads -> PCs]
      /\ pc[t] # "exiting" /\ pc[t] # "dead"
  BY DEF UserStep, SelfSignalCount, SelfSignalAdd, SelfSignalUnblock,
         SleepRegister, SleepLoop, SleepDone, IOBlock, IOCheck, IOReturn,
         IODeregister, Current, SchedInv, TypeOK
<1>1. CASE SelfSignalCount(t)
  BY <1>0, <1>1, PcOwn DEF SelfSignalCount
<1>2. CASE SelfSignalAdd(t)
  BY <1>0, <1>2, PcOwn DEF SelfSignalAdd
<1>3. CASE SelfSignalUnblock(t)
  BY <1>3, PcRestore DEF SelfSignalUnblock
<1>4. CASE SleepRegister(t)
  BY <1>0, <1>4, PcOwn DEF SleepRegister
<1>5. CASE SleepLoop(t)
  BY <1>0, <1>5, PcOwn DEF SleepLoop, EnterSuspend
<1>6. CASE SleepDone(t)
  BY <1>6, PcRestore DEF SleepDone
<1>7. CASE IOBlock(t)
  BY <1>0, <1>7, PcOwn DEF IOBlock
<1>8. CASE IOCheck(t)
  BY <1>0, <1>8, PcOwn DEF IOCheck, EnterSuspend
<1>9. CASE IOReturn(t)
  BY <1>9, PcRestore DEF IOReturn
<1>10. CASE IODeregister(t)
  BY <1>0, <1>10, PcOwn DEF IODeregister
<1>11. QED
  BY <1>1, <1>2, <1>3, <1>4, <1>5, <1>6, <1>7, <1>8, <1>9, <1>10 DEF UserStep

\* ... each masked step ...
LEMMA MaskedStepPc ==
  ASSUME SchedInv, SchedInv', PcOK, NEW t \in Threads, MaskedStep(t)
  PROVE  PcOK'
<1> USE DEF schedVars, Masked
<1>0. pc \in [Threads -> PCs] /\ execution_state \in [Threads -> States]
  BY DEF SchedInv, TypeOK
<1>1. CASE SuspendHandle(t)
  <2>1. CASE ExitEvent(t, pending_events[t])
    BY <1>1, <2>1, PcExit DEF SuspendHandle, ExitEvent
  <2>2. CASE ~ExitEvent(t, pending_events[t])
    <3>1. /\ cpu = "suspend" /\ run_queue # << >> /\ t = Head(run_queue)
          /\ UNCHANGED <<execution_state, run_queue, pc>>
          /\ cpu' = ReturnTo(t)
      BY <1>1, <2>2 DEF SuspendHandle
    <3>2. Running(t)
      BY <3>1, HeadRuns
    <3>3. QED
      BY <3>1, <3>2, NobodyExits, PcOwn DEF ReturnTo, PcOK, Running
  <2>3. QED
    BY <2>1, <2>2
<1>2. CASE SuspendWait(t)
  <2>1. /\ execution_state'[t] = "waiting" /\ pc' = pc /\ cpu = "suspend"
        /\ \A v \in Threads \ {t} : execution_state'[v] = execution_state[v]
        /\ cpu' \in {"idle", "resume"}
        /\ run_queue # << >> /\ t = Head(run_queue)
    BY <1>2 DEF SuspendWait, ThreadNotRunning, Dispatch, SchedInv, TypeOK
  <2>2. execution_state[t] # "dead"
    BY <2>1, HeadRuns DEF Running
  <2>3. QED
    BY <2>1, <2>2, NobodyExits, PcFrame DEF PcOK
<1>3. CASE ResumeCurrentThread(t)
  <2>1. CASE ExitEvent(t, pending_events[t])
    BY <1>3, <2>1, PcExit DEF ResumeCurrentThread, ExitEvent
  <2>2. CASE ~ExitEvent(t, pending_events[t])
    <3>1. /\ cpu = "resume" /\ run_queue # << >> /\ t = Head(run_queue)
          /\ UNCHANGED <<execution_state, run_queue, pc>>
          /\ cpu' = ReturnTo(t)
      BY <1>3, <2>2 DEF ResumeCurrentThread
    <3>2. Running(t)
      BY <3>1, HeadRuns
    <3>3. QED
      BY <3>1, <3>2, NobodyExits, PcOwn DEF ReturnTo, PcOK, Running
  <2>3. QED
    BY <2>1, <2>2
<1>4. CASE YieldNow(t)
  <2>1. /\ UNCHANGED <<execution_state, pc>> /\ cpu' \in {"idle", "resume"}
    BY <1>4 DEF YieldNow, YieldThread, Dispatch
  <2>2. cpu = "yield"
    BY <1>4 DEF YieldNow
  <2>3. QED
    BY <2>1, <2>2, NobodyExits, PcFrame DEF PcOK
<1>5. CASE LockLoop(t)
  <2>1. /\ cpu = "lock" /\ run_queue # << >> /\ t = Head(run_queue)
        /\ UNCHANGED <<execution_state, run_queue>>
        /\ cpu' \in {"user", "suspend"} /\ pc'[t] \in {"user", "lock"}
        /\ \A v \in Threads \ {t} : pc'[v] = pc[v]
    BY <1>0, <1>5 DEF LockLoop, EnterSuspend, PcOK
  <2>2. QED
    BY <2>1, PcOwn
<1>6. CASE AllowDone(t)
  <2>1. CASE ExitEvent(t, pending_events[t])
    BY <1>6, <2>1, PcExit DEF AllowDone, ExitEvent
  <2>2. CASE ~ExitEvent(t, pending_events[t])
    <3>1. /\ cpu = "allow_io" /\ UNCHANGED <<execution_state, run_queue, pc>>
          /\ cpu' = "user"
      BY <1>6, <2>2 DEF AllowDone
    <3>2. QED
      BY <3>1, NobodyExits, PcFrame DEF PcOK
  <2>3. QED
    BY <2>1, <2>2
<1>7. CASE ExitValue(t)
  BY <1>7 DEF ExitValue, PcOK
<1>8. CASE ExitDone(t)
  <2>1. /\ pc[t] = "exiting" /\ t = Head(run_queue) /\ cpu = "release"
        /\ pc'[t] = "dead" /\ execution_state'[t] = "dead"
        /\ \A v \in Threads \ {t} : /\ pc'[v] = pc[v]
                                    /\ execution_state'[v] = execution_state[v]
        /\ cpu' \in {"idle", "resume"}
    BY <1>0, <1>8 DEF ExitDone, ThreadNotRunning, Dispatch
  <2>2. QED
    BY <2>1 DEF PcOK
<1>9. CASE DetachDone(t)
  BY <1>9 DEF DetachDone, PcOK
<1>10. CASE ReleaseJoined(t)
  BY <1>10, PcSignal DEF ReleaseJoined, Events
<1>11. ASSUME NEW m \in Mutexes, ExitMutex(t, m)
       PROVE  PcOK'
  <2>1. CASE owner[m] = t
    BY <1>11, <2>1, PcHandOff DEF ExitMutex
  <2>2. CASE owner[m] # t
    BY <1>11, <2>2 DEF ExitMutex, PcOK
  <2>3. QED
    BY <2>1, <2>2
<1>12. QED
  BY <1>1, <1>2, <1>3, <1>4, <1>5, <1>6, <1>7, <1>8, <1>9, <1>10, <1>11
     DEF MaskedStep

\* ... the timer interrupt and select ...
LEMMA SystemPc ==
  ASSUME SchedInv, SchedInv', PcOK, System \/ TimerInterrupt \/ SelectReturns
  PROVE  PcOK'
<1>1. /\ UNCHANGED <<execution_state, pc>>
      /\ cpu \notin {"exit", "release"} /\ cpu' \notin {"exit", "lock"}
  BY DEF System, TimersDelivered, Preempt, SelectDone, TimerInterrupt,
         SelectReturns, schedVars, YieldThread, Dispatch
<1>2. QED
  BY <1>1, NobodyExits, PcFrame DEF PcOK

\* ... and the events that arrive from outside.
LEMMA ArrivalPc ==
  ASSUME SchedInv, SchedInv', PcOK, NEW t \in Threads,
         \/ DeliverTimer(t)
         \/ SignalIO(t)
         \/ \E e \in {"call", "exit"} : IdleSignal(t, e)
  PROVE  PcOK'
<1>1. CASE DeliverTimer(t)
  BY <1>1, PcSignal DEF DeliverTimer, Events
<1>2. CASE SignalIO(t)
  BY <1>2, PcSignal DEF SignalIO, Events
<1>3. ASSUME NEW e \in {"call", "exit"}, IdleSignal(t, e)
      PROVE  PcOK'
  <2>1. /\ pc' = pc /\ cpu = "idle" /\ cpu' \in {"idle", "resume"}
    BY <1>3 DEF IdleSignal, Dispatch
  <2>2. \A v \in Threads : \/ execution_state'[v] = execution_state[v]
                           \/ /\ execution_state[v] = "waiting"
                              /\ execution_state'[v] = "running"
    BY <1>3 DEF IdleSignal, schedVars, SchedInv, TypeOK
  <2>3. QED
    BY <2>1, <2>2, NobodyExits, PcFrame DEF PcOK
<1>4. QED
  BY <1>1, <1>2, <1>3

\* PcOK holds in every reachable state.
LEMMA PcOKInvariant == Spec => []PcOK
<1>1. Init => PcOK
  BY DEF Init, PcOK
<1>2. SchedInv /\ SchedInv' /\ PcOK /\ [Next]_vars => PcOK'
  <2>1. ASSUME SchedInv, SchedInv', PcOK, Next PROVE PcOK'
    BY <2>1, UserCallPc, UserStepPc, MaskedStepPc, SystemPc, ArrivalPc DEF Next
  <2>2. ASSUME PcOK, UNCHANGED vars PROVE PcOK'
    BY <2>2 DEF PcOK, vars, schedVars
  <2>3. QED
    BY <2>1, <2>2
<1>3. QED
  BY <1>1, <1>2, SchedInvInductive, PTL DEF Spec

(***************************************************************************)
(* sleep-current-thread and block-on-io-descriptor.                        *)
(***************************************************************************)

\* block-on-io-descriptor suspends only while its event is registered or
\* pending.
IOStretch ==
  cpu = "suspend" /\ pc[Head(run_queue)] = "io_return" =>
    \/ Head(run_queue) \in io_registrations
    \/ Contains(pending_events[Head(run_queue)], "io")

\* The inductive invariant of the two calls, above SchedInv and PcOK.
CallInv == SleepOK /\ BlockOnIOOK /\ IOStretch

\* The places in which a thread counts on an event of its own.
AwaitsEvent == {"sleep", "io_block", "io_check", "io_return"}

\* The variables the two calls read.
awaitVars == <<pc, pending_events, timerVars, ioVars>>

\* A step that leaves the events alone and parks no thread.
LEMMA CallStill ==
  ASSUME CallInv, UNCHANGED awaitVars,
         \A v \in Threads : execution_state'[v] = "waiting" =>
                              execution_state[v] = "waiting",
         cpu' = "suspend" =>
           \/ cpu = "suspend" /\ run_queue' = run_queue
           \/ pc'[Head(run_queue')] # "io_return"
  PROVE  CallInv'
BY DEF CallInv, SleepOK, BlockOnIOOK, IOStretch, awaitVars, timerVars, ioVars

\* A step of one thread after which that thread awaits no event.
LEMMA CallOutside ==
  ASSUME CallInv, NEW t \in Threads,
         \A v \in Threads \ {t} :
           /\ pc'[v] = pc[v] /\ pending_events'[v] = pending_events[v]
           /\ v \in timer_records <=> v \in timer_records'
           /\ v \in io_registrations <=> v \in io_registrations'
           /\ delivered'[v] = delivered[v] /\ io_result'[v] = io_result[v]
           /\ execution_state'[v] = "waiting" => execution_state[v] = "waiting",
         pc'[t] \notin AwaitsEvent,
         cpu' = "suspend" => Head(run_queue') = t
  PROVE  CallInv'
BY DEF CallInv, SleepOK, BlockOnIOOK, IOStretch, AwaitsEvent

\* exit-current-thread leaves both calls.
LEMMA CallExit ==
  ASSUME SchedInv, CallInv, NEW t \in Threads, BeginExit(t)
  PROVE  CallInv'
<1>1. /\ pc'[t] = "exiting" /\ cpu' = "exit"
      /\ \A v \in Threads \ {t} :
           /\ pc'[v] = pc[v] /\ pending_events'[v] = pending_events[v]
           /\ v \in timer_records <=> v \in timer_records'
           /\ v \in io_registrations <=> v \in io_registrations'
           /\ delivered'[v] = delivered[v] /\ io_result'[v] = io_result[v]
           /\ execution_state'[v] = execution_state[v]
  BY DEF BeginExit, SchedInv, TypeOK, schedVars
<1>2. QED
  BY <1>1, CallOutside DEF AwaitsEvent

\* handle-thread-events on all the events of a thread: the ones it waits
\* for have run.
LEMMA CallHandle ==
  ASSUME SchedInv, CallInv, NEW t \in Threads, NEW b,
         HandleThreadEvents(t, pending_events[t], b),
         UNCHANGED <<execution_state, pc, timer_records, io_registrations>>,
         cpu' # "suspend"
  PROVE  CallInv'
<1>1. /\ delivered'[t] <=> (delivered[t] \/ Contains(pending_events[t], "timer"))
      /\ io_result'[t] <=> (io_result[t] \/ Contains(pending_events[t], "io"))
      /\ \A v \in Threads \ {t} :
           /\ pending_events'[v] = pending_events[v]
           /\ delivered'[v] = delivered[v] /\ io_result'[v] = io_result[v]
  BY DEF HandleThreadEvents, SchedInv, TypeOK, Contains
<1>2. SleepOK'
  BY <1>1 DEF CallInv, SleepOK
<1>3. BlockOnIOOK'
  BY <1>1 DEF CallInv, BlockOnIOOK
<1>4. QED
  BY <1>2, <1>3 DEF CallInv, IOStretch

\* %signal-thread-event: a registration is given up only for the event.
LEMMA CallSignal ==
  ASSUME SchedInv, SchedInv', CallInv, NEW u \in Threads, NEW e \in Events,
         SignalThreadEvent(u, e), UNCHANGED <<cpu, pc, delivered, io_result>>,
         \/ timer_records' = timer_records
         \/ e = "timer" /\ timer_records' = timer_records \ {u},
         \/ io_registrations' = io_registrations
         \/ e = "io" /\ io_registrations' = io_registrations \ {u}
  PROVE  CallInv'
<1>1. /\ Contains(pending_events[u], "timer") \/ e = "timer" =>
           Contains(pending_events'[u], "timer")
      /\ Contains(pending_events[u], "io") \/ e = "io" =>
           Contains(pending_events'[u], "io")
  BY SignalEffect, AddPendingEventKeeps DEF SchedInv, TypeOK
<1>2. \A v \in Threads \ {u} : /\ pending_events'[v] = pending_events[v]
                               /\ execution_state'[v] = execution_state[v]
  BY SignalEffect
<1>3. execution_state'[u] # "waiting"
  BY SignalEffect
<1>4. SleepOK'
  BY <1>1, <1>2 DEF CallInv, SleepOK
<1>5. BlockOnIOOK'
  BY <1>1, <1>2, <1>3 DEF CallInv, BlockOnIOOK
<1>6. cpu = "suspend" => /\ Head(run_queue') = Head(run_queue)
                         /\ Head(run_queue) \in Threads
  BY SignalEffect, HeadContained DEF SchedInv, ContinuationOK, TypeOK
<1>7. IOStretch'
  BY <1>1, <1>2, <1>6 DEF CallInv, IOStretch
<1>8. QED
  BY <1>4, <1>5, <1>7 DEF CallInv

\* %%unlock-thread-mutex discards no event.
LEMMA CallHandOff ==
  ASSUME SchedInv, SchedInv', CallInv, NEW m \in Mutexes, HandOff(m),
         UNCHANGED <<cpu, pc, timerVars, ioVars>>
  PROVE  CallInv'
<1>1. CASE waiting_threads[m] = << >>
  BY <1>1, CallStill DEF HandOff, awaitVars
<1>2. CASE waiting_threads[m] # << >>
  <2>1. Head(waiting_threads[m]) \in Threads
    BY <1>2 DEF SchedInv, TypeOK
  <2>2. "wake" \in Events /\ SignalThreadEvent(Head(waiting_threads[m]), "wake")
    BY <1>2 DEF HandOff, Events
  <2>3. QED
    BY <2>1, <2>2, CallSignal DEF timerVars, ioVars
<1>3. QED
  BY <1>1, <1>2

\* unblock-thread-events by the first thread.
LEMMA CallUnblock ==
  ASSUME SchedInv, CallInv, NEW t \in Threads, Unblock(t), cpu = "user"
  PROVE  CallInv'
<1>1. CASE ExitEvent(t, pending_events[t])
  BY <1>1, CallExit DEF ExitEvent
<1>2. CASE ~ExitEvent(t, pending_events[t])
  BY <1>2, CallHandle DEF Unblock, schedVars
<1>3. QED
  BY <1>1, <1>2

\* The end of a call: the thread awaits no event.
LEMMA CallRestore ==
  ASSUME SchedInv, CallInv, NEW t \in Threads, cpu = "user",
         NEW next \in {"user", "io_deregister"}, Restore(t, next)
  PROVE  CallInv'
<1>1. CASE ExitEvent(t, pending_events[t])
  BY <1>1, CallExit DEF ExitEvent
<1>2. CASE ~ExitEvent(t, pending_events[t])
  <2>1. /\ \/ HandleThreadEvents(t, pending_events[t], "no")
           \/ UNCHANGED <<eventVars, delivered, io_result>>
        /\ UNCHANGED <<execution_state, cpu, timer_records, io_registrations>>
        /\ pc'[t] = next /\ \A v \in Threads \ {t} : pc'[v] = pc[v]
    BY <1>2 DEF Restore, schedVars, SchedInv, TypeOK
  <2>2. \A v \in Threads \ {t} :
          /\ pending_events'[v] = pending_events[v]
          /\ delivered'[v] = delivered[v] /\ io_result'[v] = io_result[v]
    BY <2>1 DEF HandleThreadEvents, eventVars, SchedInv, TypeOK
  <2>3. QED
    BY <2>1, <2>2, CallOutside DEF AwaitsEvent
<1>3. QED
  BY <1>1, <1>2

\* Each operation a thread can call keeps CallInv.
LEMMA UserCallCall ==
  ASSUME SchedInv, SchedInv', PcOK, CallInv, NEW t \in Threads, UserCall(t)
  PROVE  CallInv'
<1> USE DEF schedVars, eventVars, timerVars, ioVars, Calls, Current
<1>0. /\ pc \in [Threads -> PCs] /\ execution_state \in [Threads -> States]
      /\ pending_events \in [Threads -> Seq(Events)]
      /\ delivered \in [Threads -> BOOLEAN] /\ io_result \in [Threads -> BOOLEAN]
      /\ timer_records \subseteq Threads /\ io_registrations \subseteq Threads
  BY DEF SchedInv, TypeOK
<1>1. CASE SuspendCurrentThread(t)
  BY <1>1, CallStill DEF SuspendCurrentThread, EnterSuspend, awaitVars
<1>2. CASE StopCurrentThread(t)
  <2>1. /\ UNCHANGED awaitVars /\ cpu' \in {"idle", "resume"}
        /\ \A v \in Threads : execution_state'[v] = "waiting" =>
                                execution_state[v] = "waiting"
    BY <1>0, <1>2 DEF StopCurrentThread, ThreadNotRunning, Dispatch, awaitVars
  <2>2. QED
    BY <2>1, CallStill
<1>3. CASE YieldCurrentThread(t)
  BY <1>0, <1>3, CallStill DEF YieldCurrentThread, awaitVars
<1>4. CASE ExitCurrentThread(t)
  BY <1>4, CallExit DEF ExitCurrentThread
<1>5. CASE BlockThreadEvents(t)
  BY <1>5, CallStill DEF BlockThreadEvents, awaitVars
<1>6. CASE UnblockThreadEvents(t)
  BY <1>6, CallUnblock DEF UnblockThreadEvents
<1>7. CASE HandleCurrentThreadEvents(t)
  BY <1>7, CallUnblock DEF HandleCurrentThreadEvents
<1>8. CASE AllowEventDelivery(t)
  BY <1>8, CallStill DEF AllowEventDelivery, awaitVars
<1>9. CASE DeregisterAllEvents(t)
  BY <1>0, <1>9, CallOutside DEF DeregisterAllEvents, AwaitsEvent
<1>10. CASE Sleep(t)
  BY <1>0, <1>10, CallOutside DEF Sleep, AwaitsEvent
<1>11. CASE BlockOnIO(t)
  <2>1. /\ pc'[t] = "io_block" /\ t \in io_registrations' /\ cpu' = "user"
        /\ \A v \in Threads \ {t} :
             /\ pc'[v] = pc[v] /\ io_result'[v] = io_result[v]
             /\ v \in io_registrations <=> v \in io_registrations'
        /\ UNCHANGED <<execution_state, pending_events, timer_records, delivered>>
    BY <1>0, <1>11 DEF BlockOnIO
  <2>2. QED
    BY <2>1 DEF CallInv, SleepOK, BlockOnIOOK, IOStretch
<1>12. ASSUME NEW state \in {"running", "running_without_preemption"},
              SetPreempt(t, state)
       PROVE  CallInv'
  BY <1>0, <1>12, CallStill DEF SetPreempt, awaitVars
<1>13. ASSUME NEW u \in Threads, CreateThread(t, u)
       PROVE  CallInv'
  <2>1. CASE ExitEvent(t, pending_events[t])
    BY <2>1, CallExit DEF ExitEvent
  <2>2. CASE ~ExitEvent(t, pending_events[t])
    <3>1. /\ HandleThreadEvents(t, pending_events[t], block_events[t])
          /\ execution_state' = [execution_state EXCEPT ![u] = "running"]
          /\ UNCHANGED <<cpu, pc, timer_records, io_registrations>>
          /\ cpu = "user" /\ pc[t] = "user"
      BY <1>13, <2>2 DEF CreateThread
    <3>2. \A v \in Threads \ {t} :
            /\ pending_events'[v] = pending_events[v]
            /\ delivered'[v] = delivered[v] /\ io_result'[v] = io_result[v]
            /\ execution_state'[v] = "waiting" => execution_state[v] = "waiting"
      BY <1>0, <3>1 DEF HandleThreadEvents
    <3>3. QED
      BY <3>1, <3>2, CallOutside DEF AwaitsEvent
  <2>3. QED
    BY <2>1, <2>2
<1>14. ASSUME NEW u \in Threads, JoinThread(t, u)
       PROVE  CallInv'
  <2>1. CASE ExitEvent(t, pending_events[t])
    BY <2>1, CallExit DEF ExitEvent
  <2>2. CASE ~ExitEvent(t, pending_events[t])
    <3>1. /\ UNCHANGED <<execution_state, cpu, pc, timer_records,
                         io_registrations>>
          /\ cpu = "user" /\ pc[t] = "user"
          /\ \/ HandleThreadEvents(t,
                   AddPendingEvent(pending_events[t], "joined"), "no")
             \/ /\ UNCHANGED <<delivered, io_result>>
                /\ \/ UNCHANGED pending_events
                   \/ pending_events' = [pending_events EXCEPT ![t] =
                                            AddPendingEvent(@, "joined")]
      BY <1>14, <2>2 DEF JoinThread
    <3>2. \A v \in Threads \ {t} :
            /\ pending_events'[v] = pending_events[v]
            /\ delivered'[v] = delivered[v] /\ io_result'[v] = io_result[v]
      BY <1>0, <3>1 DEF HandleThreadEvents
    <3>3. QED
      BY <3>1, <3>2, CallOutside DEF AwaitsEvent
  <2>3. QED
    BY <2>1, <2>2
<1>15. ASSUME NEW u \in Threads, DetachThread(t, u)
       PROVE  CallInv'
  BY <1>15, CallStill DEF DetachThread, awaitVars
<1>16. ASSUME NEW u \in Threads, NEW discard \in BOOLEAN,
              NEW e \in {None, "call", "exit"}, RestartThread(t, u, discard, e)
       PROVE  CallInv'
  <2>1. /\ execution_state[u] = "stopped" /\ cpu = "user"
        /\ execution_state' = [execution_state EXCEPT ![u] = "running"]
        /\ \A v \in Threads \ {u} : pending_events'[v] = pending_events[v]
        /\ UNCHANGED <<cpu, pc, timer_records, delivered, io_registrations,
                       io_result>>
    BY <1>0, <1>16 DEF RestartThread
  <2>2. pc[u] = "user"
    BY <2>1 DEF PcOK
  <2>3. QED
    BY <1>0, <2>1, <2>2, CallOutside DEF AwaitsEvent
<1>17. ASSUME NEW e \in {"wake", "call", "exit"}, SelfSignal(t, e)
       PROVE  CallInv'
  BY <1>0, <1>17, CallOutside DEF SelfSignal, AwaitsEvent
<1>18. ASSUME NEW e \in {"wake", "call", "exit"}, NEW u \in Threads,
              SignalEvent(t, u, e)
       PROVE  CallInv'
  BY <1>18, CallSignal DEF SignalEvent, Events
<1>19. ASSUME NEW m \in Mutexes, LockFree(t, m)
       PROVE  CallInv'
  BY <1>19, CallStill DEF LockFree, awaitVars
<1>20. ASSUME NEW m \in Mutexes, LockWait(t, m)
       PROVE  CallInv'
  BY <1>0, <1>20, CallOutside DEF LockWait, EnterSuspend, AwaitsEvent
<1>21. ASSUME NEW m \in Mutexes, UnlockMutex(t, m)
       PROVE  CallInv'
  BY <1>21, CallHandOff DEF UnlockMutex
<1>22. QED
  BY <1>1, <1>2, <1>3, <1>4, <1>5, <1>6, <1>7, <1>8, <1>9, <1>10, <1>11,
     <1>12, <1>13, <1>14, <1>15, <1>16, <1>17, <1>18, <1>19, <1>20, <1>21
     DEF UserCall

\* So does each step inside a call: the event a thread looks for before it
\* suspends is registered, pending or handled.
LEMMA UserStepCall ==
  ASSUME SchedInv, SchedInv', PcOK, CallInv, NEW t \in Threads, UserStep(t)
  PROVE  CallInv'
<1> USE DEF schedVars, eventVars, timerVars, ioVars, Current
<1>0. /\ pc \in [Threads -> PCs] /\ execution_state \in [Threads -> States]
      /\ pending_events \in [Threads -> Seq(Events)]
      /\ delivered \in [Threads -> BOOLEAN] /\ io_result \in [Threads -> BOOLEAN]
      /\ timer_records \subseteq Threads /\ io_registrations \subseteq Threads
  BY DEF SchedInv, TypeOK
<1>1. CASE SelfSignalCount(t)
  BY <1>0, <1>1, CallOutside DEF SelfSignalCount, AwaitsEvent
<1>2. CASE SelfSignalAdd(t)
  <2>1. \A v \in Threads \ {t} : pending_events'[v] = pending_events[v]
    BY <1>0, <1>2 DEF SelfSignalAdd
  <2>2. QED
    BY <1>0, <1>2, <2>1, CallOutside DEF SelfSignalAdd, AwaitsEvent
<1>3. CASE SelfSignalUnblock(t)
  BY <1>3, CallRestore DEF SelfSignalUnblock
<1>4. CASE SleepRegister(t)
  <2>1. /\ pc'[t] = "sleep" /\ t \in timer_records' /\ cpu' = "user"
        /\ \A v \in Threads \ {t} :
             /\ pc'[v] = pc[v]
             /\ v \in timer_records <=> v \in timer_records'
        /\ UNCHANGED <<execution_state, pending_events, delivered,
                       io_registrations, io_result>>
    BY <1>0, <1>4 DEF SleepRegister
  <2>2. QED
    BY <2>1 DEF CallInv, SleepOK, BlockOnIOOK, IOStretch
<1>5. CASE SleepLoop(t)
  BY <1>5, CallStill DEF SleepLoop, EnterSuspend, awaitVars
<1>6. CASE SleepDone(t)
  BY <1>6, CallRestore DEF SleepDone
<1>7. CASE IOBlock(t)
  <2>1. /\ pc[t] = "io_block" /\ pc'[t] = "io_check" /\ cpu' = "user"
        /\ \A v \in Threads \ {t} : pc'[v] = pc[v]
        /\ UNCHANGED <<execution_state, pending_events, timer_records,
                       delivered, io_registrations, io_result>>
    BY <1>0, <1>7 DEF IOBlock
  <2>2. QED
    BY <2>1 DEF CallInv, SleepOK, BlockOnIOOK, IOStretch
<1>8. CASE IOCheck(t)
  <2>1. /\ pc[t] = "io_check" /\ pc'[t] = "io_return"
        /\ run_queue # << >> /\ t = Head(run_queue) /\ run_queue' = run_queue
        /\ cpu' = "suspend" => ~io_result[t]
        /\ \A v \in Threads \ {t} : pc'[v] = pc[v]
        /\ UNCHANGED <<execution_state, pending_events, timer_records,
                       delivered, io_registrations, io_result>>
    BY <1>0, <1>8 DEF IOCheck
  <2>2. execution_state[t] # "waiting"
    BY <2>1, HeadRuns DEF Running
  <2>3. QED
    BY <2>1, <2>2 DEF CallInv, SleepOK, BlockOnIOOK, IOStretch
<1>9. CASE IOReturn(t)
  BY <1>9, CallRestore DEF IOReturn
<1>10. CASE IODeregister(t)
  <2>1. \A v \in Threads \ {t} : pending_events'[v] = pending_events[v]
    BY <1>0, <1>10 DEF IODeregister
  <2>2. QED
    BY <1>0, <1>10, <2>1, CallOutside DEF IODeregister, AwaitsEvent
<1>11. QED
  BY <1>1, <1>2, <1>3, <1>4, <1>5, <1>6, <1>7, <1>8, <1>9, <1>10 DEF UserStep

\* ... each masked step: a thread is parked only while its event is still
\* registered ...
LEMMA MaskedStepCall ==
  ASSUME SchedInv, SchedInv', PcOK, CallInv, NEW t \in Threads, MaskedStep(t)
  PROVE  CallInv'
<1> USE DEF schedVars, eventVars, timerVars, ioVars, Masked
<1>0. /\ pc \in [Threads -> PCs] /\ execution_state \in [Threads -> States]
  BY DEF SchedInv, TypeOK
<1>1. CASE SuspendHandle(t)
  <2>1. CASE ExitEvent(t, pending_events[t])
    BY <2>1, CallExit DEF ExitEvent
  <2>2. CASE ~ExitEvent(t, pending_events[t])
    BY <1>1, <2>2, CallHandle DEF SuspendHandle, ReturnTo
  <2>3. QED
    BY <2>1, <2>2
<1>2. CASE SuspendWait(t)
  <2>1. /\ cpu = "suspend" /\ t = Head(run_queue)
        /\ ~Contains(pending_events[t], "io") /\ UNCHANGED awaitVars
        /\ \A v \in Threads \ {t} : execution_state'[v] = execution_state[v]
        /\ cpu' \in {"idle", "resume"}
    BY <1>0, <1>2 DEF SuspendWait, ThreadNotRunning, Dispatch, awaitVars,
                      Contains
  <2>2. QED
    BY <2>1 DEF CallInv, SleepOK, BlockOnIOOK, IOStretch, awaitVars
<1>3. CASE ResumeCurrentThread(t)
  <2>1. CASE ExitEvent(t, pending_events[t])
    BY <2>1, CallExit DEF ExitEvent
  <2>2. CASE ~ExitEvent(t, pending_events[t])
    <3>1. /\ cpu' \in {"user", "lock"}
          /\ UNCHANGED <<execution_state, pc, timer_records, io_registrations>>
          /\ \/ UNCHANGED awaitVars
             \/ \E b : HandleThreadEvents(t, pending_events[t], b)
      BY <1>3, <2>2 DEF ResumeCurrentThread, ReturnTo, awaitVars
    <3>2. CASE UNCHANGED awaitVars
      BY <3>1, <3>2, CallStill
    <3>3. QED
      BY <3>1, <3>2, CallHandle
  <2>3. QED
    BY <2>1, <2>2
<1>4. CASE YieldNow(t)
  <2>1. /\ UNCHANGED awaitVars /\ UNCHANGED execution_state
        /\ cpu' \in {"idle", "resume"}
    BY <1>4 DEF YieldNow, YieldThread, Dispatch, awaitVars
  <2>2. QED
    BY <2>1, CallStill
<1>5. CASE LockLoop(t)
  <2>1. /\ pc'[t] \notin AwaitsEvent /\ run_queue' = run_queue
        /\ \A v \in Threads \ {t} : pc'[v] = pc[v]
        /\ UNCHANGED <<execution_state, pending_events, timerVars, ioVars>>
        /\ t = Head(run_queue)
    BY <1>0, <1>5 DEF LockLoop, AwaitsEvent, PcOK
  <2>2. QED
    BY <2>1, CallOutside
<1>6. CASE AllowDone(t)
  <2>1. CASE ExitEvent(t, pending_events[t])
    BY <2>1, CallExit DEF ExitEvent
  <2>2. CASE ~ExitEvent(t, pending_events[t])
    <3>1. /\ cpu' # "suspend"
          /\ UNCHANGED <<execution_state, pc, timer_records, io_registrations>>
          /\ HandleThreadEvents(t, pending_events[t], saved_block[t])
      BY <1>6, <2>2 DEF AllowDone
    <3>2. QED
      BY <3>1, CallHandle
  <2>3. QED
    BY <2>1, <2>2
<1>7. CASE ExitValue(t)
  BY <1>7, CallStill DEF ExitValue, awaitVars
<1>8. CASE ExitDone(t)
  <2>1. /\ pc'[t] \notin AwaitsEvent /\ cpu' \in {"idle", "resume"}
        /\ \A v \in Threads \ {t} : /\ pc'[v] = pc[v]
                                    /\ execution_state'[v] = execution_state[v]
        /\ UNCHANGED <<pending_events, timerVars, ioVars>>
    BY <1>0, <1>8 DEF ExitDone, ThreadNotRunning, Dispatch, AwaitsEvent
  <2>2. QED
    BY <2>1, CallOutside
<1>9. CASE DetachDone(t)
  BY <1>9, CallStill DEF DetachDone, awaitVars
<1>10. CASE ReleaseJoined(t)
  BY <1>10, CallSignal DEF ReleaseJoined, Events
<1>11. ASSUME NEW m \in Mutexes, ExitMutex(t, m)
       PROVE  CallInv'
  <2>1. CASE owner[m] = t
    BY <1>11, <2>1, CallHandOff DEF ExitMutex
  <2>2. CASE owner[m] # t
    BY <1>11, <2>2, CallStill DEF ExitMutex, awaitVars
  <2>3. QED
    BY <2>1, <2>2
<1>12. QED
  BY <1>1, <1>2, <1>3, <1>4, <1>5, <1>6, <1>7, <1>8, <1>9, <1>10, <1>11
     DEF MaskedStep

\* ... the timer interrupt and select ...
LEMMA SystemCall ==
  ASSUME CallInv, System \/ TimerInterrupt \/ SelectReturns
  PROVE  CallInv'
<1>1. /\ UNCHANGED awaitVars /\ UNCHANGED execution_state
      /\ cpu' # "suspend"
  BY DEF System, TimersDelivered, Preempt, SelectDone, TimerInterrupt,
         SelectReturns, schedVars, eventVars, awaitVars, YieldThread, Dispatch
<1>2. QED
  BY <1>1, CallStill

\* ... and the events that arrive from outside.
LEMMA ArrivalCall ==
  ASSUME SchedInv, SchedInv', CallInv, NEW t \in Threads,
         \/ DeliverTimer(t)
         \/ SignalIO(t)
         \/ \E e \in {"call", "exit"} : IdleSignal(t, e)
  PROVE  CallInv'
<1> USE DEF timerVars, ioVars
<1>1. CASE DeliverTimer(t)
  BY <1>1, CallSignal DEF DeliverTimer, Events
<1>2. CASE SignalIO(t)
  BY <1>2, CallSignal DEF SignalIO, Events
<1>3. ASSUME NEW e \in {"call", "exit"}, IdleSignal(t, e)
      PROVE  CallInv'
  <2>1. /\ UNCHANGED <<pc, timer_records, delivered, io_registrations, io_result>>
        /\ cpu' \in {"idle", "resume"}
        /\ \A v \in Threads \ {t} : pending_events'[v] = pending_events[v]
        /\ pending_events'[t] = AddPendingEvent(pending_events[t], e)
        /\ \A v \in Threads : execution_state'[v] = "waiting" =>
                                execution_state[v] = "waiting"
    BY <1>3 DEF IdleSignal, Dispatch, schedVars, SchedInv, TypeOK
  <2>2. /\ Contains(pending_events[t], "timer") =>
             Contains(pending_events'[t], "timer")
        /\ Contains(pending_events[t], "io") =>
             Contains(pending_events'[t], "io")
    BY <2>1, AddPendingEventKeeps DEF SchedInv, TypeOK, Events
  <2>3. QED
    BY <2>1, <2>2 DEF CallInv, SleepOK, BlockOnIOOK, IOStretch
<1>4. QED
  BY <1>1, <1>2, <1>3

\* CallInv holds in every reachable state.
LEMMA CallInvInductive == Spec => []CallInv
<1>1. Init => CallInv
  BY DEF Init, CallInv, SleepOK, BlockOnIOOK, IOStretch
<1>2. SchedInv /\ SchedInv' /\ PcOK /\ CallInv /\ [Next]_vars => CallInv'
  <2>1. ASSUME SchedInv, SchedInv', PcOK, CallInv, Next PROVE CallInv'
    BY <2>1, UserCallCall, UserStepCall, MaskedStepCall, SystemCall,
       ArrivalCall DEF Next
  <2>2. ASSUME CallInv, UNCHANGED vars PROVE CallInv'
    BY <2>2, CallStill DEF vars, schedVars, eventVars, awaitVars
  <2>3. QED
    BY <2>1, <2>2
<1>3. QED
  BY <1>1, <1>2, SchedInvInductive, PcOKInvariant, PTL DEF Spec

\* No sequence of other events makes a thread in sleep-current-thread sleep
\* for ever: its timer event is registered, pending or handled.
THEOREM SleepCorrect == Spec => []SleepOK
BY CallInvInductive, PTL DEF CallInv

\* block-on-io-descriptor misses no event between the registration and the
\* suspension: a thread that waits in it still has its event registered.
THEOREM BlockOnIOCorrect == Spec => []BlockOnIOOK
BY CallInvInductive, PTL DEF CallInv

-----------------------------------------------------------------------------
(***************************************************************************)
(* Mutexes: ownership, the waiting rings and the threads' lists of mutexes *)
(* agree (MutexOK), a handed-over mutex reaches its new owner (HandOffOK), *)
(* and mutexes are handed over in the order of arrival (MutexFIFO).  Then  *)
(* about joining and exiting, which give up the mutexes a thread owns      *)
(* (JoinOK, DeadThreadOK).                                                 *)
(*                                                                         *)
(* MutexOK and HandOffOK need each other and LockStretch: a thread is      *)
(* parked in %lock-thread-mutex only while it does not own the mutex, and  *)
(* exit-current-thread has emptied the list before it records the value.   *)
(* Four actions and %%unlock-thread-mutex change the mutexes and have a    *)
(* lemma each; MutexStill covers the others.                               *)
(***************************************************************************)

\* ring/remove-item takes out the one occurrence of x.
LEMMA RemoveItemIndex ==
  ASSUME NEW s \in Seq(Threads), NEW x, NoDuplicates(s), Contains(s, x),
         NEW r, r = RemoveItem(s, x)
  PROVE  \E i \in 1..Len(s) :
           /\ s[i] = x /\ Len(s) \in Nat \ {0}
           /\ Len(r) = Len(s) - 1
           /\ \A j \in 1..Len(r) : r[j] = s[IF j < i THEN j ELSE j + 1]
<1> DEFINE P(i) == s[i] = x /\ \A j \in 1..(i - 1) : s[j] # x
           i == CHOOSE i \in 1..Len(s) : P(i)
<1>1. PICK k \in 1..Len(s) : s[k] = x
  BY DEF Contains
<1>2. P(k)
  <2>1. ASSUME NEW j \in 1..(k - 1) PROVE s[j] # x
    <3>1. j \in 1..Len(s) /\ j # k
      OBVIOUS
    <3>2. QED
      BY <1>1, <3>1 DEF NoDuplicates
  <2>2. QED
    BY <1>1, <2>1
<1>3. i \in 1..Len(s) /\ P(i)
  BY <1>2
<1>4. r = [j \in 1..(Len(s) - 1) |-> s[IF j < i THEN j ELSE j + 1]]
  BY DEF RemoveItem
<1>5. Len(s) \in Nat \ {0} /\ Len(s) - 1 \in Nat
  BY <1>1
<1>6. Len(r) = Len(s) - 1
  <2>1. r \in Seq(Threads)
    BY RemoveItemType
  <2>2. DOMAIN r = 1..Len(r) /\ Len(r) \in Nat
    BY <2>1
  <2>3. DOMAIN r = 1..(Len(s) - 1)
    BY <1>4
  <2>4. QED
    BY <1>5, <2>2, <2>3
<1>7. QED
  BY <1>3, <1>4, <1>5, <1>6

\* What ring/remove-item does to the elements of a ring.
LEMMA RemoveItemElements ==
  ASSUME NEW s \in Seq(Threads), NEW x, NoDuplicates(s), Contains(s, x)
  PROVE  /\ NoDuplicates(RemoveItem(s, x))
         /\ \A y : Contains(RemoveItem(s, x), y) <=> Contains(s, y) /\ y # x
<1> DEFINE r == RemoveItem(s, x)
<1>1. PICK i \in 1..Len(s) :
        /\ s[i] = x /\ Len(s) \in Nat \ {0}
        /\ Len(r) = Len(s) - 1
        /\ \A j \in 1..Len(r) : r[j] = s[IF j < i THEN j ELSE j + 1]
  BY RemoveItemIndex
<1> HIDE DEF r
<1>2. NoDuplicates(r)
  <2>1. ASSUME NEW j \in 1..Len(r), NEW k \in 1..Len(r), r[j] = r[k]
        PROVE  j = k
    <3> DEFINE a == IF j < i THEN j ELSE j + 1
               b == IF k < i THEN k ELSE k + 1
    <3>1. /\ a \in 1..Len(s) /\ b \in 1..Len(s) /\ s[a] = s[b]
      BY <1>1, <2>1
    <3>2. a = b
      BY <3>1 DEF NoDuplicates
    <3>3. QED
      BY <3>2
  <2>2. QED
    BY <2>1 DEF NoDuplicates
<1>3. ASSUME NEW y, Contains(r, y) PROVE Contains(s, y) /\ y # x
  <2>1. PICK j \in 1..Len(r) : r[j] = y
    BY <1>3 DEF Contains
  <2> DEFINE a == IF j < i THEN j ELSE j + 1
  <2>2. a \in 1..Len(s) /\ a # i /\ s[a] = y
    BY <1>1, <2>1
  <2>3. QED
    BY <1>1, <2>2 DEF Contains, NoDuplicates
<1>4. ASSUME NEW y, Contains(s, y), y # x PROVE Contains(r, y)
  <2>1. PICK k \in 1..Len(s) : s[k] = y
    BY <1>4 DEF Contains
  <2> DEFINE j == IF k < i THEN k ELSE k - 1
  <2>2. k # i
    BY <1>1, <1>4, <2>1
  <2>3. j \in 1..Len(r) /\ (IF j < i THEN j ELSE j + 1) = k
    BY <1>1, <2>2
  <2>4. r[j] = y
    BY <1>1, <2>1, <2>3
  <2>5. QED
    BY <2>3, <2>4 DEF Contains
<1>5. QED
  BY <1>2, <1>3, <1>4 DEF r

\* What the stretches of %lock-thread-mutex and of exit-current-thread have
\* established, and what a dead thread keeps.
LockStretch ==
  /\ cpu = "suspend" /\ pc[Head(run_queue)] = "lock" =>
       owner[wanted[Head(run_queue)]] # Head(run_queue)
  /\ cpu = "release" /\ pc[Head(run_queue)] = "exiting" =>
       mutexes[Head(run_queue)] = {}
  /\ \A t \in Threads : pc[t] = "dead" => mutexes[t] = {}

\* The inductive invariant of the mutexes, above SchedInv and PcOK.
MutexInv == MutexOK /\ HandOffOK /\ LockStretch

\* The places in a thread's code that the mutex invariants look at.
MutexPlace == {"lock", "exiting", "dead"}

\* A step that leaves the mutexes alone, keeps the threads that run in
\* %lock-thread-mutex running and enters none of the places above.
LEMMA MutexStill ==
  ASSUME MutexInv, UNCHANGED mutexVars,
         \A v \in Threads : \/ pc'[v] = pc[v]
                            \/ pc[v] \notin MutexPlace /\ pc'[v] \notin MutexPlace,
         \A v \in Threads : pc[v] = "lock" /\ Running(v) => Running(v)',
         cpu' = "suspend" => \/ cpu = "suspend" /\ Head(run_queue') = Head(run_queue)
                                /\ pc'[Head(run_queue)] = pc[Head(run_queue)]
                             \/ pc'[Head(run_queue')] # "lock",
         cpu' = "release" => \/ cpu = "release" /\ Head(run_queue') = Head(run_queue)
                                /\ pc'[Head(run_queue)] = pc[Head(run_queue)]
                             \/ pc'[Head(run_queue')] # "exiting"
  PROVE  MutexInv'
<1> USE DEF mutexVars, MutexPlace
<1>1. MutexOK'
  BY DEF MutexInv, MutexOK
<1>2. HandOffOK'
  BY DEF MutexInv, HandOffOK
<1>3. LockStretch'
  BY DEF MutexInv, LockStretch
<1>4. QED
  BY <1>1, <1>2, <1>3 DEF MutexInv

\* In particular a step of the first thread that moves no thread.
LEMMA MutexQuiet ==
  ASSUME MutexInv, UNCHANGED <<mutexVars, execution_state, pc>>,
         cpu' \notin {"suspend", "release"}
  PROVE  MutexInv'
BY MutexStill DEF Running

\* A thread owns a mutex only after it has been in no ring: it is in no ring
\* of any mutex while it executes its own code.
LEMMA NotWaiting ==
  ASSUME MutexOK, NEW t \in Threads, pc[t] \notin {"lock", "exiting"}
  PROVE  \A m \in Mutexes : ~Contains(waiting_threads[m], t)
BY DEF MutexOK

\* exit-current-thread: the rings the thread waits in are left to
\* %disassociate-thread-mutexes.
LEMMA MutexBeginExit ==
  ASSUME SchedInv, PcOK, MutexInv, NEW t \in Threads, BeginExit(t),
         run_queue # << >>, t = Head(run_queue)
  PROVE  MutexInv'
<1>1. /\ cpu' = "exit" /\ UNCHANGED <<execution_state, run_queue>>
      /\ pc'[t] = "exiting" /\ \A v \in Threads \ {t} : pc'[v] = pc[v]
      /\ wanted'[t] = None /\ \A v \in Threads \ {t} : wanted'[v] = wanted[v]
      /\ UNCHANGED <<owner, waiting_threads, mutexes>>
  BY DEF BeginExit, schedVars, SchedInv, TypeOK
<1>2. MutexOK'
  BY <1>1 DEF MutexInv, MutexOK
<1>3. HandOffOK'
  BY <1>1 DEF MutexInv, HandOffOK, Running
<1>4. LockStretch'
  BY <1>1 DEF MutexInv, LockStretch
<1>5. QED
  BY <1>2, <1>3, <1>4 DEF MutexInv

\* %signal-thread-event leaves the mutexes alone.
LEMMA MutexSignal ==
  ASSUME SchedInv, SchedInv', MutexInv, NEW u \in Threads, NEW e \in Events,
         SignalThreadEvent(u, e), UNCHANGED <<mutexVars, cpu, pc>>
  PROVE  MutexInv'
<1>1. \A v \in Threads : Running(v) => Running(v)'
  BY SignalEffect DEF Running
<1>2. cpu \in {"suspend", "release"} => Head(run_queue') = Head(run_queue)
  BY SignalEffect DEF SchedInv, ContinuationOK
<1>3. QED
  BY <1>1, <1>2, MutexStill

\* lock-thread-mutex of a free mutex.
LEMMA MutexLockFree ==
  ASSUME SchedInv, PcOK, MutexInv, NEW t \in Threads, NEW m \in Mutexes,
         LockFree(t, m)
  PROVE  MutexInv'
<1>1. /\ owner[m] = None /\ owner'[m] = t /\ pc[t] = "user" /\ cpu' = "user"
      /\ \A n \in Mutexes \ {m} : owner'[n] = owner[n]
      /\ mutexes'[t] = mutexes[t] \cup {m}
      /\ \A v \in Threads \ {t} : mutexes'[v] = mutexes[v]
      /\ UNCHANGED <<execution_state, run_queue, pc, waiting_threads, wanted>>
  BY DEF LockFree, Calls, Current, schedVars, SchedInv, TypeOK
<1>2. waiting_threads[m] = << >> /\ \A v : ~Contains(waiting_threads[m], v)
  BY <1>1 DEF MutexInv, MutexOK, Contains
<1>3. t # None /\ \A n \in Mutexes : ~Contains(waiting_threads[n], t)
  BY <1>1, ThreadAssumption, NotWaiting DEF MutexInv
<1>4. MutexOK'
  <2>1. ASSUME NEW n \in Mutexes, NEW v \in Threads
        PROVE  n \in mutexes'[v] <=>
                 owner'[n] = v \/ Contains(waiting_threads'[n], v)
    <3>1. CASE n = m
      BY <1>1, <1>2, <1>3, <3>1, ThreadAssumption DEF MutexInv, MutexOK
    <3>2. CASE n # m
      BY <1>1, <1>2, <3>2 DEF MutexInv, MutexOK
    <3>3. QED
      BY <3>1, <3>2
  <2>2. QED
    BY <1>1, <1>2, <1>3, <2>1 DEF MutexInv, MutexOK
<1>5. HandOffOK'
  BY <1>1, <1>2, ThreadAssumption DEF MutexInv, HandOffOK, Running
<1>6. LockStretch'
  BY <1>1 DEF MutexInv, LockStretch
<1>7. QED
  BY <1>4, <1>5, <1>6 DEF MutexInv

\* lock-thread-mutex of a mutex that another thread owns.
LEMMA MutexLockWait ==
  ASSUME SchedInv, PcOK, MutexInv, NEW t \in Threads, NEW m \in Mutexes,
         LockWait(t, m)
  PROVE  MutexInv'
<1>1. /\ owner[m] # None /\ owner[m] # t /\ pc[t] = "user" /\ cpu' = "suspend"
      /\ t = Head(run_queue)
      /\ pc'[t] = "lock" /\ \A v \in Threads \ {t} : pc'[v] = pc[v]
      /\ wanted'[t] = m /\ \A v \in Threads \ {t} : wanted'[v] = wanted[v]
      /\ waiting_threads'[m] = Append(waiting_threads[m], t)
      /\ \A n \in Mutexes \ {m} : waiting_threads'[n] = waiting_threads[n]
      /\ mutexes'[t] = mutexes[t] \cup {m}
      /\ \A v \in Threads \ {t} : mutexes'[v] = mutexes[v]
      /\ UNCHANGED <<execution_state, run_queue, owner>>
  BY DEF LockWait, EnterSuspend, Calls, Current, schedVars, SchedInv, TypeOK
<1>2. \A n \in Mutexes : ~Contains(waiting_threads[n], t)
  BY <1>1, NotWaiting DEF MutexInv
<1>3. /\ NoDuplicates(waiting_threads'[m])
      /\ \A v : Contains(waiting_threads'[m], v) <=>
                  Contains(waiting_threads[m], v) \/ v = t
  BY <1>1, <1>2, AppendElements DEF MutexInv, MutexOK, SchedInv, TypeOK
<1>4. MutexOK'
  <2>1. ASSUME NEW n \in Mutexes, NEW v \in Threads
        PROVE  /\ n \in mutexes'[v] <=>
                    owner'[n] = v \/ Contains(waiting_threads'[n], v)
               /\ Contains(waiting_threads'[n], v) =>
                    \/ pc'[v] = "lock" /\ wanted'[v] = n
                    \/ pc'[v] = "exiting"
    <3>1. CASE n = m /\ v = t
      BY <1>1, <1>3, <3>1
    <3>2. CASE n = m /\ v # t
      <4>1. /\ m \in mutexes[v] <=> owner[m] = v \/ Contains(waiting_threads[m], v)
            /\ Contains(waiting_threads[m], v) =>
                 \/ pc[v] = "lock" /\ wanted[v] = m
                 \/ pc[v] = "exiting"
        BY DEF MutexInv, MutexOK
      <4>2. QED
        BY <1>1, <1>3, <3>2, <4>1
    <3>3. CASE n # m
      BY <1>1, <1>2, <3>3 DEF MutexInv, MutexOK
    <3>4. QED
      BY <3>1, <3>2, <3>3
  <2>2. ASSUME NEW n \in Mutexes
        PROVE  /\ NoDuplicates(waiting_threads'[n])
               /\ owner'[n] = None => waiting_threads'[n] = << >>
               /\ ~Contains(waiting_threads'[n], owner'[n])
    <3>1. CASE n = m
      BY <1>1, <1>3, <3>1 DEF MutexInv, MutexOK
    <3>2. CASE n # m
      BY <1>1, <3>2 DEF MutexInv, MutexOK
    <3>3. QED
      BY <3>1, <3>2
  <2>3. QED
    BY <2>1, <2>2 DEF MutexOK
<1>5. HandOffOK'
  <2>1. ASSUME NEW v \in Threads, pc'[v] = "lock"
        PROVE  /\ wanted'[v] \in Mutexes
               /\ \/ owner'[wanted'[v]] = v /\ Running(v)'
                  \/ Contains(waiting_threads'[wanted'[v]], v)
    <3>1. CASE v = t
      BY <1>1, <1>3, <3>1
    <3>2. CASE v # t
      <4>1. /\ wanted'[v] = wanted[v] /\ wanted[v] \in Mutexes
            /\ \/ owner[wanted[v]] = v /\ Running(v)
               \/ Contains(waiting_threads[wanted[v]], v)
        BY <1>1, <2>1, <3>2 DEF MutexInv, HandOffOK
      <4>2. Running(v)' <=> Running(v)
        BY <1>1 DEF Running
      <4>3. Contains(waiting_threads[wanted[v]], v) =>
              Contains(waiting_threads'[wanted[v]], v)
        <5>1. CASE wanted[v] = m
          BY <1>3, <5>1
        <5>2. CASE wanted[v] # m
          BY <1>1, <4>1, <5>2
        <5>3. QED
          BY <5>1, <5>2
      <4>4. QED
        BY <1>1, <4>1, <4>2, <4>3
    <3>3. QED
      BY <3>1, <3>2
  <2>2. QED
    BY <2>1 DEF HandOffOK
<1>6. LockStretch'
  BY <1>1 DEF MutexInv, LockStretch
<1>7. QED
  BY <1>4, <1>5, <1>6 DEF MutexInv

\* The loop of %lock-thread-mutex ends only for the owner, which is in no
\* ring, and suspends only a thread that is not the owner.
LEMMA MutexLockLoop ==
  ASSUME SchedInv, PcOK, MutexInv, NEW t \in Threads, LockLoop(t)
  PROVE  MutexInv'
<1>1. /\ t = Head(run_queue) /\ pc[t] = "lock"
      /\ UNCHANGED <<execution_state, run_queue, owner, waiting_threads, mutexes>>
  BY DEF LockLoop, Masked, PcOK, schedVars
<1>2. CASE owner[wanted[t]] = t
  <2>1. /\ cpu' = "user"
        /\ pc'[t] = "user" /\ \A v \in Threads \ {t} : pc'[v] = pc[v]
        /\ \A v \in Threads \ {t} : wanted'[v] = wanted[v]
    BY <1>2 DEF LockLoop, SchedInv, TypeOK
  <2>2. \A m \in Mutexes : ~Contains(waiting_threads[m], t)
    BY <1>1, <1>2 DEF MutexInv, MutexOK
  <2>3. MutexOK'
    BY <1>1, <2>1, <2>2 DEF MutexInv, MutexOK
  <2>4. HandOffOK' /\ LockStretch'
    BY <1>1, <2>1 DEF MutexInv, HandOffOK, LockStretch, Running
  <2>5. QED
    BY <2>3, <2>4 DEF MutexInv
<1>3. CASE owner[wanted[t]] # t
  <2>1. cpu' = "suspend" /\ UNCHANGED <<pc, wanted>>
    BY <1>3 DEF LockLoop, EnterSuspend
  <2>2. MutexOK' /\ HandOffOK' /\ LockStretch'
    BY <1>1, <1>3, <2>1 DEF MutexInv, MutexOK, HandOffOK, LockStretch, Running
  <2>3. QED
    BY <2>2 DEF MutexInv
<1>4. QED
  BY <1>2, <1>3

\* %%unlock-thread-mutex, called by unlock-thread-mutex and by
\* %disassociate-thread-mutexes: the head of the ring becomes the owner and
\* cannot be left waiting.
LEMMA MutexHandOff ==
  ASSUME SchedInv, SchedInv', PcOK, MutexInv, NEW t \in Threads,
         NEW m \in Mutexes, HandOff(m), owner[m] = t,
         mutexes' = [mutexes EXCEPT ![t] = @ \ {m}],
         UNCHANGED <<cpu, pc, wanted>>, cpu \in {"user", "exit"},
         pc[t] \in {"user", "exiting"}
  PROVE  MutexInv'
<1> DEFINE w == waiting_threads[m]
<1>0. w \in Seq(Threads) /\ NoDuplicates(w) /\ ~Contains(w, t) /\ t # None
  BY ThreadAssumption DEF MutexInv, MutexOK, SchedInv, TypeOK
<1>1. /\ mutexes'[t] = mutexes[t] \ {m}
      /\ \A v \in Threads \ {t} : mutexes'[v] = mutexes[v]
  BY DEF SchedInv, TypeOK
<1>2. LockStretch'
  BY <1>1 DEF MutexInv, LockStretch
<1>3. CASE w = << >>
  <2>1. /\ owner'[m] = None /\ \A n \in Mutexes \ {m} : owner'[n] = owner[n]
        /\ UNCHANGED <<waiting_threads, execution_state>>
    BY <1>3 DEF HandOff, SchedInv, TypeOK
  <2>2. \A v : ~Contains(w, v)
    BY <1>3 DEF Contains
  <2>3. MutexOK'
    <3>1. ASSUME NEW n \in Mutexes, NEW v \in Threads
          PROVE  n \in mutexes'[v] <=>
                   owner'[n] = v \/ Contains(waiting_threads'[n], v)
      <4>1. CASE n = m
        BY <1>1, <2>1, <2>2, <4>1, ThreadAssumption DEF MutexInv, MutexOK
      <4>2. CASE n # m
        BY <1>1, <2>1, <4>2 DEF MutexInv, MutexOK
      <4>3. QED
        BY <4>1, <4>2
    <3>2. QED
      BY <1>3, <2>1, <2>2, <3>1 DEF MutexInv, MutexOK
  <2>4. HandOffOK'
    BY <2>1, <2>2 DEF MutexInv, HandOffOK, Running
  <2>5. QED
    BY <1>2, <2>3, <2>4 DEF MutexInv
<1>4. CASE w # << >>
  <2>0. PICK h \in Threads : h = Head(w)
    BY <1>0, <1>4, HeadContained
  <2>1. Contains(w, h) /\ h # t /\ h # None
    BY <1>0, <1>4, <2>0, HeadContained, ThreadAssumption
  <2>2. /\ owner'[m] = h /\ \A n \in Mutexes \ {m} : owner'[n] = owner[n]
        /\ waiting_threads'[m] = Tail(w)
        /\ \A n \in Mutexes \ {m} : waiting_threads'[n] = waiting_threads[n]
        /\ SignalThreadEvent(h, "wake")
    BY <1>4, <2>0 DEF HandOff, SchedInv, TypeOK
  <2>3. /\ NoDuplicates(Tail(w))
        /\ \A v : Contains(Tail(w), v) <=> Contains(w, v) /\ v # h
    BY <1>0, <1>4, <2>0, TailElements
  <2>4. /\ \A v \in Threads : Running(v) => Running(v)'
        /\ execution_state'[h] # "waiting"
        /\ \/ execution_state'[h] = execution_state[h]
           \/ execution_state'[h] = "running"
    BY <2>1, <2>2, SignalEffect DEF Running, Events
  <2>5. pc[h] = "lock" => Running(h)'
    <3>1. pc[h] = "lock" =>
            execution_state[h] \notin {"unborn", "stopped", "dead"}
      BY <2>1 DEF PcOK
    <3>2. execution_state'[h] \in States
      BY <2>1 DEF SchedInv, TypeOK
    <3>3. QED
      BY <2>4, <3>1, <3>2 DEF Running, States
  <2>6. MutexOK'
    <3>1. ASSUME NEW n \in Mutexes, NEW v \in Threads
          PROVE  /\ n \in mutexes'[v] <=>
                      owner'[n] = v \/ Contains(waiting_threads'[n], v)
                 /\ Contains(waiting_threads'[n], v) =>
                      \/ pc'[v] = "lock" /\ wanted'[v] = n
                      \/ pc'[v] = "exiting"
      <4>1. CASE n = m
        BY <1>0, <1>1, <2>1, <2>2, <2>3, <4>1 DEF MutexInv, MutexOK
      <4>2. CASE n # m
        BY <1>1, <2>2, <4>2 DEF MutexInv, MutexOK
      <4>3. QED
        BY <4>1, <4>2
    <3>2. ASSUME NEW n \in Mutexes
          PROVE  /\ NoDuplicates(waiting_threads'[n])
                 /\ owner'[n] = None => waiting_threads'[n] = << >>
                 /\ ~Contains(waiting_threads'[n], owner'[n])
      <4>1. CASE n = m
        BY <2>1, <2>2, <2>3, <4>1
      <4>2. CASE n # m
        BY <2>2, <4>2 DEF MutexInv, MutexOK
      <4>3. QED
        BY <4>1, <4>2
    <3>3. QED
      BY <3>1, <3>2 DEF MutexOK
  <2>7. HandOffOK'
    <3>1. ASSUME NEW v \in Threads, pc[v] = "lock"
          PROVE  /\ wanted[v] \in Mutexes
                 /\ \/ owner'[wanted[v]] = v /\ Running(v)'
                    \/ Contains(waiting_threads'[wanted[v]], v)
      <4>1. /\ wanted[v] \in Mutexes
            /\ \/ owner[wanted[v]] = v /\ Running(v)
               \/ Contains(waiting_threads[wanted[v]], v)
        BY <3>1 DEF MutexInv, HandOffOK
      <4>2. v # t
        BY <3>1
      <4>3. CASE wanted[v] = m
        BY <2>2, <2>3, <2>5, <3>1, <4>1, <4>2, <4>3
      <4>4. CASE wanted[v] # m
        BY <2>2, <2>4, <4>1, <4>4
      <4>5. QED
        BY <4>1, <4>3, <4>4
    <3>2. QED
      BY <3>1 DEF HandOffOK
  <2>8. QED
    BY <1>2, <2>6, <2>7 DEF MutexInv
<1>5. QED
  BY <1>3, <1>4

\* %disassociate-thread-mutexes, for a mutex the thread waits for.
LEMMA MutexLeaveRing ==
  ASSUME SchedInv, PcOK, MutexInv, NEW t \in Threads, NEW m \in Mutexes,
         ExitMutex(t, m), owner[m] # t
  PROVE  MutexInv'
<1> DEFINE w == waiting_threads[m]
<1>1. /\ cpu = "exit" /\ pc[t] = "exiting" /\ m \in mutexes[t]
      /\ UNCHANGED <<owner, execution_state, cpu, pc, wanted>>
      /\ waiting_threads'[m] = RemoveItem(w, t)
      /\ \A n \in Mutexes \ {m} : waiting_threads'[n] = waiting_threads[n]
      /\ mutexes'[t] = mutexes[t] \ {m}
      /\ \A v \in Threads \ {t} : mutexes'[v] = mutexes[v]
  BY DEF ExitMutex, Masked, PcOK, SchedInv, TypeOK
<1>2. w \in Seq(Threads) /\ NoDuplicates(w) /\ Contains(w, t) /\ w # << >>
  BY <1>1 DEF MutexInv, MutexOK, SchedInv, TypeOK, Contains
<1>3. /\ NoDuplicates(waiting_threads'[m])
      /\ \A v : Contains(waiting_threads'[m], v) <=> Contains(w, v) /\ v # t
  BY <1>1, <1>2, RemoveItemElements
<1>4. MutexOK'
  <2>1. ASSUME NEW n \in Mutexes, NEW v \in Threads
        PROVE  /\ n \in mutexes'[v] <=>
                    owner'[n] = v \/ Contains(waiting_threads'[n], v)
               /\ Contains(waiting_threads'[n], v) =>
                    \/ pc'[v] = "lock" /\ wanted'[v] = n
                    \/ pc'[v] = "exiting"
    <3>1. CASE n = m
      BY <1>1, <1>3, <3>1 DEF MutexInv, MutexOK
    <3>2. CASE n # m
      BY <1>1, <3>2 DEF MutexInv, MutexOK
    <3>3. QED
      BY <3>1, <3>2
  <2>2. ASSUME NEW n \in Mutexes
        PROVE  /\ NoDuplicates(waiting_threads'[n])
               /\ owner'[n] = None => waiting_threads'[n] = << >>
               /\ ~Contains(waiting_threads'[n], owner'[n])
    <3>1. CASE n = m
      BY <1>1, <1>2, <1>3, <3>1 DEF MutexInv, MutexOK
    <3>2. CASE n # m
      BY <1>1, <3>2 DEF MutexInv, MutexOK
    <3>3. QED
      BY <3>1, <3>2
  <2>3. QED
    BY <2>1, <2>2 DEF MutexOK
<1>5. HandOffOK'
  <2>1. ASSUME NEW v \in Threads, pc[v] = "lock"
        PROVE  /\ wanted[v] \in Mutexes
               /\ \/ owner'[wanted[v]] = v /\ Running(v)'
                  \/ Contains(waiting_threads'[wanted[v]], v)
    BY <1>1, <1>3, <2>1 DEF MutexInv, HandOffOK, Running
  <2>2. QED
    BY <1>1, <2>1 DEF HandOffOK
<1>6. LockStretch'
  BY <1>1 DEF MutexInv, LockStretch
<1>7. QED
  BY <1>4, <1>5, <1>6 DEF MutexInv

\* A step of the first thread to another place of its own code, or to the
\* stretch of a suspension or of detach-thread.
LEMMA MutexOwn ==
  ASSUME SchedInv, MutexInv, NEW t \in Threads, t = Head(run_queue),
         UNCHANGED <<mutexVars, execution_state, run_queue>>,
         pc[t] \notin MutexPlace, pc'[t] \notin MutexPlace,
         \A v \in Threads \ {t} : pc'[v] = pc[v]
  PROVE  MutexInv'
BY MutexStill DEF Running, MutexPlace

\* The places of the thread that executes its own code.
LEMMA CurrentPlace ==
  ASSUME SchedInv, PcOK, NEW t \in Threads, Current(t)
  PROVE  /\ pc[t] \notin {"exiting", "dead"}
         /\ run_queue # << >> /\ t = Head(run_queue) /\ cpu = "user"
<1>1. Running(t) /\ run_queue # << >> /\ t = Head(run_queue) /\ cpu = "user"
  BY HeadRuns DEF Current
<1>2. QED
  BY <1>1 DEF PcOK, Running

\* Handling the events of the first thread.
LEMMA MutexUnblock ==
  ASSUME SchedInv, PcOK, MutexInv, NEW t \in Threads, Unblock(t), Current(t)
  PROVE  MutexInv'
<1>1. CASE ExitEvent(t, pending_events[t])
  BY <1>1, MutexBeginExit DEF ExitEvent, Current
<1>2. CASE ~ExitEvent(t, pending_events[t])
  BY <1>2, MutexQuiet DEF Unblock, Current, schedVars
<1>3. QED
  BY <1>1, <1>2

\* The end of a call.
LEMMA MutexRestore ==
  ASSUME SchedInv, PcOK, MutexInv, NEW t \in Threads,
         NEW next \in {"user", "io_deregister"}, Restore(t, next),
         Current(t), pc[t] # "lock"
  PROVE  MutexInv'
<1>1. CASE ExitEvent(t, pending_events[t])
  BY <1>1, MutexBeginExit DEF ExitEvent, Current
<1>2. CASE ~ExitEvent(t, pending_events[t])
  <2>1. /\ UNCHANGED <<mutexVars, execution_state, run_queue>>
        /\ pc'[t] = next /\ \A v \in Threads \ {t} : pc'[v] = pc[v]
    BY <1>2 DEF Restore, schedVars, SchedInv, TypeOK
  <2>2. QED
    BY <2>1, MutexOwn, CurrentPlace DEF MutexPlace
<1>3. QED
  BY <1>1, <1>2

\* Each operation a thread can call keeps MutexInv.
LEMMA UserCallMutex ==
  ASSUME SchedInv, SchedInv', PcOK, MutexInv, NEW t \in Threads, UserCall(t)
  PROVE  MutexInv'
<1> USE DEF schedVars, Calls
<1>0. /\ pc \in [Threads -> PCs] /\ execution_state \in [Threads -> States]
      /\ Current(t) => t = Head(run_queue) /\ cpu = "user"
  BY DEF SchedInv, TypeOK, Current
<1>1. CASE SuspendCurrentThread(t)
  BY <1>0, <1>1, MutexOwn DEF SuspendCurrentThread, MutexPlace
<1>2. CASE StopCurrentThread(t)
  <2>1. /\ UNCHANGED <<mutexVars, pc>> /\ pc[t] = "user"
        /\ cpu' \in {"idle", "resume"}
        /\ \A v \in Threads \ {t} : execution_state'[v] = execution_state[v]
    BY <1>0, <1>2 DEF StopCurrentThread, ThreadNotRunning, Dispatch
  <2>2. QED
    BY <2>1, MutexStill DEF Running
<1>3. CASE YieldCurrentThread(t)
  <2>1. /\ UNCHANGED <<mutexVars, pc>> /\ pc[t] = "user" /\ cpu' = "yield"
        /\ \A v \in Threads \ {t} : execution_state'[v] = execution_state[v]
    BY <1>0, <1>3 DEF YieldCurrentThread
  <2>2. QED
    BY <2>1, MutexStill DEF Running
<1>4. CASE ExitCurrentThread(t)
  BY <1>4, MutexBeginExit DEF ExitCurrentThread, Current
<1>5. CASE BlockThreadEvents(t)
  BY <1>0, <1>5, MutexQuiet DEF BlockThreadEvents
<1>6. CASE UnblockThreadEvents(t)
  BY <1>6, MutexUnblock DEF UnblockThreadEvents
<1>7. CASE HandleCurrentThreadEvents(t)
  BY <1>7, MutexUnblock DEF HandleCurrentThreadEvents
<1>8. CASE AllowEventDelivery(t)
  BY <1>8, MutexQuiet DEF AllowEventDelivery
<1>9. CASE DeregisterAllEvents(t)
  BY <1>0, <1>9, MutexQuiet DEF DeregisterAllEvents
<1>10. CASE Sleep(t)
  BY <1>0, <1>10, MutexOwn DEF Sleep, MutexPlace
<1>11. CASE BlockOnIO(t)
  BY <1>0, <1>11, MutexOwn DEF BlockOnIO, MutexPlace
<1>12. ASSUME NEW state \in {"running", "running_without_preemption"},
              SetPreempt(t, state)
       PROVE  MutexInv'
  <2>1. /\ UNCHANGED <<mutexVars, pc>> /\ pc[t] = "user" /\ cpu' = "user"
        /\ \A v \in Threads \ {t} : execution_state'[v] = execution_state[v]
    BY <1>0, <1>12 DEF SetPreempt
  <2>2. QED
    BY <2>1, MutexStill DEF Running
<1>13. ASSUME NEW u \in Threads, CreateThread(t, u)
       PROVE  MutexInv'
  <2>1. CASE ExitEvent(t, pending_events[t])
    BY <1>13, <2>1, MutexBeginExit DEF CreateThread, ExitEvent, Current
  <2>2. CASE ~ExitEvent(t, pending_events[t])
    <3>1. /\ UNCHANGED <<mutexVars, pc>> /\ cpu' = "user"
          /\ execution_state' = [execution_state EXCEPT ![u] = "running"]
      BY <1>0, <1>13, <2>2 DEF CreateThread
    <3>2. \A v \in Threads : Running(v) => Running(v)'
      BY <1>0, <3>1 DEF Running
    <3>3. QED
      BY <3>1, <3>2, MutexStill
  <2>3. QED
    BY <2>1, <2>2
<1>14. ASSUME NEW u \in Threads, JoinThread(t, u)
       PROVE  MutexInv'
  <2>1. CASE ExitEvent(t, pending_events[t])
    BY <1>14, <2>1, MutexBeginExit DEF JoinThread, ExitEvent, Current
  <2>2. CASE ~ExitEvent(t, pending_events[t])
    <3>1. UNCHANGED <<mutexVars, execution_state, pc>> /\ cpu' = "user"
      BY <1>0, <1>14, <2>2 DEF JoinThread
    <3>2. QED
      BY <3>1, MutexQuiet
  <2>3. QED
    BY <2>1, <2>2
<1>15. ASSUME NEW u \in Threads, DetachThread(t, u)
       PROVE  MutexInv'
  BY <1>0, <1>15, MutexOwn DEF DetachThread, MutexPlace
<1>16. ASSUME NEW u \in Threads, NEW discard \in BOOLEAN,
              NEW e \in {None, "call", "exit"}, RestartThread(t, u, discard, e)
       PROVE  MutexInv'
  <2>1. /\ UNCHANGED <<mutexVars, pc>> /\ cpu' = "user"
        /\ execution_state' = [execution_state EXCEPT ![u] = "running"]
    BY <1>0, <1>16 DEF RestartThread
  <2>2. \A v \in Threads : Running(v) => Running(v)'
    BY <1>0, <2>1 DEF Running
  <2>3. QED
    BY <2>1, <2>2, MutexStill
<1>17. ASSUME NEW e \in {"wake", "call", "exit"}, SelfSignal(t, e)
       PROVE  MutexInv'
  BY <1>0, <1>17, MutexOwn DEF SelfSignal, MutexPlace
<1>18. ASSUME NEW e \in {"wake", "call", "exit"}, NEW u \in Threads,
              SignalEvent(t, u, e)
       PROVE  MutexInv'
  BY <1>18, MutexSignal DEF SignalEvent, Events
<1>19. ASSUME NEW m \in Mutexes, LockFree(t, m)
       PROVE  MutexInv'
  BY <1>19, MutexLockFree
<1>20. ASSUME NEW m \in Mutexes, LockWait(t, m)
       PROVE  MutexInv'
  BY <1>20, MutexLockWait
<1>21. ASSUME NEW m \in Mutexes, UnlockMutex(t, m)
       PROVE  MutexInv'
  <2>1. /\ HandOff(m) /\ owner[m] = t /\ pc[t] = "user" /\ cpu = "user"
        /\ mutexes' = [mutexes EXCEPT ![t] = @ \ {m}]
        /\ UNCHANGED <<cpu, pc, wanted>>
    BY <1>0, <1>21 DEF UnlockMutex
  <2>2. QED
    BY <2>1, MutexHandOff
<1>22. QED
  BY <1>1, <1>2, <1>3, <1>4, <1>5, <1>6, <1>7, <1>8, <1>9, <1>10, <1>11,
     <1>12, <1>13, <1>14, <1>15, <1>16, <1>17, <1>18, <1>19, <1>20, <1>21
     DEF UserCall

\* So does each step inside a call ...
LEMMA UserStepMutex ==
  ASSUME SchedInv, SchedInv', PcOK, MutexInv, NEW t \in Threads, UserStep(t)
  PROVE  MutexInv'
<1> USE DEF schedVars, MutexPlace
<1>0. /\ pc \in [Threads -> PCs]
      /\ Current(t) => t = Head(run_queue) /\ cpu = "user"
  BY DEF SchedInv, TypeOK, Current
<1>1. CASE SelfSignalCount(t)
  BY <1>0, <1>1, MutexOwn DEF SelfSignalCount
<1>2. CASE SelfSignalAdd(t)
  BY <1>0, <1>2, MutexOwn DEF SelfSignalAdd
<1>3. CASE SelfSignalUnblock(t)
  BY <1>3, MutexRestore DEF SelfSignalUnblock
<1>4. CASE SleepRegister(t)
  BY <1>0, <1>4, MutexOwn DEF SleepRegister
<1>5. CASE SleepLoop(t)
  BY <1>0, <1>5, MutexOwn DEF SleepLoop
<1>6. CASE SleepDone(t)
  BY <1>6, MutexRestore DEF SleepDone
<1>7. CASE IOBlock(t)
  BY <1>0, <1>7, MutexOwn DEF IOBlock
<1>8. CASE IOCheck(t)
  BY <1>0, <1>8, MutexOwn DEF IOCheck
<1>9. CASE IOReturn(t)
  BY <1>9, MutexRestore DEF IOReturn
<1>10. CASE IODeregister(t)
  BY <1>0, <1>10, MutexOwn DEF IODeregister
<1>11. QED
  BY <1>1, <1>2, <1>3, <1>4, <1>5, <1>6, <1>7, <1>8, <1>9, <1>10 DEF UserStep

\* ... each masked step ...
LEMMA MaskedStepMutex ==
  ASSUME SchedInv, SchedInv', PcOK, MutexInv, NEW t \in Threads, MaskedStep(t)
  PROVE  MutexInv'
<1> USE DEF schedVars, Masked
<1>0. /\ pc \in [Threads -> PCs] /\ execution_state \in [Threads -> States]
      /\ mutexes \in [Threads -> SUBSET Mutexes]
  BY DEF SchedInv, TypeOK
<1>1. CASE SuspendHandle(t)
  <2>1. CASE ExitEvent(t, pending_events[t])
    BY <1>1, <2>1, MutexBeginExit DEF SuspendHandle, ExitEvent
  <2>2. CASE ~ExitEvent(t, pending_events[t])
    BY <1>1, <2>2, MutexQuiet DEF SuspendHandle, ReturnTo
  <2>3. QED
    BY <2>1, <2>2
<1>2. CASE SuspendWait(t)
  <2>1. /\ cpu = "suspend" /\ t = Head(run_queue) /\ cpu' \in {"idle", "resume"}
        /\ UNCHANGED <<pc, owner, waiting_threads, mutexes, wanted>>
        /\ \A v \in Threads \ {t} : execution_state'[v] = execution_state[v]
    BY <1>0, <1>2 DEF SuspendWait, ThreadNotRunning, Dispatch, mutexVars
  <2>2. pc[t] = "lock" => owner[wanted[t]] # t
    BY <2>1 DEF MutexInv, LockStretch
  <2>3. HandOffOK'
    BY <2>1, <2>2 DEF MutexInv, HandOffOK, Running
  <2>4. MutexOK' /\ LockStretch'
    BY <2>1 DEF MutexInv, MutexOK, LockStretch
  <2>5. QED
    BY <2>3, <2>4 DEF MutexInv
<1>3. CASE ResumeCurrentThread(t)
  <2>1. CASE ExitEvent(t, pending_events[t])
    BY <1>3, <2>1, MutexBeginExit DEF ResumeCurrentThread, ExitEvent
  <2>2. CASE ~ExitEvent(t, pending_events[t])
    <3>1. /\ UNCHANGED <<mutexVars, execution_state, pc>>
          /\ cpu' \in {"user", "lock"}
      BY <1>3, <2>2 DEF ResumeCurrentThread, ReturnTo
    <3>2. QED
      BY <3>1, MutexQuiet
  <2>3. QED
    BY <2>1, <2>2
<1>4. CASE YieldNow(t)
  <2>1. /\ UNCHANGED <<mutexVars, execution_state, pc>>
        /\ cpu' \in {"idle", "resume"}
    BY <1>4 DEF YieldNow, YieldThread, Dispatch
  <2>2. QED
    BY <2>1, MutexQuiet
<1>5. CASE LockLoop(t)
  BY <1>5, MutexLockLoop
<1>6. CASE AllowDone(t)
  <2>1. CASE ExitEvent(t, pending_events[t])
    BY <1>6, <2>1, MutexBeginExit DEF AllowDone, ExitEvent
  <2>2. CASE ~ExitEvent(t, pending_events[t])
    BY <1>6, <2>2, MutexQuiet DEF AllowDone
  <2>3. QED
    BY <2>1, <2>2
<1>7. CASE ExitValue(t)
  <2>1. /\ mutexes[t] = {} /\ t = Head(run_queue) /\ cpu' = "release"
        /\ UNCHANGED <<execution_state, run_queue, pc, owner, waiting_threads,
                       mutexes, wanted>>
    BY <1>7 DEF ExitValue, mutexVars
  <2>2. MutexOK' /\ HandOffOK' /\ LockStretch'
    BY <2>1 DEF MutexInv, MutexOK, HandOffOK, LockStretch, Running
  <2>3. QED
    BY <2>2 DEF MutexInv
<1>8. CASE ExitDone(t)
  <2>1. /\ cpu = "release" /\ t = Head(run_queue) /\ pc[t] = "exiting"
        /\ pc'[t] = "dead" /\ cpu' \in {"idle", "resume"}
        /\ \A v \in Threads \ {t} : /\ pc'[v] = pc[v]
                                    /\ execution_state'[v] = execution_state[v]
        /\ UNCHANGED <<owner, waiting_threads, mutexes, wanted>>
    BY <1>0, <1>8 DEF ExitDone, ThreadNotRunning, Dispatch, mutexVars
  <2>2. mutexes[t] = {}
    BY <2>1 DEF MutexInv, LockStretch
  <2>3. \A m \in Mutexes : ~Contains(waiting_threads[m], t)
    BY <2>2 DEF MutexInv, MutexOK
  <2>4. MutexOK'
    BY <2>1, <2>3 DEF MutexInv, MutexOK
  <2>5. HandOffOK' /\ LockStretch'
    BY <2>1, <2>2 DEF MutexInv, HandOffOK, LockStretch, Running
  <2>6. QED
    BY <2>4, <2>5 DEF MutexInv
<1>9. CASE DetachDone(t)
  BY <1>9, MutexQuiet DEF DetachDone
<1>10. CASE ReleaseJoined(t)
  BY <1>10, MutexSignal DEF ReleaseJoined, Events
<1>11. ASSUME NEW m \in Mutexes, ExitMutex(t, m)
       PROVE  MutexInv'
  <2>1. CASE owner[m] = t
    <3>1. /\ HandOff(m) /\ pc[t] = "exiting" /\ cpu = "exit"
          /\ mutexes' = [mutexes EXCEPT ![t] = @ \ {m}]
          /\ UNCHANGED <<cpu, pc, wanted>>
      BY <1>11, <2>1 DEF ExitMutex, PcOK
    <3>2. QED
      BY <2>1, <3>1, MutexHandOff
  <2>2. CASE owner[m] # t
    BY <1>11, <2>2, MutexLeaveRing
  <2>3. QED
    BY <2>1, <2>2
<1>12. QED
  BY <1>1, <1>2, <1>3, <1>4, <1>5, <1>6, <1>7, <1>8, <1>9, <1>10, <1>11
     DEF MaskedStep

\* ... and the scheduler and the events that arrive from outside.
LEMMA OtherMutex ==
  ASSUME SchedInv, SchedInv', MutexInv,
         \/ System \/ TimerInterrupt \/ SelectReturns
         \/ \E t \in Threads :
              \/ DeliverTimer(t) \/ SignalIO(t)
              \/ \E e \in {"call", "exit"} : IdleSignal(t, e)
  PROVE  MutexInv'
<1>1. CASE System \/ TimerInterrupt \/ SelectReturns
  <2>1. UNCHANGED <<mutexVars, execution_state, pc>>
    BY <1>1 DEF System, TimersDelivered, Preempt, SelectDone, TimerInterrupt,
                SelectReturns, schedVars
  <2>2. cpu' \notin {"suspend", "release"}
    BY <1>1 DEF System, TimersDelivered, Preempt, SelectDone, TimerInterrupt,
                SelectReturns, YieldThread, Dispatch
  <2>3. QED
    BY <2>1, <2>2, MutexQuiet
<1>2. ASSUME NEW t \in Threads, DeliverTimer(t)
      PROVE  MutexInv'
  BY <1>2, MutexSignal DEF DeliverTimer, Events
<1>3. ASSUME NEW t \in Threads, SignalIO(t)
      PROVE  MutexInv'
  BY <1>3, MutexSignal DEF SignalIO, Events
<1>4. ASSUME NEW t \in Threads, NEW e \in {"call", "exit"}, IdleSignal(t, e)
      PROVE  MutexInv'
  <2>1. UNCHANGED <<mutexVars, pc>> /\ cpu' \in {"idle", "resume"}
    BY <1>4 DEF IdleSignal, Dispatch
  <2>2. \A v \in Threads : Running(v) => Running(v)'
    BY <1>4 DEF IdleSignal, schedVars, SchedInv, TypeOK, Running
  <2>3. QED
    BY <2>1, <2>2, MutexStill
<1>5. QED
  BY <1>1, <1>2, <1>3, <1>4

\* MutexInv holds in every reachable state.
LEMMA MutexInvInductive == Spec => []MutexInv
<1>1. Init => MutexInv
  <2>1. ASSUME Init PROVE MutexInv
    <3>1. MutexOK
      BY <2>1, ThreadAssumption DEF Init, MutexOK, NoDuplicates, Contains
    <3>2. HandOffOK /\ LockStretch
      BY <2>1 DEF Init, HandOffOK, LockStretch
    <3>3. QED
      BY <3>1, <3>2 DEF MutexInv
  <2>2. QED
    BY <2>1
<1>2. SchedInv /\ SchedInv' /\ PcOK /\ MutexInv /\ [Next]_vars => MutexInv'
  <2>1. ASSUME SchedInv, SchedInv', PcOK, MutexInv, Next PROVE MutexInv'
    BY <2>1, UserCallMutex, UserStepMutex, MaskedStepMutex, OtherMutex DEF Next
  <2>2. ASSUME MutexInv, UNCHANGED vars PROVE MutexInv'
    BY <2>2, MutexStill DEF vars, schedVars, Running
  <2>3. QED
    BY <2>1, <2>2
<1>3. QED
  BY <1>1, <1>2, SchedInvInductive, PcOKInvariant, PTL DEF Spec

\* Ownership, the waiting rings and the threads' lists of mutexes agree.
THEOREM MutexCorrect == Spec => []MutexOK
BY MutexInvInductive, PTL DEF MutexInv

\* A mutex that has been handed over reaches its new owner.
THEOREM HandOffCorrect == Spec => []HandOffOK
BY MutexInvInductive, PTL DEF MutexInv

(***************************************************************************)
(* The order of arrival.                                                   *)
(***************************************************************************)

\* What a ring may become in one step: an element that was there before is
\* preceded only by elements that preceded it.
OrderKept(s, r) ==
  \A i \in 1..Len(s), k, l \in 1..Len(r) :
    k < l /\ s[i] = r[l] => \E j \in 1..(i - 1) : s[j] = r[k]

\* A ring keeps its order when it does not change, ...
LEMMA OrderSame ==
  ASSUME NEW s \in Seq(Threads), NoDuplicates(s)
  PROVE  OrderKept(s, s)
BY DEF OrderKept, NoDuplicates

\* ... when a new thread enters it at the end, ...
LEMMA OrderAppend ==
  ASSUME NEW s \in Seq(Threads), NEW x \in Threads, NoDuplicates(s),
         ~Contains(s, x)
  PROVE  OrderKept(s, Append(s, x))
<1> DEFINE r == Append(s, x)
<1>1. /\ Len(s) \in Nat /\ Len(r) = Len(s) + 1 /\ r[Len(r)] = x
      /\ \A i \in 1..Len(s) : r[i] = s[i]
  OBVIOUS
<1> HIDE DEF r
<1>2. ASSUME NEW i \in 1..Len(s), NEW k \in 1..Len(r), NEW l \in 1..Len(r),
             k < l, s[i] = r[l]
      PROVE  \E j \in 1..(i - 1) : s[j] = r[k]
  <2>1. l # Len(r)
    BY <1>1, <1>2 DEF Contains
  <2>2. l \in 1..Len(s) /\ r[l] = s[l] /\ k \in 1..Len(s) /\ r[k] = s[k]
    BY <1>1, <1>2, <2>1
  <2>3. i = l
    BY <1>2, <2>2 DEF NoDuplicates
  <2>4. k \in 1..(i - 1)
    BY <1>1, <1>2, <2>2, <2>3
  <2>5. QED
    BY <2>2, <2>4
<1>3. QED
  BY <1>2 DEF OrderKept, r

\* ... when its head leaves, ...
LEMMA OrderTail ==
  ASSUME NEW s \in Seq(Threads), NoDuplicates(s), s # << >>
  PROVE  OrderKept(s, Tail(s))
<1> DEFINE r == Tail(s)
<1>1. /\ Len(s) \in Nat /\ Len(r) = Len(s) - 1
      /\ \A i \in 1..Len(r) : r[i] = s[i + 1]
  OBVIOUS
<1> HIDE DEF r
<1>2. ASSUME NEW i \in 1..Len(s), NEW k \in 1..Len(r), NEW l \in 1..Len(r),
             k < l, s[i] = r[l]
      PROVE  \E j \in 1..(i - 1) : s[j] = r[k]
  <2>1. l + 1 \in 1..Len(s) /\ s[l + 1] = s[i] /\ s[k + 1] = r[k]
    BY <1>1, <1>2
  <2>2. i = l + 1
    BY <2>1 DEF NoDuplicates
  <2>3. k + 1 \in 1..(i - 1)
    BY <1>1, <1>2, <2>2
  <2>4. QED
    BY <2>1, <2>3
<1>3. QED
  BY <1>2 DEF OrderKept, r

\* ... and when ring/remove-item takes a thread out of it.
LEMMA OrderRemove ==
  ASSUME NEW s \in Seq(Threads), NEW x, NoDuplicates(s), Contains(s, x)
  PROVE  OrderKept(s, RemoveItem(s, x))
<1> DEFINE r == RemoveItem(s, x)
<1>1. PICK n \in 1..Len(s) :
        /\ s[n] = x /\ Len(s) \in Nat \ {0}
        /\ Len(r) = Len(s) - 1
        /\ \A j \in 1..Len(r) : r[j] = s[IF j < n THEN j ELSE j + 1]
  BY RemoveItemIndex
<1> HIDE DEF r
<1>2. ASSUME NEW i \in 1..Len(s), NEW k \in 1..Len(r), NEW l \in 1..Len(r),
             k < l, s[i] = r[l]
      PROVE  \E j \in 1..(i - 1) : s[j] = r[k]
  <2> DEFINE a == IF k < n THEN k ELSE k + 1
             b == IF l < n THEN l ELSE l + 1
  <2>1. /\ a \in 1..Len(s) /\ b \in 1..Len(s) /\ a < b
        /\ s[b] = s[i] /\ s[a] = r[k]
    BY <1>1, <1>2
  <2>2. i = b
    BY <2>1 DEF NoDuplicates
  <2>3. a \in 1..(i - 1)
    BY <2>1, <2>2
  <2>4. QED
    BY <2>1, <2>3
<1>3. QED
  BY <1>2 DEF OrderKept, r

\* What one step may do to a mutex.
HandOverOrdered(m) ==
  /\ owner'[m] \notin {owner[m], None} /\ waiting_threads[m] # << >> =>
       owner'[m] = Head(waiting_threads[m])
  /\ OrderKept(waiting_threads[m], waiting_threads'[m])

\* %%unlock-thread-mutex gives the mutex to the head of the ring.
LEMMA HandOffOrdered ==
  ASSUME SchedInv, MutexOK, NEW m \in Mutexes, HandOff(m)
  PROVE  \A n \in Mutexes : HandOverOrdered(n)
<1>1. \A n \in Mutexes : /\ waiting_threads[n] \in Seq(Threads)
                         /\ NoDuplicates(waiting_threads[n])
  BY DEF MutexOK, SchedInv, TypeOK
<1>2. CASE waiting_threads[m] = << >>
  <2>1. /\ owner'[m] = None /\ \A n \in Mutexes \ {m} : owner'[n] = owner[n]
        /\ waiting_threads' = waiting_threads
    BY <1>2 DEF HandOff, SchedInv, TypeOK
  <2>2. QED
    BY <1>1, <2>1, OrderSame DEF HandOverOrdered
<1>3. CASE waiting_threads[m] # << >>
  <2>1. /\ owner'[m] = Head(waiting_threads[m])
        /\ \A n \in Mutexes \ {m} : owner'[n] = owner[n]
        /\ waiting_threads'[m] = Tail(waiting_threads[m])
        /\ \A n \in Mutexes \ {m} : waiting_threads'[n] = waiting_threads[n]
    BY <1>3 DEF HandOff, SchedInv, TypeOK
  <2>2. QED
    BY <1>1, <1>3, <2>1, OrderSame, OrderTail DEF HandOverOrdered
<1>4. QED
  BY <1>2, <1>3

\* Every step keeps the order: the other steps leave the mutexes alone, lock
\* a free one, or enter or leave a ring.
LEMMA StepOrdered ==
  ASSUME SchedInv, PcOK, MutexInv, [Next]_vars
  PROVE  \A m \in Mutexes : HandOverOrdered(m)
<1>0. \A n \in Mutexes : /\ waiting_threads[n] \in Seq(Threads)
                         /\ NoDuplicates(waiting_threads[n])
  BY DEF MutexInv, MutexOK, SchedInv, TypeOK
<1>1. ASSUME UNCHANGED <<owner, waiting_threads>>
      PROVE  \A m \in Mutexes : HandOverOrdered(m)
  BY <1>0, <1>1, OrderSame DEF HandOverOrdered
<1>2. ASSUME NEW t \in Threads, NEW m \in Mutexes, LockFree(t, m)
      PROVE  \A n \in Mutexes : HandOverOrdered(n)
  <2>1. /\ waiting_threads[m] = << >> /\ waiting_threads' = waiting_threads
        /\ \A n \in Mutexes \ {m} : owner'[n] = owner[n]
    BY <1>2 DEF LockFree, MutexInv, MutexOK, SchedInv, TypeOK
  <2>2. QED
    BY <1>0, <2>1, OrderSame DEF HandOverOrdered
<1>3. ASSUME NEW t \in Threads, NEW m \in Mutexes, LockWait(t, m)
      PROVE  \A n \in Mutexes : HandOverOrdered(n)
  <2>1. /\ waiting_threads'[m] = Append(waiting_threads[m], t)
        /\ \A n \in Mutexes \ {m} : waiting_threads'[n] = waiting_threads[n]
        /\ owner' = owner /\ pc[t] = "user"
    BY <1>3 DEF LockWait, Calls, SchedInv, TypeOK
  <2>2. ~Contains(waiting_threads[m], t)
    BY <2>1, NotWaiting DEF MutexInv
  <2>3. QED
    BY <1>0, <2>1, <2>2, OrderSame, OrderAppend DEF HandOverOrdered
<1>4. ASSUME NEW t \in Threads, NEW m \in Mutexes, ExitMutex(t, m)
      PROVE  \A n \in Mutexes : HandOverOrdered(n)
  <2>1. CASE owner[m] = t
    BY <1>4, <2>1, HandOffOrdered DEF ExitMutex, MutexInv
  <2>2. CASE owner[m] # t
    <3>1. /\ waiting_threads'[m] = RemoveItem(waiting_threads[m], t)
          /\ \A n \in Mutexes \ {m} : waiting_threads'[n] = waiting_threads[n]
          /\ owner' = owner /\ m \in mutexes[t]
      BY <1>4, <2>2 DEF ExitMutex, SchedInv, TypeOK
    <3>2. Contains(waiting_threads[m], t)
      BY <2>2, <3>1 DEF MutexInv, MutexOK
    <3>3. QED
      BY <1>0, <3>1, <3>2, OrderSame, OrderRemove DEF HandOverOrdered
  <2>3. QED
    BY <2>1, <2>2
<1>5. ASSUME NEW t \in Threads, NEW m \in Mutexes, UnlockMutex(t, m)
      PROVE  \A n \in Mutexes : HandOverOrdered(n)
  BY <1>5, HandOffOrdered DEF UnlockMutex, MutexInv
<1> USE DEF mutexVars
<1>6. ASSUME NEW t \in Threads, BeginExit(t)
      PROVE  UNCHANGED <<owner, waiting_threads>>
  BY <1>6 DEF BeginExit
<1>7. ASSUME NEW t \in Threads, UserCall(t),
             ~\E m \in Mutexes : LockFree(t, m) \/ LockWait(t, m) \/ UnlockMutex(t, m)
      PROVE  UNCHANGED <<owner, waiting_threads>>
  BY <1>6, <1>7 DEF UserCall, SuspendCurrentThread, StopCurrentThread,
       YieldCurrentThread, ExitCurrentThread, BlockThreadEvents,
       UnblockThreadEvents, HandleCurrentThreadEvents, AllowEventDelivery,
       DeregisterAllEvents, Sleep, BlockOnIO, SetPreempt, CreateThread,
       JoinThread, DetachThread, RestartThread, SelfSignal, SignalEvent,
       Unblock, ExitEvent
<1>8. ASSUME NEW t \in Threads, UserStep(t)
      PROVE  UNCHANGED <<owner, waiting_threads>>
  BY <1>6, <1>8 DEF UserStep, SelfSignalCount, SelfSignalAdd, SelfSignalUnblock,
         SleepRegister, SleepLoop, SleepDone, IOBlock, IOCheck, IOReturn,
         IODeregister, Restore, ExitEvent
<1>9. ASSUME NEW t \in Threads, MaskedStep(t), ~\E m \in Mutexes : ExitMutex(t, m)
      PROVE  UNCHANGED <<owner, waiting_threads>>
  BY <1>6, <1>9 DEF MaskedStep, SuspendHandle, SuspendWait, ResumeCurrentThread,
         YieldNow, LockLoop, AllowDone, ExitValue, ExitDone, DetachDone,
         ReleaseJoined, ExitEvent
<1>10. ASSUME \/ System \/ TimerInterrupt \/ SelectReturns
              \/ \E t \in Threads :
                   \/ DeliverTimer(t) \/ SignalIO(t)
                   \/ \E e \in {"call", "exit"} : IdleSignal(t, e)
              \/ UNCHANGED vars
       PROVE  UNCHANGED <<owner, waiting_threads>>
  BY <1>10 DEF System, TimersDelivered, Preempt, SelectDone, TimerInterrupt,
         SelectReturns, DeliverTimer, SignalIO, IdleSignal, vars
<1>11. QED
  BY <1>1, <1>2, <1>3, <1>4, <1>5, <1>7, <1>8, <1>9, <1>10 DEF Next

\* A mutex passes only to the thread that has waited longest, and nobody
\* overtakes a thread in a ring.
THEOREM MutexesAreFair == Spec => MutexFIFO
<1>1. SchedInv /\ PcOK /\ MutexInv /\ [Next]_vars =>
        [\A m \in Mutexes :
           /\ owner'[m] \notin {owner[m], None} /\ waiting_threads[m] # << >> =>
                owner'[m] = Head(waiting_threads[m])
           /\ \A i \in 1..Len(waiting_threads[m]),
                 k, l \in 1..Len(waiting_threads'[m]) :
                k < l /\ waiting_threads[m][i] = waiting_threads'[m][l] =>
                  \E j \in 1..(i - 1) :
                    waiting_threads[m][j] = waiting_threads'[m][k]]_vars
  BY StepOrdered DEF HandOverOrdered, OrderKept
<1>2. QED
  BY <1>1, SchedInvInductive, PcOKInvariant, MutexInvInductive, PTL
     DEF Spec, MutexFIFO

(***************************************************************************)
(* Joining, detaching and exiting: joined-threads and joined-to mirror     *)
(* each other until the answer is given (JoinOK), and a thread that has    *)
(* exited leaves nothing behind (DeadThreadOK).                            *)
(*                                                                         *)
(* JoinOK speaks of a loop, release-joined-threads, that other steps       *)
(* interrupt; ReleaseOK says whose loop it is and what it still has to do, *)
(* GoneOK what exit-current-thread has already taken away.                 *)
(***************************************************************************)

\* The loop of release-joined-threads runs for one thread, whose exit value
\* is known; in exit-current-thread it is the exiting thread.
ReleaseOK ==
  /\ cpu # "release" => release_thread = None /\ release_list = {}
  /\ cpu = "release" =>
       /\ release_thread \in Threads
       /\ exit_value[release_thread] # "none"
       /\ release_list \subseteq joined_threads[release_thread]
       /\ pc[Head(run_queue)] = "exiting" => release_thread = Head(run_queue)

\* A thread that exits is joined to no thread and awaits no event; when it is
\* dead its value is recorded and no thread is joined to it any more.
GoneOK ==
  \A t \in Threads :
    /\ pc[t] \in {"exiting", "dead"} =>
         /\ joined_to[t] = {}
         /\ t \notin timer_records \cup io_registrations
    /\ pc[t] = "dead" =>
         exit_value[t] # "none" /\ \A u \in Threads : t \notin joined_to[u]

\* The inductive invariant of joining, above SchedInv and PcOK.
JoinInv == JoinOK /\ ReleaseOK /\ GoneOK

\* A step that leaves the joins alone, makes no thread exit, registers no
\* event of a thread that has exited, and stays in or outside the loop.
LEMMA JoinStill ==
  ASSUME JoinInv, UNCHANGED <<joinVars, releaseVars>>,
         \A v \in Threads : pc'[v] \in {"exiting", "dead"} =>
           /\ pc[v] = pc'[v]
           /\ v \in timer_records' \cup io_registrations' =>
                v \in timer_records \cup io_registrations,
         \/ cpu # "release" /\ cpu' # "release"
         \/ /\ cpu = "release" /\ cpu' = "release" /\ pc' = pc
            /\ Head(run_queue') = Head(run_queue)
  PROVE  JoinInv'
<1> USE DEF joinVars, releaseVars
<1>1. JoinOK'
  BY DEF JoinInv, JoinOK
<1>2. ReleaseOK'
  BY DEF JoinInv, ReleaseOK
<1>3. GoneOK'
  BY DEF JoinInv, GoneOK
<1>4. QED
  BY <1>1, <1>2, <1>3 DEF JoinInv

\* The variables the invariant reads, apart from those of the joins.
goneVars == <<pc, timer_records, io_registrations>>

\* In particular a step that moves no thread and registers no event.
LEMMA JoinQuiet ==
  ASSUME JoinInv, UNCHANGED <<joinVars, releaseVars, goneVars>>,
         cpu # "release", cpu' # "release"
  PROVE  JoinInv'
BY JoinStill DEF goneVars

\* A step of the first thread inside its own code.
LEMMA JoinOwn ==
  ASSUME SchedInv, JoinInv, NEW t \in Threads,
         UNCHANGED <<joinVars, releaseVars>>,
         pc'[t] \notin {"exiting", "dead"},
         \A v \in Threads \ {t} :
           /\ pc'[v] = pc[v]
           /\ v \in timer_records' => v \in timer_records
           /\ v \in io_registrations' => v \in io_registrations,
         cpu # "release", cpu' # "release"
  PROVE  JoinInv'
<1>1. ASSUME NEW v \in Threads, pc'[v] \in {"exiting", "dead"}
      PROVE  /\ pc[v] = pc'[v]
             /\ v \in timer_records' \cup io_registrations' =>
                  v \in timer_records \cup io_registrations
  BY <1>1
<1>2. QED
  BY <1>1, JoinStill

\* %signal-thread-event registers no event and moves no thread.
LEMMA JoinSignal ==
  ASSUME SchedInv, SchedInv', JoinInv, NEW u \in Threads, NEW e \in Events,
         SignalThreadEvent(u, e), UNCHANGED <<joinVars, releaseVars, cpu, pc>>,
         timer_records' \subseteq timer_records,
         io_registrations' \subseteq io_registrations
  PROVE  JoinInv'
<1>1. cpu = "release" => Head(run_queue') = Head(run_queue)
  BY SignalEffect DEF SchedInv, ContinuationOK
<1>2. QED
  BY <1>1, JoinStill

\* exit-current-thread: %disassociate-joined-threads takes the thread out of
\* the list of every thread it is joined to.
LEMMA JoinBeginExit ==
  ASSUME SchedInv, PcOK, JoinInv, NEW t \in Threads, BeginExit(t),
         run_queue # << >>, t = Head(run_queue), cpu # "release"
  PROVE  JoinInv'
<1>1. /\ pc'[t] = "exiting" /\ \A v \in Threads \ {t} : pc'[v] = pc[v]
      /\ joined_to'[t] = {} /\ \A v \in Threads \ {t} : joined_to'[v] = joined_to[v]
      /\ \A u \in Threads : joined_threads'[u] =
           IF u \in joined_to[t] THEN joined_threads[u] \ {t}
           ELSE joined_threads[u]
      /\ timer_records' = timer_records \ {t}
      /\ io_registrations' = io_registrations \ {t}
      /\ cpu' = "exit" /\ UNCHANGED <<exit_value, release_thread, release_list>>
  BY DEF BeginExit, releaseVars, SchedInv, TypeOK
<1>2. release_thread = None /\ release_list = {}
  BY DEF JoinInv, ReleaseOK
<1>3. execution_state[t] # "dead"
  BY HeadRuns DEF Running
<1>4. JoinOK'
  <2>1. ASSUME NEW v \in Threads, NEW u \in Threads
        PROVE  /\ u \in joined_to'[v] => /\ v \in joined_threads'[u]
                                         /\ exit_value[u] = "none"
               /\ v \in joined_threads'[u] /\ exit_value[u] = "none" =>
                    u \in joined_to'[v]
    <3>1. /\ u \in joined_to[v] => /\ v \in joined_threads[u]
                                   /\ exit_value[u] = "none"
          /\ v \in joined_threads[u] /\ exit_value[u] = "none" =>
               u \in joined_to[v]
      BY <1>2 DEF JoinInv, JoinOK
    <3>2. CASE v = t
      BY <1>1, <3>1, <3>2
    <3>3. CASE v # t
      BY <1>1, <3>1, <3>3
    <3>4. QED
      BY <3>2, <3>3
  <2>2. QED
    BY <1>1, <2>1 DEF JoinOK
<1>5. ReleaseOK'
  BY <1>1, <1>2 DEF ReleaseOK
<1>6. GoneOK'
  <2>1. ASSUME NEW v \in Threads
        PROVE  /\ pc'[v] \in {"exiting", "dead"} =>
                    /\ joined_to'[v] = {}
                    /\ v \notin timer_records' \cup io_registrations'
               /\ pc'[v] = "dead" => /\ exit_value'[v] # "none"
                                     /\ \A u \in Threads : v \notin joined_to'[u]
    <3>1. CASE v = t
      BY <1>1, <3>1
    <3>2. CASE v # t
      BY <1>1, <3>2 DEF JoinInv, GoneOK
    <3>3. QED
      BY <3>1, <3>2
  <2>2. QED
    BY <2>1 DEF GoneOK
<1>7. QED
  BY <1>4, <1>5, <1>6 DEF JoinInv

\* join-thread of a thread that has no value yet.
LEMMA JoinJoins ==
  ASSUME SchedInv, PcOK, JoinInv, NEW t \in Threads, NEW u \in Threads,
         Current(t), exit_value[u] = "none",
         joined_threads' = [joined_threads EXCEPT ![u] = @ \cup {t}],
         joined_to' = [joined_to EXCEPT ![t] = @ \cup {u}],
         UNCHANGED <<cpu, exit_value, releaseVars, goneVars>>
  PROVE  JoinInv'
<1>1. /\ joined_threads'[u] = joined_threads[u] \cup {t}
      /\ \A v \in Threads \ {u} : joined_threads'[v] = joined_threads[v]
      /\ joined_to'[t] = joined_to[t] \cup {u}
      /\ \A v \in Threads \ {t} : joined_to'[v] = joined_to[v]
      /\ cpu = "user" /\ cpu' = "user"
  BY DEF Current, SchedInv, TypeOK
<1>2. pc[t] \notin {"exiting", "dead"} /\ pc[u] # "dead"
  BY CurrentPlace DEF JoinInv, GoneOK
<1>3. JoinOK'
  BY <1>1 DEF JoinInv, JoinOK, releaseVars
<1>4. ReleaseOK'
  BY <1>1 DEF JoinInv, ReleaseOK, releaseVars
<1>5. GoneOK'
  <2>1. ASSUME NEW v \in Threads, pc[v] \in {"exiting", "dead"}
        PROVE  joined_to'[v] = {}
    BY <1>1, <1>2, <2>1 DEF JoinInv, GoneOK
  <2>2. ASSUME NEW v \in Threads, pc[v] = "dead", NEW w \in Threads
        PROVE  v \notin joined_to'[w]
    BY <1>1, <1>2, <2>2 DEF JoinInv, GoneOK
  <2>3. QED
    BY <2>1, <2>2 DEF JoinInv, GoneOK, goneVars
<1>6. QED
  BY <1>3, <1>4, <1>5 DEF JoinInv

\* The value of a thread becomes known, and the loop starts: in
\* exit-current-thread and in detach-thread.
LEMMA JoinAnswer ==
  ASSUME SchedInv, PcOK, JoinInv, NEW u \in Threads, cpu # "release",
         cpu' = "release", release_thread' = u,
         exit_value'[u] # "none",
         \A v \in Threads \ {u} : exit_value'[v] = exit_value[v],
         release_list' \subseteq joined_threads[u],
         exit_value[u] = "none" => release_list' = joined_threads[u],
         pc[Head(run_queue)] = "exiting" => u = Head(run_queue),
         UNCHANGED <<run_queue, joined_threads, joined_to, goneVars>>
  PROVE  JoinInv'
<1>1. release_thread = None /\ release_list = {} /\ None \notin Threads
  BY ThreadAssumption DEF JoinInv, ReleaseOK
<1>2. JoinOK'
  <2>1. ASSUME NEW v \in Threads, NEW w \in Threads, w \in joined_to[v]
        PROVE  /\ v \in joined_threads[w]
               /\ \/ exit_value'[w] = "none"
                  \/ release_thread' = w /\ v \in release_list'
    BY <1>1, <2>1 DEF JoinInv, JoinOK
  <2>2. ASSUME NEW v \in Threads, NEW w \in Threads, v \in joined_threads[w],
               exit_value'[w] = "none"
        PROVE  w \in joined_to[v]
    BY <2>2 DEF JoinInv, JoinOK
  <2>3. QED
    BY <2>1, <2>2 DEF JoinOK
<1>3. ReleaseOK'
  BY <1>1 DEF JoinInv, ReleaseOK, goneVars
<1>4. GoneOK'
  BY DEF JoinInv, GoneOK, goneVars
<1>5. QED
  BY <1>2, <1>3, <1>4 DEF JoinInv

\* One round of release-joined-threads.
LEMMA JoinRelease ==
  ASSUME SchedInv, SchedInv', PcOK, JoinInv, NEW j \in Threads, ReleaseJoined(j)
  PROVE  JoinInv'
<1>1. /\ cpu = "release" /\ cpu' = "release" /\ j \in release_list
      /\ joined_to'[j] = joined_to[j] \ {release_thread}
      /\ \A v \in Threads \ {j} : joined_to'[v] = joined_to[v]
      /\ release_list' = release_list \ {j}
      /\ UNCHANGED <<joined_threads, exit_value, release_thread, goneVars>>
  BY DEF ReleaseJoined, SchedInv, TypeOK, goneVars, timerVars, ioVars
<1>2. Head(run_queue') = Head(run_queue)
  BY <1>1, SignalEffect DEF ReleaseJoined, Events, SchedInv, ContinuationOK
<1>3. release_thread \in Threads /\ exit_value[release_thread] # "none"
  BY <1>1 DEF JoinInv, ReleaseOK
<1>4. JoinOK'
  <2>1. ASSUME NEW v \in Threads, NEW w \in Threads
        PROVE  /\ w \in joined_to'[v] =>
                    /\ v \in joined_threads[w]
                    /\ \/ exit_value[w] = "none"
                       \/ release_thread = w /\ v \in release_list'
               /\ v \in joined_threads[w] /\ exit_value[w] = "none" =>
                    w \in joined_to'[v]
    <3>1. /\ w \in joined_to[v] =>
               /\ v \in joined_threads[w]
               /\ \/ exit_value[w] = "none"
                  \/ release_thread = w /\ v \in release_list
          /\ v \in joined_threads[w] /\ exit_value[w] = "none" =>
               w \in joined_to[v]
      BY DEF JoinInv, JoinOK
    <3>2. CASE v = j
      BY <1>1, <1>3, <3>1, <3>2
    <3>3. CASE v # j
      BY <1>1, <3>1, <3>3
    <3>4. QED
      BY <3>2, <3>3
  <2>2. QED
    BY <1>1, <2>1 DEF JoinOK
<1>5. ReleaseOK'
  BY <1>1, <1>2 DEF JoinInv, ReleaseOK, goneVars
<1>6. GoneOK'
  <2>1. \A v \in Threads : joined_to'[v] \subseteq joined_to[v]
    BY <1>1
  <2>2. QED
    BY <1>1, <2>1 DEF JoinInv, GoneOK, goneVars
<1>7. QED
  BY <1>4, <1>5, <1>6 DEF JoinInv

\* The end of exit-current-thread: every thread joined to this one has been
\* answered.
LEMMA JoinExitDone ==
  ASSUME SchedInv, PcOK, JoinInv, NEW t \in Threads, ExitDone(t)
  PROVE  JoinInv'
<1>1. /\ cpu = "release" /\ t = Head(run_queue) /\ pc[t] = "exiting"
      /\ release_list = {} /\ release_list' = {} /\ release_thread' = None
      /\ cpu' \in {"idle", "resume"}
      /\ pc'[t] = "dead" /\ \A v \in Threads \ {t} : pc'[v] = pc[v]
      /\ UNCHANGED <<joined_threads, joined_to, exit_value, timer_records,
                     io_registrations>>
  BY DEF ExitDone, Masked, ThreadNotRunning, Dispatch, joinVars, timerVars,
         ioVars, SchedInv, TypeOK
<1>2. exit_value[t] # "none"
  BY <1>1 DEF JoinInv, ReleaseOK
<1>3. \A v \in Threads, u \in Threads : u \in joined_to[v] => exit_value[u] = "none"
  BY <1>1 DEF JoinInv, JoinOK
<1>4. JoinOK'
  BY <1>1, <1>3 DEF JoinInv, JoinOK
<1>5. ReleaseOK'
  BY <1>1 DEF ReleaseOK
<1>6. GoneOK'
  BY <1>1, <1>2, <1>3 DEF JoinInv, GoneOK
<1>7. QED
  BY <1>4, <1>5, <1>6 DEF JoinInv

\* The end of detach-thread.
LEMMA JoinDetachDone ==
  ASSUME SchedInv, PcOK, JoinInv, NEW t \in Threads, DetachDone(t)
  PROVE  JoinInv'
<1>1. /\ release_list = {} /\ release_list' = {} /\ release_thread' = None
      /\ cpu' = "user"
      /\ UNCHANGED <<joined_threads, joined_to, exit_value, goneVars>>
  BY DEF DetachDone, joinVars, timerVars, ioVars, goneVars
<1>2. JoinOK'
  BY <1>1 DEF JoinInv, JoinOK
<1>3. ReleaseOK'
  BY <1>1 DEF ReleaseOK
<1>4. GoneOK'
  BY <1>1 DEF JoinInv, GoneOK, goneVars
<1>5. QED
  BY <1>2, <1>3, <1>4 DEF JoinInv

\* Handling the events of the first thread.
LEMMA JoinUnblock ==
  ASSUME SchedInv, PcOK, JoinInv, NEW t \in Threads, Unblock(t), Current(t)
  PROVE  JoinInv'
<1>1. CASE ExitEvent(t, pending_events[t])
  BY <1>1, JoinBeginExit DEF ExitEvent, Current
<1>2. CASE ~ExitEvent(t, pending_events[t])
  BY <1>2, JoinQuiet DEF Unblock, Current, goneVars
<1>3. QED
  BY <1>1, <1>2

\* The end of a call.
LEMMA JoinRestore ==
  ASSUME SchedInv, PcOK, JoinInv, NEW t \in Threads,
         NEW next \in {"user", "io_deregister"}, Restore(t, next), Current(t)
  PROVE  JoinInv'
<1>1. CASE ExitEvent(t, pending_events[t])
  BY <1>1, JoinBeginExit DEF ExitEvent, Current
<1>2. CASE ~ExitEvent(t, pending_events[t])
  <2>1. /\ UNCHANGED <<joinVars, releaseVars, cpu, timer_records, io_registrations>>
        /\ pc'[t] = next /\ \A v \in Threads \ {t} : pc'[v] = pc[v]
    BY <1>2 DEF Restore, SchedInv, TypeOK
  <2>2. QED
    BY <2>1, JoinOwn DEF Current
<1>3. QED
  BY <1>1, <1>2

\* Each operation a thread can call keeps JoinInv.
LEMMA UserCallJoin ==
  ASSUME SchedInv, SchedInv', PcOK, JoinInv, NEW t \in Threads, UserCall(t)
  PROVE  JoinInv'
<1> USE DEF Calls, goneVars, timerVars, ioVars
<1>0. /\ pc \in [Threads -> PCs]
      /\ Current(t) => t = Head(run_queue) /\ cpu = "user" /\ run_queue # << >>
  BY DEF SchedInv, TypeOK, Current
<1>1. CASE SuspendCurrentThread(t)
  BY <1>0, <1>1, JoinQuiet DEF SuspendCurrentThread, EnterSuspend
<1>2. CASE StopCurrentThread(t)
  BY <1>0, <1>2, JoinQuiet DEF StopCurrentThread, ThreadNotRunning, Dispatch
<1>3. CASE YieldCurrentThread(t)
  BY <1>0, <1>3, JoinQuiet DEF YieldCurrentThread
<1>4. CASE ExitCurrentThread(t)
  BY <1>0, <1>4, JoinBeginExit DEF ExitCurrentThread
<1>5. CASE BlockThreadEvents(t)
  BY <1>0, <1>5, JoinQuiet DEF BlockThreadEvents
<1>6. CASE UnblockThreadEvents(t)
  BY <1>6, JoinUnblock DEF UnblockThreadEvents
<1>7. CASE HandleCurrentThreadEvents(t)
  BY <1>7, JoinUnblock DEF HandleCurrentThreadEvents
<1>8. CASE AllowEventDelivery(t)
  BY <1>0, <1>8, JoinQuiet DEF AllowEventDelivery
<1>9. CASE DeregisterAllEvents(t)
  BY <1>0, <1>9, JoinOwn DEF DeregisterAllEvents
<1>10. CASE Sleep(t)
  BY <1>0, <1>10, JoinOwn DEF Sleep
<1>11. CASE BlockOnIO(t)
  BY <1>0, <1>11, JoinOwn DEF BlockOnIO
<1>12. ASSUME NEW state \in {"running", "running_without_preemption"},
              SetPreempt(t, state)
       PROVE  JoinInv'
  BY <1>0, <1>12, JoinQuiet DEF SetPreempt
<1>13. ASSUME NEW u \in Threads, CreateThread(t, u)
       PROVE  JoinInv'
  <2>1. CASE ExitEvent(t, pending_events[t])
    BY <1>0, <1>13, <2>1, JoinBeginExit DEF CreateThread, ExitEvent
  <2>2. CASE ~ExitEvent(t, pending_events[t])
    BY <1>0, <1>13, <2>2, JoinQuiet DEF CreateThread
  <2>3. QED
    BY <2>1, <2>2
<1>14. ASSUME NEW u \in Threads, JoinThread(t, u)
       PROVE  JoinInv'
  <2>1. Current(t)
    BY <1>14 DEF JoinThread
  <2>2. CASE exit_value[u] = "none"
    BY <1>14, <2>1, <2>2, JoinJoins DEF JoinThread
  <2>3. CASE exit_value[u] # "none" /\ ExitEvent(t, pending_events[t])
    BY <1>0, <2>1, <2>3, JoinBeginExit DEF ExitEvent
  <2>4. CASE exit_value[u] # "none" /\ ~ExitEvent(t, pending_events[t])
    <3>1. UNCHANGED <<joinVars, releaseVars, goneVars, cpu>>
      BY <1>14, <2>4 DEF JoinThread
    <3>2. QED
      BY <1>0, <2>1, <3>1, JoinQuiet
  <2>5. QED
    BY <2>2, <2>3, <2>4
<1>15. ASSUME NEW u \in Threads, DetachThread(t, u)
       PROVE  JoinInv'
  <2>1. /\ cpu = "user" /\ cpu' = "release" /\ release_thread' = u
        /\ exit_value'[u] # "none"
        /\ \A v \in Threads \ {u} : exit_value'[v] = exit_value[v]
        /\ release_list' = joined_threads[u]
        /\ pc[Head(run_queue)] # "exiting"
        /\ UNCHANGED <<run_queue, joined_threads, joined_to, goneVars>>
    BY <1>0, <1>15 DEF DetachThread, schedVars, SchedInv, TypeOK
  <2>2. QED
    BY <2>1, JoinAnswer
<1>16. ASSUME NEW u \in Threads, NEW discard \in BOOLEAN,
              NEW e \in {None, "call", "exit"}, RestartThread(t, u, discard, e)
       PROVE  JoinInv'
  BY <1>0, <1>16, JoinQuiet DEF RestartThread
<1>17. ASSUME NEW e \in {"wake", "call", "exit"}, SelfSignal(t, e)
       PROVE  JoinInv'
  BY <1>0, <1>17, JoinOwn DEF SelfSignal
<1>18. ASSUME NEW e \in {"wake", "call", "exit"}, NEW u \in Threads,
              SignalEvent(t, u, e)
       PROVE  JoinInv'
  BY <1>18, JoinSignal DEF SignalEvent, Events
<1>19. ASSUME NEW m \in Mutexes, LockFree(t, m)
       PROVE  JoinInv'
  BY <1>0, <1>19, JoinQuiet DEF LockFree
<1>20. ASSUME NEW m \in Mutexes, LockWait(t, m)
       PROVE  JoinInv'
  BY <1>0, <1>20, JoinOwn DEF LockWait, EnterSuspend
<1>21. ASSUME NEW m \in Mutexes, UnlockMutex(t, m)
       PROVE  JoinInv'
  BY <1>0, <1>21, JoinQuiet DEF UnlockMutex
<1>22. QED
  BY <1>1, <1>2, <1>3, <1>4, <1>5, <1>6, <1>7, <1>8, <1>9, <1>10, <1>11,
     <1>12, <1>13, <1>14, <1>15, <1>16, <1>17, <1>18, <1>19, <1>20, <1>21
     DEF UserCall

\* So does each step inside a call: only a thread that executes its own code
\* registers an event.
LEMMA UserStepJoin ==
  ASSUME SchedInv, SchedInv', PcOK, JoinInv, NEW t \in Threads, UserStep(t)
  PROVE  JoinInv'
<1> USE DEF timerVars, ioVars
<1>0. /\ pc \in [Threads -> PCs]
      /\ Current(t) => t = Head(run_queue) /\ cpu = "user" /\ run_queue # << >>
  BY DEF SchedInv, TypeOK, Current
<1>1. CASE SelfSignalCount(t)
  BY <1>0, <1>1, JoinOwn DEF SelfSignalCount
<1>2. CASE SelfSignalAdd(t)
  BY <1>0, <1>2, JoinOwn DEF SelfSignalAdd
<1>3. CASE SelfSignalUnblock(t)
  BY <1>3, JoinRestore DEF SelfSignalUnblock
<1>4. CASE SleepRegister(t)
  BY <1>0, <1>4, JoinOwn DEF SleepRegister
<1>5. CASE SleepLoop(t)
  BY <1>0, <1>5, JoinOwn DEF SleepLoop, EnterSuspend
<1>6. CASE SleepDone(t)
  BY <1>6, JoinRestore DEF SleepDone
<1>7. CASE IOBlock(t)
  BY <1>0, <1>7, JoinOwn DEF IOBlock
<1>8. CASE IOCheck(t)
  BY <1>0, <1>8, JoinOwn DEF IOCheck, EnterSuspend
<1>9. CASE IOReturn(t)
  BY <1>9, JoinRestore DEF IOReturn
<1>10. CASE IODeregister(t)
  BY <1>0, <1>10, JoinOwn DEF IODeregister
<1>11. QED
  BY <1>1, <1>2, <1>3, <1>4, <1>5, <1>6, <1>7, <1>8, <1>9, <1>10 DEF UserStep

\* ... each masked step ...
LEMMA MaskedStepJoin ==
  ASSUME SchedInv, SchedInv', PcOK, JoinInv, NEW t \in Threads, MaskedStep(t)
  PROVE  JoinInv'
<1> USE DEF Masked, goneVars, timerVars, ioVars
<1>0. pc \in [Threads -> PCs]
  BY DEF SchedInv, TypeOK
<1>1. CASE SuspendHandle(t)
  <2>1. CASE ExitEvent(t, pending_events[t])
    BY <1>1, <2>1, JoinBeginExit DEF SuspendHandle, ExitEvent
  <2>2. CASE ~ExitEvent(t, pending_events[t])
    BY <1>1, <2>2, JoinQuiet DEF SuspendHandle, ReturnTo
  <2>3. QED
    BY <2>1, <2>2
<1>2. CASE SuspendWait(t)
  BY <1>2, JoinQuiet DEF SuspendWait, ThreadNotRunning, Dispatch
<1>3. CASE ResumeCurrentThread(t)
  <2>1. CASE ExitEvent(t, pending_events[t])
    BY <1>3, <2>1, JoinBeginExit DEF ResumeCurrentThread, ExitEvent
  <2>2. CASE ~ExitEvent(t, pending_events[t])
    <3>1. /\ UNCHANGED <<joinVars, releaseVars, goneVars>>
          /\ cpu = "resume" /\ cpu' \in {"user", "lock"}
      BY <1>3, <2>2 DEF ResumeCurrentThread, ReturnTo
    <3>2. QED
      BY <3>1, JoinQuiet
  <2>3. QED
    BY <2>1, <2>2
<1>4. CASE YieldNow(t)
  BY <1>4, JoinQuiet DEF YieldNow, YieldThread, Dispatch
<1>5. CASE LockLoop(t)
  <2>1. /\ pc'[t] \notin {"exiting", "dead"}
        /\ \A v \in Threads \ {t} : pc'[v] = pc[v]
        /\ UNCHANGED <<joinVars, releaseVars, timer_records, io_registrations>>
        /\ cpu = "lock" /\ cpu' # "release"
    BY <1>0, <1>5 DEF LockLoop, EnterSuspend, PcOK
  <2>2. QED
    BY <2>1, JoinOwn
<1>6. CASE AllowDone(t)
  <2>1. CASE ExitEvent(t, pending_events[t])
    BY <1>6, <2>1, JoinBeginExit DEF AllowDone, ExitEvent
  <2>2. CASE ~ExitEvent(t, pending_events[t])
    BY <1>6, <2>2, JoinQuiet DEF AllowDone
  <2>3. QED
    BY <2>1, <2>2
<1>7. CASE ExitValue(t)
  <2>1. /\ cpu = "exit" /\ cpu' = "release" /\ release_thread' = t
        /\ t = Head(run_queue)
        /\ UNCHANGED <<run_queue, joined_threads, joined_to, goneVars>>
    BY <1>7 DEF ExitValue, schedVars
  <2>2. release_list = {}
    BY <2>1 DEF JoinInv, ReleaseOK
  <2>3. /\ exit_value'[t] # "none"
        /\ \A v \in Threads \ {t} : exit_value'[v] = exit_value[v]
        /\ release_list' \subseteq joined_threads[t]
        /\ exit_value[t] = "none" => release_list' = joined_threads[t]
    BY <1>7, <2>2 DEF ExitValue, SchedInv, TypeOK
  <2>4. QED
    BY <2>1, <2>3, JoinAnswer
<1>8. CASE ExitDone(t)
  BY <1>8, JoinExitDone
<1>9. CASE DetachDone(t)
  BY <1>9, JoinDetachDone
<1>10. CASE ReleaseJoined(t)
  BY <1>10, JoinRelease
<1>11. ASSUME NEW m \in Mutexes, ExitMutex(t, m)
       PROVE  JoinInv'
  BY <1>11, JoinQuiet DEF ExitMutex
<1>12. QED
  BY <1>1, <1>2, <1>3, <1>4, <1>5, <1>6, <1>7, <1>8, <1>9, <1>10, <1>11
     DEF MaskedStep

\* ... and the scheduler and the events that arrive from outside.
LEMMA OtherJoin ==
  ASSUME SchedInv, SchedInv', JoinInv,
         \/ System \/ TimerInterrupt \/ SelectReturns
         \/ \E t \in Threads :
              \/ DeliverTimer(t) \/ SignalIO(t)
              \/ \E e \in {"call", "exit"} : IdleSignal(t, e)
  PROVE  JoinInv'
<1> USE DEF goneVars, timerVars, ioVars
<1>1. CASE System \/ TimerInterrupt \/ SelectReturns
  <2>1. UNCHANGED <<joinVars, releaseVars, goneVars>>
    BY <1>1 DEF System, TimersDelivered, Preempt, SelectDone, TimerInterrupt,
                SelectReturns
  <2>2. cpu # "release" /\ cpu' # "release"
    BY <1>1 DEF System, TimersDelivered, Preempt, SelectDone, TimerInterrupt,
                SelectReturns, YieldThread, Dispatch
  <2>3. QED
    BY <2>1, <2>2, JoinQuiet
<1>2. ASSUME NEW t \in Threads, DeliverTimer(t)
      PROVE  JoinInv'
  BY <1>2, JoinSignal DEF DeliverTimer, Events
<1>3. ASSUME NEW t \in Threads, SignalIO(t)
      PROVE  JoinInv'
  BY <1>3, JoinSignal DEF SignalIO, Events
<1>4. ASSUME NEW t \in Threads, NEW e \in {"call", "exit"}, IdleSignal(t, e)
      PROVE  JoinInv'
  BY <1>4, JoinQuiet DEF IdleSignal, Dispatch
<1>5. QED
  BY <1>1, <1>2, <1>3, <1>4

\* JoinInv holds in every reachable state.
LEMMA JoinInvInductive == Spec => []JoinInv
<1>1. Init => JoinInv
  BY DEF Init, JoinInv, JoinOK, ReleaseOK, GoneOK
<1>2. SchedInv /\ SchedInv' /\ PcOK /\ JoinInv /\ [Next]_vars => JoinInv'
  <2>1. ASSUME SchedInv, SchedInv', PcOK, JoinInv, Next PROVE JoinInv'
    BY <2>1, UserCallJoin, UserStepJoin, MaskedStepJoin, OtherJoin DEF Next
  <2>2. ASSUME JoinInv, UNCHANGED vars PROVE JoinInv'
    BY <2>2, JoinStill DEF vars, schedVars, timerVars, ioVars
  <2>3. QED
    BY <2>1, <2>2
<1>3. QED
  BY <1>1, <1>2, SchedInvInductive, PcOKInvariant, PTL DEF Spec

\* joined-threads and joined-to mirror each other until every joined thread
\* has been notified.
THEOREM JoinCorrect == Spec => []JoinOK
BY JoinInvInductive, PTL DEF JoinInv

\* exit-current-thread leaves nothing behind.
THEOREM DeadThreadCorrect == Spec => []DeadThreadOK
<1>1. PcOK /\ MutexInv /\ JoinInv => DeadThreadOK
  <2>1. ASSUME PcOK, MutexInv, JoinInv, NEW t \in Threads,
               execution_state[t] = "dead"
        PROVE  /\ mutexes[t] = {}
               /\ t \notin timer_records \cup io_registrations
               /\ exit_value[t] # "none"
               /\ joined_to[t] = {}
               /\ \A u \in Threads : t \notin joined_to[u]
    BY <2>1 DEF PcOK, MutexInv, LockStretch, JoinInv, GoneOK
  <2>2. ASSUME JoinInv, NEW t \in Threads, NEW u \in Threads,
               exit_value[u] = "none", t \in joined_threads[u]
        PROVE  joined_to[t] # {}
    BY <2>2 DEF JoinInv, JoinOK
  <2>3. QED
    BY <2>1, <2>2 DEF DeadThreadOK
<1>2. QED
  BY <1>1, PcOKInvariant, MutexInvInductive, JoinInvInductive, PTL
===============================================================================
