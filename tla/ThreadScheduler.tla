--------------------------- MODULE ThreadScheduler ---------------------------
(***************************************************************************)
(* The thread system of src/src/runtime/thread.scm: one processor, a run   *)
(* queue of threads, asynchronous events delivered to threads, mutexes,    *)
(* joining and detaching, sleeping, and blocking on I/O.                   *)
(*                                                                         *)
(* Scheme code is preempted only where interrupts are enabled, so the      *)
(* processor is a variable, cpu.  In "user" the first thread of the run    *)
(* queue executes Scheme code with interrupts enabled, in "idle" no thread *)
(* can run and wait-for-io blocks in select.  Every other value is a       *)
(* stretch of the scheduler that runs with interrupts masked: then only    *)
(* the continuation of that stretch is enabled.                            *)
(*                                                                         *)
(* Abstractions.  The run queue and the rings of thread-low.scm are        *)
(* sequences; a closure signalled as an event is one of the kinds in       *)
(* Events; a timer record is due, and a registered descriptor ready, at    *)
(* any time.  The lists a thread keeps of its mutexes and of the threads   *)
(* it is joined with are sets: they are only searched and walked.          *)
(***************************************************************************)
EXTENDS Naturals, Sequences

CONSTANTS
  Threads,        \* every thread that is ever created
  InitialThread,  \* the thread made by initialize-low!
  Mutexes,
  None,           \* #f where a thread or a mutex is expected
  Ops,            \* the operations the threads of this instance call
  MaxPending      \* bound: longest event queue a user signal may extend

AllOps == {"create", "suspend", "stop", "yield", "preempt", "exit", "join",
           "detach", "block", "signal", "self_signal", "lock", "sleep", "io",
           "deliver", "deregister", "console", "gc"}

ASSUME ThreadAssumption ==
  /\ InitialThread \in Threads
  /\ None \notin Threads
  /\ None \notin Mutexes
  /\ Ops \subseteq AllOps
  /\ MaxPending \in Nat

VARIABLES
  execution_state,  \* thread/execution-state, "unborn" before make-thread
  run_queue,        \* first-running-thread ... last-running-thread
  continuation,     \* TRUE when thread/continuation holds one
  cpu,              \* what the processor executes
  pc,               \* where a thread's own code stands in a multi-step call
  block_events,     \* thread/block-events?: "no", "yes" or "suspended"
  pending_events,   \* thread/pending-events
  saved_block,      \* block-events? saved by a call that blocks events
  self_event,       \* the event a thread is signalling to itself, else #f
  owner,            \* thread-mutex/owner
  waiting_threads,  \* thread-mutex/waiting-threads
  mutexes,          \* thread/mutexes
  wanted,           \* the mutex a thread waits for in %lock-thread-mutex
  joined_threads,   \* thread/joined-threads
  joined_to,        \* thread/joined-to
  exit_value,       \* thread/exit-value: "none", "value" or "detached"
  release_thread,   \* argument of the running release-joined-threads
  release_list,     \* the joined threads its loop has still to signal
  timer_records,    \* threads with an undelivered sleep timer record
  delivered,        \* the flag set by the event of sleep-current-thread
  io_registrations, \* threads with a registered block-on-io-descriptor event
  io_result         \* TRUE once block-on-io-event has run

schedVars   == <<execution_state, run_queue, continuation>>
eventVars   == <<block_events, pending_events>>
mutexVars   == <<owner, waiting_threads, mutexes, wanted>>
joinVars    == <<joined_threads, joined_to, exit_value>>
releaseVars == <<release_thread, release_list>>
timerVars   == <<timer_records, delivered>>
ioVars      == <<io_registrations, io_result>>
callVars    == <<saved_block, self_event>>
vars == <<schedVars, cpu, pc, eventVars, callVars, mutexVars, joinVars,
          releaseVars, timerVars, ioVars>>

States  == {"unborn", "running", "running_without_preemption", "waiting",
            "stopped", "dead"}
\* "wake" is the event #f; "call" a closure that only computes, "exit" one
\* that calls exit-current-thread; the others are closures of the runtime.
Events  == {"wake", "call", "exit", "joined", "timer", "io"}
CPU     == {"user", "idle", "suspend", "resume", "lock", "timer", "preempt",
            "yield", "select", "allow", "allow_io", "exit", "release"}
PCs     == {"user", "lock", "signal_count", "signal_enqueue",
            "signal_replace", "signal_unblock", "sleep_register", "sleep",
            "io_block", "io_check", "io_return", "io_deregister", "exiting",
            "dead"}

Running(t) == execution_state[t] \in {"running", "running_without_preemption"}
Live(t)    == execution_state[t] \notin {"unborn", "dead"}

Init ==
  /\ execution_state = [t \in Threads |-> IF t = InitialThread
                                          THEN "running" ELSE "unborn"]
  /\ run_queue = <<InitialThread>>
  /\ continuation = [t \in Threads |-> FALSE]
  /\ cpu = "user"
  /\ pc = [t \in Threads |-> "user"]
  /\ block_events = [t \in Threads |-> "no"]
  /\ pending_events = [t \in Threads |-> << >>]
  /\ saved_block = [t \in Threads |-> "no"]
  /\ self_event = [t \in Threads |-> "wake"]
  /\ owner = [m \in Mutexes |-> None]
  /\ waiting_threads = [m \in Mutexes |-> << >>]
  /\ mutexes = [t \in Threads |-> {}]
  /\ wanted = [t \in Threads |-> None]
  /\ joined_threads = [t \in Threads |-> {}]
  /\ joined_to = [t \in Threads |-> {}]
  /\ exit_value = [t \in Threads |-> IF t = InitialThread
                                     THEN "detached" ELSE "none"]
  /\ release_thread = None
  /\ release_list = {}
  /\ timer_records = {}
  /\ delivered = [t \in Threads |-> FALSE]
  /\ io_registrations = {}
  /\ io_result = [t \in Threads |-> FALSE]

(***************************************************************************)
(* The run queue.                                                          *)
(***************************************************************************)

\* The thread named by first-running-thread runs code of its own.
Current(t) == cpu = "user" /\ run_queue # << >> /\ t = Head(run_queue)

\* A thread is free to call operation op.
Calls(t, op) == Current(t) /\ pc[t] = "user" /\ op \in Ops

\* run-first-thread over the new queue q, c the continuations held before:
\* run-thread takes the continuation of the first thread, or wait-for-io.
Dispatch(q, c) ==
  /\ run_queue' = q
  /\ continuation' = [t \in Threads |-> c[t] /\ ~(q # << >> /\ t = Head(q))]
  /\ cpu' = IF q = << >> THEN "idle" ELSE "resume"

\* Slip (ContinuationOK): an exited thread keeps its continuation.
ThreadNotRunningKeepsContinuation(t, state) ==
  /\ execution_state' = [execution_state EXCEPT ![t] = state]
  /\ Dispatch(Tail(run_queue), [continuation EXCEPT ![t] = TRUE])

\* thread-not-running
ThreadNotRunning(t, state) ==
  /\ execution_state' = [execution_state EXCEPT ![t] = state]
  /\ Dispatch(Tail(run_queue),
              [continuation EXCEPT ![t] = (state # "dead")])

\* yield-thread
YieldThread(t) ==
  IF Len(run_queue) = 1
  THEN cpu' = "resume" /\ UNCHANGED <<run_queue, continuation>>
  ELSE Dispatch(Append(Tail(run_queue), t),
                [continuation EXCEPT ![t] = TRUE])

(***************************************************************************)
(* Events.                                                                 *)
(***************************************************************************)

\* %add-pending-event
AddPendingEvent(q, e) ==
  IF e = "wake"
  THEN IF q = << >> THEN <<e>> ELSE q
  ELSE IF q = <<"wake">> THEN <<e>> ELSE Append(q, e)

\* Slip (RunQueueOK): the state of the thread is not tested.
SignalThreadEventAlways(t, e) ==
  /\ pending_events' = [pending_events EXCEPT ![t] = AddPendingEvent(@, e)]
  /\ IF block_events[t] # "yes"
     THEN /\ execution_state' = [execution_state EXCEPT ![t] = "running"]
          /\ run_queue' = Append(run_queue, t)
     ELSE UNCHANGED <<execution_state, run_queue>>

\* %signal-thread-event, with %thread-running
SignalThreadEvent(t, e) ==
  /\ pending_events' = [pending_events EXCEPT ![t] = AddPendingEvent(@, e)]
  /\ IF block_events[t] # "yes" /\ execution_state[t] = "waiting"
     THEN /\ execution_state' = [execution_state EXCEPT ![t] = "running"]
          /\ run_queue' = Append(run_queue, t)
     ELSE UNCHANGED <<execution_state, run_queue>>

Contains(q, e) == \E i \in 1..Len(q) : q[i] = e

\* handle-thread-events on the queue q, when no event in it exits the
\* thread; b is the value its caller leaves in block-events?.
HandleThreadEvents(t, q, b) ==
  /\ ~Contains(q, "exit")
  /\ pending_events' = [pending_events EXCEPT ![t] = << >>]
  /\ block_events' = [block_events EXCEPT ![t] = b]
  /\ delivered' = [delivered EXCEPT ![t] = @ \/ Contains(q, "timer")]
  /\ io_result' = [io_result EXCEPT ![t] = @ \/ Contains(q, "io")]

\* Slip (JoinOK): %disassociate-joined-threads only clears joined-to.
BeginExitStaysJoined(t) ==
  /\ cpu' = "exit"
  /\ pc' = [pc EXCEPT ![t] = "exiting"]
  /\ block_events' = [block_events EXCEPT ![t] = "yes"]
  /\ pending_events' = [pending_events EXCEPT ![t] = << >>]
  /\ io_registrations' = io_registrations \ {t}
  /\ timer_records' = timer_records \ {t}
  /\ joined_to' = [joined_to EXCEPT ![t] = {}]
  /\ saved_block' = [saved_block EXCEPT ![t] = "no"]
  /\ self_event' = [self_event EXCEPT ![t] = "wake"]
  /\ wanted' = [wanted EXCEPT ![t] = None]
  /\ UNCHANGED <<schedVars, owner, waiting_threads, mutexes, joined_threads,
                 exit_value, releaseVars, delivered, io_result>>

\* exit-current-thread down to %disassociate-joined-threads; the loops over
\* the mutexes and the joined threads follow in "exit" and "release".
BeginExit(t) ==
  /\ cpu' = "exit"
  /\ pc' = [pc EXCEPT ![t] = "exiting"]
  /\ block_events' = [block_events EXCEPT ![t] = "yes"]
  /\ pending_events' = [pending_events EXCEPT ![t] = << >>]
  /\ io_registrations' = io_registrations \ {t}
  /\ timer_records' = timer_records \ {t}
  /\ joined_threads' = [u \in Threads |-> IF u \in joined_to[t]
                                          THEN joined_threads[u] \ {t}
                                          ELSE joined_threads[u]]
  /\ joined_to' = [joined_to EXCEPT ![t] = {}]
  /\ saved_block' = [saved_block EXCEPT ![t] = "no"]
  /\ self_event' = [self_event EXCEPT ![t] = "wake"]
  /\ wanted' = [wanted EXCEPT ![t] = None]
  /\ UNCHANGED <<schedVars, owner, waiting_threads, mutexes, exit_value,
                 releaseVars, delivered, io_result>>

\* handle-thread-events reaches an event that calls exit-current-thread.
ExitEvent(t, q) == Contains(q, "exit") /\ BeginExit(t)

\* Slip (NoLostWakeup, SleepEnds): #t is not replaced by 'suspended.
EnterSuspendBlocked(t) == cpu' = "suspend" /\ UNCHANGED block_events

\* %suspend-current-thread up to maybe-signal-io-thread-events
EnterSuspend(t) ==
  /\ cpu' = "suspend"
  /\ block_events' = [block_events EXCEPT ![t] = IF @ = "no" THEN "no"
                                                 ELSE "suspended"]

\* The code a thread returns to after a suspension or a time slice: the loop
\* of %lock-thread-mutex is still masked, everything else is not.
ReturnTo(t) == IF pc[t] = "lock" THEN "lock" ELSE "user"

\* The thread on whose behalf a masked stretch runs.
Masked(t, stretch) ==
  cpu = stretch /\ run_queue # << >> /\ t = Head(run_queue)

(***************************************************************************)
(* Creating, suspending, stopping, yielding.                               *)
(***************************************************************************)

\* create-thread.  Entering the root continuation, which was captured with
\* events unblocked, runs the creator's pending events; returning to the
\* creator's continuation puts its block-events? back.
CreateThread(t, u) ==
  /\ Calls(t, "create")
  /\ execution_state[u] = "unborn"
  /\ \/ /\ HandleThreadEvents(t, pending_events[t], block_events[t])
        /\ execution_state' = [execution_state EXCEPT ![u] = "running"]
        /\ run_queue' = Append(run_queue, u)
        /\ continuation' = [continuation EXCEPT ![u] = TRUE]
        /\ UNCHANGED <<cpu, pc, callVars, mutexVars, joinVars, releaseVars,
                       timer_records, io_registrations>>
     \/ ExitEvent(t, pending_events[t])

\* suspend-current-thread
SuspendCurrentThread(t) ==
  /\ Calls(t, "suspend")
  /\ EnterSuspend(t)
  /\ UNCHANGED <<schedVars, pc, pending_events, callVars, mutexVars,
                 joinVars, releaseVars, timerVars, ioVars>>

\* %suspend-current-thread after maybe-signal-io-thread-events: events that
\* arrived are handled and the thread goes on, otherwise it waits.
SuspendHandle(t) ==
  /\ Masked(t, "suspend")
  /\ pending_events[t] # << >>
  /\ \/ /\ HandleThreadEvents(t, pending_events[t],
                               IF block_events[t] = "no" THEN "no" ELSE "yes")
        /\ cpu' = ReturnTo(t)
        /\ UNCHANGED <<schedVars, pc, callVars, mutexVars, joinVars,
                       releaseVars, timer_records, io_registrations>>
     \/ ExitEvent(t, pending_events[t])

SuspendWait(t) ==
  /\ Masked(t, "suspend")
  /\ pending_events[t] = << >>
  /\ ThreadNotRunning(t, "waiting")
  /\ UNCHANGED <<pc, eventVars, callVars, mutexVars, joinVars, releaseVars,
                 timerVars, ioVars>>

\* %resume-current-thread
ResumeCurrentThread(t) ==
  /\ Masked(t, "resume")
  /\ \/ /\ block_events[t] = "yes"
        /\ cpu' = ReturnTo(t)
        /\ UNCHANGED <<schedVars, pc, eventVars, callVars, mutexVars,
                       joinVars, releaseVars, timerVars, ioVars>>
     \/ /\ block_events[t] # "yes"
        /\ HandleThreadEvents(t, pending_events[t],
                              IF block_events[t] = "no" THEN "no" ELSE "yes")
        /\ cpu' = ReturnTo(t)
        /\ UNCHANGED <<schedVars, pc, callVars, mutexVars, joinVars,
                       releaseVars, timer_records, io_registrations>>
     \/ /\ block_events[t] # "yes"
        /\ ExitEvent(t, pending_events[t])

\* stop-current-thread
StopCurrentThread(t) ==
  /\ Calls(t, "stop")
  /\ ThreadNotRunning(t, "stopped")
  /\ UNCHANGED <<pc, eventVars, callVars, mutexVars, joinVars, releaseVars,
                 timerVars, ioVars>>

\* Slip (TypeOK): the event is signalled even when there is none.
RestartThreadAnyEvent(t, u, discard, e) ==
  /\ Calls(t, "stop")
  /\ execution_state[u] = "stopped"
  /\ pending_events' = [pending_events EXCEPT ![u] = Append(@, e)]
  /\ execution_state' = [execution_state EXCEPT ![u] = "running"]
  /\ run_queue' = Append(run_queue, u)
  /\ UNCHANGED <<continuation, cpu, pc, block_events, callVars, mutexVars,
                 joinVars, releaseVars, timerVars, ioVars>>

\* restart-thread, with no event when e is None
RestartThread(t, u, discard, e) ==
  /\ Calls(t, "stop")
  /\ execution_state[u] = "stopped"
  /\ LET q == IF discard THEN << >> ELSE pending_events[u]
     IN  /\ e # None => Len(q) < MaxPending
         /\ pending_events' = [pending_events EXCEPT ![u] =
                IF e = None THEN q ELSE AddPendingEvent(q, e)]
  /\ execution_state' = [execution_state EXCEPT ![u] = "running"]
  /\ run_queue' = Append(run_queue, u)
  /\ UNCHANGED <<continuation, cpu, pc, block_events, callVars, mutexVars,
                 joinVars, releaseVars, timerVars, ioVars>>

\* yield-current-thread up to maybe-signal-io-thread-events, and the rest
YieldCurrentThread(t) ==
  /\ Calls(t, "yield")
  /\ execution_state' = [execution_state EXCEPT ![t] = "running"]
  /\ cpu' = "yield"
  /\ UNCHANGED <<run_queue, continuation, pc, eventVars, callVars, mutexVars,
                 joinVars, releaseVars, timerVars, ioVars>>

YieldNow(t) ==
  /\ Masked(t, "yield")
  /\ YieldThread(t)
  /\ UNCHANGED <<execution_state, pc, eventVars, callVars, mutexVars,
                 joinVars, releaseVars, timerVars, ioVars>>

\* disallow-preempt-current-thread and allow-preempt-current-thread
SetPreempt(t, state) ==
  /\ Calls(t, "preempt")
  /\ execution_state' = [execution_state EXCEPT ![t] = state]
  /\ UNCHANGED <<run_queue, continuation, cpu, pc, eventVars, callVars,
                 mutexVars, joinVars, releaseVars, timerVars, ioVars>>

(***************************************************************************)
(* The timer interrupt, and waiting in select when nothing can run.        *)
(***************************************************************************)

\* thread-timer-interrupt-handler masks interrupts; the timer may be armed
\* whenever they are enabled.
TimerInterrupt ==
  /\ cpu \in {"user", "idle"}
  /\ cpu' = "timer"
  /\ UNCHANGED <<schedVars, pc, eventVars, callVars, mutexVars, joinVars,
                 releaseVars, timerVars, ioVars>>

\* Slip (SleepOK): a thread that blocks events is passed over.
DeliverTimerUnblocked(u) ==
  /\ cpu \in {"timer", "allow"}
  /\ u \in timer_records
  /\ timer_records' = timer_records \ {u}
  /\ IF block_events[u] = "yes"
     THEN UNCHANGED <<execution_state, run_queue, pending_events>>
     ELSE SignalThreadEvent(u, "timer")
  /\ UNCHANGED <<continuation, cpu, pc, block_events, callVars, mutexVars,
                 joinVars, releaseVars, delivered, ioVars>>

\* one round of deliver-timer-events, for a record that is due
DeliverTimer(u) ==
  /\ cpu \in {"timer", "allow"}
  /\ u \in timer_records
  /\ timer_records' = timer_records \ {u}
  /\ SignalThreadEvent(u, "timer")
  /\ UNCHANGED <<continuation, cpu, pc, block_events, callVars, mutexVars,
                 joinVars, releaseVars, delivered, ioVars>>

\* deliver-timer-events meets no further record that is due
TimersDelivered ==
  /\ \/ cpu = "timer" /\ cpu' = "preempt"
     \/ cpu = "allow" /\ cpu' = "allow_io"
  /\ UNCHANGED <<schedVars, pc, eventVars, callVars, mutexVars, joinVars,
                 releaseVars, timerVars, ioVars>>

\* one round of signal-io-thread-events, in maybe-signal-io-thread-events
\* or after select has returned
SignalIO(u) ==
  /\ cpu \in {"suspend", "yield", "preempt", "select", "allow_io"}
  /\ u \in io_registrations
  /\ io_registrations' = io_registrations \ {u}
  /\ SignalThreadEvent(u, "io")
  /\ UNCHANGED <<continuation, cpu, pc, block_events, callVars, mutexVars,
                 joinVars, releaseVars, timerVars, io_result>>

\* Slip (RoundRobin): the interrupted thread is resumed.
PreemptNever ==
  /\ cpu = "preempt"
  /\ IF run_queue = << >>
     THEN cpu' = "idle" /\ UNCHANGED <<run_queue, continuation>>
     ELSE Dispatch(run_queue, continuation)
  /\ UNCHANGED <<execution_state, pc, eventVars, callVars, mutexVars,
                 joinVars, releaseVars, timerVars, ioVars>>

\* the end of thread-timer-interrupt-handler
Preempt ==
  /\ cpu = "preempt"
  /\ IF run_queue = << >>
     THEN cpu' = "idle" /\ UNCHANGED <<run_queue, continuation>>
     ELSE LET t == Head(run_queue)
          IN  IF continuation[t]
              THEN Dispatch(run_queue, continuation)
              ELSE IF execution_state[t] # "running_without_preemption"
              THEN YieldThread(t)
              ELSE cpu' = "resume" /\ UNCHANGED <<run_queue, continuation>>
  /\ UNCHANGED <<execution_state, pc, eventVars, callVars, mutexVars,
                 joinVars, releaseVars, timerVars, ioVars>>

\* wait-for-io: test-select-registry returns
SelectReturns ==
  /\ cpu = "idle"
  /\ cpu' = "select"
  /\ UNCHANGED <<schedVars, pc, eventVars, callVars, mutexVars, joinVars,
                 releaseVars, timerVars, ioVars>>

\* wait-for-io after signal-select-result
SelectDone ==
  /\ cpu = "select"
  /\ Dispatch(run_queue, continuation)
  /\ UNCHANGED <<execution_state, pc, eventVars, callVars, mutexVars,
                 joinVars, releaseVars, timerVars, ioVars>>

\* signal-thread-event called by an interrupt handler (^C, console resize)
\* while no thread runs: it dispatches the thread it has woken.
IdleSignal(u, e) ==
  /\ cpu = "idle"
  /\ "console" \in Ops
  /\ Live(u)
  /\ Len(pending_events[u]) < MaxPending
  /\ pending_events' = [pending_events EXCEPT ![u] = AddPendingEvent(@, e)]
  /\ IF block_events[u] # "yes" /\ execution_state[u] = "waiting"
     THEN /\ execution_state' = [execution_state EXCEPT ![u] = "running"]
          /\ Dispatch(Append(run_queue, u), continuation)
     ELSE UNCHANGED <<schedVars, cpu>>
  /\ UNCHANGED <<pc, block_events, callVars, mutexVars, joinVars,
                 releaseVars, timerVars, ioVars>>
(***************************************************************************)
(* Exiting, joining, detaching.                                            *)
(***************************************************************************)

\* exit-current-thread
ExitCurrentThread(t) == Calls(t, "exit") /\ BeginExit(t)

\* ring/remove-item: the first occurrence of x leaves s
RemoveItem(s, x) ==
  IF ~Contains(s, x) THEN s
  ELSE LET i == CHOOSE i \in 1..Len(s) :
                  s[i] = x /\ \A j \in 1..(i - 1) : s[j] # x
       IN  [j \in 1..(Len(s) - 1) |-> s[IF j < i THEN j ELSE j + 1]]

\* Slip (HandOffOK, GrantEnds): the new owner is not woken.
HandOffSilent(m) ==
  /\ owner' = [owner EXCEPT ![m] = IF waiting_threads[m] = << >> THEN None
                                   ELSE Head(waiting_threads[m])]
  /\ waiting_threads' = [waiting_threads EXCEPT ![m] =
                            IF @ = << >> THEN @ ELSE Tail(@)]
  /\ UNCHANGED <<execution_state, run_queue, pending_events>>

\* %%unlock-thread-mutex: the first waiting thread becomes the owner and is
\* woken by the event #f.
HandOff(m) ==
  IF waiting_threads[m] = << >>
  THEN /\ owner' = [owner EXCEPT ![m] = None]
       /\ UNCHANGED <<waiting_threads, execution_state, run_queue,
                      pending_events>>
  ELSE /\ owner' = [owner EXCEPT ![m] = Head(waiting_threads[m])]
       /\ waiting_threads' = [waiting_threads EXCEPT ![m] = Tail(@)]
       /\ SignalThreadEvent(Head(waiting_threads[m]), "wake")

\* Slip (MutexOK): an exiting thread stays in the rings.
ExitMutexStays(t, m) ==
  /\ Masked(t, "exit")
  /\ m \in mutexes[t]
  /\ mutexes' = [mutexes EXCEPT ![t] = @ \ {m}]
  /\ IF owner[m] = t
     THEN HandOff(m)
     ELSE UNCHANGED <<owner, waiting_threads, execution_state, run_queue,
                      pending_events>>
  /\ UNCHANGED <<continuation, cpu, pc, block_events, callVars, wanted,
                 joinVars, releaseVars, timerVars, ioVars>>

\* one round of %disassociate-thread-mutexes
ExitMutex(t, m) ==
  /\ Masked(t, "exit")
  /\ m \in mutexes[t]
  /\ mutexes' = [mutexes EXCEPT ![t] = @ \ {m}]
  /\ IF owner[m] = t
     THEN HandOff(m)
     ELSE /\ waiting_threads' =
               [waiting_threads EXCEPT ![m] = RemoveItem(@, t)]
          /\ UNCHANGED <<owner, execution_state, run_queue, pending_events>>
  /\ UNCHANGED <<continuation, cpu, pc, block_events, callVars, wanted,
                 joinVars, releaseVars, timerVars, ioVars>>

\* Slip (DeadThreadOK): the exit value is not recorded.
ExitValueForgotten(t) ==
  /\ Masked(t, "exit")
  /\ mutexes[t] = {}
  /\ cpu' = "release"
  /\ release_thread' = t
  /\ release_list' = joined_threads[t]
  /\ UNCHANGED <<schedVars, pc, eventVars, callVars, mutexVars, joinVars,
                 timerVars, ioVars>>

\* exit-current-thread after %disassociate-thread-mutexes
ExitValue(t) ==
  /\ Masked(t, "exit")
  /\ mutexes[t] = {}
  /\ cpu' = "release"
  /\ release_thread' = t
  /\ IF exit_value[t] = "none"
     THEN /\ exit_value' = [exit_value EXCEPT ![t] = "value"]
          /\ release_list' = joined_threads[t]
     ELSE UNCHANGED <<exit_value, release_list>>
  /\ UNCHANGED <<schedVars, pc, eventVars, callVars, mutexVars,
                 joined_threads, joined_to, timerVars, ioVars>>

\* one round of release-joined-threads
ReleaseJoined(j) ==
  /\ cpu = "release"
  /\ j \in release_list
  /\ joined_to' = [joined_to EXCEPT ![j] = @ \ {release_thread}]
  /\ SignalThreadEvent(j, "joined")
  /\ release_list' = release_list \ {j}
  /\ UNCHANGED <<continuation, cpu, pc, block_events, callVars, mutexVars,
                 joined_threads, exit_value, release_thread, timerVars,
                 ioVars>>

\* the end of release-joined-threads in exit-current-thread ...
ExitDone(t) ==
  /\ Masked(t, "release")
  /\ release_list = {}
  /\ pc[t] = "exiting"
  /\ pc' = [pc EXCEPT ![t] = "dead"]
  /\ release_thread' = None
  /\ ThreadNotRunning(t, "dead")
  /\ UNCHANGED <<eventVars, callVars, mutexVars, joinVars, release_list,
                 timerVars, ioVars>>

\* ... and in detach-thread
DetachDone(t) ==
  /\ Masked(t, "release")
  /\ release_list = {}
  /\ pc[t] # "exiting"
  /\ cpu' = "user"
  /\ release_thread' = None
  /\ UNCHANGED <<schedVars, pc, eventVars, callVars, mutexVars, joinVars,
                 release_list, timerVars, ioVars>>

\* join-thread.  At most one join of t to u is outstanding.  A thread that
\* has exited is answered at once: t signals the event to itself.
JoinThread(t, u) ==
  /\ Calls(t, "join")
  /\ u # t
  /\ execution_state[u] # "unborn"
  /\ \/ /\ exit_value[u] = "none"
        /\ t \notin joined_threads[u]
        /\ joined_threads' = [joined_threads EXCEPT ![u] = @ \cup {t}]
        /\ joined_to' = [joined_to EXCEPT ![t] = @ \cup {u}]
        /\ UNCHANGED <<schedVars, cpu, pc, eventVars, callVars, mutexVars,
                       exit_value, releaseVars, timerVars, ioVars>>
     \/ /\ exit_value[u] = "value"
        /\ block_events[t] = "no"
        /\ HandleThreadEvents(t, AddPendingEvent(pending_events[t], "joined"),
                              "no")
        /\ UNCHANGED <<schedVars, cpu, pc, callVars, mutexVars, joinVars,
                       releaseVars, timer_records, io_registrations>>
     \/ /\ exit_value[u] = "value"
        /\ block_events[t] = "no"
        /\ ExitEvent(t, pending_events[t])
     \/ /\ exit_value[u] = "value"
        /\ block_events[t] # "no"
        /\ Len(pending_events[t]) < MaxPending
        /\ pending_events' = [pending_events EXCEPT ![t] =
                                 AddPendingEvent(@, "joined")]
        /\ UNCHANGED <<schedVars, cpu, pc, block_events, callVars, mutexVars,
                       joinVars, releaseVars, timerVars, ioVars>>

\* detach-thread, up to the loop of release-joined-threads
DetachThread(t, u) ==
  /\ Calls(t, "detach")
  /\ execution_state[u] # "unborn"
  /\ exit_value[u] # "detached"
  /\ exit_value' = [exit_value EXCEPT ![u] = "detached"]
  /\ cpu' = "release"
  /\ release_thread' = u
  /\ release_list' = joined_threads[u]
  /\ UNCHANGED <<schedVars, pc, eventVars, callVars, mutexVars,
                 joined_threads, joined_to, timerVars, ioVars>>

(***************************************************************************)
(* Blocking, signalling and delivering events.                             *)
(***************************************************************************)

\* block-thread-events
BlockThreadEvents(t) ==
  /\ Calls(t, "block")
  /\ block_events' = [block_events EXCEPT ![t] = "yes"]
  /\ UNCHANGED <<schedVars, cpu, pc, pending_events, callVars, mutexVars,
                 joinVars, releaseVars, timerVars, ioVars>>

\* unblock-thread-events
Unblock(t) ==
  \/ /\ HandleThreadEvents(t, pending_events[t], "no")
     /\ UNCHANGED <<schedVars, cpu, pc, callVars, mutexVars, joinVars,
                    releaseVars, timer_records, io_registrations>>
  \/ ExitEvent(t, pending_events[t])

\* A call that blocked events puts back the saved block-events? and goes on
\* at next; the variables of the call are dead then.
Restore(t, next) ==
  \/ /\ \/ /\ saved_block[t] = "no"
           /\ HandleThreadEvents(t, pending_events[t], "no")
        \/ saved_block[t] # "no" /\ UNCHANGED <<eventVars, delivered, io_result>>
     /\ pc' = [pc EXCEPT ![t] = next]
     /\ saved_block' = [saved_block EXCEPT ![t] = "no"]
     /\ self_event' = [self_event EXCEPT ![t] = "wake"]
     /\ UNCHANGED <<schedVars, cpu, mutexVars, joinVars, releaseVars,
                    timer_records, io_registrations>>
  \/ saved_block[t] = "no" /\ ExitEvent(t, pending_events[t])

UnblockThreadEvents(t) == Calls(t, "block") /\ Unblock(t)

\* handle-current-thread-events, called when a garbage collection is over,
\* which may be at any point of a thread's code
HandleCurrentThreadEvents(t) ==
  /\ Current(t)
  /\ "gc" \in Ops
  /\ block_events[t] = "no"
  /\ Unblock(t)

\* signal-thread-event to another thread
SignalEvent(t, u, e) ==
  /\ Calls(t, "signal")
  /\ u # t
  /\ Live(u)
  /\ Len(pending_events[u]) < MaxPending
  /\ SignalThreadEvent(u, e)
  /\ UNCHANGED <<continuation, cpu, pc, block_events, callVars, mutexVars,
                 joinVars, releaseVars, timerVars, ioVars>>

\* signal-thread-event to oneself: block-thread-events, then
\* %add-pending-event, which inspects the ring and changes it in two calls
\* with interrupts enabled, then unblock-thread-events.
SelfSignal(t, e) ==
  /\ Calls(t, "self_signal")
  /\ Len(pending_events[t]) < MaxPending
  /\ saved_block' = [saved_block EXCEPT ![t] = block_events[t]]
  /\ block_events' = [block_events EXCEPT ![t] = "yes"]
  /\ self_event' = [self_event EXCEPT ![t] = e]
  /\ pc' = [pc EXCEPT ![t] = "signal_count"]
  /\ UNCHANGED <<schedVars, cpu, pending_events, mutexVars, joinVars,
                 releaseVars, timerVars, ioVars>>

SelfSignalCount(t) ==
  /\ Current(t)
  /\ pc[t] = "signal_count"
  /\ LET q == pending_events[t]
     IN  pc' = [pc EXCEPT ![t] =
                  IF self_event[t] = "wake"
                  THEN IF q = << >> THEN "signal_enqueue"
                                    ELSE "signal_unblock"
                  ELSE IF q = <<"wake">> THEN "signal_replace"
                                         ELSE "signal_enqueue"]
  /\ UNCHANGED <<schedVars, cpu, eventVars, callVars, mutexVars, joinVars,
                 releaseVars, timerVars, ioVars>>

SelfSignalAdd(t) ==
  /\ Current(t)
  /\ \/ /\ pc[t] = "signal_enqueue"
        /\ pending_events' = [pending_events EXCEPT ![t] =
                                 Append(@, self_event[t])]
     \/ /\ pc[t] = "signal_replace"
        /\ pending_events' = [pending_events EXCEPT ![t][1] = self_event[t]]
  /\ pc' = [pc EXCEPT ![t] = "signal_unblock"]
  /\ UNCHANGED <<schedVars, cpu, block_events, callVars, mutexVars, joinVars,
                 releaseVars, timerVars, ioVars>>

SelfSignalUnblock(t) ==
  /\ Current(t)
  /\ pc[t] = "signal_unblock"
  /\ Restore(t, "user")

\* allow-thread-event-delivery up to deliver-timer-events, and its end
AllowEventDelivery(t) ==
  /\ Calls(t, "deliver")
  /\ saved_block' = [saved_block EXCEPT ![t] = block_events[t]]
  /\ block_events' = [block_events EXCEPT ![t] = "no"]
  /\ cpu' = "allow"
  /\ UNCHANGED <<schedVars, pc, pending_events, self_event, mutexVars,
                 joinVars, releaseVars, timerVars, ioVars>>

AllowDone(t) ==
  /\ Masked(t, "allow_io")
  /\ \/ /\ HandleThreadEvents(t, pending_events[t], saved_block[t])
        /\ cpu' = "user"
        /\ saved_block' = [saved_block EXCEPT ![t] = "no"]
        /\ UNCHANGED <<schedVars, pc, self_event, mutexVars, joinVars,
                       releaseVars, timer_records, io_registrations>>
     \/ ExitEvent(t, pending_events[t])

\* deregister-all-events
DeregisterAllEvents(t) ==
  /\ Calls(t, "deregister")
  /\ pending_events' = [pending_events EXCEPT ![t] = << >>]
  /\ timer_records' = timer_records \ {t}
  /\ io_registrations' = io_registrations \ {t}
  /\ UNCHANGED <<schedVars, cpu, pc, block_events, callVars, mutexVars,
                 joinVars, releaseVars, delivered, io_result>>
(***************************************************************************)
(* Mutexes.                                                                *)
(***************************************************************************)

\* lock-thread-mutex and with-thread-mutex-locked, of a mutex that is free;
\* try-lock-thread-mutex does the same, or nothing ...
LockFree(t, m) ==
  /\ Calls(t, "lock")
  /\ owner[m] = None
  /\ owner' = [owner EXCEPT ![m] = t]
  /\ mutexes' = [mutexes EXCEPT ![t] = @ \cup {m}]
  /\ UNCHANGED <<schedVars, cpu, pc, eventVars, callVars, waiting_threads,
                 wanted, joinVars, releaseVars, timerVars, ioVars>>

\* Slip (MutexFIFO): the newcomer goes to the front of the ring.
LockWaitFirst(t, m) ==
  /\ Calls(t, "lock")
  /\ owner[m] \notin {None, t}
  /\ mutexes' = [mutexes EXCEPT ![t] = @ \cup {m}]
  /\ waiting_threads' = [waiting_threads EXCEPT ![m] = <<t>> \o @]
  /\ wanted' = [wanted EXCEPT ![t] = m]
  /\ pc' = [pc EXCEPT ![t] = "lock"]
  /\ EnterSuspend(t)
  /\ UNCHANGED <<schedVars, pending_events, callVars, owner, joinVars,
                 releaseVars, timerVars, ioVars>>

\* ... and of one that another thread owns
LockWait(t, m) ==
  /\ Calls(t, "lock")
  /\ owner[m] \notin {None, t}
  /\ mutexes' = [mutexes EXCEPT ![t] = @ \cup {m}]
  /\ waiting_threads' = [waiting_threads EXCEPT ![m] = Append(@, t)]
  /\ wanted' = [wanted EXCEPT ![t] = m]
  /\ pc' = [pc EXCEPT ![t] = "lock"]
  /\ EnterSuspend(t)
  /\ UNCHANGED <<schedVars, pending_events, callVars, owner, joinVars,
                 releaseVars, timerVars, ioVars>>

\* the loop of %lock-thread-mutex
LockLoop(t) ==
  /\ Masked(t, "lock")
  /\ IF owner[wanted[t]] = t
     THEN /\ cpu' = "user"
          /\ pc' = [pc EXCEPT ![t] = "user"]
          /\ wanted' = [wanted EXCEPT ![t] = None]
          /\ UNCHANGED block_events
     ELSE EnterSuspend(t) /\ UNCHANGED <<pc, wanted>>
  /\ UNCHANGED <<schedVars, pending_events, callVars, owner, waiting_threads,
                 mutexes, joinVars, releaseVars, timerVars, ioVars>>

\* unlock-thread-mutex
UnlockMutex(t, m) ==
  /\ Calls(t, "lock")
  /\ owner[m] = t
  /\ mutexes' = [mutexes EXCEPT ![t] = @ \ {m}]
  /\ HandOff(m)
  /\ UNCHANGED <<continuation, cpu, pc, block_events, callVars, wanted,
                 joinVars, releaseVars, timerVars, ioVars>>

(***************************************************************************)
(* Sleeping.                                                               *)
(***************************************************************************)

\* sleep-current-thread: block-thread-events
Sleep(t) ==
  /\ Calls(t, "sleep")
  /\ saved_block' = [saved_block EXCEPT ![t] = block_events[t]]
  /\ block_events' = [block_events EXCEPT ![t] = "yes"]
  /\ delivered' = [delivered EXCEPT ![t] = FALSE]
  /\ pc' = [pc EXCEPT ![t] = "sleep_register"]
  /\ UNCHANGED <<schedVars, cpu, pending_events, self_event, mutexVars,
                 joinVars, releaseVars, timer_records, ioVars>>

\* register-timer-event
SleepRegister(t) ==
  /\ Current(t)
  /\ pc[t] = "sleep_register"
  /\ timer_records' = timer_records \cup {t}
  /\ pc' = [pc EXCEPT ![t] = "sleep"]
  /\ UNCHANGED <<schedVars, cpu, eventVars, callVars, mutexVars, joinVars,
                 releaseVars, delivered, ioVars>>

\* the loop of sleep-current-thread ...
SleepLoop(t) ==
  /\ Current(t)
  /\ pc[t] = "sleep"
  /\ ~delivered[t]
  /\ EnterSuspend(t)
  /\ UNCHANGED <<schedVars, pc, pending_events, callVars, mutexVars, joinVars,
                 releaseVars, timerVars, ioVars>>

\* ... and its end
SleepDone(t) ==
  /\ Current(t)
  /\ pc[t] = "sleep"
  /\ delivered[t]
  /\ Restore(t, "user")

(***************************************************************************)
(* Blocking on I/O.                                                        *)
(***************************************************************************)

\* block-on-io-descriptor: the "before" thunk registers the event
BlockOnIO(t) ==
  /\ Calls(t, "io")
  /\ io_registrations' = io_registrations \cup {t}
  /\ io_result' = [io_result EXCEPT ![t] = FALSE]
  /\ pc' = [pc EXCEPT ![t] = "io_block"]
  /\ UNCHANGED <<schedVars, cpu, eventVars, callVars, mutexVars, joinVars,
                 releaseVars, timerVars>>

\* with-thread-events-blocked
IOBlock(t) ==
  /\ Current(t)
  /\ pc[t] = "io_block"
  /\ saved_block' = [saved_block EXCEPT ![t] = block_events[t]]
  /\ block_events' = [block_events EXCEPT ![t] = "yes"]
  /\ pc' = [pc EXCEPT ![t] = "io_check"]
  /\ UNCHANGED <<schedVars, cpu, pending_events, self_event, mutexVars,
                 joinVars, releaseVars, timerVars, ioVars>>

\* Slip (BlockOnIOOK): the result is not looked at again.
IOCheckNever(t) ==
  /\ Current(t)
  /\ pc[t] = "io_check"
  /\ pc' = [pc EXCEPT ![t] = "io_return"]
  /\ EnterSuspend(t)
  /\ UNCHANGED <<schedVars, pending_events, callVars, mutexVars, joinVars,
                 releaseVars, timerVars, ioVars>>

\* if result is still 'interrupt, suspend-current-thread
IOCheck(t) ==
  /\ Current(t)
  /\ pc[t] = "io_check"
  /\ pc' = [pc EXCEPT ![t] = "io_return"]
  /\ IF io_result[t] THEN UNCHANGED <<cpu, block_events>> ELSE EnterSuspend(t)
  /\ UNCHANGED <<schedVars, pending_events, callVars, mutexVars, joinVars,
                 releaseVars, timerVars, ioVars>>

\* %set-thread-event-block! at the end of with-thread-events-blocked
IOReturn(t) ==
  /\ Current(t)
  /\ pc[t] = "io_return"
  /\ Restore(t, "io_deregister")

\* the "after" thunk deregisters the event if it is still registered; an
\* event signalled but not yet handled now only sets a dead variable.
IODeregister(t) ==
  /\ Current(t)
  /\ pc[t] = "io_deregister"
  /\ io_registrations' = io_registrations \ {t}
  /\ pending_events' = [pending_events EXCEPT ![t] =
        [i \in 1..Len(@) |-> IF @[i] = "io" THEN "call" ELSE @[i]]]
  /\ pc' = [pc EXCEPT ![t] = "user"]
  /\ UNCHANGED <<schedVars, cpu, block_events, callVars, mutexVars, joinVars,
                 releaseVars, timerVars, io_result>>

(***************************************************************************)
(* The specification.                                                      *)
(***************************************************************************)

\* A thread calls an operation ...
UserCall(t) ==
  \/ SuspendCurrentThread(t) \/ StopCurrentThread(t)
  \/ YieldCurrentThread(t) \/ ExitCurrentThread(t)
  \/ BlockThreadEvents(t) \/ UnblockThreadEvents(t)
  \/ HandleCurrentThreadEvents(t) \/ AllowEventDelivery(t)
  \/ DeregisterAllEvents(t) \/ Sleep(t) \/ BlockOnIO(t)
  \/ \E state \in {"running", "running_without_preemption"} :
       SetPreempt(t, state)
  \/ \E u \in Threads : CreateThread(t, u) \/ JoinThread(t, u)
                         \/ DetachThread(t, u)
  \/ \E u \in Threads, discard \in BOOLEAN, e \in {None, "call", "exit"} :
       RestartThread(t, u, discard, e)
  \/ \E e \in {"wake", "call", "exit"} :
       SelfSignal(t, e) \/ \E u \in Threads : SignalEvent(t, u, e)
  \/ \E m \in Mutexes : LockFree(t, m) \/ LockWait(t, m) \/ UnlockMutex(t, m)

\* ... goes on inside one, with interrupts enabled ...
UserStep(t) ==
  \/ SelfSignalCount(t) \/ SelfSignalAdd(t) \/ SelfSignalUnblock(t)
  \/ SleepRegister(t) \/ SleepLoop(t) \/ SleepDone(t)
  \/ IOBlock(t) \/ IOCheck(t) \/ IOReturn(t) \/ IODeregister(t)

\* ... or the scheduler does, with interrupts masked.
MaskedStep(t) ==
  \/ SuspendHandle(t) \/ SuspendWait(t) \/ ResumeCurrentThread(t)
  \/ YieldNow(t) \/ LockLoop(t) \/ AllowDone(t)
  \/ ExitValue(t) \/ ExitDone(t) \/ DetachDone(t) \/ ReleaseJoined(t)
  \/ \E m \in Mutexes : ExitMutex(t, m)

System == TimersDelivered \/ Preempt \/ SelectDone

Next ==
  \/ \E t \in Threads : UserCall(t) \/ UserStep(t) \/ MaskedStep(t)
                         \/ DeliverTimer(t) \/ SignalIO(t)
                         \/ \E e \in {"call", "exit"} : IdleSignal(t, e)
  \/ System \/ TimerInterrupt \/ SelectReturns

Spec == Init /\ [][Next]_vars
\* Fairness.  Masked code runs to its end.  A thread that has the processor
\* executes its code.  %maybe-toggle-thread-timer arms the timer while a
\* record, a registration or a second runnable thread needs it, the
\* interrupt stays requested while it is masked, and a record falls due.
TimerNeeded ==
  \/ timer_records # {}
  \/ cpu = "user" /\ (io_registrations # {} \/ Len(run_queue) > 1)

Fairness ==
  /\ WF_vars((\E t \in Threads : MaskedStep(t)) \/ System)
  /\ SF_vars(TimerNeeded /\ TimerInterrupt)
  /\ \A t \in Threads : SF_vars(UserStep(t)) /\ SF_vars(DeliverTimer(t))

FairSpec == Spec /\ Fairness

(***************************************************************************)
(* Properties.                                                             *)
(***************************************************************************)

\* The variables have their types.
TypeOK ==
  /\ execution_state \in [Threads -> States]
  /\ run_queue \in Seq(Threads)
  /\ continuation \in [Threads -> BOOLEAN]
  /\ cpu \in CPU
  /\ pc \in [Threads -> PCs]
  /\ block_events \in [Threads -> {"no", "yes", "suspended"}]
  /\ pending_events \in [Threads -> Seq(Events)]
  /\ saved_block \in [Threads -> {"no", "yes", "suspended"}]
  /\ self_event \in [Threads -> Events]
  /\ owner \in [Mutexes -> Threads \cup {None}]
  /\ waiting_threads \in [Mutexes -> Seq(Threads)]
  /\ mutexes \in [Threads -> SUBSET Mutexes]
  /\ wanted \in [Threads -> Mutexes \cup {None}]
  /\ joined_threads \in [Threads -> SUBSET Threads]
  /\ joined_to \in [Threads -> SUBSET Threads]
  /\ exit_value \in [Threads -> {"none", "value", "detached"}]
  /\ release_thread \in Threads \cup {None}
  /\ release_list \in SUBSET Threads
  /\ timer_records \in SUBSET Threads
  /\ delivered \in [Threads -> BOOLEAN]
  /\ io_registrations \in SUBSET Threads
  /\ io_result \in [Threads -> BOOLEAN]

NoDuplicates(s) == \A i, j \in 1..Len(s) : s[i] = s[j] => i = j

\* The run queue holds each running thread exactly once and no other thread,
\* and only its first thread can have disallowed preemption: waking,
\* restarting, yielding and exiting never lose or duplicate a thread.
RunQueueOK ==
  /\ NoDuplicates(run_queue)
  /\ \A t \in Threads : Running(t) <=> Contains(run_queue, t)
  /\ \A i \in 2..Len(run_queue) : execution_state[run_queue[i]] = "running"

\* The assertions of run-thread: a thread that will be dispatched has a
\* saved continuation, and the one that has the processor, or that has
\* exited, has none ("#F if current thread or exited").
ContinuationOK ==
  /\ cpu \notin {"idle", "select", "timer", "preempt"} =>
       run_queue # << >> /\ ~continuation[Head(run_queue)]
  /\ cpu = "idle" => run_queue = << >>
  /\ \A t \in Threads :
       /\ Live(t) /\ (run_queue = << >> \/ t # Head(run_queue)) =>
            continuation[t]
       /\ ~Live(t) => ~continuation[t]
  /\ cpu = "select" /\ run_queue # << >> => continuation[Head(run_queue)]

\* No wakeup is lost: a thread that waits has no event to handle, and has
\* not left block-events? in the state that keeps an event from waking it.
NoLostWakeup ==
  \A t \in Threads : execution_state[t] = "waiting" =>
    /\ pending_events[t] = << >>
    /\ block_events[t] # "yes"

\* Ownership, the waiting ring and each thread's list of mutexes agree; a
\* free mutex has no waiter, and a thread waits for one mutex at a time.
MutexOK ==
  \A m \in Mutexes :
    /\ NoDuplicates(waiting_threads[m])
    /\ owner[m] = None => waiting_threads[m] = << >>
    /\ ~Contains(waiting_threads[m], owner[m])
    /\ \A t \in Threads :
         /\ m \in mutexes[t] <=>
              owner[m] = t \/ Contains(waiting_threads[m], t)
         /\ Contains(waiting_threads[m], t) =>
              \/ pc[t] = "lock" /\ wanted[t] = m
              \/ pc[t] = "exiting"

\* A handed-over mutex reaches its new owner: a thread inside
\* %lock-thread-mutex owns the mutex or is in its ring, and once it owns it
\* it cannot be left waiting.
HandOffOK ==
  \A t \in Threads : pc[t] = "lock" =>
    /\ wanted[t] \in Mutexes
    /\ \/ owner[wanted[t]] = t /\ Running(t)
       \/ Contains(waiting_threads[wanted[t]], t)

\* A sleeping thread's timer event is registered, pending or handled: no
\* sequence of other events makes it sleep for ever.
SleepOK ==
  \A t \in Threads : pc[t] = "sleep" =>
    \/ t \in timer_records
    \/ delivered[t]
    \/ Contains(pending_events[t], "timer")

\* A thread inside block-on-io-descriptor either still has its event
\* registered or cannot be waiting: an event that comes between the
\* registration and the suspension is not missed.
BlockOnIOOK ==
  \A t \in Threads :
    /\ pc[t] \in {"io_block", "io_check"} =>
         \/ t \in io_registrations
         \/ io_result[t]
         \/ Contains(pending_events[t], "io")
    /\ pc[t] = "io_return" /\ execution_state[t] = "waiting" =>
         t \in io_registrations

\* joined-threads and joined-to mirror each other until the thread exits or
\* is detached, and then every joined thread is notified.
JoinOK ==
  \A t, u \in Threads :
    /\ u \in joined_to[t] =>
         /\ t \in joined_threads[u]
         /\ \/ exit_value[u] = "none"
            \/ release_thread = u /\ t \in release_list
    /\ t \in joined_threads[u] /\ exit_value[u] = "none" =>
         u \in joined_to[t]

\* exit-current-thread leaves nothing behind: a dead thread owns and awaits
\* no mutex, has no timer record, no I/O registration and no thread joined
\* to it unanswered, and no thread that can still exit will notify it.
DeadThreadOK ==
  \A t \in Threads : execution_state[t] = "dead" =>
    /\ mutexes[t] = {}
    /\ t \notin timer_records \cup io_registrations
    /\ exit_value[t] # "none"
    /\ joined_to[t] = {}
    /\ \A u \in Threads : t \notin joined_to[u]
                           /\ (exit_value[u] = "none" => t \notin joined_threads[u])

\* Mutexes are handed over in the order of arrival: ownership passes only to
\* the head of the ring, and in a ring a thread is preceded only by threads
\* that already preceded it.
MutexFIFO ==
  [][\A m \in Mutexes :
       /\ owner'[m] \notin {owner[m], None} /\ waiting_threads[m] # << >> =>
            owner'[m] = Head(waiting_threads[m])
       /\ \A i \in 1..Len(waiting_threads[m]),
             k, l \in 1..Len(waiting_threads'[m]) :
            k < l /\ waiting_threads[m][i] = waiting_threads'[m][l] =>
              \E j \in 1..(i - 1) :
                waiting_threads[m][j] = waiting_threads'[m][k]]_vars

\* Every runnable thread gets the processor, however the others compute.
RoundRobin ==
  \A t \in Threads :
    execution_state[t] = "running" ~> run_queue # << >> /\ t = Head(run_queue)

\* sleep-current-thread returns (or the thread is made to exit).
SleepEnds == \A t \in Threads : pc[t] = "sleep" ~> pc[t] # "sleep"

\* A thread that has been given the mutex it waits for enters its critical
\* section (or is made to exit).
GrantEnds ==
  \A t \in Threads, m \in Mutexes :
    pc[t] = "lock" /\ owner[m] = t /\ wanted[t] = m ~> pc[t] # "lock"
=============================================================================
