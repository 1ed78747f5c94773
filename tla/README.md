# A TLA+ verification of MIT/GNU Scheme

MIT/GNU Scheme is a runtime system and compiler written in Scheme on top of a
microcode written in C.  This directory holds TLA+ modules translated from the
parts of both whose correctness depends on order: the threads, which the runtime
multiplexes over one processor (`src/src/runtime/thread.scm` and what is built on
it), and in the microcode (`src/src/microcode`) the caches of compiled variable
references, the copying garbage collector, the subprocess table with its signal
handlers, and the integer arithmetic with its many representations and
boundaries.  With them come TLC configurations that check the modules on small
instances, and TLAPS proofs, for every number of threads, mutexes, items, processes,
frames or objects, of the invariants of the scheduler and what is built on it, of the
subprocess table, of the variable caches and of the collector: what it keeps, and that
it keeps it in order; and, for words of any length, that the primitives of fixnums are
exact.

## Inventory of the system

| component | source | state | operations | hard behaviour | what makes it correct |
|---|---|---|---|---|---|
| thread scheduler | `runtime/thread.scm` 38-508 | run queue, execution state and continuation of each thread | create, suspend, stop, restart, yield, preempt, exit, wait in select | preemption at any point where interrupts are enabled; interrupts while no thread runs | every running thread is in the queue exactly once; a dispatched thread has a continuation; every runnable thread runs |
| thread events | `thread.scm` 870-1012 | `block-events?`, `pending-events` | signal (to self, to another, from a handler), block, unblock, deliver, discard | events arriving during a suspension; events that exit the thread | no wakeup is lost; blocked events are queued, not run |
| mutexes | `thread.scm` 1187-1357, `thread-low.scm` | owner, ring of waiting threads, each thread's list | lock, unlock, try-lock, release at exit | hand-over to a thread that exits or is woken by something else | owner, ring and lists agree; hand-over is FIFO and reaches the new owner |
| join and detach | `thread.scm` 510-560 | `joined-threads`, `joined-to`, `exit-value` | join, detach, exit | exits and detaches in any order | the lists mirror each other; every joined thread is notified |
| timers | `thread.scm` 1023-1185 | timer records, armed interval timer | register, deliver, sleep, toggle | delivery racing with suspension; arming | every sleep ends |
| I/O events | `thread.scm` 562-868 | descriptor and thread entries, select registry | register, deregister, signal, block-on-io | readiness racing with suspension; stale entries | no event is missed; the registry has exactly the registered descriptors |
| rings | `thread-low.scm` | doubly linked circular list | enqueue, dequeue, remove, discard | pointer updates | behaves as a sequence |
| continuations | `runtime/contin.scm` | saved `block-events?` and dynamic state | capture, enter | entering runs pending events | see thread events |
| thread queues | `runtime/thread-queue.scm` | list of items, waiting queuers and dequeuers | queue, dequeue, peek, push, with timeouts | waiters that time out or exit | FIFO, bounded, no lost wakeup |
| condition variables, barriers | `runtime/condvar.scm`, `thread-barrier.scm` | list of waiters; count and generation | wait (with timeout), signal, broadcast; barrier wait | timeout racing with a signal, interrupted signaller | a signal wakes a waiter; a barrier releases its generation |
| state spaces | `runtime/wind.scm` | tree of state points with a moving root | dynamic-wind, translate | thunks that move the root | before and after thunks alternate |
| subprocesses | `runtime/process.scm`, `microcode/uxproc.c`, `uxsig.c`, `transact.c` | process table with status ticks, foreground child, signal mask, transaction actions, registrations | make, signal, continue, wait in the foreground, status sync, subprocess-wait, delete | SIGCHLD and the stop signal at any unmasked point; failing system calls; recycled pids | signals reach only the child they are meant for; deaths are recorded; errors clean up; waits return |
| environments and the linker | `microcode/lookup.c` | frames, cells, reference traps, caches with their alists of references, UUO links | look up, assign, define, unbind, link; cache a reference | definitions that shadow cached references; shared caches; references reclaimed with their block | a cached reference behaves as a search of the environment would |
| garbage collector | `microcode/gcloop.c`, `memmag.c` | from-space, to-space, broken hearts, weak chain, ephemeron list, table and queue | copy, scan, settle ephemerons and weak pairs | keys that become live while data are scanned | the live graph is preserved, the dead is not, it ends |
| integer arithmetic | `microcode/bignum.c`, `artutl.c`, `intprm.c`, `fixnum.c`, `mul.c`, `bits.h` | none (functions of their arguments) | arithmetic, division, bitwise, shifts, conversions | boundaries of half digits, digits, fixnums and words; corrections taken for rare operands | results are exact and canonical |
| event distributors | `runtime/events.scm` | event queue, lock flag, receivers | invoke, add, remove | two threads processing | every event is processed |
| GC finalizers | `runtime/gcfinal.scm` | weak table of objects and contexts | add, remove, run | finalizer running when a lock is held | each context is released once |
| interrupts | `runtime/interrupt.scm` | mask, pending bits | request, clear, handle | nesting | decides what is atomic |

The components meet in a few calls.  Everything that wakes a thread goes through
`%signal-thread-event`; everything that gives up the processor goes through
`thread-not-running` or `yield-thread`; every return to a thread goes through
`%resume-current-thread`.  The mutexes, joins, timers and I/O events are clients
of events, and thread queues, condition variables and barriers are clients of
mutexes and events.

The microcode's parts meet the threads in a few places.  A status change of a
subprocess ends the select in which the scheduler waits, and the scheduler then
synchronises the process table; a garbage collection ends with an interrupt that
runs pending events.  Compiled code reads and calls variables only through the
caches of `lookup.c`.

The interpreter, the compiler, Edwin and the other applications are not part of
this project (see *Not modelled*, and the component list in `PROJECT.json`).

## Modules

| module | what it is |
|---|---|
| `ThreadScheduler` | the scheduler, events, mutexes, join and detach, sleeping and blocking on I/O, with their properties |
| `MCThreadScheduler` | instances for TLC: model values and symmetry |
| `ThreadSchedulerProofs` | proofs about `ThreadScheduler`: types, run queue, continuations, wakeups; where a thread stands in a call, sleeping, blocking on I/O; mutexes, their hand-over and its order, joins, and what an exited thread leaves behind |
| `ThreadQueue` | thread queues, with their pairs and their lists of waiting threads |
| `BoundedQueue` | what a thread queue promises about its items: a bounded sequence |
| `ThreadQueueProofs` | proofs about `ThreadQueue`: its chain of pairs, that it implements `BoundedQueue`, its waiting threads |
| `CondVar` | condition variables |
| `Barrier` | thread barriers, composed with `CondVar` |
| `CondVarProofs` | proofs about `CondVar` and `Barrier` |
| `Subprocess` | the process table, its signal handlers, transactions, and the runtime's subprocess objects and waits; the kernel is external |
| `SubprocessProofs` | proofs about `Subprocess` |
| `VariableCache` | environments, variable caches and compiled references |
| `VariableCacheProofs` | proofs about `VariableCache` |
| `GarbageCollector` | the copying collector with weak pairs and ephemerons |
| `GarbageCollectorProofs` | proofs about `GarbageCollector`: the copies, and the chains of ephemerons that wait |
| `GarbageCollectorGraphProofs` | proofs about `GarbageCollector`: the graph that is preserved, the ephemerons that are kept |
| `MachineWord` | the lengths of digits and words, and the arithmetic of a long |
| `Fixnum` | fixnums: their primitives, which return an exact result or an error |
| `FixnumProofs` | proofs about `Fixnum`, for words of any length |
| `Bignum` | arbitrary-precision arithmetic on digit vectors |
| `GenericInteger` | the integer primitives over fixnums and bignums |
| `MCThreadQueue`, `MCBarrier`, `MCSubprocess`, `MCVariableCache`, `MCGarbageCollector`, `MCGenericInteger` | instances for TLC |

`ThreadQueue` and `CondVar` are clients of mutexes and events.  They do not extend
`ThreadScheduler`; they assume of it what its runs and proofs establish: a mutex
has one owner, and an event signalled to a thread is either handled by its next
suspension or resumes it (`NoLostWakeup`).

### How the state corresponds to the code

* `run_queue` is the list from `first-running-thread` along `thread/next` to
  `last-running-thread`.  `execution_state`, `continuation`, `block_events`,
  `pending_events`, `joined_threads`, `joined_to`, `exit_value` and `mutexes` are
  the fields of the thread structure, one function over `Threads` each; a thread
  that has not been made is `"unborn"`.  `owner` and `waiting_threads` are the
  fields of the mutexes.
* `cpu` is where the processor is.  `"user"` is Scheme code of the first thread
  with interrupts enabled, `"idle"` the call of select in `wait-for-io`.  The other
  values are masked stretches: `"suspend"` is `%suspend-current-thread` from
  `maybe-signal-io-thread-events` on, `"resume"` is `%resume-current-thread`,
  `"timer"` and `"preempt"` the two halves of `thread-timer-interrupt-handler`, and
  so on.  While one is in progress only its own continuation, and the rounds of
  its loops, are enabled: this is what `without-interrupts` gives the code.
* `pc[t]` is where the thread's own code stands inside an operation that is not
  masked as a whole (signalling to oneself, sleeping, blocking on I/O) or that
  suspends in the middle (locking a mutex).  `saved_block`, `self_event`, `wanted`,
  `delivered` and `io_result` are the local variables of those operations.
* `release_thread` and `release_list` are the state of the loop in
  `release-joined-threads`.

In `ThreadQueue` the variables `first_pair`, `last_pair`, `element_count`,
`waiting_queuers` and `waiting_dequeuers` are the fields of the structure, `car` and
`cdr` the contents of the pairs.  A pair that is no longer reachable can be
allocated again.  An operation is one step from locking the mutex to releasing it,
because every other operation needs the mutex; a thread that waits releases it
(`pc = "unlocked"`) and suspends in a later step.  `Contents` walks the chain and is
the refinement mapping to `BoundedQueue`.

In `CondVar` a thread stands for the waiter it makes, and `waiters` is the list from
`waiter-head` to `waiter-tail`.  A signaller's steps are separate (`SignalLock`,
`SignalScan`, `SignalWake`, `SignalDone`, `SignalRemove`): it holds the condition
variable's lock, but a waiter that runs in between does not need that lock to test
`waiter.done?`.  `Barrier` adds `current`, `generation` and the generation each thread
has read; its lock is the callers' mutex of `CondVar`, and its steps are conjoined
with those of `CondVar`.

In `Subprocess`, `table` is the process table (`raw` and `status` the raw and the
synchronised status), and ticks, which are only compared for equality, are the
flags `dirty` (of a slot) and `changed` (of the table).  `prim` is the primitive in
progress: where it stands, and `actions`, the actions its transaction has recorded,
which run last first when it commits or aborts.  `masked` is the signal mask; a
handler's action is enabled wherever its signal is not blocked, so it falls
between any two steps of a primitive.  `kernel`, `sigchld` and `tty` are external: the
state of every pid, a pending SIGCHLD, the owner of the terminal.  `object`, `regs`
and `waits` are the runtime's structures, registrations and waiting threads.

In `VariableCache`, `heap.cell` is what a frame binds a symbol to, `heap.trap` and
`heap.cache` the reference traps and caches (a cache has a value, a clone, and per
kind of reference an alist from symbols to references), and `heap.loc` what a
compiled block holds for a reference: a cache, a clone, or a link to a procedure.
`program` says which frames, references and links a run has.  `stale` is an
auxiliary variable: the references that the code leaves behind and nothing could
keep coherent (deleted, or a link that a store at lines 617, 633 or 707 does not
rewrite).  The coherence properties except them, so the failure of those three stores
is modelled and not covered.

In `GarbageCollector`, a heap is a function from objects to words; `mem.to` is
to-space, word by word, `mem.heart` the broken hearts, `mem.chain` the weak chain,
`mem.list`, `mem.queue` and `mem.bucket` the ephemeron list, queue and hash table, linked
through words of to-space as in the code.  A step scans one word or one list entry.
A walk of a bucket that never ends sets `mem.hung`.

`Fixnum`, `Bignum` and `GenericInteger` keep the names of the C functions.  A bignum is a sign
and a sequence of digits, least significant first; loops over digits are folds that
carry the loop's variables; machine arithmetic wraps at the word length (`Long`).  A
behaviour of `GenericInteger` is one call of a primitive, and its properties compare
the result with arithmetic on TLA+ integers.  `Fixnum` is the part of it that needs no
bignums; it has a specification of its own (`FixnumSpec`), whose only action, `Fixnum`, is
also an action of `GenericInteger`, and there is the only one that calls these
primitives.  It stands apart so that theorems can be about it: `Bignum` uses `Bitwise`.

One action is one operation up to the next point where something else can
happen.  A loop over a list (timer records, ready descriptors, mutexes at exit,
joined threads) is one action per round, taken while the stretch is masked.

### What is abstracted

* An event is its kind: `"wake"` is the event `#f`, `"call"` a closure that
  computes, `"exit"` a closure that calls `exit-current-thread`, and `"joined"`,
  `"timer"` and `"io"` the closures of the runtime.  Events do not themselves
  suspend or leave through a continuation.
* Time: a timer record is due, and a descriptor ready, at any moment; the timer
  interrupt may come whenever interrupts are enabled.  This includes every
  schedule that `%maybe-toggle-thread-timer` produces, and more.
* Errors that the code signals to its caller (joining oneself, unlocking a mutex
  one does not own, signalling a dead thread) are guards: the call has no effect.
* The float environment, the accounting of process and real time, and thread
  properties are left out.
* The thunks that `exit-current-thread` unwinds are those of the runtime
  (`with-thread-mutex-lock`, `block-on-io-descriptor`); they release what the rest
  of the exit releases anyway.
* `console` events are the interrupt handlers that call `signal-thread-event`
  while no thread runs.
* In `Subprocess` the child's side of vfork, channels and exit reasons are left out,
  and exited and signalled processes are one status.  The kernel delivers at most
  one pending SIGCHLD, as POSIX does.  `masked` stands for both masks of the code: a
  primitive that blocks only SIGCHLD (`block_sigchld`) blocks the stop signal as well,
  which changes nothing such a primitive uses while it is blocked.  The table has a
  fixed number of slots; in the code it grows by a quarter when it is full
  (`uxproc.c:216`), and every slot keeps its index.
* In `VariableCache` values are opaque, and whether a value is a compiled procedure
  (a direct link) or not (a trampoline) is kept as the kind of link.
* In `GarbageCollector` objects are classes: pairs, vectors (also compiled-code blocks,
  with entries that point inside), weak pairs, ephemerons and non-pointers.
* In `MachineWord` the digit length is a constant.

## Runs

| run | configuration | instance | checks |
|---|---|---|---|
| sleep | `MCSleep.cfg` | 2 threads: stops and restarts, sleeping, I/O, blocked events, signals, console, timer and gc interrupts | `TypeOK`, `RunQueueOK`, `ContinuationOK`, `NoLostWakeup`, `SleepOK`, `BlockOnIOOK` |
| exits | `MCExits.cfg` | 3 threads, 1 mutex, joins, exits by event | `MutexOK`, `HandOffOK`, `MutexFIFO`, `JoinOK`, `DeadThreadOK` |
| live | `MCLive.cfg` | 2 threads, 1 mutex, sleeping, suspending, yielding, exits, fairness | `SleepEnds`, `GrantEnds`, `RoundRobin` |
| queue | `MCQueue.cfg` | 3 threads with a role each, 2 items, `max-elements` 2, time limits, an exit in the middle of a wait, an unrelated wakeup, fairness | `QueueShape`, `DequeuersRestarted`, `QueuersRestarted`, `TimedCallReturns`, `RefinesBoundedQueue` |
| cond | `MCBarrier.cfg` | 3 threads, a condition variable used directly (all operations, timeouts, exits) or by a barrier for 2 threads, 3 generations | `WaiterReachable`, `QueueClean`, `BarrierCount`, `GenerationComplete` |
| lookup | `MCVariableCache.cfg` | 2 frames with and without the global environment, references of every kind, a link | `LookupCoherent`, `AssignmentCoherent`, `OperatorCoherent` |
| gc | `MCGarbageCollector.cfg` | every heap of three layouts of 4 objects | `GraphPreserved`, `CopiedOnce`, `EphemeronsKept`, `CollectionEnds` |
| ephemeron_key | `MCEphemeronKey.cfg` | heaps with two ephemerons on one key | `GraphPreserved`, violated |
| process | `MCSubprocess.cfg` | 2 slots, 2 pids, 1 waiting thread, failing vfork | `SignalsReachChild`, `DeathsRecorded`, `PrimitiveCleanedUp`, `StatusKnown` |
| process_wait | `MCSubprocessWait.cfg` | 1 slot, 2 pids, failing tcsetpgrp, fairness | `WaitReturns` |
| pid_reuse | `MCPidReuse.cfg` | as process, a pid may be reused while a slot holds it | `SignalsReachChild`, violated |
| arith | `MCGenericInteger.cfg` | 4-bit digits, 6-bit words, 4-bit fixnums | `ArithmeticExact`, `DivisionExact`, `BitsExact` (bitwise operations and shifts), `ConversionExact`, `FixnumExact` |

The passing runs of `ThreadScheduler`, `Subprocess` and `GarbageCollector` also check that
the system never deadlocks: in every state there is a next step (a finished
collection stays finished).  The others do not: all threads may rightly wait for an
item, a signal or an arrival that never comes, a program may run out of things to
do, and a primitive returns once.

`TypeOK` of `ThreadScheduler` is checked and proved, those of `Subprocess` and
`GarbageCollector` (and, for independent programs, `VariableCache`) are proved; in the other modules it only tells a reader what values
the variables have.

**Bounds, threads.**  `Ops` selects the operations an instance may call, so that each run
explores one concern completely.  `MaxPending` bounds the queue that a *user* may
extend; the runtime's own events are never refused.  Every thread is created at
most once, and a thread has at most one join outstanding to another: with sets
for the join lists a second one would be indistinguishable.  Two threads suffice
for wakeups (a thread and its waker); three are needed to have two threads in a
ring behind an owner, or two threads joined to a third.  All the invariants of
the runs sleep and exits are proved for every instance (below), so no run need
repeat them for every mixture of operations.  A thread that is *made* to exit
while it owns one mutex and waits for another is in no instance (three threads,
two mutexes and joins are beyond five minutes); it is a case of the proof of
`MutexOK`.

In `ThreadQueue`, `Pairs` has one pair per element, so that every pair is reused.
`MaxWaiting` stops what would extend a waiting list for ever: spurious wakeups,
repeated calls with a time limit, and calls on a queue whose list holds a thread
that has exited, which is never emptied again.  The three roles give two threads
waiting for an item and one that queues it, two waiting for room and one that
dequeues, and a dead thread with a live one behind it.  `Barrier` stops at
`MaxGeneration`: three generations let a thread enter the second one while another
has not left the first.

**Bounds, microcode.**  `VariableCache`: an inner and an outer frame are what a definition
needs to shadow a cached reference, and the three programs have the chain end in the
global environment, end without one, and contain a linked variable.  `Ids` bounds the
traps and caches (`Room`: a step that may make a trap needs a free identity);
identities no longer referred to are used again, so the bound is not
reached.  `GarbageCollector`: all graphs over four objects of the layouts, with `Buckets` 1 so
that all ephemerons collide in one bucket; in the passing run no two
ephemerons have the same key, the case of run ephemeron_key.  `Subprocess`: two slots
and two pids allow a dead, undeleted process beside a live one and a pid that
belongs to somebody else.  The passing runs exclude that the kernel gives out a pid
that a slot still holds (`PidReuse`).  `GenericInteger`: in the code a digit is two bits
shorter than a word and a fixnum shorter than a digit, and the instance keeps both
relations; operands of up to three digits, drawn from the digits at
which carries, guesses and normalisation change, reach every branch of the
division.  A property checked for 4-bit digits is evidence for 62-bit digits
because the algorithms depend on the digit length only through the radix and its
root.

**Fairness** (runs live, queue, process_wait and gc).  Masked code runs to its end: weak
fairness of the masked steps.  Interrupted code is resumed where it stopped and makes
progress in its time slice: strong fairness of each thread's steps inside an
operation.  The timer interrupt arrives while `%maybe-toggle-thread-timer` keeps
the timer armed (`TimerNeeded`), and a timer record falls due: strong fairness,
because the interrupt stays requested while it is masked.  Nothing is assumed
about the calls a thread makes: it may compute for ever.  In queue a thread
inside a call goes on and time passes (weak fairness); the queue's mutex needs
nothing more, because it is handed over in order of arrival (`MutexFIFO`).  In
process_wait a primitive that has begun goes on, the timer interrupt ends a wait in
the foreground (weak fairness), a pending SIGCHLD is delivered when its mask opens
and the scheduler comes round to polling and to a signalled thread (strong
fairness); nothing is assumed of the children or of the calls.  The collector is one
process that does not stop: weak fairness of its next step.

**Findings.**  `ephemeron_key`: `queue_ephemerons_for_key` goes on from the link word of
the entry it has just moved into the queue, so that it does not see the rest of the
bucket, and a second ephemeron with the same key keeps an uncopied datum, which is
then cleared although its key is alive.  The comment on the table says that all the
ephemerons associated with the key must not be broken.  `pid_reuse`: a slot keeps its
pid until the process is deleted, and `find_process` takes the first slot with a
pid; when a later child has the same pid, its death is recorded in the wrong slot, its
own slot says "running" for ever, and a signal sent to it goes to whoever has the pid
by then, which the comment in `OS_process_send_signal` sets out to exclude.

**Other disagreements met while modelling.**  The models contain the code's behaviour
in each case.

* `thread.scm:963`: a ring of events has "three states"; a thread that signals an
  event to itself changes its ring with interrupts enabled (941), and another
  thread's signal in between leaves `#f` beside a closure.  No other property
  depends on the comment.
* `thread.scm:56`: events may not run in a thread that blocks them; `create-thread`
  (238) passes through the root continuation, captured with events unblocked, and
  runs them.
* `thread-queue.scm:40`: all waiting dequeuers are restarted; one that has exited
  makes `signal-thread-event` fail before it reaches those behind it (262), and stays in
  the list.  `DequeuersRestarted` states exactly this exception.
* `thread-queue.scm:279`: `push!` takes `max > 0` to be enough for a pair before the
  last one; with `max-elements` 1 there is none and the search fails.
* `condvar.scm:131`: the wakeup must come before the mark, or the thread may never be
  woken; with the wakeup first, a signaller preempted before the mark lets the
  waiter find itself unmarked and suspend again, and what follows wakes nobody.
  `WaiterReachable`, about marking and unlinking, cannot see it.
* `condvar.scm:96`: the test of the timeout is reversed; a wait with a timeout in the
  future returns at once.
* `lookup.c`: unbinding a cached global (707) and linking (617, 633) change a cache's
  value without updating its operator links; linking a variable to its parent
  frame's variable of the same name makes `move_ref_pairs` move a list onto itself;
  linking two cached cells of one symbol leaves two alist entries, of which a later
  definition moves one.  `move_ref_pair_p` (1185) asks for the environment of a
  reference's block, so a definition there also moves the references that
  `compiler_cache_global_operator` (794) looked up in the global environment.
* `lookup.c:464`: `define_variable` takes the cell of a parameter that has been unbound for a
  binding and only assigns to it, although searches have passed it by meanwhile; a
  compiled reference cached in an outer frame's cell goes on reading the outer variable.
  The comment on the other case (480) says why such references must be recached.  An
  instance of `VariableCache` with a frame whose parameter is in `vars` violates
  `LookupCoherent` within four states.
* `uxproc.c:187`: an aborted transaction opens the signal mask before
  `process_allocate_abort` tests the status and kills, so the child can be waited for in
  between.  The model has these steps; with tcsetpgrp among the `Faults` of run process
  they violate `SignalsReachChild`, which speaks of the signals that are asked for (the
  run's fault is a failing vfork, with no child to kill).  `process.scm:230` loops on a status nobody has polled.  `subprocess-delete`
  drops the registrations of other threads, whose `subprocess-wait` then never returns.
* `bignum.c:740`: `bignum_fits_in_word_p` accepts some negative numbers below the smallest
  long (`Overlooked`).  `intprm.c:237`: a right shift of a negative number by a bignum gives
  0, not -1.  `mul.c`: `Mul` refuses a product equal to the smallest fixnum.

**Hazards no property covers.**  Besides those noted in `PROJECT.json`:

* `thread.scm:1155`: arming the timer compares the due time, the current time and the
  timeout already scheduled;
* `thread.scm:769`, `830`: descriptor entries unlinked but left in the select registry, and a
  mode `read-write` that no signalled mode matches;
* `thread.scm:185`: a restored image forgets registrations that threads still wait for;
* `thread-queue.scm:281`, `174`: `push!` with `max-elements` 1, and a waiting list that
  grows with every round of a waiting thread;
* `events.scm:105`: two threads that save and put back the lock flag;
* `wind.scm:124`: a thunk that moves the root of the state space while it is moved;
* `process.scm:230`: a status that changes only when somebody else polls;
* `condvar.scm:138`: the wakeup lost when a signaller is preempted between waking and
  marking;
* `lookup.c:617`, `633`, `707`: operator links not rewritten with the value, which
  `OperatorCoherent` excepts;
* `uxproc.c:187`: the SIGKILL of an aborted transaction;
* `bignum.c:740`: the negative numbers that `bignum_fits_in_word_p` takes for longs, which
  `ConversionExact` excepts.

## Proofs

The theorems hold for every value of the constants that the named assumptions admit:
finite and infinite sets of threads, mutexes, items, pairs, pids and heaps (each heap
finite), every choice of operations and every bound.

| module | theorem | states |
|---|---|---|
| `ThreadSchedulerProofs` | `TypeCorrect` | `Spec => []TypeOK` |
| | `RunQueueCorrect` | `Spec => []RunQueueOK` |
| | `ContinuationCorrect` | `Spec => []ContinuationOK` |
| | `NoWakeupIsLost` | `Spec => []NoLostWakeup` |
| | `SleepCorrect` | `Spec => []SleepOK` |
| | `BlockOnIOCorrect` | `Spec => []BlockOnIOOK` |
| | `MutexCorrect` | `Spec => []MutexOK` |
| | `HandOffCorrect` | `Spec => []HandOffOK` |
| | `MutexesAreFair` | `Spec => MutexFIFO`, an action property |
| | `JoinCorrect` | `Spec => []JoinOK` |
| | `DeadThreadCorrect` | `Spec => []DeadThreadOK` |
| `ThreadQueueProofs` | `QueueShapeCorrect` | `Spec => []QueueShape` |
| | `QueueRefines` | `Spec => RefinesBoundedQueue`, the refinement of `BoundedQueue` |
| | `DequeuersAreRestarted`, `QueuersAreRestarted` | `Spec => []DequeuersRestarted`, `Spec => []QueuersRestarted` |
| `CondVarProofs` | `WaitersAreReachable`, `QueueIsClean` | `Spec => []WaiterReachable`, `Spec => []QueueClean` |
| | `BarrierCountCorrect`, `GenerationsAreComplete` | `BarrierSpec => []BarrierCount`, `BarrierSpec => GenerationComplete` |
| `SubprocessProofs` | `TypeCorrect`, `PrimitivesCleanUp`, `StatusesAreKnown` | `Spec => []TypeOK`, `Spec => []PrimitiveCleanedUp`, `Spec => []StatusKnown` |
| | `DeathsAreRecorded` | `~ PidReuse` implies `Spec => []DeathsRecorded` |
| | `SignalsAreDirected` | `~ PidReuse` and `"tcsetpgrp" \notin Faults` imply `Spec => []SignalsReachChild` |
| `VariableCacheProofs` | `TypeCorrect`, `LookupCoherence` | `Independent(program)` implies `Spec => []TypeOK`, `Spec => []LookupCoherent` |
| | `AssignmentCoherence`, `OperatorCoherence` | `Independent(program)` implies `Spec => []AssignmentCoherent`, `Spec => []OperatorCoherent` |
| `GarbageCollectorProofs` | `TypeCorrect`, `CopiesAreApart` | `Spec => []TypeOK`, `Spec => []CopiedOnce` |
| `GarbageCollectorGraphProofs` | `GraphIsPreserved` | `DistinctKeys(heap)` implies `Spec => []GraphPreserved` |
| | `EphemeronsAreKept`, `WalksEnd` | `DistinctKeys(heap)` implies `Spec => []EphemeronsKept`, `Spec => []~mem.hung` |
| `FixnumProofs` | `FixnumsAreExact` | `FixnumSpec => []FixnumExact` |

**Assumptions.**  Only those on the constants, each named in its module: the initial
thread is a thread, and `None` and the pids of Scheme and the shell are none of the
things they stand beside (`ThreadAssumption`, `QueueAssumption`, `CondVarAssumption`,
`PidsAssumption`); the process table is an array (`SlotsAssumption`); a barrier is made
for at least one thread (`BarrierAssumption`); the fault and reuse switches are what
they are named (`FaultsAssumption`); the frames beyond a frame are a chain that is
the same seen from each of them (`ChainAssumption`), and programs and references name
frames, symbols and values that exist (`ProgramAssumption`); a heap is a graph whose pointers point to its
objects, and the hash table has at least one bucket (`HeapAssumption`); a half digit has at
least one bit (`HalfLengthAssumption`), and a fixnum without its sign is at least as long
as a half word and shorter than a digit (`FixnumLengthAssumption`: the code has fixnums of
57 bits, half words of 32 and digits of 62, or of 25, 16 and 30).  Two theorems
about subprocesses have hypotheses of their own, named in the table.  Without
`~ PidReuse` they are false: run pid_reuse is the counterexample.  The second excludes a
failing tcsetpgrp for a reason given below.  Those about variable caches are about
programs that are `Independent`: they link no variables, their references are looked
up in their block's frame, and no parameter of a procedure is assigned, defined or
unbound in its own frame.  They may still define, assign and unbind anything else in
any frame, a procedure's parameters from the frames inside it included, and two of the
three programs of run lookup are `Independent`.  The second and third conditions
are needed for what the code does with the references of
`compiler_cache_global_operator` and with parameters that have been unbound (see *Other
disagreements*).  `GraphIsPreserved`, `EphemeronsAreKept` and `WalksEnd` are about
collections that start from a heap no two of whose ephemerons have the same key
(`DistinctKeys`): with two that do, `queue_ephemerons_for_key` may lose one or walk in a
circle, and run ephemeron_key is the counterexample.  Any number of ephemerons may
share a bucket.

**Scheduler.**  `RunQueueOK`, `ContinuationOK` and `NoLostWakeup` are not inductive
alone.  Waking a thread appends it to the run queue, which is right only if a waiting
thread is not in it (`RunQueueOK`); dispatching needs the continuation of the thread
that becomes first, hence of every thread that is not first (`ContinuationOK`); and a
thread may start to wait only if it does not block the events that will wake it, which
is decided a few steps earlier.  The inductive invariant `SchedInv` is the conjunction
of the four properties and `StretchOK`, which says what holds inside two masked
stretches: during `"suspend"` the current thread has traded `#t` for `'suspended`, and
during `"yield"` it has allowed preemption again.  The proof first shows what the few
kinds of step do to the scheduler's variables: a step that leaves the queue alone
(`OwnStep`), a wakeup (`SignalStep`), a dispatch (`DispatchStep`), the first thread
leaving (`NotRunningStep`) or going to the end (`YieldStep`), a start (`StartStep`), and
a change between the two running states (`HeadStateStep`).  Each action is then one or
two of these, and the other proofs about threads build on the same kinds.

**Calls.**  `PcOK` relates where a thread stands inside a call to its execution state:
only the current thread, or one that was interrupted, moves.  `CallInv` adds `SleepOK`,
`BlockOnIOOK` and `IOStretch`: block-on-io suspends only while its event is registered
or pending, which the code decides under the mask before it suspends.

**Mutexes.**  `MutexInv` adds `LockStretch` to `MutexOK` and `HandOffOK`: a thread parks
only while it is not the owner (the hand-over may come first), exit has emptied the
thread's list of mutexes before the joins are released, and a dead thread owns nothing.
The hand-over is one case of the induction for each way a mutex is released, with the
thread made to exit while it waits for another mutex among them.  `MutexFIFO` follows
from the same invariant.

**Joins.**  `JoinInv` is `JoinOK` with `ReleaseOK`, the state of the loop in
`release-joined-threads` (whom it has answered and whom not), and `GoneOK`, what the
stretch `"exit"` has already taken away from a thread that is not yet dead.

**Condition variables and barriers.**  `CondVarInv` strengthens `WaiterReachable` and
`QueueClean` with `SignallerOK`: a signaller that is interrupted has not lost its place,
whatever the waiter does meanwhile without the lock.  `BarrierInv` adds that a
generation that a thread has read has begun, and that finitely many have arrived.

**Queues.**  `PairsInv` says which chain of pairs the queue is, through a witness: a
sequence of distinct pairs from `first_pair` to `last_pair`, each the `cdr` of the one
before it.  From it follow `QueueShape`, what the walks of the model compute, and, step
by step, that `Contents` changes as `BoundedQueue` allows.  `WaitersOK` adds what the
lists of waiting threads hold; the exception in `DequeuersRestarted` (a thread behind
one that has exited) is needed exactly where `signal-thread-event` fails.

**Subprocesses.**  `ProcInv` is the type, the kernel's view (`KernelOK`), the slots, the
primitive in progress with the actions its transaction has recorded, the owner of the
terminal and the runtime's structures.  It is inductive also when pids are reused and
system calls fail, so that `PrimitiveCleanedUp` and `StatusKnown` need no hypothesis.
`OwnInv` adds that a slot's pid is no other slot's and no stranger's (`~ PidReuse`), and
`SignalInv` that an abort never has a live process to kill (`AbortOK`).  An aborted
transaction opens the signal mask before `process_allocate_abort` tests the slot and kills
(`uxproc.c:187`), and a failing tcsetpgrp is the only way to come there with a process
in the slot.  That is why the theorem excludes it, and it remains one of the hazards
no property covers.

**Variable caches.**  The properties speak of the cache a location points to and the cell
a search stops at; what relates them is the list of references each cache keeps.
`HInv` is four invariants.  `Held`: a trap is in one cell and has the cache of its
number, a reference is in at most one cache's list, under the symbol of the cell, and
its location holds what `install_cache` writes.  `CloneOK`: assignments trap where
operators depend on the value.  `Placed`: a reference is in the lists of the cache
whose trap is in the cell where its search stops.  `Tracked`: every installed
reference is in a list.  Only `Placed` depends on the chain, and it is what a
definition or an unbinding breaks until `update_cache_references` has moved the
references.  `ShadowedStops`, `OthersStop` and `PassingStops` say which searches stop
elsewhere when a cell comes to bind a symbol: those that come through its frame and
stopped beyond it, which are the ones that `move_ref_pair_p` selects, because without
links a cache has references to one symbol.  Each part of an operation
(`InstallHolds`, `UpdateCloneHolds`, `MoveKindsHolds`, `UpdateHolds`, ...) says what it keeps of
`Held` and which references it has moved, and `ReclaimHolds` that the collector takes
no cache a reference needs.

**Collector.**  `CopyInv` is an invariant of to-space.  `ShapeOK` says that the copies
tile it; `CopiesOK` that a copy starts where its broken heart says and is as long as its
object; `WordsOK` which words may be skipped by the scan (only those behind the header
of an ephemeron whose key is still in from-space); `LinksOK` that bucket, queue and list
links lead to the headers of ephemerons, and `WeakOK` that the weak chain is one of
copied weak pairs; `ListOK` and `ScanOK`
that the scan never stops inside an ephemeron that waits.  Every operation on the
memory is shown to take it to a `Later` one, in which copies stay where they are and
nothing waits that did not before, and each action is a few such operations.  The
invariant does not need that ephemerons have distinct keys: it holds through the
finding of run ephemeron_key, and even when a walk of a bucket never ends.

`GraphInv` is the invariant of what the words say, for heaps with `DistinctKeys`.
`Faithful`: each word of a copy is the word of its object or, once scanned, the image of
it (`Same`), except that the car of a weak pair is hidden while the pair is on the weak
chain, and that an ephemeron whose key is not copied is hidden behind its header.
`Clean` and `StackDone`: no pointer to from-space is left behind the scan, but in the
ephemerons that wait.  `Listed` and `Kept`: those that wait are in the list in the order
of their addresses, and each of them with an uncopied datum is in the bucket of its key
or in the queue.  A chain is not followed by recursion but given by a witness: a set of
addresses with ranks that fall along the links (`Descends`), which are the addresses
themselves in the buckets and arbitrary in the queue.  Copying an object breaks `Kept`
for one key only, because keys are distinct; `queue_ephemerons_for_key` repairs it, and
the lemma on it (`QueueKept`) follows the walk round by round (`StageRound`): before the
key is found the walk goes down the bucket, after it the walk goes on from the link that
now belongs to the queue, and in both cases less is left to walk.  In the steps
`"stack"` and `"scan"` nothing is queued, and the key of an ephemeron in the table may have
been copied since (`Unsorted`); the walk of the list queues those, and the queue is empty only when no ephemeron
that waits has a key that lives.  At that point the copied objects are closed under what
`Strong` says they keep alive, and they are live, since only live objects are copied: so
they are `Live`, which `LiveFacts` shows to be the least such set, from the definition
with a recursive function.  That the final words are those of `NewWords` is
then `Faithful` at the end.

**Fixnums.**  A primitive is a single step, so the invariant is `FixnumExact` itself with
the operands' type; the work is in the arithmetic of words of unknown length.  The provers
have no facts about `2^k` when `k` is not a numeral.  `PowerOfNext` takes them from the
library's theorem on the number of subsets: the subsets of `1 .. k + 1` are those of
`1 .. k`, without and with `k + 1`.  `PowerOfSum` follows by induction, and from it
`Sizes`: a half word squared is a word, the limit of the middle product times a half word
is the sign bit of a fixnum, and four times that sign bit still fits a long.  So sums and differences of
fixnums never wrap (`ResultExact`).  For `Mul`, `HalfProduct` is the schoolbook product
of half words: if both high halves are there, the product is at least a word; otherwise it
is the low product and the shifted middle one, and if either exceeds its limit, so does the whole.
What is left of the code's tests is then exact (`MulExact`), but for one product: the
smallest fixnum, whose absolute value is no fixnum, is refused although it is one.
Generic multiplication then takes the bignum path, and the primitive MULTIPLY-FIXNUM
signals an error.  `LongDivision` shows that quotient and remainder of the absolute
values, with the signs the code gives them, are those of truncating division in all four
quadrants; the one quotient that is no fixnum is that of the smallest fixnum by -1.

**Induction over numbers.**  Where a proof needs it (the walks of the hash table, the
loop `gc_tuple`, chains of pairs, powers of two) it is done with sets: `LeastNatural`, from the
well-foundedness of `<`, takes the least counterexample.

### What is only model-checked

* The coherence of variable caches in programs that link variables.  Linked cells share
  a trap, and a cache then has references to several symbols and cells; `Held` and
  `Placed` have no form yet that covers it.
* Liveness (`SleepEnds`, `GrantEnds`, `RoundRobin`, `TimedCallReturns`, `CollectionEnds`,
  `WaitReturns`): fairness and `ENABLED` are out of the prover's reach.
* The arithmetic on bignums: what the folds over digits compute for every input needs
  induction over data, and `Bignum` uses `Bitwise`.  The generic primitives, which choose
  between fixnums and bignums, rest on it.

## Plan

1. (done) `ThreadScheduler`: the core, its runs, and the proofs of the scheduler
   invariants.
2. (done) `ThreadQueue` with the `BoundedQueue` it refines, `CondVar` and `Barrier`, as
   clients of an abstract mutex and wakeup.
3. (done) The microcode: `VariableCache`, `GarbageCollector`, `Subprocess`, `Fixnum`,
   `Bignum` and `GenericInteger`.
4. (done) Theorems about the threads, queues, condition variables, barriers,
   subprocesses, the variable caches of programs without links, the collector, and
   fixnums.
5. More theorems: the invariants of `VariableCache` for programs that link variables.
6. `IORegistry`: descriptor and thread entries against the select registry, with
   the reset after a restored image; `ThreadTimer`: records ordered by time and the
   armed timer; `Ring`: the pointer structure of `thread-low.scm`.
7. `StateSpace`, `EventDistributor`, `GCFinalizer`; events that suspend or leave
   through a continuation.

## Not modelled

The list is in `PROJECT.json` under `components`.  Most of the C in the repository is
not of a kind that a state machine with small instances says anything about:

* the Windows console and graphics (`nt*.c`), X and terminal drivers, file, socket
  and directory primitives: wrappers around system calls with no state of their own;
* the interpreter and the compiled-code interface (`interp.c`, `cmpint.c`) and the
  code that loads, dumps and relocates heap images for each machine and word size: one
  dispatch per object type over the whole heap, whose properties are about formats;
* the other copy of the microcode under `src/v8`, from which nothing in `src/src` is
  built;
* flonum, string, character and bit-string primitives: one call, one result, with
  nothing that a short unit test does not reach.

The compiler, `sf` and `cref` are sequential transformations of unbounded data; ports
and channels are input and output; Edwin, IMAIL and the libraries are
applications.  What is modelled is therefore a small share of the lines, chosen for
where order and boundaries matter.
