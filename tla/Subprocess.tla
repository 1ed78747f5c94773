----------------------------- MODULE Subprocess -----------------------------
(***************************************************************************)
(* Subprocesses: the process table of the microcode (uxproc.c, called      *)
(* through prosproc.c), the SIGCHLD and stop handlers (uxsig.c) that       *)
(* interrupt it, the transactions that bracket each primitive              *)
(* (transact.c), and the runtime's subprocess objects, registrations and   *)
(* waits (process.scm).                                                    *)
(*                                                                         *)
(* The kernel is external: a pid is free, a child of Scheme, or a          *)
(* bystander, and becomes free once wait(2) has reported its death.  A     *)
(* signal handler runs between any two steps of the program at which its   *)
(* signal is not blocked.  The ticks of the code are only ever compared    *)
(* for equality with the last synchronised tick, so a slot keeps "dirty"   *)
(* (tick # sync tick) and the table keeps "changed".                       *)
(***************************************************************************)
EXTENDS Naturals, Sequences, FiniteSets, TLC

CONSTANTS Pids,       \* the process ids the kernel hands out
          Slots,      \* process_table: the numbers 1..Cardinality(Slots)
          Objects,    \* the runtime's subprocess structures
          Threads,    \* the threads that call subprocess-wait
          Faults,     \* system calls that may fail: "vfork", "tcsetpgrp"
          PidReuse    \* may a child get the pid a terminated slot still has?

ASSUME SlotsAssumption == Cardinality(Slots) \in Nat \ {0} /\ Slots = 1..Cardinality(Slots)
ASSUME PidsAssumption == Pids \cap {"none", "scheme", "shell"} = {}
ASSUME FaultsAssumption == Faults \subseteq {"vfork", "tcsetpgrp"} /\ PidReuse \in BOOLEAN

VARIABLES table,      \* process_table
          changed,    \* process_tick # sync_tick
          fg,         \* foreground_child_process
          kernel,     \* external: the state of every pid
          sigchld,    \* external: SIGCHLD is pending
          tty,        \* external: the terminal's process group
          masked,     \* SIGCHLD and the stop signals are blocked
          prim,       \* the primitive in progress and its transaction
          object,     \* the subprocess structures
          regs,       \* subprocess-registrations
          waits,      \* subprocess-wait in each thread
          misdirected \* auxiliary: a signal reached a process not Scheme's

vars == <<table, changed, fg, kernel, sigchld, tty, masked, prim, object, regs,
          waits, misdirected>>
kernelVars == <<kernel, sigchld, misdirected>>
schemeVars == <<object, regs, waits>>

None == "none"
NoSlot == 0         \* NO_PROCESS
Terminated == {"ended"}    \* process_status_exited and process_status_signalled
Live == {"running", "stopped"}
FreeSlot == [id |-> None, raw |-> "free", status |-> "free", dirty |-> FALSE, jc |-> FALSE]
FreePid == [state |-> "free", owner |-> NoSlot, seen |-> TRUE]
FreeObject == [index |-> NoSlot, status |-> "new"]
Idle == [pc |-> "idle", op |-> "none", slot |-> NoSlot, actions |-> <<>>, todo |-> {}]
NotWaiting == [pc |-> "idle", on |-> None, event |-> "#f"]

\* UX_initialize_processes
Init ==
  /\ table = [s \in Slots |-> FreeSlot]
  /\ changed = FALSE
  /\ fg = NoSlot
  /\ kernel = [p \in Pids |-> FreePid]
  /\ sigchld = FALSE
  /\ tty = "scheme"
  /\ masked = FALSE
  /\ prim = Idle
  /\ object = [o \in Objects |-> FreeObject]
  /\ regs = {}
  /\ waits = [t \in Threads |-> NotWaiting]
  /\ misdirected = FALSE

-----------------------------------------------------------------------------
(* The kernel (external): children run, stop, continue and die by          *)
(* themselves; free pids come and go as processes of other users.          *)

Report(p, state) ==
  /\ kernel' = [kernel EXCEPT ![p].state = state, ![p].seen = FALSE]
  /\ sigchld' = TRUE
  /\ UNCHANGED misdirected

ChildEnds(p) ==
  /\ kernel[p].state \in Live
  /\ Report(p, "ended")

ChildStops(p) == kernel[p].state = "running" /\ Report(p, "stopped")

\* Another process sends SIGCONT: wait(2) reports no continuation.
ChildContinues(p) ==
  /\ kernel[p].state = "stopped"
  /\ kernel' = [kernel EXCEPT ![p].state = "running", ![p].seen = TRUE]
  /\ UNCHANGED <<sigchld, misdirected>>

Recycled(p) ==
  /\ \/ kernel[p].state = "free" /\ kernel' = [kernel EXCEPT ![p].state = "bystander"]
     \/ kernel[p].state = "bystander" /\ kernel' = [kernel EXCEPT ![p].state = "free"]
  /\ UNCHANGED <<sigchld, misdirected>>

KernelStep ==
  /\ \E p \in Pids : ChildEnds(p) \/ ChildStops(p) \/ ChildContinues(p) \/ Recycled(p)
  /\ UNCHANGED <<table, changed, fg, tty, masked, prim, schemeVars>>

\* kill(2), for the process of slot s.
Kill(s, sig) ==
  LET p == table[s].id
      k == kernel[p] IN
  /\ misdirected' = (misdirected \/ k.owner # s)
  /\ CASE sig = "kill" /\ k.state \in Live ->
            kernel' = [kernel EXCEPT ![p].state = "ended", ![p].seen = FALSE] /\ sigchld' = TRUE
       [] sig = "stop" /\ k.state = "running" ->
            kernel' = [kernel EXCEPT ![p].state = "stopped", ![p].seen = FALSE] /\ sigchld' = TRUE
       [] sig = "cont" /\ k.state = "stopped" ->
            kernel' = [kernel EXCEPT ![p].state = "running", ![p].seen = TRUE] /\ UNCHANGED sigchld
       [] OTHER -> UNCHANGED <<kernel, sigchld>>

-----------------------------------------------------------------------------
(* The signal handlers.  sigsuspend opens the mask while it waits.         *)

Interruptible == ~masked \/ prim.pc = "suspended"

find_process(p) ==
  LET found == {s \in Slots : table[s].id = p} IN
  IF found = {} THEN NoSlot ELSE CHOOSE s \in found : \A r \in found : s <= r

\* The handler returns into sigsuspend's caller.
Resumed == IF prim.pc = "suspended" THEN [prim EXCEPT !.pc = "wait"] ELSE prim

\* sighnd_dead_subprocess: wait for every child with something to report.
sighnd_dead_subprocess ==
  LET reported == {p \in Pids : ~kernel[p].seen}
      dead(s) == \E p \in reported : find_process(p) = s
      news(s) == kernel[table[s].id].state IN
  /\ sigchld /\ Interruptible
  /\ sigchld' = FALSE
  /\ kernel' = [p \in Pids |->
       IF p \notin reported THEN kernel[p]
       ELSE IF kernel[p].state \in Terminated THEN FreePid
       ELSE [kernel[p] EXCEPT !.seen = TRUE]]
  /\ table' = [s \in Slots |->
       IF dead(s) THEN [table[s] EXCEPT !.raw = news(s), !.dirty = TRUE] ELSE table[s]]
  /\ changed' = (changed \/ \E s \in Slots : dead(s))
  /\ prim' = Resumed
  /\ UNCHANGED <<fg, tty, masked, schemeVars, misdirected>>

\* Mutant: the child keeps the terminal.
get_terminal_back_forgotten == fg' = NoSlot /\ tty' = tty

get_terminal_back == fg' = NoSlot /\ tty' = IF fg # NoSlot THEN "scheme" ELSE tty

\* sighnd_stop and stop_signal_handler: take the terminal back, then stop.
\* The shell has the terminal until it puts Scheme in the foreground again.
sighnd_stop ==
  /\ Interruptible
  /\ tty # "shell"
  /\ fg' = NoSlot /\ tty' = "shell"
  /\ prim' = Resumed
  /\ UNCHANGED <<table, changed, masked, kernelVars, schemeVars>>

ShellForeground ==
  /\ tty = "shell"
  /\ tty' = "scheme"
  /\ UNCHANGED <<table, changed, fg, masked, prim, kernelVars, schemeVars>>

-----------------------------------------------------------------------------
(* Transactions: the recorded actions run last first, when the primitive   *)
(* commits and when an error unwinds it.                                   *)

\* From here on the recorded actions run, and then the primitive returns.
Committing(p) == [p EXCEPT !.pc = "commit"]
Aborting(p) == [p EXCEPT !.pc = "abort"]

LastAction == prim.actions[Len(prim.actions)]
Popped == [prim EXCEPT !.actions = SubSeq(@, 1, Len(@) - 1)]

\* The other fields of a free slot are written before they are read again.
OS_process_deallocate(s) == table' = [table EXCEPT ![s] = FreeSlot]

Unwinding == prim.pc \in {"commit", "abort"} /\ prim.actions # <<>>

restore_signal_mask ==
  /\ Unwinding /\ LastAction = "mask"
  /\ masked' = FALSE
  /\ prim' = Popped
  /\ UNCHANGED <<table, changed, fg, tty, kernelVars, schemeVars>>

get_terminal_back_1 ==
  /\ Unwinding /\ LastAction = "terminal"
  /\ get_terminal_back
  /\ prim' = Popped
  /\ UNCHANGED <<table, changed, masked, kernelVars, schemeVars>>

\* A tat_abort action: nothing when the transaction commits.  Otherwise the
\* slot's status is tested here, and SIGKILL sent in a later step.
process_allocate_abort ==
  /\ Unwinding /\ LastAction = "allocate"
  /\ CASE prim.pc = "commit" -> prim' = Popped /\ UNCHANGED table
       [] prim.pc = "abort" /\ table[prim.slot].raw \in Live ->
            prim' = [Popped EXCEPT !.actions = Append(@, "kill")] /\ UNCHANGED table
       [] OTHER -> prim' = Popped /\ OS_process_deallocate(prim.slot)
  /\ UNCHANGED <<changed, fg, tty, masked, kernelVars, schemeVars>>

process_abort_kill ==
  /\ Unwinding /\ LastAction = "kill"
  /\ Kill(prim.slot, "kill")
  /\ prim' = Popped
  /\ OS_process_deallocate(prim.slot)
  /\ UNCHANGED <<changed, fg, tty, masked, schemeVars>>

\* The end of a transaction: the primitive's value, or an error, is returned.
transaction_end ==
  /\ prim.pc \in {"commit", "abort"} /\ prim.actions = <<>>
  /\ prim' = IF prim.pc = "commit" /\ prim.op \in {"make", "make_fg"}
             THEN [prim EXCEPT !.pc = "made"] ELSE Idle
  /\ UNCHANGED <<table, changed, fg, tty, masked, kernelVars, schemeVars>>

Transaction ==
  restore_signal_mask \/ get_terminal_back_1 \/ process_allocate_abort
    \/ process_abort_kill \/ transaction_end

-----------------------------------------------------------------------------
(* Making a subprocess.                                                    *)

Ready == prim.pc = "idle"

\* process_allocate, in the transaction of OS_make_subprocess; a full table
\* whose realloc fails is an error and leaves no trace.
process_allocate ==
  /\ Ready
  /\ \E op \in {"make", "make_fg"}, s \in Slots :
       /\ table[s].raw = "free"
       /\ \A r \in Slots : r < s => table[r].raw # "free"
       /\ table' = [table EXCEPT ![s].raw = "allocated"]
       /\ prim' = [Idle EXCEPT !.pc = "vfork", !.op = op, !.slot = s, !.actions = <<"allocate">>]
  /\ \E o \in Objects : object[o] = FreeObject
  /\ UNCHANGED <<changed, fg, tty, masked, kernelVars, schemeVars>>

\* block_sigchld or block_jc_signals, then vfork and what the parent does
\* before it waits; the child has its process group when vfork returns.  A child
\* in the background needs only SIGCHLD blocked: the model blocks the stop signal
\* too, whose handler finds no child of this primitive in the foreground.
OS_make_subprocess ==
  /\ prim.pc = "vfork"
  /\ masked' = TRUE
  /\ LET blocked == [prim EXCEPT !.actions = Append(@, "mask")] IN
     \/ /\ "vfork" \in Faults
        /\ prim' = Aborting(blocked)
        /\ UNCHANGED <<table, kernel>>
     \/ \E p \in Pids, jc \in (IF prim.op = "make" THEN BOOLEAN ELSE {TRUE}) :
          /\ kernel[p].state = "free"
          /\ PidReuse \/ \A s \in Slots : table[s].id # p
          /\ kernel' = [kernel EXCEPT ![p] = [state |-> "running", owner |-> prim.slot, seen |-> TRUE]]
          /\ table' = [table EXCEPT ![prim.slot] =
               [id |-> p, raw |-> "running", status |-> "running", dirty |-> FALSE, jc |-> jc]]
          /\ prim' = IF prim.op = "make" THEN Committing(blocked)
                     ELSE [blocked EXCEPT !.pc = "terminal"]
  /\ UNCHANGED <<changed, fg, tty, sigchld, misdirected, schemeVars>>

\* poll-subprocess-status
Poll(o) ==
  LET s == object[o].index IN
  IF s # NoSlot /\ table[s].dirty
  THEN /\ table' = [table EXCEPT ![s].status = table[s].raw, ![s].dirty = FALSE]
       /\ object' = [object EXCEPT ![o].status = table[s].raw]
  ELSE UNCHANGED <<table, object>>

\* The rest of make-subprocess: the structure, its status, a first poll, and
\* subprocess-continue-foreground for one that is still running.
make_subprocess ==
  /\ prim.pc = "made"
  /\ \E o \in Objects :
       LET s == prim.slot
           status == IF table[s].dirty THEN table[s].raw ELSE table[s].status IN
       /\ object[o] = FreeObject
       /\ object' = [object EXCEPT ![o] = [index |-> s, status |-> status]]
       /\ table' = [table EXCEPT ![s].status = status, ![s].dirty = FALSE]
       /\ prim' = IF prim.op = "make_fg" /\ status = "running"
                  THEN [Idle EXCEPT !.pc = "continue", !.op = "foreground", !.slot = s] ELSE Idle
  /\ UNCHANGED <<changed, fg, tty, masked, kernelVars, regs, waits>>

-----------------------------------------------------------------------------
(* Signals, and waiting in the foreground.                                 *)

\* Mutant: the status of the last synchronisation is tested.
send_signal_by_status ==
  /\ Ready
  /\ \E o \in Objects, sig \in {"kill", "stop"} :
       LET s == object[o].index IN
       /\ s # NoSlot
       /\ table[s].status \in Live
       /\ Kill(s, sig)
  /\ UNCHANGED <<table, changed, fg, tty, masked, prim, schemeVars>>

\* OS_process_send_signal: SIGCHLD is blocked from the test to the kill; on a
\* terminated process it is an error.
OS_process_send_signal ==
  /\ Ready
  /\ \E o \in Objects, sig \in {"kill", "stop"} :
       LET s == object[o].index IN
       /\ s # NoSlot
       /\ table[s].raw \in Live
       /\ Kill(s, sig)
  /\ UNCHANGED <<table, changed, fg, tty, masked, prim, schemeVars>>

NEW_RAW_STATUS(s, raw) ==
  /\ table' = [table EXCEPT ![s].raw = raw, ![s].dirty = TRUE]
  /\ changed' = TRUE

\* Mutant: a process that has ended is marked as running too.
ContinueAny(s) ==
  /\ IF table[s].raw = "stopped" THEN Kill(s, "cont") ELSE UNCHANGED kernelVars
  /\ IF table[s].raw # "running" THEN NEW_RAW_STATUS(s, "running")
     ELSE UNCHANGED <<table, changed>>

\* A stopped process is marked as running and sent SIGCONT.
Continue(s) ==
  IF table[s].raw = "stopped"
  THEN NEW_RAW_STATUS(s, "running") /\ Kill(s, "cont")
  ELSE UNCHANGED <<table, changed, kernelVars>>

OS_process_continue_background ==
  /\ Ready
  /\ \E o \in Objects :
       /\ object[o].index # NoSlot
       /\ table[object[o].index].raw \in Live
       /\ Continue(object[o].index)
  /\ UNCHANGED <<fg, tty, masked, prim, schemeVars>>

\* subprocess-continue-foreground calls PROCESS-CONTINUE-FOREGROUND.
subprocess_continue_foreground ==
  /\ Ready
  /\ \E o \in Objects :
       /\ object[o].index # NoSlot
       /\ prim' = [Idle EXCEPT !.pc = "continue", !.op = "foreground", !.slot = object[o].index]
  /\ UNCHANGED <<table, changed, fg, tty, masked, kernelVars, schemeVars>>

\* The primitive tests its argument (an error when the process has ended),
\* and only then blocks the job-control signals.
process_continue_foreground ==
  /\ prim.pc = "continue"
  /\ prim' = IF table[prim.slot].jc /\ table[prim.slot].raw \in Live
             THEN [prim EXCEPT !.pc = "block"] ELSE Idle
  /\ UNCHANGED <<table, changed, fg, tty, masked, kernelVars, schemeVars>>

block_jc_signals ==
  /\ prim.pc = "block"
  /\ masked' = TRUE
  /\ prim' = [prim EXCEPT !.pc = "terminal", !.actions = Append(@, "mask")]
  /\ UNCHANGED <<table, changed, fg, tty, kernelVars, schemeVars>>

\* give_terminal_to, when Scheme is in the foreground; tcsetpgrp fails on a
\* process group that is gone.  Then OS_process_continue_foreground continues
\* the process.
give_terminal_to ==
  /\ prim.pc = "terminal"
  /\ LET s == prim.slot
         p == table[s].id
         recorded == [prim EXCEPT !.actions = Append(@, "terminal")]
         started == IF prim.op = "foreground" THEN Continue(s)
                    ELSE UNCHANGED <<table, changed, kernelVars>> IN
     \/ /\ tty # "scheme"
        /\ started
        /\ prim' = [prim EXCEPT !.pc = "wait"]
        /\ UNCHANGED <<fg, tty>>
     \/ /\ tty = "scheme"
        /\ kernel[p].state # "free"
        /\ fg' = s /\ tty' = p
        /\ started
        /\ prim' = [recorded EXCEPT !.pc = "wait"]
     \/ /\ tty = "scheme"
        /\ kernel[p].state = "free" \/ "tcsetpgrp" \in Faults
        /\ fg' = s
        /\ prim' = Aborting(recorded)
        /\ UNCHANGED <<table, changed, kernelVars, tty>>
  /\ UNCHANGED <<masked, schemeVars>>

\* process_wait: the loop around sigsuspend.
process_wait ==
  /\ prim.pc = "wait"
  /\ prim' = IF table[prim.slot].raw = "running"
             THEN [prim EXCEPT !.pc = "suspended"] ELSE Committing(prim)
  /\ UNCHANGED <<table, changed, fg, tty, masked, kernelVars, schemeVars>>

\* pending_interrupts_p ends the wait; the loop of
\* subprocess-continue-foreground is entered again by its caller.
PendingInterrupt ==
  /\ prim.pc \in {"wait", "suspended"}
  /\ prim' = Committing(prim)
  /\ UNCHANGED <<table, changed, fg, tty, masked, kernelVars, schemeVars>>

-----------------------------------------------------------------------------
(* Status changes reach the runtime.                                       *)

\* PROCESS-STATUS-SYNC-ALL, called by the scheduler when the select reports a
\* status change.  SIGCHLD may arrive before every process is polled.
status_sync_all ==
  /\ Ready
  /\ changed
  /\ changed' = FALSE
  /\ prim' = [Idle EXCEPT !.pc = "poll", !.todo = {o \in Objects : object[o].index # NoSlot}]
  /\ UNCHANGED <<table, fg, tty, masked, kernelVars, schemeVars>>

poll_subprocess_status ==
  /\ prim.pc = "poll"
  /\ \E o \in prim.todo :
       /\ Poll(o)
       /\ prim' = [prim EXCEPT !.todo = @ \ {o}]
  /\ UNCHANGED <<changed, fg, tty, masked, kernelVars, regs, waits>>

\* Mutant: the table is marked as synchronised after the polling, not before.
signal_registrations_late ==
  LET stale == {r \in regs : r.status # object[r.on].status}
      current == {[r EXCEPT !.status = object[r.on].status] : r \in regs} IN
  /\ prim.pc = "poll" /\ prim.todo = {}
  /\ waits' = [t \in Threads |->
       IF \E r \in stale : r.thread = t
       THEN [waits[t] EXCEPT !.event = object[waits[t].on].status] ELSE waits[t]]
  /\ regs' = {r \in current : r.status \notin Terminated}
  /\ prim' = Idle
  /\ changed' = FALSE
  /\ UNCHANGED <<table, fg, tty, masked, kernelVars, object>>

\* Signal the registrations whose status is not the process's, then drop the
\* ones whose process has ended.
signal_registrations ==
  LET stale == {r \in regs : r.status # object[r.on].status}
      current == {[r EXCEPT !.status = object[r.on].status] : r \in regs} IN
  /\ prim.pc = "poll" /\ prim.todo = {}
  /\ waits' = [t \in Threads |->
       IF \E r \in stale : r.thread = t
       THEN [waits[t] EXCEPT !.event = object[waits[t].on].status] ELSE waits[t]]
  /\ regs' = {r \in current : r.status \notin Terminated}
  /\ prim' = Idle
  /\ UNCHANGED <<table, changed, fg, tty, masked, kernelVars, object>>

-----------------------------------------------------------------------------
(* subprocess-wait and subprocess-delete.                                  *)

\* Mutant: a registration is not signalled when the process is known to have ended.
subprocess_wait_silent ==
  /\ Ready
  /\ \E t \in Threads, o \in Objects :
       /\ waits[t].pc = "idle"
       /\ object[o].index # NoSlot
       /\ regs' = regs \cup {[on |-> o, thread |-> t, status |-> object[o].status]}
       /\ waits' = [waits EXCEPT ![t] = [pc |-> "waiting", on |-> o, event |-> "#f"]]
  /\ UNCHANGED <<table, changed, fg, tty, masked, prim, kernelVars, object>>

\* register-subprocess-event, with the status "running": a process that is
\* known not to run is signalled at once.
subprocess_wait ==
  /\ Ready
  /\ \E t \in Threads, o \in Objects :
       LET status == object[o].status IN
       /\ waits[t].pc = "idle"
       /\ object[o].index # NoSlot
       /\ regs' = regs \cup {[on |-> o, thread |-> t, status |-> status]}
       /\ waits' = [waits EXCEPT ![t] = [pc |-> "waiting", on |-> o,
                      event |-> IF status = "running" THEN "#f" ELSE status]]
  /\ UNCHANGED <<table, changed, fg, tty, masked, prim, kernelVars, object>>

\* The thread is suspended while it has no event.  Its events run in order,
\* each setting the result, so only the last one counts; "running" is no result.
subprocess_wait_event(t) ==
  /\ Ready
  /\ waits[t].pc = "waiting" /\ waits[t].event # "#f"
  /\ IF waits[t].event = "running"
     THEN waits' = [waits EXCEPT ![t].event = "#f"] /\ UNCHANGED regs
     ELSE /\ waits' = [waits EXCEPT ![t].pc = "returned"]
          /\ regs' = {r \in regs : r.thread # t}
  /\ UNCHANGED <<table, changed, fg, tty, masked, prim, kernelVars, object>>

\* The caller uses the result, or a throw or an exit leaves the wait: the
\* dynamic wind and deregister-subprocess-events drop the registration.
subprocess_wait_left(t) ==
  /\ Ready
  /\ waits[t].pc # "idle"
  /\ waits' = [waits EXCEPT ![t] = NotWaiting]
  /\ regs' = {r \in regs : r.thread # t}
  /\ UNCHANGED <<table, changed, fg, tty, masked, prim, kernelVars, object>>

\* subprocess-delete: the registrations go, the slot is freed whatever the
\* child does.  The structure is used again once nobody refers to it.
subprocess_delete ==
  /\ Ready
  /\ \E o \in Objects :
       /\ object[o].index # NoSlot
       /\ regs' = {r \in regs : r.on # o}
       /\ OS_process_deallocate(object[o].index)
       /\ object' = [object EXCEPT ![o] =
            [index |-> NoSlot, status |-> table[object[o].index].raw]]
  /\ UNCHANGED <<changed, fg, tty, masked, prim, kernelVars, waits>>

Collected ==
  /\ \E o \in Objects :
       /\ object[o].index = NoSlot /\ object[o] # FreeObject
       /\ \A t \in Threads : waits[t].on # o
       /\ object' = [object EXCEPT ![o] = FreeObject]
  /\ UNCHANGED <<table, changed, fg, tty, masked, prim, kernelVars, regs, waits>>

-----------------------------------------------------------------------------
Next ==
  \/ KernelStep \/ sighnd_dead_subprocess \/ sighnd_stop \/ ShellForeground
  \/ Transaction \/ process_allocate \/ OS_make_subprocess \/ make_subprocess
  \/ OS_process_send_signal \/ OS_process_continue_background
  \/ subprocess_continue_foreground \/ process_continue_foreground
  \/ block_jc_signals \/ give_terminal_to \/ process_wait \/ PendingInterrupt
  \/ status_sync_all \/ poll_subprocess_status \/ signal_registrations
  \/ subprocess_wait \/ subprocess_delete \/ Collected
  \/ \E t \in Threads : subprocess_wait_event(t) \/ subprocess_wait_left(t)

(* A primitive that has begun goes on, and the timer interrupt ends a wait  *)
(* in the foreground.  A pending SIGCHLD is delivered when its mask opens,  *)
(* and between primitives the scheduler runs again and again: strong        *)
(* fairness, since other calls may come first any number of times.          *)
Fairness ==
  /\ WF_vars(Transaction) /\ WF_vars(OS_make_subprocess) /\ WF_vars(make_subprocess)
  /\ WF_vars(process_continue_foreground) /\ WF_vars(block_jc_signals)
  /\ WF_vars(give_terminal_to) /\ WF_vars(PendingInterrupt)
  /\ WF_vars(poll_subprocess_status) /\ WF_vars(signal_registrations)
  /\ SF_vars(sighnd_dead_subprocess) /\ SF_vars(status_sync_all)
  /\ \A t \in Threads : SF_vars(subprocess_wait_event(t))

Spec == Init /\ [][Next]_vars /\ Fairness

-----------------------------------------------------------------------------
Statuses == Live \cup Terminated

\* Type invariant: a registration has the status of a process that exists
\* (process.scm: register-subprocess-event).
TypeOK ==
  /\ table \in [Slots -> [id : Pids \cup {None}, raw : Statuses \cup {"free", "allocated"},
                         status : Statuses \cup {"free"}, dirty : BOOLEAN, jc : BOOLEAN]]
  /\ kernel \in [Pids -> [state : Statuses \cup {"free", "bystander"},
                         owner : Slots \cup {NoSlot}, seen : BOOLEAN]]
  /\ fg \in Slots \cup {NoSlot}
  /\ tty \in Pids \cup {"scheme", "shell"}
  /\ regs \subseteq [on : Objects, thread : Threads, status : Statuses]
  /\ object \in [Objects -> [index : Slots \cup {NoSlot}, status : Statuses \cup {"new"}]]

\* "it is not OK to send a signal if the process has already terminated and we
\* have already called wait(2) -- its pid will be recycled": a signal to a
\* subprocess is sent only while its slot's child is one that wait(2) has not
\* given up, so it reaches no other process.  This is about signals that are
\* asked for (uxproc.c: OS_process_send_signal, OS_process_continue_background,
\* OS_process_continue_foreground); the SIGKILL of process_allocate_abort, sent
\* when tcsetpgrp fails, is not among them and can break it.
SignalsReachChild == ~misdirected

\* The table tells the truth about deaths: a slot that says "running" or
\* "stopped" has a child wait(2) has not given up, and the child is its own
\* (uxproc.c: subprocess_death, OS_process_continue_foreground).
DeathsRecorded ==
  \A s \in Slots : table[s].raw \in Live => kernel[table[s].id].owner = s

\* Between primitives, whatever interrupted or failed, no signal is blocked, no
\* slot is left half allocated and no child has kept the terminal; and Scheme
\* will not take the terminal from the shell (transact.c; uxproc.c:
\* get_terminal_back, stop_signal_handler).
PrimitiveCleanedUp ==
  /\ Ready => /\ ~masked
              /\ tty \notin Pids
              /\ \A s \in Slots : table[s].raw # "allocated"
  /\ tty = "shell" => fg = NoSlot

\* No status change is lost between the SIGCHLD handler and the waiting
\* threads: once the ticks agree and the scheduler is not polling, every
\* structure shows the status of its slot and every registration the same
\* (uxproc.c: OS_process_status_sync_all; process.scm:
\* handle-subprocess-status-change).
StatusKnown ==
  ~changed /\ prim.pc # "poll" =>
    \A r \in regs : /\ object[r.on].status = table[object[r.on].index].raw
                    /\ r.status = object[r.on].status

Died(o) ==
  LET s == object[o].index IN
  s # NoSlot /\ (table[s].raw \in Terminated \/ kernel[table[s].id].state \in Terminated)

\* A thread in subprocess-wait returns once the child has died, however its
\* SIGCHLD, the polling and the registration fall, unless the process is
\* deleted under it (process.scm: subprocess-wait, register-subprocess-event).
WaitReturns ==
  \A t \in Threads, o \in Objects :
    (waits[t].pc = "waiting" /\ waits[t].on = o /\ Died(o))
      ~> (waits[t].pc # "waiting" \/ object[o].index = NoSlot)
=============================================================================
