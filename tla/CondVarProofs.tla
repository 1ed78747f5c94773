---------------------------- MODULE CondVarProofs ----------------------------
(***************************************************************************)
(* Proofs about condition variables (CondVar) and barriers (Barrier), for  *)
(* any set of threads, operations, count and bound.                        *)
(***************************************************************************)
EXTENDS Barrier, FiniteSetTheorems, TLAPS

Signalling == {"sig_scan", "sig_wake", "sig_done", "sig_remove"}

Places == {"idle", "locked", "enqueue", "release", "test", "suspend",
           "suspended", "cleanup", "relock", "sig_lock", "dead"}
            \cup Signalling

CondVarType ==
  /\ waiters \in Seq(Threads)
  /\ done \in [Threads -> BOOLEAN]
  /\ pc \in [Threads -> Places]

\* Who scans the queue owns its lock, so nobody else adds or removes a
\* waiter, and the waiter it looks at stays the first one.
SignallerOK ==
  \A t \in Threads :
    /\ pc[t] \in Signalling => lock = t
    /\ pc[t] \in {"sig_wake", "sig_done", "sig_remove"} => waiters # << >>
    /\ pc[t] = "sig_remove" => done[Head(waiters)]

CondVarInv == CondVarType /\ SignallerOK /\ WaiterReachable /\ QueueClean

\* What a thread does to a condition variable, in whatever instance.
CondVarStep(t) ==
  \/ LockMutex(t) \/ UnlockMutex(t) \/ Step(t) \/ Environment(t)
  \/ \E o : \E timeout \in BOOLEAN : BeginWait(t, o, timeout)
  \/ \E o : BeginSignal(t, o)

(***************************************************************************)
(* The queue.                                                              *)
(***************************************************************************)

\* remove-waiter! takes one waiter out and keeps the others.
LEMMA WithoutIndex ==
  ASSUME CondVarType, NEW t, Queued(t)
  PROVE  \E i \in 1..Len(waiters) :
           /\ waiters[i] = t
           /\ Without(t) \in Seq(Threads)
           /\ Len(waiters) \in Nat \ {0}
           /\ Len(Without(t)) = Len(waiters) - 1
           /\ \A j \in 1..(Len(waiters) - 1) :
                Without(t)[j] = waiters[IF j < i THEN j ELSE j + 1]
<1> DEFINE i == CHOOSE i \in 1..Len(waiters) : waiters[i] = t
<1>1. i \in 1..Len(waiters) /\ waiters[i] = t
  BY DEF Queued
<1>2. Without(t) = [j \in 1..(Len(waiters) - 1) |->
                      waiters[IF j < i THEN j ELSE j + 1]]
  BY DEF Without
<1> HIDE DEF i
<1>3. waiters \in Seq(Threads) /\ Len(waiters) \in Nat \ {0}
      /\ Len(waiters) - 1 \in Nat
  BY <1>1 DEF CondVarType
<1>4. ASSUME NEW j \in 1..(Len(waiters) - 1)
      PROVE  waiters[IF j < i THEN j ELSE j + 1] \in Threads
  BY <1>1, <1>3
<1>5. Without(t) \in [1..(Len(waiters) - 1) -> Threads]
  BY <1>2, <1>4
<1>6. Without(t) \in Seq(Threads) /\ Len(Without(t)) = Len(waiters) - 1
  <2>1. Without(t) \in Seq(Threads)
    BY <1>3, <1>5
  <2>2. DOMAIN Without(t) = 1..Len(Without(t)) /\ Len(Without(t)) \in Nat
    BY <2>1
  <2>3. DOMAIN Without(t) = 1..(Len(waiters) - 1)
    BY <1>5
  <2>4. QED
    BY <1>3, <2>1, <2>2, <2>3
<1>7. QED
  BY <1>1, <1>2, <1>3, <1>6

\* The waiters after remove-waiter!: the same ones, without t.
LEMMA WithoutWaiters ==
  ASSUME CondVarType, QueueClean, NEW t, waiters' = Without(t)
  PROVE  /\ waiters' \in Seq(Threads)
         /\ \A v : Queued(v)' <=> Queued(v) /\ v # t
         /\ \A i, j \in 1..Len(waiters') : waiters'[i] = waiters'[j] => i = j
<1>1. CASE ~Queued(t)
  BY <1>1 DEF Without, Queued, CondVarType, QueueClean
<1>2. CASE Queued(t)
  <2>1. PICK i \in 1..Len(waiters) :
           /\ waiters[i] = t
           /\ waiters' \in Seq(Threads)
           /\ Len(waiters) \in Nat \ {0}
           /\ Len(waiters') = Len(waiters) - 1
           /\ \A j \in 1..(Len(waiters) - 1) :
                waiters'[j] = waiters[IF j < i THEN j ELSE j + 1]
    BY <1>2, WithoutIndex
  <2>2. ASSUME NEW j \in 1..Len(waiters'), NEW k \in 1..Len(waiters'),
               waiters'[j] = waiters'[k]
        PROVE  j = k
    <3> DEFINE a == IF j < i THEN j ELSE j + 1
               b == IF k < i THEN k ELSE k + 1
    <3>1. /\ a \in 1..Len(waiters) /\ b \in 1..Len(waiters)
          /\ waiters[a] = waiters[b]
      BY <2>1, <2>2
    <3>2. a = b
      BY <3>1 DEF QueueClean
    <3>3. QED
      BY <3>2
  <2>3. ASSUME NEW v, Queued(v)' PROVE Queued(v) /\ v # t
    <3>1. PICK j \in 1..Len(waiters') : waiters'[j] = v
      BY <2>3 DEF Queued
    <3> DEFINE a == IF j < i THEN j ELSE j + 1
    <3>2. a \in 1..Len(waiters) /\ a # i /\ waiters[a] = v
      BY <2>1, <3>1
    <3>3. QED
      BY <2>1, <3>2 DEF Queued, QueueClean
  <2>4. ASSUME NEW v, Queued(v), v # t PROVE Queued(v)'
    <3>1. PICK k \in 1..Len(waiters) : waiters[k] = v
      BY <2>4 DEF Queued
    <3>2. CASE k < i
      <4>1. k \in 1..Len(waiters') /\ waiters'[k] = v
        BY <2>1, <3>1, <3>2
      <4>2. QED
        BY <4>1 DEF Queued
    <3>3. CASE ~(k < i)
      <4>1. k # i
        BY <2>1, <2>4, <3>1
      <4>2. k - 1 \in 1..Len(waiters') /\ waiters'[k - 1] = v
        BY <2>1, <3>1, <3>3, <4>1
      <4>3. QED
        BY <4>2 DEF Queued
    <3>4. QED
      BY <3>2, <3>3
  <2>5. QED
    BY <2>1, <2>2, <2>3, <2>4
<1>3. QED
  BY <1>1, <1>2

\* The waiters after the first one is removed.
LEMMA TailWaiters ==
  ASSUME CondVarType, QueueClean, waiters # << >>, waiters' = Tail(waiters)
  PROVE  /\ waiters' \in Seq(Threads)
         /\ Head(waiters) \in Threads
         /\ \A v : Queued(v)' <=> Queued(v) /\ v # Head(waiters)
         /\ \A i, j \in 1..Len(waiters') : waiters'[i] = waiters'[j] => i = j
<1>1. /\ waiters \in Seq(Threads) /\ Len(waiters) \in Nat \ {0}
      /\ Head(waiters) = waiters[1] /\ waiters[1] \in Threads
      /\ waiters' \in Seq(Threads) /\ Len(waiters') = Len(waiters) - 1
      /\ \A j \in 1..Len(waiters') : waiters'[j] = waiters[j + 1]
  BY DEF CondVarType
<1>2. ASSUME NEW j \in 1..Len(waiters'), NEW k \in 1..Len(waiters'),
             waiters'[j] = waiters'[k]
      PROVE  j = k
  <2>1. /\ j + 1 \in 1..Len(waiters) /\ k + 1 \in 1..Len(waiters)
        /\ waiters[j + 1] = waiters[k + 1]
    BY <1>1, <1>2
  <2>2. j + 1 = k + 1
    BY <2>1 DEF QueueClean
  <2>3. QED
    BY <2>2
<1>3. ASSUME NEW v, Queued(v)' PROVE Queued(v) /\ v # Head(waiters)
  <2>1. PICK j \in 1..Len(waiters') : waiters'[j] = v
    BY <1>3 DEF Queued
  <2>2. /\ j + 1 \in 1..Len(waiters) /\ 1 \in 1..Len(waiters)
        /\ j + 1 # 1 /\ waiters[j + 1] = v
    BY <1>1, <2>1
  <2>3. QED
    BY <1>1, <2>2 DEF Queued, QueueClean
<1>4. ASSUME NEW v, Queued(v), v # Head(waiters) PROVE Queued(v)'
  <2>1. PICK k \in 1..Len(waiters) : waiters[k] = v
    BY <1>4 DEF Queued
  <2>2. k # 1
    BY <1>1, <1>4, <2>1
  <2>3. k - 1 \in 1..Len(waiters') /\ waiters'[k - 1] = v
    BY <1>1, <2>1, <2>2
  <2>4. QED
    BY <2>3 DEF Queued
<1>5. QED
  BY <1>1, <1>2, <1>3, <1>4

\* The waiters after enqueue-waiter!.
LEMMA AppendWaiters ==
  ASSUME CondVarType, QueueClean, NEW t \in Threads, ~Queued(t),
         waiters' = Append(waiters, t)
  PROVE  /\ waiters' \in Seq(Threads)
         /\ \A v : Queued(v)' <=> Queued(v) \/ v = t
         /\ \A i, j \in 1..Len(waiters') : waiters'[i] = waiters'[j] => i = j
<1>1. /\ waiters \in Seq(Threads) /\ Len(waiters) \in Nat
      /\ waiters' \in Seq(Threads) /\ Len(waiters') = Len(waiters) + 1
      /\ waiters'[Len(waiters')] = t
      /\ \A j \in 1..Len(waiters) : waiters'[j] = waiters[j]
  BY DEF CondVarType
<1>2. ASSUME NEW j \in 1..Len(waiters'), NEW k \in 1..Len(waiters'),
             waiters'[j] = waiters'[k]
      PROVE  j = k
  <2>1. CASE j \in 1..Len(waiters) /\ k \in 1..Len(waiters)
    BY <1>1, <1>2, <2>1 DEF QueueClean
  <2>2. CASE j = Len(waiters') /\ k \in 1..Len(waiters)
    BY <1>1, <1>2, <2>2 DEF Queued
  <2>3. CASE k = Len(waiters') /\ j \in 1..Len(waiters)
    BY <1>1, <1>2, <2>3 DEF Queued
  <2>4. CASE k = Len(waiters') /\ j = Len(waiters')
    BY <2>4
  <2>5. QED
    BY <1>1, <2>1, <2>2, <2>3, <2>4
<1>3. ASSUME NEW v, Queued(v)' PROVE Queued(v) \/ v = t
  <2>1. PICK j \in 1..Len(waiters') : waiters'[j] = v
    BY <1>3 DEF Queued
  <2>2. QED
    BY <1>1, <2>1 DEF Queued
<1>4. ASSUME NEW v, Queued(v) \/ v = t PROVE Queued(v)'
  <2>1. CASE Queued(v)
    <3>1. PICK j \in 1..Len(waiters) : waiters[j] = v
      BY <2>1 DEF Queued
    <3>2. j \in 1..Len(waiters') /\ waiters'[j] = v
      BY <1>1, <3>1
    <3>3. QED
      BY <3>2 DEF Queued
  <2>2. CASE v = t
    <3>1. Len(waiters') \in 1..Len(waiters')
      BY <1>1
    <3>2. QED
      BY <1>1, <2>2, <3>1 DEF Queued
  <2>3. QED
    BY <1>4, <2>1, <2>2
<1>5. QED
  BY <1>1, <1>2, <1>3, <1>4

(***************************************************************************)
(* Every step keeps the invariant.                                         *)
(***************************************************************************)

\* Steps that leave the queue and the marks alone: the thread's new place
\* must agree with its waiter and with the lock.
LEMMA QuietStep ==
  ASSUME CondVarInv, NEW t \in Threads, UNCHANGED <<waiters, done>>,
         NEW next \in Places, Goto(t, next),
         \A v \in Threads \ {t} : lock = v => lock' = v,
         InLoop(t)' => InLoop(t),
         Queued(t) => InLoop(t)' \/ next \in {"cleanup", "dead"},
         next \in Signalling => lock' = t,
         next \in {"sig_wake", "sig_done", "sig_remove"} => waiters # << >>,
         next = "sig_remove" => done[Head(waiters)]
  PROVE  CondVarInv'
<1>1. /\ pc' \in [Threads -> Places] /\ pc'[t] = next
      /\ \A v \in Threads \ {t} : pc'[v] = pc[v]
  BY DEF CondVarInv, CondVarType, Goto
<1>2. CondVarType'
  BY <1>1 DEF CondVarInv, CondVarType
<1>3. SignallerOK'
  <2>1. ASSUME NEW v \in Threads
        PROVE  /\ pc'[v] \in Signalling => lock' = v
               /\ pc'[v] \in {"sig_wake", "sig_done", "sig_remove"} =>
                    waiters' # << >>
               /\ pc'[v] = "sig_remove" => done'[Head(waiters')]
    <3>1. CASE v = t
      BY <1>1, <3>1
    <3>2. CASE v # t
      BY <1>1, <3>2 DEF CondVarInv, SignallerOK
    <3>3. QED
      BY <3>1, <3>2
  <2>2. QED
    BY <2>1 DEF SignallerOK
<1>4. \A v \in Threads : Queued(v)' <=> Queued(v)
  BY DEF Queued
<1>5. \A v \in Threads \ {t} : InLoop(v)' <=> InLoop(v)
  BY <1>1 DEF InLoop
<1>6. WaiterReachable'
  BY <1>1, <1>4, <1>5 DEF CondVarInv, WaiterReachable
<1>7. QueueClean'
  <2>1. ASSUME NEW v \in Threads, Queued(v)'
        PROVE  InLoop(v)' \/ pc'[v] \in {"cleanup", "dead"}
    BY <1>1, <1>4, <1>5, <2>1 DEF CondVarInv, QueueClean
  <2>2. \A i, j \in 1..Len(waiters') : waiters'[i] = waiters'[j] => i = j
    BY DEF CondVarInv, QueueClean
  <2>3. QED
    BY <2>1, <2>2 DEF QueueClean
<1>8. QED
  BY <1>2, <1>3, <1>6, <1>7 DEF CondVarInv

\* A thread outside its wait has no waiter in the queue.
LEMMA NotQueued ==
  ASSUME CondVarInv, NEW t \in Threads,
         pc[t] \notin {"release", "test", "suspend", "suspended", "cleanup",
                       "dead"}
  PROVE  ~Queued(t)
BY DEF CondVarInv, QueueClean, InLoop

\* While nobody owns the lock nobody scans the queue.
LEMMA NobodySignals ==
  ASSUME CondVarInv, lock = None
  PROVE  \A t \in Threads : pc[t] \notin Signalling
BY CondVarAssumption DEF CondVarInv, SignallerOK

LEMMA LockMutexKeeps ==
  ASSUME CondVarInv, NEW t \in Threads, LockMutex(t)
  PROVE  CondVarInv'
BY QuietStep, NotQueued
   DEF LockMutex, Places, Signalling, Goto, InLoop, CondVarInv, CondVarType

LEMMA UnlockMutexKeeps ==
  ASSUME CondVarInv, NEW t \in Threads, UnlockMutex(t)
  PROVE  CondVarInv'
BY QuietStep, NotQueued
   DEF UnlockMutex, Places, Signalling, Goto, InLoop, CondVarInv, CondVarType

LEMMA RelockKeeps ==
  ASSUME CondVarInv, NEW t \in Threads, Relock(t)
  PROVE  CondVarInv'
BY QuietStep, NotQueued
   DEF Relock, Places, Signalling, Goto, InLoop, CondVarInv, CondVarType

LEMMA ReleaseKeeps ==
  ASSUME CondVarInv, NEW t \in Threads, Release(t)
  PROVE  CondVarInv'
BY QuietStep
   DEF Release, Places, Signalling, Goto, InLoop, CondVarInv, CondVarType

LEMMA TestKeeps ==
  ASSUME CondVarInv, NEW t \in Threads, Test(t)
  PROVE  CondVarInv'
BY QuietStep
   DEF Test, lockVars, Places, Signalling, Goto, InLoop, CondVarInv, CondVarType

LEMMA SuspendKeeps ==
  ASSUME CondVarInv, NEW t \in Threads, Suspend(t)
  PROVE  CondVarInv'
BY QuietStep
   DEF Suspend, lockVars, Places, Signalling, Goto, InLoop, CondVarInv, CondVarType

LEMMA ResumeKeeps ==
  ASSUME CondVarInv, NEW t \in Threads, Resume(t)
  PROVE  CondVarInv'
BY QuietStep
   DEF Resume, lockVars, Places, Signalling, Goto, InLoop, CondVarInv, CondVarType

LEMMA BeginSignalKeeps ==
  ASSUME CondVarInv, NEW t \in Threads, NEW o, BeginSignal(t, o)
  PROVE  CondVarInv'
BY QuietStep, NotQueued
   DEF BeginSignal, lockVars, Places, Signalling, Goto, InLoop, CondVarInv,
       CondVarType

LEMMA SignalLockKeeps ==
  ASSUME CondVarInv, NEW t \in Threads, SignalLock(t)
  PROVE  CondVarInv'
BY QuietStep, NotQueued, CondVarAssumption
   DEF SignalLock, lockVars, Places, Signalling, Goto, InLoop, CondVarInv,
       CondVarType

LEMMA ExitKeeps ==
  ASSUME CondVarInv, NEW t \in Threads, Exit(t)
  PROVE  CondVarInv'
BY QuietStep, CondVarAssumption
   DEF Exit, Places, Signalling, Goto, InLoop, CondVarInv, CondVarType

\* Steps that change nothing of what the invariant is about.
LEMMA ClockKeeps ==
  ASSUME CondVarInv, UNCHANGED <<waiters, done, lock, pc>>
  PROVE  CondVarInv'
BY DEF CondVarInv, CondVarType, SignallerOK, WaiterReachable, QueueClean,
       InLoop, Queued

\* A new waiter is not marked; the old one, if any, has left the queue.
LEMMA BeginWaitKeeps ==
  ASSUME CondVarInv, NEW t \in Threads, NEW o, NEW timeout,
         BeginWait(t, o, timeout)
  PROVE  CondVarInv'
<1>1. /\ pc[t] = "locked" /\ pc'[t] = "enqueue" /\ UNCHANGED <<waiters, lock>>
      /\ pc' \in [Threads -> Places] /\ done' \in [Threads -> BOOLEAN]
      /\ \A v \in Threads \ {t} : pc'[v] = pc[v] /\ done'[v] = done[v]
  BY DEF BeginWait, Goto, CondVarInv, CondVarType, lockVars, Places
<1>2. ~Queued(t)
  BY <1>1, NotQueued
<1>3. CondVarType'
  BY <1>1 DEF CondVarInv, CondVarType
<1>4. waiters # << >> => Head(waiters) \in Threads \ {t}
  <2>1. ASSUME waiters # << >>
        PROVE  /\ 1 \in 1..Len(waiters) /\ Head(waiters) = waiters[1]
               /\ waiters[1] \in Threads
    BY <2>1 DEF CondVarInv, CondVarType
  <2>2. QED
    BY <1>2, <2>1 DEF Queued
<1>5. SignallerOK'
  <2>1. ASSUME NEW v \in Threads
        PROVE  /\ pc'[v] \in Signalling => lock' = v
               /\ pc'[v] \in {"sig_wake", "sig_done", "sig_remove"} =>
                    waiters' # << >>
               /\ pc'[v] = "sig_remove" => done'[Head(waiters')]
    <3>1. CASE v = t
      BY <1>1, <3>1 DEF Signalling
    <3>2. CASE v # t
      BY <1>1, <1>4, <3>2 DEF CondVarInv, SignallerOK
    <3>3. QED
      BY <3>1, <3>2
  <2>2. QED
    BY <2>1 DEF SignallerOK
<1>6. WaiterReachable' /\ QueueClean'
  BY <1>1, <1>2 DEF CondVarInv, WaiterReachable, QueueClean, InLoop, Queued
<1>7. QED
  BY <1>3, <1>5, <1>6 DEF CondVarInv

LEMMA EnqueueKeeps ==
  ASSUME CondVarInv, NEW t \in Threads, Enqueue(t)
  PROVE  CondVarInv'
<1>1. /\ pc[t] = "enqueue" /\ pc'[t] = "release" /\ lock = None
      /\ UNCHANGED <<done, lock>> /\ waiters' = Append(waiters, t)
      /\ pc' \in [Threads -> Places]
      /\ \A v \in Threads \ {t} : pc'[v] = pc[v]
  BY DEF Enqueue, Goto, CondVarInv, CondVarType, lockVars, Places
<1>2. ~Queued(t)
  BY <1>1, NotQueued
<1>3. /\ waiters' \in Seq(Threads)
      /\ \A v : Queued(v)' <=> Queued(v) \/ v = t
      /\ \A i, j \in 1..Len(waiters') : waiters'[i] = waiters'[j] => i = j
  BY <1>1, <1>2, AppendWaiters DEF CondVarInv
<1>4. CondVarType'
  BY <1>1, <1>3 DEF CondVarInv, CondVarType
<1>5. SignallerOK'
  <2>1. \A v \in Threads : pc'[v] \notin Signalling
    BY <1>1, NobodySignals DEF Signalling
  <2>2. QED
    BY <2>1 DEF SignallerOK, Signalling
<1>6. WaiterReachable'
  <2>1. ASSUME NEW v \in Threads, InLoop(v)', ~done'[v] PROVE Queued(v)'
    BY <1>1, <1>3, <2>1 DEF CondVarInv, WaiterReachable, InLoop
  <2>2. QED
    BY <2>1 DEF WaiterReachable
<1>7. QueueClean'
  <2>1. ASSUME NEW v \in Threads, Queued(v)'
        PROVE  InLoop(v)' \/ pc'[v] \in {"cleanup", "dead"}
    BY <1>1, <1>3, <2>1 DEF CondVarInv, QueueClean, InLoop
  <2>2. QED
    BY <1>3, <2>1 DEF QueueClean
<1>8. QED
  BY <1>4, <1>5, <1>6, <1>7 DEF CondVarInv

LEMMA CleanupKeeps ==
  ASSUME CondVarInv, NEW t \in Threads, Cleanup(t)
  PROVE  CondVarInv'
<1>1. /\ pc[t] = "cleanup" /\ pc'[t] \in {"relock", "idle"} /\ lock = None
      /\ UNCHANGED <<done, lock>> /\ waiters' = Without(t)
      /\ pc' \in [Threads -> Places]
      /\ \A v \in Threads \ {t} : pc'[v] = pc[v]
  BY DEF Cleanup, Goto, CondVarInv, CondVarType, lockVars, Places
<1>2. /\ waiters' \in Seq(Threads)
      /\ \A v : Queued(v)' <=> Queued(v) /\ v # t
      /\ \A i, j \in 1..Len(waiters') : waiters'[i] = waiters'[j] => i = j
  BY <1>1, WithoutWaiters DEF CondVarInv
<1>3. CondVarType'
  BY <1>1, <1>2 DEF CondVarInv, CondVarType
<1>4. SignallerOK'
  <2>1. \A v \in Threads : pc'[v] \notin Signalling
    BY <1>1, NobodySignals DEF Signalling
  <2>2. QED
    BY <2>1 DEF SignallerOK, Signalling
<1>5. WaiterReachable'
  <2>1. ASSUME NEW v \in Threads, InLoop(v)', ~done'[v] PROVE Queued(v)'
    BY <1>1, <1>2, <2>1 DEF CondVarInv, WaiterReachable, InLoop
  <2>2. QED
    BY <2>1 DEF WaiterReachable
<1>6. QueueClean'
  <2>1. ASSUME NEW v \in Threads, Queued(v)'
        PROVE  InLoop(v)' \/ pc'[v] \in {"cleanup", "dead"}
    BY <1>1, <1>2, <2>1 DEF CondVarInv, QueueClean, InLoop
  <2>2. QED
    BY <1>2, <2>1 DEF QueueClean
<1>7. QED
  BY <1>3, <1>4, <1>5, <1>6 DEF CondVarInv

\* Removing the first waiter, which is marked.
LEMMA RemoveMarked ==
  ASSUME CondVarInv, NEW t \in Threads, pc[t] \in Signalling,
         waiters # << >>, done[Head(waiters)], waiters' = Tail(waiters),
         UNCHANGED done, lock' \in {lock, None},
         pc' \in [Threads -> Places], ~InLoop(t)',
         pc'[t] \in Signalling => lock' = t,
         pc'[t] \notin {"sig_wake", "sig_done", "sig_remove"},
         \A v \in Threads \ {t} : pc'[v] = pc[v]
  PROVE  CondVarInv'
<1>1. /\ waiters' \in Seq(Threads)
      /\ Head(waiters) \in Threads
      /\ \A v : Queued(v)' <=> Queued(v) /\ v # Head(waiters)
      /\ \A i, j \in 1..Len(waiters') : waiters'[i] = waiters'[j] => i = j
  BY TailWaiters DEF CondVarInv
<1>2. lock = t /\ \A v \in Threads \ {t} : pc[v] \notin Signalling
  BY DEF CondVarInv, SignallerOK
<1>3. CondVarType'
  BY <1>1 DEF CondVarInv, CondVarType
<1>4. SignallerOK'
  BY <1>2 DEF SignallerOK, Signalling
<1>5. ~InLoop(t) /\ ~Queued(t)
  BY NotQueued DEF InLoop, Signalling
<1>6. WaiterReachable'
  <2>1. ASSUME NEW v \in Threads, InLoop(v)', ~done'[v] PROVE Queued(v)'
    BY <1>1, <2>1 DEF CondVarInv, WaiterReachable, InLoop
  <2>2. QED
    BY <2>1 DEF WaiterReachable
<1>7. QueueClean'
  <2>1. ASSUME NEW v \in Threads, Queued(v)'
        PROVE  InLoop(v)' \/ pc'[v] \in {"cleanup", "dead"}
    BY <1>1, <1>5, <2>1 DEF CondVarInv, QueueClean, InLoop
  <2>2. QED
    BY <1>1, <2>1 DEF QueueClean
<1>8. QED
  BY <1>3, <1>4, <1>6, <1>7 DEF CondVarInv

\* The thread that gives up the lock goes on outside.
LEMMA EndSignalKeeps ==
  ASSUME CondVarInv, NEW t \in Threads, pc[t] \in Signalling, EndSignal(t),
         UNCHANGED <<waiters, done>>
  PROVE  CondVarInv'
<1>1. lock = t /\ ~Queued(t)
  BY NotQueued DEF CondVarInv, SignallerOK, Signalling
<1>2. PICK next \in {"locked", "idle"} : Goto(t, next)
  BY DEF EndSignal
<1>3. InLoop(t)' => InLoop(t)
  BY <1>2 DEF Goto, InLoop, CondVarInv, CondVarType
<1>4. next \in Places /\ next \notin Signalling /\ next # "sig_remove"
      /\ next \notin {"sig_wake", "sig_done", "sig_remove"}
  BY <1>2 DEF Places, Signalling
<1>5. QED
  BY <1>1, <1>2, <1>3, <1>4, QuietStep

LEMMA SignalScanKeeps ==
  ASSUME CondVarInv, NEW t \in Threads, SignalScan(t)
  PROVE  CondVarInv'
<1>1. pc[t] = "sig_scan" /\ pc[t] \in Signalling /\ lock = t /\ ~Queued(t)
      /\ UNCHANGED done
  BY NotQueued DEF SignalScan, CondVarInv, SignallerOK, Signalling
<1>2. CASE waiters = << >>
  BY <1>1, <1>2, EndSignalKeeps DEF SignalScan
<1>3. CASE waiters # << >> /\ done[Head(waiters)]
  <2>1. waiters' = Tail(waiters) /\ UNCHANGED <<lock, pc>>
    BY <1>3 DEF SignalScan
  <2>2. ~InLoop(t)' /\ pc' \in [Threads -> Places]
    BY <1>1, <2>1 DEF InLoop, CondVarInv, CondVarType
  <2>3. QED
    BY <1>1, <1>3, <2>1, <2>2, RemoveMarked
<1>4. CASE waiters # << >> /\ ~done[Head(waiters)]
  <2>1. Goto(t, "sig_wake") /\ UNCHANGED <<waiters, lock>>
    BY <1>4 DEF SignalScan
  <2>2. ~InLoop(t)'
    BY <2>1 DEF Goto, InLoop, CondVarInv, CondVarType
  <2>3. "sig_wake" \in Places
    BY DEF Places, Signalling
  <2>4. QED
    BY <1>1, <1>4, <2>1, <2>2, <2>3, QuietStep
<1>5. QED
  BY <1>2, <1>3, <1>4

LEMMA SignalWakeKeeps ==
  ASSUME CondVarInv, NEW t \in Threads, SignalWake(t)
  PROVE  CondVarInv'
<1>1. pc[t] = "sig_wake" /\ pc[t] \in Signalling /\ lock = t /\ ~Queued(t)
      /\ UNCHANGED <<waiters, done>> /\ waiters # << >>
  BY NotQueued DEF SignalWake, CondVarInv, SignallerOK, Signalling
<1>2. CASE EndSignal(t)
  BY <1>1, <1>2, EndSignalKeeps
<1>3. CASE Goto(t, "sig_done") /\ UNCHANGED lock
  <2>1. ~InLoop(t)'
    BY <1>3 DEF Goto, InLoop, CondVarInv, CondVarType
  <2>2. "sig_done" \in Places
    BY DEF Places, Signalling
  <2>3. QED
    BY <1>1, <1>3, <2>1, <2>2, QuietStep
<1>4. QED
  BY <1>2, <1>3 DEF SignalWake

\* The waiter is marked before it leaves the queue.
LEMMA SignalDoneKeeps ==
  ASSUME CondVarInv, NEW t \in Threads, SignalDone(t)
  PROVE  CondVarInv'
<1>1. pc[t] = "sig_done" /\ pc[t] \in Signalling /\ lock = t /\ ~Queued(t)
      /\ UNCHANGED <<waiters, lock>> /\ waiters # << >>
  BY NotQueued DEF SignalDone, CondVarInv, SignallerOK, Signalling, lockVars
<1>2. Head(waiters) \in Threads
  BY <1>1 DEF CondVarInv, CondVarType
<1>3. /\ pc' \in [Threads -> Places] /\ pc'[t] = "sig_remove"
      /\ \A v \in Threads \ {t} : pc'[v] = pc[v]
      /\ done' \in [Threads -> BOOLEAN] /\ done'[Head(waiters)]
      /\ \A v \in Threads : ~done'[v] => ~done[v]
  BY <1>2 DEF SignalDone, Goto, CondVarInv, CondVarType, Places, Signalling
<1>4. CondVarType'
  BY <1>1, <1>3 DEF CondVarInv, CondVarType
<1>5. SignallerOK'
  <2>1. \A v \in Threads \ {t} : pc'[v] \notin Signalling
    BY <1>1, <1>3 DEF CondVarInv, SignallerOK
  <2>2. QED
    BY <1>1, <1>3, <2>1 DEF SignallerOK, Signalling
<1>6. \A v \in Threads : (Queued(v)' <=> Queued(v)) /\ (InLoop(v)' <=> InLoop(v))
  BY <1>1, <1>3 DEF Queued, InLoop
<1>7. WaiterReachable'
  BY <1>3, <1>6 DEF CondVarInv, WaiterReachable
<1>8. QueueClean'
  <2>1. ASSUME NEW v \in Threads, Queued(v)'
        PROVE  InLoop(v)' \/ pc'[v] \in {"cleanup", "dead"}
    BY <1>1, <1>3, <1>6, <2>1 DEF CondVarInv, QueueClean
  <2>2. QED
    BY <1>1, <2>1 DEF QueueClean, CondVarInv
<1>9. QED
  BY <1>4, <1>5, <1>7, <1>8 DEF CondVarInv

LEMMA SignalRemoveKeeps ==
  ASSUME CondVarInv, NEW t \in Threads, SignalRemove(t)
  PROVE  CondVarInv'
<1>1. pc[t] = "sig_remove" /\ pc[t] \in Signalling /\ lock = t
      /\ UNCHANGED done /\ waiters # << >> /\ done[Head(waiters)]
      /\ waiters' = Tail(waiters)
  BY DEF SignalRemove, CondVarInv, SignallerOK, Signalling
<1>2. /\ pc' \in [Threads -> Places]
      /\ pc'[t] \in {"locked", "idle", "sig_scan"}
      /\ pc'[t] = "sig_scan" => lock' = t
      /\ lock' \in {lock, None}
      /\ \A v \in Threads \ {t} : pc'[v] = pc[v]
  BY <1>1 DEF SignalRemove, EndSignal, Goto, CondVarInv, CondVarType, Places, Signalling
<1>3. /\ ~InLoop(t)' /\ (pc'[t] \in Signalling => lock' = t)
      /\ pc'[t] \notin {"sig_wake", "sig_done", "sig_remove"}
  BY <1>2 DEF InLoop, Signalling
<1>4. QED
  BY <1>1, <1>2, <1>3, RemoveMarked

LEMMA CondVarStepKeeps ==
  ASSUME CondVarInv, NEW t \in Threads, CondVarStep(t)
  PROVE  CondVarInv'
<1>1. CASE LockMutex(t) \/ UnlockMutex(t)
  BY <1>1, LockMutexKeeps, UnlockMutexKeeps
<1>2. CASE Step(t)
  BY <1>2, EnqueueKeeps, ReleaseKeeps, TestKeeps, SuspendKeeps, ResumeKeeps,
     CleanupKeeps, RelockKeeps, SignalLockKeeps, SignalScanKeeps,
     SignalWakeKeeps, SignalDoneKeeps, SignalRemoveKeeps DEF Step
<1>3. CASE Environment(t)
  <2>1. CASE TimePasses(t) \/ TimerEvent(t) \/ OtherEvent(t)
    <3>1. UNCHANGED <<waiters, done, lock, pc>>
      BY <2>1 DEF TimePasses, TimerEvent, OtherEvent, lockVars
    <3>2. QED
      BY <3>1, ClockKeeps
  <2>2. QED
    BY <1>3, <2>1, ExitKeeps DEF Environment
<1>4. CASE \E o : \E timeout \in BOOLEAN : BeginWait(t, o, timeout)
  BY <1>4, BeginWaitKeeps
<1>5. CASE \E o : BeginSignal(t, o)
  BY <1>5, BeginSignalKeeps
<1>6. QED
  BY <1>1, <1>2, <1>3, <1>4, <1>5 DEF CondVarStep

LEMMA CondVarInitially ==
  ASSUME Init
  PROVE  CondVarInv
BY DEF Init, CondVarInv, CondVarType, SignallerOK, WaiterReachable, QueueClean,
       InLoop, Queued, Places, Signalling

LEMMA NextIsCondVarStep ==
  ASSUME Next
  PROVE  \E t \in Threads : CondVarStep(t)
BY DEF Next, CondVarStep

\* The condition variable by itself: whatever mixture of waits, timeouts,
\* signals, broadcasts, other events and exits its threads make, a thread
\* that still waits for its signal has its waiter in the queue
\* (condition-variable-signal!, condition-variable-wait!), and the queue
\* holds no waiter of a call that is over, and none twice.
THEOREM CondVarCorrect == Spec => [](WaiterReachable /\ QueueClean)
<1>1. Init => CondVarInv
  BY CondVarInitially
<1>2. CondVarInv /\ [Next]_vars => CondVarInv'
  <2>1. ASSUME CondVarInv, Next PROVE CondVarInv'
    BY <2>1, NextIsCondVarStep, CondVarStepKeeps
  <2>2. ASSUME CondVarInv, UNCHANGED vars PROVE CondVarInv'
    <3>1. UNCHANGED <<waiters, done, lock, pc>>
      BY <2>2 DEF vars, lockVars
    <3>2. QED
      BY <2>2, <3>1, ClockKeeps
  <2>3. QED
    BY <2>1, <2>2
<1>3. CondVarInv => WaiterReachable /\ QueueClean
  BY DEF CondVarInv
<1>4. QED
  BY <1>1, <1>2, <1>3, PTL DEF Spec

(***************************************************************************)
(* Barriers.                                                               *)
(***************************************************************************)

\* The condition variable of a barrier is used like any other.
LEMMA BarrierStepIsCondVarStep ==
  ASSUME BarrierNext
  PROVE  UNCHANGED vars \/ \E t \in Threads : CondVarStep(t)
<1>1. CASE current = None /\ Next
  BY <1>1, NextIsCondVarStep
<1>2. ASSUME NEW t \in Threads,
             \/ BarrierEnter(t) \/ Arrive(t) \/ BarrierWait(t) \/ BarrierLeave(t)
             \/ Step(t) \/ OtherEvent(t)
      PROVE  UNCHANGED vars \/ CondVarStep(t)
  <2>1. CASE Arrive(t)
    BY <2>1 DEF Arrive, CondVarStep
  <2>2. CASE BarrierWait(t)
    BY <2>2 DEF BarrierWait, CondVarStep
  <2>3. QED
    BY <1>2, <2>1, <2>2 DEF BarrierEnter, BarrierLeave, CondVarStep, Environment
<1>3. QED
  BY <1>1, <1>2 DEF BarrierNext

LEMMA BarrierCondVar == BarrierSpec => []CondVarInv
<1>1. BarrierInit => CondVarInv
  BY CondVarInitially DEF BarrierInit
<1>2. CondVarInv /\ [BarrierNext]_<<vars, barrierVars>> => CondVarInv'
  <2>1. ASSUME CondVarInv, UNCHANGED vars PROVE CondVarInv'
    <3>1. UNCHANGED <<waiters, done, lock, pc>>
      BY <2>1 DEF vars, lockVars
    <3>2. QED
      BY <2>1, <3>1, ClockKeeps
  <2>2. ASSUME CondVarInv, BarrierNext PROVE CondVarInv'
    BY <2>1, <2>2, BarrierStepIsCondVarStep, CondVarStepKeeps
  <2>3. QED
    BY <2>1, <2>2
<1>3. QED
  BY <1>1, <1>2, PTL DEF BarrierSpec

\* WaiterReachable (condition-variable-signal!), for a condition variable
\* that is used directly or by a barrier.
THEOREM WaitersAreReachable == BarrierSpec => []WaiterReachable
<1>1. CondVarInv => WaiterReachable
  BY DEF CondVarInv
<1>2. QED
  BY <1>1, BarrierCondVar, PTL

\* QueueClean (%condition-variable-wait!/unlock), for a condition variable
\* that is used directly or by a barrier.
THEOREM QueueIsClean == BarrierSpec => []QueueClean
<1>1. CondVarInv => QueueClean
  BY DEF CondVarInv
<1>2. QED
  BY <1>1, BarrierCondVar, PTL

\* No thread has read a generation that has not begun, and the threads that
\* have arrived in the present one are counted.
BarrierInv ==
  /\ generation \in Nat
  /\ my_generation \in [Threads -> Nat \cup {None}]
  /\ \A t \in Threads : my_generation[t] # None => my_generation[t] <= generation
  /\ IsFiniteSet(Arrived(generation))
  /\ BarrierCount

\* thread-barrier-wait counts the thread that arrives among the threads of
\* the present generation.
LEMMA ArrivalCounted ==
  ASSUME BarrierInv, current # None, NEW t \in Threads, Arrive(t)
  PROVE  LET now == {v \in Threads : my_generation'[v] = generation} IN
         /\ IsFiniteSet(now)
         /\ Cardinality(now) = Count - current + 1
<1> DEFINE old == Arrived(generation)
           now == {v \in Threads : my_generation'[v] = generation}
<1>1. /\ my_generation[t] = None /\ my_generation'[t] = generation
      /\ \A v \in Threads \ {t} : my_generation'[v] = my_generation[v]
  BY DEF Arrive, BarrierInv
<1>2. t \notin old /\ now = old \cup {t}
  BY <1>1, BarrierAssumption DEF Arrived, BarrierInv
<1>3. IsFiniteSet(old) /\ Cardinality(old) = Count - current
  BY DEF BarrierInv, BarrierCount
<1> HIDE DEF old, now
<1>4. IsFiniteSet(now) /\ Cardinality(now) = Cardinality(old) + 1
  BY <1>2, <1>3, FS_AddElement
<1>5. QED
  BY <1>3, <1>4 DEF now

LEMMA ArriveKeeps ==
  ASSUME BarrierInv, current # None, NEW t \in Threads, Arrive(t)
  PROVE  BarrierInv'
<1>1. /\ my_generation[t] = None /\ my_generation'[t] = generation
      /\ \A v \in Threads \ {t} : my_generation'[v] = my_generation[v]
      /\ my_generation' \in [Threads -> Nat \cup {None}]
  BY DEF Arrive, BarrierInv
<1>2. current \in 1..Count /\ Count \in Nat \ {0}
  BY BarrierAssumption DEF BarrierInv, BarrierCount
<1>3. CASE current = 1
  <2>1. current' = Count /\ generation' = generation + 1 /\ generation' \in Nat
    BY <1>3 DEF Arrive, BarrierInv
  <2>2. \A v \in Threads : my_generation'[v] # None => my_generation'[v] <= generation
    BY <1>1 DEF BarrierInv
  <2>3. Arrived(generation)' = {}
    BY <1>1, <2>1, <2>2, BarrierAssumption DEF Arrived, BarrierInv
  <2>4. IsFiniteSet(Arrived(generation)') /\ Cardinality(Arrived(generation)') = 0
    BY <2>3, FS_EmptySet
  <2>5. BarrierCount'
    BY <1>2, <2>1, <2>4 DEF BarrierCount
  <2>6. \A v \in Threads : my_generation'[v] # None => my_generation'[v] <= generation'
    BY <1>1, <2>1, <2>2 DEF BarrierInv
  <2>7. QED
    BY <1>1, <2>1, <2>4, <2>5, <2>6 DEF BarrierInv
<1>4. CASE current # 1
  <2>1. current' = current - 1 /\ UNCHANGED generation
    BY <1>4 DEF Arrive
  <2>2. Arrived(generation)' = {v \in Threads : my_generation'[v] = generation}
    BY <2>1 DEF Arrived
  <2>3. /\ IsFiniteSet(Arrived(generation)')
        /\ Cardinality(Arrived(generation)') = Count - current + 1
    BY <2>2, ArrivalCounted
  <2>4. BarrierCount'
    BY <1>2, <1>4, <2>1, <2>3 DEF BarrierCount
  <2>5. \A v \in Threads : my_generation'[v] # None => my_generation'[v] <= generation'
    BY <1>1, <2>1 DEF BarrierInv
  <2>6. QED
    BY <1>1, <2>1, <2>3, <2>4, <2>5 DEF BarrierInv
<1>5. QED
  BY <1>3, <1>4

LEMMA BarrierLeaveKeeps ==
  ASSUME BarrierInv, current # None, NEW t \in Threads, BarrierLeave(t)
  PROVE  BarrierInv'
<1>1. /\ my_generation[t] < generation /\ my_generation'[t] = None
      /\ my_generation[t] # None
      /\ \A v \in Threads \ {t} : my_generation'[v] = my_generation[v]
      /\ my_generation' \in [Threads -> Nat \cup {None}]
      /\ UNCHANGED <<current, generation>>
  BY DEF BarrierLeave, BarrierInv
<1>2. my_generation[t] \in Nat /\ my_generation[t] # generation
      /\ generation # None
  BY <1>1, BarrierAssumption DEF BarrierInv
<1>3. Arrived(generation)' = Arrived(generation)
  BY <1>1, <1>2 DEF Arrived
<1>4. QED
  BY <1>1, <1>3 DEF BarrierInv, BarrierCount

LEMMA BarrierQuiet ==
  ASSUME BarrierInv, UNCHANGED barrierVars
  PROVE  BarrierInv'
BY DEF BarrierInv, BarrierCount, barrierVars, Arrived

LEMMA BarrierInvariant == BarrierSpec => []BarrierInv
<1>1. BarrierInit => BarrierInv
  <2> SUFFICES ASSUME BarrierInit PROVE BarrierInv
    OBVIOUS
  <2>1. Arrived(generation) = {}
    BY BarrierAssumption DEF BarrierInit, Arrived
  <2>2. IsFiniteSet(Arrived(generation)) /\ Cardinality(Arrived(generation)) = 0
    BY <2>1, FS_EmptySet
  <2>3. BarrierCount
    BY <2>2, BarrierAssumption DEF BarrierInit, BarrierCount
  <2>4. QED
    BY <2>2, <2>3 DEF BarrierInit, BarrierInv
<1>2. BarrierInv /\ [BarrierNext]_<<vars, barrierVars>> => BarrierInv'
  <2>1. ASSUME BarrierInv, UNCHANGED barrierVars PROVE BarrierInv'
    BY <2>1, BarrierQuiet
  <2>2. ASSUME BarrierInv, NEW t \in Threads, current # None,
               \/ BarrierEnter(t) \/ Arrive(t) \/ BarrierWait(t)
               \/ BarrierLeave(t)
        PROVE  BarrierInv'
    BY <2>1, <2>2, ArriveKeeps, BarrierLeaveKeeps DEF BarrierEnter, BarrierWait
  <2>3. QED
    BY <2>1, <2>2 DEF BarrierNext
<1>3. QED
  BY <1>1, <1>2, PTL DEF BarrierSpec

\* BarrierCount: the asserts of thread-barrier-wait hold, and current is the
\* number of arrivals that the generation still misses, for any count and
\* any number of threads.
THEOREM BarrierCountCorrect == BarrierSpec => []BarrierCount
<1>1. BarrierInv => BarrierCount
  BY DEF BarrierInv
<1>2. QED
  BY <1>1, BarrierInvariant, PTL

\* GenerationComplete: thread-barrier-wait ends a generation only when Count
\* threads have arrived in it.
THEOREM GenerationsAreComplete == BarrierSpec => GenerationComplete
<1>1. ASSUME BarrierInv, BarrierNext, generation' # generation
      PROVE  Cardinality({t \in Threads : my_generation'[t] = generation}) = Count
  <2>1. PICK t \in Threads : current # None /\ Arrive(t)
    BY <1>1 DEF BarrierNext, BarrierEnter, BarrierWait, BarrierLeave, barrierVars
  <2>2. current = 1
    BY <1>1, <2>1 DEF Arrive
  <2>3. Cardinality({v \in Threads : my_generation'[v] = generation})
          = Count - current + 1
    BY <1>1, <2>1, ArrivalCounted
  <2>4. QED
    BY <2>2, <2>3, BarrierAssumption
<1>2. BarrierInv /\ [BarrierNext]_<<vars, barrierVars>> =>
        [generation' # generation =>
           Cardinality({t \in Threads : my_generation'[t] = generation})
             = Count]_<<vars, barrierVars>>
  BY <1>1
<1>3. QED
  BY <1>2, BarrierInvariant, PTL DEF BarrierSpec, GenerationComplete
=============================================================================
