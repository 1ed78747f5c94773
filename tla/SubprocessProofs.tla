-------------------------- MODULE SubprocessProofs --------------------------
(***************************************************************************)
(* Proofs about subprocesses (Subprocess), for any sets of pids,           *)
(* structures and threads, any size of the process table and any of the    *)
(* faults: what a primitive cleans up and what the runtime knows of its    *)
(* children, whatever pids the kernel hands out; and, when no pid of a     *)
(* slot is handed out again, that deaths are recorded and that signals     *)
(* reach the child they are meant for.                                     *)
(***************************************************************************)
EXTENDS Subprocess, WellFoundedInduction, TLAPS

\* What a transaction may have recorded.
Stacks == {<<>>, <<"allocate">>, <<"allocate", "mask">>, <<"allocate", "mask", "terminal">>,
           <<"mask">>, <<"mask", "terminal">>, <<"kill">>}
\* a is somewhere in s; the transaction has recorded a.
Has(s, a) == \E i \in 1..Len(s) : s[i] = a
Recorded(a) == Has(prim.actions, a)
Making == {"make", "make_fg"}

\* The types of the variables.
Tables == [Slots -> [id : Pids \cup {None}, raw : Statuses \cup {"free", "allocated"},
                     status : Statuses \cup {"free"}, dirty : BOOLEAN, jc : BOOLEAN]]
Kernels == [Pids -> [state : Statuses \cup {"free", "bystander"},
                     owner : Slots \cup {NoSlot}, seen : BOOLEAN]]
Structures == [Objects -> [index : Slots \cup {NoSlot}, status : Statuses \cup {"new"}]]
Primitives == [pc : {"idle", "vfork", "terminal", "wait", "suspended", "commit", "abort",
                     "made", "continue", "block", "poll"},
               op : Making \cup {"none", "foreground"}, slot : Slots \cup {NoSlot},
               actions : Stacks, todo : SUBSET Objects]

ProcType ==
  /\ table \in Tables /\ kernel \in Kernels /\ object \in Structures /\ prim \in Primitives
  /\ regs \subseteq [on : Objects, thread : Threads, status : Statuses]
  /\ fg \in Slots \cup {NoSlot}
  /\ tty \in Pids \cup {"scheme", "shell"}
  /\ changed \in BOOLEAN /\ masked \in BOOLEAN /\ misdirected \in BOOLEAN

\* wait(2) has news of a child only, and only a child has an owner.
KernelOK ==
  \A p \in Pids : /\ ~kernel[p].seen => kernel[p].state \in {"stopped", "ended"}
                  /\ kernel[p].owner = NoSlot <=> kernel[p].state \in {"free", "bystander"}

\* A slot has a pid when it has a status; what is not marked dirty has been
\* synchronised; only the primitive in progress has an allocated slot, and its
\* transaction knows.
SlotOK ==
  \A s \in Slots :
    /\ table[s].raw \in Statuses => table[s].id \in Pids /\ table[s].status \in Statuses
    /\ table[s].raw \notin Statuses => table[s].id = None
    /\ table[s].raw \in Statuses /\ ~table[s].dirty => table[s].status = table[s].raw
    /\ table[s].raw = "allocated" =>
         prim.slot = s /\ Recorded("allocate") /\ prim.pc \in {"vfork", "abort"}

\* At each point of a primitive: what its transaction has recorded, and that
\* its slot has a process.
PrimOK ==
  /\ prim.pc \in {"idle", "made", "continue", "block", "poll"} => prim.actions = <<>>
  /\ prim.pc = "vfork" => prim.actions = <<"allocate">> /\ table[prim.slot].raw = "allocated"
  /\ prim.pc \in {"terminal", "wait", "suspended"} => Recorded("mask")
  /\ prim.pc = "terminal" => ~Recorded("terminal")
  /\ prim.pc \in {"vfork", "made"} \/ Recorded("allocate") \/ Recorded("kill")
       => prim.op \in Making
  /\ Recorded("kill") => prim.pc = "abort" /\ table[prim.slot].raw \in Statuses
  /\ prim.pc \in {"vfork", "terminal", "wait", "suspended", "commit", "abort", "made", "continue", "block"}
       => prim.op # "none" /\ prim.slot \in Slots
  /\ prim.pc \in {"terminal", "wait", "suspended", "commit", "made", "continue", "block"}
       => table[prim.slot].raw \in Statuses

\* The mask and the terminal are held only as the transaction has recorded.
TerminalOK ==
  /\ masked <=> Recorded("mask")
  /\ tty \in Pids => fg # NoSlot
  /\ fg # NoSlot => Recorded("terminal") /\ tty # "shell"

\* A structure and its slot have the same status, or a synchronisation is due;
\* no two structures share a slot, and none has the slot a primitive is filling.
\* A registration has a structure, and its status when no polling is going on.
ObjectOK ==
  /\ \A o \in Objects :
       LET s == object[o].index IN
       s # NoSlot =>
         /\ table[s].raw \in Statuses
         /\ object[o].status = table[s].status
         /\ table[s].dirty => changed \/ (prim.pc = "poll" /\ o \in prim.todo)
         /\ prim.op \in Making => prim.slot # s
         /\ \A q \in Objects : object[q].index = s => q = o
  /\ \A r \in regs : /\ object[r.on].index # NoSlot
                     /\ prim.pc # "poll" => r.status = object[r.on].status

\* No two slots share a pid, and a pid in a slot is nobody else's child.
OwnOK ==
  /\ \A s, r \in Slots : table[s].id \in Pids /\ table[r].id = table[s].id => r = s
  /\ \A s \in Slots : table[s].id \in Pids => kernel[table[s].id].owner \in {s, NoSlot}

\* An aborted primitive never has a live process to kill.
AbortOK ==
  /\ prim.pc \in {"continue", "block"} => prim.op = "foreground"
  /\ prim.pc = "terminal" =>
       prim.op = "foreground" \/ (prim.op = "make_fg" /\ table[prim.slot].raw = "running")
  /\ prim.pc = "abort" /\ Recorded("allocate") => table[prim.slot].raw = "allocated"
  /\ ~Recorded("kill")

\* The inductive invariant, whatever the kernel does with the pids.
ProcInv == ProcType /\ KernelOK /\ SlotOK /\ PrimOK /\ TerminalOK /\ ObjectOK

(* Small definitions that every proof below needs expanded. *)
USE DEF Statuses, Live, Terminated, NoSlot, None, Making, FreeSlot, FreePid, FreeObject, Idle,
        Ready, Committing, Aborting, OS_process_deallocate, kernelVars, schemeVars

\* A set of natural numbers has a least one.
LEMMA LeastNatural ==
  ASSUME NEW T, T \subseteq Nat, T # {}
  PROVE  \E x \in T : \A y \in T : x <= y
<1> DEFINE R == {ss \in Nat \X Nat : ss[1] < ss[2]}
<1>1. IsWellFoundedOn(R, Nat)
  BY NatLessThanWellFounded DEF OpToRel
<1> HIDE DEF R
<1>2. PICK x \in T : \A y \in T : ~ (<<y, x>> \in R)
  BY <1>1, WFMin
<1>3. ASSUME NEW y \in T, ~(x <= y) PROVE FALSE
  <2> DEFINE ss == <<y, x>>
  <2>1. y < x /\ ss \in Nat \X Nat /\ ss[1] = y /\ ss[2] = x
    BY <1>3
  <2>2. ss \in R
    BY <2>1 DEF R
  <2>3. QED
    BY <1>2, <2>2
<1>4. QED
  BY <1>3


\* Slots are numbers, and none of them is NO_PROCESS.
LEMMA SlotFacts == Slots \subseteq Nat /\ NoSlot \notin Slots
BY SlotsAssumption

\* find_process finds a slot with the pid, and the only one if there is just one.
LEMMA FindFacts ==
  ASSUME NEW p, NEW s \in Slots
  PROVE  /\ find_process(p) = s => table[s].id = p
         /\ table[s].id = p /\ (\A r \in Slots : table[r].id = p => r = s) => find_process(p) = s
<1> DEFINE found == {r \in Slots : table[r].id = p}
<1>1. found # {} => find_process(p) \in found
  <2> SUFFICES ASSUME found # {} PROVE find_process(p) \in found
    OBVIOUS
  <2>1. \E r \in found : \A q \in found : r <= q
    BY LeastNatural, SlotFacts
  <2>2. find_process(p) = CHOOSE r \in found : \A q \in found : r <= q
    BY DEF find_process
  <2>3. QED
    BY <2>1, <2>2
<1>2. found = {} => find_process(p) = NoSlot
  BY DEF find_process
<1>3. QED
  BY <1>1, <1>2, SlotFacts

\* What a transaction records: each action once, "mask" before "terminal".
LEMMA StackFacts ==
  /\ \A s \in Stacks : /\ s # <<>> => Has(s, s[Len(s)])
                       /\ Has(s, "terminal") => Has(s, "mask")
                       /\ Has(s, "kill") => s = <<"kill">>
  /\ \A a : ~Has(<<>>, a)
  /\ \A a : Has(<<"allocate">>, a) <=> a = "allocate"
  /\ \A a : Has(<<"kill">>, a) <=> a = "kill"
  /\ <<>> \in Stacks /\ <<"allocate">> \in Stacks /\ <<"kill">> \in Stacks
<1>1. \A s \in Stacks : s # <<>> => Has(s, s[Len(s)])
  BY DEF Has, Stacks
<1>2. \A s \in Stacks : Has(s, "terminal") => Has(s, "mask")
  BY DEF Has, Stacks
<1>3. \A s \in Stacks : Has(s, "kill") => s = <<"kill">>
  BY DEF Has, Stacks
<1>4. QED
  BY <1>1, <1>2, <1>3 DEF Has, Stacks

\* A stack without its last action.
Pop(s) == SubSeq(s, 1, Len(s) - 1)

\* Two sequences of the same items in the same order are one.
LEMMA SameSequence ==
  ASSUME NEW X, NEW s \in Seq(X), NEW r \in Seq(X), Len(s) = Len(r),
         \A i \in 1..Len(s) : s[i] = r[i]
  PROVE  s = r
<1>1. s = [i \in 1..Len(s) |-> s[i]] /\ r = [i \in 1..Len(r) |-> r[i]]
  OBVIOUS
<1>2. QED
  BY <1>1

\* Append, item by item.
LEMMA AppendFacts ==
  ASSUME NEW X, NEW s \in Seq(X), NEW e \in X
  PROVE  /\ Append(s, e) \in Seq(X)
         /\ Len(Append(s, e)) = Len(s) + 1
         /\ \A i \in 1..Len(s) : Append(s, e)[i] = s[i]
         /\ Append(s, e)[Len(s) + 1] = e
OBVIOUS

\* r is s and one item more.
Extends(X, r, s, e) ==
  /\ s \in Seq(X) /\ e \in X /\ r \in Seq(X)
  /\ Len(r) = Len(s) + 1 /\ r[Len(s) + 1] = e /\ \A i \in 1..Len(s) : r[i] = s[i]

\* Append adds what Pop takes off.
LEMMA Extension ==
  ASSUME NEW X, NEW r, NEW s, NEW e, Extends(X, r, s, e)
  PROVE  Append(s, e) = r /\ Pop(r) = s
<1> USE DEF Extends
<1>1. /\ Append(s, e) \in Seq(X) /\ Len(Append(s, e)) = Len(r)
      /\ \A i \in 1..Len(r) : Append(s, e)[i] = r[i]
  BY AppendFacts
<1>2. /\ Pop(r) \in Seq(X) /\ Len(Pop(r)) = Len(s)
      /\ \A i \in 1..Len(s) : Pop(r)[i] = s[i]
  BY DEF Pop
<1>3. QED
  BY <1>1, <1>2, SameSequence

\* Append and Pop on the short stacks.
LEMMA TupleFacts ==
  ASSUME NEW a, NEW b, NEW c
  PROVE  /\ Append(<<>>, a) = <<a>>
         /\ Append(<<a>>, b) = <<a, b>> /\ Pop(<<a, b>>) = <<a>>
         /\ Append(<<a, b>>, c) = <<a, b, c>> /\ Pop(<<a, b, c>>) = <<a, b>>
<1> DEFINE X == {a, b, c}
<1>1. a \in X /\ b \in X /\ c \in X
  OBVIOUS
<1>2. PICK one : one = <<a>>
  OBVIOUS
<1>3. PICK two : two = <<a, b>>
  OBVIOUS
<1>4. PICK three : three = <<a, b, c>>
  OBVIOUS
<1>5. one \in Seq(X) /\ Len(one) = 1 /\ one[1] = a
  BY <1>2
<1>6. two \in Seq(X) /\ Len(two) = 2 /\ two[1] = a /\ two[2] = b
  BY <1>3
<1>7. three \in Seq(X) /\ Len(three) = 3 /\ three[1] = a /\ three[2] = b /\ three[3] = c
  BY <1>4
<1> HIDE DEF X
<1>8. Append(one, b) = two /\ Pop(two) = one
  <2>1. Extends(X, two, one, b)
    BY <1>1, <1>5, <1>6 DEF Extends
  <2>2. QED
    BY <2>1, Extension
<1>9. Append(two, c) = three /\ Pop(three) = two
  <2>1. \A i \in 1..Len(two) : three[i] = two[i]
    <3>1. \A i \in 1..2 : i = 1 \/ i = 2
      OBVIOUS
    <3>2. QED
      BY <1>6, <1>7, <3>1
  <2>2. Extends(X, three, two, c)
    BY <1>1, <1>6, <1>7, <2>1 DEF Extends
  <2>3. QED
    BY <2>2, Extension
<1>10. QED
  BY <1>2, <1>3, <1>4, <1>8, <1>9

\* Taking off the last action forgets that one and no other.
LEMMA PopFacts ==
  ASSUME NEW s \in Stacks, s # <<>>
  PROVE  /\ Pop(s) \in Stacks
         /\ \A a : Has(Pop(s), a) <=> Has(s, a) /\ a # s[Len(s)]
         /\ s[Len(s)] = "allocate" => Pop(s) = <<>>
         /\ s[Len(s)] = "kill" => Pop(s) = <<>>
<1>1. CASE s = <<"allocate">>
  <2>1. Pop(s) = <<>>
    BY <1>1 DEF Pop
  <2>2. QED
    BY <2>1, <1>1 DEF Has, Stacks
<1>2. CASE s = <<"allocate", "mask">>
  <2>1. Pop(s) = <<"allocate">>
    BY <1>2, TupleFacts
  <2>2. QED
    BY <2>1, <1>2 DEF Has, Stacks
<1>3. CASE s = <<"allocate", "mask", "terminal">>
  <2>1. Pop(s) = <<"allocate", "mask">>
    BY <1>3, TupleFacts
  <2>2. QED
    BY <2>1, <1>3 DEF Has, Stacks
<1>4. CASE s = <<"mask">>
  <2>1. Pop(s) = <<>>
    BY <1>4 DEF Pop
  <2>2. QED
    BY <2>1, <1>4 DEF Has, Stacks
<1>5. CASE s = <<"mask", "terminal">>
  <2>1. Pop(s) = <<"mask">>
    BY <1>5, TupleFacts
  <2>2. QED
    BY <2>1, <1>5 DEF Has, Stacks
<1>6. CASE s = <<"kill">>
  <2>1. Pop(s) = <<>>
    BY <1>6 DEF Pop
  <2>2. QED
    BY <2>1, <1>6 DEF Has, Stacks
<1>7. QED
  BY <1>1, <1>2, <1>3, <1>4, <1>5, <1>6 DEF Stacks

\* Recording an action adds that one.
LEMMA PushFacts ==
  /\ \A s \in {<<>>, <<"allocate">>} :
       /\ Append(s, "mask") \in Stacks
       /\ \A a : Has(Append(s, "mask"), a) <=> Has(s, a) \/ a = "mask"
  /\ \A s \in Stacks : Has(s, "mask") /\ ~Has(s, "terminal") =>
       /\ Append(s, "terminal") \in Stacks
       /\ \A a : Has(Append(s, "terminal"), a) <=> Has(s, a) \/ a = "terminal"
  /\ Append(<<>>, "kill") = <<"kill">>
<1>1. /\ Append(<<>>, "mask") = <<"mask">>
      /\ Append(<<"allocate">>, "mask") = <<"allocate", "mask">>
      /\ Append(<<>>, "kill") = <<"kill">>
      /\ Append(<<"mask">>, "terminal") = <<"mask", "terminal">>
      /\ Append(<<"allocate", "mask">>, "terminal") = <<"allocate", "mask", "terminal">>
  BY TupleFacts
<1>2. ASSUME NEW s \in {<<>>, <<"allocate">>}
      PROVE  /\ Append(s, "mask") \in Stacks
             /\ \A a : Has(Append(s, "mask"), a) <=> Has(s, a) \/ a = "mask"
  <2>1. Append(s, "mask") \in Stacks
    BY <1>1 DEF Stacks
  <2>2. QED
    BY <2>1, <1>1 DEF Has
<1>3. \A s \in Stacks : Has(s, "mask") /\ ~Has(s, "terminal") => s \in {<<"mask">>, <<"allocate", "mask">>}
  BY DEF Has, Stacks
<1>4. ASSUME NEW s \in {<<"mask">>, <<"allocate", "mask">>}
      PROVE  /\ Append(s, "terminal") \in Stacks
             /\ \A a : Has(Append(s, "terminal"), a) <=> Has(s, a) \/ a = "terminal"
  <2>1. Append(s, "terminal") \in Stacks
    BY <1>1 DEF Stacks
  <2>2. QED
    BY <2>1, <1>1 DEF Has
<1>5. QED
  BY <1>1, <1>2, <1>3, <1>4

\* The transaction after its last action has been taken off.
LEMMA PoppedFacts ==
  ASSUME ProcType, Unwinding
  PROVE  /\ Popped \in Primitives
         /\ Popped.pc = prim.pc /\ Popped.op = prim.op /\ Popped.slot = prim.slot
         /\ Popped.todo = prim.todo /\ Popped.actions = Pop(prim.actions)
         /\ Recorded(LastAction)
         /\ \A a : Has(Popped.actions, a) <=> Recorded(a) /\ a # LastAction
         /\ LastAction \in {"allocate", "kill"} => Popped.actions = <<>>
         /\ prim.pc \in {"commit", "abort"}
<1>1. prim.actions \in Stacks /\ prim.actions # <<>>
  BY DEF ProcType, Primitives, Unwinding
<1>2. Popped = [prim EXCEPT !.actions = Pop(prim.actions)]
  BY DEF Popped, Pop
<1>3. /\ Popped.pc = prim.pc /\ Popped.op = prim.op /\ Popped.slot = prim.slot
      /\ Popped.todo = prim.todo /\ Popped.actions = Pop(prim.actions)
  BY <1>2 DEF ProcType, Primitives
<1>4. Popped \in Primitives
  BY <1>1, <1>2, PopFacts DEF ProcType, Primitives
<1>5. QED
  BY <1>1, <1>3, <1>4, StackFacts, PopFacts DEF Recorded, LastAction, Unwinding

\* kill(2) keeps the owners of the pids.
LEMMA KillFacts ==
  ASSUME ProcType, KernelOK, NEW s, NEW sig, Kill(s, sig), table[s].id \in Pids
  PROVE  /\ kernel' \in Kernels /\ misdirected' \in BOOLEAN
         /\ KernelOK'
         /\ \A p \in Pids : kernel'[p].owner = kernel[p].owner
<1>1. misdirected' \in BOOLEAN
  BY DEF Kill, ProcType
<1>2. CASE kernel' = kernel
  BY <1>1, <1>2 DEF ProcType, KernelOK
<1>3. ASSUME NEW state \in Statuses, NEW seen \in BOOLEAN, kernel[table[s].id].state \in Live,
             kernel' = [kernel EXCEPT ![table[s].id].state = state, ![table[s].id].seen = seen],
             ~seen => state \in {"stopped", "ended"}
      PROVE  /\ kernel' \in Kernels /\ KernelOK'
             /\ \A p \in Pids : kernel'[p].owner = kernel[p].owner
  <2>1. kernel' \in Kernels
    BY <1>3 DEF ProcType, Kernels
  <2>2. KernelOK'
    BY <1>3 DEF ProcType, Kernels, KernelOK
  <2>3. \A p \in Pids : kernel'[p].owner = kernel[p].owner
    BY <1>3 DEF ProcType, Kernels
  <2>4. QED
    BY <2>1, <2>2, <2>3
<1>4. \/ kernel' = kernel
      \/ /\ kernel[table[s].id].state \in Live
         /\ \E state \in Statuses, seen \in BOOLEAN :
              /\ kernel' = [kernel EXCEPT ![table[s].id].state = state, ![table[s].id].seen = seen]
              /\ ~seen => state \in {"stopped", "ended"}
  BY DEF Kill
<1>5. QED
  BY <1>1, <1>2, <1>3, <1>4

\* Statuses are reported to the table, and marked: the structures lose nothing.
Reported ==
  /\ table' \in Tables /\ changed' \in BOOLEAN /\ (changed => changed')
  /\ \A s \in Slots :
       /\ table'[s].id = table[s].id /\ table'[s].status = table[s].status
       /\ \/ table'[s].raw = table[s].raw
          \/ table[s].raw \in Statuses /\ table'[s].raw \in Statuses /\ table'[s].dirty
       /\ (table[s].dirty => table'[s].dirty)
       /\ (table'[s].dirty => table[s].dirty \/ changed')

\* What is reported is marked, so the slots and structures stay consistent.
LEMMA ReportedFacts ==
  ASSUME ProcInv, Reported, UNCHANGED <<object, regs>>,
         \/ prim' = prim
         \/ /\ prim.pc \in {"terminal", "suspended"} /\ prim'.pc # "poll"
            /\ prim'.slot = prim.slot /\ prim'.op = prim.op
  PROVE  SlotOK' /\ ObjectOK'
<1>1. SlotOK'
  BY DEF ProcInv, SlotOK, Reported, Recorded
<1>2. ObjectOK'
  BY DEF ProcInv, ProcType, Structures, ObjectOK, Reported
<1>3. QED
  BY <1>1, <1>2

\* Continuing a process is such a report.
LEMMA ContinueFacts ==
  ASSUME ProcInv, NEW s \in Slots, table[s].raw \in Statuses,
         Continue(s) \/ UNCHANGED <<table, changed, kernelVars>>
  PROVE  /\ Reported
         /\ kernel' \in Kernels /\ misdirected' \in BOOLEAN /\ KernelOK'
         /\ \A p \in Pids : kernel'[p].owner = kernel[p].owner
<1>1. CASE UNCHANGED <<table, changed, kernelVars>>
  BY <1>1 DEF ProcInv, ProcType, KernelOK, Reported
<1>2. CASE table[s].raw = "stopped" /\ NEW_RAW_STATUS(s, "running") /\ Kill(s, "cont")
  <2>1. Reported
    BY <1>2, ZenonT(40) DEF ProcInv, ProcType, Tables, NEW_RAW_STATUS, Reported
  <2>2. table[s].id \in Pids
    BY DEF ProcInv, SlotOK
  <2>3. QED
    BY <1>2, <2>1, <2>2, KillFacts DEF ProcInv
<1>3. QED
  BY <1>1, <1>2 DEF Continue


-----------------------------------------------------------------------------
(* Every step preserves ProcInv: one lemma for each action.                *)

LEMMA KernelStepInv ==
  ASSUME ProcInv, KernelStep PROVE ProcInv'
<1>1. ProcType'
  BY DEF ProcInv, ProcType, Kernels, KernelStep, ChildEnds, ChildStops, ChildContinues,
     Recycled, Report
<1>2. KernelOK'
  BY DEF ProcInv, ProcType, KernelOK, Kernels, KernelStep, ChildEnds, ChildStops,
     ChildContinues, Recycled, Report
<1>3. SlotOK'
  BY DEF ProcInv, ProcType, SlotOK, Kernels, Recorded, KernelStep, ChildEnds, ChildStops,
     ChildContinues, Recycled, Report
<1>4. PrimOK'
  BY DEF ProcInv, ProcType, PrimOK, Kernels, Recorded, KernelStep, ChildEnds, ChildStops,
     ChildContinues, Recycled, Report
<1>5. TerminalOK'
  BY DEF ProcInv, ProcType, TerminalOK, Kernels, Recorded, KernelStep, ChildEnds, ChildStops,
     ChildContinues, Recycled, Report
<1>6. ObjectOK'
  BY DEF ProcInv, ProcType, ObjectOK, Kernels, KernelStep, ChildEnds, ChildStops,
     ChildContinues, Recycled, Report
<1>7. QED
  BY <1>1, <1>2, <1>3, <1>4, <1>5, <1>6 DEF ProcInv

LEMMA sighnd_stopInv ==
  ASSUME ProcInv, sighnd_stop PROVE ProcInv'
<1>1. ProcType'
  BY PidsAssumption DEF ProcInv, ProcType, Primitives, sighnd_stop, Resumed
<1>2. KernelOK'
  BY PidsAssumption DEF ProcInv, ProcType, KernelOK, Primitives, sighnd_stop, Resumed
<1>3. SlotOK'
  BY PidsAssumption DEF ProcInv, ProcType, SlotOK, Primitives, Recorded, sighnd_stop, Resumed
<1>4. PrimOK'
  BY PidsAssumption DEF ProcInv, ProcType, PrimOK, Primitives, Recorded, sighnd_stop, Resumed
<1>5. TerminalOK'
  BY PidsAssumption DEF ProcInv, ProcType, TerminalOK, Primitives, Recorded, sighnd_stop, Resumed
<1>6. ObjectOK'
  BY PidsAssumption DEF ProcInv, ProcType, ObjectOK, Primitives, sighnd_stop, Resumed
<1>7. QED
  BY <1>1, <1>2, <1>3, <1>4, <1>5, <1>6 DEF ProcInv

LEMMA ShellForegroundInv ==
  ASSUME ProcInv, ShellForeground PROVE ProcInv'
<1>1. ProcType'
  BY PidsAssumption DEF ProcInv, ProcType, ShellForeground
<1>2. KernelOK'
  BY PidsAssumption DEF ProcInv, KernelOK, ShellForeground
<1>3. SlotOK'
  BY PidsAssumption DEF ProcInv, SlotOK, Recorded, ShellForeground
<1>4. PrimOK'
  BY PidsAssumption DEF ProcInv, PrimOK, Recorded, ShellForeground
<1>5. TerminalOK'
  BY PidsAssumption DEF ProcInv, TerminalOK, Recorded, ShellForeground
<1>6. ObjectOK'
  BY PidsAssumption DEF ProcInv, ObjectOK, ShellForeground
<1>7. QED
  BY <1>1, <1>2, <1>3, <1>4, <1>5, <1>6 DEF ProcInv

LEMMA restore_signal_maskInv ==
  ASSUME ProcInv, restore_signal_mask PROVE ProcInv'
<1>1. ProcType'
  BY PoppedFacts, ZenonT(40) DEF ProcInv, ProcType, Primitives, restore_signal_mask
<1>2. KernelOK'
  BY PoppedFacts DEF ProcInv, ProcType, KernelOK, Primitives, restore_signal_mask
<1>3. SlotOK'
  BY PoppedFacts DEF ProcInv, ProcType, SlotOK, Primitives, Recorded, restore_signal_mask
<1>4. PrimOK'
  BY PoppedFacts DEF ProcInv, ProcType, PrimOK, Primitives, Recorded, restore_signal_mask
<1>5. TerminalOK'
  BY PoppedFacts DEF ProcInv, ProcType, TerminalOK, Primitives, Recorded, restore_signal_mask
<1>6. ObjectOK'
  BY PoppedFacts DEF ProcInv, ProcType, ObjectOK, Primitives, restore_signal_mask
<1>7. QED
  BY <1>1, <1>2, <1>3, <1>4, <1>5, <1>6 DEF ProcInv

LEMMA get_terminal_back_1Inv ==
  ASSUME ProcInv, get_terminal_back_1 PROVE ProcInv'
<1>1. ProcType'
  BY PoppedFacts, PidsAssumption DEF ProcInv, ProcType, Primitives, get_terminal_back_1,
     get_terminal_back
<1>2. KernelOK'
  BY PoppedFacts, PidsAssumption DEF ProcInv, ProcType, KernelOK, Primitives,
     get_terminal_back_1, get_terminal_back
<1>3. SlotOK'
  BY PoppedFacts, PidsAssumption DEF ProcInv, ProcType, SlotOK, Primitives, Recorded,
     get_terminal_back_1, get_terminal_back
<1>4. PrimOK'
  BY PoppedFacts, PidsAssumption DEF ProcInv, ProcType, PrimOK, Primitives, Recorded,
     get_terminal_back_1, get_terminal_back
<1>5. TerminalOK'
  BY PoppedFacts, PidsAssumption DEF ProcInv, ProcType, TerminalOK, Primitives, Recorded,
     get_terminal_back_1, get_terminal_back
<1>6. ObjectOK'
  BY PoppedFacts, PidsAssumption DEF ProcInv, ProcType, ObjectOK, Primitives,
     get_terminal_back_1, get_terminal_back
<1>7. QED
  BY <1>1, <1>2, <1>3, <1>4, <1>5, <1>6 DEF ProcInv

LEMMA transaction_endInv ==
  ASSUME ProcInv, transaction_end PROVE ProcInv'
<1>1. ProcType'
  BY StackFacts DEF ProcInv, ProcType, Primitives, transaction_end
<1>2. KernelOK'
  BY StackFacts DEF ProcInv, ProcType, KernelOK, Primitives, transaction_end
<1>3. SlotOK'
  BY StackFacts DEF ProcInv, ProcType, SlotOK, Primitives, Recorded, transaction_end
<1>4. PrimOK'
  BY StackFacts DEF ProcInv, ProcType, PrimOK, Primitives, Recorded, transaction_end
<1>5. TerminalOK'
  BY StackFacts DEF ProcInv, ProcType, TerminalOK, Primitives, Recorded, transaction_end
<1>6. ObjectOK'
  BY StackFacts DEF ProcInv, ProcType, ObjectOK, Primitives, transaction_end
<1>7. QED
  BY <1>1, <1>2, <1>3, <1>4, <1>5, <1>6 DEF ProcInv

LEMMA subprocess_continue_foregroundInv ==
  ASSUME ProcInv, subprocess_continue_foreground PROVE ProcInv'
<1>1. ProcType'
  <2>1. PICK o \in Objects :
          /\ object[o].index # NoSlot
          /\ prim' = [Idle EXCEPT !.pc = "continue", !.op = "foreground", !.slot = object[o].index]
    BY DEF subprocess_continue_foreground
  <2>2. prim' \in Primitives
    BY <2>1, StackFacts DEF ProcInv, ProcType, Structures, Primitives
  <2>3. QED
    BY <2>2 DEF ProcInv, ProcType, subprocess_continue_foreground
<1>2. KernelOK'
  BY StackFacts DEF ProcInv, ProcType, KernelOK, Primitives, subprocess_continue_foreground
<1>3. SlotOK'
  BY StackFacts DEF ProcInv, ProcType, SlotOK, Primitives, Recorded, subprocess_continue_foreground
<1>4. PrimOK'
  <2>1. PICK o \in Objects :
          /\ object[o].index # NoSlot
          /\ prim' = [Idle EXCEPT !.pc = "continue", !.op = "foreground", !.slot = object[o].index]
    BY DEF subprocess_continue_foreground
  <2>2. /\ prim'.pc = "continue" /\ prim'.op = "foreground" /\ prim'.slot = object[o].index
        /\ prim'.actions = <<>>
    BY <2>1
  <2>3. object[o].index \in Slots /\ table[object[o].index].raw \in Statuses
    BY <2>1 DEF ProcInv, ProcType, Structures, ObjectOK
  <2>4. QED
    BY <2>2, <2>3, StackFacts DEF PrimOK, Recorded, subprocess_continue_foreground
<1>5. TerminalOK'
  <2>1. prim.actions = <<>> /\ prim'.actions = <<>>
    BY DEF ProcInv, PrimOK, subprocess_continue_foreground
  <2>2. QED
    BY <2>1 DEF ProcInv, TerminalOK, Recorded, subprocess_continue_foreground
<1>6. ObjectOK'
  BY StackFacts DEF ProcInv, ProcType, ObjectOK, Primitives, subprocess_continue_foreground
<1>7. QED
  BY <1>1, <1>2, <1>3, <1>4, <1>5, <1>6 DEF ProcInv

LEMMA process_continue_foregroundInv ==
  ASSUME ProcInv, process_continue_foreground PROVE ProcInv'
<1>1. ProcType'
  BY StackFacts DEF ProcInv, ProcType, Primitives, process_continue_foreground
<1>2. KernelOK'
  BY StackFacts DEF ProcInv, ProcType, KernelOK, Primitives, process_continue_foreground
<1>3. SlotOK'
  BY StackFacts DEF ProcInv, ProcType, SlotOK, Primitives, Recorded, process_continue_foreground
<1>4. PrimOK'
  BY StackFacts DEF ProcInv, ProcType, PrimOK, Primitives, Recorded, process_continue_foreground
<1>5. TerminalOK'
  BY StackFacts DEF ProcInv, PrimOK, ProcType, TerminalOK, Primitives, Recorded,
     process_continue_foreground
<1>6. ObjectOK'
  BY StackFacts DEF ProcInv, ProcType, ObjectOK, Primitives, process_continue_foreground
<1>7. QED
  BY <1>1, <1>2, <1>3, <1>4, <1>5, <1>6 DEF ProcInv

LEMMA process_waitInv ==
  ASSUME ProcInv, process_wait PROVE ProcInv'
<1>1. ProcType'
  BY StackFacts DEF ProcInv, ProcType, Primitives, process_wait
<1>2. KernelOK'
  BY StackFacts DEF ProcInv, ProcType, KernelOK, Primitives, process_wait
<1>3. SlotOK'
  BY StackFacts DEF ProcInv, ProcType, SlotOK, Primitives, Recorded, process_wait
<1>4. PrimOK'
  BY StackFacts DEF ProcInv, ProcType, PrimOK, Primitives, Recorded, process_wait
<1>5. TerminalOK'
  BY StackFacts DEF ProcInv, ProcType, TerminalOK, Primitives, Recorded, process_wait
<1>6. ObjectOK'
  BY StackFacts DEF ProcInv, ProcType, ObjectOK, Primitives, process_wait
<1>7. QED
  BY <1>1, <1>2, <1>3, <1>4, <1>5, <1>6 DEF ProcInv

LEMMA PendingInterruptInv ==
  ASSUME ProcInv, PendingInterrupt PROVE ProcInv'
<1>1. ProcType'
  BY StackFacts DEF ProcInv, ProcType, Primitives, PendingInterrupt
<1>2. KernelOK'
  BY StackFacts DEF ProcInv, ProcType, KernelOK, Primitives, PendingInterrupt
<1>3. SlotOK'
  BY StackFacts DEF ProcInv, ProcType, SlotOK, Primitives, Recorded, PendingInterrupt
<1>4. PrimOK'
  BY StackFacts DEF ProcInv, ProcType, PrimOK, Primitives, Recorded, PendingInterrupt
<1>5. TerminalOK'
  BY StackFacts DEF ProcInv, ProcType, TerminalOK, Primitives, Recorded, PendingInterrupt
<1>6. ObjectOK'
  BY StackFacts DEF ProcInv, ProcType, ObjectOK, Primitives, PendingInterrupt
<1>7. QED
  BY <1>1, <1>2, <1>3, <1>4, <1>5, <1>6 DEF ProcInv

LEMMA status_sync_allInv ==
  ASSUME ProcInv, status_sync_all PROVE ProcInv'
<1>1. ProcType'
  BY StackFacts DEF ProcInv, ProcType, Primitives, status_sync_all
<1>2. KernelOK'
  BY StackFacts DEF ProcInv, ProcType, KernelOK, Primitives, status_sync_all
<1>3. SlotOK'
  BY StackFacts DEF ProcInv, ProcType, SlotOK, Primitives, Recorded, status_sync_all
<1>4. PrimOK'
  BY StackFacts DEF ProcInv, ProcType, PrimOK, Primitives, Recorded, status_sync_all
<1>5. TerminalOK'
  BY StackFacts DEF ProcInv, PrimOK, ProcType, TerminalOK, Primitives, Recorded, status_sync_all
<1>6. ObjectOK'
  BY StackFacts DEF ProcInv, ProcType, ObjectOK, Primitives, status_sync_all
<1>7. QED
  BY <1>1, <1>2, <1>3, <1>4, <1>5, <1>6 DEF ProcInv

LEMMA poll_subprocess_statusInv ==
  ASSUME ProcInv, poll_subprocess_status PROVE ProcInv'
<1>1. ProcType'
  BY SlotFacts, SMTT(20) DEF ProcInv, SlotOK, ObjectOK, ProcType, Primitives, Tables, Structures,
     poll_subprocess_status, Poll
<1>2. KernelOK'
  BY SlotFacts DEF ProcInv, ProcType, KernelOK, Primitives, Tables, Structures,
     poll_subprocess_status, Poll
<1>3. SlotOK'
  BY SlotFacts DEF ProcInv, ProcType, SlotOK, Primitives, Tables, Structures, Recorded,
     poll_subprocess_status, Poll
<1>4. PrimOK'
  BY SlotFacts DEF ProcInv, ProcType, PrimOK, Primitives, Tables, Structures, Recorded,
     poll_subprocess_status, Poll
<1>5. TerminalOK'
  BY SlotFacts DEF ProcInv, ProcType, TerminalOK, Primitives, Tables, Structures, Recorded,
     poll_subprocess_status, Poll
<1>6. ObjectOK'
  BY SlotFacts DEF ProcInv, ProcType, ObjectOK, Primitives, Tables, Structures,
     poll_subprocess_status, Poll
<1>7. QED
  BY <1>1, <1>2, <1>3, <1>4, <1>5, <1>6 DEF ProcInv

LEMMA subprocess_waitInv ==
  ASSUME ProcInv, subprocess_wait PROVE ProcInv'
<1>1. ProcType'
  <2>1. PICK t \in Threads, o \in Objects :
          /\ object[o].index # NoSlot
          /\ regs' = regs \cup {[on |-> o, thread |-> t, status |-> object[o].status]}
    BY DEF subprocess_wait
  <2>2. object[o].status \in Statuses
    BY <2>1 DEF ProcInv, ProcType, Structures, ObjectOK, SlotOK
  <2>3. regs' \subseteq [on : Objects, thread : Threads, status : Statuses]
    BY <2>1, <2>2 DEF ProcInv, ProcType
  <2>4. QED
    BY <2>3 DEF ProcInv, ProcType, subprocess_wait
<1>2. KernelOK'
  BY DEF ProcInv, KernelOK, subprocess_wait
<1>3. SlotOK'
  BY DEF ProcInv, SlotOK, Recorded, subprocess_wait
<1>4. PrimOK'
  BY DEF ProcInv, PrimOK, Recorded, subprocess_wait
<1>5. TerminalOK'
  BY DEF ProcInv, TerminalOK, Recorded, subprocess_wait
<1>6. ObjectOK'
  BY DEF ProcInv, ObjectOK, subprocess_wait
<1>7. QED
  BY <1>1, <1>2, <1>3, <1>4, <1>5, <1>6 DEF ProcInv

LEMMA subprocess_deleteInv ==
  ASSUME ProcInv, subprocess_delete PROVE ProcInv'
<1>1. ProcType'
  BY SlotFacts DEF ProcInv, SlotOK, ObjectOK, ProcType, Tables, Structures, subprocess_delete
<1>2. KernelOK'
  BY SlotFacts DEF ProcInv, ProcType, KernelOK, Tables, Structures, subprocess_delete
<1>3. SlotOK'
  BY SlotFacts DEF ProcInv, ProcType, SlotOK, Tables, Structures, Recorded, subprocess_delete
<1>4. PrimOK'
  BY SlotFacts DEF ProcInv, ProcType, PrimOK, Tables, Structures, Recorded, subprocess_delete
<1>5. TerminalOK'
  BY SlotFacts DEF ProcInv, ProcType, TerminalOK, Tables, Structures, Recorded, subprocess_delete
<1>6. ObjectOK'
  BY SlotFacts DEF ProcInv, ProcType, ObjectOK, Tables, Structures, subprocess_delete
<1>7. QED
  BY <1>1, <1>2, <1>3, <1>4, <1>5, <1>6 DEF ProcInv

LEMMA CollectedInv ==
  ASSUME ProcInv, Collected PROVE ProcInv'
<1>1. ProcType'
  BY DEF ProcInv, ProcType, Structures, Collected
<1>2. KernelOK'
  BY DEF ProcInv, ProcType, KernelOK, Structures, Collected
<1>3. SlotOK'
  BY DEF ProcInv, ProcType, SlotOK, Structures, Recorded, Collected
<1>4. PrimOK'
  BY DEF ProcInv, ProcType, PrimOK, Structures, Recorded, Collected
<1>5. TerminalOK'
  BY DEF ProcInv, ProcType, TerminalOK, Structures, Recorded, Collected
<1>6. ObjectOK'
  BY DEF ProcInv, ProcType, ObjectOK, Structures, Collected
<1>7. QED
  BY <1>1, <1>2, <1>3, <1>4, <1>5, <1>6 DEF ProcInv

\* SIGCHLD: what wait(2) reports goes to the slot of the process.
LEMMA sighnd_dead_subprocessInv ==
  ASSUME ProcInv, sighnd_dead_subprocess PROVE ProcInv'
<1> DEFINE reported == {p \in Pids : ~kernel[p].seen}
           dead(s) == \E p \in reported : find_process(p) = s
           news(s) == kernel[table[s].id].state
<1>1. ASSUME NEW s \in Slots, dead(s)
      PROVE  news(s) \in {"stopped", "ended"} /\ table[s].raw \in Statuses
  <2>1. PICK p \in reported : find_process(p) = s
    BY <1>1
  <2>2. table[s].id = p
    BY <2>1, FindFacts
  <2>3. p # None
    BY PidsAssumption
  <2>4. QED
    BY <2>2, <2>3 DEF ProcInv, KernelOK, SlotOK
<1>2. /\ table' = [s \in Slots |->
           IF dead(s) THEN [table[s] EXCEPT !.raw = news(s), !.dirty = TRUE] ELSE table[s]]
      /\ changed' = (changed \/ \E s \in Slots : dead(s))
      /\ kernel' = [p \in Pids |->
           IF p \notin reported THEN kernel[p]
           ELSE IF kernel[p].state \in Terminated THEN FreePid
           ELSE [kernel[p] EXCEPT !.seen = TRUE]]
      /\ prim' = Resumed
      /\ UNCHANGED <<fg, tty, masked, object, regs, misdirected>>
  BY DEF sighnd_dead_subprocess
<1>3. Reported
  <2> DEFINE row(s) == IF dead(s) THEN [table[s] EXCEPT !.raw = news(s), !.dirty = TRUE]
                       ELSE table[s]
             Rows == [id : Pids \cup {None}, raw : Statuses \cup {"free", "allocated"},
                      status : Statuses \cup {"free"}, dirty : BOOLEAN, jc : BOOLEAN]
  <2>1. table' \in Tables
    <3>1. ASSUME NEW s \in Slots PROVE row(s) \in Rows
      <4>1. table[s] \in Rows
        BY DEF ProcInv, ProcType, Tables
      <4>2. CASE dead(s)
        <5>1. row(s) = [table[s] EXCEPT !.raw = news(s), !.dirty = TRUE]
          BY <4>2
        <5>2. news(s) \in Statuses
          BY <4>2, <1>1
        <5> HIDE DEF row, dead, news
        <5>3. QED
          BY <4>1, <5>1, <5>2
      <4>3. CASE ~dead(s)
        BY <4>1, <4>3
      <4>4. QED
        BY <4>2, <4>3
    <3>2. table' = [s \in Slots |-> row(s)]
      BY <1>2
    <3> HIDE DEF row, Rows
    <3>3. table' \in [Slots -> Rows]
      BY <3>1, <3>2
    <3>4. QED
      BY <3>3 DEF Rows, Tables
  <2>2. changed' \in BOOLEAN /\ (changed => changed')
    BY <1>2 DEF ProcInv, ProcType
  <2>3. ASSUME NEW s \in Slots
        PROVE  /\ table'[s].id = table[s].id /\ table'[s].status = table[s].status
               /\ \/ table'[s].raw = table[s].raw
                  \/ table[s].raw \in Statuses /\ table'[s].raw \in Statuses /\ table'[s].dirty
               /\ (table[s].dirty => table'[s].dirty)
               /\ (table'[s].dirty => table[s].dirty \/ changed')
    BY <1>1, <1>2 DEF ProcInv, ProcType, Tables
  <2>4. QED
    BY <2>1, <2>2, <2>3 DEF Reported
<1>4. kernel' \in Kernels /\ KernelOK'
  <2>1. kernel' \in Kernels
    BY <1>2 DEF ProcInv, ProcType, Kernels
  <2>2. KernelOK'
    BY <1>2 DEF ProcInv, ProcType, Kernels, KernelOK
  <2>3. QED
    BY <2>1, <2>2
<1>5. /\ prim' \in Primitives /\ prim'.slot = prim.slot /\ prim'.op = prim.op
      /\ prim'.actions = prim.actions
      /\ prim' = prim \/ (prim.pc = "suspended" /\ prim'.pc = "wait")
  BY <1>2 DEF ProcInv, ProcType, Primitives, Resumed
<1>6. ProcType'
  BY <1>2, <1>3, <1>4, <1>5 DEF ProcInv, ProcType, Reported
<1>7. SlotOK' /\ ObjectOK'
  BY <1>2, <1>3, <1>5, ReportedFacts
<1>8. PrimOK'
  BY <1>3, <1>5 DEF ProcInv, PrimOK, Reported, Recorded
<1>9. TerminalOK'
  BY <1>2, <1>5 DEF ProcInv, TerminalOK, Recorded
<1>10. QED
  BY <1>4, <1>6, <1>7, <1>8, <1>9 DEF ProcInv

LEMMA process_allocateInv ==
  ASSUME ProcInv, process_allocate PROVE ProcInv'
<1>1. PICK op \in Making, s \in Slots :
        /\ table[s].raw = "free"
        /\ table' = [table EXCEPT ![s].raw = "allocated"]
        /\ prim' = [Idle EXCEPT !.pc = "vfork", !.op = op, !.slot = s, !.actions = <<"allocate">>]
  BY DEF process_allocate
<1>2. /\ prim.pc = "idle" /\ prim.actions = <<>>
      /\ UNCHANGED <<changed, fg, tty, masked, kernel, misdirected, object, regs>>
  BY DEF ProcInv, PrimOK, process_allocate
<1>3. /\ prim'.pc = "vfork" /\ prim'.op = op /\ prim'.slot = s /\ prim'.actions = <<"allocate">>
      /\ prim' \in Primitives
  BY <1>1, StackFacts DEF Primitives
<1>4. \A a : Recorded(a)' <=> a = "allocate"
  BY <1>3, StackFacts DEF Recorded
<1>5. /\ table' \in Tables /\ table'[s].raw = "allocated" /\ table'[s].id = table[s].id
      /\ \A r \in Slots : r # s => table'[r] = table[r]
  BY <1>1 DEF ProcInv, ProcType, Tables
<1>6. ProcType'
  BY <1>2, <1>3, <1>5 DEF ProcInv, ProcType
<1>7. KernelOK'
  BY <1>2 DEF ProcInv, KernelOK
<1>8. SlotOK'
  BY <1>1, <1>2, <1>3, <1>4, <1>5 DEF ProcInv, SlotOK
<1>9. PrimOK'
  BY <1>3, <1>4, <1>5 DEF PrimOK
<1>10. TerminalOK'
  BY <1>2, <1>4, StackFacts DEF ProcInv, TerminalOK, Recorded
<1>11. ObjectOK'
  BY <1>1, <1>2, <1>3, <1>5 DEF ProcInv, ProcType, Structures, ObjectOK
<1>12. QED
  BY <1>6, <1>7, <1>8, <1>9, <1>10, <1>11 DEF ProcInv

LEMMA block_jc_signalsInv ==
  ASSUME ProcInv, block_jc_signals PROVE ProcInv'
<1>1. /\ prim.pc = "block" /\ prim.actions = <<>> /\ masked' = TRUE
      /\ UNCHANGED <<table, changed, fg, tty, kernel, misdirected, object, regs>>
  BY DEF ProcInv, PrimOK, block_jc_signals
<1>2. prim' = [prim EXCEPT !.pc = "terminal", !.actions = Append(<<>>, "mask")]
  BY <1>1 DEF block_jc_signals
<1>3. /\ prim' \in Primitives /\ prim'.pc = "terminal"
      /\ prim'.op = prim.op /\ prim'.slot = prim.slot
      /\ prim'.actions = Append(<<>>, "mask")
  BY <1>2, PushFacts DEF ProcInv, ProcType, Primitives
<1>4. \A a : Recorded(a)' <=> a = "mask"
  BY <1>3, PushFacts, StackFacts DEF Recorded
<1>5. ProcType'
  BY <1>1, <1>3 DEF ProcInv, ProcType
<1>6. KernelOK'
  BY <1>1 DEF ProcInv, KernelOK
<1>7. SlotOK'
  BY <1>1 DEF ProcInv, SlotOK
<1>8. PrimOK'
  BY <1>1, <1>3, <1>4 DEF ProcInv, PrimOK
<1>9. TerminalOK'
  BY <1>1, <1>4, StackFacts DEF ProcInv, TerminalOK, Recorded
<1>10. ObjectOK'
  BY <1>1, <1>3 DEF ProcInv, ObjectOK
<1>11. QED
  BY <1>5, <1>6, <1>7, <1>8, <1>9, <1>10 DEF ProcInv

\* The transaction gives the slot back: nobody else refers to it.
LEMMA DeallocateFacts ==
  ASSUME ProcInv, prim.pc = "abort", Recorded("allocate") \/ Recorded("kill"),
         OS_process_deallocate(prim.slot), prim' = Popped, Popped.actions = <<>>,
         Popped \in Primitives, Popped.pc = prim.pc, Popped.op = prim.op,
         Popped.slot = prim.slot, UNCHANGED <<changed, object, regs>>
  PROVE  table' \in Tables /\ SlotOK' /\ PrimOK' /\ ObjectOK'
<1>1. prim.op \in Making /\ prim.slot \in Slots
  BY DEF ProcInv, PrimOK
<1>2. /\ table' \in Tables /\ table'[prim.slot] = FreeSlot
      /\ \A r \in Slots : r # prim.slot => table'[r] = table[r]
  BY <1>1 DEF ProcInv, ProcType, Tables
<1>3. \A a : ~Recorded(a)'
  BY StackFacts DEF Recorded
<1>4. SlotOK'
  BY <1>1, <1>2 DEF ProcInv, SlotOK
<1>5. PrimOK'
  BY <1>1, <1>3 DEF PrimOK
<1>6. ObjectOK'
  BY <1>1, <1>2 DEF ProcInv, ProcType, Structures, ObjectOK
<1>7. QED
  BY <1>2, <1>4, <1>5, <1>6

LEMMA process_abort_killInv ==
  ASSUME ProcInv, process_abort_kill PROVE ProcInv'
<1>1. /\ Unwinding /\ LastAction = "kill" /\ prim' = Popped
      /\ OS_process_deallocate(prim.slot) /\ Kill(prim.slot, "kill")
      /\ UNCHANGED <<changed, fg, tty, masked, object, regs>>
  BY DEF process_abort_kill
<1>2. /\ Popped \in Primitives /\ Popped.pc = prim.pc /\ Popped.op = prim.op
      /\ Popped.slot = prim.slot /\ Popped.actions = <<>> /\ Recorded("kill")
      /\ \A a : Recorded(a) => a = "kill"
  BY <1>1, PoppedFacts, StackFacts DEF ProcInv
<1>3. /\ prim.pc = "abort" /\ prim.slot \in Slots /\ table[prim.slot].raw \in Statuses
  BY <1>2 DEF ProcInv, PrimOK
<1>4. table[prim.slot].id \in Pids
  BY <1>3 DEF ProcInv, SlotOK
<1>5. kernel' \in Kernels /\ misdirected' \in BOOLEAN /\ KernelOK'
  BY <1>1, <1>4, KillFacts DEF ProcInv
<1>6. table' \in Tables /\ SlotOK' /\ PrimOK' /\ ObjectOK'
  BY <1>1, <1>2, <1>3, DeallocateFacts
<1>7. ProcType'
  BY <1>1, <1>2, <1>5, <1>6 DEF ProcInv, ProcType
<1>8. TerminalOK'
  BY <1>1, <1>2, StackFacts DEF ProcInv, TerminalOK, Recorded
<1>9. QED
  BY <1>5, <1>6, <1>7, <1>8 DEF ProcInv

LEMMA process_allocate_abortInv ==
  ASSUME ProcInv, process_allocate_abort PROVE ProcInv'
<1>1. /\ Unwinding /\ LastAction = "allocate"
      /\ UNCHANGED <<changed, fg, tty, masked, kernel, misdirected, object, regs>>
  BY DEF process_allocate_abort
<1>2. /\ Popped \in Primitives /\ Popped.pc = prim.pc /\ Popped.op = prim.op
      /\ Popped.slot = prim.slot /\ Popped.todo = prim.todo /\ Popped.actions = <<>>
      /\ Recorded("allocate") /\ (\A a : Recorded(a) => a = "allocate")
      /\ prim.pc \in {"commit", "abort"}
  BY <1>1, PoppedFacts, StackFacts DEF ProcInv
<1>3. prim.op \in Making /\ prim.slot \in Slots
  BY <1>2 DEF ProcInv, PrimOK
<1>4. KernelOK'
  BY <1>1 DEF ProcInv, KernelOK
<1>5. ASSUME prim.pc = "commit", prim' = Popped, UNCHANGED table
      PROVE  ProcInv'
  <2>1. \A a : ~Recorded(a)'
    BY <1>2, <1>5, StackFacts DEF Recorded
  <2>2. ProcType'
    BY <1>1, <1>2, <1>5 DEF ProcInv, ProcType
  <2>3. SlotOK'
    BY <1>2, <1>5 DEF ProcInv, SlotOK
  <2>4. PrimOK'
    BY <1>2, <1>3, <1>5, <2>1 DEF ProcInv, PrimOK
  <2>5. TerminalOK'
    BY <1>1, <1>2, <2>1 DEF ProcInv, TerminalOK
  <2>6. ObjectOK'
    BY <1>1, <1>2, <1>5 DEF ProcInv, ObjectOK
  <2>7. QED
    BY <1>4, <2>2, <2>3, <2>4, <2>5, <2>6 DEF ProcInv
<1>6. ASSUME prim.pc = "abort", table[prim.slot].raw \in Live, UNCHANGED table,
             prim' = [Popped EXCEPT !.actions = Append(@, "kill")]
      PROVE  ProcInv'
  <2>1. /\ prim' \in Primitives /\ prim'.pc = "abort" /\ prim'.op = prim.op
        /\ prim'.slot = prim.slot /\ prim'.actions = <<"kill">>
    <3>1. prim' = [Popped EXCEPT !.actions = <<"kill">>]
      BY <1>2, <1>6, PushFacts DEF Primitives
    <3>2. QED
      BY <1>2, <1>6, <3>1, StackFacts DEF Primitives
  <2>2. \A a : Recorded(a)' <=> a = "kill"
    BY <2>1, StackFacts DEF Recorded
  <2>3. ProcType'
    BY <1>1, <2>1, <1>6 DEF ProcInv, ProcType
  <2>4. SlotOK'
    BY <1>6, <2>1 DEF ProcInv, SlotOK
  <2>5. PrimOK'
    BY <1>3, <1>6, <2>1, <2>2 DEF PrimOK
  <2>6. TerminalOK'
    BY <1>1, <1>2, <2>2 DEF ProcInv, TerminalOK
  <2>7. ObjectOK'
    BY <1>1, <1>6, <2>1 DEF ProcInv, ObjectOK
  <2>8. QED
    BY <1>4, <2>3, <2>4, <2>5, <2>6, <2>7 DEF ProcInv
<1>7. ASSUME prim.pc = "abort", prim' = Popped, OS_process_deallocate(prim.slot)
      PROVE  ProcInv'
  <2>1. table' \in Tables /\ SlotOK' /\ PrimOK' /\ ObjectOK'
    BY <1>1, <1>2, <1>7, DeallocateFacts
  <2>2. ProcType'
    BY <1>1, <1>2, <1>7, <2>1 DEF ProcInv, ProcType
  <2>3. TerminalOK'
    BY <1>1, <1>2, <1>7, StackFacts DEF ProcInv, TerminalOK, Recorded
  <2>4. QED
    BY <1>4, <2>1, <2>2, <2>3 DEF ProcInv
<1>8. QED
  BY <1>2, <1>5, <1>6, <1>7 DEF process_allocate_abort

LEMMA TransactionInv ==
  ASSUME ProcInv, Transaction PROVE ProcInv'
BY restore_signal_maskInv, get_terminal_back_1Inv, process_allocate_abortInv,
   process_abort_killInv, transaction_endInv DEF Transaction

LEMMA OS_make_subprocessInv ==
  ASSUME ProcInv, OS_make_subprocess PROVE ProcInv'
<1>1. /\ prim.pc = "vfork" /\ masked' = TRUE
      /\ UNCHANGED <<changed, fg, tty, misdirected, object, regs>>
  BY DEF OS_make_subprocess
<1>2. /\ prim.actions = <<"allocate">> /\ prim.op \in Making /\ prim.slot \in Slots
      /\ table[prim.slot].raw = "allocated"
  BY <1>1 DEF ProcInv, PrimOK
<1>3. PICK actions : actions = Append(prim.actions, "mask")
  OBVIOUS
<1>4. /\ actions \in Stacks
      /\ \A a : Has(actions, a) <=> a \in {"allocate", "mask"}
  BY <1>2, <1>3, PushFacts, StackFacts
<1>5. ASSUME NEW pc \in {"commit", "abort", "terminal"},
             prim' = [prim EXCEPT !.actions = actions, !.pc = pc]
      PROVE  /\ prim' \in Primitives /\ prim'.pc = pc /\ prim'.op = prim.op
             /\ prim'.slot = prim.slot /\ prim'.actions = actions
             /\ \A a : Recorded(a)' <=> a \in {"allocate", "mask"}
  <2>1. /\ prim' \in Primitives /\ prim'.pc = pc /\ prim'.op = prim.op
        /\ prim'.slot = prim.slot /\ prim'.actions = actions
    BY <1>4, <1>5 DEF ProcInv, ProcType, Primitives
  <2>2. QED
    BY <1>4, <2>1 DEF Recorded
<1>6. fg = NoSlot
  BY <1>2, StackFacts DEF ProcInv, TerminalOK, Recorded
<1>7. ASSUME prim' = Aborting([prim EXCEPT !.actions = Append(@, "mask")]),
             UNCHANGED <<table, kernel>>
      PROVE  ProcInv'
  <2>1. prim' = [prim EXCEPT !.actions = actions, !.pc = "abort"]
    BY <1>3, <1>7 DEF ProcInv, ProcType, Primitives
  <2>2. /\ prim' \in Primitives /\ prim'.pc = "abort" /\ prim'.op = prim.op
        /\ prim'.slot = prim.slot
        /\ \A a : Recorded(a)' <=> a \in {"allocate", "mask"}
    BY <1>5, <2>1
  <2>3. ProcType'
    BY <1>1, <1>7, <2>2 DEF ProcInv, ProcType
  <2>4. KernelOK'
    BY <1>7 DEF ProcInv, KernelOK
  <2>5. SlotOK'
    BY <1>7, <2>2 DEF ProcInv, SlotOK
  <2>6. PrimOK'
    BY <1>2, <2>2 DEF PrimOK
  <2>7. TerminalOK'
    BY <1>1, <1>6, <2>2 DEF ProcInv, TerminalOK
  <2>8. ObjectOK'
    BY <1>1, <1>7, <2>2 DEF ProcInv, ObjectOK
  <2>9. QED
    BY <2>3, <2>4, <2>5, <2>6, <2>7, <2>8 DEF ProcInv
<1>8. ASSUME NEW p \in Pids, NEW jc \in BOOLEAN,
             kernel' = [kernel EXCEPT ![p] = [state |-> "running", owner |-> prim.slot, seen |-> TRUE]],
             table' = [table EXCEPT ![prim.slot] =
               [id |-> p, raw |-> "running", status |-> "running", dirty |-> FALSE, jc |-> jc]],
             prim' = IF prim.op = "make"
                     THEN Committing([prim EXCEPT !.actions = Append(@, "mask")])
                     ELSE [[prim EXCEPT !.actions = Append(@, "mask")] EXCEPT !.pc = "terminal"]
      PROVE  ProcInv'
  <2>1. \/ prim.op = "make" /\ prim' = [prim EXCEPT !.actions = actions, !.pc = "commit"]
        \/ prim.op = "make_fg" /\ prim' = [prim EXCEPT !.actions = actions, !.pc = "terminal"]
    BY <1>2, <1>3, <1>8 DEF ProcInv, ProcType, Primitives
  <2>2. /\ prim' \in Primitives /\ prim'.pc \in {"commit", "terminal"}
        /\ prim'.op = prim.op /\ prim'.slot = prim.slot
        /\ \A a : Recorded(a)' <=> a \in {"allocate", "mask"}
    BY <1>5, <2>1
  <2>3. /\ table' \in Tables /\ table'[prim.slot].id = p
        /\ table'[prim.slot].raw = "running" /\ table'[prim.slot].status = "running"
        /\ \A r \in Slots : r # prim.slot => table'[r] = table[r]
    BY <1>2, <1>8 DEF ProcInv, ProcType, Tables
  <2>4. kernel' \in Kernels
    BY <1>2, <1>8 DEF ProcInv, ProcType, Kernels
  <2>5. ProcType'
    BY <1>1, <2>2, <2>3, <2>4 DEF ProcInv, ProcType
  <2>6. KernelOK'
    BY <1>2, <1>8, SlotFacts DEF ProcInv, ProcType, Kernels, KernelOK
  <2>7. SlotOK'
    BY <1>1, <1>2, <2>2, <2>3 DEF ProcInv, SlotOK
  <2>8. PrimOK'
    BY <1>2, <2>2, <2>3 DEF PrimOK
  <2>9. TerminalOK'
    BY <1>1, <1>6, <2>2 DEF ProcInv, TerminalOK
  <2>10. ObjectOK'
    BY <1>1, <1>2, <2>2, <2>3 DEF ProcInv, ProcType, Structures, ObjectOK
  <2>11. QED
    BY <2>5, <2>6, <2>7, <2>8, <2>9, <2>10 DEF ProcInv
<1>9. QED
  BY <1>7, <1>8 DEF OS_make_subprocess

LEMMA make_subprocessInv ==
  ASSUME ProcInv, make_subprocess PROVE ProcInv'
<1> DEFINE s == prim.slot
           status == IF table[s].dirty THEN table[s].raw ELSE table[s].status
<1>1. PICK o \in Objects :
        /\ object[o] = FreeObject
        /\ object' = [object EXCEPT ![o] = [index |-> s, status |-> status]]
        /\ table' = [table EXCEPT ![s].status = status, ![s].dirty = FALSE]
        /\ prim' = IF prim.op = "make_fg" /\ status = "running"
                   THEN [Idle EXCEPT !.pc = "continue", !.op = "foreground", !.slot = s] ELSE Idle
  BY DEF make_subprocess
<1>2. /\ prim.pc = "made" /\ prim.actions = <<>> /\ prim.op \in Making /\ s \in Slots
      /\ table[s].raw \in Statuses
      /\ UNCHANGED <<changed, fg, tty, masked, kernel, misdirected, regs>>
  BY DEF ProcInv, PrimOK, make_subprocess
<1>3. status \in Statuses /\ status = table[s].raw
  BY <1>2 DEF ProcInv, SlotOK
<1> HIDE DEF status
<1>4. /\ table' \in Tables /\ table'[s].id = table[s].id /\ table'[s].raw = table[s].raw
      /\ table'[s].status = status /\ table'[s].dirty = FALSE
      /\ \A r \in Slots : r # s => table'[r] = table[r]
  BY <1>1, <1>2, <1>3, SMTT(20) DEF ProcInv, ProcType, Tables
<1>5. /\ prim' \in Primitives /\ prim'.actions = <<>>
      /\ prim' = Idle \/ (prim'.pc = "continue" /\ prim'.op = "foreground" /\ prim'.slot = s)
  <2>1. CASE prim' = Idle
    BY <2>1, StackFacts DEF Primitives
  <2>2. CASE prim' = [Idle EXCEPT !.pc = "continue", !.op = "foreground", !.slot = s]
    BY <1>2, <2>2, StackFacts DEF Primitives
  <2>3. QED
    BY <1>1, <2>1, <2>2
<1>6. \A a : ~Recorded(a)' /\ ~Recorded(a)
  BY <1>2, <1>5, StackFacts DEF Recorded
<1>7. /\ object' \in Structures
      /\ object'[o].index = s /\ object'[o].status = status
      /\ \A q \in Objects : q # o => object'[q] = object[q]
  BY <1>1, <1>2, <1>3 DEF ProcInv, ProcType, Structures
<1>8. ProcType'
  BY <1>2, <1>4, <1>5, <1>7 DEF ProcInv, ProcType
<1>9. KernelOK'
  BY <1>2 DEF ProcInv, KernelOK
<1>10. SlotOK'
  BY <1>2, <1>3, <1>4 DEF ProcInv, SlotOK
<1>11. PrimOK'
  BY <1>2, <1>4, <1>5, <1>6 DEF PrimOK
<1>12. TerminalOK'
  BY <1>2, <1>6 DEF ProcInv, TerminalOK
<1>13. ObjectOK'
  <2>1. \A q \in Objects : object[q].index # s
    BY <1>2, SlotFacts DEF ProcInv, ObjectOK
  <2>2. \A q \in Objects : object'[q].index = s => q = o
    BY <1>7, <2>1
  <2>3. ASSUME NEW q \in Objects, NEW r, r = object'[q].index, r # NoSlot
        PROVE  /\ table'[r].raw \in Statuses
               /\ object'[q].status = table'[r].status
               /\ table'[r].dirty => changed' \/ (prim'.pc = "poll" /\ q \in prim'.todo)
               /\ prim'.op \in Making => prim'.slot # r
               /\ \A x \in Objects : object'[x].index = r => x = q
    <3>1. CASE q = o
      BY <1>2, <1>4, <1>5, <1>7, <2>2, <2>3, <3>1
    <3>2. CASE q # o
      <4>1. r = object[q].index /\ r \in Slots /\ r # s
        BY <1>7, <2>1, <2>3, <3>2 DEF ProcInv, ProcType, Structures
      <4>2. /\ table[r].raw \in Statuses /\ object[q].status = table[r].status
            /\ table[r].dirty => changed
            /\ \A x \in Objects : object[x].index = r => x = q
        BY <1>2, <2>3, <4>1 DEF ProcInv, ObjectOK
      <4>3. \A x \in Objects : object'[x].index = r => x = q
        BY <1>7, <4>1, <4>2
      <4>4. prim'.op \notin Making
        BY <1>5
      <4>5. QED
        BY <1>2, <1>4, <1>7, <3>2, <4>1, <4>2, <4>3, <4>4
    <3>3. QED
      BY <3>1, <3>2
  <2>4. ASSUME NEW r \in regs'
        PROVE  object'[r.on].index # NoSlot /\ (prim'.pc # "poll" => r.status = object'[r.on].status)
    <3>1. r.on \in Objects /\ r.on # o
      BY <1>1, <1>2, <2>4 DEF ProcInv, ProcType, ObjectOK
    <3>2. QED
      BY <1>2, <1>7, <2>4, <3>1 DEF ProcInv, ObjectOK
  <2>5. QED
    BY <2>3, <2>4 DEF ObjectOK
<1>14. QED
  BY <1>8, <1>9, <1>10, <1>11, <1>12, <1>13 DEF ProcInv


LEMMA OS_process_send_signalInv ==
  ASSUME ProcInv, OS_process_send_signal PROVE ProcInv'
<1>1. PICK o \in Objects, sig \in {"kill", "stop"} :
        /\ object[o].index # NoSlot /\ table[object[o].index].raw \in Live
        /\ Kill(object[o].index, sig)
  BY DEF OS_process_send_signal
<1>2. UNCHANGED <<table, changed, fg, tty, masked, prim, object, regs>>
  BY DEF OS_process_send_signal
<1>3. object[o].index \in Slots /\ table[object[o].index].id \in Pids
  BY <1>1 DEF ProcInv, ProcType, Structures, SlotOK
<1>4. kernel' \in Kernels /\ misdirected' \in BOOLEAN /\ KernelOK'
  BY <1>1, <1>3, KillFacts DEF ProcInv
<1>5. ProcType'
  BY <1>2, <1>4 DEF ProcInv, ProcType
<1>6. SlotOK' /\ PrimOK' /\ TerminalOK' /\ ObjectOK'
  BY <1>2 DEF ProcInv, SlotOK, PrimOK, TerminalOK, ObjectOK, Recorded
<1>7. QED
  BY <1>4, <1>5, <1>6 DEF ProcInv

LEMMA OS_process_continue_backgroundInv ==
  ASSUME ProcInv, OS_process_continue_background PROVE ProcInv'
<1>1. PICK o \in Objects :
        /\ object[o].index # NoSlot /\ table[object[o].index].raw \in Live
        /\ Continue(object[o].index)
  BY DEF OS_process_continue_background
<1>2. UNCHANGED <<fg, tty, masked, prim, object, regs>>
  BY DEF OS_process_continue_background
<1>3. object[o].index \in Slots
  BY <1>1 DEF ProcInv, ProcType, Structures
<1>4. Reported /\ kernel' \in Kernels /\ misdirected' \in BOOLEAN /\ KernelOK'
  BY <1>1, <1>3, ContinueFacts
<1>5. ProcType'
  BY <1>2, <1>4 DEF ProcInv, ProcType, Reported
<1>6. SlotOK' /\ ObjectOK'
  BY <1>2, <1>4, ReportedFacts
<1>7. PrimOK' /\ TerminalOK'
  BY <1>2, <1>4 DEF ProcInv, PrimOK, TerminalOK, Recorded, Reported
<1>8. QED
  BY <1>4, <1>5, <1>6, <1>7 DEF ProcInv

LEMMA give_terminal_toInv ==
  ASSUME ProcInv, give_terminal_to PROVE ProcInv'
<1> DEFINE s == prim.slot
           p == table[s].id
<1>1. /\ prim.pc = "terminal" /\ Recorded("mask") /\ ~Recorded("terminal") /\ ~Recorded("kill")
      /\ prim.op # "none" /\ s \in Slots /\ table[s].raw \in Statuses /\ p \in Pids
      /\ masked /\ fg = NoSlot
      /\ UNCHANGED <<masked, object, regs>>
  BY DEF ProcInv, PrimOK, SlotOK, TerminalOK, give_terminal_to
<1>2. PICK recorded : recorded = Append(prim.actions, "terminal")
  OBVIOUS
<1>3. /\ recorded \in Stacks
      /\ \A a : Has(recorded, a) <=> Recorded(a) \/ a = "terminal"
  BY <1>1, <1>2, PushFacts DEF ProcInv, ProcType, Primitives, Recorded
<1>4. ASSUME NEW actions \in {prim.actions, recorded}, NEW pc \in {"wait", "abort"},
             prim' = [prim EXCEPT !.actions = actions, !.pc = pc]
      PROVE  /\ prim' \in Primitives /\ prim'.pc = pc /\ prim'.op = prim.op
             /\ prim'.slot = prim.slot /\ prim'.actions = actions
  BY <1>3, <1>4 DEF ProcInv, ProcType, Primitives
<1>5. ASSUME Continue(s) \/ UNCHANGED <<table, changed, kernelVars>>,
             prim' \in Primitives, prim'.pc \in {"wait", "abort"}, prim'.op = prim.op,
             prim'.slot = prim.slot,
             \/ prim'.actions = prim.actions /\ UNCHANGED <<fg, tty>>
             \/ prim'.actions = recorded /\ fg' = s /\ tty' \in {"scheme", p}
      PROVE  ProcInv'
  <2>1. Reported /\ kernel' \in Kernels /\ misdirected' \in BOOLEAN /\ KernelOK'
    BY <1>1, <1>5, ContinueFacts
  <2>2. ProcType'
    BY <1>1, <1>5, <2>1 DEF ProcInv, ProcType, Reported
  <2>3. SlotOK' /\ ObjectOK'
    BY <1>1, <1>5, <2>1, ReportedFacts
  <2>4. \/ (\A a : Recorded(a)' <=> Recorded(a)) /\ UNCHANGED <<fg, tty>>
        \/ (\A a : Recorded(a)' <=> Recorded(a) \/ a = "terminal")
           /\ fg' = s /\ tty' \in {"scheme", p}
    BY <1>3, <1>5 DEF Recorded
  <2>5. table'[s].raw \in Statuses
    BY <1>1, <2>1 DEF Reported
  <2>6. PrimOK'
    BY <1>1, <1>5, <2>4, <2>5 DEF ProcInv, PrimOK
  <2>7. TerminalOK'
    BY <1>1, <2>4, SlotFacts, PidsAssumption DEF ProcInv, TerminalOK
  <2>8. QED
    BY <2>1, <2>2, <2>3, <2>6, <2>7 DEF ProcInv
<1>6. CASE /\ tty # "scheme"
           /\ Continue(s) \/ UNCHANGED <<table, changed, kernelVars>>
           /\ prim' = [prim EXCEPT !.pc = "wait"]
           /\ UNCHANGED <<fg, tty>>
  <2>1. prim' = [prim EXCEPT !.actions = prim.actions, !.pc = "wait"]
    BY <1>6 DEF ProcInv, ProcType, Primitives
  <2>2. QED
    BY <1>4, <1>5, <1>6, <2>1
<1>7. CASE /\ Continue(s) \/ UNCHANGED <<table, changed, kernelVars>>
           /\ fg' = s /\ tty' = p
           /\ prim' = [[prim EXCEPT !.actions = Append(@, "terminal")] EXCEPT !.pc = "wait"]
  <2>1. prim' = [prim EXCEPT !.actions = recorded, !.pc = "wait"]
    BY <1>2, <1>7 DEF ProcInv, ProcType, Primitives
  <2>2. QED
    BY <1>4, <1>5, <1>7, <2>1
<1>8. CASE /\ tty = "scheme" /\ fg' = s
           /\ prim' = Aborting([prim EXCEPT !.actions = Append(@, "terminal")])
           /\ UNCHANGED <<table, changed, kernelVars, tty>>
  <2>1. prim' = [prim EXCEPT !.actions = recorded, !.pc = "abort"]
    BY <1>2, <1>8 DEF ProcInv, ProcType, Primitives
  <2>2. QED
    BY <1>4, <1>5, <1>8, <2>1
<1>9. QED
  BY <1>6, <1>7, <1>8 DEF give_terminal_to

\* The registrations catch up with their structures; the ended ones are dropped.
LEMMA signal_registrationsInv ==
  ASSUME ProcInv, signal_registrations PROVE ProcInv'
<1> DEFINE current == {[r EXCEPT !.status = object[r.on].status] : r \in regs}
<1>1. /\ prim.pc = "poll" /\ prim.todo = {} /\ prim.actions = <<>> /\ prim' = Idle
      /\ regs' = {r \in current : r.status \notin Terminated}
      /\ UNCHANGED <<table, changed, fg, tty, masked, kernel, misdirected, object>>
  BY DEF ProcInv, PrimOK, signal_registrations
<1>2. ASSUME NEW r \in regs'
      PROVE  /\ r \in [on : Objects, thread : Threads, status : Statuses]
             /\ object[r.on].index # NoSlot /\ r.status = object[r.on].status
  <2>1. PICK q \in regs : r = [q EXCEPT !.status = object[q.on].status]
    BY <1>1, <1>2
  <2>2. q \in [on : Objects, thread : Threads, status : Statuses] /\ object[q.on].index # NoSlot
    BY DEF ProcInv, ProcType, ObjectOK
  <2>3. object[q.on].status \in Statuses
    BY <2>2 DEF ProcInv, ProcType, Structures, ObjectOK, SlotOK
  <2>4. QED
    BY <2>1, <2>2, <2>3
<1>3. prim' \in Primitives /\ \A a : ~Recorded(a)' /\ ~Recorded(a)
  BY <1>1, StackFacts DEF Primitives, Recorded
<1>4. ProcType'
  BY <1>1, <1>2, <1>3 DEF ProcInv, ProcType
<1>5. KernelOK'
  BY <1>1 DEF ProcInv, KernelOK
<1>6. SlotOK'
  BY <1>1 DEF ProcInv, SlotOK
<1>7. PrimOK'
  BY <1>1, <1>3 DEF PrimOK
<1>8. TerminalOK'
  BY <1>1, <1>3 DEF ProcInv, TerminalOK
<1>9. ObjectOK'
  BY <1>1, <1>2 DEF ProcInv, ObjectOK
<1>10. QED
  BY <1>4, <1>5, <1>6, <1>7, <1>8, <1>9 DEF ProcInv

\* The end of a wait drops registrations and changes nothing else.
LEMMA WaitEndsInv ==
  ASSUME ProcInv, NEW t \in Threads, subprocess_wait_event(t) \/ subprocess_wait_left(t)
  PROVE  ProcInv'
<1>1. /\ regs' \subseteq regs
      /\ UNCHANGED <<table, changed, fg, tty, masked, prim, kernelVars, object>>
  BY DEF subprocess_wait_event, subprocess_wait_left
<1>2. ProcType' /\ KernelOK'
  BY <1>1 DEF ProcInv, ProcType, KernelOK
<1>3. SlotOK' /\ PrimOK' /\ TerminalOK'
  BY <1>1 DEF ProcInv, SlotOK, PrimOK, TerminalOK, Recorded
<1>4. ObjectOK'
  BY <1>1 DEF ProcInv, ObjectOK
<1>5. QED
  BY <1>2, <1>3, <1>4 DEF ProcInv

-----------------------------------------------------------------------------
(* The invariant, and what follows from it.                                *)

LEMMA InitInv == Init => ProcInv
<1> SUFFICES ASSUME Init PROVE ProcInv
  OBVIOUS
<1>1. prim.actions = <<>> /\ \A a : ~Recorded(a)
  BY StackFacts DEF Init, Recorded
<1>2. prim \in Primitives
  BY StackFacts DEF Init, Primitives
<1>3. ProcType
  BY <1>2 DEF Init, ProcType, Tables, Kernels, Structures
<1>4. KernelOK /\ SlotOK /\ ObjectOK
  BY DEF Init, KernelOK, SlotOK, ObjectOK
<1>5. PrimOK /\ TerminalOK
  BY <1>1, PidsAssumption DEF Init, PrimOK, TerminalOK
<1>6. QED
  BY <1>3, <1>4, <1>5 DEF ProcInv

LEMMA NextInv == ProcInv /\ [Next]_vars => ProcInv'
<1>1. CASE UNCHANGED vars
  BY <1>1 DEF vars, ProcInv, ProcType, KernelOK, SlotOK, PrimOK, TerminalOK, ObjectOK, Recorded
<1>2. CASE Next
  BY <1>2, KernelStepInv, sighnd_dead_subprocessInv, sighnd_stopInv, ShellForegroundInv,
     TransactionInv, process_allocateInv, OS_make_subprocessInv, make_subprocessInv,
     OS_process_send_signalInv, OS_process_continue_backgroundInv,
     subprocess_continue_foregroundInv, process_continue_foregroundInv,
     block_jc_signalsInv, give_terminal_toInv, process_waitInv, PendingInterruptInv,
     status_sync_allInv, poll_subprocess_statusInv, signal_registrationsInv,
     subprocess_waitInv, subprocess_deleteInv, CollectedInv, WaitEndsInv
     DEF Next
<1>3. QED
  BY <1>1, <1>2

\* ProcInv holds of every reachable state of the process table (uxproc.c), the
\* transaction in progress (transact.c) and the structures (process.scm).
THEOREM ProcCorrect == Spec => []ProcInv
BY InitInv, NextInv, PTL DEF Spec

\* An idle primitive has nothing recorded, so it holds nothing.
LEMMA CleanedUp == ProcInv => PrimitiveCleanedUp
<1> SUFFICES ASSUME ProcInv PROVE PrimitiveCleanedUp
  OBVIOUS
<1>1. ASSUME Ready PROVE \A a : ~Recorded(a)
  BY <1>1, StackFacts DEF ProcInv, PrimOK, Recorded
<1>2. QED
  BY <1>1 DEF ProcInv, SlotOK, TerminalOK, PrimitiveCleanedUp

\* TypeOK: the registrations, structures and slots have the types of process.scm
\* and uxproc.c; a registration's status is one a process can have.
THEOREM TypeCorrect == Spec => []TypeOK
<1>1. ProcInv => TypeOK
  BY DEF ProcInv, ProcType, Tables, Kernels, Structures, TypeOK
<1>2. QED
  BY <1>1, ProcCorrect, PTL

\* PrimitiveCleanedUp: between primitives no signal is blocked, no slot half
\* allocated and no child has the terminal, whichever system call failed and
\* wherever a handler interrupted (transact.c; uxproc.c: get_terminal_back).
THEOREM PrimitivesCleanUp == Spec => []PrimitiveCleanedUp
BY ProcCorrect, CleanedUp, PTL

\* Ticks that agree leave no slot of a structure dirty.
LEMMA Known == ProcInv => StatusKnown
BY DEF ProcInv, ProcType, Structures, SlotOK, ObjectOK, StatusKnown

\* StatusKnown: no status change is lost between the SIGCHLD handler and the
\* registrations (uxproc.c: OS_process_status_sync_all; process.scm:
\* handle-subprocess-status-change).
THEOREM StatusesAreKnown == Spec => []StatusKnown
BY ProcCorrect, Known, PTL


-----------------------------------------------------------------------------
(* Without reuse of pids a slot and its child stay together.               *)

\* No slot gets a pid or comes alive, and no pid gets another owner.
Fewer ==
  /\ \A s \in Slots :
       \/ /\ table'[s].id = table[s].id
          /\ table'[s].raw \in Live => table[s].raw \in Live
       \/ table'[s].id = None /\ table'[s].raw \notin Live
  /\ \A p \in Pids : kernel'[p].owner = kernel[p].owner

LEMMA FewerFacts ==
  ASSUME ProcInv, OwnOK, DeathsRecorded, Fewer
  PROVE  OwnOK' /\ DeathsRecorded'
<1>1. None \notin Pids
  BY PidsAssumption
<1>2. OwnOK'
  BY <1>1 DEF Fewer, OwnOK
<1>3. DeathsRecorded'
  BY <1>1 DEF ProcInv, SlotOK, Fewer, DeathsRecorded
<1>4. QED
  BY <1>2, <1>3

LEMMA ContinueFewer ==
  ASSUME ProcInv, NEW s \in Slots, table[s].raw \in Statuses,
         Continue(s) \/ UNCHANGED <<table, changed, kernelVars>>
  PROVE  Fewer
<1>1. \A r \in Slots : /\ table'[r].id = table[r].id
                       /\ table'[r].raw \in Live => table[r].raw \in Live
  BY DEF ProcInv, ProcType, Tables, Continue, NEW_RAW_STATUS
<1>2. QED
  BY <1>1, ContinueFacts DEF Fewer

\* Every step but the making and the waiting for children.
LEMMA OthersFewer ==
  ASSUME ProcInv, Next, ~OS_make_subprocess, ~sighnd_dead_subprocess
  PROVE  Fewer
<1>1. CASE UNCHANGED <<table, kernel>>
  BY <1>1 DEF Fewer
<1>2. CASE KernelStep
  BY <1>2 DEF KernelStep, ChildEnds, ChildStops, ChildContinues, Recycled, Report,
     ProcInv, ProcType, Kernels, Fewer
<1>3. ASSUME NEW s \in Slots, OS_process_deallocate(s), \A p \in Pids : kernel'[p].owner = kernel[p].owner
      PROVE  Fewer
  BY <1>3 DEF ProcInv, ProcType, Tables, Fewer
<1>4. CASE process_allocate_abort
  <2>1. Recorded("allocate")
    BY <1>4, PoppedFacts DEF process_allocate_abort, ProcInv
  <2>2. prim.slot \in Slots
    BY <1>4, <2>1 DEF ProcInv, PrimOK, process_allocate_abort, Unwinding
  <2>3. QED
    BY <1>1, <1>3, <1>4, <2>2 DEF process_allocate_abort
<1>5. CASE process_abort_kill
  <2>1. Recorded("kill")
    BY <1>5, PoppedFacts DEF process_abort_kill, ProcInv
  <2>2. prim.slot \in Slots /\ table[prim.slot].id \in Pids
    BY <2>1 DEF ProcInv, PrimOK, SlotOK
  <2>3. \A p \in Pids : kernel'[p].owner = kernel[p].owner
    BY <1>5, <2>2, KillFacts DEF ProcInv, process_abort_kill
  <2>4. QED
    BY <1>3, <1>5, <2>2, <2>3 DEF process_abort_kill
<1>6. CASE process_allocate
  BY <1>6 DEF process_allocate, ProcInv, ProcType, Tables, Fewer
<1>7. CASE make_subprocess
  BY <1>7, SMTT(60) DEF make_subprocess, ProcInv, ProcType, Tables, Fewer
<1>8. CASE OS_process_send_signal
  <2>1. PICK o \in Objects, sig \in {"kill", "stop"} :
          /\ object[o].index # NoSlot /\ table[object[o].index].raw \in Live
          /\ Kill(object[o].index, sig)
    BY <1>8 DEF OS_process_send_signal
  <2>2. object[o].index \in Slots /\ table[object[o].index].id \in Pids
    BY <2>1 DEF ProcInv, ProcType, Structures, SlotOK
  <2>3. \A p \in Pids : kernel'[p].owner = kernel[p].owner
    BY <2>1, <2>2, KillFacts DEF ProcInv
  <2>4. QED
    BY <1>8, <2>3 DEF OS_process_send_signal, Fewer
<1>9. CASE OS_process_continue_background
  <2>1. PICK o \in Objects :
          /\ object[o].index # NoSlot /\ table[object[o].index].raw \in Live
          /\ Continue(object[o].index)
    BY <1>9 DEF OS_process_continue_background
  <2>2. object[o].index \in Slots
    BY <2>1 DEF ProcInv, ProcType, Structures
  <2>3. QED
    BY <2>1, <2>2, ContinueFewer
<1>10. CASE give_terminal_to
  <2>1. Continue(prim.slot) \/ UNCHANGED <<table, changed, kernelVars>>
    BY <1>10 DEF give_terminal_to
  <2>2. prim.slot \in Slots /\ table[prim.slot].raw \in Statuses
    BY <1>10 DEF ProcInv, PrimOK, give_terminal_to
  <2>3. QED
    BY <2>1, <2>2, ContinueFewer
<1>11. CASE poll_subprocess_status
  BY <1>11 DEF poll_subprocess_status, Poll, ProcInv, ProcType, Tables, Fewer
<1>12. CASE subprocess_delete
  <2>1. PICK o \in Objects : object[o].index # NoSlot /\ OS_process_deallocate(object[o].index)
    BY <1>12 DEF subprocess_delete
  <2>2. object[o].index \in Slots
    BY <2>1 DEF ProcInv, ProcType, Structures
  <2>3. QED
    BY <1>3, <1>12, <2>1, <2>2 DEF subprocess_delete
<1>13. CASE \/ sighnd_stop \/ ShellForeground \/ restore_signal_mask \/ get_terminal_back_1
            \/ transaction_end \/ subprocess_continue_foreground
            \/ process_continue_foreground \/ block_jc_signals \/ process_wait
            \/ PendingInterrupt \/ status_sync_all \/ signal_registrations
            \/ subprocess_wait \/ Collected
            \/ \E t \in Threads : subprocess_wait_event(t) \/ subprocess_wait_left(t)
  BY <1>1, <1>13 DEF sighnd_stop, ShellForeground, restore_signal_mask, get_terminal_back_1,
     transaction_end, subprocess_continue_foreground, process_continue_foreground,
     block_jc_signals, process_wait, PendingInterrupt, status_sync_all, signal_registrations,
     subprocess_wait, Collected, subprocess_wait_event, subprocess_wait_left
<1>14. QED
  BY <1>2, <1>4, <1>5, <1>6, <1>7, <1>8, <1>9, <1>10, <1>11, <1>12, <1>13 DEF Next, Transaction

LEMMA MakeOwn ==
  ASSUME ProcInv, OwnOK, DeathsRecorded, ~PidReuse, OS_make_subprocess
  PROVE  OwnOK' /\ DeathsRecorded'
<1>1. CASE UNCHANGED <<table, kernel>>
  BY <1>1 DEF OwnOK, DeathsRecorded
<1>2. ASSUME NEW p \in Pids, NEW jc \in BOOLEAN, \A s \in Slots : table[s].id # p,
             kernel' = [kernel EXCEPT ![p] = [state |-> "running", owner |-> prim.slot, seen |-> TRUE]],
             table' = [table EXCEPT ![prim.slot] =
               [id |-> p, raw |-> "running", status |-> "running", dirty |-> FALSE, jc |-> jc]]
      PROVE  OwnOK' /\ DeathsRecorded'
  <2>1. prim.slot \in Slots
    BY DEF ProcInv, PrimOK, OS_make_subprocess
  <2>2. /\ table'[prim.slot].id = p
        /\ \A r \in Slots : r # prim.slot => table'[r] = table[r]
        /\ kernel'[p].owner = prim.slot
        /\ \A q \in Pids : q # p => kernel'[q] = kernel[q]
    BY <1>2, <2>1 DEF ProcInv, ProcType, Tables, Kernels
  <2>3. OwnOK'
    BY <1>2, <2>1, <2>2 DEF OwnOK
  <2>4. DeathsRecorded'
    BY <1>2, <2>1, <2>2 DEF DeathsRecorded, ProcInv, SlotOK
  <2>5. QED
    BY <2>3, <2>4
<1>3. QED
  BY <1>1, <1>2 DEF OS_make_subprocess

LEMMA DeadOwn ==
  ASSUME ProcInv, OwnOK, DeathsRecorded, sighnd_dead_subprocess
  PROVE  OwnOK' /\ DeathsRecorded'
<1> DEFINE reported == {p \in Pids : ~kernel[p].seen}
           dead(s) == \E p \in reported : find_process(p) = s
           news(s) == kernel[table[s].id].state
<1>1. /\ table' = [s \in Slots |->
           IF dead(s) THEN [table[s] EXCEPT !.raw = news(s), !.dirty = TRUE] ELSE table[s]]
      /\ kernel' = [p \in Pids |->
           IF p \notin reported THEN kernel[p]
           ELSE IF kernel[p].state \in Terminated THEN FreePid
           ELSE [kernel[p] EXCEPT !.seen = TRUE]]
  BY DEF sighnd_dead_subprocess
<1>2. ASSUME NEW s \in Slots, table[s].id \in Pids
      PROVE  dead(s) <=> table[s].id \in reported
  <2>1. ASSUME NEW p \in reported, find_process(p) = s PROVE p = table[s].id
    BY <2>1, FindFacts
  <2>2. find_process(table[s].id) = s
    BY <1>2, FindFacts DEF OwnOK
  <2>3. QED
    BY <2>1, <2>2
<1>3. ASSUME NEW s \in Slots, dead(s) PROVE table[s].id \in reported
  BY <1>3, FindFacts
<1>4. \A s \in Slots : /\ table'[s].id = table[s].id
                       /\ dead(s) => table'[s].raw = news(s)
                       /\ ~dead(s) => table'[s].raw = table[s].raw
  BY <1>1 DEF ProcInv, ProcType, Tables
<1>5. \A p \in Pids : /\ kernel'[p].owner = kernel[p].owner
                         \/ (p \in reported /\ kernel[p].state = "ended" /\ kernel'[p].owner = NoSlot)
  BY <1>1 DEF ProcInv, ProcType, Kernels
<1>6. OwnOK'
  BY <1>4, <1>5 DEF OwnOK
<1>7. DeathsRecorded'
  <2> SUFFICES ASSUME NEW s \in Slots, table'[s].raw \in Live
               PROVE  kernel'[table'[s].id].owner = s
    BY DEF DeathsRecorded
  <2>1. CASE dead(s)
    <3>1. table[s].id \in reported /\ news(s) \in Live
      BY <1>3, <1>4, <2>1
    <3>2. kernel[table[s].id].owner = s
      BY <3>1 DEF ProcInv, KernelOK, OwnOK
    <3>3. QED
      BY <1>4, <1>5, <3>1, <3>2
  <2>2. CASE ~dead(s)
    <3>1. table[s].raw \in Live /\ table[s].id \in Pids
      BY <1>4, <2>2 DEF ProcInv, SlotOK
    <3>2. table[s].id \notin reported
      BY <1>2, <2>2, <3>1
    <3>3. QED
      BY <1>4, <1>5, <3>1, <3>2 DEF DeathsRecorded
  <2>3. QED
    BY <2>1, <2>2
<1>8. QED
  BY <1>6, <1>7

\* The inductive invariant without reuse of pids.
OwnInv == ProcInv /\ OwnOK /\ DeathsRecorded

LEMMA OwnInit == Init => OwnInv
<1>1. Init => OwnOK /\ DeathsRecorded
  BY PidsAssumption DEF Init, OwnOK, DeathsRecorded
<1>2. QED
  BY <1>1, InitInv DEF OwnInv

LEMMA OwnNext == ASSUME ~PidReuse, OwnInv, [Next]_vars PROVE OwnInv'
<1>1. ProcInv'
  BY NextInv DEF OwnInv
<1>2. CASE UNCHANGED vars
  BY <1>1, <1>2 DEF vars, OwnInv, OwnOK, DeathsRecorded
<1>3. CASE OS_make_subprocess
  BY <1>1, <1>3, MakeOwn DEF OwnInv
<1>4. CASE sighnd_dead_subprocess
  BY <1>1, <1>4, DeadOwn DEF OwnInv
<1>5. CASE Next /\ ~OS_make_subprocess /\ ~sighnd_dead_subprocess
  BY <1>1, <1>5, OthersFewer, FewerFacts DEF OwnInv
<1>6. QED
  BY <1>2, <1>3, <1>4, <1>5

\* DeathsRecorded, when the kernel does not hand out the pid of a slot: a slot
\* that says "running" or "stopped" has a child of its own that wait(2) still
\* knows (uxproc.c: subprocess_death, OS_process_continue_foreground).
THEOREM DeathsAreRecorded == ~PidReuse => (Spec => []DeathsRecorded)
<1> SUFFICES ASSUME ~PidReuse PROVE Spec => []DeathsRecorded
  OBVIOUS
<1>1. Init => OwnInv
  BY OwnInit
<1>2. OwnInv /\ [Next]_vars => OwnInv'
  BY OwnNext
<1>3. OwnInv => DeathsRecorded
  BY DEF OwnInv
<1>4. QED
  BY <1>1, <1>2, <1>3, PTL DEF Spec


-----------------------------------------------------------------------------
(* Signals reach the child.                                                *)

LEMMA KillReaches ==
  ASSUME DeathsRecorded, SignalsReachChild, NEW s \in Slots, table[s].raw \in Live,
         NEW sig, Kill(s, sig)
  PROVE  SignalsReachChild'
BY DEF DeathsRecorded, SignalsReachChild, Kill

LEMMA ContinueReaches ==
  ASSUME DeathsRecorded, SignalsReachChild, NEW s \in Slots,
         Continue(s) \/ UNCHANGED <<table, changed, kernelVars>>
  PROVE  SignalsReachChild'
<1>1. CASE table[s].raw = "stopped" /\ Kill(s, "cont")
  BY <1>1, KillReaches
<1>2. QED
  BY <1>1 DEF Continue, SignalsReachChild

LEMMA SignalStep ==
  ASSUME OwnInv, AbortOK, SignalsReachChild, Next
  PROVE  SignalsReachChild'
<1>1. CASE process_abort_kill
  BY <1>1, PoppedFacts DEF OwnInv, ProcInv, AbortOK, process_abort_kill
<1>2. CASE OS_process_send_signal
  <2>1. PICK o \in Objects, sig \in {"kill", "stop"} :
          /\ object[o].index # NoSlot /\ table[object[o].index].raw \in Live
          /\ Kill(object[o].index, sig)
    BY <1>2 DEF OS_process_send_signal
  <2>2. object[o].index \in Slots
    BY <2>1 DEF OwnInv, ProcInv, ProcType, Structures
  <2>3. QED
    BY <2>1, <2>2, KillReaches DEF OwnInv
<1>3. CASE OS_process_continue_background
  <2>1. PICK o \in Objects : object[o].index # NoSlot /\ Continue(object[o].index)
    BY <1>3 DEF OS_process_continue_background
  <2>2. object[o].index \in Slots
    BY <2>1 DEF OwnInv, ProcInv, ProcType, Structures
  <2>3. QED
    BY <2>1, <2>2, ContinueReaches DEF OwnInv
<1>4. CASE give_terminal_to
  <2>1. Continue(prim.slot) \/ UNCHANGED <<table, changed, kernelVars>>
    BY <1>4 DEF give_terminal_to
  <2>2. prim.slot \in Slots
    BY <1>4 DEF OwnInv, ProcInv, PrimOK, give_terminal_to
  <2>3. QED
    BY <2>1, <2>2, ContinueReaches DEF OwnInv
<1>5. CASE KernelStep \/ sighnd_dead_subprocess \/ OS_make_subprocess
  BY <1>5 DEF SignalsReachChild, KernelStep, ChildEnds, ChildStops, ChildContinues, Recycled,
     Report, sighnd_dead_subprocess, OS_make_subprocess
<1>6. CASE UNCHANGED kernelVars
  BY <1>6 DEF SignalsReachChild
<1>7. QED
  BY <1>1, <1>2, <1>3, <1>4, <1>5, <1>6 DEF Next, Transaction,
     sighnd_stop, ShellForeground, restore_signal_mask, get_terminal_back_1,
     process_allocate_abort, transaction_end, process_allocate, make_subprocess,
     subprocess_continue_foreground, process_continue_foreground, block_jc_signals,
     process_wait, PendingInterrupt, status_sync_all, poll_subprocess_status,
     signal_registrations, subprocess_wait, subprocess_delete, Collected,
     subprocess_wait_event, subprocess_wait_left

\* A primitive that is not making a subprocess is not aborting one either.
LEMMA AbortAtRest ==
  ASSUME AbortOK, prim' = prim, prim.pc \notin {"terminal", "abort"}
  PROVE  AbortOK'
BY DEF AbortOK, Recorded

LEMMA AbortSame ==
  ASSUME AbortOK, UNCHANGED <<table, prim>>
  PROVE  AbortOK'
BY DEF AbortOK, Recorded

\* Nor is one that has returned.
LEMMA AbortIdle ==
  ASSUME prim' = Idle
  PROVE  AbortOK'
<1>1. prim'.actions = <<>> /\ prim'.pc = "idle"
  OBVIOUS
<1>2. QED
  BY <1>1, StackFacts DEF AbortOK, Recorded

LEMMA AbortStep ==
  ASSUME OwnInv, AbortOK, "tcsetpgrp" \notin Faults, Next
  PROVE  AbortOK'
<1> USE DEF OwnInv, ProcInv
<1>1. CASE \/ KernelStep \/ ShellForeground \/ subprocess_wait \/ Collected
           \/ \E t \in Threads : subprocess_wait_event(t) \/ subprocess_wait_left(t)
  BY <1>1, AbortSame DEF KernelStep, ShellForeground, subprocess_wait, Collected,
     subprocess_wait_event, subprocess_wait_left
<1>2. CASE OS_process_send_signal \/ OS_process_continue_background \/ subprocess_delete
  BY <1>2, AbortAtRest DEF OS_process_send_signal, OS_process_continue_background,
     subprocess_delete
<1>3. CASE sighnd_dead_subprocess
  <2>1. /\ prim' \in {prim, [prim EXCEPT !.pc = "wait"]}
        /\ ~masked \/ prim.pc = "suspended"
    BY <1>3 DEF sighnd_dead_subprocess, Resumed, Interruptible
  <2>2. prim.pc # "terminal" \/ prim.op # "make_fg"
    BY <2>1 DEF PrimOK, TerminalOK
  <2>3. \A s \in Slots : table[s].raw = "allocated" => table'[s].raw = "allocated"
    <3>1. ASSUME NEW s \in Slots, table[s].raw = "allocated", NEW p \in Pids
          PROVE  find_process(p) # s
      BY <3>1, FindFacts, PidsAssumption DEF SlotOK
    <3>2. QED
      BY <1>3, <3>1 DEF sighnd_dead_subprocess, ProcType, Tables
  <2>4. CASE prim' = prim
    BY <2>2, <2>3, <2>4 DEF AbortOK, PrimOK, Recorded
  <2>5. CASE prim' # prim
    <3>1. prim'.pc = "wait" /\ prim'.actions = prim.actions
      BY <2>1, <2>5 DEF ProcType, Primitives
    <3>2. QED
      BY <3>1 DEF AbortOK, Recorded
  <2>6. QED
    BY <2>4, <2>5
<1>4. CASE sighnd_stop
  <2>1. /\ prim' = prim \/ (prim'.pc = "wait" /\ prim'.actions = prim.actions)
        /\ table' = table
    BY <1>4 DEF sighnd_stop, Resumed, ProcType, Primitives
  <2>2. QED
    BY <2>1 DEF AbortOK, Recorded
<1>5. CASE restore_signal_mask \/ get_terminal_back_1
  <2>1. Unwinding /\ prim' = Popped /\ table' = table
    BY <1>5 DEF restore_signal_mask, get_terminal_back_1
  <2>2. QED
    BY <2>1, PoppedFacts DEF AbortOK, Recorded
<1>6. CASE process_allocate_abort
  <2>1. /\ Unwinding /\ Recorded("allocate") /\ prim.pc \in {"commit", "abort"}
        /\ Popped.pc = prim.pc /\ \A a : ~Has(Popped.actions, a)
    BY <1>6, PoppedFacts, StackFacts DEF process_allocate_abort
  <2>2. ~(prim.pc = "abort" /\ table[prim.slot].raw \in Live)
    BY <2>1 DEF AbortOK
  <2>3. prim' = Popped
    BY <1>6, <2>2 DEF process_allocate_abort
  <2>4. QED
    BY <2>1, <2>3 DEF AbortOK, Recorded
<1>7. CASE process_abort_kill
  BY <1>7, PoppedFacts DEF process_abort_kill, AbortOK
<1>8. CASE transaction_end
  BY <1>8, StackFacts DEF transaction_end, AbortOK, Recorded, ProcType, Primitives
<1>9. CASE process_allocate
  <2>1. prim'.pc = "vfork" /\ prim'.actions = <<"allocate">>
    BY <1>9 DEF process_allocate
  <2>2. QED
    BY <2>1, StackFacts DEF AbortOK, Recorded
<1>10. CASE OS_make_subprocess
  <2>1. /\ prim.pc = "vfork" /\ prim.actions = <<"allocate">> /\ prim.slot \in Slots
        /\ table[prim.slot].raw = "allocated"
    BY <1>10 DEF OS_make_subprocess, PrimOK
  <2>2. prim'.actions = Append(<<"allocate">>, "mask") /\ prim'.slot = prim.slot
    BY <1>10, <2>1, ZenonT(40) DEF OS_make_subprocess, ProcType, Primitives
  <2>3. ~Recorded("kill")'
    BY <2>2, PushFacts, StackFacts DEF Recorded
  <2>4. ASSUME NEW pc, prim' = [[prim EXCEPT !.actions = Append(@, "mask")] EXCEPT !.pc = pc]
        PROVE  prim'.pc = pc /\ prim'.op = prim.op
    BY <2>4 DEF ProcType, Primitives
  <2>5. CASE "vfork" \in Faults /\ prim'.pc = "abort" /\ UNCHANGED table
    BY <2>1, <2>2, <2>3, <2>5 DEF AbortOK
  <2>6. ASSUME NEW p \in Pids, NEW jc \in BOOLEAN,
               table' = [table EXCEPT ![prim.slot] =
                 [id |-> p, raw |-> "running", status |-> "running", dirty |-> FALSE, jc |-> jc]],
               prim' = IF prim.op = "make"
                       THEN Committing([prim EXCEPT !.actions = Append(@, "mask")])
                       ELSE [[prim EXCEPT !.actions = Append(@, "mask")] EXCEPT !.pc = "terminal"]
        PROVE  AbortOK'
    <3>1. table'[prim.slot].raw = "running"
      BY <2>1, <2>6 DEF ProcType, Tables
    <3>2. prim.op \in Making
      BY <2>1 DEF PrimOK
    <3>3. prim'.op = prim.op /\ (prim'.pc = "commit" \/ (prim'.pc = "terminal" /\ prim.op = "make_fg"))
      BY <2>4, <2>6, <3>2
    <3>4. QED
      BY <2>2, <2>3, <3>1, <3>3 DEF AbortOK
  <2>7. QED
    BY <1>10, <2>4, <2>5, <2>6 DEF OS_make_subprocess
<1>11. CASE \/ make_subprocess \/ subprocess_continue_foreground \/ process_continue_foreground
            \/ status_sync_all \/ poll_subprocess_status \/ signal_registrations
  <2>1. CASE make_subprocess \/ subprocess_continue_foreground
    <3>1. PICK slot : \/ prim' = Idle
                      \/ prim' = [Idle EXCEPT !.pc = "continue", !.op = "foreground", !.slot = slot]
      BY <2>1 DEF make_subprocess, subprocess_continue_foreground
    <3>2. CASE prim' = Idle
      BY <3>2, AbortIdle
    <3>3. CASE prim' = [Idle EXCEPT !.pc = "continue", !.op = "foreground", !.slot = slot]
      <4>1. prim'.actions = <<>> /\ prim'.pc = "continue" /\ prim'.op = "foreground"
        BY <3>3
      <4>2. QED
        BY <4>1, StackFacts DEF AbortOK, Recorded
    <3>4. QED
      BY <3>1, <3>2, <3>3
  <2>2. CASE process_continue_foreground
    <3>1. prim.actions = <<>> /\ prim.op = "foreground"
      BY <2>2 DEF process_continue_foreground, PrimOK, AbortOK
    <3>2. prim' = Idle \/ (prim'.pc = "block" /\ prim'.actions = <<>> /\ prim'.op = "foreground")
      BY <2>2, <3>1 DEF process_continue_foreground, ProcType, Primitives
    <3>3. QED
      BY <3>2, StackFacts DEF AbortOK, Recorded
  <2>3. CASE status_sync_all \/ signal_registrations
    <3>1. PICK todo : prim' = Idle \/ prim' = [Idle EXCEPT !.pc = "poll", !.todo = todo]
      BY <2>3 DEF status_sync_all, signal_registrations
    <3>2. CASE prim' = [Idle EXCEPT !.pc = "poll", !.todo = todo]
      <4>1. prim'.actions = <<>> /\ prim'.pc = "poll"
        BY <3>2
      <4>2. QED
        BY <4>1, StackFacts DEF AbortOK, Recorded
    <3>3. QED
      BY <3>1, <3>2, AbortIdle
  <2>4. CASE poll_subprocess_status
    <3>1. prim'.pc = "poll" /\ prim'.actions = prim.actions
      BY <2>4 DEF poll_subprocess_status, ProcType, Primitives
    <3>2. QED
      BY <3>1 DEF AbortOK, Recorded
  <2>5. QED
    BY <1>11, <2>1, <2>2, <2>3, <2>4
<1>12. CASE block_jc_signals
  <2>1. prim'.pc = "terminal" /\ prim'.op = "foreground" /\ prim'.actions = Append(<<>>, "mask")
    BY <1>12 DEF block_jc_signals, AbortOK, PrimOK, ProcType, Primitives
  <2>2. QED
    BY <2>1, PushFacts, StackFacts DEF AbortOK, Recorded
<1>13. CASE give_terminal_to
  <2>1. /\ prim.pc = "terminal" /\ Recorded("mask") /\ ~Recorded("terminal")
        /\ prim.slot \in Slots /\ table[prim.slot].id \in Pids
    BY <1>13 DEF give_terminal_to, PrimOK, SlotOK
  <2>2. /\ prim'.pc \in {"wait", "abort"}
        /\ prim'.actions \in {prim.actions, Append(prim.actions, "terminal")}
        /\ prim'.pc = "abort" => kernel[table[prim.slot].id].state = "free"
    BY <1>13 DEF give_terminal_to, ProcType, Primitives
  <2>3. \A a : Recorded(a)' => Recorded(a) \/ a = "terminal"
    BY <2>1, <2>2, PushFacts DEF Recorded, ProcType, Primitives
  <2>4. prim'.pc = "abort" => prim.op # "make_fg"
    BY <2>1, <2>2, SlotFacts DEF AbortOK, DeathsRecorded, KernelOK
  <2>5. prim'.pc = "abort" => ~Recorded("allocate")
    BY <2>1, <2>4 DEF AbortOK, PrimOK
  <2>6. QED
    BY <2>2, <2>3, <2>5 DEF AbortOK
<1>14. CASE process_wait \/ PendingInterrupt
  <2>1. prim'.pc \in {"suspended", "commit"} /\ prim'.actions = prim.actions
    BY <1>14 DEF process_wait, PendingInterrupt, ProcType, Primitives
  <2>2. QED
    BY <2>1 DEF AbortOK, Recorded
<1>15. QED
  BY <1>1, <1>2, <1>3, <1>4, <1>5, <1>6, <1>7, <1>8, <1>9, <1>10, <1>11, <1>12, <1>13, <1>14
     DEF Next, Transaction

\* The inductive invariant for the signals.
SignalInv == OwnInv /\ AbortOK /\ SignalsReachChild

\* SignalsReachChild, when the kernel does not hand out the pid of a slot and
\* tcsetpgrp(2) fails only on a group that is gone: kill(2) never reaches a process
\* that is not the child of the slot (uxproc.c: OS_process_send_signal; under these
\* hypotheses process_allocate_abort finds no child to kill).
THEOREM SignalsAreDirected ==
  ~PidReuse /\ "tcsetpgrp" \notin Faults => (Spec => []SignalsReachChild)
<1> SUFFICES ASSUME ~PidReuse, "tcsetpgrp" \notin Faults PROVE Spec => []SignalsReachChild
  OBVIOUS
<1>1. Init => SignalInv
  <2>1. Init => AbortOK /\ SignalsReachChild
    BY StackFacts DEF Init, AbortOK, SignalsReachChild, Recorded
  <2>2. QED
    BY <2>1, OwnInit DEF SignalInv
<1>2. SignalInv /\ [Next]_vars => SignalInv'
  <2> SUFFICES ASSUME SignalInv, [Next]_vars PROVE SignalInv'
    OBVIOUS
  <2>1. OwnInv'
    BY OwnNext DEF SignalInv
  <2>2. CASE UNCHANGED vars
    BY <2>1, <2>2 DEF vars, SignalInv, AbortOK, SignalsReachChild, Recorded
  <2>3. CASE Next
    BY <2>1, <2>3, SignalStep, AbortStep DEF SignalInv
  <2>4. QED
    BY <2>2, <2>3
<1>3. SignalInv => SignalsReachChild
  BY DEF SignalInv
<1>4. QED
  BY <1>1, <1>2, <1>3, PTL DEF Spec

=============================================================================
