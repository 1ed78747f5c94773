--------------------- MODULE GarbageCollectorGraphProofs ---------------------
(***************************************************************************)
(* Proofs about what the collector (GarbageCollector) leaves, for any      *)
(* heaps whose ephemerons have distinct keys: tospace holds the image of   *)
(* the objects that live, every ephemeron that waits for its key is found  *)
(* when the key is copied, and the walk of the hash table always ends.     *)
(*                                                                         *)
(* GraphInv follows each word of a copy to its image (Faithful), and what  *)
(* is still to be scanned (Clean, StackDone).  An ephemeron that waits is  *)
(* in the list (Listed) and, once the scan has passed it, in the bucket    *)
(* of its key or in the queue (Kept); so at the end of the queue no key of *)
(* what waits has been copied.  Without distinct keys a walk of a bucket   *)
(* may link an ephemeron to itself, and none of this holds.                *)
(***************************************************************************)
EXTENDS GarbageCollectorProofs

\* All that wait are in the list from a on.
Listed(m, a) == Descends(m, ListWord, a, Waiting(m), Address)

-----------------------------------------------------------------------------
\* What the words of tospace say of the heap.

\* v is the word w of the heap, or what has become of it.
Same(m, w, v) == v = w \/ (IsOld(w) /\ m.heart[w[2]] # 0 /\ v = Forwarded(m, w))
Now(m, o, i) == m.to[m.heart[o] + i - 1]
Whole(m, o) == \A i \in 1 .. Size(o) : Same(m, Words(o)[i], Now(m, o, i))

\* The car of a weak pair, hidden from the scan until it is settled (over).
WeakCar(w) == <<"weak", w[2], w[3]>>
Chained(m, o) == \E i \in 1 .. Len(m.chain) : m.chain[i] = o
WeakCopy(m, o, over) ==
  LET car == Fields(o)[1]
  IN /\ Same(m, Fields(o)[2], Now(m, o, 2))
     /\ ~ IsOld(car) => Now(m, o, 1) = car
     /\ IsOld(car) => IF Chained(m, o) THEN Now(m, o, 1) = WeakCar(car)
                      ELSE over /\ Now(m, o, 1) = IF m.heart[car[2]] # 0 THEN Forwarded(m, car)
                                                  ELSE Reclaimed

\* An ephemeron waits with its key where it was, or its key lives, or it is over.
Hidden(m, o) ==
  /\ Now(m, o, 1) = Skip(4)
  /\ IsOld(Fields(o)[1]) /\ Now(m, o, 2) = Fields(o)[1]
  /\ Same(m, Fields(o)[2], Now(m, o, 3))
Cleared(m, o) ==
  /\ IsOld(Fields(o)[1]) /\ m.heart[Fields(o)[1][2]] = 0
  /\ Now(m, o, 1) = Manifest
  /\ \A i \in 2 .. 5 : Now(m, o, i) = False
Opened(m, o) == IsOld(Fields(o)[1]) => m.heart[Fields(o)[1][2]] # 0
EphemeronCopy(m, o, over) ==
  \/ Hidden(m, o)
  \/ Whole(m, o) /\ Opened(m, o)
  \/ over /\ Cleared(m, o)

CopyOK(m, o, over) ==
  /\ Kind(o) \in {"pair", "vector"} => Whole(m, o)
  /\ Kind(o) = "weak" => WeakCopy(m, o, over)
  /\ Kind(o) = "ephemeron" => EphemeronCopy(m, o, over)
Faithful(m, over) ==
  /\ \A o \in Copied(m) : CopyOK(m, o, over)
  /\ \A i, j \in 1 .. Len(m.chain) : m.chain[i] = m.chain[j] => i = j
  /\ \A i \in 1 .. Len(m.chain) : IsOld(Fields(m.chain[i])[1])
  /\ Same(m, heap.fixed, m.to[1]) /\ m.to[2] = Imm

\* No word before lim is left to scan but in the ephemerons that wait.
Clean(m, lim) ==
  \A a \in 1 .. Len(m.to) :
    IsOld(m.to[a]) => a >= lim \/ \E e \in Waiting(m) : a \in {Key(e), Datum(e)}

\* The stack behind the scan pointer
StackDone ==
  \A i \in 1 .. Len(stack) :
    /\ Same(mem, heap.stack[i], stack[i])
    /\ IsOld(stack[i]) => pc = "stack" /\ i >= scan

\* How far the scan of tospace has come, and the ephemerons whose key may have been
\* copied after they were hashed.
Scanned == CASE pc = "stack" -> 1 [] pc \in {"scan", "rescan"} -> scan
             [] OTHER -> Len(mem.to) + 1
Unsorted == CASE pc \in {"stack", "scan"} -> Len(mem.to) [] pc = "list" -> cur
              [] OTHER -> 0

Early == pc \in {"stack", "scan", "list", "queue", "rescan"}
GraphInv ==
  /\ ~ mem.hung
  /\ Faithful(mem, ~ Early)
  /\ Copied(mem) \subseteq Live
  /\ StackDone
  /\ Clean(mem, Scanned)
  /\ Early => Listed(mem, mem.list) /\ Kept(mem, Unsorted, 0, 0)
  /\ pc = "ephemerons" =>
       /\ Listed(mem, cur)
       /\ \A e \in Waiting(mem) : IsOld(mem.to[Datum(e)]) => ~ KeyLives(mem, e, 0)
  /\ pc \in {"weak", "done"} => Waiting(mem) = {}
  /\ pc = "done" => mem.chain = <<>>

-----------------------------------------------------------------------------
\* What copying leaves as it was: nothing but next links of ephemerons that wait changes in
\* the words that are there, and no ephemeron begins or ceases to wait.
Grows(m, n) ==
  /\ Len(m.to) <= Len(n.to)
  /\ \A o \in Objs : m.heart[o] # 0 => n.heart[o] = m.heart[o]
  /\ \A i \in 1 .. Len(m.to) : n.to[i] = m.to[i] \/ \E e \in Waiting(m) : i = NextLink(e)
  /\ \A e \in 1 .. Len(m.to) : e \in Waiting(n) <=> e \in Waiting(m)
  /\ \A o \in Objs : Chained(m, o) => Chained(n, o)

\* Grows is reflexive and transitive.
LEMMA GrowsSame ==
  ASSUME NEW m, MemoryOK(m)
  PROVE  Grows(m, m)
BY LengthType DEF Grows

\* Grows is reflexive and transitive.
LEMMA GrowsTransitive ==
  ASSUME NEW m, MemoryOK(m), NEW n, MemoryOK(n), NEW q, MemoryOK(q), Grows(m, n), Grows(n, q)
  PROVE  Grows(m, q)
<1>1. Len(m.to) \in Nat /\ Len(n.to) \in Nat /\ Len(q.to) \in Nat
  BY LengthType
<1>2. Len(m.to) <= Len(n.to) /\ Len(n.to) <= Len(q.to)
  BY DEF Grows
<1>3. 1 .. Len(m.to) \subseteq 1 .. Len(n.to) /\ Len(m.to) <= Len(q.to)
  BY <1>1, <1>2
<1>4. \A o \in Objs : m.heart[o] # 0 => q.heart[o] = m.heart[o]
  BY DEF Grows
<1>5. ASSUME NEW i \in 1 .. Len(m.to)
      PROVE  q.to[i] = m.to[i] \/ \E e \in Waiting(m) : i = NextLink(e)
  <2> SUFFICES ASSUME NEW e \in Waiting(n), i = NextLink(e)
               PROVE  \E f \in Waiting(m) : i = NextLink(f)
    BY <1>3 DEF Grows
  <2>1. e \in 1 .. Len(n.to)
    BY DEF Waiting
  <2>2. e \in 1 .. Len(m.to)
    BY <1>1, <2>1 DEF NextLink
  <2>3. QED
    BY <2>2 DEF Grows
<1>6. \A e \in 1 .. Len(m.to) : e \in Waiting(q) <=> e \in Waiting(m)
  BY <1>3 DEF Grows
<1>7. \A o \in Objs : Chained(m, o) => Chained(q, o)
  BY DEF Grows
<1>8. QED
  BY <1>3, <1>4, <1>5, <1>6, <1>7 DEF Grows

\* A change of links is a case of it.
LEMMA WaitStepGrows ==
  ASSUME heap \in Heaps, NEW m, MemoryOK(m), NEW n, WaitStep(m, n)
  PROVE  Grows(m, n)
<1>1. Waiting(n) = Waiting(m)
  BY WaitSame
<1>2. Len(m.to) \in Nat
  BY LengthType
<1>3. \A o \in Objs : Chained(m, o) => Chained(n, o)
  BY DEF WaitStep, Chained
<1>4. QED
  BY <1>1, <1>2, <1>3 DEF WaitStep, Grows

\* Words of a copy.
LEMMA WordTarget ==
  ASSUME heap \in Heaps, HeapAssumption, NEW o \in Objs
  PROVE  /\ \A i \in 1 .. Size(o) : IsOld(Words(o)[i]) => Words(o)[i][2] \in Objs
         /\ \A i \in DOMAIN Fields(o) : IsOld(Fields(o)[i]) => Fields(o)[i][2] \in Objs
         /\ \A i \in DOMAIN Fields(o) : Fields(o)[i][1] # "nmv"
<1>1. \A w \in HeapWords(Objs) : (IsOld(w) => w[2] \in Objs) /\ w[1] # "nmv"
  BY HeapWordFacts
<1>2. ~IsOld(Manifest)
  BY DEF Manifest, IsOld
<1>3. \A i \in 1 .. Size(o) : Words(o)[i] \in HeapWords(Objs) \/ Words(o)[i] = Manifest
  BY WordsFacts
<1>4. Fields(o) \in Seq(HeapWords(Objs))
  BY HeapFacts
<1>5. \A i \in DOMAIN Fields(o) : Fields(o)[i] \in HeapWords(Objs)
  BY <1>4
<1>6. QED
  BY <1>1, <1>2, <1>3, <1>5

\* The two fields of a pair, weak pair or ephemeron.
LEMMA FieldTarget ==
  ASSUME heap \in Heaps, HeapAssumption, NEW o \in Objs, Kind(o) # "vector"
  PROVE  /\ IsOld(Fields(o)[1]) => Fields(o)[1][2] \in Objs
         /\ IsOld(Fields(o)[2]) => Fields(o)[2][2] \in Objs
         /\ Fields(o)[1][1] # "nmv" /\ Fields(o)[2][1] # "nmv"
<1>1. Len(Fields(o)) = 2 /\ Fields(o) \in Seq(HeapWords(Objs))
  BY HeapFacts
<1>2. DOMAIN Fields(o) = 1 .. 2
  BY <1>1, SeqFacts
<1>3. 1 \in DOMAIN Fields(o) /\ 2 \in DOMAIN Fields(o)
  BY <1>2
<1>4. QED
  BY <1>3, WordTarget

\* The words of a copy stay, but for the next link of an ephemeron that waits.
LEMMA NowSame ==
  ASSUME heap \in Heaps, NEW m, MemoryOK(m), NEW n, Grows(m, n), NEW o \in Copied(m),
         NEW i \in 1 .. Size(o), ~(Kind(o) = "ephemeron" /\ Waits(m, m.heart[o]) /\ i = 5)
  PROVE  Now(n, o, i) = Now(m, o, i)
<1>1. o \in Objs /\ n.heart[o] = m.heart[o]
  BY DEF Copied, Grows
<1>2. PICK a : a = m.heart[o] + i - 1
  OBVIOUS
<1>3. /\ m.heart[o] \in Nat /\ m.heart[o] >= 3 /\ m.heart[o] + Size(o) <= Len(m.to) + 1
      /\ Len(m.to) \in Nat /\ Size(o) \in Nat
  BY <1>1, LengthType, WordsFacts DEF MemoryOK, CopiesOK
<1>4. a \in 1 .. Len(m.to)
  BY <1>2, <1>3
<1>5. ASSUME NEW e \in Waiting(m), a = NextLink(e) PROVE FALSE
  <2>1. PICK p \in Copied(m) : Kind(p) = "ephemeron" /\ e = m.heart[p]
    BY DEF Waiting, EphemeronAt
  <2>2. p \in Objs /\ Size(p) = 5 /\ e \in Nat
    BY <2>1, WordsFacts, WaitingFacts DEF Copied, EphemeronSize
  <2>3. CASE p = o
    <3>1. i = 5
      BY <1>2, <1>3, <1>5, <2>1, <2>2, <2>3 DEF NextLink
    <3>2. QED
      <4>1. Waits(m, e)
        BY DEF Waiting
      <4>2. Waits(m, m.heart[o]) /\ Kind(o) = "ephemeron"
        BY <2>1, <2>3, <4>1
      <4>3. QED
        BY <3>1, <4>2
  <2>4. CASE p # o
    <3>1. \/ m.heart[o] + Size(o) <= m.heart[p]
          \/ m.heart[p] + Size(p) <= m.heart[o]
      BY <2>4 DEF MemoryOK, CopiesOK
    <3>2. a = m.heart[p] + 4 /\ m.heart[p] \in Nat
      BY <1>5, <2>1, <2>2 DEF NextLink
    <3>3. i \in Nat /\ 1 <= i /\ i <= Size(o)
      BY <1>3
    <3>4. m.heart[o] + Size(o) <= m.heart[p] \/ m.heart[p] + 5 <= m.heart[o]
      BY <2>2, <3>1
    <3>5. m.heart[o] \in Nat /\ Size(o) \in Nat /\ a = m.heart[o] + i - 1
      BY <1>2, <1>3
    <3>6. QED
      BY <3>2, <3>3, <3>4, <3>5
  <2>5. QED
    BY <2>3, <2>4
<1>6. n.to[a] = m.to[a]
  BY <1>4, <1>5 DEF Grows
<1>7. QED
  BY <1>1, <1>2, <1>6 DEF Now

\* What was the image of a word stays its image.
LEMMA SameGrows ==
  ASSUME NEW m, NEW n, NEW w, NEW v, Same(m, w, v),
         IsOld(w) /\ m.heart[w[2]] # 0 => n.heart[w[2]] = m.heart[w[2]]
  PROVE  Same(n, w, v)
BY DEF Same, Forwarded

\* A faithful copy stays faithful while others are copied.
LEMMA CopyGrows ==
  ASSUME heap \in Heaps, HeapAssumption, NEW m, MemoryOK(m), NEW n, Grows(m, n),
         NEW o \in Copied(m), CopyOK(m, o, FALSE)
  PROVE  CopyOK(n, o, FALSE)
<1>1. o \in Objs /\ n.heart[o] = m.heart[o]
  BY DEF Copied, Grows
<1>2. \A p \in Objs : m.heart[p] # 0 => n.heart[p] = m.heart[p]
  BY DEF Grows
<1>3. /\ Size(o) \in Nat
      /\ Kind(o) = "ephemeron" => Size(o) = 5
      /\ Kind(o) = "weak" => Size(o) = 2
      /\ Kind(o) = "ephemeron" => Words(o)[1] = Manifest
  BY <1>1, WordsFacts DEF EphemeronSize
<1>4. \A i \in 1 .. Size(o) :
        ~(Kind(o) = "ephemeron" /\ Waits(m, m.heart[o]) /\ i = 5) => Now(n, o, i) = Now(m, o, i)
  BY NowSame
<1>5. ASSUME Whole(m, o) PROVE Whole(n, o)
  <2>1. Kind(o) = "ephemeron" => ~Waits(m, m.heart[o])
    <3>1. SUFFICES ASSUME Kind(o) = "ephemeron" PROVE ~Waits(m, m.heart[o])
      OBVIOUS
    <3>2. Same(m, Manifest, Now(m, o, 1))
      BY <1>3, <1>5, <3>1 DEF Whole
    <3>3. Now(m, o, 1) = Manifest
      BY <3>2 DEF Same, IsOld, Manifest
    <3>4. m.heart[o] \in Nat
      BY <1>1, LengthType
    <3>5. m.to[m.heart[o]] = Manifest
      BY <3>3, <3>4 DEF Now
    <3>6. QED
      BY <3>5 DEF Waits, Manifest
  <2>2. ASSUME NEW i \in 1 .. Size(o) PROVE Same(n, Words(o)[i], Now(n, o, i))
    <3>1. Now(n, o, i) = Now(m, o, i)
      BY <1>4, <2>1
    <3>2. Same(m, Words(o)[i], Now(m, o, i))
      BY <1>5 DEF Whole
    <3>3. IsOld(Words(o)[i]) => Words(o)[i][2] \in Objs
      BY <1>1, WordTarget
    <3>4. QED
      BY <1>2, <3>1, <3>2, <3>3, SameGrows
  <2>3. QED
    BY <2>2 DEF Whole
<1>6. ASSUME Kind(o) \in {"weak", "ephemeron"}
      PROVE  /\ IsOld(Fields(o)[1]) => Fields(o)[1][2] \in Objs
             /\ IsOld(Fields(o)[2]) => Fields(o)[2][2] \in Objs
  BY <1>1, <1>6, FieldTarget
<1>7. ASSUME Kind(o) = "weak" PROVE WeakCopy(n, o, FALSE)
  <2>1. 1 \in 1 .. Size(o) /\ 2 \in 1 .. Size(o)
    BY <1>3, <1>7
  <2>2. Now(n, o, 1) = Now(m, o, 1) /\ Now(n, o, 2) = Now(m, o, 2)
    BY <1>4, <1>7, <2>1
  <2>3. WeakCopy(m, o, FALSE)
    BY <1>7 DEF CopyOK
  <2>4. Same(n, Fields(o)[2], Now(n, o, 2))
    <3>1. Same(m, Fields(o)[2], Now(m, o, 2))
      BY <2>3 DEF WeakCopy
    <3>2. QED
      BY <1>2, <1>6, <1>7, <2>2, <3>1, SameGrows
  <2>5. Chained(m, o) => Chained(n, o)
    BY <1>1 DEF Grows
  <2>6. QED
    BY <2>2, <2>3, <2>4, <2>5 DEF WeakCopy
<1>8. ASSUME Kind(o) = "ephemeron" PROVE EphemeronCopy(n, o, FALSE)
  <2>1. /\ 1 \in 1 .. Size(o) /\ 2 \in 1 .. Size(o) /\ 3 \in 1 .. Size(o)
    BY <1>3, <1>8
  <2>2. /\ Now(n, o, 1) = Now(m, o, 1) /\ Now(n, o, 2) = Now(m, o, 2)
        /\ Now(n, o, 3) = Now(m, o, 3)
    BY <1>4, <2>1
  <2>3. CASE Hidden(m, o)
    <3>1. Same(m, Fields(o)[2], Now(m, o, 3))
      BY <2>3 DEF Hidden
    <3>2. Same(n, Fields(o)[2], Now(n, o, 3))
      BY <1>2, <1>6, <1>8, <2>2, <3>1, SameGrows
    <3>3. Hidden(n, o)
      BY <2>2, <2>3, <3>2 DEF Hidden
    <3>4. QED
      BY <3>3 DEF EphemeronCopy
  <2>4. CASE Whole(m, o) /\ Opened(m, o)
    <3>1. Opened(n, o)
      BY <1>2, <1>6, <1>8, <2>4 DEF Opened
    <3>2. QED
      BY <1>5, <2>4, <3>1 DEF EphemeronCopy
  <2>5. QED
    BY <1>8, <2>3, <2>4 DEF CopyOK, EphemeronCopy
<1>9. QED
  BY <1>5, <1>7, <1>8 DEF CopyOK

\* An ephemeron that waits is the hidden copy of one in the heap.
LEMMA WaitingHidden ==
  ASSUME heap \in Heaps, HeapAssumption, NEW m, MemoryOK(m), NEW over, Faithful(m, over),
         NEW e \in Waiting(m)
  PROVE  \E o \in Copied(m) : /\ Kind(o) = "ephemeron" /\ e = m.heart[o] /\ Hidden(m, o)
                              /\ IsOld(Fields(o)[1]) /\ KeyOf(m, e) = Fields(o)[1][2]
<1>1. PICK o \in Copied(m) : Kind(o) = "ephemeron" /\ e = m.heart[o]
  BY DEF Waiting, EphemeronAt
<1>2. o \in Objs /\ e \in Nat /\ Waits(m, e)
  BY <1>1, WaitingFacts DEF Copied
<1>3. Now(m, o, 1) = m.to[e] /\ Now(m, o, 2) = m.to[Key(e)]
  <2>1. m.heart[o] + 1 - 1 = e /\ m.heart[o] + 2 - 1 = e + 1
    BY <1>1, <1>2
  <2>2. QED
    BY <2>1 DEF Now, Key
<1>4. m.to[e][1] = "nmv"
  BY <1>2 DEF Waits
<1>5. EphemeronCopy(m, o, over)
  BY <1>1 DEF Faithful, CopyOK
<1>6. ~Whole(m, o)
  <2>1. SUFFICES ASSUME Whole(m, o) PROVE FALSE
    OBVIOUS
  <2>2. 1 \in 1 .. Size(o) /\ Words(o)[1] = Manifest
    BY <1>1, <1>2, WordsFacts DEF EphemeronSize
  <2>3. Same(m, Manifest, Now(m, o, 1))
    BY <2>1, <2>2 DEF Whole
  <2>4. Now(m, o, 1) = Manifest
    BY <2>3 DEF Same, IsOld, Manifest
  <2>5. QED
    BY <1>3, <1>4, <2>4 DEF Manifest
<1>7. ~Cleared(m, o)
  BY <1>3, <1>4 DEF Cleared, Manifest
<1>8. Hidden(m, o)
  BY <1>5, <1>6, <1>7 DEF EphemeronCopy
<1>9. IsOld(Fields(o)[1]) /\ KeyOf(m, e) = Fields(o)[1][2]
  BY <1>3, <1>8 DEF Hidden, KeyOf
<1>10. QED
  BY <1>1, <1>8, <1>9

\* When ephemerons have distinct keys so have the copies that wait.
LEMMA UniqueKeysHold ==
  ASSUME heap \in Heaps, HeapAssumption, DistinctKeys(heap), NEW m, MemoryOK(m), NEW over,
         Faithful(m, over)
  PROVE  UniqueKeys(m)
<1> SUFFICES ASSUME NEW e \in Waiting(m), NEW f \in Waiting(m), KeyOf(m, e) = KeyOf(m, f)
             PROVE  e = f
  BY DEF UniqueKeys
<1>1. PICK o \in Copied(m) : /\ Kind(o) = "ephemeron" /\ e = m.heart[o]
                             /\ IsOld(Fields(o)[1]) /\ KeyOf(m, e) = Fields(o)[1][2]
  BY WaitingHidden
<1>2. PICK p \in Copied(m) : /\ Kind(p) = "ephemeron" /\ f = m.heart[p]
                             /\ IsOld(Fields(p)[1]) /\ KeyOf(m, f) = Fields(p)[1][2]
  BY WaitingHidden
<1>3. o \in Objs /\ p \in Objs
  BY DEF Copied
<1>4. o = p
  BY <1>1, <1>2, <1>3 DEF DistinctKeys, Objs, Kind, Fields
<1>5. QED
  BY <1>1, <1>2, <1>4

\* An object is copied behind the last word.
AppendStep(m, n, o) ==
  /\ Len(n.to) = Len(m.to) + Size(o)
  /\ n.heart[o] = Len(m.to) + 1 /\ \A p \in Objs \ {o} : n.heart[p] = m.heart[p]
  /\ \A i \in 1 .. Len(m.to) : n.to[i] = m.to[i]
  /\ n.hung = m.hung /\ n.queue = m.queue
PlainStep(m, n, o) ==
  /\ AppendStep(m, n, o)
  /\ n.chain = m.chain /\ n.list = m.list /\ n.bucket = m.bucket
  /\ \A i \in 1 .. Size(o) : n.to[Len(m.to) + i] = Words(o)[i]
WeakStep(m, n, o) ==
  /\ AppendStep(m, n, o)
  /\ n.chain = <<o>> \o m.chain /\ n.list = m.list /\ n.bucket = m.bucket
  /\ n.to[Len(m.to) + 1] = WeakCar(Fields(o)[1])
  /\ n.to[Len(m.to) + 2] = Fields(o)[2]
HideStep(m, n, o) ==
  /\ AppendStep(m, n, o)
  /\ n.to[Len(m.to) + 1] = Skip(4)
  /\ n.to[Len(m.to) + 2] = Fields(o)[1]
  /\ n.to[Len(m.to) + 3] = Fields(o)[2]
  /\ n.to[Len(m.to) + 4] = AsLink(m.list)
  /\ n.to[Len(m.to) + 5] = AsLink(m.bucket[Bucket(Fields(o)[1][2])])
  /\ n.list = Len(m.to) + 1
  /\ n.bucket = [m.bucket EXCEPT ![Bucket(Fields(o)[1][2])] = Len(m.to) + 1]
  /\ n.chain = m.chain

\* What copying an object appends, and what it leaves.
LEMMA AppendFacts ==
  ASSUME heap \in Heaps, HeapAssumption, NEW m, MemoryOK(m), NEW o \in Objs, m.heart[o] = 0,
         NEW n, MemoryOK(n), AppendStep(m, n, o), \A p \in Objs : Chained(m, p) => Chained(n, p)
  PROVE  /\ Grows(m, n) /\ Copied(n) = Copied(m) \cup {o}
         /\ Waiting(m) \subseteq Waiting(n)
         /\ \A e \in Waiting(n) : e \in Waiting(m) \/ (Kind(o) = "ephemeron" /\ e = Len(m.to) + 1)
         /\ \A e \in Waiting(m) : /\ n.to[e] = m.to[e] /\ n.to[Key(e)] = m.to[Key(e)]
                                  /\ n.to[Datum(e)] = m.to[Datum(e)]
                                  /\ KeyOf(n, e) = KeyOf(m, e)
                                  /\ After(n, ListWord, e) = After(m, ListWord, e)
                                  /\ After(n, NextWord, e) = After(m, NextWord, e)
         /\ \A i \in 1 .. Size(o) : Now(n, o, i) = n.to[Len(m.to) + i]
<1>1. Len(m.to) \in Nat /\ Size(o) \in Nat \ {0} /\ Len(n.to) = Len(m.to) + Size(o)
  BY LengthType, WordsFacts DEF AppendStep
<1>2. \A p \in Objs : m.heart[p] # 0 => n.heart[p] = m.heart[p]
  BY DEF AppendStep
<1>3. Copied(n) = Copied(m) \cup {o}
  <2>1. n.heart[o] # 0
    BY <1>1 DEF AppendStep
  <2>2. QED
    BY <2>1 DEF AppendStep, Copied
<1>4. ASSUME NEW e \in Nat, e <= Len(m.to) PROVE EphemeronAt(n, e) <=> EphemeronAt(m, e)
  <2>1. n.heart[o] # e /\ n.heart[o] # 0
    BY <1>1, <1>4 DEF AppendStep
  <2>2. \A p \in Objs : p # o => n.heart[p] = m.heart[p]
    BY DEF AppendStep
  <2>3. ASSUME EphemeronAt(n, e) PROVE EphemeronAt(m, e)
    <3>1. PICK p \in Copied(n) : Kind(p) = "ephemeron" /\ e = n.heart[p]
      BY <2>3 DEF EphemeronAt
    <3>2. p # o /\ p \in Copied(m)
      BY <1>3, <2>1, <3>1
    <3>3. QED
      BY <2>2, <3>1, <3>2 DEF EphemeronAt, Copied
  <2>4. ASSUME EphemeronAt(m, e) PROVE EphemeronAt(n, e)
    <3>1. PICK p \in Copied(m) : Kind(p) = "ephemeron" /\ e = m.heart[p]
      BY <2>4 DEF EphemeronAt
    <3>2. p \in Copied(n) /\ n.heart[p] = m.heart[p]
      BY <1>2, <1>3 DEF Copied
    <3>3. QED
      BY <3>1, <3>2 DEF EphemeronAt
  <2>5. QED
    BY <2>3, <2>4
<1>5. \A e \in 1 .. Len(m.to) : e \in Waiting(n) <=> e \in Waiting(m)
  <2>1. ASSUME NEW e \in 1 .. Len(m.to) PROVE e \in Waiting(n) <=> e \in Waiting(m)
    <3>1. e \in 1 .. Len(n.to) /\ (EphemeronAt(n, e) <=> EphemeronAt(m, e))
      BY <1>1, <1>4
    <3>2. n.to[e] = m.to[e]
      BY DEF AppendStep
    <3>3. QED
      BY <3>1, <3>2 DEF Waiting, Waits
  <2>2. QED
    BY <2>1
<1>6. Grows(m, n)
  BY <1>1, <1>2, <1>5 DEF Grows, AppendStep
<1>7. Waiting(m) \subseteq Waiting(n)
  BY <1>5 DEF Waiting
<1>8. ASSUME NEW e \in Waiting(n), e \notin Waiting(m)
      PROVE  Kind(o) = "ephemeron" /\ e = Len(m.to) + 1
  <2>1. PICK p \in Copied(n) : Kind(p) = "ephemeron" /\ e = n.heart[p]
    BY DEF Waiting, EphemeronAt
  <2>2. e \in 1 .. Len(n.to) /\ e \notin 1 .. Len(m.to)
    BY <1>5, <1>8 DEF Waiting
  <2>3. p = o
    <3>1. SUFFICES ASSUME p # o PROVE FALSE
      OBVIOUS
    <3>2. p \in Copied(m) /\ e = m.heart[p]
      BY <1>3, <2>1, <3>1 DEF AppendStep, Copied
    <3>3. EphemeronAt(m, e)
      BY <2>1, <3>2 DEF EphemeronAt
    <3>4. e \in 1 .. Len(m.to)
      BY <3>3, EphemeronFacts
    <3>5. QED
      BY <2>2, <3>4
  <2>4. QED
    BY <2>1, <2>3 DEF AppendStep
<1>9. ASSUME NEW e \in Waiting(m)
      PROVE  /\ n.to[e] = m.to[e] /\ n.to[Key(e)] = m.to[Key(e)]
             /\ n.to[Datum(e)] = m.to[Datum(e)]
             /\ KeyOf(n, e) = KeyOf(m, e)
             /\ After(n, ListWord, e) = After(m, ListWord, e)
             /\ After(n, NextWord, e) = After(m, NextWord, e)
  <2>1. e \in Nat /\ e >= 3 /\ e + 4 <= Len(m.to)
    BY WaitingFacts
  <2>2. /\ e \in 1 .. Len(m.to) /\ e + 1 \in 1 .. Len(m.to) /\ e + 2 \in 1 .. Len(m.to)
        /\ e + 3 \in 1 .. Len(m.to) /\ e + 4 \in 1 .. Len(m.to)
    BY <1>1, <2>1
  <2>3. /\ n.to[e] = m.to[e] /\ n.to[e + 1] = m.to[e + 1] /\ n.to[e + 2] = m.to[e + 2]
        /\ n.to[e + 3] = m.to[e + 3] /\ n.to[e + 4] = m.to[e + 4]
    BY <2>2 DEF AppendStep
  <2>4. QED
    BY <2>3 DEF Key, Datum, KeyOf, After, ListWord, NextWord
<1>10. ASSUME NEW i \in 1 .. Size(o) PROVE Now(n, o, i) = n.to[Len(m.to) + i]
  <2>1. n.heart[o] + i - 1 = Len(m.to) + i
    BY <1>1 DEF AppendStep
  <2>2. QED
    BY <2>1 DEF Now
<1>11. QED
  BY <1>3, <1>6, <1>7, <1>8, <1>9, <1>10

\* A faithful copy appended to faithful copies.
LEMMA AppendFaithful ==
  ASSUME heap \in Heaps, HeapAssumption, NEW m, MemoryOK(m), NEW o \in Objs, m.heart[o] = 0,
         NEW n, MemoryOK(n), AppendStep(m, n, o), \A p \in Objs : Chained(m, p) => Chained(n, p),
         Faithful(m, FALSE), CopyOK(n, o, FALSE),
         \A i, j \in 1 .. Len(n.chain) : n.chain[i] = n.chain[j] => i = j,
         \A i \in 1 .. Len(n.chain) : IsOld(Fields(n.chain[i])[1])
  PROVE  Faithful(n, FALSE)
<1>1. Grows(m, n) /\ Copied(n) = Copied(m) \cup {o}
  BY AppendFacts
<1>2. \A p \in Copied(m) : CopyOK(n, p, FALSE)
  BY <1>1, CopyGrows DEF Faithful
<1>3. \A p \in Copied(n) : CopyOK(n, p, FALSE)
  BY <1>1, <1>2
<1>4. n.to[1] = m.to[1] /\ n.to[2] = m.to[2]
  BY LengthType DEF AppendStep
<1>5. Same(m, heap.fixed, m.to[1]) /\ m.to[2] = Imm
  BY DEF Faithful
<1>6. IsOld(heap.fixed) => heap.fixed[2] \in Objs
  <2>1. heap.fixed \in HeapWords(Objs)
    BY HeapFacts
  <2>2. QED
    BY <2>1, HeapWordFacts
<1>7. \A p \in Objs : m.heart[p] # 0 => n.heart[p] = m.heart[p]
  BY <1>1 DEF Grows
<1>8. Same(n, heap.fixed, n.to[1])
  BY <1>4, <1>5, <1>6, <1>7, SameGrows
<1>9. QED
  BY <1>3, <1>4, <1>5, <1>8 DEF Faithful

\* What holds while objects are copied (see GraphInv); o is about to be copied, and x an
\* ephemeron taken from the queue.
Copying(m, lim, o, x) ==
  /\ MemoryOK(m) /\ ~ m.hung
  /\ Faithful(m, FALSE)
  /\ Copied(m) \subseteq Live
  /\ Listed(m, m.list)
  /\ Kept(m, lim, o, x)

\* The chains stay, and those whose key is o have a live one now.
LEMMA AppendKept ==
  ASSUME heap \in Heaps, HeapAssumption, NEW m, MemoryOK(m), NEW o \in Objs, m.heart[o] = 0,
         NEW n, MemoryOK(n), AppendStep(m, n, o), \A p \in Objs : Chained(m, p) => Chained(n, p),
         Waiting(n) = Waiting(m), n.list = m.list, n.bucket = m.bucket
  PROVE  /\ Listed(m, m.list) => Listed(n, n.list)
         /\ \A lim, x : Kept(m, lim, o, x) => Kept(n, lim, 0, x)
<1>1. \A e \in Waiting(m) : /\ n.to[Datum(e)] = m.to[Datum(e)]
                            /\ KeyOf(n, e) = KeyOf(m, e)
                            /\ After(n, ListWord, e) = After(m, ListWord, e)
                            /\ After(n, NextWord, e) = After(m, NextWord, e)
  BY AppendFacts
<1>2. Listed(m, m.list) => Listed(n, n.list)
  BY <1>1, DescendsSame DEF Listed
<1>3. n.queue = m.queue
  BY DEF AppendStep
<1>4. ASSUME NEW lim, NEW x, Kept(m, lim, o, x) PROVE Kept(n, lim, 0, x)
  <2>1. PICK H, Q, r : Chains(m, H, Q, r) /\ Sorted(m, H, Q, lim, o, x)
    BY <1>4 DEF Kept
  <2>2. H \subseteq Waiting(m) /\ Q \subseteq Waiting(m) /\ H \cap Q = {}
    BY <2>1 DEF Chains
  <2>3. ASSUME NEW c \in 0 .. Buckets - 1
        PROVE  Descends(n, NextWord, n.bucket[c], InBucket(n, H, c), Address)
    <3>1. InBucket(n, H, c) = InBucket(m, H, c) /\ InBucket(m, H, c) \subseteq Waiting(m)
      BY <1>1, <2>2 DEF InBucket
    <3>2. Descends(m, NextWord, m.bucket[c], InBucket(m, H, c), Address)
      BY <2>1 DEF Chains
    <3>3. Descends(n, NextWord, m.bucket[c], InBucket(m, H, c), Address)
      BY <1>1, <3>1, <3>2, DescendsSame
    <3>4. QED
      BY <3>1, <3>3
  <2>4. Descends(n, NextWord, n.queue, Q, r)
    <3>1. Descends(m, NextWord, m.queue, Q, r)
      BY <2>1 DEF Chains
    <3>2. Descends(n, NextWord, m.queue, Q, r)
      BY <1>1, <2>2, <3>1, DescendsSame
    <3>3. QED
      BY <1>3, <3>2
  <2>5. Chains(n, H, Q, r)
    BY <2>1, <2>2, <2>3, <2>4 DEF Chains
  <2>6. \A e \in Waiting(m) : KeyLives(n, e, 0) <=> KeyLives(m, e, o)
    <3>1. ASSUME NEW e \in Waiting(m) PROVE KeyLives(n, e, 0) <=> KeyLives(m, e, o)
      <4>1. KeyOf(m, e) \in Objs /\ KeyOf(m, e) # 0 /\ KeyOf(n, e) = KeyOf(m, e)
        BY <1>1, WaitingFacts, HeapFacts
      <4>2. n.heart[KeyOf(m, e)] # 0 <=> m.heart[KeyOf(m, e)] # 0 \/ KeyOf(m, e) = o
        <5>1. Len(m.to) + 1 # 0
          BY LengthType
        <5>2. QED
          BY <4>1, <5>1 DEF AppendStep
      <4>3. QED
        BY <4>1, <4>2 DEF KeyLives
    <3>2. QED
      BY <3>1
  <2>7. Sorted(n, H, Q, lim, 0, x)
    BY <1>1, <2>1, <2>2, <2>6 DEF Sorted
  <2>8. QED
    BY <2>5, <2>7 DEF Kept
<1>5. QED
  BY <1>2, <1>4

\* A copy that starts as the words of its object (PlainStep).
LEMMA PlainCopies ==
  ASSUME heap \in Heaps, HeapAssumption, NEW m, NEW lim, NEW o \in Objs, NEW x,
         Copying(m, lim, o, x), m.heart[o] = 0, o \in Live,
         NEW n, MemoryOK(n), PlainStep(m, n, o),
         Kind(o) = "weak" => ~IsOld(Fields(o)[1]), Kind(o) = "ephemeron" => Opened(n, o)
  PROVE  Copying(n, lim, 0, x) /\ Grows(m, n)
<1>1. MemoryOK(m) /\ AppendStep(m, n, o) /\ \A p \in Objs : Chained(m, p) => Chained(n, p)
  BY DEF Copying, PlainStep, Chained
<1>2. /\ Grows(m, n) /\ Copied(n) = Copied(m) \cup {o} /\ Waiting(m) \subseteq Waiting(n)
      /\ \A e \in Waiting(n) : e \in Waiting(m) \/ (Kind(o) = "ephemeron" /\ e = Len(m.to) + 1)
      /\ \A i \in 1 .. Size(o) : Now(n, o, i) = n.to[Len(m.to) + i]
  BY <1>1, AppendFacts
<1>3. \A i \in 1 .. Size(o) : Now(n, o, i) = Words(o)[i]
  BY <1>2 DEF PlainStep
<1>4. Whole(n, o)
  BY <1>3 DEF Whole, Same
<1>5. CopyOK(n, o, FALSE)
  <2>1. ASSUME Kind(o) = "weak" PROVE WeakCopy(n, o, FALSE)
    <3>1. Words(o) = Fields(o) /\ Size(o) = 2
      BY <2>1, WordsFacts
    <3>2. Now(n, o, 1) = Fields(o)[1] /\ Now(n, o, 2) = Fields(o)[2]
      BY <1>3, <3>1
    <3>3. QED
      BY <2>1, <3>2 DEF WeakCopy, Same
  <2>2. ASSUME Kind(o) = "ephemeron" PROVE EphemeronCopy(n, o, FALSE)
    BY <1>4, <2>2 DEF EphemeronCopy
  <2>3. QED
    BY <1>4, <2>1, <2>2 DEF CopyOK
<1>6. Faithful(n, FALSE)
  <2>1. /\ \A i, j \in 1 .. Len(n.chain) : n.chain[i] = n.chain[j] => i = j
        /\ \A i \in 1 .. Len(n.chain) : IsOld(Fields(n.chain[i])[1])
    BY DEF Copying, PlainStep, Faithful
  <2>2. QED
    BY <1>1, <1>5, <2>1, AppendFaithful DEF Copying
<1>7. Waiting(n) = Waiting(m)
  <2>1. ASSUME Kind(o) = "ephemeron" PROVE Len(m.to) + 1 \notin Waiting(n)
    <3>1. Words(o)[1] = Manifest /\ 1 \in 1 .. Size(o)
      BY <2>1, WordsFacts DEF EphemeronSize
    <3>2. n.to[Len(m.to) + 1] = Manifest
      BY <3>1 DEF PlainStep
    <3>3. QED
      BY <3>2 DEF Waiting, Waits, Manifest
  <2>2. QED
    BY <1>2, <2>1
<1>8. Listed(n, n.list) /\ Kept(n, lim, 0, x)
  BY <1>1, <1>7, AppendKept DEF Copying, PlainStep
<1>9. Copied(n) \subseteq Live /\ ~n.hung
  BY <1>1, <1>2 DEF Copying, AppendStep
<1>10. QED
  BY <1>2, <1>6, <1>8, <1>9 DEF Copying

\* A weak pair whose car is a pointer goes on the weak chain, its car hidden.
LEMMA WeakCopies ==
  ASSUME heap \in Heaps, HeapAssumption, NEW m, NEW lim, NEW o \in Objs, NEW x,
         Copying(m, lim, o, x), m.heart[o] = 0, o \in Live,
         NEW n, MemoryOK(n), WeakStep(m, n, o), Kind(o) = "weak", IsOld(Fields(o)[1])
  PROVE  Copying(n, lim, 0, x) /\ Grows(m, n)
<1>1. MemoryOK(m) /\ AppendStep(m, n, o)
  BY DEF Copying, WeakStep
<1>2. m.chain \in Seq(Objs) /\ \A i \in 1 .. Len(m.chain) : m.heart[m.chain[i]] # 0
  BY <1>1 DEF MemoryOK, WeakOK
<1>3. /\ Len(n.chain) = Len(m.chain) + 1 /\ Len(m.chain) \in Nat
      /\ n.chain[1] = o /\ \A i \in 1 .. Len(m.chain) : n.chain[i + 1] = m.chain[i]
  <2>1. n.chain = <<o>> \o m.chain
    BY DEF WeakStep
  <2>2. QED
    BY <1>2, <2>1
<1>4. \A i \in 1 .. Len(n.chain) : i = 1 \/ (i - 1 \in 1 .. Len(m.chain) /\ n.chain[i] = m.chain[i - 1])
  BY <1>3
<1>5. \A p \in Objs : Chained(m, p) => Chained(n, p)
  <2>1. ASSUME NEW p \in Objs, Chained(m, p) PROVE Chained(n, p)
    <3>1. PICK i \in 1 .. Len(m.chain) : m.chain[i] = p
      BY <2>1 DEF Chained
    <3>2. i + 1 \in 1 .. Len(n.chain) /\ n.chain[i + 1] = p
      BY <1>3, <3>1
    <3>3. QED
      BY <3>2 DEF Chained
  <2>2. QED
    BY <2>1
<1>6. \A i, j \in 1 .. Len(n.chain) : n.chain[i] = n.chain[j] => i = j
  <2>1. SUFFICES ASSUME NEW i \in 1 .. Len(n.chain), NEW j \in 1 .. Len(n.chain),
                        n.chain[i] = n.chain[j]
                 PROVE  i = j
    OBVIOUS
  <2>2. \A k \in 1 .. Len(n.chain) : n.chain[k] = o => k = 1
    <3>1. SUFFICES ASSUME NEW k \in 1 .. Len(n.chain), n.chain[k] = o, k # 1 PROVE FALSE
      OBVIOUS
    <3>2. k - 1 \in 1 .. Len(m.chain) /\ m.chain[k - 1] = o
      BY <1>4, <3>1
    <3>3. QED
      BY <1>2, <3>2
  <2>3. CASE i = 1 \/ j = 1
    BY <1>3, <2>1, <2>2, <2>3
  <2>4. CASE i # 1 /\ j # 1
    <3>1. /\ i - 1 \in 1 .. Len(m.chain) /\ j - 1 \in 1 .. Len(m.chain)
          /\ m.chain[i - 1] = m.chain[j - 1]
      BY <1>4, <2>1, <2>4
    <3>2. i - 1 = j - 1
      BY <3>1 DEF Copying, Faithful
    <3>3. QED
      BY <3>2
  <2>5. QED
    BY <2>3, <2>4
<1>7. \A i \in 1 .. Len(n.chain) : IsOld(Fields(n.chain[i])[1])
  <2>1. ASSUME NEW i \in 1 .. Len(n.chain) PROVE IsOld(Fields(n.chain[i])[1])
    <3>1. CASE i = 1
      BY <1>3, <3>1
    <3>2. CASE i # 1
      BY <1>4, <3>2 DEF Copying, Faithful
    <3>3. QED
      BY <3>1, <3>2
  <2>2. QED
    BY <2>1
<1>8. /\ Grows(m, n) /\ Copied(n) = Copied(m) \cup {o} /\ Waiting(m) \subseteq Waiting(n)
      /\ \A e \in Waiting(n) : e \in Waiting(m) \/ (Kind(o) = "ephemeron" /\ e = Len(m.to) + 1)
      /\ \A i \in 1 .. Size(o) : Now(n, o, i) = n.to[Len(m.to) + i]
  BY <1>1, <1>5, AppendFacts
<1>9. CopyOK(n, o, FALSE)
  <2>1. Size(o) = 2
    BY WordsFacts
  <2>2. Now(n, o, 1) = WeakCar(Fields(o)[1]) /\ Now(n, o, 2) = Fields(o)[2]
    BY <1>8, <2>1 DEF WeakStep
  <2>3. Chained(n, o)
    BY <1>3 DEF Chained
  <2>4. QED
    BY <2>2, <2>3 DEF CopyOK, WeakCopy, Same
<1>10. Faithful(n, FALSE)
  BY <1>1, <1>5, <1>6, <1>7, <1>9, AppendFaithful DEF Copying
<1>11. Waiting(n) = Waiting(m)
  BY <1>8
<1>12. Listed(n, n.list) /\ Kept(n, lim, 0, x)
  BY <1>1, <1>5, <1>11, AppendKept DEF Copying, WeakStep
<1>13. Copied(n) \subseteq Live /\ ~n.hung
  BY <1>1, <1>8 DEF Copying, AppendStep
<1>14. QED
  BY <1>8, <1>10, <1>12, <1>13 DEF Copying

\* An ephemeron whose key is not copied waits, hidden, in the list and its bucket.
LEMMA HideCopies ==
  ASSUME heap \in Heaps, HeapAssumption, NEW m, NEW lim, NEW o \in Objs, NEW x,
         Copying(m, lim, o, x), m.heart[o] = 0, o \in Live,
         NEW n, MemoryOK(n), HideStep(m, n, o), Kind(o) = "ephemeron", IsOld(Fields(o)[1]),
         n.heart[Fields(o)[1][2]] = 0
  PROVE  Copying(n, lim, 0, x) /\ Grows(m, n)
<1>1. MemoryOK(m) /\ AppendStep(m, n, o) /\ \A p \in Objs : Chained(m, p) => Chained(n, p)
  BY DEF Copying, HideStep, Chained
<1>2. /\ Grows(m, n) /\ Copied(n) = Copied(m) \cup {o} /\ Waiting(m) \subseteq Waiting(n)
      /\ \A e \in Waiting(n) : e \in Waiting(m) \/ (Kind(o) = "ephemeron" /\ e = Len(m.to) + 1)
      /\ \A e \in Waiting(m) : /\ n.to[Datum(e)] = m.to[Datum(e)]
                               /\ KeyOf(n, e) = KeyOf(m, e)
                               /\ After(n, ListWord, e) = After(m, ListWord, e)
                               /\ After(n, NextWord, e) = After(m, NextWord, e)
      /\ \A i \in 1 .. Size(o) : Now(n, o, i) = n.to[Len(m.to) + i]
  BY <1>1, AppendFacts
<1>3. PICK a : a = Len(m.to) + 1
  OBVIOUS
<1>4. PICK key : key = Fields(o)[1][2]
  OBVIOUS
<1>5. a \in Nat \ {0} /\ Len(m.to) \in Nat /\ Size(o) = 5 /\ Len(n.to) = Len(m.to) + 5
  BY <1>1, <1>3, LengthType, WordsFacts DEF AppendStep, EphemeronSize
<1>6. key \in Objs /\ key # 0 /\ Bucket(key) \in 0 .. Buckets - 1
  BY <1>4, FieldTarget, HeapFacts DEF Bucket
<1>7. CopyOK(n, o, FALSE)
  <2>1. 1 \in 1 .. Size(o) /\ 2 \in 1 .. Size(o) /\ 3 \in 1 .. Size(o)
    BY <1>5
  <2>2. /\ Now(n, o, 1) = Skip(4) /\ Now(n, o, 2) = Fields(o)[1]
        /\ Now(n, o, 3) = Fields(o)[2]
    BY <1>2, <2>1 DEF HideStep
  <2>3. Hidden(n, o)
    BY <2>2 DEF Hidden, Same
  <2>4. QED
    BY <2>3 DEF CopyOK, EphemeronCopy
<1>8. Faithful(n, FALSE)
  <2>1. /\ \A i, j \in 1 .. Len(n.chain) : n.chain[i] = n.chain[j] => i = j
        /\ \A i \in 1 .. Len(n.chain) : IsOld(Fields(n.chain[i])[1])
    BY DEF Copying, HideStep, Faithful
  <2>2. QED
    BY <1>1, <1>7, <2>1, AppendFaithful DEF Copying
<1>9. /\ n.to[a] = Skip(4) /\ KeyOf(n, a) = key
      /\ Link(n.to[a + 3]) = m.list /\ Link(n.to[a + 4]) = m.bucket[Bucket(key)]
      /\ n.list = a /\ n.queue = m.queue /\ n.heart[key] = 0
      /\ n.bucket = [m.bucket EXCEPT ![Bucket(key)] = a]
  <2>1. /\ a + 1 = Len(m.to) + 2 /\ a + 3 = Len(m.to) + 4 /\ a + 4 = Len(m.to) + 5
    BY <1>3, <1>5
  <2>2. \A b : Link(AsLink(b)) = b
    BY DEF Link, AsLink, False
  <2>3. n.to[a + 1] = Fields(o)[1]
    BY <1>3, <2>1 DEF HideStep
  <2>4. n.to[a + 3] = AsLink(m.list) /\ n.to[a + 4] = AsLink(m.bucket[Bucket(key)])
    BY <1>3, <1>4, <2>1 DEF HideStep
  <2>5. KeyOf(n, a) = key
    BY <1>4, <2>3 DEF KeyOf, Key
  <2>6. n.queue = m.queue
    BY <1>1 DEF AppendStep
  <2>7. /\ n.to[a] = Skip(4) /\ n.list = a
        /\ n.bucket = [m.bucket EXCEPT ![Bucket(key)] = a]
    BY <1>3, <1>4 DEF HideStep
  <2>8. QED
    BY <1>4, <2>2, <2>4, <2>5, <2>6, <2>7
<1>10. Waiting(n) = Waiting(m) \cup {a}
  <2>1. EphemeronAt(n, a)
    <3>1. o \in Copied(n) /\ a = n.heart[o]
      BY <1>1, <1>2, <1>3 DEF AppendStep
    <3>2. QED
      BY <3>1 DEF EphemeronAt
  <2>2. a \in Waiting(n)
    <3>1. a \in 1 .. Len(n.to)
      BY <1>3, <1>5
    <3>2. QED
      BY <1>9, <2>1, <3>1 DEF Waiting, Waits, Skip
  <2>3. QED
    BY <1>2, <1>3, <2>2
<1>11. \A e \in Waiting(m) : e \in Nat \ {0} /\ e < a
  <2>1. ASSUME NEW e \in Waiting(m) PROVE e \in Nat \ {0} /\ e < a
    <3>1. e \in Nat \ {0} /\ e + 4 <= Len(m.to)
      BY <1>1, WaitingFacts
    <3>2. QED
      BY <1>3, <1>5, <3>1
  <2>2. QED
    BY <2>1
<1>12. Address \in [Nat -> Nat] /\ \A e \in Nat : Address[e] = e
  BY DEF Address
<1>13. /\ After(n, ListWord, a) = m.list
       /\ After(n, NextWord, a) = m.bucket[Bucket(key)]
  BY <1>9 DEF After, ListWord, NextWord
<1>14. \A S : S \subseteq Waiting(m) => S \subseteq Nat /\ \A e \in S : Address[e] < Address[a]
  BY <1>5, <1>11, <1>12
<1>15. Listed(n, n.list)
  <2>1. Descends(m, ListWord, m.list, Waiting(m), Address)
    BY DEF Copying, Listed
  <2>2. Waiting(m) \subseteq Nat /\ \A e \in Waiting(m) : Address[e] < Address[a]
    BY <1>14
  <2>3. \A e \in Waiting(m) : After(n, ListWord, e) = After(m, ListWord, e)
    BY <1>2
  <2>4. Descends(n, ListWord, a, Waiting(m) \cup {a}, Address)
    BY <1>5, <1>12, <1>13, <2>1, <2>2, <2>3, DescendsPush
  <2>5. QED
    BY <1>9, <1>10, <2>4 DEF Listed
<1>16. PICK H, Q, r : Chains(m, H, Q, r) /\ Sorted(m, H, Q, lim, o, x)
  BY DEF Copying, Kept
<1>17. H \subseteq Waiting(m) /\ Q \subseteq Waiting(m) /\ H \cap Q = {} /\ a \notin Waiting(m)
  BY <1>11, <1>16 DEF Chains
<1>18. ASSUME NEW c \in 0 .. Buckets - 1
       PROVE  Descends(n, NextWord, n.bucket[c], InBucket(n, H \cup {a}, c), Address)
  <2>1. m.bucket \in [0 .. Buckets - 1 -> Nat]
    BY <1>1 DEF MemoryOK, ShapeOK
  <2>2. Descends(m, NextWord, m.bucket[c], InBucket(m, H, c), Address)
    BY <1>16 DEF Chains
  <2>3. InBucket(m, H, c) \subseteq Waiting(m)
    BY <1>17 DEF InBucket
  <2>4. \A e \in InBucket(m, H, c) : After(n, NextWord, e) = After(m, NextWord, e)
    BY <1>2, <2>3
  <2>5. CASE c = Bucket(key)
    <3>1. InBucket(n, H \cup {a}, c) = InBucket(m, H, c) \cup {a}
      BY <1>2, <1>9, <1>17, <2>5 DEF InBucket
    <3>2. n.bucket[c] = a
      BY <1>9, <2>1, <2>5
    <3>3. InBucket(m, H, c) \subseteq Nat /\ \A e \in InBucket(m, H, c) : Address[e] < Address[a]
      BY <1>14, <2>3
    <3>4. After(n, NextWord, a) = m.bucket[c]
      BY <1>13, <2>5
    <3>5. Descends(n, NextWord, a, InBucket(m, H, c) \cup {a}, Address)
      BY <1>5, <1>12, <2>2, <2>4, <3>3, <3>4, DescendsPush
    <3>6. QED
      BY <3>1, <3>2, <3>5
  <2>6. CASE c # Bucket(key)
    <3>1. InBucket(n, H \cup {a}, c) = InBucket(m, H, c)
      BY <1>2, <1>9, <1>17, <2>6 DEF InBucket
    <3>2. n.bucket[c] = m.bucket[c]
      BY <1>9, <2>1, <2>6
    <3>3. Descends(n, NextWord, m.bucket[c], InBucket(m, H, c), Address)
      BY <2>2, <2>4, DescendsSame
    <3>4. QED
      BY <3>1, <3>2, <3>3
  <2>7. QED
    BY <2>5, <2>6
<1>19. Descends(n, NextWord, n.queue, Q, r)
  <2>1. Descends(m, NextWord, m.queue, Q, r)
    BY <1>16 DEF Chains
  <2>2. Descends(n, NextWord, m.queue, Q, r)
    BY <1>2, <1>17, <2>1, DescendsSame
  <2>3. QED
    BY <1>9, <2>2
<1>20. Chains(n, H \cup {a}, Q, r)
  <2>1. (H \cup {a}) \cup Q \subseteq Waiting(n) /\ (H \cup {a}) \cap Q = {}
    BY <1>10, <1>17
  <2>2. r \in [Nat -> Nat] /\ \A e, f \in Q : r[e] = r[f] => e = f
    BY <1>16 DEF Chains
  <2>3. QED
    BY <1>18, <1>19, <2>1, <2>2 DEF Chains
<1>21. \A e \in Waiting(m) : KeyLives(n, e, 0) <=> KeyLives(m, e, o)
  <2>1. ASSUME NEW e \in Waiting(m) PROVE KeyLives(n, e, 0) <=> KeyLives(m, e, o)
    <3>1. KeyOf(m, e) \in Objs /\ KeyOf(m, e) # 0 /\ KeyOf(n, e) = KeyOf(m, e)
      BY <1>1, <1>2, WaitingFacts, HeapFacts
    <3>2. n.heart[KeyOf(m, e)] # 0 <=> m.heart[KeyOf(m, e)] # 0 \/ KeyOf(m, e) = o
      <4>1. Len(m.to) + 1 # 0
        BY <1>5
      <4>2. QED
        BY <1>1, <3>1, <4>1 DEF AppendStep
    <3>3. QED
      BY <3>1, <3>2 DEF KeyLives
  <2>2. QED
    BY <2>1
<1>22. ~KeyLives(n, a, 0)
  BY <1>6, <1>9 DEF KeyLives
<1>23. Sorted(n, H \cup {a}, Q, lim, 0, x)
  <2>1. \A e \in Waiting(n) : IsOld(n.to[Datum(e)]) => e \in (H \cup {a}) \cup Q \cup {x}
    BY <1>2, <1>10, <1>16 DEF Sorted
  <2>2. \A e \in Q : KeyLives(n, e, 0)
    BY <1>16, <1>17, <1>21 DEF Sorted
  <2>3. \A e \in H \cup {a} : KeyLives(n, e, 0) => e <= lim
    BY <1>16, <1>17, <1>21, <1>22 DEF Sorted
  <2>4. QED
    BY <2>1, <2>2, <2>3 DEF Sorted
<1>24. Kept(n, lim, 0, x)
  BY <1>20, <1>23 DEF Kept
<1>25. Copied(n) \subseteq Live /\ ~n.hung
  BY <1>1, <1>2 DEF Copying, AppendStep
<1>26. QED
  BY <1>2, <1>8, <1>15, <1>24, <1>25 DEF Copying

-----------------------------------------------------------------------------
\* The live objects are the least set that holds the roots and all that its members keep.

Roots == Targets(heap.stack \o <<heap.fixed>>)
Closed(s) == \A o \in s : Strong(o, s) \subseteq s
LiveRuns(f, n) ==
  f = [k \in 0 .. n |-> IF k = 0 THEN Targets(heap.stack \o <<heap.fixed>>)
                        ELSE LET r == f[k-1] IN r \cup UNION {Strong(o, r) : o \in r}]

\* The recursive function of Live, up to any number of steps.
LEMMA LiveRunsExist ==
  ASSUME NEW n \in Nat
  PROVE  \E f : LiveRuns(f, n)
<1> DEFINE First == Targets(heap.stack \o <<heap.fixed>>)
           Step(s) == s \cup UNION {Strong(o, s) : o \in s}
           Runs(f, k) == f = [i \in 0 .. k |-> IF i = 0 THEN First ELSE Step(f[i-1])]
           S == {k \in Nat : \E f : Runs(f, k)}
<1> HIDE DEF Step, First
<1>1. 0 \in S
  <2>1. Runs([i \in 0 .. 0 |-> First], 0)
    OBVIOUS
  <2>2. QED
    BY <2>1
<1>2. ASSUME NEW k \in Nat, k \in S PROVE k + 1 \in S
  <2>1. PICK f : Runs(f, k)
    BY <1>2
  <2> DEFINE g == [i \in 0 .. k + 1 |-> IF i = k + 1 THEN Step(f[k]) ELSE f[i]]
  <2>2. ASSUME NEW i \in 0 .. k + 1 PROVE g[i] = IF i = 0 THEN First ELSE Step(g[i-1])
    <3>1. CASE i = 0
      BY <2>1, <3>1
    <3>2. CASE i = k + 1
      <4>1. i - 1 = k /\ k \in 0 .. k + 1 /\ k # k + 1 /\ i # 0
        BY <3>2
      <4>2. QED
        BY <3>2, <4>1
    <3>3. CASE i # 0 /\ i # k + 1
      <4>1. i \in 0 .. k /\ i - 1 \in 0 .. k + 1 /\ i - 1 # k + 1
        BY <3>3
      <4>2. g[i] = f[i] /\ g[i-1] = f[i-1] /\ f[i] = Step(f[i-1])
        BY <2>1, <3>3, <4>1
      <4>3. QED
        BY <3>3, <4>2
    <3>4. QED
      BY <3>1, <3>2, <3>3
  <2>3. g = [i \in 0 .. k + 1 |-> g[i]]
    OBVIOUS
  <2> HIDE DEF g
  <2>4. Runs(g, k + 1)
    BY <2>2, <2>3
  <2>5. QED
    BY <2>4
<1>3. Nat \subseteq S
  <2> HIDE DEF S
  <2>1. QED
    BY <1>1, <1>2, SetInduction
<1>4. PICK f : Runs(f, n)
  BY <1>3
<1>5. QED
  BY <1>4 DEF LiveRuns, Step, First

LiveStep(r) == r \cup UNION {Strong(o, r) : o \in r}

\* Each step adds what the objects so far keep alive.
LEMMA LiveRunsFacts ==
  ASSUME NEW c \in Nat, NEW f, LiveRuns(f, c)
  PROVE  /\ f[0] = Roots
         /\ \A k \in Nat : \A x : k + 1 <= c =>
              (x \in f[k + 1] <=> x \in f[k] \/ \E o \in f[k] : x \in Strong(o, f[k]))
<1>1. f[0] = Roots
  BY DEF LiveRuns, Roots
<1>2. ASSUME NEW k \in Nat, k + 1 <= c
      PROVE  f[k + 1] = f[k] \cup UNION {Strong(o, f[k]) : o \in f[k]}
  <2>1. k + 1 \in 0 .. c /\ (k + 1) - 1 = k /\ k + 1 # 0
    BY <1>2
  <2>2. f = [i \in 0 .. c |-> IF i = 0 THEN Roots ELSE LiveStep(f[i-1])]
    BY DEF LiveRuns, LiveStep, Roots
  <2>3. f[k + 1] = LiveStep(f[k])
    BY <2>1, <2>2
  <2>4. QED
    BY <2>3 DEF LiveStep
<1>3. QED
  BY <1>1, <1>2

\* Objects keep objects alive, and more objects keep more alive.
LEMMA StrongObjs ==
  ASSUME heap \in Heaps, HeapAssumption, NEW o \in Objs, NEW s
  PROVE  Strong(o, s) \subseteq Objs
<1>1. Fields(o) \in Seq(HeapWords(Objs))
  BY HeapFacts
<1>2. \A w \in HeapWords(Objs) : IsOld(w) => w[2] \in Objs
  BY HeapWordFacts
<1>3. Targets(Fields(o)) \subseteq Objs
  <2>1. \A i \in DOMAIN Fields(o) : Fields(o)[i] \in HeapWords(Objs)
    BY <1>1
  <2>2. QED
    BY <1>2, <2>1 DEF Targets
<1>4. Kind(o) = "weak" => Targets(<<Fields(o)[2]>>) \subseteq Objs
  <2>1. SUFFICES ASSUME Kind(o) = "weak" PROVE Targets(<<Fields(o)[2]>>) \subseteq Objs
    OBVIOUS
  <2>2. Len(Fields(o)) = 2
    BY <2>1, HeapFacts
  <2>3. 2 \in DOMAIN Fields(o)
    BY <1>1, <2>2
  <2>4. Fields(o)[2] \in HeapWords(Objs)
    BY <1>1, <2>3
  <2>5. QED
    BY <1>2, <2>4 DEF Targets
<1>5. Kind(o) \in {"pair", "vector", "weak", "ephemeron"}
  BY HeapFacts
<1>6. QED
  BY <1>3, <1>4, <1>5 DEF Strong

\* Objects keep objects alive, and more objects keep more alive.
LEMMA StrongMonotone ==
  ASSUME heap \in Heaps, HeapAssumption, NEW o \in Objs, NEW s, NEW t, s \subseteq t
  PROVE  Strong(o, s) \subseteq Strong(o, t)
<1>1. Kind(o) \in {"pair", "vector", "weak", "ephemeron"}
  BY HeapFacts
<1>2. QED
  BY <1>1 DEF Strong

\* The roots point to objects.
LEMMA RootsObjs ==
  ASSUME heap \in Heaps, HeapAssumption
  PROVE  Roots \subseteq Objs
<1>1. heap.fixed \in HeapWords(Objs) /\ heap.stack \in Seq(HeapWords(Objs))
  BY HeapFacts
<1>2. \A w \in HeapWords(Objs) : IsOld(w) => w[2] \in Objs
  BY HeapWordFacts
<1>3. heap.stack \o <<heap.fixed>> \in Seq(HeapWords(Objs))
  BY <1>1
<1>4. PICK s : s = heap.stack \o <<heap.fixed>>
  OBVIOUS
<1>5. \A i \in DOMAIN s : s[i] \in HeapWords(Objs)
  BY <1>3, <1>4
<1>6. Targets(s) \subseteq Objs
  BY <1>2, <1>5 DEF Targets
<1>7. QED
  BY <1>4, <1>6 DEF Roots

\* Live is the least set with the roots that is closed under Strong: a sequence of growing
\* subsets of a finite set stops growing.
LEMMA LiveFacts ==
  ASSUME heap \in Heaps, HeapAssumption
  PROVE  /\ Roots \subseteq Live /\ Live \subseteq Objs /\ Closed(Live)
         /\ \A S : Roots \subseteq S /\ S \subseteq Objs /\ Closed(S) => Live \subseteq S
<1>1. PICK c \in Nat : c = Cardinality(Objs)
  BY HeapFacts
<1>2. PICK g : g = CHOOSE f : LiveRuns(f, c)
  OBVIOUS
<1>3. LiveRuns(g, c)
  BY <1>2, LiveRunsExist
<1>4. Live = g[c]
  BY <1>1, <1>2 DEF Live, LiveRuns
<1>5. /\ g[0] = Roots
      /\ \A k \in Nat : \A x : k + 1 <= c =>
           (x \in g[k + 1] <=> x \in g[k] \/ \E o \in g[k] : x \in Strong(o, g[k]))
  BY <1>3, LiveRunsFacts
<1>6. IsFiniteSet(Objs)
  BY HeapFacts
<1> DEFINE A == {k \in Nat : k <= c => Roots \subseteq g[k] /\ g[k] \subseteq Objs}
           B == {k \in Nat : k <= c => Closed(g[k]) \/ k <= Cardinality(g[k])}
<1>7. Nat \subseteq A
  <2>1. 0 \in A
    BY <1>5, RootsObjs
  <2>2. ASSUME NEW k \in Nat, k \in A PROVE k + 1 \in A
    <3> SUFFICES ASSUME k + 1 <= c PROVE Roots \subseteq g[k + 1] /\ g[k + 1] \subseteq Objs
      OBVIOUS
    <3>1. Roots \subseteq g[k] /\ g[k] \subseteq Objs
      BY <1>1, <2>2
    <3>2. \A o \in g[k] : Strong(o, g[k]) \subseteq Objs
      BY <3>1, StrongObjs
    <3>3. QED
      BY <1>5, <3>1, <3>2
  <2>3. QED
    <3> HIDE DEF A
    <3>1. QED
      BY <2>1, <2>2, SetInduction
<1>8. Nat \subseteq B
  <2>1. 0 \in B
    <3>1. g[0] \subseteq Objs
      BY <1>5, RootsObjs
    <3>2. IsFiniteSet(g[0])
      BY <1>6, <3>1, FS_Subset
    <3>3. Cardinality(g[0]) \in Nat
      BY <3>2, FS_CardinalityType
    <3>4. QED
      BY <3>3
  <2>2. ASSUME NEW k \in Nat, k \in B PROVE k + 1 \in B
    <3> SUFFICES ASSUME k + 1 <= c PROVE Closed(g[k + 1]) \/ k + 1 <= Cardinality(g[k + 1])
      OBVIOUS
    <3>1. k <= c /\ (Closed(g[k]) \/ k <= Cardinality(g[k]))
      BY <1>1, <2>2
    <3>2. \A x : x \in g[k + 1] <=> x \in g[k] \/ \E o \in g[k] : x \in Strong(o, g[k])
      BY <1>5
    <3>3. CASE Closed(g[k])
      <4>1. g[k + 1] = g[k]
        BY <3>2, <3>3 DEF Closed
      <4>2. QED
        BY <3>3, <4>1
    <3>4. CASE ~Closed(g[k])
      <4>1. PICK x : x \in g[k + 1] /\ x \notin g[k]
        BY <3>2, <3>4 DEF Closed
      <4>2. g[k] \cup {x} \subseteq g[k + 1]
        BY <3>2, <4>1
      <4>3. g[k] \subseteq Objs /\ g[k + 1] \subseteq Objs
        BY <1>1, <1>7, <3>1
      <4>4. IsFiniteSet(g[k]) /\ IsFiniteSet(g[k + 1])
        BY <1>6, <4>3, FS_Subset
      <4>5. Cardinality(g[k] \cup {x}) = Cardinality(g[k]) + 1
        BY <4>1, <4>4, FS_AddElement
      <4>6. Cardinality(g[k] \cup {x}) <= Cardinality(g[k + 1])
        BY <4>2, <4>4, FS_Subset
      <4>7. Cardinality(g[k]) \in Nat /\ Cardinality(g[k + 1]) \in Nat
        BY <4>4, FS_CardinalityType
      <4>8. QED
        BY <3>1, <3>4, <4>5, <4>6, <4>7
    <3>5. QED
      BY <3>3, <3>4
  <2>3. QED
    <3> HIDE DEF B
    <3>1. QED
      BY <2>1, <2>2, SetInduction
<1>9. Roots \subseteq g[c] /\ g[c] \subseteq Objs /\ (Closed(g[c]) \/ c <= Cardinality(g[c]))
  BY <1>7, <1>8
<1>10. Closed(g[c])
  <2>1. CASE c <= Cardinality(g[c])
    <3>1. IsFiniteSet(g[c]) /\ Cardinality(g[c]) <= Cardinality(Objs)
      BY <1>6, <1>9, FS_Subset
    <3>2. Cardinality(g[c]) \in Nat
      BY <3>1, FS_CardinalityType
    <3>3. Cardinality(g[c]) = Cardinality(Objs)
      BY <1>1, <2>1, <3>1, <3>2
    <3>4. g[c] = Objs
      BY <1>6, <1>9, <3>3, FS_Subset
    <3>5. QED
      BY <3>4, StrongObjs DEF Closed
  <2>2. QED
    BY <1>9, <2>1
<1>11. ASSUME NEW S, Roots \subseteq S, S \subseteq Objs, Closed(S) PROVE g[c] \subseteq S
  <2> DEFINE K == {k \in Nat : k <= c => g[k] \subseteq S}
  <2>1. 0 \in K
    BY <1>5, <1>11
  <2>2. ASSUME NEW k \in Nat, k \in K PROVE k + 1 \in K
    <3> SUFFICES ASSUME k + 1 <= c PROVE g[k + 1] \subseteq S
      OBVIOUS
    <3>1. g[k] \subseteq S
      BY <1>1, <2>2
    <3>2. \A o \in g[k] : Strong(o, g[k]) \subseteq S
      <4>1. ASSUME NEW o \in g[k] PROVE Strong(o, g[k]) \subseteq S
        <5>1. o \in S /\ o \in Objs
          BY <1>11, <3>1
        <5>2. Strong(o, g[k]) \subseteq Strong(o, S)
          BY <3>1, <5>1, StrongMonotone
        <5>3. Strong(o, S) \subseteq S
          BY <1>11, <5>1 DEF Closed
        <5>4. QED
          BY <5>2, <5>3
      <4>2. QED
        BY <4>1
    <3>3. QED
      BY <1>5, <3>1, <3>2
  <2>3. Nat \subseteq K
    <3> HIDE DEF K
    <3>1. QED
      BY <2>1, <2>2, SetInduction
  <2>4. QED
    BY <2>3
<1>12. QED
  BY <1>4, <1>9, <1>10, <1>11

\* What the operations add.
LEMMA TransportStep ==
  ASSUME heap \in Heaps, HeapAssumption, NEW m, MemoryOK(m), NEW o \in Objs, m.heart[o] = 0,
         NEW t, t = Transport(m, o)
  PROVE  MemoryOK(t) /\ PlainStep(m, t, o)
<1>1. /\ MemoryOK(t) /\ t.heart[o] = Len(m.to) + 1 /\ \A p \in Objs \ {o} : t.heart[p] = m.heart[p]
      /\ t.chain = m.chain /\ t.list = m.list /\ t.queue = m.queue /\ t.bucket = m.bucket
      /\ Len(t.to) = Len(m.to) + Size(o)
      /\ \A i \in 1 .. Len(m.to) : t.to[i] = m.to[i]
      /\ \A i \in 1 .. Size(o) : t.to[Len(m.to) + i] = Words(o)[i]
  BY TransportCorrect
<1>2. t.hung = m.hung
  BY DEF Transport, MemoryOK, ShapeOK, Record
<1>3. QED
  BY <1>1, <1>2 DEF PlainStep, AppendStep

\* gc_transport_weak_pair makes one of two kinds of copy.
LEMMA WeakPairStep ==
  ASSUME heap \in Heaps, HeapAssumption, NEW m, MemoryOK(m), NEW o \in Objs, m.heart[o] = 0,
         Kind(o) = "weak", NEW n, n = gc_transport_weak_pair(m, o)
  PROVE  /\ MemoryOK(n)
         /\ IF IsOld(Fields(o)[1]) THEN WeakStep(m, n, o) ELSE PlainStep(m, n, o)
<1>1. MemoryOK(n)
  BY WeakPairCorrect DEF Later
<1>2. PICK t : t = Transport(m, o)
  OBVIOUS
<1>3. MemoryOK(t) /\ PlainStep(m, t, o)
  BY <1>2, TransportStep
<1>4. CASE ~IsOld(Fields(o)[1])
  <2>1. n = t
    BY <1>2, <1>4 DEF gc_transport_weak_pair
  <2>2. QED
    BY <1>1, <1>3, <1>4, <2>1
<1>5. CASE IsOld(Fields(o)[1])
  <2>1. PICK a : a = Len(m.to) + 1
    OBVIOUS
  <2>2. PICK w : w = WeakCar(Fields(o)[1])
    OBVIOUS
  <2>3. n = [t EXCEPT !.to[a] = w, !.chain = <<o>> \o @]
    BY <1>2, <1>5, <2>1, <2>2 DEF gc_transport_weak_pair, WeakCar
  <2>4. Record(t) /\ IsSeq(t.to)
    BY <1>3 DEF MemoryOK, ShapeOK
  <2>5. /\ n.to = Put(t.to, a, w) /\ n.heart = t.heart /\ n.chain = <<o>> \o t.chain
        /\ n.list = t.list /\ n.queue = t.queue /\ n.bucket = t.bucket /\ n.hung = t.hung
    BY <2>3, <2>4 DEF Record, Put
  <2>6. Words(o) = Fields(o) /\ Size(o) = 2 /\ Len(m.to) \in Nat
    BY WordsFacts, LengthType
  <2>7. /\ Len(t.to) = Len(m.to) + 2 /\ t.to[Len(m.to) + 2] = Fields(o)[2]
        /\ \A i \in 1 .. Len(m.to) : t.to[i] = m.to[i]
    <3>1. 2 \in 1 .. Size(o)
      BY <2>6
    <3>2. QED
      BY <1>3, <2>6, <3>1 DEF PlainStep, AppendStep
  <2>8. /\ Len(n.to) = Len(m.to) + 2
        /\ \A i \in 1 .. Len(m.to) + 2 : n.to[i] = IF i = a THEN w ELSE t.to[i]
    BY <2>4, <2>5, <2>7, PutFacts
  <2>9. \A i \in 1 .. Len(m.to) : n.to[i] = m.to[i]
    BY <2>1, <2>6, <2>7, <2>8
  <2>10. n.to[Len(m.to) + 1] = w /\ n.to[Len(m.to) + 2] = Fields(o)[2]
    BY <2>1, <2>6, <2>7, <2>8
  <2>11. AppendStep(m, n, o)
    BY <1>3, <2>5, <2>6, <2>8, <2>9 DEF PlainStep, AppendStep
  <2>12. WeakStep(m, n, o)
    BY <1>3, <2>2, <2>5, <2>10, <2>11 DEF WeakStep, PlainStep
  <2>13. QED
    BY <1>1, <1>5, <2>12
<1>6. QED
  BY <1>4, <1>5

\* gc_transport_ephemeron makes one of two kinds of copy.
LEMMA EphemeronStep ==
  ASSUME heap \in Heaps, HeapAssumption, NEW m, MemoryOK(m), NEW o \in Objs, m.heart[o] = 0,
         Kind(o) = "ephemeron", NEW n, n = gc_transport_ephemeron(m, o)
  PROVE  /\ MemoryOK(n)
         /\ \/ PlainStep(m, n, o) /\ Opened(n, o)
            \/ HideStep(m, n, o) /\ IsOld(Fields(o)[1]) /\ n.heart[Fields(o)[1][2]] = 0
<1>1. MemoryOK(n)
  BY EphemeronCorrect DEF Later
<1>2. PICK t : t = Transport(m, o)
  OBVIOUS
<1>3. MemoryOK(t) /\ PlainStep(m, t, o)
  BY <1>2, TransportStep
<1>4. CASE ~IsOld(Fields(o)[1]) \/ t.heart[Fields(o)[1][2]] # 0
  <2>1. n = t
    BY <1>2, <1>4 DEF gc_transport_ephemeron
  <2>2. QED
    BY <1>1, <1>3, <1>4, <2>1 DEF Opened
<1>5. CASE IsOld(Fields(o)[1]) /\ t.heart[Fields(o)[1][2]] = 0
  <2>1. PICK a : a = Len(m.to) + 1
    OBVIOUS
  <2>2. PICK b : b = Bucket(Fields(o)[1][2])
    OBVIOUS
  <2>3. n = [t EXCEPT !.to[a] = Skip(4), !.to[NextLink(a)] = AsLink(m.bucket[b]),
                      !.bucket[b] = a, !.to[ListLink(a)] = AsLink(m.list), !.list = a]
    <3>1. EphemeronSize - 1 = 4
      BY DEF EphemeronSize
    <3>2. QED
      BY <1>2, <1>5, <2>1, <2>2, <3>1 DEF gc_transport_ephemeron
  <2>4. Record(t) /\ IsSeq(t.to)
    BY <1>3 DEF MemoryOK, ShapeOK
  <2>5. PICK u : u = Put(t.to, a, Skip(4))
    OBVIOUS
  <2>6. PICK v : v = Put(u, NextLink(a), AsLink(m.bucket[b]))
    OBVIOUS
  <2>7. PICK w : w = Put(v, ListLink(a), AsLink(m.list))
    OBVIOUS
  <2>8. /\ n.to = w /\ n.heart = t.heart /\ n.chain = t.chain /\ n.list = a
        /\ n.queue = t.queue /\ n.bucket = [t.bucket EXCEPT ![b] = a] /\ n.hung = t.hung
    BY <2>3, <2>4, <2>5, <2>6, <2>7 DEF Record, Put
  <2>9. Size(o) = 5 /\ Len(m.to) \in Nat
    BY WordsFacts, LengthType DEF EphemeronSize
  <2>10. /\ Len(t.to) = Len(m.to) + 5
         /\ t.to[Len(m.to) + 2] = Fields(o)[1] /\ t.to[Len(m.to) + 3] = Fields(o)[2]
         /\ \A i \in 1 .. Len(m.to) : t.to[i] = m.to[i]
    <3>1. 2 \in 1 .. Size(o) /\ 3 \in 1 .. Size(o)
      BY <2>9
    <3>2. Words(o)[2] = Fields(o)[1] /\ Words(o)[3] = Fields(o)[2]
      BY WordsFacts
    <3>3. QED
      BY <1>3, <2>9, <3>1, <3>2 DEF PlainStep, AppendStep
  <2>11. IsSeq(u) /\ Len(u) = Len(t.to)
         /\ \A i \in 1 .. Len(t.to) : u[i] = IF i = a THEN Skip(4) ELSE t.to[i]
    BY <2>4, <2>5, PutFacts
  <2>12. IsSeq(v) /\ Len(v) = Len(t.to)
         /\ \A i \in 1 .. Len(t.to) : v[i] = IF i = NextLink(a) THEN AsLink(m.bucket[b]) ELSE u[i]
    BY <2>6, <2>11, PutFacts
  <2>13. Len(w) = Len(t.to)
         /\ \A i \in 1 .. Len(t.to) : w[i] = IF i = ListLink(a) THEN AsLink(m.list) ELSE v[i]
    BY <2>7, <2>12, PutFacts
  <2>14. \A i \in 1 .. Len(m.to) : n.to[i] = m.to[i]
    <3>1. ASSUME NEW i \in 1 .. Len(m.to) PROVE n.to[i] = m.to[i]
      <4>1. i \in 1 .. Len(t.to) /\ i # a /\ i # NextLink(a) /\ i # ListLink(a)
        BY <2>1, <2>9, <2>10 DEF NextLink, ListLink
      <4>2. QED
        BY <2>8, <2>10, <2>11, <2>12, <2>13, <4>1
    <3>2. QED
      BY <3>1
  <2>15. /\ n.to[Len(m.to) + 1] = Skip(4)
         /\ n.to[Len(m.to) + 2] = Fields(o)[1]
         /\ n.to[Len(m.to) + 3] = Fields(o)[2]
         /\ n.to[Len(m.to) + 4] = AsLink(m.list)
         /\ n.to[Len(m.to) + 5] = AsLink(m.bucket[b])
    <3>1. /\ Len(m.to) + 1 \in 1 .. Len(t.to) /\ Len(m.to) + 2 \in 1 .. Len(t.to)
          /\ Len(m.to) + 3 \in 1 .. Len(t.to) /\ Len(m.to) + 4 \in 1 .. Len(t.to)
          /\ Len(m.to) + 5 \in 1 .. Len(t.to)
      BY <2>9, <2>10
    <3>2. ListLink(a) = Len(m.to) + 4 /\ NextLink(a) = Len(m.to) + 5
      BY <2>1, <2>9 DEF ListLink, NextLink
    <3>3. n.to[Len(m.to) + 1] = Skip(4)
      BY <2>1, <2>8, <2>9, <2>11, <2>12, <2>13, <3>1, <3>2
    <3>9. ASSUME NEW i \in 1 .. Len(t.to), i # a, i # ListLink(a), i # NextLink(a)
          PROVE  n.to[i] = t.to[i]
      <4>1. w[i] = v[i] /\ v[i] = u[i] /\ u[i] = t.to[i]
        BY <2>11, <2>12, <2>13, <3>9
      <4>2. QED
        BY <2>8, <4>1
    <3>4. n.to[Len(m.to) + 2] = Fields(o)[1]
      <4>1. /\ Len(m.to) + 2 # a /\ Len(m.to) + 2 # ListLink(a) /\ Len(m.to) + 2 # NextLink(a)
        BY <2>1, <2>9, <3>2
      <4>2. n.to[Len(m.to) + 2] = t.to[Len(m.to) + 2]
        BY <3>1, <3>9, <4>1
      <4>3. QED
        BY <2>10, <4>2
    <3>5. n.to[Len(m.to) + 3] = Fields(o)[2]
      <4>1. /\ Len(m.to) + 3 # a /\ Len(m.to) + 3 # ListLink(a) /\ Len(m.to) + 3 # NextLink(a)
        BY <2>1, <2>9, <3>2
      <4>2. n.to[Len(m.to) + 3] = t.to[Len(m.to) + 3]
        BY <3>1, <3>9, <4>1
      <4>3. QED
        BY <2>10, <4>2
    <3>6. n.to[Len(m.to) + 4] = AsLink(m.list)
      BY <2>8, <2>13, <3>1, <3>2
    <3>7. n.to[Len(m.to) + 5] = AsLink(m.bucket[b])
      BY <2>8, <2>9, <2>12, <2>13, <3>1, <3>2
    <3>8. QED
      BY <3>3, <3>4, <3>5, <3>6, <3>7
  <2>16. AppendStep(m, n, o)
    BY <1>3, <2>8, <2>9, <2>10, <2>13, <2>14 DEF PlainStep, AppendStep
  <2>17. HideStep(m, n, o)
    BY <1>3, <2>1, <2>2, <2>8, <2>15, <2>16 DEF PlainStep, HideStep
  <2>18. QED
    BY <1>1, <1>5, <2>8, <2>17
<1>6. QED
  BY <1>4, <1>5

\* gc_precheck_from, in a state where objects are copied.
Limit(m, scanning) == IF scanning THEN 0 ELSE Len(m.to)
Collecting(m, scanning, x) == Copying(m, Limit(m, scanning), 0, x)

\* Moving ephemerons between bucket and queue changes no copy.
LEMMA WaitStepCopying ==
  ASSUME heap \in Heaps, HeapAssumption, NEW m, MemoryOK(m), Faithful(m, FALSE),
         Listed(m, m.list), NEW n, MemoryOK(n), WaitStep(m, n)
  PROVE  Faithful(n, FALSE) /\ Listed(n, n.list) /\ Copied(n) = Copied(m)
<1>1. Grows(m, n)
  BY WaitStepGrows
<1>2. /\ Waiting(n) = Waiting(m) /\ Copied(n) = Copied(m)
      /\ \A e \in Waiting(m) : n.to[ListLink(e)] = m.to[ListLink(e)]
  BY WaitSame
<1>3. \A o \in Copied(n) : CopyOK(n, o, FALSE)
  BY <1>1, <1>2, CopyGrows DEF Faithful
<1>4. n.to[1] = m.to[1] /\ n.to[2] = m.to[2]
  <2>1. \A e \in Waiting(m) : NextLink(e) # 1 /\ NextLink(e) # 2
    <3>1. ASSUME NEW e \in Waiting(m) PROVE NextLink(e) # 1 /\ NextLink(e) # 2
      <4>1. e \in Nat /\ e >= 3
        BY WaitingFacts
      <4>2. QED
        BY <4>1 DEF NextLink
    <3>2. QED
      BY <3>1
  <2>2. 1 \in 1 .. Len(m.to) /\ 2 \in 1 .. Len(m.to)
    BY LengthType
  <2>3. QED
    BY <2>1, <2>2 DEF WaitStep
<1>5. Same(n, heap.fixed, n.to[1]) /\ n.to[2] = Imm
  BY <1>4 DEF Faithful, Same, Forwarded, WaitStep
<1>6. Faithful(n, FALSE)
  BY <1>3, <1>5 DEF Faithful, WaitStep
<1>7. Listed(n, n.list)
  <2>1. \A e \in Waiting(m) : After(n, ListWord, e) = After(m, ListWord, e)
    BY <1>2 DEF After, ListWord, ListLink
  <2>2. Descends(n, ListWord, m.list, Waiting(m), Address)
    BY <2>1, DescendsSame DEF Listed
  <2>3. QED
    BY <1>2, <2>2 DEF Listed, WaitStep
<1>8. QED
  BY <1>2, <1>6, <1>7

\* The precheck of a copy: once it is over, the ephemeron of the object's key is queued.
LEMMA PrecheckCopying ==
  ASSUME heap \in Heaps, HeapAssumption, DistinctKeys(heap), NEW m, NEW scanning \in BOOLEAN,
         NEW x, Collecting(m, scanning, x), NEW o \in Objs, m.heart[o] = 0,
         NEW n, n = Precheck(m, o, scanning)
  PROVE  /\ Copying(n, Limit(n, scanning), o, x) /\ Grows(m, n) /\ n.heart = m.heart
         /\ MemoryOK(n)
<1>1. /\ MemoryOK(m) /\ ~ m.hung /\ Faithful(m, FALSE) /\ Copied(m) \subseteq Live
      /\ Listed(m, m.list) /\ Kept(m, Limit(m, scanning), 0, x)
  BY DEF Collecting, Copying
<1>2. CASE scanning
  <2>1. n = queue_ephemerons_for_key(m, o)
    BY <1>2 DEF Precheck
  <2>2. Kept(m, 0, 0, x)
    BY <1>1, <1>2 DEF Limit
  <2>3. UniqueKeys(m)
    BY <1>1, UniqueKeysHold
  <2>4. WaitStep(m, n) /\ MemoryOK(n) /\ KeptBut(n, 0, o, x)
    BY <1>1, <2>1, <2>2, <2>3, QueueKept
  <2>5. Kept(n, Limit(n, scanning), o, x)
    BY <1>2, <2>4 DEF KeptBut, Kept, Limit
  <2>6. Faithful(n, FALSE) /\ Listed(n, n.list) /\ Copied(n) = Copied(m)
    BY <1>1, <2>4, WaitStepCopying
  <2>7. n.heart = m.heart /\ Len(n.to) = Len(m.to) /\ n.hung = m.hung
    BY <2>4 DEF WaitStep
  <2>8. Grows(m, n)
    BY <1>1, <2>4, WaitStepGrows
  <2>9. QED
    BY <1>1, <2>4, <2>5, <2>6, <2>7, <2>8 DEF Copying
<1>3. CASE ~scanning
  <2>1. n = m
    BY <1>3 DEF Precheck
  <2>2. PICK H, Q, r : Chains(m, H, Q, r) /\ Sorted(m, H, Q, Len(m.to), 0, x)
    BY <1>1, <1>3 DEF Limit, Kept
  <2>3. H \subseteq Waiting(m) /\ Q \subseteq Waiting(m)
    BY <2>2 DEF Chains
  <2>4. \A e \in Q : KeyLives(m, e, o)
    <3>1. ASSUME NEW e \in Q PROVE KeyLives(m, e, o)
      <4>1. KeyLives(m, e, 0) /\ KeyOf(m, e) \in Objs
        BY <1>1, <2>2, <2>3, WaitingFacts DEF Sorted
      <4>2. KeyOf(m, e) # 0
        BY <4>1, HeapFacts
      <4>3. QED
        BY <4>1, <4>2 DEF KeyLives
    <3>2. QED
      BY <3>1
  <2>5. \A e \in H : e <= Len(m.to)
    BY <2>3 DEF Waiting
  <2>6. Sorted(m, H, Q, Len(m.to), o, x)
    BY <2>2, <2>4, <2>5 DEF Sorted
  <2>7. Kept(m, Limit(m, scanning), o, x)
    BY <1>3, <2>2, <2>6 DEF Kept, Limit
  <2>8. QED
    BY <1>1, <2>1, <2>7, GrowsSame DEF Copying
<1>4. QED
  BY <1>2, <1>3

\* Fewer ephemerons are known to be sorted.
LEMMA KeptWeaker ==
  ASSUME heap \in Heaps, NEW m, MemoryOK(m), NEW i \in Nat, NEW j \in Nat, i <= j,
         NEW o, NEW x, Kept(m, i, o, x)
  PROVE  Kept(m, j, o, x)
<1>1. PICK H, Q, r : Chains(m, H, Q, r) /\ Sorted(m, H, Q, i, o, x)
  BY DEF Kept
<1>2. ASSUME NEW e \in H, KeyLives(m, e, o) PROVE e <= j
  <2>1. e \in Waiting(m)
    BY <1>1 DEF Chains
  <2>2. e \in Nat /\ e <= i
    BY <1>1, <1>2, <2>1, WaitingFacts DEF Sorted
  <2>3. QED
    BY <2>2
<1>3. Sorted(m, H, Q, j, o, x)
  BY <1>1, <1>2 DEF Sorted
<1>4. QED
  BY <1>1, <1>3 DEF Kept

\* Between two copies, in the terms of what the scan has still to sort.
LEMMA CollectMore ==
  ASSUME heap \in Heaps, NEW m, MemoryOK(m), NEW n, Grows(m, n), NEW scanning \in BOOLEAN, NEW x,
         Copying(n, Limit(m, scanning), 0, x)
  PROVE  Collecting(n, scanning, x)
<1>1. MemoryOK(n) /\ Kept(n, Limit(m, scanning), 0, x)
  BY DEF Copying
<1>2. Limit(m, scanning) \in Nat /\ Limit(n, scanning) \in Nat
      /\ Limit(m, scanning) <= Limit(n, scanning)
  BY <1>1, LengthType DEF Limit, Grows
<1>3. \A z : Kept(n, Limit(m, scanning), z, x) => Kept(n, Limit(n, scanning), z, x)
  BY <1>1, <1>2, KeptWeaker
<1>4. Kept(n, Limit(n, scanning), 0, x)
  BY <1>1, <1>3
<1>5. QED
  BY <1>4 DEF Collecting, Copying

\* An object of one of the other types is copied once the ephemerons of its key are queued.
LEMMA CopyOne ==
  ASSUME heap \in Heaps, HeapAssumption, DistinctKeys(heap), NEW m, NEW scanning \in BOOLEAN,
         NEW x, Collecting(m, scanning, x), NEW o \in Objs, m.heart[o] = 0, o \in Live,
         NEW p, p = Precheck(m, o, scanning), NEW n, 
         \/ n = Transport(p, o) /\ Kind(o) \in {"pair", "vector"}
         \/ n = gc_transport_weak_pair(p, o) /\ Kind(o) = "weak"
         \/ n = gc_transport_ephemeron(p, o) /\ Kind(o) = "ephemeron"
  PROVE  Collecting(n, scanning, x) /\ Grows(m, n) /\ MemoryOK(n) /\ n.heart[o] # 0
<1>1. /\ Copying(p, Limit(p, scanning), o, x) /\ Grows(m, p) /\ p.heart[o] = 0
      /\ MemoryOK(p) /\ MemoryOK(m)
  <2>1. MemoryOK(m)
    BY DEF Collecting, Copying
  <2>2. Copying(p, Limit(p, scanning), o, x) /\ Grows(m, p) /\ p.heart = m.heart /\ MemoryOK(p)
    BY PrecheckCopying
  <2>3. QED
    BY <2>1, <2>2
<1>2. MemoryOK(n) /\ AppendStep(p, n, o)
      /\ Copying(n, Limit(p, scanning), 0, x) /\ Grows(p, n)
  <2>1. CASE n = Transport(p, o) /\ Kind(o) \in {"pair", "vector"}
    <3>1. MemoryOK(n) /\ PlainStep(p, n, o)
      BY <1>1, <2>1, TransportStep
    <3>2. QED
      BY <1>1, <2>1, <3>1, PlainCopies DEF PlainStep
  <2>2. CASE n = gc_transport_weak_pair(p, o) /\ Kind(o) = "weak"
    <3>1. /\ MemoryOK(n)
          /\ IF IsOld(Fields(o)[1]) THEN WeakStep(p, n, o) ELSE PlainStep(p, n, o)
      BY <1>1, <2>2, WeakPairStep
    <3>2. CASE IsOld(Fields(o)[1])
      BY <1>1, <2>2, <3>1, <3>2, WeakCopies DEF WeakStep
    <3>3. CASE ~IsOld(Fields(o)[1])
      BY <1>1, <2>2, <3>1, <3>3, PlainCopies DEF PlainStep
    <3>4. QED
      BY <3>2, <3>3
  <2>3. CASE n = gc_transport_ephemeron(p, o) /\ Kind(o) = "ephemeron"
    <3>1. /\ MemoryOK(n)
          /\ \/ PlainStep(p, n, o) /\ Opened(n, o)
             \/ HideStep(p, n, o) /\ IsOld(Fields(o)[1]) /\ n.heart[Fields(o)[1][2]] = 0
      BY <1>1, <2>3, EphemeronStep
    <3>2. CASE PlainStep(p, n, o) /\ Opened(n, o)
      BY <1>1, <2>3, <3>1, <3>2, PlainCopies DEF PlainStep
    <3>3. CASE HideStep(p, n, o) /\ IsOld(Fields(o)[1]) /\ n.heart[Fields(o)[1][2]] = 0
      BY <1>1, <2>3, <3>1, <3>3, HideCopies DEF HideStep
    <3>4. QED
      BY <3>1, <3>2, <3>3
  <2>4. QED
    BY <2>1, <2>2, <2>3
<1>3. Collecting(n, scanning, x)
  BY <1>1, <1>2, CollectMore
<1>4. Grows(m, n)
  BY <1>1, <1>2, GrowsTransitive
<1>5. n.heart[o] # 0
  <2>1. Len(p.to) + 1 # 0
    BY <1>1, LengthType
  <2>2. QED
    BY <1>2, <2>1 DEF AppendStep
<1>6. QED
  BY <1>2, <1>3, <1>4, <1>5

\* What a live pair points to lives.
LEMMA CdrLives ==
  ASSUME heap \in Heaps, HeapAssumption, NEW o \in Live, Kind(o) = "pair", IsOld(Fields(o)[2])
  PROVE  Fields(o)[2][2] \in Live
<1>1. o \in Objs /\ Strong(o, Live) \subseteq Live
  BY LiveFacts DEF Closed
<1>2. 2 \in DOMAIN Fields(o)
  <2>1. Len(Fields(o)) = 2 /\ Fields(o) \in Seq(HeapWords(Objs))
    BY <1>1, HeapFacts
  <2>2. DOMAIN Fields(o) = 1 .. 2
    BY <2>1, SeqFacts
  <2>3. QED
    BY <2>2
<1>3. Fields(o)[2][2] \in Targets(Fields(o))
  BY <1>2 DEF Targets
<1>4. QED
  BY <1>1, <1>3 DEF Strong

\* gc_tuple: each of its turns copies one pair.
LEMMA TupleCopies ==
  ASSUME heap \in Heaps, HeapAssumption, DistinctKeys(heap), NEW m, NEW scanning \in BOOLEAN,
         NEW x, Collecting(m, scanning, x), NEW o \in Objs, m.heart[o] = 0, o \in Live,
         Kind(o) = "pair", NEW n, n = gc_tuple(m, o, scanning)
  PROVE  Collecting(n, scanning, x) /\ Grows(m, n)
<1>0. MemoryOK(m)
  BY DEF Collecting, Copying
<1>1. PICK f : /\ Pairs(f, Cardinality(Objs), m, o, scanning)
               /\ gc_tuple(m, o, scanning) = f[Cardinality(Objs)].mem
               /\ Cardinality(Objs) \in Nat \ {0}
  BY TupleDefined
<1>2. PICK c : c = Cardinality(Objs)
  OBVIOUS
<1> DEFINE Good(s) == /\ Collecting(s.mem, scanning, x) /\ Grows(m, s.mem)
                      /\ s.last \in Live /\ Kind(s.last) = "pair"
           S == {k \in Nat : k + 1 <= c => Good(f[k + 1])}
<1>3. ASSUME NEW q, Collecting(q, scanning, x), NEW p \in Live, q.heart[p] = 0, Kind(p) = "pair",
             NEW s, s = CopyPair(q, p, scanning)
      PROVE  Collecting(s.mem, scanning, x) /\ Grows(q, s.mem) /\ s.last = p
  <2>1. p \in Objs
    BY LiveFacts
  <2>2. PICK pre : pre = Precheck(q, p, scanning)
    OBVIOUS
  <2>3. s.mem = Transport(pre, p) /\ s.last = p
    BY <1>3, <2>2 DEF CopyPair
  <2>4. QED
    BY <1>3, <2>1, <2>2, <2>3, CopyOne
<1>4. 0 \in S
  <2>1. c >= 1 /\ 0 + 1 = 1
    BY <1>1, <1>2
  <2>2. f[1] = CopyPair(m, o, scanning)
    BY <1>1, <1>2, <2>1 DEF Pairs
  <2>3. Good(f[1])
    BY <1>3, <2>2
  <2>4. QED
    BY <2>1, <2>3
<1>5. ASSUME NEW k \in Nat, k \in S PROVE k + 1 \in S
  <2> SUFFICES ASSUME (k + 1) + 1 <= c PROVE Good(f[(k + 1) + 1])
    OBVIOUS
  <2>1. PICK j : j = k + 2
    OBVIOUS
  <2>2. j \in 1 .. c /\ j - 1 = k + 1 /\ j # 1 /\ k + 1 <= c /\ j = (k + 1) + 1
    BY <1>1, <1>2, <2>1
  <2>3. PICK s : s = f[k + 1]
    OBVIOUS
  <2>4. f[j] = NextPair(s, scanning)
    BY <1>1, <1>2, <2>2, <2>3 DEF Pairs
  <2>5. Good(s)
    BY <1>5, <2>2, <2>3
  <2>6. PICK cdr : cdr = Fields(s.last)[2]
    OBVIOUS
  <2>7. CASE IsOld(cdr) /\ Kind(cdr[2]) = "pair" /\ s.mem.heart[cdr[2]] = 0
    <3>1. cdr[2] \in Live
      BY <2>5, <2>6, <2>7, CdrLives
    <3>2. PICK r : r = CopyPair(s.mem, cdr[2], scanning)
      OBVIOUS
    <3>3. Collecting(r.mem, scanning, x) /\ Grows(s.mem, r.mem) /\ r.last = cdr[2]
      BY <1>3, <2>5, <2>7, <3>1, <3>2
    <3>4. f[j] = r
      BY <2>4, <2>6, <2>7, <3>2 DEF NextPair
    <3>5. Grows(m, r.mem)
      <4>1. MemoryOK(s.mem) /\ MemoryOK(r.mem)
        BY <2>5, <3>3 DEF Collecting, Copying
      <4>2. QED
        BY <1>0, <2>5, <3>3, <4>1, GrowsTransitive
    <3>6. QED
      BY <2>2, <2>7, <3>1, <3>3, <3>4, <3>5
  <2>8. CASE ~(IsOld(cdr) /\ Kind(cdr[2]) = "pair" /\ s.mem.heart[cdr[2]] = 0)
    <3>1. f[j] = s
      BY <2>4, <2>6, <2>8 DEF NextPair
    <3>2. QED
      BY <2>2, <2>5, <3>1
  <2>9. QED
    BY <2>7, <2>8
<1>6. Nat \subseteq S
  <2> HIDE DEF S
  <2>1. QED
    BY <1>4, <1>5, SetInduction
<1>7. c - 1 \in Nat /\ (c - 1) + 1 = c /\ c <= c
  BY <1>1, <1>2
<1>8. Good(f[c])
  <2>1. c - 1 \in S
    BY <1>6, <1>7
  <2>2. QED
    BY <1>7, <2>1
<1>9. QED
  BY <1>1, <1>2, <1>8

\* Whatever its type, a live object is copied faithfully, and no ephemeron is forgotten.
LEMMA HandleCopies ==
  ASSUME heap \in Heaps, HeapAssumption, DistinctKeys(heap), NEW m, NEW scanning \in BOOLEAN,
         NEW x, Collecting(m, scanning, x), NEW o \in Live, NEW n, n = Handle(m, o, scanning)
  PROVE  Collecting(n, scanning, x) /\ Grows(m, n) /\ MemoryOK(n) /\ n.heart[o] # 0
<1>1. o \in Objs /\ MemoryOK(m)
  BY LiveFacts DEF Collecting, Copying
<1>2. MemoryOK(n) /\ n.heart[o] # 0
  BY <1>1, HandleCorrect DEF Later
<1>3. CASE m.heart[o] # 0
  BY <1>1, <1>2, <1>3, GrowsSame DEF Handle
<1>4. CASE m.heart[o] = 0 /\ Kind(o) = "pair"
  <2>1. n = gc_tuple(m, o, scanning)
    BY <1>4 DEF Handle
  <2>2. QED
    BY <1>1, <1>2, <1>4, <2>1, TupleCopies
<1>5. CASE m.heart[o] = 0 /\ Kind(o) # "pair"
  <2>1. PICK p : p = Precheck(m, o, scanning)
    OBVIOUS
  <2>2. \/ n = Transport(p, o) /\ Kind(o) \in {"pair", "vector"}
        \/ n = gc_transport_weak_pair(p, o) /\ Kind(o) = "weak"
        \/ n = gc_transport_ephemeron(p, o) /\ Kind(o) = "ephemeron"
    <3>1. Kind(o) \in {"vector", "weak", "ephemeron"}
      BY <1>1, <1>5, HeapFacts
    <3>2. QED
      BY <1>5, <2>1, <3>1 DEF Handle
  <2>3. QED
    BY <1>1, <1>5, <2>1, <2>2, CopyOne
<1>6. QED
  BY <1>3, <1>4, <1>5

-----------------------------------------------------------------------------
\* The heap that the collection started from is the same in the next state.
LEMMA LiveSame ==
  ASSUME heap' = heap
  PROVE  Live' = Live
BY DEF Live, Strong, Objs, Kind, Fields, Targets

\* The operators on the memory, at the next state.
LEMMA CopyPrime ==
  ASSUME heap' = heap
  PROVE  /\ \A o, i : Now(mem, o, i)' = Now(mem', o, i)
         /\ \A w, v : Same(mem, w, v)' <=> Same(mem', w, v)
         /\ \A o : /\ Fields(o)' = Fields(o) /\ Words(o)' = Words(o) /\ Size(o)' = Size(o)
                   /\ Kind(o)' = Kind(o)
         /\ Waiting(mem)' = Waiting(mem') /\ Copied(mem)' = Copied(mem')
         /\ \A e : KeyOf(mem, e)' = KeyOf(mem', e)
         /\ \A e : KeyLives(mem, e, 0)' <=> KeyLives(mem', e, 0)
         /\ \A k, e : After(mem, k, e)' = After(mem', k, e)
BY DEF Copied, Objs, Kind, Size, Words, Fields, Waiting, EphemeronAt, Waits, Now, Same, IsOld,
       Forwarded, KeyOf, KeyLives, After

\* The parts of the invariant at the next state, from the next memory.
LEMMA FaithfulPrime ==
  ASSUME heap' = heap, NEW over, Faithful(mem', over)
  PROVE  Faithful(mem, over)'
<1>1. /\ \A o, i : Now(mem, o, i)' = Now(mem', o, i)
      /\ \A w, v : Same(mem, w, v)' <=> Same(mem', w, v)
      /\ \A o : /\ Fields(o)' = Fields(o) /\ Words(o)' = Words(o) /\ Size(o)' = Size(o)
                /\ Kind(o)' = Kind(o)
      /\ Copied(mem)' = Copied(mem')
  BY CopyPrime
<1>2. \A o : Whole(mem, o)' <=> Whole(mem', o)
  BY <1>1 DEF Whole
<1>3. \A o : Hidden(mem, o)' <=> Hidden(mem', o)
  BY <1>1 DEF Hidden
<1>4. \A o : Cleared(mem, o)' <=> Cleared(mem', o)
  BY <1>1 DEF Cleared
<1>5. \A o : Opened(mem, o)' <=> Opened(mem', o)
  BY <1>1 DEF Opened
<1>6. \A o : WeakCopy(mem, o, over)' <=> WeakCopy(mem', o, over)
  BY <1>1 DEF WeakCopy, Chained, WeakCar, Forwarded
<1>7. \A o : CopyOK(mem, o, over)' <=> CopyOK(mem', o, over)
  BY <1>1, <1>2, <1>3, <1>4, <1>5, <1>6 DEF CopyOK, EphemeronCopy
<1>8. QED
  BY <1>1, <1>7 DEF Faithful

\* The parts of the invariant at the next state, from the next memory.
LEMMA DescendsPrime ==
  ASSUME NEW k, NEW a, NEW S, NEW r, Descends(mem', k, a, S, r)
  PROVE  Descends(mem, k, a, S, r)'
BY DEF Descends, Greatest, Below, After

\* The parts of the invariant at the next state, from the next memory.
LEMMA ListedPrime ==
  ASSUME heap' = heap, NEW a, Listed(mem', a)
  PROVE  Listed(mem, a)'
<1>1. Waiting(mem)' = Waiting(mem')
  BY CopyPrime
<1>2. PICK W : W = Waiting(mem')
  OBVIOUS
<1>3. Descends(mem', ListWord, a, W, Address)
  BY <1>2 DEF Listed
<1>4. Descends(mem, ListWord, a, W, Address)'
  BY <1>3, DescendsPrime
<1>5. QED
  BY <1>1, <1>2, <1>4 DEF Listed, Descends, Greatest, Below, After, Address

\* The parts of the invariant at the next state, from the next memory.
LEMMA KeptPrime ==
  ASSUME heap' = heap, NEW l, Kept(mem', l, 0, 0)
  PROVE  Kept(mem, l, 0, 0)'
<1>1. PICK H, Q, r : Chains(mem', H, Q, r) /\ Sorted(mem', H, Q, l, 0, 0)
  BY DEF Kept
<1>2. /\ Waiting(mem)' = Waiting(mem')
      /\ \A e : KeyOf(mem, e)' = KeyOf(mem', e)
      /\ \A e : KeyLives(mem, e, 0)' <=> KeyLives(mem', e, 0)
      /\ \A k, e : After(mem, k, e)' = After(mem', k, e)
  BY CopyPrime
<1>3. Sorted(mem, H, Q, l, 0, 0)'
  BY <1>1, <1>2 DEF Sorted
<1>4. \A b : InBucket(mem, H, b)' = InBucket(mem', H, b)
  BY <1>2 DEF InBucket
<1>5. Chains(mem, H, Q, r)'
  BY <1>1, <1>2, <1>4 DEF Chains, Descends
<1>6. QED
  BY <1>3, <1>5 DEF Kept

-----------------------------------------------------------------------------
\* A pointer into fromspace is replaced by what it points to now.
Forwards(m, n, i) ==
  /\ MemoryOK(m) /\ i \in 1 .. Len(m.to) /\ IsOld(m.to[i]) /\ m.heart[m.to[i][2]] # 0
  /\ n = [m EXCEPT !.to[i] = Forwarded(m, m.to[i])]
  /\ \A e \in Waiting(m) : i # Key(e)

\* What forwarding the scanned word changes.
LEMMA ForwardsFacts ==
  ASSUME heap \in Heaps, NEW m, NEW n, NEW i, Forwards(m, n, i)
  PROVE  /\ MemoryOK(n) /\ n.heart = m.heart /\ n.chain = m.chain /\ n.list = m.list
         /\ n.queue = m.queue /\ n.bucket = m.bucket /\ n.hung = m.hung
         /\ Len(n.to) = Len(m.to) /\ Copied(n) = Copied(m)
         /\ \A j \in 1 .. Len(m.to) : n.to[j] = IF j = i THEN Forwarded(m, m.to[i]) ELSE m.to[j]
         /\ ~IsOld(n.to[i])
         /\ Waiting(n) = Waiting(m)
         /\ \A e \in Waiting(m) : /\ KeyOf(n, e) = KeyOf(m, e)
                                  /\ KeyLives(n, e, 0) <=> KeyLives(m, e, 0)
                                  /\ After(n, ListWord, e) = After(m, ListWord, e)
                                  /\ After(n, NextWord, e) = After(m, NextWord, e)
                                  /\ IsOld(n.to[Datum(e)]) => IsOld(m.to[Datum(e)]) /\ i # Datum(e)
<1>1. PICK w : w = Forwarded(m, m.to[i])
  OBVIOUS
<1>2. MemoryOK(m) /\ i \in 1 .. Len(m.to) /\ IsOld(m.to[i]) /\ n = [m EXCEPT !.to[i] = w]
      /\ \A e \in Waiting(m) : i # Key(e)
  BY <1>1 DEF Forwards
<1>3. PutAt(m, n, i, w)
  BY <1>2, PutStep DEF MemoryOK, ShapeOK
<1>4. n.hung = m.hung
  BY <1>2 DEF MemoryOK, ShapeOK, Record
<1>5. w[1] = "new" /\ ~IsOld(w)
  BY <1>1 DEF Forwarded, IsOld
<1>6. ASSUME NEW e, EphemeronAt(m, e)
      PROVE  /\ i \notin {ListLink(e), NextLink(e)}
             /\ Waits(m, e) => i # e /\ i # Key(e)
  <2>1. /\ ~IsOld(m.to[ListLink(e)]) /\ ~IsOld(m.to[NextLink(e)])
    BY <1>2, <1>6, EphemeronFacts, LinkFacts DEF IsOld
  <2>2. ASSUME Waits(m, e) PROVE i # e /\ i # Key(e)
    <3>1. e \in 1 .. Len(m.to)
      BY <1>2, <1>6, EphemeronFacts
    <3>2. e \in Waiting(m)
      BY <1>6, <2>2, <3>1 DEF Waiting
    <3>3. ~IsOld(m.to[e])
      BY <1>2, <3>2, WaitingFacts DEF Skip, IsOld
    <3>4. QED
      BY <1>2, <3>2, <3>3
  <2>3. QED
    BY <1>2, <2>1, <2>2
<1>7. MemoryOK(n) /\ \A j \in 1 .. Len(m.to) : Waits(n, j) <=> Waits(m, j)
  BY <1>2, <1>3, <1>5, <1>6, PutCorrect
<1>8. \A j \in 1 .. Len(m.to) : n.to[j] = IF j = i THEN w ELSE m.to[j]
  BY <1>3 DEF PutAt
<1>9. n.heart = m.heart /\ Copied(n) = Copied(m) /\ Len(n.to) = Len(m.to)
      /\ n.chain = m.chain /\ n.list = m.list /\ n.queue = m.queue /\ n.bucket = m.bucket
  BY <1>3 DEF PutAt, Copied
<1>10. Waiting(n) = Waiting(m)
  BY <1>7, <1>9 DEF Waiting, EphemeronAt
<1>11. ASSUME NEW e \in Waiting(m)
       PROVE  /\ KeyOf(n, e) = KeyOf(m, e)
              /\ KeyLives(n, e, 0) <=> KeyLives(m, e, 0)
              /\ After(n, ListWord, e) = After(m, ListWord, e)
              /\ After(n, NextWord, e) = After(m, NextWord, e)
              /\ IsOld(n.to[Datum(e)]) => IsOld(m.to[Datum(e)]) /\ i # Datum(e)
  <2>1. /\ EphemeronAt(m, e) /\ Waits(m, e)
        /\ e \in Nat /\ e >= 3 /\ e + 4 <= Len(m.to) /\ Len(m.to) \in Nat
    BY <1>2, WaitingFacts
  <2>2. /\ e + 1 \in 1 .. Len(m.to) /\ e + 2 \in 1 .. Len(m.to)
        /\ e + 3 \in 1 .. Len(m.to) /\ e + 4 \in 1 .. Len(m.to)
    BY <2>1
  <2>3. i # e + 1 /\ i # e + 3 /\ i # e + 4
    BY <1>6, <2>1 DEF Key, ListLink, NextLink
  <2>4. n.to[e + 1] = m.to[e + 1] /\ n.to[e + 3] = m.to[e + 3] /\ n.to[e + 4] = m.to[e + 4]
    BY <1>8, <2>2, <2>3
  <2>5. KeyOf(n, e) = KeyOf(m, e)
    BY <2>4 DEF KeyOf, Key
  <2>6. IsOld(n.to[e + 2]) => IsOld(m.to[e + 2]) /\ i # e + 2
    BY <1>5, <1>8, <2>2
  <2>7. QED
    BY <1>9, <2>4, <2>5, <2>6 DEF After, ListWord, NextWord, Datum, KeyLives
<1>12. ~IsOld(n.to[i])
  BY <1>2, <1>5, <1>8
<1>13. QED
  BY <1>1, <1>4, <1>7, <1>8, <1>9, <1>10, <1>11, <1>12

\* A forwarded word is the image of the same word of the heap.
LEMMA ForwardsFaithful ==
  ASSUME heap \in Heaps, HeapAssumption, NEW m, NEW n, NEW i, Forwards(m, n, i),
         Faithful(m, FALSE)
  PROVE  Faithful(n, FALSE)
<1>1. MemoryOK(m) /\ IsOld(m.to[i]) /\ m.heart[m.to[i][2]] # 0
      /\ \A e \in Waiting(m) : i # Key(e)
  BY DEF Forwards
<1>2. /\ n.heart = m.heart /\ n.chain = m.chain /\ Copied(n) = Copied(m)
      /\ \A j \in 1 .. Len(m.to) : n.to[j] = IF j = i THEN Forwarded(m, m.to[i]) ELSE m.to[j]
  BY ForwardsFacts
<1>3. ASSUME NEW w, NEW j \in 1 .. Len(m.to), Same(m, w, m.to[j]) PROVE Same(n, w, n.to[j])
  <2>1. CASE j = i
    <3>1. w = m.to[i]
      BY <1>1, <1>3, <2>1 DEF Same, Forwarded, IsOld
    <3>2. n.to[j] = Forwarded(n, w)
      BY <1>2, <2>1, <3>1 DEF Forwarded
    <3>3. QED
      BY <1>1, <1>2, <3>1, <3>2 DEF Same
  <2>2. CASE j # i
    BY <1>2, <1>3, <2>2 DEF Same, Forwarded
  <2>3. QED
    BY <2>1, <2>2
<1>4. ASSUME NEW o \in Copied(m), NEW k \in 1 .. Size(o)
      PROVE  /\ \A w : Same(m, w, Now(m, o, k)) => Same(n, w, Now(n, o, k))
             /\ ~IsOld(Now(m, o, k)) \/ m.heart[o] + k - 1 # i => Now(n, o, k) = Now(m, o, k)
  <2>1. o \in Objs /\ m.heart[o] \in Nat /\ Size(o) \in Nat /\ Len(m.to) \in Nat
        /\ m.heart[o] >= 3 /\ m.heart[o] + Size(o) <= Len(m.to) + 1
    BY <1>1, LengthType, WordsFacts DEF MemoryOK, CopiesOK, Copied
  <2>2. PICK j : j = m.heart[o] + k - 1
    OBVIOUS
  <2>3. j \in 1 .. Len(m.to)
    BY <2>1, <2>2
  <2>4. Now(m, o, k) = m.to[j] /\ Now(n, o, k) = n.to[j]
    BY <1>2, <2>2 DEF Now
  <2>5. QED
    BY <1>1, <1>2, <1>3, <2>2, <2>3, <2>4
<1>5. ASSUME NEW o \in Copied(m), CopyOK(m, o, FALSE) PROVE CopyOK(n, o, FALSE)
  <2>1. o \in Objs /\ m.heart[o] \in Nat
    BY <1>1, LengthType DEF Copied
  <2>2. Whole(m, o) => Whole(n, o)
    BY <1>4 DEF Whole
  <2>3. ASSUME Kind(o) = "weak" PROVE WeakCopy(n, o, FALSE)
    <3>1. 1 \in 1 .. Size(o) /\ 2 \in 1 .. Size(o)
      BY <2>1, <2>3, WordsFacts
    <3>2. WeakCopy(m, o, FALSE)
      BY <1>5, <2>3 DEF CopyOK
    <3>3. ~IsOld(Now(m, o, 1))
      BY <3>2 DEF WeakCopy, WeakCar, IsOld
    <3>4. Now(n, o, 1) = Now(m, o, 1)
      BY <1>4, <3>1, <3>3
    <3>5. Same(n, Fields(o)[2], Now(n, o, 2))
      BY <1>4, <3>1, <3>2 DEF WeakCopy
    <3>6. QED
      BY <1>2, <3>2, <3>4, <3>5 DEF WeakCopy, Chained
  <2>4. ASSUME Kind(o) = "ephemeron" PROVE EphemeronCopy(n, o, FALSE)
    <3>1. Size(o) = 5
      BY <2>1, <2>4, WordsFacts DEF EphemeronSize
    <3>2. 1 \in 1 .. Size(o) /\ 2 \in 1 .. Size(o) /\ 3 \in 1 .. Size(o)
      BY <3>1
    <3>3. CASE Hidden(m, o)
      <4>1. Now(m, o, 1) = Skip(4)
        BY <3>3 DEF Hidden
      <4>2. Now(n, o, 1) = Now(m, o, 1)
        BY <1>4, <3>2, <4>1 DEF IsOld, Skip
      <4>3. m.heart[o] + 2 - 1 # i
        <5>1. PICK e : e = m.heart[o]
          OBVIOUS
        <5>2. EphemeronAt(m, e)
          BY <2>4, <5>1 DEF EphemeronAt
        <5>3. m.to[e] = Skip(4)
          <6>1. m.heart[o] + 1 - 1 = e
            BY <2>1, <5>1
          <6>2. QED
            BY <4>1, <6>1 DEF Now
        <5>4. e \in 1 .. Len(m.to)
          BY <1>1, <5>2, EphemeronFacts
        <5>5. e \in Waiting(m)
          BY <5>2, <5>3, <5>4 DEF Waiting, Waits, Skip
        <5>6. QED
          BY <1>1, <2>1, <5>1, <5>5 DEF Key
      <4>4. Now(n, o, 2) = Now(m, o, 2)
        BY <1>4, <3>2, <4>3
      <4>5. Same(n, Fields(o)[2], Now(n, o, 3))
        BY <1>4, <3>2, <3>3 DEF Hidden
      <4>6. Hidden(n, o)
        BY <3>3, <4>2, <4>4, <4>5 DEF Hidden
      <4>7. QED
        BY <4>6 DEF EphemeronCopy
    <3>4. CASE Whole(m, o) /\ Opened(m, o)
      BY <1>2, <2>2, <3>4 DEF EphemeronCopy, Opened
    <3>5. QED
      BY <1>5, <2>4, <3>3, <3>4 DEF CopyOK, EphemeronCopy
  <2>5. QED
    BY <1>5, <2>2, <2>3, <2>4 DEF CopyOK
<1>6. Same(n, heap.fixed, n.to[1]) /\ n.to[2] = Imm
  <2>1. 1 \in 1 .. Len(m.to) /\ 2 \in 1 .. Len(m.to)
    BY <1>1, LengthType
  <2>2. Same(m, heap.fixed, m.to[1]) /\ m.to[2] = Imm
    BY DEF Faithful
  <2>3. i # 2
    BY <1>1, <2>2 DEF IsOld, Imm
  <2>4. QED
    BY <1>2, <1>3, <2>1, <2>2, <2>3
<1>7. QED
  BY <1>2, <1>5, <1>6 DEF Faithful

\* Forwarding keeps what waits where it is, and the datum of x is looked at.
LEMMA ForwardCopies ==
  ASSUME heap \in Heaps, HeapAssumption, NEW m, NEW n, NEW i, Forwards(m, n, i), NEW lim, NEW x,
         Copying(m, lim, 0, x)
  PROVE  Copying(n, lim, 0, x) /\ (i = Datum(x) => Copying(n, lim, 0, 0))
<1>1. MemoryOK(m) /\ ~m.hung /\ Faithful(m, FALSE) /\ Copied(m) \subseteq Live
      /\ Listed(m, m.list) /\ Kept(m, lim, 0, x)
  BY DEF Copying
<1>2. /\ MemoryOK(n) /\ n.list = m.list /\ n.queue = m.queue /\ n.bucket = m.bucket
      /\ n.hung = m.hung /\ Copied(n) = Copied(m) /\ Waiting(n) = Waiting(m)
      /\ \A e \in Waiting(m) : /\ KeyOf(n, e) = KeyOf(m, e)
                               /\ KeyLives(n, e, 0) <=> KeyLives(m, e, 0)
                               /\ After(n, ListWord, e) = After(m, ListWord, e)
                               /\ After(n, NextWord, e) = After(m, NextWord, e)
                               /\ IsOld(n.to[Datum(e)]) => IsOld(m.to[Datum(e)]) /\ i # Datum(e)
  BY ForwardsFacts
<1>3. Faithful(n, FALSE)
  BY <1>1, ForwardsFaithful
<1>4. Listed(n, n.list)
  BY <1>1, <1>2, DescendsSame DEF Listed
<1>5. PICK H, Q, r : Chains(m, H, Q, r) /\ Sorted(m, H, Q, lim, 0, x)
  BY <1>1 DEF Kept
<1>6. H \subseteq Waiting(m) /\ Q \subseteq Waiting(m)
  BY <1>5 DEF Chains
<1>7. ASSUME NEW c \in 0 .. Buckets - 1
      PROVE  Descends(n, NextWord, n.bucket[c], InBucket(n, H, c), Address)
  <2>1. InBucket(n, H, c) = InBucket(m, H, c) /\ InBucket(m, H, c) \subseteq Waiting(m)
    BY <1>2, <1>6 DEF InBucket
  <2>2. Descends(m, NextWord, m.bucket[c], InBucket(m, H, c), Address)
    BY <1>5 DEF Chains
  <2>3. Descends(n, NextWord, m.bucket[c], InBucket(m, H, c), Address)
    BY <1>2, <2>1, <2>2, DescendsSame
  <2>4. QED
    BY <1>2, <2>1, <2>3
<1>8. Descends(n, NextWord, n.queue, Q, r)
  <2>1. Descends(m, NextWord, m.queue, Q, r)
    BY <1>5 DEF Chains
  <2>2. Descends(n, NextWord, m.queue, Q, r)
    BY <1>2, <1>6, <2>1, DescendsSame
  <2>3. QED
    BY <1>2, <2>2
<1>9. Chains(n, H, Q, r)
  BY <1>2, <1>5, <1>6, <1>7, <1>8 DEF Chains
<1>10. Sorted(n, H, Q, lim, 0, x)
  BY <1>2, <1>5, <1>6 DEF Sorted
<1>11. i = Datum(x) => Sorted(n, H, Q, lim, 0, 0)
  <2> SUFFICES ASSUME i = Datum(x) PROVE Sorted(n, H, Q, lim, 0, 0)
    OBVIOUS
  <2>1. ASSUME NEW e \in Waiting(n), IsOld(n.to[Datum(e)]) PROVE e \in H \cup Q \cup {0}
    <3>1. e # x
      BY <1>2, <2>1
    <3>2. QED
      BY <1>10, <2>1, <3>1 DEF Sorted
  <2>2. QED
    BY <1>10, <2>1 DEF Sorted
<1>12. QED
  BY <1>1, <1>2, <1>3, <1>4, <1>9, <1>10, <1>11 DEF Copying, Kept

-----------------------------------------------------------------------------
\* What is left to scan.
LEMMA CleanGrows ==
  ASSUME heap \in Heaps, NEW m, MemoryOK(m), NEW n, MemoryOK(n), Grows(m, n), NEW lim \in Nat,
         lim <= Len(m.to) + 1, Clean(m, lim)
  PROVE  Clean(n, lim)
<1> SUFFICES ASSUME NEW a \in 1 .. Len(n.to), IsOld(n.to[a]), a < lim
             PROVE  \E e \in Waiting(n) : a \in {Key(e), Datum(e)}
  <2>1. \A a \in 1 .. Len(n.to) : a >= lim \/ a < lim
    OBVIOUS
  <2>2. QED
    BY <2>1 DEF Clean
<1>1. Len(m.to) \in Nat /\ Len(n.to) \in Nat
  BY LengthType
<1>2. a \in 1 .. Len(m.to) /\ ~(a >= lim)
  BY <1>1
<1>3. \A e \in Waiting(m) : e \in Waiting(n)
  BY DEF Grows, Waiting
<1>4. n.to[a] = m.to[a]
  <2>1. SUFFICES ASSUME NEW e \in Waiting(m), a = NextLink(e) PROVE FALSE
    BY <1>2 DEF Grows
  <2>2. EphemeronAt(n, e)
    BY <1>3 DEF Waiting
  <2>3. LinkOK(n, n.to[NextLink(e)])
    BY <2>2, EphemeronFacts
  <2>4. QED
    BY <2>1, <2>3, LinkFacts DEF IsOld
<1>5. PICK e \in Waiting(m) : a \in {Key(e), Datum(e)}
  BY <1>2, <1>4 DEF Clean
<1>6. QED
  BY <1>3, <1>5

\* The forwarded word is clean, and the scan may go on behind it.
LEMMA CleanForward ==
  ASSUME heap \in Heaps, NEW m, NEW n, NEW i \in Nat, Forwards(m, n, i), NEW lim \in Nat,
         Clean(m, lim)
  PROVE  Clean(n, lim) /\ (i = lim => Clean(n, lim + 1))
<1>1. /\ Len(n.to) = Len(m.to) /\ Waiting(n) = Waiting(m) /\ ~IsOld(n.to[i])
      /\ \A j \in 1 .. Len(m.to) : j # i => n.to[j] = m.to[j]
  BY ForwardsFacts
<1>2. ASSUME NEW a \in 1 .. Len(n.to), IsOld(n.to[a])
      PROVE  /\ a # i
             /\ a >= lim \/ \E e \in Waiting(n) : a \in {Key(e), Datum(e)}
  <2>1. a # i
    BY <1>1, <1>2
  <2>2. a \in 1 .. Len(m.to) /\ IsOld(m.to[a])
    BY <1>1, <1>2, <2>1
  <2>3. QED
    BY <1>1, <2>1, <2>2 DEF Clean
<1>3. Clean(n, lim)
  BY <1>2 DEF Clean
<1>4. ASSUME i = lim PROVE Clean(n, lim + 1)
  <2>1. ASSUME NEW a \in 1 .. Len(n.to), IsOld(n.to[a])
        PROVE  a >= lim + 1 \/ \E e \in Waiting(n) : a \in {Key(e), Datum(e)}
    <3>1. a # lim
      BY <1>2, <1>4, <2>1
    <3>2. CASE a >= lim
      <4>1. a >= lim + 1
        BY <3>1, <3>2
      <4>2. QED
        BY <4>1
    <3>3. QED
      BY <1>2, <2>1, <3>2
  <2>2. QED
    BY <2>1 DEF Clean
<1>5. QED
  BY <1>3, <1>4

\* A word that is not a pointer into fromspace is left behind; a header that waits, with
\* all it hides.
LEMMA CleanStep ==
  ASSUME heap \in Heaps, NEW m, MemoryOK(m), NEW i \in 1 .. Len(m.to), ~IsOld(m.to[i]),
         Clean(m, i)
  PROVE  /\ Clean(m, i + 1)
         /\ m.to[i][1] = "nmv" => Clean(m, i + 1 + m.to[i][2])
<1>1. ASSUME NEW a \in 1 .. Len(m.to), IsOld(m.to[a])
      PROVE  a >= i + 1 \/ \E e \in Waiting(m) : a \in {Key(e), Datum(e)}
  <2>1. a # i
    BY <1>1
  <2>2. CASE a >= i
    <3>1. a >= i + 1
      BY <2>1, <2>2
    <3>2. QED
      BY <3>1
  <2>3. QED
    BY <1>1, <2>2 DEF Clean
<1>2. Clean(m, i + 1)
  BY <1>1 DEF Clean
<1>3. ASSUME m.to[i][1] = "nmv" PROVE Clean(m, i + 1 + m.to[i][2])
  <2>1. m.to[i] = Skip(4) /\ EphemeronAt(m, i)
    BY <1>3 DEF MemoryOK, WordsOK, Waits
  <2>2. i \in Waiting(m) /\ m.to[i][2] = 4
    BY <1>3, <2>1 DEF Waiting, Waits, Skip
  <2>3. ASSUME NEW a \in 1 .. Len(m.to), IsOld(m.to[a])
        PROVE  a >= i + 5 \/ \E e \in Waiting(m) : a \in {Key(e), Datum(e)}
    <3>1. /\ ~IsOld(m.to[ListLink(i)]) /\ ~IsOld(m.to[NextLink(i)])
      BY <2>1, EphemeronFacts, LinkFacts DEF IsOld
    <3>2. a # i + 3 /\ a # i + 4
      BY <2>3, <3>1 DEF ListLink, NextLink
    <3>3. CASE a >= i + 1
      <4>1. a = i + 1 \/ a = i + 2 \/ a >= i + 5
        BY <3>2, <3>3
      <4>2. QED
        BY <2>2, <4>1 DEF Key, Datum
    <3>4. QED
      BY <1>1, <2>3, <3>3
  <2>4. Clean(m, i + 5)
    BY <2>3 DEF Clean
  <2>5. i + 1 + m.to[i][2] = i + 5
    BY <2>2
  <2>6. QED
    BY <2>4, <2>5
<1>4. QED
  BY <1>2, <1>3

\* Whatever a word in front of the scan points to lives.
LEMMA WordLives ==
  ASSUME heap \in Heaps, HeapAssumption, NEW m, MemoryOK(m), Faithful(m, FALSE),
         Copied(m) \subseteq Live, NEW a \in 1 .. Len(m.to), IsOld(m.to[a]),
         \A e \in Waiting(m) : a <= e \/ a >= e + 5
  PROVE  m.to[a][2] \in Live
<1>1. Roots \subseteq Live /\ Closed(Live)
  BY LiveFacts
<1>2. CASE a = 1
  <2>1. m.to[1] = heap.fixed
    BY <1>2 DEF Faithful, Same, Forwarded, IsOld
  <2>2. heap.stack \in Seq(HeapWords(Objs)) /\ heap.fixed \in HeapWords(Objs)
    BY HeapFacts
  <2>3. PICK s : s = heap.stack \o <<heap.fixed>>
    OBVIOUS
  <2>4. s[Len(heap.stack) + 1] = heap.fixed /\ Len(heap.stack) + 1 \in DOMAIN s
    BY <2>2, <2>3
  <2>5. heap.fixed[2] \in Targets(s)
    BY <1>2, <2>1, <2>4 DEF Targets
  <2>6. QED
    BY <1>1, <1>2, <2>1, <2>3, <2>5 DEF Roots
<1>3. CASE a = 2
  BY <1>3 DEF Faithful, Imm, IsOld
<1>4. CASE a # 1 /\ a # 2
  <2>1. a \in 3 .. Len(m.to) /\ a \in Nat
    BY <1>4, LengthType
  <2>2. PICK o \in Copied(m) : m.heart[o] <= a /\ a < m.heart[o] + Size(o)
    BY <2>1 DEF MemoryOK, CopiesOK
  <2>3. o \in Objs /\ o \in Live /\ CopyOK(m, o, FALSE)
    BY <2>2 DEF Copied, Faithful
  <2>4. m.heart[o] \in Nat /\ Size(o) \in Nat
    BY <2>3, LengthType, WordsFacts
  <2>5. PICK k : k = a - m.heart[o] + 1
    OBVIOUS
  <2>6. k \in 1 .. Size(o) /\ a = m.heart[o] + k - 1
    BY <2>1, <2>2, <2>4, <2>5
  <2>7. Now(m, o, k) = m.to[a]
    BY <2>6 DEF Now
  <2>8. Strong(o, Live) \subseteq Live
    BY <1>1, <2>3 DEF Closed
  <2>9. Whole(m, o) => m.to[a] = Words(o)[k]
    <3>1. SUFFICES ASSUME Whole(m, o) PROVE m.to[a] = Words(o)[k]
      OBVIOUS
    <3>2. Same(m, Words(o)[k], m.to[a])
      BY <2>6, <2>7, <3>1 DEF Whole
    <3>3. QED
      BY <3>2 DEF Same, Forwarded, IsOld
  <2>10. Fields(o) \in Seq(HeapWords(Objs)) /\ (Kind(o) # "vector" => Len(Fields(o)) = 2)
    BY <2>3, HeapFacts
  <2>11. DOMAIN Fields(o) = 1 .. Len(Fields(o)) /\ Len(Fields(o)) \in Nat
    BY <2>10, SeqFacts
  <2>12. CASE Kind(o) = "pair"
    <3>1. m.to[a] = Fields(o)[k] /\ k \in DOMAIN Fields(o)
      BY <2>3, <2>6, <2>9, <2>10, <2>11, <2>12, WordsFacts DEF CopyOK
    <3>2. m.to[a][2] \in Targets(Fields(o))
      BY <3>1 DEF Targets
    <3>3. QED
      BY <2>8, <2>12, <3>2 DEF Strong
  <2>13. CASE Kind(o) = "vector"
    <3>1. m.to[a] = Words(o)[k]
      BY <2>3, <2>9, <2>13 DEF CopyOK
    <3>2. Words(o) = <<Manifest>> \o Fields(o)
      BY <2>13 DEF Words
    <3>3. Size(o) = Len(Fields(o)) + 1 /\ Words(o)[1] = Manifest
          /\ \A j \in 1 .. Len(Fields(o)) : Words(o)[j + 1] = Fields(o)[j]
      <4>1. Len(Words(o)) = Len(<<Manifest>>) + Len(Fields(o))
            /\ \A j \in 1 .. Len(<<Manifest>>) : Words(o)[j] = <<Manifest>>[j]
        <5>1. IsSeq(<<Manifest>>) /\ IsSeq(Fields(o))
          <6>1. <<Manifest>> \in Seq({Manifest})
            OBVIOUS
          <6>2. QED
            BY <2>10, <6>1, SeqFacts
        <5>2. QED
          BY <3>2, <5>1, ConcatFacts
      <4>2. QED
        BY <2>3, <2>11, <2>13, <4>1, WordsFacts DEF Size
    <3>4. k # 1
      BY <3>1, <3>3 DEF Manifest, IsOld
    <3>5. k - 1 \in 1 .. Len(Fields(o)) /\ k = (k - 1) + 1
      BY <2>6, <2>11, <3>3, <3>4
    <3>6. m.to[a] = Fields(o)[k - 1]
      BY <3>1, <3>3, <3>5
    <3>7. m.to[a][2] \in Targets(Fields(o))
      BY <2>11, <3>5, <3>6 DEF Targets
    <3>8. QED
      BY <2>8, <2>13, <3>7 DEF Strong
  <2>14. CASE Kind(o) = "weak"
    <3>1. WeakCopy(m, o, FALSE) /\ Size(o) = 2
      BY <2>3, <2>14, WordsFacts DEF CopyOK
    <3>2. k # 1
      <4>1. ~IsOld(Now(m, o, 1))
        BY <3>1 DEF WeakCopy, WeakCar, IsOld
      <4>2. QED
        BY <2>7, <4>1
    <3>3. k = 2
      BY <2>6, <3>1, <3>2
    <3>4. m.to[a] = Fields(o)[2]
      <4>1. Same(m, Fields(o)[2], m.to[a])
        BY <2>7, <3>1, <3>3 DEF WeakCopy
      <4>2. QED
        BY <4>1 DEF Same, Forwarded, IsOld
    <3>5. PICK ws : ws = <<Fields(o)[2]>>
      OBVIOUS
    <3>6. 1 \in DOMAIN ws /\ ws[1] = m.to[a]
      BY <3>4, <3>5
    <3>7. m.to[a][2] \in Targets(ws)
      BY <3>6 DEF Targets
    <3>8. QED
      BY <2>8, <2>14, <3>5, <3>7 DEF Strong
  <2>15. CASE Kind(o) = "ephemeron"
    <3>1. EphemeronCopy(m, o, FALSE) /\ Size(o) = 5
      BY <2>3, <2>15, WordsFacts DEF CopyOK, EphemeronSize
    <3>2. ~Hidden(m, o)
      <4>1. SUFFICES ASSUME Hidden(m, o) PROVE FALSE
        OBVIOUS
      <4>2. PICK e : e = m.heart[o]
        OBVIOUS
      <4>3. EphemeronAt(m, e)
        BY <2>15, <4>2 DEF EphemeronAt
      <4>4. m.to[e] = Skip(4)
        <5>1. m.heart[o] + 1 - 1 = e
          BY <2>4, <4>2
        <5>2. QED
          BY <4>1, <5>1 DEF Hidden, Now
      <4>5. e \in 1 .. Len(m.to)
        BY <4>3, EphemeronFacts
      <4>6. e \in Waiting(m)
        BY <4>3, <4>4, <4>5 DEF Waiting, Waits, Skip
      <4>7. a = e
        BY <2>1, <2>2, <2>4, <3>1, <4>2, <4>6
      <4>8. QED
        BY <4>4, <4>7 DEF IsOld, Skip
    <3>3. Whole(m, o) /\ Opened(m, o)
      BY <3>1, <3>2 DEF EphemeronCopy
    <3>4. m.to[a] = Words(o)[k]
      BY <2>9, <3>3
    <3>5. /\ Words(o)[1] = Manifest /\ Words(o)[2] = Fields(o)[1] /\ Words(o)[3] = Fields(o)[2]
          /\ Words(o)[4] = False /\ Words(o)[5] = False
      BY <2>3, <2>15, WordsFacts
    <3>6. k # 1 /\ k # 4 /\ k # 5
      BY <3>4, <3>5 DEF Manifest, False, IsOld
    <3>7. k = 2 \/ k = 3
      BY <2>6, <3>1, <3>6
    <3>8. 1 \in DOMAIN Fields(o) /\ 2 \in DOMAIN Fields(o)
      BY <2>10, <2>11, <2>15
    <3>9. m.to[a][2] \in Targets(Fields(o))
      BY <3>4, <3>5, <3>7, <3>8 DEF Targets
    <3>10. Targets(<<Fields(o)[1]>>) \subseteq Live
      <4>1. PICK ws : ws = <<Fields(o)[1]>>
        OBVIOUS
      <4>2. DOMAIN ws = {1} /\ ws[1] = Fields(o)[1]
        BY <4>1
      <4>3. IsOld(Fields(o)[1]) => Fields(o)[1][2] \in Copied(m)
        BY <2>3, <2>15, <3>3, FieldTarget DEF Opened, Copied
      <4>4. Targets(ws) \subseteq Live
        BY <4>2, <4>3 DEF Targets
      <4>5. QED
        BY <4>1, <4>4
    <3>11. QED
      BY <2>8, <2>15, <3>9, <3>10 DEF Strong
  <2>16. QED
    BY <2>3, <2>12, <2>13, <2>14, <2>15, HeapFacts
<1>5. QED
  BY <1>2, <1>3, <1>4

\* The datum of an ephemeron lives if its key does.
LEMMA DatumLives ==
  ASSUME heap \in Heaps, HeapAssumption, NEW m, MemoryOK(m), Faithful(m, FALSE),
         Copied(m) \subseteq Live, NEW e \in Waiting(m), m.heart[KeyOf(m, e)] # 0,
         IsOld(m.to[Datum(e)])
  PROVE  m.to[Datum(e)][2] \in Live
<1>1. PICK o \in Copied(m) : /\ Kind(o) = "ephemeron" /\ e = m.heart[o] /\ Hidden(m, o)
                             /\ IsOld(Fields(o)[1]) /\ KeyOf(m, e) = Fields(o)[1][2]
  BY WaitingHidden
<1>2. o \in Live /\ o \in Objs /\ e \in Nat
  BY <1>1, WaitingFacts DEF Copied
<1>3. Strong(o, Live) \subseteq Live
  BY <1>2, LiveFacts DEF Closed
<1>4. m.to[Datum(e)] = Fields(o)[2]
  <2>1. m.heart[o] + 3 - 1 = Datum(e)
    BY <1>1, <1>2 DEF Datum
  <2>2. Same(m, Fields(o)[2], m.to[Datum(e)])
    BY <1>1, <2>1 DEF Hidden, Now
  <2>3. QED
    BY <2>2 DEF Same, Forwarded, IsOld
<1>5. Fields(o)[1][2] \in Live
  BY <1>1, WaitingFacts DEF Copied
<1>6. DOMAIN Fields(o) = 1 .. 2
  <2>1. Len(Fields(o)) = 2 /\ Fields(o) \in Seq(HeapWords(Objs))
    BY <1>1, <1>2, HeapFacts
  <2>2. QED
    BY <2>1, SeqFacts
<1>7. 2 \in DOMAIN Fields(o)
  BY <1>6
<1>8. m.to[Datum(e)][2] \in Targets(Fields(o))
  BY <1>4, <1>7 DEF Targets
<1>9. Targets(<<Fields(o)[1]>>) \subseteq Live
  <2>1. PICK ws : ws = <<Fields(o)[1]>>
    OBVIOUS
  <2>2. DOMAIN ws = {1} /\ ws[1] = Fields(o)[1]
    BY <2>1
  <2>3. Targets(ws) \subseteq Live
    BY <1>5, <2>2 DEF Targets
  <2>4. QED
    BY <2>1, <2>3
<1>10. QED
  BY <1>1, <1>3, <1>8, <1>9 DEF Strong

\* The scanned stack stays as it is.
LEMMA StackKept ==
  ASSUME heap \in Heaps, HeapAssumption, StackOK, StackDone, heap' = heap, stack' = stack,
         \A o \in Objs : mem.heart[o] # 0 => mem'.heart[o] = mem.heart[o],
         \A i \in 1 .. Len(stack) : ~IsOld(stack[i])
  PROVE  StackDone'
<1>1. ASSUME NEW i \in 1 .. Len(stack) PROVE Same(mem', heap.stack[i], stack[i])
  <2>1. Same(mem, heap.stack[i], stack[i])
    BY DEF StackDone
  <2>2. IsOld(heap.stack[i]) => heap.stack[i][2] \in Objs
    <3>1. heap.stack \in Seq(HeapWords(Objs)) /\ Len(heap.stack) = Len(stack)
      BY HeapFacts DEF StackOK
    <3>2. heap.stack[i] \in HeapWords(Objs)
      BY <3>1
    <3>3. QED
      BY <3>2, HeapWordFacts
  <2>3. QED
    BY <2>1, <2>2, SameGrows
<1>2. \A i \in 1 .. Len(stack) : ~IsOld(stack[i])' /\ Same(mem, heap.stack[i], stack[i])'
  BY <1>1 DEF Same, Forwarded, IsOld
<1>3. QED
  BY <1>2 DEF StackDone

\* The invariant in the next state, where the heap is the same.
LEMMA GraphPrime ==
  ASSUME heap' = heap, ~mem'.hung, Copied(mem') \subseteq Live, StackDone',
         Faithful(mem', ~Early'), Clean(mem', Scanned'),
         Early' => Listed(mem', mem'.list) /\ Kept(mem', Unsorted', 0, 0),
         pc' = "ephemerons" =>
           /\ Listed(mem', cur')
           /\ \A e \in Waiting(mem') : IsOld(mem'.to[Datum(e)]) => ~KeyLives(mem', e, 0),
         pc' \in {"weak", "done"} => Waiting(mem') = {},
         pc' = "done" => mem'.chain = <<>>
  PROVE  GraphInv'
<1>1. /\ Waiting(mem)' = Waiting(mem') /\ Copied(mem)' = Copied(mem') /\ Live' = Live
      /\ \A e : KeyLives(mem, e, 0)' <=> KeyLives(mem', e, 0)
  BY CopyPrime, LiveSame
<1>2. Faithful(mem, ~Early)'
  <2>1. PICK over : over = ~Early'
    OBVIOUS
  <2>2. Faithful(mem, over)'
    BY <2>1, FaithfulPrime
  <2>3. QED
    BY <2>1, <2>2 DEF Faithful, CopyOK, WeakCopy, EphemeronCopy
<1>3. Clean(mem, Scanned)'
  <2>1. PICK lim : lim = Scanned'
    OBVIOUS
  <2>2. Clean(mem, lim)'
    BY <1>1, <2>1 DEF Clean, IsOld
  <2>3. QED
    BY <2>1, <2>2 DEF Clean
<1>4. Early' => Listed(mem, mem.list)'
  <2>1. PICK a : a = mem'.list
    OBVIOUS
  <2>2. Early' => Listed(mem, a)'
    BY <2>1, ListedPrime
  <2>3. QED
    BY <2>1, <2>2 DEF Listed, Descends, Greatest
<1>5. Early' => Kept(mem, Unsorted, 0, 0)'
  <2>1. PICK lim : lim = Unsorted'
    OBVIOUS
  <2>2. Early' => Kept(mem, lim, 0, 0)'
    BY <2>1, KeptPrime
  <2>3. QED
    BY <2>1, <2>2 DEF Kept, Sorted
<1>6. pc' = "ephemerons" => Listed(mem, cur)'
  <2>1. PICK a : a = cur'
    OBVIOUS
  <2>2. pc' = "ephemerons" => Listed(mem, a)'
    BY <2>1, ListedPrime
  <2>3. QED
    BY <2>1, <2>2 DEF Listed, Descends, Greatest
<1>7. pc' = "ephemerons" =>
        \A e \in Waiting(mem)' : IsOld(mem.to[Datum(e)])' => ~KeyLives(mem, e, 0)'
  BY <1>1 DEF IsOld
<1>8. QED
  BY <1>1, <1>2, <1>3, <1>4, <1>5, <1>6, <1>7 DEF GraphInv

-----------------------------------------------------------------------------
\* The steps of the collection.

\* run_gc_loop: the word is forwarded, or left as it is.
LEMMA ScanWordGraph ==
  ASSUME heap \in Heaps, HeapAssumption, DistinctKeys(heap), MemoryOK(mem), ScanOK,
         scan \in Nat \ {0}, NEW scanning \in BOOLEAN, Collecting(mem, scanning, 0),
         Clean(mem, scan), ScanWord(scanning)
  PROVE  /\ Collecting(mem', scanning, 0) /\ Clean(mem', scan')
         /\ \A o \in Objs : mem.heart[o] # 0 => mem'.heart[o] = mem.heart[o]
<1>1. scan \in 1 .. Len(mem.to) /\ Len(mem.to) \in Nat
  BY LengthType DEF ScanWord
<1>2. CASE mem' = mem
  <2>1. ~IsOld(mem.to[scan])
    <3>1. SUFFICES ASSUME IsOld(mem.to[scan]) PROVE FALSE
      OBVIOUS
    <3>2. mem'.to[scan] = Forwarded(Handle(mem, mem.to[scan][2], scanning), mem.to[scan])
      <4>1. PICK m : m = Handle(mem, mem.to[scan][2], scanning)
        OBVIOUS
      <4>2. PICK v : v = Forwarded(m, mem.to[scan])
        OBVIOUS
      <4>3. mem' = [m EXCEPT !.to[scan] = v]
        BY <3>1, <4>1, <4>2 DEF ScanWord, IsOld
      <4>4. mem.to[scan][2] \in Objs
        <5>1. mem.to[scan] \in {"old"} \X Objs \X Nat
          BY <1>1, <3>1 DEF MemoryOK, WordsOK
        <5>2. QED
          BY <5>1
      <4>5. MemoryOK(m) /\ Len(mem.to) <= Len(m.to)
        BY <4>1, <4>4, HandleCorrect DEF Later, Extends
      <4>6. PutAt(m, mem', scan, v)
        BY <4>3, <4>5, PutStep DEF MemoryOK, ShapeOK
      <4>7. scan \in 1 .. Len(m.to)
        BY <1>1, <4>5, LengthType
      <4>8. QED
        BY <4>1, <4>2, <4>6, <4>7 DEF PutAt
    <3>3. QED
      BY <1>2, <3>1, <3>2 DEF Forwarded, IsOld
  <2>2. scan' = scan + 1 \/ (mem.to[scan][1] = "nmv" /\ scan' = scan + 1 + mem.to[scan][2])
    BY <2>1 DEF ScanWord
  <2>3. Clean(mem, scan')
    BY <1>1, <2>1, <2>2, CleanStep
  <2>4. QED
    BY <1>2, <2>3
<1>3. CASE mem' # mem
  <2>1. PICK w : w = mem.to[scan]
    OBVIOUS
  <2>2. PICK m : m = Handle(mem, w[2], scanning)
    OBVIOUS
  <2>3. IsOld(w) /\ mem' = [m EXCEPT !.to[scan] = Forwarded(m, w)] /\ scan' = scan + 1
    BY <1>3, <2>1, <2>2 DEF ScanWord
  <2>4. \A e \in Waiting(mem) : e \in Nat /\ (scan <= e \/ scan >= e + 5)
    BY WaitingFacts, ScanFacts
  <2>5. w[2] \in Live
    BY <1>1, <2>1, <2>3, <2>4, WordLives DEF Collecting, Copying
  <2>6. Collecting(m, scanning, 0) /\ Grows(mem, m) /\ MemoryOK(m) /\ m.heart[w[2]] # 0
    BY <2>2, <2>5, HandleCopies
  <2>7. Len(mem.to) <= Len(m.to) /\ Len(m.to) \in Nat /\ scan \in 1 .. Len(m.to)
    BY <1>1, <2>6, LengthType DEF Grows
  <2>8. m.to[scan] = w
    <3>1. \A e \in Waiting(mem) : scan # NextLink(e)
      BY <1>1, <2>4 DEF NextLink
    <3>2. QED
      BY <1>1, <2>1, <2>6, <3>1 DEF Grows
  <2>9. \A e \in Waiting(m) : scan # Key(e)
    <3>1. ASSUME NEW e \in Waiting(m) PROVE scan # Key(e)
      <4>1. e \in Nat \ {0}
        BY <2>6, WaitingFacts
      <4>2. CASE e \in 1 .. Len(mem.to)
        <5>1. e \in Waiting(mem)
          BY <2>6, <4>2 DEF Grows
        <5>2. QED
          BY <1>1, <2>4, <5>1 DEF Key
      <4>3. CASE e \notin 1 .. Len(mem.to)
        BY <1>1, <4>1, <4>3 DEF Key
      <4>4. QED
        BY <4>2, <4>3
    <3>2. QED
      BY <3>1
  <2>10. Forwards(m, mem', scan)
    BY <2>3, <2>6, <2>7, <2>8, <2>9 DEF Forwards
  <2>11. Collecting(mem', scanning, 0)
    <3>1. Copying(mem', Limit(m, scanning), 0, 0)
      BY <2>6, <2>10, ForwardCopies DEF Collecting
    <3>2. Len(mem'.to) = Len(m.to)
      BY <2>10, ForwardsFacts
    <3>3. QED
      BY <3>1, <3>2 DEF Collecting, Limit
  <2>12. Clean(mem', scan')
    <3>1. Clean(m, scan)
      BY <1>1, <2>6, CleanGrows
    <3>2. Clean(mem', scan + 1)
      BY <1>1, <2>10, <3>1, CleanForward
    <3>3. QED
      BY <2>3, <3>2
  <2>13. mem'.heart = m.heart
    BY <2>10, ForwardsFacts
  <2>14. \A o \in Objs : mem.heart[o] # 0 => mem'.heart[o] = mem.heart[o]
    BY <2>6, <2>13 DEF Grows
  <2>15. QED
    BY <2>11, <2>12, <2>14
<1>4. QED
  BY <1>2, <1>3

\* The invariant while the collector still copies.
LEMMA EarlyCopying ==
  ASSUME CopyInv, GraphInv, Early
  PROVE  /\ Copying(mem, Unsorted, 0, 0) /\ heap \in Heaps /\ MemoryOK(mem) /\ StackOK
         /\ StackDone /\ Clean(mem, Scanned) /\ Len(mem.to) \in Nat
<1>1. MemoryOK(mem) /\ heap \in Heaps /\ StackOK
  BY DEF CopyInv, StepOK
<1>2. Faithful(mem, FALSE)
  BY DEF GraphInv
<1>3. QED
  BY <1>1, <1>2, LengthType DEF GraphInv, Copying

\* The invariant while the collector still copies.
LEMMA EarlyPrime ==
  ASSUME heap' = heap, Copying(mem', Unsorted', 0, 0), StackDone', Clean(mem', Scanned'),
         Early'
  PROVE  GraphInv'
<1>1. Faithful(mem', FALSE)
  BY DEF Copying
<1>2. Faithful(mem', ~Early')
  BY <1>1
<1>3. pc' # "ephemerons" /\ pc' \notin {"weak", "done"}
  BY DEF Early
<1>4. ~mem'.hung /\ Copied(mem') \subseteq Live /\ Listed(mem', mem'.list)
      /\ Kept(mem', Unsorted', 0, 0)
  BY DEF Copying
<1>5. QED
  BY <1>2, <1>3, <1>4, GraphPrime

\* No pointer into fromspace is left on the stack.
LEMMA StackClear ==
  ASSUME StackDone, pc # "stack" \/ scan > Len(stack), scan \in Nat, Len(stack) \in Nat
  PROVE  \A i \in 1 .. Len(stack) : ~IsOld(stack[i])
BY DEF StackDone

\* The actions, one by one: the scan of tospace,
LEMMA ScanTospaceGraph ==
  ASSUME HeapAssumption, DistinctKeys(heap), CopyInv, GraphInv, ScanTospace
  PROVE  GraphInv'
<1>1. pc = "scan" /\ Early /\ heap' = heap /\ stack' = stack /\ ScanOK /\ scan \in Nat \ {0}
      /\ scan <= Len(mem.to) + 1
  BY DEF ScanTospace, Early, CopyInv, StepOK
<1>2. /\ Copying(mem, Len(mem.to), 0, 0) /\ heap \in Heaps /\ MemoryOK(mem) /\ StackOK
      /\ StackDone /\ Clean(mem, scan) /\ Len(mem.to) \in Nat
  BY <1>1, EarlyCopying DEF Unsorted, Scanned
<1>3. \A i \in 1 .. Len(stack) : ~IsOld(stack[i])
  BY <1>1, <1>2 DEF StackDone
<1>4. CASE ScanWord(FALSE) /\ UNCHANGED <<pc, cur>>
  <2>1. Collecting(mem, FALSE, 0)
    BY <1>2 DEF Collecting, Limit
  <2>2. /\ Collecting(mem', FALSE, 0) /\ Clean(mem', scan')
        /\ \A o \in Objs : mem.heart[o] # 0 => mem'.heart[o] = mem.heart[o]
    BY <1>1, <1>2, <1>4, <2>1, ScanWordGraph
  <2>3. StackDone'
    BY <1>1, <1>2, <1>3, <2>2, StackKept
  <2>4. Copying(mem', Unsorted', 0, 0) /\ Clean(mem', Scanned') /\ Early'
    BY <1>1, <1>4, <2>2 DEF Collecting, Limit, Unsorted, Scanned, Early
  <2>5. QED
    BY <1>1, <2>3, <2>4, EarlyPrime
<1>5. CASE scan > Len(mem.to) /\ pc' = "list" /\ cur' = mem.list /\ UNCHANGED <<mem, scan>>
  <2>1. StackDone'
    BY <1>1, <1>2, <1>3, <1>5, StackKept
  <2>2. scan = Len(mem.to) + 1
    BY <1>1, <1>2, <1>5
  <2>3. Clean(mem', Scanned') /\ Early'
    BY <1>2, <1>5, <2>2 DEF Scanned, Early
  <2>4. Kept(mem, mem.list, 0, 0)
    <3>1. PICK H, Q, r : Chains(mem, H, Q, r) /\ Sorted(mem, H, Q, Len(mem.to), 0, 0)
      BY <1>2 DEF Copying, Kept
    <3>2. \A e \in Waiting(mem) : e <= mem.list
      <4>1. Greatest(mem.list, Waiting(mem), Address)
        BY <1>2 DEF Copying, Listed, Descends
      <4>2. \A e \in Waiting(mem) : e \in Nat
        BY <1>2, WaitingFacts
      <4>3. ASSUME NEW e \in Waiting(mem) PROVE e <= mem.list
        <5>1. mem.list \in Waiting(mem) /\ Address[e] <= Address[mem.list]
          BY <4>1, <4>3 DEF Greatest
        <5>2. mem.list \in Nat /\ e \in Nat
          BY <4>2, <5>1
        <5>3. QED
          BY <5>1, <5>2 DEF Address
      <4>4. QED
        BY <4>3
    <3>3. Sorted(mem, H, Q, mem.list, 0, 0)
      BY <3>1, <3>2 DEF Sorted, Chains
    <3>4. QED
      BY <3>1, <3>3 DEF Kept
  <2>5. Copying(mem', Unsorted', 0, 0)
    BY <1>2, <1>5, <2>4 DEF Copying, Unsorted
  <2>6. QED
    BY <1>1, <2>1, <2>3, <2>5, EarlyPrime
<1>6. QED
  BY <1>4, <1>5 DEF ScanTospace

\* the scan after ephemerons were found in the queue,
LEMMA RescanGraph ==
  ASSUME HeapAssumption, DistinctKeys(heap), CopyInv, GraphInv, Rescan
  PROVE  GraphInv'
<1>1. pc = "rescan" /\ Early /\ heap' = heap /\ stack' = stack /\ ScanOK /\ scan \in Nat \ {0}
      /\ scan <= Len(mem.to) + 1
  BY DEF Rescan, Early, CopyInv, StepOK
<1>2. /\ Copying(mem, 0, 0, 0) /\ heap \in Heaps /\ MemoryOK(mem) /\ StackOK
      /\ StackDone /\ Clean(mem, scan) /\ Len(mem.to) \in Nat
  BY <1>1, EarlyCopying DEF Unsorted, Scanned
<1>3. \A i \in 1 .. Len(stack) : ~IsOld(stack[i])
  BY <1>1, <1>2 DEF StackDone
<1>4. CASE ScanWord(TRUE) /\ UNCHANGED pc
  <2>1. Collecting(mem, TRUE, 0)
    BY <1>2 DEF Collecting, Limit
  <2>2. /\ Collecting(mem', TRUE, 0) /\ Clean(mem', scan')
        /\ \A o \in Objs : mem.heart[o] # 0 => mem'.heart[o] = mem.heart[o]
    BY <1>1, <1>2, <1>4, <2>1, ScanWordGraph
  <2>3. StackDone'
    BY <1>1, <1>2, <1>3, <2>2, StackKept
  <2>4. Copying(mem', Unsorted', 0, 0) /\ Clean(mem', Scanned') /\ Early'
    BY <1>1, <1>4, <2>2 DEF Collecting, Limit, Unsorted, Scanned, Early
  <2>5. QED
    BY <1>1, <2>3, <2>4, EarlyPrime
<1>5. CASE scan > Len(mem.to) /\ pc' = "queue" /\ UNCHANGED <<mem, scan>>
  <2>1. StackDone'
    BY <1>1, <1>2, <1>3, <1>5, StackKept
  <2>2. scan = Len(mem.to) + 1
    BY <1>1, <1>2, <1>5
  <2>3. Clean(mem', Scanned') /\ Early'
    BY <1>2, <1>5, <2>2 DEF Scanned, Early
  <2>4. Copying(mem', Unsorted', 0, 0)
    BY <1>2, <1>5 DEF Unsorted
  <2>5. QED
    BY <1>1, <2>1, <2>3, <2>4, EarlyPrime
<1>6. QED
  BY <1>4, <1>5 DEF Rescan

\* the scan of the stack,
LEMMA ScanStackGraph ==
  ASSUME HeapAssumption, DistinctKeys(heap), CopyInv, GraphInv, ScanStack
  PROVE  GraphInv'
<1>1. pc = "stack" /\ Early /\ heap' = heap /\ scan \in Nat \ {0} /\ scan <= Len(stack) + 1
  BY DEF ScanStack, Early, CopyInv, StepOK
<1>2. /\ Copying(mem, Len(mem.to), 0, 0) /\ heap \in Heaps /\ MemoryOK(mem) /\ StackOK
      /\ StackDone /\ Clean(mem, 1) /\ Len(mem.to) \in Nat
  BY <1>1, EarlyCopying DEF Unsorted, Scanned
<1>3. IsSeq(stack) /\ Len(stack) \in Nat /\ Len(heap.stack) = Len(stack)
  BY <1>2, SeqFacts DEF StackOK, IsSeq
<1>4. CASE /\ scan <= Len(stack) /\ IsOld(stack[scan])
           /\ mem' = Handle(mem, stack[scan][2], FALSE)
           /\ stack' = [stack EXCEPT ![scan] = Forwarded(mem', @)]
           /\ scan' = scan + 1 /\ UNCHANGED pc
  <2>1. scan \in 1 .. Len(stack)
    BY <1>1, <1>3, <1>4
  <2>2. stack[scan] = heap.stack[scan]
    BY <1>4, <2>1, <1>2 DEF StackDone, Same, Forwarded, IsOld
  <2>3. stack[scan][2] \in Live
    <3>1. heap.stack \in Seq(HeapWords(Objs)) /\ heap.fixed \in HeapWords(Objs)
      BY <1>2, HeapFacts
    <3>2. PICK s : s = heap.stack \o <<heap.fixed>>
      OBVIOUS
    <3>3. scan \in DOMAIN s /\ s[scan] = heap.stack[scan]
      BY <1>3, <2>1, <3>1, <3>2
    <3>4. heap.stack[scan][2] \in Targets(s)
      BY <1>4, <2>2, <3>3 DEF Targets
    <3>5. Targets(s) \subseteq Live
      BY <1>2, <3>2, LiveFacts DEF Roots
    <3>6. QED
      BY <2>2, <3>4, <3>5
  <2>4. Collecting(mem, FALSE, 0)
    BY <1>2 DEF Collecting, Limit
  <2>5. PICK o \in Live : o = stack[scan][2]
    BY <2>3
  <2>6. mem' = Handle(mem, o, FALSE)
    BY <1>4, <2>5
  <2>7. Collecting(mem', FALSE, 0) /\ Grows(mem, mem') /\ MemoryOK(mem') /\ mem'.heart[o] # 0
    BY <1>2, <2>4, <2>6, HandleCopies
  <2>8. PICK w : w = Forwarded(mem', stack[scan])
    OBVIOUS
  <2>9. stack' = Put(stack, scan, w)
    BY <1>4, <2>8 DEF Put
  <2>10. /\ Len(stack') = Len(stack)
         /\ \A i \in 1 .. Len(stack) : stack'[i] = IF i = scan THEN w ELSE stack[i]
    BY <1>3, <2>9, PutFacts
  <2>11. ASSUME NEW i \in 1 .. Len(stack)
         PROVE  /\ Same(mem', heap.stack[i], stack'[i])
                /\ IsOld(stack'[i]) => i >= scan + 1
    <3>1. CASE i = scan
      <4>1. stack'[i] = Forwarded(mem', heap.stack[i]) /\ IsOld(heap.stack[i])
            /\ mem'.heart[heap.stack[i][2]] # 0
        BY <1>4, <2>2, <2>5, <2>7, <2>8, <2>10, <3>1
      <4>2. QED
        BY <4>1 DEF Same, Forwarded, IsOld
    <3>2. CASE i # scan
      <4>1. stack'[i] = stack[i] /\ Same(mem, heap.stack[i], stack[i])
            /\ (IsOld(stack[i]) => i >= scan)
        BY <1>2, <2>10, <3>2 DEF StackDone
      <4>2. IsOld(heap.stack[i]) => heap.stack[i][2] \in Objs
        <5>1. heap.stack \in Seq(HeapWords(Objs))
          BY <1>2, HeapFacts
        <5>2. heap.stack[i] \in HeapWords(Objs)
          BY <1>3, <5>1
        <5>3. QED
          BY <5>2, HeapWordFacts
      <4>3. Same(mem', heap.stack[i], stack[i])
        <5>1. \A p \in Objs : mem.heart[p] # 0 => mem'.heart[p] = mem.heart[p]
          BY <2>7 DEF Grows
        <5>2. QED
          BY <4>1, <4>2, <5>1, SameGrows
      <4>4. i >= scan => i >= scan + 1
        BY <1>1, <3>2
      <4>5. QED
        BY <4>1, <4>3, <4>4
    <3>3. QED
      BY <3>1, <3>2
  <2>12. StackDone'
    <3>1. \A i \in 1 .. Len(stack) : /\ Same(mem, heap.stack[i], stack[i])'
                                     /\ IsOld(stack[i])' => i >= scan'
      BY <1>1, <1>4, <2>11 DEF Same, Forwarded, IsOld
    <3>2. QED
      BY <1>1, <1>4, <2>10, <3>1 DEF StackDone
  <2>13. Copying(mem', Unsorted', 0, 0) /\ Early'
    BY <1>1, <1>4, <2>7 DEF Collecting, Limit, Unsorted, Early
  <2>14. Clean(mem', Scanned')
    <3>1. Clean(mem', 1)
      BY DEF Clean
    <3>2. QED
      BY <1>1, <1>4, <3>1 DEF Scanned
  <2>15. QED
    BY <1>1, <2>12, <2>13, <2>14, EarlyPrime
<1>5. CASE /\ scan <= Len(stack) /\ ~IsOld(stack[scan])
           /\ scan' = scan + 1 /\ UNCHANGED <<mem, stack, pc>>
  <2>1. StackDone'
    <3>1. ASSUME NEW i \in 1 .. Len(stack), IsOld(stack[i]) PROVE i >= scan + 1
      <4>1. i # scan /\ i >= scan
        BY <1>2, <1>5, <3>1 DEF StackDone
      <4>2. QED
        BY <1>1, <4>1
    <3>2. \A i \in 1 .. Len(stack) : Same(mem, heap.stack[i], stack[i])
      BY <1>2 DEF StackDone
    <3>3. QED
      BY <1>1, <1>5, <3>1, <3>2 DEF StackDone, Same, Forwarded, IsOld
  <2>2. Copying(mem', Unsorted', 0, 0) /\ Early' /\ Clean(mem', Scanned')
    BY <1>1, <1>2, <1>5 DEF Unsorted, Early, Scanned
  <2>3. QED
    BY <1>1, <2>1, <2>2, EarlyPrime
<1>6. CASE /\ scan > Len(stack) /\ pc' = "scan" /\ scan' = 1 /\ UNCHANGED <<mem, stack>>
  <2>1. \A i \in 1 .. Len(stack) : ~IsOld(stack[i])
    BY <1>1, <1>2, <1>3, <1>6, StackClear
  <2>2. StackDone'
    BY <1>1, <1>2, <1>6, <2>1, StackKept
  <2>3. Copying(mem', Unsorted', 0, 0) /\ Early' /\ Clean(mem', Scanned')
    BY <1>1, <1>2, <1>6 DEF Unsorted, Early, Scanned
  <2>4. QED
    BY <1>1, <2>2, <2>3, EarlyPrime
<1>7. QED
  BY <1>4, <1>5, <1>6 DEF ScanStack

\* The list of ephemerons leads from one to the next lower.
LEMMA ListNext ==
  ASSUME heap \in Heaps, NEW m, MemoryOK(m), NEW a, Listed(m, a), NEW e \in Waiting(m),
         NEW f \in Waiting(m), NEW n, n = After(m, ListWord, e)
  PROVE  /\ f < e => f <= n
         /\ n # 0 => n \in Waiting(m) /\ n < e
<1>1. Waiting(m) \subseteq Nat \ {0}
  BY WaitingFacts
<1>2. Address \in [Nat -> Nat] /\ \A k \in Nat : Address[k] = k
  BY DEF Address
<1>3. Descends(m, ListWord, a, Waiting(m), Address)
  BY DEF Listed
<1>4. /\ n # 0 => n \in Waiting(m) /\ Address[n] < Address[e]
      /\ Address[f] < Address[e] => n # 0 /\ Address[f] <= Address[n]
  BY <1>1, <1>2, <1>3, DescendsStep
<1>5. e \in Nat /\ f \in Nat /\ Address[e] = e /\ Address[f] = f
  BY <1>1, <1>2
<1>6. n # 0 => n \in Nat /\ Address[n] = n
  BY <1>1, <1>2, <1>4
<1>7. QED
  BY <1>4, <1>5, <1>6

\* the walk of the list, which sorts what waits into buckets and queue,
LEMMA ScanListGraph ==
  ASSUME HeapAssumption, DistinctKeys(heap), CopyInv, GraphInv, ScanList
  PROVE  GraphInv'
<1>1. pc = "list" /\ Early /\ heap' = heap /\ stack' = stack /\ scan' = scan
      /\ scan \in Nat \ {0} /\ Pointer(mem, cur) /\ (cur # 0 => Waits(mem, cur))
  BY DEF ScanList, Early, CopyInv, StepOK
<1>2. /\ Copying(mem, cur, 0, 0) /\ heap \in Heaps /\ MemoryOK(mem) /\ StackOK
      /\ StackDone /\ Clean(mem, Len(mem.to) + 1) /\ Len(mem.to) \in Nat
  BY <1>1, EarlyCopying DEF Unsorted, Scanned
<1>3. \A i \in 1 .. Len(stack) : ~IsOld(stack[i])
  BY <1>1, <1>2 DEF StackDone
<1>4. CASE cur # 0
  <2>1. EphemeronAt(mem, cur) /\ Waits(mem, cur)
    BY <1>1, <1>4 DEF Pointer
  <2>2. cur \in 1 .. Len(mem.to)
    BY <1>2, <2>1, EphemeronFacts
  <2>3. cur \in Waiting(mem)
    BY <2>1, <2>2 DEF Waiting
  <2>4. PICK o \in Objs : o = KeyOf(mem, cur)
    BY <1>2, <2>3, WaitingFacts
  <2>5. PICK e \in Waiting(mem) : e = cur
    BY <2>3
  <2>6. PICK n : n = After(mem, ListWord, e)
    OBVIOUS
  <2>7. cur' = n /\ pc' = pc
    BY <1>1, <1>4, <2>5, <2>6 DEF ScanList, After, ListWord, ListLink
  <2>8. mem' = IF mem.heart[o] # 0 THEN queue_ephemerons_for_key(mem, o) ELSE mem
    BY <1>1, <1>4, <2>4 DEF ScanList, KeyOf
  <2>9. Listed(mem, mem.list) /\ Kept(mem, e, 0, 0)
    BY <1>2, <2>5 DEF Copying
  <2>10. \A f \in Waiting(mem) : f \in Nat /\ KeyOf(mem, f) # 0 /\ (f < e => f <= n)
    BY <1>2, <2>6, <2>9, ListNext, WaitingFacts, HeapFacts
  <2>11. CASE mem.heart[o] # 0
    <3>1. mem' = queue_ephemerons_for_key(mem, o)
      BY <2>8, <2>11
    <3>2. UniqueKeys(mem)
      BY <1>2, UniqueKeysHold DEF Copying
    <3>3. WaitStep(mem, mem') /\ MemoryOK(mem') /\ KeptBut(mem', e, o, 0)
      BY <1>2, <2>9, <3>1, <3>2, QueueKept
    <3>4. Faithful(mem', FALSE) /\ Listed(mem', mem'.list) /\ Copied(mem') = Copied(mem)
      BY <1>2, <2>9, <3>3, WaitStepCopying DEF Copying
    <3>5. PICK H, Q, r : /\ Chains(mem', H, Q, r) /\ Sorted(mem', H, Q, e, o, 0)
                         /\ \A f \in H : KeyOf(mem', f) # o
      BY <3>3 DEF KeptBut
    <3>6. Waiting(mem') = Waiting(mem) /\ (\A f \in Waiting(mem) : KeyOf(mem', f) = KeyOf(mem, f))
          /\ mem'.heart = mem.heart
      BY <1>2, <3>3, WaitSame DEF WaitStep
    <3>7. H \subseteq Waiting(mem) /\ Q \subseteq Waiting(mem)
      BY <3>5, <3>6 DEF Chains
    <3>8. \A f \in Q : KeyLives(mem', f, 0)
      BY <2>11, <3>5, <3>6 DEF Sorted, KeyLives
    <3>9. ASSUME NEW f \in H, KeyLives(mem', f, 0) PROVE f <= n
      <4>1. f \in Waiting(mem) /\ f \in Nat /\ e \in Nat
        BY <2>10, <3>7
      <4>2. KeyLives(mem', f, o)
        BY <2>10, <3>6, <3>9, <4>1 DEF KeyLives
      <4>3. f <= e
        BY <3>5, <4>2 DEF Sorted
      <4>4. f # e
        BY <2>4, <2>5, <3>5, <3>6
      <4>5. QED
        BY <2>10, <4>1, <4>3, <4>4
    <3>10. Sorted(mem', H, Q, n, 0, 0)
      BY <3>5, <3>8, <3>9 DEF Sorted
    <3>11. Kept(mem', n, 0, 0)
      BY <3>5, <3>10 DEF Kept
    <3>12. ~mem'.hung /\ Copied(mem') \subseteq Live
      BY <1>2, <3>3, <3>4 DEF Copying, WaitStep
    <3>13. Copying(mem', Unsorted', 0, 0)
      <4>1. Unsorted' = n
        BY <1>1, <2>7 DEF Unsorted
      <4>2. QED
        BY <3>3, <3>4, <3>11, <3>12, <4>1 DEF Copying
    <3>14. Clean(mem', Scanned') /\ Early'
      <4>1. Scanned' = Len(mem'.to) + 1 /\ Early'
        BY <1>1, <2>7 DEF Scanned, Early
      <4>2. Grows(mem, mem') /\ Len(mem'.to) = Len(mem.to)
        BY <1>2, <3>3, WaitStepGrows DEF WaitStep
      <4>3. Clean(mem', Len(mem.to) + 1)
        BY <1>2, <3>3, <4>2, CleanGrows
      <4>4. QED
        BY <4>1, <4>2, <4>3
    <3>15. StackDone'
      BY <1>1, <1>2, <1>3, <3>6, StackKept
    <3>16. QED
      BY <1>1, <3>13, <3>14, <3>15, EarlyPrime
  <2>12. CASE mem.heart[o] = 0
    <3>1. mem' = mem
      BY <2>8, <2>12
    <3>2. PICK H, Q, r : Chains(mem, H, Q, r) /\ Sorted(mem, H, Q, e, 0, 0)
      BY <2>9 DEF Kept
    <3>3. ASSUME NEW f \in H, KeyLives(mem, f, 0) PROVE f <= n
      <4>1. f \in Waiting(mem) /\ f \in Nat /\ e \in Nat
        BY <2>10, <3>2 DEF Chains
      <4>2. f <= e
        BY <3>2, <3>3 DEF Sorted
      <4>3. f # e
        BY <2>4, <2>5, <2>10, <2>12, <3>3, <4>1 DEF KeyLives
      <4>4. QED
        BY <2>10, <4>1, <4>2, <4>3
    <3>4. Sorted(mem, H, Q, n, 0, 0)
      BY <3>2, <3>3 DEF Sorted
    <3>5. Kept(mem, n, 0, 0)
      BY <3>2, <3>4 DEF Kept
    <3>6. Copying(mem', Unsorted', 0, 0)
      <4>1. Unsorted' = n
        BY <1>1, <2>7 DEF Unsorted
      <4>2. QED
        BY <1>2, <3>1, <3>5, <4>1 DEF Copying
    <3>7. Clean(mem', Scanned') /\ Early'
      BY <1>1, <1>2, <2>7, <3>1 DEF Scanned, Early
    <3>8. StackDone'
      BY <1>1, <1>2, <1>3, <3>1, StackKept
    <3>9. QED
      BY <1>1, <3>6, <3>7, <3>8, EarlyPrime
  <2>13. QED
    BY <2>11, <2>12
<1>5. CASE cur = 0
  <2>1. pc' = "queue" /\ mem' = mem /\ cur' = cur
    BY <1>5 DEF ScanList
  <2>2. StackDone'
    BY <1>1, <1>2, <1>3, <2>1, StackKept
  <2>3. Copying(mem', Unsorted', 0, 0) /\ Early' /\ Clean(mem', Scanned')
    BY <1>2, <1>5, <2>1 DEF Unsorted, Early, Scanned
  <2>4. QED
    BY <1>1, <2>2, <2>3, EarlyPrime
<1>6. QED
  BY <1>4, <1>5

\* The first ephemeron of the queue is taken out.
LEMMA PopCopies ==
  ASSUME heap \in Heaps, HeapAssumption, NEW m, Copying(m, 0, 0, 0), m.queue # 0,
         NEW e, e = m.queue, NEW n, n = [m EXCEPT !.queue = Link(m.to[NextLink(e)])]
  PROVE  /\ Copying(n, 0, 0, e) /\ (~IsOld(m.to[Datum(e)]) => Copying(n, 0, 0, 0))
         /\ Grows(m, n) /\ e \in Waiting(m) /\ Waiting(n) = Waiting(m)
         /\ n.to = m.to /\ n.heart = m.heart /\ m.heart[KeyOf(m, e)] # 0
<1>1. MemoryOK(m) /\ ~m.hung /\ Faithful(m, FALSE) /\ Copied(m) \subseteq Live
      /\ Listed(m, m.list) /\ Kept(m, 0, 0, 0)
  BY DEF Copying
<1>2. PICK H, Q, r : Chains(m, H, Q, r) /\ Sorted(m, H, Q, 0, 0, 0)
  BY <1>1 DEF Kept
<1>3. /\ H \subseteq Waiting(m) /\ Q \subseteq Waiting(m) /\ H \cap Q = {}
      /\ r \in [Nat -> Nat] /\ Injective(Q, r) /\ Descends(m, NextWord, e, Q, r)
  BY <1>2 DEF Chains, Injective
<1>4. Waiting(m) \subseteq Nat \ {0} /\ \A f \in Waiting(m) : KeyOf(m, f) # 0
  BY <1>1, WaitingFacts, HeapFacts
<1>5. e \in Q
  BY <1>3 DEF Descends, Greatest
<1>6. e \in Waiting(m) /\ m.heart[KeyOf(m, e)] # 0
  BY <1>2, <1>3, <1>4, <1>5 DEF Sorted, KeyLives
<1>7. /\ n.to = m.to /\ n.heart = m.heart /\ n.chain = m.chain /\ n.list = m.list
      /\ n.bucket = m.bucket /\ n.hung = m.hung /\ Record(n) /\ n.queue = After(m, NextWord, e)
  <2>1. PICK q : q = Link(m.to[NextLink(e)])
    OBVIOUS
  <2>2. n = [m EXCEPT !.queue = q] /\ Record(m)
    BY <1>1, <2>1 DEF MemoryOK, ShapeOK
  <2>3. QED
    BY <2>1, <2>2 DEF Record, After, NextWord, NextLink
<1>8. MemoryOK(n)
  <2>1. Pointer(m, n.queue)
    <3>1. LinkOK(m, m.to[NextLink(e)])
      BY <1>1, <1>6, WaitingFacts, EphemeronFacts
    <3>2. n.queue = Link(m.to[NextLink(e)])
      BY <1>7 DEF After, NextWord, NextLink
    <3>3. QED
      BY <1>1, <3>1, <3>2, LinkFacts
  <2>2. Pointer(m, n.list) /\ \A b \in 0 .. Buckets - 1 : Pointer(m, n.bucket[b])
    BY <1>1, <1>7 DEF MemoryOK, LinksOK
  <2>3. n.bucket \in [0 .. Buckets - 1 -> Nat]
    BY <1>1, <1>7 DEF MemoryOK, ShapeOK
  <2>4. QED
    BY <1>1, <1>7, <2>1, <2>2, <2>3, PointersCorrect
<1>9. Copied(n) = Copied(m) /\ Waiting(n) = Waiting(m)
  BY <1>7 DEF Copied, Waiting, EphemeronAt, Waits
<1>10. Grows(m, n)
  BY <1>1, <1>7, <1>9, LengthType DEF Grows, Chained
<1>11. Faithful(n, FALSE)
  <2>1. \A o \in Copied(n) : CopyOK(n, o, FALSE)
    BY <1>1, <1>9, <1>10, CopyGrows DEF Faithful
  <2>2. Same(m, heap.fixed, m.to[1]) /\ m.to[2] = Imm
    BY <1>1 DEF Faithful
  <2>3. Same(n, heap.fixed, n.to[1]) /\ n.to[2] = Imm
    BY <1>7, <2>2 DEF Same, Forwarded
  <2>4. /\ \A i, j \in 1 .. Len(n.chain) : n.chain[i] = n.chain[j] => i = j
        /\ \A i \in 1 .. Len(n.chain) : IsOld(Fields(n.chain[i])[1])
    BY <1>1, <1>7 DEF Faithful
  <2>5. QED
    BY <2>1, <2>3, <2>4 DEF Faithful
<1>12. \A k, f : After(n, k, f) = After(m, k, f)
  BY <1>7 DEF After
<1>13. Listed(n, n.list)
  BY <1>1, <1>7, <1>9, <1>12, DescendsSame DEF Listed
<1>14. \A f : KeyOf(n, f) = KeyOf(m, f) /\ (KeyLives(n, f, 0) <=> KeyLives(m, f, 0))
  BY <1>7 DEF KeyOf, KeyLives
<1>15. Chains(n, H, Q \ {e}, r)
  <2>1. ASSUME NEW c \in 0 .. Buckets - 1
        PROVE  Descends(n, NextWord, n.bucket[c], InBucket(n, H, c), Address)
    <3>1. InBucket(n, H, c) = InBucket(m, H, c)
      BY <1>14 DEF InBucket
    <3>2. Descends(m, NextWord, m.bucket[c], InBucket(m, H, c), Address)
      BY <1>2 DEF Chains
    <3>3. QED
      BY <1>7, <1>12, <3>1, <3>2, DescendsSame
  <2>2. Descends(n, NextWord, n.queue, Q \ {e}, r)
    <3>1. Q \subseteq Nat
      BY <1>3, <1>4
    <3>2. Descends(m, NextWord, After(m, NextWord, e), Q \ {e}, r)
      BY <1>3, <1>5, <3>1, DescendsPop
    <3>3. QED
      BY <1>7, <1>12, <3>2, DescendsSame
  <2>3. H \cup (Q \ {e}) \subseteq Waiting(n) /\ H \cap (Q \ {e}) = {}
    BY <1>3, <1>9
  <2>4. \A f, g \in Q \ {e} : r[f] = r[g] => f = g
    BY <1>3 DEF Injective
  <2>5. QED
    BY <1>3, <2>1, <2>2, <2>3, <2>4 DEF Chains
<1>16. Sorted(n, H, Q \ {e}, 0, 0, e)
  <2>1. \A f \in Waiting(n) : IsOld(n.to[Datum(f)]) => f \in H \cup (Q \ {e}) \cup {e}
    <3>1. \A f \in Waiting(m) : IsOld(m.to[Datum(f)]) => f \in H \cup Q
      BY <1>2, <1>4 DEF Sorted
    <3>2. QED
      BY <1>7, <1>9, <3>1
  <2>2. QED
    BY <1>2, <1>14, <2>1 DEF Sorted
<1>17. ASSUME ~IsOld(m.to[Datum(e)]) PROVE Sorted(n, H, Q \ {e}, 0, 0, 0)
  <2>1. \A f \in Waiting(n) : IsOld(n.to[Datum(f)]) => f \in H \cup (Q \ {e}) \cup {0}
    BY <1>7, <1>16, <1>17 DEF Sorted
  <2>2. QED
    BY <1>16, <2>1 DEF Sorted
<1>18. QED
  BY <1>1, <1>6, <1>7, <1>8, <1>9, <1>10, <1>11, <1>13, <1>15, <1>16, <1>17 DEF Copying, Kept

\* Before anything is settled the copies are faithful in the weaker sense too.
LEMMA FaithfulOver ==
  ASSUME NEW m, Faithful(m, FALSE)
  PROVE  Faithful(m, TRUE)
<1>1. \A o : CopyOK(m, o, FALSE) => CopyOK(m, o, TRUE)
  BY DEF CopyOK, WeakCopy, EphemeronCopy
<1>2. QED
  BY <1>1 DEF Faithful

\* and the queue: when it is empty, nothing that waits has a key that lives.
LEMMA ScanQueueGraph ==
  ASSUME HeapAssumption, DistinctKeys(heap), CopyInv, GraphInv, ScanQueue
  PROVE  GraphInv'
<1>1. pc = "queue" /\ Early /\ heap' = heap /\ stack' = stack
  BY DEF ScanQueue, Early
<1>2. /\ Copying(mem, 0, 0, 0) /\ heap \in Heaps /\ MemoryOK(mem) /\ StackOK
      /\ StackDone /\ Clean(mem, Len(mem.to) + 1) /\ Len(mem.to) \in Nat
  BY <1>1, EarlyCopying DEF Unsorted, Scanned
<1>3. \A i \in 1 .. Len(stack) : ~IsOld(stack[i])
  BY <1>1, <1>2 DEF StackDone
<1>4. CASE mem.queue # 0
  <2>1. PICK e : e = mem.queue
    OBVIOUS
  <2>2. PICK w : w = mem.to[Datum(e)]
    OBVIOUS
  <2>3. PICK p : p = [mem EXCEPT !.queue = Link(mem.to[NextLink(e)])]
    OBVIOUS
  <2>4. /\ Copying(p, 0, 0, e) /\ (~IsOld(w) => Copying(p, 0, 0, 0))
        /\ Grows(mem, p) /\ e \in Waiting(mem) /\ Waiting(p) = Waiting(mem)
        /\ p.to = mem.to /\ p.heart = mem.heart /\ mem.heart[KeyOf(mem, e)] # 0
    BY <1>2, <1>4, <2>1, <2>2, <2>3, PopCopies
  <2>5. pc' = "rescan" /\ scan' = Len(mem.to) + 1
    BY <1>1, <1>4 DEF ScanQueue
  <2>6. MemoryOK(p) /\ Clean(p, Len(mem.to) + 1)
    <3>1. MemoryOK(p)
      BY <2>4 DEF Copying
    <3>2. QED
      BY <1>2, <2>4, <3>1, CleanGrows
  <2>7. SUFFICES /\ Copying(mem', 0, 0, 0) /\ Clean(mem', Len(mem.to) + 1)
                 /\ \A o \in Objs : mem.heart[o] # 0 => mem'.heart[o] = mem.heart[o]
    <3>1. ASSUME /\ Copying(mem', 0, 0, 0) /\ Clean(mem', Len(mem.to) + 1)
                 /\ \A o \in Objs : mem.heart[o] # 0 => mem'.heart[o] = mem.heart[o]
          PROVE  GraphInv'
      <4>1. StackDone'
        BY <1>1, <1>2, <1>3, <3>1, StackKept
      <4>2. Copying(mem', Unsorted', 0, 0) /\ Clean(mem', Scanned') /\ Early'
        BY <2>5, <3>1 DEF Unsorted, Scanned, Early
      <4>3. QED
        BY <1>1, <4>1, <4>2, EarlyPrime
    <3>2. QED
      BY <3>1
  <2>8. CASE ~IsOld(w)
    <3>1. mem' = p
      BY <1>1, <1>4, <2>1, <2>2, <2>3, <2>8 DEF ScanQueue
    <3>2. QED
      BY <2>4, <2>6, <2>8, <3>1
  <2>9. CASE IsOld(w)
    <3>1. PICK m : m = Handle(p, w[2], TRUE)
      OBVIOUS
    <3>2. mem' = [m EXCEPT !.to[Datum(e)] = Forwarded(m, w)]
      BY <1>1, <1>4, <2>1, <2>2, <2>3, <2>9, <3>1 DEF ScanQueue
    <3>3. w[2] \in Live
      BY <1>2, <2>2, <2>4, <2>9, DatumLives DEF Copying
    <3>4. Collecting(p, TRUE, e)
      BY <2>4 DEF Collecting, Limit
    <3>5. Collecting(m, TRUE, e) /\ Grows(p, m) /\ MemoryOK(m) /\ m.heart[w[2]] # 0
      BY <1>2, <3>1, <3>3, <3>4, HandleCopies
    <3>6. /\ e \in Nat /\ e + 4 <= Len(p.to) /\ Len(p.to) <= Len(m.to) /\ Len(m.to) \in Nat
          /\ Len(p.to) \in Nat /\ e >= 3
      BY <1>2, <2>4, <3>5, LengthType, WaitingFacts DEF Grows
    <3>7. Datum(e) \in 1 .. Len(p.to) /\ Datum(e) \in 1 .. Len(m.to) /\ e \in 1 .. Len(p.to)
      BY <3>6 DEF Datum
    <3>8. m.to[Datum(e)] = w
      <4>1. \A f \in Waiting(p) : Datum(e) # NextLink(f)
        <5>1. ASSUME NEW f \in Waiting(p) PROVE Datum(e) # NextLink(f)
          <6>1. f \in Nat /\ (e = f \/ e + 5 <= f \/ f + 5 <= e)
            BY <1>2, <2>4, WaitingFacts
          <6>2. QED
            BY <3>6, <6>1 DEF Datum, NextLink
        <5>2. QED
          BY <5>1
      <4>2. QED
        BY <2>2, <2>4, <3>5, <3>7, <4>1 DEF Grows
    <3>9. \A f \in Waiting(m) : Datum(e) # Key(f)
      <4>1. e \in Waiting(m)
        BY <2>4, <3>5, <3>7 DEF Grows
      <4>2. ASSUME NEW f \in Waiting(m) PROVE Datum(e) # Key(f)
        <5>1. f \in Nat /\ (e = f \/ e + 5 <= f \/ f + 5 <= e)
          BY <1>2, <3>5, <4>1, WaitingFacts
        <5>2. QED
          BY <3>6, <5>1 DEF Datum, Key
      <4>3. QED
        BY <4>2
    <3>10. Forwards(m, mem', Datum(e))
      BY <2>9, <3>2, <3>5, <3>7, <3>8, <3>9 DEF Forwards
    <3>11. Copying(mem', 0, 0, 0)
      <4>1. Copying(m, 0, 0, e)
        BY <3>5 DEF Collecting, Limit
      <4>2. QED
        BY <1>2, <3>10, <4>1, ForwardCopies
    <3>12. Clean(mem', Len(mem.to) + 1)
      <4>1. Clean(m, Len(mem.to) + 1)
        BY <1>2, <2>4, <2>6, <3>5, CleanGrows
      <4>2. QED
        BY <1>2, <3>7, <3>10, <4>1, CleanForward
    <3>13. mem'.heart = m.heart
      BY <1>2, <3>10, ForwardsFacts
    <3>14. \A o \in Objs : mem.heart[o] # 0 => mem'.heart[o] = mem.heart[o]
      BY <2>4, <3>5, <3>13 DEF Grows
    <3>15. QED
      BY <3>11, <3>12, <3>14
  <2>10. QED
    BY <2>8, <2>9
<1>5. CASE mem.queue = 0
  <2>1. pc' = "ephemerons" /\ cur' = mem.list /\ mem' = mem
    BY <1>5 DEF ScanQueue
  <2>2. StackDone'
    BY <1>1, <1>2, <1>3, <2>1, StackKept
  <2>3. Faithful(mem', ~Early')
    <3>1. ~Early'
      BY <2>1 DEF Early
    <3>2. Faithful(mem, TRUE)
      BY <1>2, FaithfulOver DEF Copying
    <3>3. QED
      BY <2>1, <3>1, <3>2
  <2>4. Clean(mem', Scanned')
    BY <1>2, <2>1 DEF Scanned
  <2>5. Listed(mem', cur') /\ ~mem'.hung /\ Copied(mem') \subseteq Live
    BY <1>2, <2>1 DEF Copying
  <2>6. \A e \in Waiting(mem) : IsOld(mem.to[Datum(e)]) => ~KeyLives(mem, e, 0)
    <3>1. PICK H, Q, r : Chains(mem, H, Q, r) /\ Sorted(mem, H, Q, 0, 0, 0)
      BY <1>2 DEF Copying, Kept
    <3>2. Waiting(mem) \subseteq Nat \ {0}
      BY <1>2, WaitingFacts
    <3>3. H \subseteq Waiting(mem) /\ Q \subseteq Waiting(mem)
      BY <3>1 DEF Chains
    <3>4. Q = {}
      <4>1. Greatest(mem.queue, Q, r)
        BY <3>1 DEF Chains, Descends
      <4>2. QED
        BY <1>5, <3>2, <3>3, <4>1 DEF Greatest
    <3>5. ASSUME NEW e \in Waiting(mem), IsOld(mem.to[Datum(e)]), KeyLives(mem, e, 0)
          PROVE  FALSE
      <4>1. e \in Nat \ {0}
        BY <3>2
      <4>2. e \in H
        BY <3>1, <3>4, <3>5, <4>1 DEF Sorted
      <4>3. e <= 0
        BY <3>1, <3>5, <4>2 DEF Sorted
      <4>4. QED
        BY <4>1, <4>3
    <3>6. QED
      BY <3>5
  <2>7. ~Early' /\ pc' \notin {"weak", "done"}
    BY <2>1 DEF Early
  <2>8. QED
    BY <1>1, <2>1, <2>2, <2>3, <2>4, <2>5, <2>6, <2>7, GraphPrime
<1>6. QED
  BY <1>4, <1>5

-----------------------------------------------------------------------------
\* An ephemeron that waits is settled: all its words are written.
Settled(m, n, e, key, d) ==
  /\ n.heart = m.heart /\ n.chain = m.chain /\ n.hung = m.hung /\ Len(n.to) = Len(m.to)
  /\ \A i \in 1 .. Len(m.to) : i < e \/ i >= e + 5 => n.to[i] = m.to[i]
  /\ n.to[e] = Manifest /\ n.to[e + 1] = key /\ n.to[e + 2] = d
  /\ n.to[e + 3] = False /\ n.to[e + 4] = False

\* What update_ephemerons writes.
LEMMA SettleStep ==
  ASSUME heap \in Heaps, NEW m, MemoryOK(m), NEW e, EphemeronAt(m, e), NEW key, NEW d, NEW n,
         n = [m EXCEPT !.to[e] = Manifest, !.to[Key(e)] = key, !.to[Datum(e)] = d,
                       !.to[ListLink(e)] = False, !.to[NextLink(e)] = False]
  PROVE  Settled(m, n, e, key, d)
<1>1. e \in Nat /\ e >= 3 /\ e + 4 <= Len(m.to) /\ Len(m.to) \in Nat
  BY EphemeronFacts
<1>2. Record(m) /\ IsSeq(m.to)
  BY DEF MemoryOK, ShapeOK
<1>3. PICK n1 : n1 = [m EXCEPT !.to[e] = Manifest]
  OBVIOUS
<1>4. PICK n2 : n2 = [n1 EXCEPT !.to[Key(e)] = key]
  OBVIOUS
<1>5. PICK n3 : n3 = [n2 EXCEPT !.to[Datum(e)] = d]
  OBVIOUS
<1>6. PICK n4 : n4 = [n3 EXCEPT !.to[ListLink(e)] = False]
  OBVIOUS
<1>7. n = [n4 EXCEPT !.to[NextLink(e)] = False]
  BY <1>3, <1>4, <1>5, <1>6
<1>8. PutAt(m, n1, e, Manifest) /\ n1.hung = m.hung
  BY <1>2, <1>3, PutStep DEF Record
<1>9. PutAt(n1, n2, Key(e), key) /\ n2.hung = n1.hung
  <2>1. Record(n1) /\ IsSeq(n1.to)
    BY <1>8 DEF PutAt
  <2>2. QED
    BY <1>4, <2>1, PutStep DEF Record
<1>10. PutAt(n2, n3, Datum(e), d) /\ n3.hung = n2.hung
  <2>1. Record(n2) /\ IsSeq(n2.to)
    BY <1>9 DEF PutAt
  <2>2. QED
    BY <1>5, <2>1, PutStep DEF Record
<1>11. PutAt(n3, n4, ListLink(e), False) /\ n4.hung = n3.hung
  <2>1. Record(n3) /\ IsSeq(n3.to)
    BY <1>10 DEF PutAt
  <2>2. QED
    BY <1>6, <2>1, PutStep DEF Record
<1>12. PutAt(n4, n, NextLink(e), False) /\ n.hung = n4.hung
  <2>1. Record(n4) /\ IsSeq(n4.to)
    BY <1>11 DEF PutAt
  <2>2. QED
    BY <1>7, <2>1, PutStep DEF Record
<1>13. n.heart = m.heart /\ n.chain = m.chain /\ n.hung = m.hung /\ Len(n.to) = Len(m.to)
       /\ Len(n1.to) = Len(m.to) /\ Len(n2.to) = Len(m.to) /\ Len(n3.to) = Len(m.to)
       /\ Len(n4.to) = Len(m.to)
  BY <1>8, <1>9, <1>10, <1>11, <1>12 DEF PutAt
<1>14. ASSUME NEW i \in 1 .. Len(m.to)
       PROVE  n.to[i] = IF i = NextLink(e) THEN False ELSE IF i = ListLink(e) THEN False
                        ELSE IF i = Datum(e) THEN d ELSE IF i = Key(e) THEN key
                        ELSE IF i = e THEN Manifest ELSE m.to[i]
  <2>1. n1.to[i] = IF i = e THEN Manifest ELSE m.to[i]
    BY <1>8 DEF PutAt
  <2>2. n2.to[i] = IF i = Key(e) THEN key ELSE n1.to[i]
    BY <1>9, <1>13 DEF PutAt
  <2>3. n3.to[i] = IF i = Datum(e) THEN d ELSE n2.to[i]
    BY <1>10, <1>13 DEF PutAt
  <2>4. n4.to[i] = IF i = ListLink(e) THEN False ELSE n3.to[i]
    BY <1>11, <1>13 DEF PutAt
  <2>5. n.to[i] = IF i = NextLink(e) THEN False ELSE n4.to[i]
    BY <1>12, <1>13 DEF PutAt
  <2>6. QED
    BY <2>1, <2>2, <2>3, <2>4, <2>5
<1>15. /\ e \in 1 .. Len(m.to) /\ e + 1 \in 1 .. Len(m.to) /\ e + 2 \in 1 .. Len(m.to)
       /\ e + 3 \in 1 .. Len(m.to) /\ e + 4 \in 1 .. Len(m.to)
  BY <1>1
<1>16. ASSUME NEW i \in 1 .. Len(m.to), i < e \/ i >= e + 5 PROVE n.to[i] = m.to[i]
  BY <1>1, <1>14, <1>16 DEF Key, Datum, ListLink, NextLink
<1>17. n.to[e] = Manifest /\ n.to[e + 1] = key /\ n.to[e + 2] = d
       /\ n.to[e + 3] = False /\ n.to[e + 4] = False
  BY <1>1, <1>14, <1>15 DEF Key, Datum, ListLink, NextLink
<1>18. QED
  BY <1>13, <1>16, <1>17 DEF Settled

\* weak_referent_forward of the key; the datum goes with a key that is dead.
Settles(m, n, e) ==
  \E key, d : /\ Settled(m, n, e, key, d)
              /\ key = IF m.heart[KeyOf(m, e)] # 0 THEN Forwarded(m, m.to[Key(e)]) ELSE False
              /\ d = IF m.heart[KeyOf(m, e)] # 0 THEN m.to[Datum(e)] ELSE False

\* The others are as they were.
LEMMA SettleOthers ==
  ASSUME heap \in Heaps, HeapAssumption, NEW m, MemoryOK(m), NEW e \in Waiting(m), NEW n,
         Settles(m, n, e)
  PROVE  /\ Copied(n) = Copied(m) /\ Waiting(n) = Waiting(m) \ {e}
         /\ \A o \in Copied(m) : m.heart[o] # e =>
              \A i \in 1 .. Size(o) : Now(n, o, i) = Now(m, o, i)
         /\ \A f \in Waiting(m) \ {e} :
              /\ n.to[Key(f)] = m.to[Key(f)] /\ n.to[Datum(f)] = m.to[Datum(f)]
              /\ KeyOf(n, f) = KeyOf(m, f) /\ (KeyLives(n, f, 0) <=> KeyLives(m, f, 0))
              /\ After(n, ListWord, f) = After(m, ListWord, f)
<1>1. PICK key, d : Settled(m, n, e, key, d)
  BY DEF Settles
<1>2. n.heart = m.heart /\ Len(n.to) = Len(m.to)
      /\ \A i \in 1 .. Len(m.to) : i < e \/ i >= e + 5 => n.to[i] = m.to[i]
  BY <1>1 DEF Settled
<1>3. Copied(n) = Copied(m) /\ \A f : EphemeronAt(n, f) <=> EphemeronAt(m, f)
  BY <1>2 DEF Copied, EphemeronAt
<1>4. /\ e \in Nat /\ e >= 3 /\ e + 4 <= Len(m.to) /\ Len(m.to) \in Nat /\ EphemeronAt(m, e)
      /\ \A f : EphemeronAt(m, f) => e = f \/ e + 5 <= f \/ f + 5 <= e
  BY WaitingFacts
<1>5. ASSUME NEW f, EphemeronAt(m, f), f # e
      PROVE  /\ n.to[f] = m.to[f] /\ n.to[f + 1] = m.to[f + 1] /\ n.to[f + 2] = m.to[f + 2]
             /\ n.to[f + 3] = m.to[f + 3] /\ f \in 1 .. Len(m.to)
  <2>1. f \in Nat /\ f >= 3 /\ f + 4 <= Len(m.to) /\ (e + 5 <= f \/ f + 5 <= e)
    BY <1>4, <1>5, EphemeronFacts
  <2>2. \A k \in 0 .. 3 : f + k \in 1 .. Len(m.to) /\ (f + k < e \/ f + k >= e + 5)
    BY <1>4, <2>1
  <2>3. \A k \in 0 .. 3 : n.to[f + k] = m.to[f + k]
    BY <1>2, <2>2
  <2>4. 0 \in 0 .. 3 /\ 1 \in 0 .. 3 /\ 2 \in 0 .. 3 /\ 3 \in 0 .. 3 /\ f + 0 = f
    BY <2>1
  <2>5. QED
    BY <2>2, <2>3, <2>4
<1>6. Waiting(n) = Waiting(m) \ {e}
  <2>1. ~Waits(n, e)
    BY <1>1 DEF Settled, Waits, Manifest
  <2>2. \A f : f \in Waiting(n) <=> f \in Waiting(m) \ {e}
    <3>1. ASSUME NEW f PROVE f \in Waiting(n) <=> f \in Waiting(m) \ {e}
      <4>1. CASE f = e
        BY <2>1, <4>1 DEF Waiting
      <4>2. CASE f # e
        <5>1. EphemeronAt(m, f) => (Waits(n, f) <=> Waits(m, f))
          BY <1>5, <4>2 DEF Waits
        <5>2. QED
          BY <1>2, <1>3, <4>2, <5>1 DEF Waiting
      <4>3. QED
        BY <4>1, <4>2
    <3>2. QED
      BY <3>1
  <2>3. QED
    BY <2>2
<1>7. ASSUME NEW o \in Copied(m), m.heart[o] # e, NEW i \in 1 .. Size(o)
      PROVE  Now(n, o, i) = Now(m, o, i)
  <2>1. PICK p \in Copied(m) : Kind(p) = "ephemeron" /\ e = m.heart[p]
    BY <1>4 DEF EphemeronAt
  <2>2. p \in Objs /\ o \in Objs /\ p # o
    BY <1>7, <2>1 DEF Copied
  <2>3. Size(p) = 5 /\ Size(o) \in Nat
    BY <2>1, <2>2, WordsFacts DEF EphemeronSize
  <2>4. /\ m.heart[o] \in Nat /\ m.heart[o] >= 3 /\ m.heart[o] + Size(o) <= Len(m.to) + 1
        /\ (m.heart[o] + Size(o) <= e \/ e + 5 <= m.heart[o])
    BY <2>1, <2>2, <2>3, LengthType DEF MemoryOK, CopiesOK
  <2>5. PICK j : j = m.heart[o] + i - 1
    OBVIOUS
  <2>6. j \in 1 .. Len(m.to) /\ (j < e \/ j >= e + 5)
    <3>1. e \in Nat /\ Len(m.to) \in Nat
      BY <1>4
    <3>2. PICK h \in Nat : h = m.heart[o]
      BY <2>4
    <3>3. PICK s \in Nat : s = Size(o)
      BY <2>3
    <3>4. i \in 1 .. s /\ j = h + i - 1 /\ h >= 3 /\ h + s <= Len(m.to) + 1
          /\ (h + s <= e \/ e + 5 <= h)
      BY <2>4, <2>5, <3>2, <3>3
    <3>5. QED
      BY <3>1, <3>4
  <2>7. QED
    BY <1>2, <2>5, <2>6 DEF Now
<1>8. ASSUME NEW f \in Waiting(m) \ {e}
      PROVE  /\ n.to[Key(f)] = m.to[Key(f)] /\ n.to[Datum(f)] = m.to[Datum(f)]
             /\ KeyOf(n, f) = KeyOf(m, f) /\ (KeyLives(n, f, 0) <=> KeyLives(m, f, 0))
             /\ After(n, ListWord, f) = After(m, ListWord, f)
  <2>1. EphemeronAt(m, f) /\ f # e
    BY <1>8 DEF Waiting
  <2>2. n.to[f + 1] = m.to[f + 1] /\ n.to[f + 2] = m.to[f + 2] /\ n.to[f + 3] = m.to[f + 3]
    BY <1>5, <2>1
  <2>3. KeyOf(n, f) = KeyOf(m, f)
    BY <2>2 DEF KeyOf, Key
  <2>4. QED
    BY <1>2, <2>2, <2>3 DEF Key, Datum, KeyLives, After, ListWord
<1>9. QED
  BY <1>3, <1>6, <1>7, <1>8

\* The ephemeron is whole and its key lives, or it is cleared.
LEMMA SettleOne ==
  ASSUME heap \in Heaps, HeapAssumption, NEW m, MemoryOK(m), Faithful(m, TRUE),
         NEW e \in Waiting(m), IsOld(m.to[Datum(e)]) => ~KeyLives(m, e, 0), NEW n,
         Settles(m, n, e), NEW o \in Copied(m), m.heart[o] = e
  PROVE  CopyOK(n, o, TRUE)
<1>1. PICK p \in Copied(m) : /\ Kind(p) = "ephemeron" /\ e = m.heart[p] /\ Hidden(m, p)
                             /\ IsOld(Fields(p)[1]) /\ KeyOf(m, e) = Fields(p)[1][2]
  BY WaitingHidden
<1>2. p = o /\ o \in Objs
  <2>1. p \in Objs /\ o \in Objs /\ Size(p) \in Nat \ {0} /\ Size(o) \in Nat \ {0} /\ e \in Nat
    BY <1>1, WordsFacts, WaitingFacts DEF Copied
  <2>2. p = o \/ e + Size(p) <= e \/ e + Size(o) <= e
    BY <1>1 DEF MemoryOK, CopiesOK
  <2>3. QED
    BY <2>1, <2>2
<1>3. /\ Kind(o) = "ephemeron" /\ Hidden(m, o) /\ IsOld(Fields(o)[1])
      /\ KeyOf(m, e) = Fields(o)[1][2]
  BY <1>1, <1>2
<1>4. e \in Nat /\ e >= 3 /\ e + 4 <= Len(m.to)
  BY WaitingFacts
<1>5. PICK key, d :
        /\ Settled(m, n, e, key, d)
        /\ key = IF m.heart[KeyOf(m, e)] # 0 THEN Forwarded(m, m.to[Key(e)]) ELSE False
        /\ d = IF m.heart[KeyOf(m, e)] # 0 THEN m.to[Datum(e)] ELSE False
  BY DEF Settles
<1>6. /\ n.heart = m.heart /\ n.to[e] = Manifest /\ n.to[e + 1] = key /\ n.to[e + 2] = d
      /\ n.to[e + 3] = False /\ n.to[e + 4] = False
  BY <1>5 DEF Settled
<1>7. /\ Now(n, o, 1) = Manifest /\ Now(n, o, 2) = key /\ Now(n, o, 3) = d
      /\ Now(n, o, 4) = False /\ Now(n, o, 5) = False
  <2>1. /\ e + 1 - 1 = e /\ e + 2 - 1 = e + 1 /\ e + 3 - 1 = e + 2 /\ e + 4 - 1 = e + 3
        /\ e + 5 - 1 = e + 4
    BY <1>4
  <2>2. n.heart[o] = e
    BY <1>6
  <2>3. QED
    BY <1>6, <2>1, <2>2 DEF Now
<1>8. m.to[Key(e)] = Fields(o)[1] /\ Same(m, Fields(o)[2], m.to[Datum(e)])
  <2>1. e + 2 - 1 = Key(e) /\ e + 3 - 1 = Datum(e)
    BY <1>4 DEF Key, Datum
  <2>2. QED
    BY <1>3, <2>1 DEF Hidden, Now
<1>9. CASE m.heart[KeyOf(m, e)] # 0
  <2>1. key = Forwarded(m, Fields(o)[1]) /\ d = m.to[Datum(e)]
    BY <1>5, <1>8, <1>9
  <2>2. Same(n, Fields(o)[1], key)
    BY <1>3, <1>6, <1>9, <2>1 DEF Same, Forwarded
  <2>3. Same(n, Fields(o)[2], d)
    BY <1>6, <1>8, <2>1 DEF Same, Forwarded
  <2>4. /\ Words(o)[1] = Manifest /\ Size(o) = 5 /\ Words(o)[2] = Fields(o)[1]
        /\ Words(o)[3] = Fields(o)[2] /\ Words(o)[4] = False /\ Words(o)[5] = False
    BY <1>2, <1>3, WordsFacts DEF EphemeronSize
  <2>5. \A i \in 1 .. Size(o) : i = 1 \/ i = 2 \/ i = 3 \/ i = 4 \/ i = 5
    BY <2>4
  <2>6. ASSUME NEW w PROVE Same(n, w, w)
    BY DEF Same
  <2>7. Whole(n, o)
    <3>1. ASSUME NEW i \in 1 .. Size(o) PROVE Same(n, Words(o)[i], Now(n, o, i))
      <4>1. i = 1 \/ i = 2 \/ i = 3 \/ i = 4 \/ i = 5
        BY <2>5
      <4>2. CASE i = 1
        BY <1>7, <2>4, <2>6, <4>2
      <4>3. CASE i = 2
        BY <1>7, <2>2, <2>4, <4>3
      <4>4. CASE i = 3
        BY <1>7, <2>3, <2>4, <4>4
      <4>5. CASE i = 4
        BY <1>7, <2>4, <2>6, <4>5
      <4>6. CASE i = 5
        BY <1>7, <2>4, <2>6, <4>6
      <4>7. QED
        BY <4>1, <4>2, <4>3, <4>4, <4>5, <4>6
    <3>2. QED
      BY <3>1 DEF Whole
  <2>8. Opened(n, o)
    BY <1>3, <1>6, <1>9 DEF Opened
  <2>9. QED
    BY <1>3, <2>7, <2>8 DEF CopyOK, EphemeronCopy
<1>10. CASE m.heart[KeyOf(m, e)] = 0
  <2>1. key = False /\ d = False
    BY <1>5, <1>10
  <2>2. \A i \in 2 .. 5 : i = 2 \/ i = 3 \/ i = 4 \/ i = 5
    OBVIOUS
  <2>3. \A i \in 2 .. 5 : Now(n, o, i) = False
    <3>1. ASSUME NEW i \in 2 .. 5 PROVE Now(n, o, i) = False
      <4>1. i = 2 \/ i = 3 \/ i = 4 \/ i = 5
        BY <2>2
      <4>2. QED
        BY <1>7, <2>1, <4>1
    <3>2. QED
      BY <3>1
  <2>4. Cleared(n, o)
    BY <1>3, <1>6, <1>7, <1>10, <2>3 DEF Cleared
  <2>5. QED
    BY <1>3, <2>4 DEF CopyOK, EphemeronCopy
<1>11. QED
  BY <1>9, <1>10

\* What an ephemeron that is settled leaves of the invariant.
LEMMA SettleGraph ==
  ASSUME heap \in Heaps, HeapAssumption, NEW m, MemoryOK(m), Faithful(m, TRUE),
         Clean(m, Len(m.to) + 1), NEW e \in Waiting(m), Listed(m, e),
         \A f \in Waiting(m) : IsOld(m.to[Datum(f)]) => ~KeyLives(m, f, 0), NEW n,
         Settles(m, n, e)
  PROVE  /\ Faithful(n, TRUE) /\ Clean(n, Len(n.to) + 1)
         /\ Copied(n) = Copied(m) /\ n.hung = m.hung /\ n.heart = m.heart
         /\ Listed(n, After(m, ListWord, e))
         /\ \A f \in Waiting(n) : IsOld(n.to[Datum(f)]) => ~KeyLives(n, f, 0)
<1>1. PICK key, d :
        /\ Settled(m, n, e, key, d)
        /\ key = IF m.heart[KeyOf(m, e)] # 0 THEN Forwarded(m, m.to[Key(e)]) ELSE False
        /\ d = IF m.heart[KeyOf(m, e)] # 0 THEN m.to[Datum(e)] ELSE False
  BY DEF Settles
<1>2. n.heart = m.heart /\ n.chain = m.chain /\ n.hung = m.hung /\ Len(n.to) = Len(m.to)
      /\ \A i \in 1 .. Len(m.to) : i < e \/ i >= e + 5 => n.to[i] = m.to[i]
  BY <1>1 DEF Settled
<1>3. /\ Copied(n) = Copied(m) /\ Waiting(n) = Waiting(m) \ {e}
      /\ \A o \in Copied(m) : m.heart[o] # e =>
           \A i \in 1 .. Size(o) : Now(n, o, i) = Now(m, o, i)
      /\ \A f \in Waiting(m) \ {e} :
           /\ n.to[Key(f)] = m.to[Key(f)] /\ n.to[Datum(f)] = m.to[Datum(f)]
           /\ KeyOf(n, f) = KeyOf(m, f) /\ (KeyLives(n, f, 0) <=> KeyLives(m, f, 0))
           /\ After(n, ListWord, f) = After(m, ListWord, f)
  BY SettleOthers
<1>4. e \in Nat /\ e >= 3 /\ e + 4 <= Len(m.to) /\ Len(m.to) \in Nat
  BY WaitingFacts
<1>5. \A w, v : Same(m, w, v) => Same(n, w, v)
  BY <1>2 DEF Same, Forwarded
<1>6. ASSUME NEW o \in Copied(m), m.heart[o] # e PROVE CopyOK(n, o, TRUE)
  <2>1. CopyOK(m, o, TRUE) /\ o \in Objs
    BY DEF Faithful, Copied
  <2>2. \A i \in 1 .. Size(o) : Now(n, o, i) = Now(m, o, i)
    BY <1>3, <1>6
  <2>3. Whole(m, o) => Whole(n, o)
    BY <1>5, <2>2 DEF Whole
  <2>4. ASSUME Kind(o) = "weak" PROVE WeakCopy(n, o, TRUE)
    <3>1. Size(o) = 2
      BY <2>1, <2>4, WordsFacts
    <3>2. Now(n, o, 1) = Now(m, o, 1) /\ Now(n, o, 2) = Now(m, o, 2)
      BY <2>2, <3>1
    <3>3. WeakCopy(m, o, TRUE)
      BY <2>1, <2>4 DEF CopyOK
    <3>4. QED
      BY <1>2, <1>5, <3>2, <3>3 DEF WeakCopy, Chained, Forwarded
  <2>5. ASSUME Kind(o) = "ephemeron" PROVE EphemeronCopy(n, o, TRUE)
    <3>1. Size(o) = 5
      BY <2>1, <2>5, WordsFacts DEF EphemeronSize
    <3>2. /\ Now(n, o, 1) = Now(m, o, 1) /\ Now(n, o, 2) = Now(m, o, 2)
          /\ Now(n, o, 3) = Now(m, o, 3)
          /\ \A i \in 2 .. 5 : Now(n, o, i) = Now(m, o, i)
      BY <2>2, <3>1
    <3>3. EphemeronCopy(m, o, TRUE)
      BY <2>1, <2>5 DEF CopyOK
    <3>4. Hidden(m, o) => Hidden(n, o)
      BY <1>5, <3>2 DEF Hidden
    <3>5. Cleared(m, o) => Cleared(n, o)
      BY <1>2, <3>2 DEF Cleared
    <3>6. Opened(m, o) => Opened(n, o)
      BY <1>2 DEF Opened
    <3>7. QED
      BY <2>3, <3>3, <3>4, <3>5, <3>6 DEF EphemeronCopy
  <2>6. QED
    BY <2>1, <2>3, <2>4, <2>5 DEF CopyOK
<1>7. ASSUME NEW o \in Copied(m), m.heart[o] = e PROVE CopyOK(n, o, TRUE)
  BY <1>7, SettleOne
<1>8. Faithful(n, TRUE)
  <2>1. Same(m, heap.fixed, m.to[1]) /\ m.to[2] = Imm
        /\ (\A i, j \in 1 .. Len(m.chain) : m.chain[i] = m.chain[j] => i = j)
        /\ \A i \in 1 .. Len(m.chain) : IsOld(Fields(m.chain[i])[1])
    BY DEF Faithful
  <2>2. n.to[1] = m.to[1] /\ n.to[2] = m.to[2]
    <3>1. 1 \in 1 .. Len(m.to) /\ 2 \in 1 .. Len(m.to) /\ 1 < e /\ 2 < e
      BY <1>4
    <3>2. QED
      BY <1>2, <3>1
  <2>3. Same(n, heap.fixed, n.to[1]) /\ n.to[2] = Imm
    BY <1>5, <2>1, <2>2
  <2>4. \A o \in Copied(n) : CopyOK(n, o, TRUE)
    BY <1>3, <1>6, <1>7
  <2>5. QED
    BY <1>2, <2>1, <2>3, <2>4 DEF Faithful
<1>9. Clean(n, Len(n.to) + 1)
  <2>1. ASSUME NEW a \in 1 .. Len(m.to), IsOld(n.to[a])
        PROVE  \E f \in Waiting(n) : a \in {Key(f), Datum(f)}
    <3>1. ~(a \in {e, e + 1, e + 2, e + 3, e + 4})
      <4>1. ~IsOld(False) /\ ~IsOld(Manifest) /\ ~IsOld(key)
        BY <1>1 DEF IsOld, False, Manifest, Forwarded
      <4>2. ~IsOld(d)
        <5>1. CASE m.heart[KeyOf(m, e)] # 0
          BY <1>1, <5>1 DEF KeyLives
        <5>2. CASE m.heart[KeyOf(m, e)] = 0
          BY <1>1, <4>1, <5>2
        <5>3. QED
          BY <5>1, <5>2
      <4>3. QED
        BY <1>1, <2>1, <4>1, <4>2 DEF Settled
    <3>2. a < e \/ a >= e + 5
      BY <1>4, <3>1
    <3>3. IsOld(m.to[a])
      BY <1>2, <2>1, <3>2
    <3>4. ~(a >= Len(m.to) + 1)
      BY <1>4
    <3>5. PICK f \in Waiting(m) : a \in {Key(f), Datum(f)}
      BY <3>3, <3>4 DEF Clean
    <3>6. f # e
      BY <1>4, <3>2, <3>5 DEF Key, Datum
    <3>7. QED
      BY <1>3, <3>5, <3>6
  <2>2. QED
    BY <1>2, <2>1 DEF Clean
<1>10. Listed(n, After(m, ListWord, e))
  <2>1. Waiting(m) \subseteq Nat
    BY WaitingFacts
  <2>2. Address \in [Nat -> Nat] /\ Injective(Waiting(m), Address)
    BY <2>1 DEF Address, Injective
  <2>3. Descends(m, ListWord, e, Waiting(m), Address)
    BY DEF Listed
  <2>4. Descends(m, ListWord, After(m, ListWord, e), Waiting(m) \ {e}, Address)
    BY <2>1, <2>2, <2>3, DescendsPop
  <2>5. Descends(n, ListWord, After(m, ListWord, e), Waiting(m) \ {e}, Address)
    BY <1>3, <2>4, DescendsSame
  <2>6. QED
    BY <1>3, <2>5 DEF Listed
<1>11. \A f \in Waiting(n) : IsOld(n.to[Datum(f)]) => ~KeyLives(n, f, 0)
  BY <1>3
<1>12. QED
  BY <1>2, <1>3, <1>8, <1>9, <1>10, <1>11

\* Only tospace, the broken hearts and the chain matter.
LEMMA FaithfulSame ==
  ASSUME NEW m, NEW n, n.to = m.to, n.heart = m.heart, n.chain = m.chain, NEW over,
         Faithful(m, over)
  PROVE  Faithful(n, over)
<1>1. \A w, v : Same(n, w, v) <=> Same(m, w, v)
  BY DEF Same, Forwarded
<1>2. \A o, i : Now(n, o, i) = Now(m, o, i)
  BY DEF Now
<1>3. \A o : Whole(n, o) <=> Whole(m, o)
  BY <1>1, <1>2 DEF Whole
<1>4. \A o : WeakCopy(m, o, over) => WeakCopy(n, o, over)
  BY <1>1, <1>2 DEF WeakCopy, Chained, Forwarded
<1>5. \A o : EphemeronCopy(m, o, over) => EphemeronCopy(n, o, over)
  <2>1. \A o : (Hidden(m, o) => Hidden(n, o)) /\ (Cleared(m, o) => Cleared(n, o))
    BY <1>1, <1>2 DEF Hidden, Cleared
  <2>2. QED
    BY <1>3, <2>1 DEF EphemeronCopy, Opened
<1>6. \A o : CopyOK(m, o, over) => CopyOK(n, o, over)
  BY <1>3, <1>4, <1>5 DEF CopyOK
<1>7. QED
  BY <1>1, <1>6 DEF Faithful, Copied

\* update_ephemerons: one ephemeron of the list after the other.
LEMMA UpdateEphemeronsGraph ==
  ASSUME HeapAssumption, DistinctKeys(heap), CopyInv, GraphInv, update_ephemerons
  PROVE  GraphInv'
<1>1. pc = "ephemerons" /\ heap' = heap /\ stack' = stack /\ heap \in Heaps /\ MemoryOK(mem)
      /\ StackOK /\ ~Early /\ Scanned = Len(mem.to) + 1 /\ Len(mem.to) \in Nat
  BY LengthType DEF update_ephemerons, CopyInv, StepOK, Early, Scanned
<1>2. /\ ~mem.hung /\ Copied(mem) \subseteq Live /\ StackDone
      /\ Faithful(mem, TRUE) /\ Clean(mem, Len(mem.to) + 1) /\ Listed(mem, cur)
      /\ \A e \in Waiting(mem) : IsOld(mem.to[Datum(e)]) => ~KeyLives(mem, e, 0)
  BY <1>1 DEF GraphInv
<1>3. \A i \in 1 .. Len(stack) : ~IsOld(stack[i])
  BY <1>1, <1>2 DEF StackDone
<1>4. Waiting(mem) \subseteq Nat \ {0}
  BY <1>1, WaitingFacts
<1>5. IF Waiting(mem) = {} THEN cur = 0 ELSE cur \in Waiting(mem)
  BY <1>2 DEF Listed, Descends, Greatest
<1>6. CASE cur # 0
  <2>1. PICK e \in Waiting(mem) : e = cur
    BY <1>5, <1>6
  <2>2. PICK key : key = ReferentForward(mem.to[Key(e)], False)
    OBVIOUS
  <2>3. PICK d : d = IF key = False THEN False ELSE mem.to[Datum(e)]
    OBVIOUS
  <2>4. /\ mem' = [mem EXCEPT !.to[e] = Manifest, !.to[Key(e)] = key, !.to[Datum(e)] = d,
                              !.to[ListLink(e)] = False, !.to[NextLink(e)] = False]
        /\ cur' = Link(mem.to[ListLink(e)]) /\ pc' = pc
    BY <1>6, <2>1, <2>2, <2>3 DEF update_ephemerons
  <2>5. Settles(mem, mem', e)
    <3>1. EphemeronAt(mem, e)
      BY DEF Waiting
    <3>2. Settled(mem, mem', e, key, d)
      BY <1>1, <2>4, <3>1, SettleStep
    <3>3. key = IF mem.heart[KeyOf(mem, e)] # 0 THEN Forwarded(mem, mem.to[Key(e)]) ELSE False
      BY <2>2 DEF ReferentForward, KeyOf
    <3>4. Forwarded(mem, mem.to[Key(e)]) # False
      BY DEF Forwarded, False
    <3>5. d = IF mem.heart[KeyOf(mem, e)] # 0 THEN mem.to[Datum(e)] ELSE False
      BY <2>3, <3>3, <3>4
    <3>6. QED
      BY <3>2, <3>3, <3>5 DEF Settles
  <2>6. cur' = After(mem, ListWord, e)
    BY <2>4 DEF After, ListWord, ListLink
  <2>7. /\ Faithful(mem', TRUE) /\ Clean(mem', Len(mem'.to) + 1)
        /\ Copied(mem') = Copied(mem) /\ mem'.hung = mem.hung /\ mem'.heart = mem.heart
        /\ Listed(mem', After(mem, ListWord, e))
        /\ \A f \in Waiting(mem') : IsOld(mem'.to[Datum(f)]) => ~KeyLives(mem', f, 0)
    BY <1>1, <1>2, <2>1, <2>5, SettleGraph
  <2>8. StackDone'
    BY <1>1, <1>2, <1>3, <2>7, StackKept
  <2>9. pc' = "ephemerons" /\ ~Early' /\ Scanned' = Len(mem'.to) + 1
    BY <1>1, <2>4 DEF Early, Scanned
  <2>10. Faithful(mem', ~Early') /\ Clean(mem', Scanned') /\ Listed(mem', cur')
    BY <2>6, <2>7, <2>9
  <2>11. ~mem'.hung /\ Copied(mem') \subseteq Live
    BY <1>2, <2>7
  <2>12. QED
    BY <1>1, <2>7, <2>8, <2>9, <2>10, <2>11, GraphPrime
<1>7. CASE cur = 0
  <2>1. mem' = [mem EXCEPT !.list = 0] /\ pc' = "weak"
    BY <1>7 DEF update_ephemerons
  <2>2. /\ mem'.to = mem.to /\ mem'.heart = mem.heart /\ mem'.chain = mem.chain
        /\ mem'.hung = mem.hung
    BY <1>1, <2>1 DEF MemoryOK, ShapeOK, Record
  <2>3. Waiting(mem) = {}
    BY <1>4, <1>5, <1>7
  <2>4. Waiting(mem') = {} /\ Copied(mem') = Copied(mem)
    BY <2>2, <2>3 DEF Waiting, Copied, EphemeronAt, Waits
  <2>5. Faithful(mem', TRUE)
    BY <1>2, <2>2, FaithfulSame
  <2>6. Clean(mem', Len(mem'.to) + 1)
    BY <1>2, <2>2, <2>3, <2>4 DEF Clean
  <2>7. StackDone'
    BY <1>1, <1>2, <1>3, <2>2, StackKept
  <2>8. ~Early' /\ Scanned' = Len(mem'.to) + 1 /\ pc' # "ephemerons" /\ pc' # "done"
    BY <2>1 DEF Early, Scanned
  <2>9. Faithful(mem', ~Early') /\ Clean(mem', Scanned')
    BY <2>5, <2>6, <2>8
  <2>10. ~mem'.hung /\ Copied(mem') \subseteq Live
    BY <1>2, <2>2, <2>4
  <2>11. QED
    BY <1>1, <2>4, <2>7, <2>8, <2>9, <2>10, GraphPrime
<1>8. QED
  BY <1>6, <1>7

\* The car of the first weak pair of the chain is settled.
PairSettled(m, n, o) ==
  /\ m.chain # <<>> /\ o = m.chain[1] /\ n.heart = m.heart /\ n.hung = m.hung
  /\ Len(n.to) = Len(m.to)
  /\ \A i \in 1 .. Len(m.to) :
       n.to[i] = IF i # m.heart[o] THEN m.to[i]
                 ELSE IF m.heart[Fields(o)[1][2]] # 0 THEN Forwarded(m, Fields(o)[1])
                 ELSE Reclaimed
  /\ Len(n.chain) = Len(m.chain) - 1
  /\ \A i \in 1 .. Len(n.chain) : n.chain[i] = m.chain[i + 1]

\* A weak pair settled: its car is forwarded or, with its object lost, reclaimed.
LEMMA WeakSettled ==
  ASSUME heap \in Heaps, HeapAssumption, NEW m, MemoryOK(m), Faithful(m, TRUE),
         Waiting(m) = {}, Clean(m, Len(m.to) + 1), NEW o \in Copied(m), Kind(o) = "weak",
         NEW n, PairSettled(m, n, o)
  PROVE  /\ Faithful(n, TRUE) /\ Waiting(n) = {} /\ Clean(n, Len(n.to) + 1)
         /\ Copied(n) = Copied(m)
<1> PICK v : v = IF m.heart[Fields(o)[1][2]] # 0 THEN Forwarded(m, Fields(o)[1]) ELSE Reclaimed
  OBVIOUS
<1>0. /\ m.chain # <<>> /\ o = m.chain[1] /\ n.heart = m.heart /\ n.hung = m.hung
      /\ Len(n.to) = Len(m.to)
      /\ \A i \in 1 .. Len(m.to) : n.to[i] = IF i = m.heart[o] THEN v ELSE m.to[i]
      /\ Len(n.chain) = Len(m.chain) - 1
      /\ \A i \in 1 .. Len(n.chain) : n.chain[i] = m.chain[i + 1]
  BY DEF PairSettled
<1> USE <1>0
<1>1. Copied(n) = Copied(m) /\ \A e : EphemeronAt(n, e) <=> EphemeronAt(m, e)
  BY DEF Copied, EphemeronAt
<1>2. PICK a : a = m.heart[o]
  OBVIOUS
<1>3. \A i \in 1 .. Len(m.to) : n.to[i] = IF i = a THEN v ELSE m.to[i]
  BY <1>2
<1>4. o \in Objs /\ Size(o) = 2 /\ a \in Nat /\ a >= 3 /\ a + 2 <= Len(m.to) + 1
      /\ Len(m.to) \in Nat
  <2>1. o \in Objs /\ Size(o) = 2
    BY WordsFacts DEF Copied
  <2>2. QED
    BY <1>2, <2>1, LengthType DEF MemoryOK, CopiesOK
<1>5. v[1] \in {"new", "reclaimed"}
  BY DEF Forwarded, Reclaimed
<1>6. ~IsOld(v) /\ v[1] # "nmv"
  BY <1>5 DEF IsOld
<1>7. \A w, x : Same(m, w, x) => Same(n, w, x)
  BY DEF Same, Forwarded
<1>8. Len(m.chain) \in Nat \ {0} /\ Len(n.chain) \in Nat
  <2>1. m.chain \in Seq(Objs)
    BY DEF MemoryOK, WeakOK
  <2>2. Len(m.chain) \in Nat /\ Len(m.chain) # 0
    BY <2>1, EmptySeq
  <2>3. QED
    BY <2>2
<1>9. \A i, j \in 1 .. Len(m.chain) : m.chain[i] = m.chain[j] => i = j
  BY DEF Faithful
<1>10. ASSUME NEW p PROVE Chained(n, p) <=> Chained(m, p) /\ p # o
  <2>1. ASSUME Chained(n, p) PROVE Chained(m, p) /\ p # o
    <3>1. PICK i \in 1 .. Len(n.chain) : n.chain[i] = p
      BY <2>1 DEF Chained
    <3>2. i + 1 \in 1 .. Len(m.chain) /\ 1 \in 1 .. Len(m.chain) /\ i + 1 # 1
      BY <1>8, <3>1
    <3>3. m.chain[i + 1] = p
      BY <3>1
    <3>4. p # o
      BY <1>9, <3>2, <3>3
    <3>5. QED
      BY <3>2, <3>3, <3>4 DEF Chained
  <2>2. ASSUME Chained(m, p), p # o PROVE Chained(n, p)
    <3>1. PICK i \in 1 .. Len(m.chain) : m.chain[i] = p
      BY <2>2 DEF Chained
    <3>2. i # 1
      BY <2>2, <3>1
    <3>3. i - 1 \in 1 .. Len(n.chain) /\ (i - 1) + 1 = i
      BY <1>8, <3>1, <3>2
    <3>4. n.chain[i - 1] = p
      BY <3>1, <3>3
    <3>5. QED
      BY <3>3, <3>4 DEF Chained
  <2>3. QED
    BY <2>1, <2>2
<1>11. ASSUME NEW p \in Copied(m), NEW i \in 1 .. Size(p), p # o \/ i # 1
       PROVE  Now(n, p, i) = Now(m, p, i)
  <2>1. p \in Objs /\ Size(p) \in Nat /\ m.heart[p] \in Nat
    BY WordsFacts, LengthType DEF Copied
  <2>2. m.heart[p] >= 3 /\ m.heart[p] + Size(p) <= Len(m.to) + 1
        /\ (p = o \/ m.heart[p] + Size(p) <= a \/ a + 2 <= m.heart[p])
    BY <1>2, <1>4 DEF MemoryOK, CopiesOK
  <2>3. PICK h \in Nat : h = m.heart[p]
    BY <2>1
  <2>4. PICK s \in Nat : s = Size(p)
    BY <2>1
  <2>5. PICK j : j = h + i - 1
    OBVIOUS
  <2>6. i \in 1 .. s /\ h >= 3 /\ h + s <= Len(m.to) + 1 /\ (p = o \/ h + s <= a \/ a + 2 <= h)
    BY <2>2, <2>3, <2>4
  <2>7. j \in 1 .. Len(m.to)
    BY <1>4, <2>5, <2>6
  <2>8. j # a
    <3>1. CASE p = o
      <4>1. h = a /\ i # 1
        BY <1>2, <1>11, <2>3, <3>1
      <4>2. QED
        BY <2>5, <2>6, <4>1
    <3>2. CASE p # o
      BY <1>4, <2>5, <2>6, <3>2
    <3>3. QED
      BY <3>1, <3>2
  <2>9. n.to[j] = m.to[j]
    BY <1>3, <2>7, <2>8
  <2>10. QED
    BY <2>3, <2>5, <2>9 DEF Now
<1>12. ASSUME NEW p \in Copied(m) PROVE CopyOK(n, p, TRUE)
  <2>1. CopyOK(m, p, TRUE) /\ p \in Objs
    BY DEF Faithful, Copied
  <2>2. ASSUME Kind(p) \in {"pair", "vector"} PROVE Whole(n, p)
    <3>1. Whole(m, p) /\ p # o
      BY <2>1, <2>2 DEF CopyOK
    <3>2. QED
      BY <1>7, <1>11, <3>1 DEF Whole
  <2>3. ASSUME Kind(p) = "weak" PROVE WeakCopy(n, p, TRUE)
    <3>1. Size(p) = 2
      BY <2>1, <2>3, WordsFacts
    <3>2. WeakCopy(m, p, TRUE)
      BY <2>1, <2>3 DEF CopyOK
    <3>3. Now(n, p, 2) = Now(m, p, 2)
      BY <1>11, <3>1
    <3>4. CASE p # o
      <4>1. Now(n, p, 1) = Now(m, p, 1)
        BY <1>11, <3>1, <3>4
      <4>2. Chained(n, p) <=> Chained(m, p)
        BY <1>10, <3>4
      <4>3. QED
        BY <1>7, <3>2, <3>3, <4>1, <4>2 DEF WeakCopy, Forwarded
    <3>5. CASE p = o
      <4>1. Now(n, o, 1) = v
        <5>1. a + 1 - 1 = a /\ a \in 1 .. Len(m.to)
          BY <1>4
        <5>2. n.to[a] = v
          BY <1>3, <5>1
        <5>3. QED
          BY <1>2, <5>1, <5>2 DEF Now
      <4>2. ~Chained(n, o)
        BY <1>10
      <4>3. v = IF n.heart[Fields(o)[1][2]] # 0 THEN Forwarded(n, Fields(o)[1]) ELSE Reclaimed
        BY DEF Forwarded
      <4>4. IsOld(Fields(o)[1])
        <5>1. 1 \in 1 .. Len(m.chain)
          BY <1>8
        <5>2. QED
          BY <5>1 DEF Faithful
      <4>5. Same(n, Fields(o)[2], Now(n, o, 2))
        BY <1>7, <3>2, <3>3, <3>5 DEF WeakCopy
      <4>6. WeakCopy(n, o, TRUE)
        BY <4>1, <4>2, <4>3, <4>4, <4>5 DEF WeakCopy
      <4>7. QED
        BY <3>5, <4>6
    <3>6. QED
      BY <3>4, <3>5
  <2>4. ASSUME Kind(p) = "ephemeron" PROVE EphemeronCopy(n, p, TRUE)
    <3>1. Size(p) = 5 /\ p # o
      BY <2>1, <2>4, WordsFacts DEF EphemeronSize
    <3>2. \A i \in 1 .. Size(p) : Now(n, p, i) = Now(m, p, i)
      BY <1>11, <3>1
    <3>3. /\ Now(n, p, 1) = Now(m, p, 1) /\ Now(n, p, 2) = Now(m, p, 2)
          /\ Now(n, p, 3) = Now(m, p, 3)
          /\ \A i \in 2 .. 5 : Now(n, p, i) = Now(m, p, i)
      BY <3>1, <3>2
    <3>4. EphemeronCopy(m, p, TRUE)
      BY <2>1, <2>4 DEF CopyOK
    <3>5. Hidden(m, p) => Hidden(n, p)
      BY <1>7, <3>3 DEF Hidden
    <3>6. Cleared(m, p) => Cleared(n, p)
      BY <3>3 DEF Cleared
    <3>7. Opened(m, p) => Opened(n, p)
      BY DEF Opened
    <3>8. Whole(m, p) => Whole(n, p)
      BY <1>7, <3>2 DEF Whole
    <3>9. QED
      BY <3>4, <3>5, <3>6, <3>7, <3>8 DEF EphemeronCopy
  <2>5. QED
    BY <2>2, <2>3, <2>4 DEF CopyOK
<1>13. Waiting(n) = {}
  <2>1. ASSUME NEW e \in 1 .. Len(n.to), EphemeronAt(n, e), Waits(n, e) PROVE FALSE
    <3>1. n.to[e] = IF e = a THEN v ELSE m.to[e]
      BY <1>3, <2>1
    <3>2. Waits(m, e)
      BY <1>6, <2>1, <3>1 DEF Waits
    <3>3. QED
      BY <1>1, <2>1, <3>2 DEF Waiting
  <2>2. QED
    BY <2>1 DEF Waiting
<1>14. Clean(n, Len(n.to) + 1)
  <2>1. ASSUME NEW i \in 1 .. Len(m.to), IsOld(n.to[i]) PROVE FALSE
    <3>1. IsOld(m.to[i])
      BY <1>3, <1>6, <2>1
    <3>2. ~(i >= Len(m.to) + 1)
      BY <1>4
    <3>3. QED
      BY <3>1, <3>2 DEF Clean
  <2>2. QED
    BY <2>1 DEF Clean
<1>15. Faithful(n, TRUE)
  <2>1. Same(m, heap.fixed, m.to[1]) /\ m.to[2] = Imm
        /\ \A i \in 1 .. Len(m.chain) : IsOld(Fields(m.chain[i])[1])
    BY DEF Faithful
  <2>2. n.to[1] = m.to[1] /\ n.to[2] = m.to[2]
    <3>1. 1 \in 1 .. Len(m.to) /\ 2 \in 1 .. Len(m.to) /\ a # 1 /\ a # 2
      BY <1>4
    <3>2. QED
      BY <1>3, <3>1
  <2>3. Same(n, heap.fixed, n.to[1]) /\ n.to[2] = Imm
    BY <1>7, <2>1, <2>2
  <2>4. \A i \in 1 .. Len(n.chain) : i + 1 \in 1 .. Len(m.chain)
    BY <1>8
  <2>5. \A i \in 1 .. Len(n.chain) : IsOld(Fields(n.chain[i])[1])
    BY <2>1, <2>4
  <2>6. ASSUME NEW i \in 1 .. Len(n.chain), NEW j \in 1 .. Len(n.chain),
               n.chain[i] = n.chain[j]
        PROVE  i = j
    <3>1. i + 1 = j + 1
      BY <1>9, <2>4, <2>6
    <3>2. QED
      BY <3>1
  <2>7. \A p \in Copied(n) : CopyOK(n, p, TRUE)
    BY <1>1, <1>12
  <2>8. QED
    BY <2>3, <2>5, <2>6, <2>7 DEF Faithful
<1>16. QED
  BY <1>1, <1>13, <1>14, <1>15

\* update_weak_pairs: one pair of the chain after the other.
LEMMA UpdateWeakPairsGraph ==
  ASSUME HeapAssumption, DistinctKeys(heap), CopyInv, GraphInv, update_weak_pairs
  PROVE  GraphInv'
<1>1. pc = "weak" /\ heap' = heap /\ stack' = stack /\ heap \in Heaps /\ MemoryOK(mem)
      /\ StackOK /\ ~Early /\ Scanned = Len(mem.to) + 1 /\ Len(mem.to) \in Nat
  BY LengthType DEF update_weak_pairs, CopyInv, StepOK, Early, Scanned
<1>2. /\ ~mem.hung /\ Copied(mem) \subseteq Live /\ StackDone
      /\ Faithful(mem, TRUE) /\ Clean(mem, Len(mem.to) + 1) /\ Waiting(mem) = {}
  BY <1>1 DEF GraphInv
<1>3. \A i \in 1 .. Len(stack) : ~IsOld(stack[i])
  BY <1>1, <1>2 DEF StackDone
<1>4. CASE mem.chain # <<>>
  <2>1. PICK o : o = Head(mem.chain)
    OBVIOUS
  <2>2. PICK a : a = mem.heart[o]
    OBVIOUS
  <2>3. PICK v : v = ReferentForward(mem.to[a], Reclaimed)
    OBVIOUS
  <2>4. PICK c : c = Tail(mem.chain)
    OBVIOUS
  <2>5. mem' = [mem EXCEPT !.to[a] = v, !.chain = c] /\ pc' = pc
    BY <1>4, <2>1, <2>2, <2>3, <2>4 DEF update_weak_pairs
  <2>6. /\ mem.chain \in Seq(Objs) /\ Len(mem.chain) \in Nat \ {0} /\ o = mem.chain[1]
        /\ c \in Seq(Objs) /\ Len(c) = Len(mem.chain) - 1
        /\ \A i \in 1 .. Len(c) : c[i] = mem.chain[i + 1]
    BY <1>1, <1>4, <2>1, <2>4, EmptySeq, HeadTailProperties DEF MemoryOK, WeakOK
  <2>7. 1 \in 1 .. Len(mem.chain)
    BY <2>6
  <2>8. o \in Copied(mem) /\ o \in Objs /\ Kind(o) = "weak" /\ a # 0
    <3>1. o \in Objs
      BY <2>6, <2>7, ElementOfSeq
    <3>2. QED
      BY <1>1, <2>2, <2>6, <2>7, <3>1 DEF MemoryOK, WeakOK, Copied
  <2>9. PICK u : u = [mem EXCEPT !.to[a] = v]
    OBVIOUS
  <2>10. PutAt(mem, u, a, v) /\ u.hung = mem.hung
    BY <1>1, <2>9, PutStep DEF MemoryOK, ShapeOK, Record
  <2>11. mem' = [u EXCEPT !.chain = c]
    BY <2>5, <2>9
  <2>12. mem'.to = u.to /\ mem'.heart = u.heart /\ mem'.hung = u.hung /\ mem'.chain = c
    BY <2>10, <2>11 DEF PutAt, Record
  <2>13. /\ Len(mem'.to) = Len(mem.to) /\ mem'.heart = mem.heart /\ mem'.hung = mem.hung
         /\ \A i \in 1 .. Len(mem.to) : mem'.to[i] = IF i = mem.heart[o] THEN v ELSE mem.to[i]
    BY <2>2, <2>10, <2>12 DEF PutAt
  <2>14. v = IF mem.heart[Fields(o)[1][2]] # 0 THEN Forwarded(mem, Fields(o)[1]) ELSE Reclaimed
    <3>1. IsOld(Fields(o)[1])
      BY <1>2, <2>6, <2>7 DEF Faithful
    <3>2. Chained(mem, o)
      BY <2>6, <2>7 DEF Chained
    <3>3. WeakCopy(mem, o, TRUE)
      BY <1>2, <2>8 DEF Faithful, CopyOK
    <3>4. Now(mem, o, 1) = WeakCar(Fields(o)[1])
      BY <3>1, <3>2, <3>3 DEF WeakCopy
    <3>5. a \in Nat /\ a + 1 - 1 = a
      BY <1>1, <2>2, <2>8, LengthType
    <3>6. mem.to[a] = WeakCar(Fields(o)[1])
      BY <2>2, <3>4, <3>5 DEF Now
    <3>7. PICK car : car = Fields(o)[1]
      OBVIOUS
    <3>8. mem.to[a][2] = car[2] /\ mem.to[a][3] = car[3]
      BY <3>6, <3>7 DEF WeakCar
    <3>9. QED
      BY <2>3, <3>7, <3>8 DEF ReferentForward, Forwarded
  <2>15. /\ Faithful(mem', TRUE) /\ Waiting(mem') = {} /\ Clean(mem', Len(mem'.to) + 1)
         /\ Copied(mem') = Copied(mem)
    <3>1. Len(mem'.chain) = Len(mem.chain) - 1
      BY <2>6, <2>12
    <3>2. \A i \in 1 .. Len(mem'.chain) : mem'.chain[i] = mem.chain[i + 1]
      BY <2>6, <2>12
    <3>3. PairSettled(mem, mem', o)
      BY <1>4, <2>6, <2>13, <2>14, <3>1, <3>2 DEF PairSettled
    <3>4. QED
      BY <1>1, <1>2, <2>8, <3>3, WeakSettled
  <2>16. StackDone'
    BY <1>1, <1>2, <1>3, <2>13, StackKept
  <2>17. pc' = "weak" /\ ~Early' /\ Scanned' = Len(mem'.to) + 1
    BY <1>1, <2>5 DEF Early, Scanned
  <2>18. Faithful(mem', ~Early') /\ Clean(mem', Scanned')
    BY <2>15, <2>17
  <2>19. ~mem'.hung /\ Copied(mem') \subseteq Live
    BY <1>2, <2>13, <2>15
  <2>20. QED
    BY <1>1, <2>15, <2>16, <2>17, <2>18, <2>19, GraphPrime
<1>5. CASE mem.chain = <<>>
  <2>1. mem' = mem /\ pc' = "done"
    BY <1>5 DEF update_weak_pairs
  <2>2. StackDone'
    BY <1>1, <1>2, <1>3, <2>1, StackKept
  <2>3. ~Early' /\ Scanned' = Len(mem'.to) + 1
    BY <2>1 DEF Early, Scanned
  <2>4. Faithful(mem', ~Early') /\ Clean(mem', Scanned')
    BY <1>2, <2>1, <2>3
  <2>5. ~mem'.hung /\ Copied(mem') \subseteq Live /\ Waiting(mem') = {} /\ mem'.chain = <<>>
    BY <1>2, <1>5, <2>1
  <2>6. QED
    BY <1>1, <2>1, <2>2, <2>3, <2>4, <2>5, GraphPrime
<1>6. QED
  BY <1>4, <1>5

-----------------------------------------------------------------------------
\* Nothing is copied yet: the chains are empty and the stack is the heap's.
LEMMA InitGraph ==
  ASSUME HeapAssumption, Init
  PROVE  GraphInv
<1>1. heap \in Heaps /\ stack = heap.stack /\ pc = "stack" /\ scan = 1 /\ cur = 0
  BY DEF Init
<1>2. /\ mem.to = <<heap.fixed, Imm>> /\ mem.heart = [o \in Objs |-> 0] /\ ~mem.hung
      /\ mem.chain = <<>> /\ mem.list = 0 /\ mem.queue = 0
      /\ mem.bucket = [b \in 0 .. Buckets - 1 |-> 0]
  BY DEF Init
<1>3. Copied(mem) = {} /\ Len(mem.chain) = 0 /\ mem.to[1] = heap.fixed /\ mem.to[2] = Imm
      /\ Len(mem.to) = 2
  BY <1>2 DEF Copied
<1>4. Waiting(mem) = {}
  BY <1>3 DEF Waiting, EphemeronAt
<1>5. ASSUME NEW k PROVE Descends(mem, k, 0, {}, Address)
  BY DEF Descends, Greatest
<1>6. Early /\ Faithful(mem, ~Early)
  <2>1. Early
    BY <1>1 DEF Early
  <2>2. Same(mem, heap.fixed, mem.to[1])
    BY <1>3 DEF Same
  <2>3. ~ \E i : i \in 1 .. Len(mem.chain)
    BY <1>3
  <2>4. QED
    BY <1>3, <2>1, <2>2, <2>3 DEF Faithful
<1>7. StackDone
  <2>1. Len(stack) \in Nat
    BY <1>1, HeapFacts
  <2>2. QED
    BY <1>1, <2>1 DEF StackDone, Same
<1>8. Clean(mem, Scanned)
  BY <1>1 DEF Clean, Scanned
<1>9. Listed(mem, mem.list)
  BY <1>2, <1>4, <1>5 DEF Listed
<1>10. Kept(mem, Unsorted, 0, 0)
  <2>1. Address \in [Nat -> Nat]
    BY DEF Address
  <2>2. \A b \in 0 .. Buckets - 1 : InBucket(mem, {}, b) = {} /\ mem.bucket[b] = 0
    BY <1>2 DEF InBucket
  <2>3. Chains(mem, {}, {}, Address)
    BY <1>2, <1>5, <2>1, <2>2 DEF Chains
  <2>4. Sorted(mem, {}, {}, Unsorted, 0, 0)
    BY <1>4 DEF Sorted
  <2>5. QED
    BY <2>3, <2>4 DEF Kept
<1>11. QED
  BY <1>1, <1>2, <1>3, <1>6, <1>7, <1>8, <1>9, <1>10 DEF GraphInv

\* Nothing changes.
LEMMA GraphStutter ==
  ASSUME GraphInv, UNCHANGED vars
  PROVE  GraphInv'
<1>1. /\ heap' = heap /\ mem' = mem /\ pc' = pc /\ scan' = scan /\ cur' = cur
      /\ stack' = stack
  BY DEF vars
<1>2. StackDone'
  BY <1>1 DEF GraphInv, StackDone, Same, IsOld, Forwarded
<1>3. (Early' <=> Early) /\ Scanned' = Scanned /\ Unsorted' = Unsorted
  BY <1>1 DEF Early, Scanned, Unsorted
<1>4. Faithful(mem', ~Early') /\ Clean(mem', Scanned')
  <2>1. ~Early' = ~Early
    BY <1>3 DEF Early
  <2>2. Faithful(mem, ~Early) /\ Clean(mem, Scanned)
    BY DEF GraphInv
  <2>3. QED
    BY <1>1, <1>3, <2>1, <2>2
<1>5. Early' => Listed(mem', mem'.list) /\ Kept(mem', Unsorted', 0, 0)
  BY <1>1, <1>3 DEF GraphInv
<1>6. QED
  BY <1>1, <1>2, <1>4, <1>5, GraphPrime DEF GraphInv

\* Every step keeps GraphInv.
LEMMA NextGraph ==
  ASSUME HeapAssumption, DistinctKeys(heap), CopyInv, GraphInv, [Next]_vars
  PROVE  GraphInv'
<1>1. CASE ScanStack
  BY <1>1, ScanStackGraph
<1>2. CASE ScanTospace
  BY <1>2, ScanTospaceGraph
<1>3. CASE ScanList
  BY <1>3, ScanListGraph
<1>4. CASE ScanQueue
  BY <1>4, ScanQueueGraph
<1>5. CASE Rescan
  BY <1>5, RescanGraph
<1>6. CASE update_ephemerons
  BY <1>6, UpdateEphemeronsGraph
<1>7. CASE update_weak_pairs
  BY <1>7, UpdateWeakPairsGraph
<1>8. CASE UNCHANGED vars
  BY <1>8, GraphStutter
<1>9. QED
  BY <1>1, <1>2, <1>3, <1>4, <1>5, <1>6, <1>7, <1>8 DEF Next, Finished

\* What the collection started from is not changed.
LEMMA HeapStays ==
  ASSUME [Next]_vars
  PROVE  heap' = heap
BY DEF Next, ScanStack, ScanTospace, ScanList, ScanQueue, Rescan, update_ephemerons,
       update_weak_pairs, Finished, vars

\* While the keys of the ephemerons are distinct.
GraphOK == CopyInv /\ GraphInv /\ DistinctKeys(heap)
\* GraphInv is an invariant for the heaps whose ephemerons have distinct keys.
LEMMA GraphInvariant == Spec /\ DistinctKeys(heap) => []GraphOK
<1>1. ASSUME GraphOK, [Next]_vars PROVE GraphOK'
  <2>1. CopyInv'
    BY <1>1, HeapAssumption, NextCorrect DEF GraphOK
  <2>2. GraphInv'
    BY <1>1, HeapAssumption, NextGraph DEF GraphOK
  <2>3. DistinctKeys(heap)'
    BY <1>1, HeapStays DEF GraphOK, DistinctKeys, IsOld
  <2>4. QED
    BY <2>1, <2>2, <2>3 DEF GraphOK
<1>2. Init /\ DistinctKeys(heap) => GraphOK
  BY HeapAssumption, InitCorrect, InitGraph DEF GraphOK
<1>3. QED
  BY <1>1, <1>2, PTL DEF Spec

\* What is reached from the queue and from the buckets.
LEMMA ReachesQueue ==
  ASSUME heap \in Heaps, HeapAssumption, MemoryOK(mem), NEW H, NEW Q, NEW r,
         Chains(mem, H, Q, r)
  PROVE  /\ Reaches(mem.queue) = Q
         /\ \A b \in 0 .. Buckets - 1 : Reaches(mem.bucket[b]) = InBucket(mem, H, b)
<1>1. Waiting(mem) \subseteq Nat \ {0}
  BY WaitingFacts
<1>2. IsFiniteSet(Waiting(mem)) /\ Cardinality(Waiting(mem)) <= Cardinality(Objs)
  BY WaitingFinite
<1>3. Cardinality(Objs) \in Nat /\ Cardinality(Waiting(mem)) \in Nat
  BY <1>2, HeapFacts, FS_CardinalityType
<1>4. ASSUME NEW S, S \subseteq Waiting(mem)
      PROVE  S \subseteq Nat \ {0} /\ IsFiniteSet(S) /\ Cardinality(S) <= Cardinality(Objs)
  <2>1. IsFiniteSet(S) /\ Cardinality(S) <= Cardinality(Waiting(mem))
    BY <1>2, <1>4, FS_Subset
  <2>2. Cardinality(S) \in Nat
    BY <2>1, FS_CardinalityType
  <2>3. QED
    BY <1>1, <1>2, <1>3, <1>4, <2>1, <2>2
<1>5. H \subseteq Waiting(mem) /\ Q \subseteq Waiting(mem) /\ r \in [Nat -> Nat]
      /\ Injective(Q, r) /\ Descends(mem, NextWord, mem.queue, Q, r)
  BY DEF Chains, Injective
<1>6. Reaches(mem.queue) = Q
  <2>1. PICK a : a = mem.queue
    OBVIOUS
  <2>2. Reaches(a) = Q
    BY <1>4, <1>5, <2>1, ReachesChain
  <2>3. QED
    BY <2>1, <2>2
<1>7. ASSUME NEW b \in 0 .. Buckets - 1
      PROVE  Reaches(mem.bucket[b]) = InBucket(mem, H, b)
  <2>1. PICK a : a = mem.bucket[b]
    OBVIOUS
  <2>2. PICK S : S = InBucket(mem, H, b)
    OBVIOUS
  <2>3. S \subseteq Waiting(mem)
    BY <1>5, <2>2 DEF InBucket
  <2>4. Address \in [Nat -> Nat] /\ Injective(S, Address)
    BY <1>1, <2>3 DEF Address, Injective
  <2>5. Descends(mem, NextWord, a, S, Address)
    BY <2>1, <2>2 DEF Chains
  <2>6. Reaches(a) = S
    BY <1>4, <2>3, <2>4, <2>5, ReachesChain
  <2>7. QED
    BY <2>1, <2>2, <2>6
<1>8. QED
  BY <1>6, <1>7

\* While datums are scanned no ephemeron that waits for its key is forgotten, whatever the
\* heap as long as no two ephemerons have the same key (gcloop.c:
\* queue_ephemerons_for_key, scan_ephemerons).
THEOREM EphemeronsAreKept == Spec /\ DistinctKeys(heap) => []EphemeronsKept
<1>1. GraphOK => EphemeronsKept
  <2> SUFFICES ASSUME GraphOK, pc \in {"queue", "rescan"} PROVE EphemeronsKept
    BY DEF EphemeronsKept
  <2>1. heap \in Heaps /\ MemoryOK(mem) /\ HeapAssumption /\ GraphInv
    BY HeapAssumption DEF GraphOK, CopyInv, StepOK
  <2>2. Kept(mem, 0, 0, 0)
    BY <2>1 DEF GraphInv, Early, Unsorted
  <2>3. PICK H, Q, r : Chains(mem, H, Q, r) /\ Sorted(mem, H, Q, 0, 0, 0)
    BY <2>2 DEF Kept
  <2>4. /\ Reaches(mem.queue) = Q
        /\ \A b \in 0 .. Buckets - 1 : Reaches(mem.bucket[b]) = InBucket(mem, H, b)
    BY <2>1, <2>3, ReachesQueue
  <2>5. /\ \A e \in Waiting(mem) : e # 0 /\ KeyOf(mem, e) \in Nat \ {0}
        /\ H \subseteq Waiting(mem) /\ Q \subseteq Waiting(mem)
    BY <2>1, <2>3, WaitingFacts, HeapFacts DEF Chains
  <2>6. ASSUME NEW e \in Reaches(mem.queue) PROVE mem.heart[mem.to[Key(e)][2]] # 0
    <3>1. KeyLives(mem, e, 0) /\ KeyOf(mem, e) # 0
      BY <2>3, <2>4, <2>5, <2>6 DEF Sorted
    <3>2. QED
      BY <3>1 DEF KeyLives, KeyOf
  <2>7. ASSUME NEW o \in Objs, Kind(o) = "ephemeron", mem.heart[o] # 0, NEW e,
               e = mem.heart[o], mem.to[e][1] = "nmv", IsOld(mem.to[Datum(e)])
        PROVE  e \in Reaches(mem.queue)
                       \cup UNION {Reaches(mem.bucket[b]) : b \in DOMAIN mem.bucket}
    <3>1. EphemeronAt(mem, e)
      BY <2>7 DEF EphemeronAt, Copied
    <3>2. e \in 1 .. Len(mem.to)
      BY <2>1, <3>1, EphemeronFacts
    <3>3. e \in Waiting(mem)
      BY <2>7, <3>1, <3>2 DEF Waiting, Waits
    <3>4. e \in H \cup Q
      BY <2>3, <2>5, <2>7, <3>3 DEF Sorted
    <3>5. CASE e \in Q
      BY <2>4, <3>5
    <3>6. CASE e \in H
      <4>1. PICK b : b = Bucket(KeyOf(mem, e))
        OBVIOUS
      <4>2. b \in 0 .. Buckets - 1
        <5>1. PICK k \in Nat : k = KeyOf(mem, e)
          BY <2>5, <3>3
        <5>2. Buckets \in Nat \ {0}
          BY <2>1, HeapFacts
        <5>3. k % Buckets \in 0 .. Buckets - 1
          BY <5>1, <5>2
        <5>4. QED
          BY <4>1, <5>1, <5>3 DEF Bucket
      <4>3. e \in InBucket(mem, H, b)
        BY <3>6, <4>1 DEF InBucket
      <4>4. DOMAIN mem.bucket = 0 .. Buckets - 1
        BY <2>1 DEF MemoryOK, ShapeOK
      <4>5. QED
        BY <2>4, <4>2, <4>3, <4>4
    <3>7. QED
      BY <3>4, <3>5, <3>6
  <2>8. QED
    BY <2>6, <2>7 DEF EphemeronsKept
<1>2. QED
  BY <1>1, GraphInvariant, PTL

\* The walk of the bucket always ends for such a heap (gcloop.c: queue_ephemerons_for_key).
THEOREM WalksEnd == Spec /\ DistinctKeys(heap) => []~mem.hung
<1>1. GraphOK => ~mem.hung
  BY DEF GraphOK, GraphInv
<1>2. QED
  BY <1>1, GraphInvariant, PTL

-----------------------------------------------------------------------------
\* The end of the collection.

\* Where the fields of an object are among its words.
LEMMA FieldWords ==
  ASSUME heap \in Heaps, HeapAssumption, NEW o \in Objs
  PROVE  /\ Fields(o) \in Seq(HeapWords(Objs)) /\ DOMAIN Fields(o) = 1 .. Len(Fields(o))
         /\ Len(Fields(o)) \in Nat /\ (Kind(o) # "vector" => Len(Fields(o)) = 2)
         /\ Kind(o) \in {"pair", "vector"} => Size(o) = HeaderSize(o) + Len(Fields(o))
         /\ Kind(o) \in {"pair", "vector"} =>
              \A j \in 1 .. Len(Fields(o)) : Words(o)[HeaderSize(o) + j] = Fields(o)[j]
<1>1. Fields(o) \in Seq(HeapWords(Objs)) /\ (Kind(o) # "vector" => Len(Fields(o)) = 2)
  BY HeapFacts
<1>2. DOMAIN Fields(o) = 1 .. Len(Fields(o)) /\ Len(Fields(o)) \in Nat
  BY <1>1, SeqFacts
<1>3. CASE Kind(o) = "pair"
  <2>1. Words(o) = Fields(o) /\ Size(o) = 2 /\ HeaderSize(o) = 0 /\ Len(Fields(o)) = 2
    BY <1>1, <1>3, WordsFacts DEF HeaderSize
  <2>2. \A j \in 1 .. Len(Fields(o)) : 0 + j = j
    BY <1>2
  <2>3. Size(o) = 0 + Len(Fields(o))
    BY <2>1
  <2>4. QED
    BY <1>1, <1>2, <2>1, <2>2, <2>3
<1>4. CASE Kind(o) = "vector"
  <2>1. Words(o) = <<Manifest>> \o Fields(o) /\ HeaderSize(o) = 1
    BY <1>4 DEF Words, HeaderSize
  <2>2. IsSeq(<<Manifest>>) /\ IsSeq(Fields(o)) /\ Len(<<Manifest>>) = 1
    <3>1. <<Manifest>> \in Seq({Manifest})
      OBVIOUS
    <3>2. QED
      BY <1>1, <3>1, SeqFacts
  <2>3. Len(Words(o)) = 1 + Len(Fields(o))
        /\ \A j \in 1 .. Len(Fields(o)) : Words(o)[1 + j] = Fields(o)[j]
    <3>1. Len(Words(o)) = Len(<<Manifest>>) + Len(Fields(o))
          /\ \A j \in 1 .. Len(Fields(o)) : Words(o)[Len(<<Manifest>>) + j] = Fields(o)[j]
      BY <2>1, <2>2, ConcatFacts
    <3>2. QED
      BY <2>2, <3>1
  <2>4. QED
    BY <1>1, <1>2, <1>4, <2>1, <2>3 DEF Size
<1>5. CASE Kind(o) \notin {"pair", "vector"}
  BY <1>1, <1>2, <1>5
<1>6. QED
  BY <1>3, <1>4, <1>5

\* The word is what has become of the word of the old heap; its target was copied.
LEMMA SameImage ==
  ASSUME NEW w, NEW v, Same(mem, w, v), ~IsOld(v), NEW lost
  PROVE  v = Image(w, lost) /\ (IsOld(w) => mem.heart[w[2]] # 0)
BY DEF Same, Image

\* The invariant at the end.
Collected ==
  /\ heap \in Heaps /\ HeapAssumption /\ MemoryOK(mem) /\ StackOK
  /\ Faithful(mem, TRUE) /\ Copied(mem) \subseteq Live /\ Waiting(mem) = {}
  /\ \A o : ~Chained(mem, o)
  /\ \A i \in 1 .. Len(stack) : Same(mem, heap.stack[i], stack[i]) /\ ~IsOld(stack[i])
  /\ \A a \in 1 .. Len(mem.to) : ~IsOld(mem.to[a])

\* What GraphInv says at the end: the copied objects are those that live.
LEMMA EndFacts ==
  ASSUME GraphOK, pc = "done"
  PROVE  Collected
<1>1. heap \in Heaps /\ HeapAssumption /\ MemoryOK(mem) /\ StackOK /\ GraphInv
  BY HeapAssumption DEF GraphOK, CopyInv, StepOK
<1>2. ~Early /\ Scanned = Len(mem.to) + 1 /\ Len(mem.to) \in Nat
  BY <1>1, LengthType DEF Early, Scanned
<1>3. /\ Faithful(mem, TRUE) /\ Copied(mem) \subseteq Live /\ Waiting(mem) = {}
      /\ StackDone /\ Clean(mem, Len(mem.to) + 1) /\ mem.chain = <<>>
  BY <1>1, <1>2 DEF GraphInv
<1>4. \A o : ~Chained(mem, o)
  <2>1. Len(mem.chain) = 0
    BY <1>3
  <2>2. QED
    BY <2>1 DEF Chained
<1>5. \A a \in 1 .. Len(mem.to) : ~IsOld(mem.to[a])
  <2>1. ASSUME NEW a \in 1 .. Len(mem.to) PROVE ~IsOld(mem.to[a])
    <3>1. ~(a >= Len(mem.to) + 1)
      BY <1>2
    <3>2. QED
      BY <1>3, <3>1 DEF Clean
  <2>2. QED
    BY <2>1
<1>6. \A i \in 1 .. Len(stack) : Same(mem, heap.stack[i], stack[i]) /\ ~IsOld(stack[i])
  BY <1>3 DEF StackDone
<1>7. QED
  BY <1>1, <1>3, <1>4, <1>5, <1>6 DEF Collected

\* No word of a copy points to fromspace, and no ephemeron waits.
LEMMA EndCopy ==
  ASSUME Collected, NEW o \in Copied(mem)
  PROVE  /\ o \in Objs /\ mem.heart[o] \in Nat /\ mem.heart[o] >= 3
         /\ mem.heart[o] + Size(o) <= Len(mem.to) + 1 /\ Len(mem.to) \in Nat
         /\ \A i \in 1 .. Size(o) : ~IsOld(Now(mem, o, i))
         /\ Kind(o) \in {"pair", "vector"} => Whole(mem, o)
         /\ Kind(o) = "weak" => WeakCopy(mem, o, TRUE)
         /\ Kind(o) = "ephemeron" => (Whole(mem, o) /\ Opened(mem, o)) \/ Cleared(mem, o)
<1>1. o \in Objs /\ heap \in Heaps /\ MemoryOK(mem) /\ CopyOK(mem, o, TRUE)
  BY DEF Collected, Copied, Faithful
<1>2. /\ mem.heart[o] \in Nat /\ mem.heart[o] >= 3
      /\ mem.heart[o] + Size(o) <= Len(mem.to) + 1 /\ Len(mem.to) \in Nat
  BY <1>1, LengthType DEF MemoryOK, CopiesOK
<1>3. ASSUME NEW i \in 1 .. Size(o) PROVE ~IsOld(Now(mem, o, i))
  <2>1. PICK s \in Nat : s = Size(o)
    BY <1>1, WordsFacts
  <2>2. mem.heart[o] + i - 1 \in 1 .. Len(mem.to)
    BY <1>2, <2>1
  <2>3. QED
    BY <2>2 DEF Collected, Now
<1>4. ASSUME Kind(o) = "ephemeron" PROVE ~Hidden(mem, o)
  <2> SUFFICES ASSUME Hidden(mem, o) PROVE FALSE
    OBVIOUS
  <2>1. PICK e : e = mem.heart[o]
    OBVIOUS
  <2>2. EphemeronAt(mem, e)
    BY <1>4, <2>1 DEF EphemeronAt
  <2>3. e \in 1 .. Len(mem.to)
    BY <1>1, <2>2, EphemeronFacts
  <2>4. mem.to[e] = Skip(4)
    <3>1. mem.heart[o] + 1 - 1 = e
      BY <1>2, <2>1
    <3>2. QED
      BY <3>1 DEF Hidden, Now
  <2>5. e \in Waiting(mem)
    BY <2>2, <2>3, <2>4 DEF Waiting, Waits, Skip
  <2>6. QED
    BY <2>5 DEF Collected
<1>5. QED
  BY <1>1, <1>2, <1>3, <1>4 DEF CopyOK, EphemeronCopy

\* Exactly the live objects have been copied.
LEMMA EndLive ==
  ASSUME Collected
  PROVE  Copied(mem) = Live
<1>1. heap \in Heaps /\ HeapAssumption /\ MemoryOK(mem) /\ Copied(mem) \subseteq Live
      /\ Copied(mem) \subseteq Objs
  BY DEF Collected, Copied
<1>2. ASSUME NEW w, NEW v, Same(mem, w, v), ~IsOld(v), IsOld(w), w[2] \in Objs
      PROVE  w[2] \in Copied(mem)
  BY <1>2, SameImage DEF Copied
<1>3. Roots \subseteq Copied(mem)
  <2>1. PICK s : s = heap.stack \o <<heap.fixed>>
    OBVIOUS
  <2>2. heap.stack \in Seq(HeapWords(Objs)) /\ heap.fixed \in HeapWords(Objs)
    BY <1>1, HeapFacts
  <2>3. /\ Len(heap.stack) \in Nat /\ DOMAIN s = 1 .. Len(heap.stack) + 1
        /\ \A i \in 1 .. Len(heap.stack) : s[i] = heap.stack[i]
        /\ s[Len(heap.stack) + 1] = heap.fixed
    BY <2>1, <2>2
  <2>4. ASSUME NEW i \in DOMAIN s, IsOld(s[i]) PROVE s[i][2] \in Copied(mem)
    <3>1. CASE i \in 1 .. Len(heap.stack)
      <4>1. heap.stack[i] \in HeapWords(Objs) /\ s[i] = heap.stack[i]
        BY <2>2, <2>3, <3>1
      <4>2. s[i] \in {"old"} \X Objs \X Nat
        BY <2>4, <4>1, HeapWordFacts
      <4>3. i \in 1 .. Len(stack)
        BY <3>1 DEF Collected, StackOK
      <4>4. Same(mem, s[i], stack[i]) /\ ~IsOld(stack[i])
        BY <4>1, <4>3 DEF Collected
      <4>5. s[i][2] \in Objs
        BY <4>2
      <4>6. QED
        BY <1>2, <2>4, <4>4, <4>5
    <3>2. CASE i = Len(heap.stack) + 1
      <4>1. s[i] = heap.fixed /\ s[i] \in {"old"} \X Objs \X Nat
        BY <2>2, <2>3, <2>4, <3>2, HeapWordFacts
      <4>2. 1 \in 1 .. Len(mem.to)
        BY <1>1, LengthType
      <4>3. Same(mem, s[i], mem.to[1]) /\ ~IsOld(mem.to[1])
        BY <4>1, <4>2 DEF Collected, Faithful
      <4>4. s[i][2] \in Objs
        BY <4>1
      <4>5. QED
        BY <1>2, <2>4, <4>3, <4>4
    <3>3. QED
      BY <2>3, <3>1, <3>2
  <2>5. Targets(s) \subseteq Copied(mem)
    BY <2>4 DEF Targets
  <2>6. QED
    BY <2>1, <2>5 DEF Roots
<1>4. ASSUME NEW o \in Copied(mem) PROVE Strong(o, Copied(mem)) \subseteq Copied(mem)
  <2>1. o \in Objs
    BY DEF Copied
  <2>2. \A j \in DOMAIN Fields(o) : IsOld(Fields(o)[j]) => Fields(o)[j][2] \in Objs
    BY <1>1, <2>1, WordTarget
  <2>3. CASE Kind(o) \in {"pair", "vector"}
    <3>1. ASSUME NEW j \in DOMAIN Fields(o), IsOld(Fields(o)[j])
          PROVE  Fields(o)[j][2] \in Copied(mem)
      <4>1. PICK k : k = HeaderSize(o) + j
        OBVIOUS
      <4>2. HeaderSize(o) \in {0, 1}
        BY DEF HeaderSize
      <4>3. k \in 1 .. Size(o) /\ Words(o)[k] = Fields(o)[j]
        BY <1>1, <2>1, <2>3, <4>1, <4>2, FieldWords
      <4>4. Same(mem, Fields(o)[j], Now(mem, o, k)) /\ ~IsOld(Now(mem, o, k))
        BY <2>3, <4>3, EndCopy DEF Whole
      <4>5. QED
        BY <1>2, <2>2, <3>1, <4>4
    <3>2. Targets(Fields(o)) \subseteq Copied(mem)
      BY <3>1 DEF Targets
    <3>3. QED
      BY <2>3, <3>2 DEF Strong
  <2>4. CASE Kind(o) = "weak"
    <3>1. 2 \in 1 .. Size(o)
      BY <1>1, <2>1, <2>4, WordsFacts
    <3>2. Same(mem, Fields(o)[2], Now(mem, o, 2)) /\ ~IsOld(Now(mem, o, 2))
      BY <2>4, <3>1, EndCopy DEF WeakCopy
    <3>3. IsOld(Fields(o)[2]) => Fields(o)[2][2] \in Copied(mem)
      BY <1>1, <1>2, <2>1, <2>4, <3>2, FieldTarget
    <3>4. PICK ws : ws = <<Fields(o)[2]>>
      OBVIOUS
    <3>5. DOMAIN ws = {1} /\ ws[1] = Fields(o)[2]
      BY <3>4
    <3>6. Targets(ws) \subseteq Copied(mem)
      BY <3>3, <3>5 DEF Targets
    <3>7. QED
      BY <2>4, <3>4, <3>6 DEF Strong
  <2>5. CASE Kind(o) = "ephemeron"
    <3>1. PICK ws : ws = <<Fields(o)[1]>>
      OBVIOUS
    <3>2. DOMAIN ws = {1} /\ ws[1] = Fields(o)[1]
      BY <3>1
    <3>3. CASE Whole(mem, o)
      <4>1. 2 \in 1 .. Size(o) /\ 3 \in 1 .. Size(o)
            /\ Words(o)[2] = Fields(o)[1] /\ Words(o)[3] = Fields(o)[2]
        BY <1>1, <2>1, <2>5, WordsFacts DEF EphemeronSize
      <4>2. /\ Same(mem, Fields(o)[1], Now(mem, o, 2)) /\ ~IsOld(Now(mem, o, 2))
            /\ Same(mem, Fields(o)[2], Now(mem, o, 3)) /\ ~IsOld(Now(mem, o, 3))
        BY <3>3, <4>1, EndCopy DEF Whole
      <4>3. \A j \in DOMAIN Fields(o) : j = 1 \/ j = 2
        BY <1>1, <2>1, <2>5, FieldWords
      <4>4. ASSUME NEW j \in DOMAIN Fields(o), IsOld(Fields(o)[j])
            PROVE  Fields(o)[j][2] \in Copied(mem)
        <5>1. CASE j = 1
          BY <1>2, <2>2, <4>2, <4>4, <5>1
        <5>2. CASE j = 2
          BY <1>2, <2>2, <4>2, <4>4, <5>2
        <5>3. QED
          BY <4>3, <5>1, <5>2
      <4>5. Targets(Fields(o)) \subseteq Copied(mem)
        BY <4>4 DEF Targets
      <4>6. QED
        BY <2>5, <4>5 DEF Strong
    <3>4. CASE Cleared(mem, o)
      <4>1. IsOld(ws[1]) /\ ws[1][2] \notin Copied(mem)
        BY <3>2, <3>4 DEF Cleared, Copied
      <4>2. ws[1][2] \in Targets(ws)
        BY <3>2, <4>1 DEF Targets
      <4>3. ~(Targets(<<Fields(o)[1]>>) \subseteq Copied(mem))
        BY <3>1, <4>1, <4>2
      <4>4. QED
        BY <2>5, <4>3 DEF Strong
    <3>5. QED
      BY <2>5, <3>3, <3>4, EndCopy
  <2>6. QED
    BY <1>1, <2>1, <2>3, <2>4, <2>5, HeapFacts
<1>5. Closed(Copied(mem))
  BY <1>4 DEF Closed
<1>6. Live \subseteq Copied(mem)
  BY <1>1, <1>3, <1>5, LiveFacts
<1>7. QED
  BY <1>1, <1>6

\* n words of a copy behind the first h, as a function on 1 .. n.
FieldsAre(o, h, n, f) ==
  /\ h \in Nat /\ n \in Nat /\ f = [i \in 1 .. n |-> f[i]]
  /\ \A i \in 1 .. n : Now(mem, o, h + i) = f[i]
WordsAre(o, h, n, f) == SubSeq(mem.to, mem.heart[o] + h, mem.heart[o] + h + n - 1) = f

\* The words of a copy at the end, from its header and fields.
LEMMA CopiedWords ==
  ASSUME Collected, NEW o \in Copied(mem), NEW h, NEW n, NEW f, FieldsAre(o, h, n, f)
  PROVE  WordsAre(o, h, n, f)
<1> PICK a \in Nat : a = mem.heart[o]
  BY EndCopy
<1>0. /\ h \in Nat /\ n \in Nat /\ f = [i \in 1 .. n |-> f[i]]
      /\ \A i \in 1 .. n : Now(mem, o, h + i) = f[i]
  BY DEF FieldsAre
<1>1. PICK t : t = SubSeq(mem.to, a + h, a + h + n - 1)
  OBVIOUS
<1> DEFINE S == {mem.to[i] : i \in a + h .. a + h + n - 1}
<1>2. \A i \in a + h .. a + h + n - 1 : mem.to[i] \in S
  OBVIOUS
<1> HIDE DEF S
<1>3. PICK b \in Int : b = a + h
  BY <1>0
<1>4. PICK c \in Int : c = a + h + n - 1
  BY <1>0
<1>5. /\ t \in Seq(S) /\ Len(t) = IF b <= c THEN c - b + 1 ELSE 0
      /\ \A i \in 1 .. c - b + 1 : t[i] = mem.to[b + i - 1]
  <2>1. \A i \in b .. c : mem.to[i] \in S
    BY <1>2, <1>3, <1>4
  <2>2. t = SubSeq(mem.to, b, c)
    BY <1>1, <1>3, <1>4
  <2>3. QED
    BY <2>1, <2>2, SubSeqProperties
<1>6. c - b + 1 = n /\ Len(t) = n
  <2>1. c - b + 1 = n /\ (n = 0 <=> ~(b <= c))
    <3>1. PICK x \in Nat : x = a + h
      BY <1>0
    <3>2. b = x /\ c = x + n - 1 /\ n \in Nat
      BY <1>0, <1>3, <1>4, <3>1
    <3>3. QED
      BY <3>1, <3>2
  <2>2. QED
    BY <1>5, <2>1
<1>7. DOMAIN t = 1 .. n /\ t = [i \in 1 .. n |-> t[i]]
  BY <1>5, <1>6
<1>8. ASSUME NEW i \in 1 .. n PROVE t[i] = f[i]
  <2>1. t[i] = mem.to[b + i - 1]
    BY <1>5, <1>6
  <2>2. b + i - 1 = a + (h + i) - 1
    BY <1>0, <1>3
  <2>3. Now(mem, o, h + i) = mem.to[b + i - 1]
    BY <2>2 DEF Now
  <2>4. QED
    BY <1>0, <2>1, <2>3
<1>9. QED
  BY <1>0, <1>1, <1>7, <1>8 DEF WordsAre

\* The copy says what the object said.
LEMMA EndWords ==
  ASSUME Collected, NEW o \in Copied(mem)
  PROVE  SubSeq(mem.to, mem.heart[o] + HeaderSize(o), mem.heart[o] + Len(Words(o)) - 1)
           = NewWords(o)
<1>1. heap \in Heaps /\ HeapAssumption /\ MemoryOK(mem) /\ o \in Objs
  BY DEF Collected, Copied
<1>2. /\ Fields(o) \in Seq(HeapWords(Objs)) /\ DOMAIN Fields(o) = 1 .. Len(Fields(o))
      /\ Len(Fields(o)) \in Nat /\ (Kind(o) # "vector" => Len(Fields(o)) = 2)
  BY <1>1, FieldWords
<1>3. PICK a \in Nat : a = mem.heart[o]
  BY EndCopy
<1>4. \A i \in 1 .. Size(o) : ~IsOld(Now(mem, o, i))
  BY EndCopy
<1>5. CASE Kind(o) \in {"pair", "vector"}
  <2>1. PICK h \in Nat : h = HeaderSize(o)
    BY DEF HeaderSize
  <2>2. PICK n \in Nat : n = Len(Fields(o))
    BY <1>2
  <2>3. PICK f : f = [i \in DOMAIN Fields(o) |-> Image(Fields(o)[i], Reclaimed)]
    OBVIOUS
  <2>4. NewWords(o) = f
    BY <1>5, <2>3 DEF NewWords
  <2>5. f = [i \in 1 .. n |-> f[i]]
    BY <1>2, <2>2, <2>3
  <2>6. ASSUME NEW i \in 1 .. n PROVE Now(mem, o, h + i) = f[i]
    <3>1. PICK k : k = h + i
      OBVIOUS
    <3>2. Size(o) = h + n /\ Words(o)[k] = Fields(o)[i]
      BY <1>1, <1>5, <2>1, <2>2, <3>1, FieldWords
    <3>3. k \in 1 .. Size(o)
      BY <3>1, <3>2
    <3>4. Same(mem, Fields(o)[i], Now(mem, o, k)) /\ ~IsOld(Now(mem, o, k))
      BY <1>4, <1>5, <3>2, <3>3, EndCopy DEF Whole
    <3>5. Now(mem, o, k) = Image(Fields(o)[i], Reclaimed)
      BY <3>4, SameImage
    <3>6. f[i] = Image(Fields(o)[i], Reclaimed)
      BY <1>2, <2>2, <2>3
    <3>7. QED
      BY <3>1, <3>5, <3>6
  <2>7. SubSeq(mem.to, a + h, a + h + n - 1) = f
    <3>1. FieldsAre(o, h, n, f)
      BY <2>5, <2>6 DEF FieldsAre
    <3>2. WordsAre(o, h, n, f)
      BY <3>1, CopiedWords
    <3>3. QED
      BY <1>3, <3>2 DEF WordsAre
  <2>8. Len(Words(o)) = h + n
    BY <1>1, <1>5, <2>1, <2>2, FieldWords DEF Size
  <2>9. a + Len(Words(o)) - 1 = a + h + n - 1
    BY <2>8
  <2>10. QED
    BY <1>3, <2>1, <2>4, <2>7, <2>9
<1>6. CASE Kind(o) = "weak"
  <2>1. WeakCopy(mem, o, TRUE) /\ ~Chained(mem, o) /\ Size(o) = 2 /\ HeaderSize(o) = 0
    BY <1>1, <1>6, EndCopy, WordsFacts DEF Collected, HeaderSize
  <2>2. PICK u : u = Image(Fields(o)[1], Reclaimed)
    OBVIOUS
  <2>3. PICK v : v = Image(Fields(o)[2], Reclaimed)
    OBVIOUS
  <2>4. Now(mem, o, 1) = u
    <3>1. CASE IsOld(Fields(o)[1])
      BY <2>1, <2>2, <3>1 DEF WeakCopy, Image
    <3>2. CASE ~IsOld(Fields(o)[1])
      BY <2>1, <2>2, <3>2 DEF WeakCopy, Image
    <3>3. QED
      BY <3>1, <3>2
  <2>5. Now(mem, o, 2) = v
    <3>1. ~IsOld(Now(mem, o, 2)) /\ Same(mem, Fields(o)[2], Now(mem, o, 2))
      BY <1>4, <2>1 DEF WeakCopy
    <3>2. QED
      BY <2>3, <3>1, SameImage
  <2>6. PICK f : f = <<u, v>>
    OBVIOUS
  <2>7. NewWords(o) = f
    BY <1>6, <2>2, <2>3, <2>6 DEF NewWords
  <2>8. f = [i \in 1 .. 2 |-> f[i]] /\ f[1] = u /\ f[2] = v
    BY <2>6
  <2>9. ASSUME NEW i \in 1 .. 2 PROVE Now(mem, o, 0 + i) = f[i]
    <3>1. 0 + i = i /\ (i = 1 \/ i = 2)
      OBVIOUS
    <3>2. QED
      BY <2>4, <2>5, <2>8, <3>1
  <2>10. SubSeq(mem.to, a + 0, a + 0 + 2 - 1) = f
    <3>1. FieldsAre(o, 0, 2, f)
      BY <2>8, <2>9 DEF FieldsAre
    <3>2. WordsAre(o, 0, 2, f)
      BY <3>1, CopiedWords
    <3>3. QED
      BY <1>3, <3>2 DEF WordsAre
  <2>11. Len(Words(o)) = 2
    BY <2>1 DEF Size
  <2>12. a + Len(Words(o)) - 1 = a + 0 + 2 - 1
    BY <2>11
  <2>13. QED
    BY <1>3, <2>1, <2>7, <2>10, <2>12
<1>7. CASE Kind(o) = "ephemeron"
  <2>1. /\ Words(o)[1] = Manifest /\ Size(o) = 5 /\ Words(o)[2] = Fields(o)[1]
        /\ Words(o)[3] = Fields(o)[2] /\ Words(o)[4] = False /\ Words(o)[5] = False
        /\ HeaderSize(o) = 1
    BY <1>1, <1>7, WordsFacts DEF EphemeronSize, HeaderSize
  <2>2. PICK f : f = NewWords(o)
    OBVIOUS
  <2>3. /\ f = [i \in 1 .. 4 |-> f[i]]
        /\ Now(mem, o, 2) = f[1] /\ Now(mem, o, 3) = f[2]
        /\ Now(mem, o, 4) = f[3] /\ Now(mem, o, 5) = f[4]
    <3>1. CASE Cleared(mem, o)
      <4>1. f = <<False, False, False, False>>
        BY <1>7, <2>2, <3>1 DEF NewWords, Cleared
      <4>2. f = [i \in 1 .. 4 |-> f[i]] /\ f[1] = False /\ f[2] = False /\ f[3] = False
            /\ f[4] = False
        BY <4>1
      <4>3. 2 \in 2 .. 5 /\ 3 \in 2 .. 5 /\ 4 \in 2 .. 5 /\ 5 \in 2 .. 5
        OBVIOUS
      <4>4. \A i \in 2 .. 5 : Now(mem, o, i) = False
        BY <3>1 DEF Cleared
      <4>5. QED
        BY <4>2, <4>3, <4>4
    <3>2. CASE Whole(mem, o) /\ Opened(mem, o)
      <4>1. 2 \in 1 .. Size(o) /\ 3 \in 1 .. Size(o) /\ 4 \in 1 .. Size(o) /\ 5 \in 1 .. Size(o)
        BY <2>1
      <4>2. PICK u : u = Image(Fields(o)[1], False)
        OBVIOUS
      <4>3. PICK v : v = Image(Fields(o)[2], False)
        OBVIOUS
      <4>4. ~(IsOld(Fields(o)[1]) /\ mem.heart[Fields(o)[1][2]] = 0)
        BY <3>2 DEF Opened
      <4>5. f = <<u, v, False, False>>
        BY <1>7, <2>2, <4>2, <4>3, <4>4 DEF NewWords
      <4>6. f = [i \in 1 .. 4 |-> f[i]] /\ f[1] = u /\ f[2] = v /\ f[3] = False
            /\ f[4] = False
        BY <4>5
      <4>7. \A i \in 1 .. Size(o) : Same(mem, Words(o)[i], Now(mem, o, i))
        BY <3>2 DEF Whole
      <4>8. Now(mem, o, 2) = u
        <5>1. Same(mem, Fields(o)[1], Now(mem, o, 2)) /\ ~IsOld(Now(mem, o, 2))
          BY <1>4, <2>1, <4>1, <4>7
        <5>2. QED
          BY <4>2, <5>1, SameImage
      <4>9. Now(mem, o, 3) = v
        <5>1. Same(mem, Fields(o)[2], Now(mem, o, 3)) /\ ~IsOld(Now(mem, o, 3))
          BY <1>4, <2>1, <4>1, <4>7
        <5>2. QED
          BY <4>3, <5>1, SameImage
      <4>10. Now(mem, o, 4) = False /\ Now(mem, o, 5) = False
        <5>1. Same(mem, False, Now(mem, o, 4)) /\ Same(mem, False, Now(mem, o, 5))
          BY <2>1, <4>1, <4>7
        <5>2. ~IsOld(False)
          BY DEF IsOld, False
        <5>3. QED
          BY <5>1, <5>2 DEF Same
      <4>11. QED
        BY <4>6, <4>8, <4>9, <4>10
    <3>3. QED
      BY <1>7, <3>1, <3>2, EndCopy
  <2>4. ASSUME NEW i \in 1 .. 4 PROVE Now(mem, o, 1 + i) = f[i]
    <3>1. i = 1 \/ i = 2 \/ i = 3 \/ i = 4
      OBVIOUS
    <3>2. QED
      BY <2>3, <3>1
  <2>5. SubSeq(mem.to, a + 1, a + 1 + 4 - 1) = f
    <3>1. FieldsAre(o, 1, 4, f)
      BY <2>3, <2>4 DEF FieldsAre
    <3>2. WordsAre(o, 1, 4, f)
      BY <3>1, CopiedWords
    <3>3. QED
      BY <1>3, <3>2 DEF WordsAre
  <2>6. Len(Words(o)) = 5
    BY <2>1 DEF Size
  <2>7. a + Len(Words(o)) - 1 = a + 1 + 4 - 1
    BY <2>6
  <2>8. QED
    BY <1>3, <2>1, <2>2, <2>5, <2>7
<1>8. QED
  BY <1>1, <1>5, <1>6, <1>7, HeapFacts

\* A collection keeps the graph of the live objects, whatever the heap as long as no two
\* ephemerons have the same key (gcloop.c: gc_transport_words, update_weak_pointers).
THEOREM GraphIsPreserved == Spec /\ DistinctKeys(heap) => []GraphPreserved
<1>1. GraphOK => GraphPreserved
  <2> SUFFICES ASSUME GraphOK, pc = "done" PROVE GraphPreserved
    BY DEF GraphPreserved
  <2>1. Collected
    BY EndFacts
  <2>2. {o \in Objs : mem.heart[o] # 0} = Live
    BY <2>1, EndLive DEF Copied
  <2>3. stack = [i \in DOMAIN stack |-> Image(heap.stack[i], Reclaimed)]
    <3>1. IsSeq(stack)
      BY <2>1 DEF Collected, StackOK
    <3>2. DOMAIN stack = 1 .. Len(stack) /\ stack = [i \in DOMAIN stack |-> stack[i]]
      BY <3>1 DEF IsSeq
    <3>3. ASSUME NEW i \in DOMAIN stack PROVE stack[i] = Image(heap.stack[i], Reclaimed)
      <4>1. Same(mem, heap.stack[i], stack[i]) /\ ~IsOld(stack[i])
        BY <2>1, <3>2 DEF Collected
      <4>2. QED
        BY <4>1, SameImage
    <3>4. QED
      BY <3>2, <3>3
  <2>4. mem.to[1] = Image(heap.fixed, Reclaimed)
    <3>1. 1 \in 1 .. Len(mem.to)
      BY <2>1, LengthType DEF Collected
    <3>2. Same(mem, heap.fixed, mem.to[1]) /\ ~IsOld(mem.to[1])
      BY <2>1, <3>1 DEF Collected, Faithful
    <3>3. QED
      BY <3>2, SameImage
  <2>5. \A o \in {p \in Objs : mem.heart[p] # 0} :
          SubSeq(mem.to, mem.heart[o] + HeaderSize(o), mem.heart[o] + Len(Words(o)) - 1)
            = NewWords(o)
    BY <2>1, EndWords DEF Copied
  <2>6. QED
    BY <2>2, <2>3, <2>4, <2>5 DEF GraphPreserved
<1>2. QED
  BY <1>1, GraphInvariant, PTL
=============================================================================
