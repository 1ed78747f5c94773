------------------------ MODULE GarbageCollectorProofs ------------------------
(***************************************************************************)
(* Proofs about the collector (GarbageCollector), for any heaps and any    *)
(* length of the hash table: no object is copied over another.             *)
(*                                                                         *)
(* CopiedOnce speaks of addresses only, but what is copied next depends on *)
(* what the words of tospace say, and these are overwritten in place: by   *)
(* the scan, by the links of the ephemerons and when weak references are   *)
(* settled.  MemoryOK says which words can be where, so that none of these *)
(* overwrites what another relies on; ScanOK that the scan never stops     *)
(* inside an ephemeron it must skip.                                       *)
(*                                                                         *)
(* The last part is about the chains of ephemerons that wait for their     *)
(* keys: a chain is a set of addresses with ranks that fall along its      *)
(* links (Descends), so that it has no cycle, and the walk of a bucket     *)
(* ends and moves the ephemeron of the key to the queue (QueueKept).       *)
(***************************************************************************)
EXTENDS GarbageCollector, FiniteSetTheorems, SequenceTheorems, WellFoundedInduction,
        TLAPS

Copied(m) == {o \in Objs : m.heart[o] # 0}
Size(o) == Len(Words(o))
\* There is a copy of an ephemeron at a; its key is not live yet.
EphemeronAt(m, a) == \E o \in Copied(m) : Kind(o) = "ephemeron" /\ a = m.heart[o]
Waits(m, a) == m.to[a][1] = "nmv"
Pointer(m, a) == a = 0 \/ EphemeronAt(m, a)

IsSeq(s) == s \in Seq({s[i] : i \in DOMAIN s})
Record(m) ==
  m = [to |-> m.to, heart |-> m.heart, chain |-> m.chain, list |-> m.list,
       queue |-> m.queue, bucket |-> m.bucket, hung |-> m.hung]

ShapeOK(m) ==
  /\ Record(m) /\ IsSeq(m.to) /\ Len(m.to) >= 2
  /\ m.heart \in [Objs -> Nat]
  /\ m.bucket \in [0 .. Buckets - 1 -> Nat]

\* The copies lie in tospace behind its first two words, apart and without a gap.
CopiesOK(m) ==
  /\ \A o \in Copied(m) : m.heart[o] >= 3 /\ m.heart[o] + Size(o) <= Len(m.to) + 1
  /\ \A o, p \in Copied(m) : \/ o = p
                             \/ m.heart[o] + Size(o) <= m.heart[p]
                             \/ m.heart[p] + Size(p) <= m.heart[o]
  /\ \A a \in 3 .. Len(m.to) :
       \E o \in Copied(m) : m.heart[o] <= a /\ a < m.heart[o] + Size(o)

\* A pointer into fromspace points to an object, and a word that makes the scan skip
\* others is the header of an ephemeron with its key still in fromspace.
WordsOK(m) ==
  \A a \in 1 .. Len(m.to) :
    /\ IsOld(m.to[a]) => m.to[a] \in {"old"} \X Objs \X Nat
    /\ Waits(m, a) => m.to[a] = Skip(4) /\ EphemeronAt(m, a) /\ IsOld(m.to[Key(a)])

\* The links lead from ephemeron to ephemeron, and the list to those that wait.
LinkOK(m, w) == w = False \/ (w = AsLink(w[2]) /\ EphemeronAt(m, w[2]))
LinksOK(m) ==
  /\ Pointer(m, m.list) /\ Pointer(m, m.queue)
  /\ \A b \in 0 .. Buckets - 1 : Pointer(m, m.bucket[b])
  /\ \A o \in Copied(m) : Kind(o) = "ephemeron" =>
       LinkOK(m, m.to[ListLink(m.heart[o])]) /\ LinkOK(m, m.to[NextLink(m.heart[o])])
WeakOK(m) ==
  /\ m.chain \in Seq(Objs)
  /\ \A i \in 1 .. Len(m.chain) : Kind(m.chain[i]) = "weak" /\ m.heart[m.chain[i]] # 0
MemoryOK(m) == ShapeOK(m) /\ CopiesOK(m) /\ WordsOK(m) /\ LinksOK(m) /\ WeakOK(m)

ListOK(m) ==
  /\ m.list # 0 => Waits(m, m.list)
  /\ \A o \in Copied(m) : Kind(o) = "ephemeron" =>
       m.to[ListLink(m.heart[o])] = False \/ Waits(m, Link(m.to[ListLink(m.heart[o])]))

\* The scan is at the beginning or the end of an ephemeron that waits, never inside.
ScanOK ==
  \A o \in Copied(mem) : Kind(o) = "ephemeron" /\ Waits(mem, mem.heart[o]) =>
    scan <= mem.heart[o] \/ scan >= mem.heart[o] + EphemeronSize

StackOK == /\ IsSeq(stack)
           /\ Len(stack) = Len(heap.stack)
           /\ \A i \in 1 .. Len(stack) : IsOld(stack[i]) => stack[i] \in {"old"} \X Objs \X Nat

StepOK ==
  /\ heap \in Heaps
  /\ pc \in {"stack", "scan", "list", "queue", "rescan", "ephemerons", "weak", "done"}
  /\ scan \in Nat \ {0}
  /\ IF pc = "stack" THEN scan <= Len(stack) + 1 ELSE scan <= Len(mem.to) + 1
  /\ Pointer(mem, cur)
  /\ pc \in {"stack", "scan", "list", "queue", "rescan"} => ListOK(mem)
  /\ pc = "list" /\ cur # 0 => Waits(mem, cur)
  /\ pc \in {"scan", "rescan"} => ScanOK

CopyInv == MemoryOK(mem) /\ StackOK /\ StepOK

-----------------------------------------------------------------------------
\* Induction, over a set of numbers; sequences.

\* A set of natural numbers has a least one.
LEMMA LeastNatural ==
  ASSUME NEW T, T \subseteq Nat, T # {}
  PROVE  \E x \in T : \A y \in T : x <= y
<1> DEFINE R == {ss \in Nat \X Nat : ss[1] < ss[2]}
<1>1. IsWellFoundedOn(R, Nat)
  BY NatLessThanWellFounded DEF OpToRel
<1> HIDE DEF R
<1>2. PICK x \in T : \A y \in T : ~ (<<y, x>> \in R)
  BY <1>1, WFMin
<1>3. ASSUME NEW y \in T, ~(x <= y) PROVE FALSE
  <2> DEFINE ss == <<y, x>>
  <2>1. y < x /\ ss \in Nat \X Nat /\ ss[1] = y /\ ss[2] = x
    BY <1>3
  <2>2. ss \in R
    BY <2>1 DEF R
  <2>3. QED
    BY <1>2, <2>2
<1>4. QED
  BY <1>3

\* A set that holds 0 and every successor holds every natural number.
LEMMA SetInduction ==
  ASSUME NEW S, 0 \in S, \A n \in Nat : n \in S => n + 1 \in S
  PROVE  Nat \subseteq S
<1> SUFFICES ASSUME Nat \ S # {} PROVE FALSE
  OBVIOUS
<1>1. PICK x \in Nat \ S : \A y \in Nat \ S : x <= y
  BY LeastNatural
<1>2. x # 0 /\ x - 1 \in Nat /\ x = (x - 1) + 1
  BY <1>1
<1>3. x - 1 \in S
  BY <1>1, <1>2
<1>4. QED
  BY <1>1, <1>2, <1>3

\* Sequences of any set, without naming the set (IsSeq).
LEMMA SeqFacts ==
  ASSUME NEW S, NEW s \in Seq(S)
  PROVE  IsSeq(s) /\ DOMAIN s = 1 .. Len(s) /\ Len(s) \in Nat
<1>1. DOMAIN s = 1 .. Len(s) /\ Len(s) \in Nat
  OBVIOUS
<1>2. s = [i \in 1 .. Len(s) |-> s[i]]
  BY <1>1
<1>3. s \in Seq({s[i] : i \in DOMAIN s})
  BY <1>1, <1>2
<1>4. QED
  BY <1>1, <1>3 DEF IsSeq

LEMMA ConcatFacts ==
  ASSUME NEW s, NEW t, IsSeq(s), IsSeq(t)
  PROVE  /\ IsSeq(s \o t) /\ Len(s \o t) = Len(s) + Len(t)
         /\ \A i \in 1 .. Len(s) : (s \o t)[i] = s[i]
         /\ \A i \in 1 .. Len(t) : (s \o t)[Len(s) + i] = t[i]
<1> DEFINE S == {s[i] : i \in DOMAIN s} \cup {t[i] : i \in DOMAIN t}
<1>1. s \in Seq(S) /\ t \in Seq(S)
  BY DEF IsSeq
<1> HIDE DEF S
<1>2. s \o t \in Seq(S) /\ Len(s \o t) = Len(s) + Len(t) /\ Len(s) \in Nat /\ Len(t) \in Nat
  BY <1>1
<1>3. \A i \in 1 .. Len(s) : (s \o t)[i] = s[i]
  BY <1>1
<1>4. \A i \in 1 .. Len(t) : (s \o t)[Len(s) + i] = t[i]
  BY <1>1
<1>5. QED
  BY <1>2, <1>3, <1>4, SeqFacts

Put(s, i, w) == [s EXCEPT ![i] = w]

LEMMA PutFacts ==
  ASSUME NEW s, IsSeq(s), NEW i, NEW w
  PROVE  /\ IsSeq(Put(s, i, w)) /\ Len(Put(s, i, w)) = Len(s)
         /\ \A j \in 1 .. Len(s) : Put(s, i, w)[j] = IF j = i THEN w ELSE s[j]
<1> DEFINE S == {s[j] : j \in DOMAIN s} \cup {w}
           t == [s EXCEPT ![i] = w]
<1>1. s \in Seq(S) /\ DOMAIN s = 1 .. Len(s) /\ Len(s) \in Nat
  BY DEF IsSeq
<1>2. CASE i \in 1 .. Len(s)
  <2>1. /\ t \in Seq(S) /\ Len(t) = Len(s)
        /\ \A j \in 1 .. Len(s) : t[j] = IF j = i THEN w ELSE s[j]
    BY <1>1, <1>2, ExceptSeq
  <2> HIDE DEF t
  <2>2. QED
    BY <2>1, SeqFacts DEF Put, t
<1>3. CASE i \notin 1 .. Len(s)
  <2>1. t = s
    BY <1>1, <1>3
  <2>2. QED
    BY <1>3, <2>1 DEF Put
<1>4. QED
  BY <1>2, <1>3

\* What the code finds at an object of fromspace.
LEMMA HeapFacts ==
  ASSUME heap \in Heaps, HeapAssumption
  PROVE  /\ Objs \subseteq Nat \ {0} /\ IsFiniteSet(Objs) /\ Cardinality(Objs) \in Nat
         /\ Buckets \in Nat \ {0}
         /\ heap.fixed \in HeapWords(Objs) /\ heap.stack \in Seq(HeapWords(Objs))
         /\ \A o \in Objs :
              /\ Kind(o) \in {"pair", "vector", "weak", "ephemeron"}
              /\ Fields(o) \in Seq(HeapWords(Objs))
              /\ Kind(o) # "vector" => Len(Fields(o)) = 2
<1>1. IsFiniteSet(Objs) => Cardinality(Objs) \in Nat
  BY FS_CardinalityType
<1>2. QED
  BY <1>1, HeapAssumption DEF HeapAssumption, Objs, Kind, Fields

\* A heap word points to an object or does not point, and makes no word be skipped.
LEMMA HeapWordFacts ==
  ASSUME NEW objs, NEW w \in HeapWords(objs)
  PROVE  /\ IsOld(w) => w \in {"old"} \X objs \X Nat
         /\ w[1] # "nmv"
BY DEF HeapWords, IsOld, Imm, False

\* What a copy starts as: the fields, behind a header for vectors and ephemerons.
LEMMA WordsFacts ==
  ASSUME heap \in Heaps, NEW o \in Objs
  PROVE  /\ IsSeq(Words(o)) /\ Size(o) \in Nat \ {0} /\ Size(o) = Len(Words(o))
         /\ \A i \in 1 .. Size(o) : \/ Words(o)[i] \in HeapWords(Objs)
                                    \/ Words(o)[i] = Manifest
         /\ Kind(o) \in {"pair", "weak"} => Words(o) = Fields(o) /\ Size(o) = 2
         /\ Kind(o) = "vector" => \A i \in 1 .. Len(Fields(o)) : Words(o)[i + 1] = Fields(o)[i]
         /\ Kind(o) = "ephemeron" => /\ Words(o)[1] = Manifest /\ Size(o) = EphemeronSize
                                     /\ Words(o)[2] = Fields(o)[1]
                                     /\ Words(o)[3] = Fields(o)[2]
                                     /\ Words(o)[4] = False /\ Words(o)[5] = False
<1> DEFINE H == HeapWords(Objs)
           W == H \cup {Manifest}
<1>1. /\ Kind(o) \in {"pair", "vector", "weak", "ephemeron"}
      /\ Fields(o) \in Seq(H)
      /\ Kind(o) # "vector" => Len(Fields(o)) = 2
  BY HeapFacts, HeapAssumption
<1>2. False \in H
  BY DEF HeapWords
<1> HIDE DEF H
<1>33. Manifest \in W /\ H \subseteq W /\ \A w \in W : w \in H \/ w = Manifest
  OBVIOUS
<1> HIDE DEF W
<1>3. Fields(o) \in Seq(W)
  BY <1>1, <1>33
<1>4. <<Manifest>> \in Seq(W) /\ Len(<<Manifest>>) = 1 /\ <<Manifest>>[1] = Manifest
  BY <1>33
<1>5. <<False, False>> \in Seq(W) /\ Len(<<False, False>>) = 2
      /\ <<False, False>>[1] = False /\ <<False, False>>[2] = False
  BY <1>2, <1>33
<1>55. ASSUME NEW v \in Seq(W), Len(v) # 0
      PROVE  /\ IsSeq(v) /\ Len(v) \in Nat \ {0}
             /\ \A i \in 1 .. Len(v) : v[i] \in HeapWords(Objs) \/ v[i] = Manifest
  <2>1. \A i \in 1 .. Len(v) : v[i] \in W
    BY ElementOfSeq
  <2>2. QED
    BY <1>33, <1>55, <2>1, SeqFacts DEF H
<1>6. CASE Kind(o) \in {"pair", "weak"}
  <2>1. Words(o) = Fields(o)
    BY <1>6 DEF Words
  <2>2. Len(Fields(o)) = 2
    BY <1>1, <1>6
  <2>3. /\ IsSeq(Words(o)) /\ Len(Words(o)) = 2
        /\ \A i \in 1 .. Len(Words(o)) : Words(o)[i] \in HeapWords(Objs) \/ Words(o)[i] = Manifest
    <3>1. Len(Fields(o)) # 0
      BY <2>2
    <3>2. QED
      BY <1>3, <1>55, <2>1, <2>2, <3>1
  <2>4. QED
    BY <1>6, <2>1, <2>3 DEF Size
<1>7. CASE Kind(o) = "vector"
  <2> DEFINE v == <<Manifest>> \o Fields(o)
  <2>1. Words(o) = v
    BY <1>7 DEF Words
  <2>2. /\ v \in Seq(W) /\ Len(v) = 1 + Len(Fields(o)) /\ Len(Fields(o)) \in Nat
        /\ \A i \in 1 .. 1 + Len(Fields(o)) :
             v[i] = IF i <= 1 THEN <<Manifest>>[i] ELSE Fields(o)[i - 1]
    BY <1>3, <1>4, ConcatProperties
  <2> HIDE DEF v
  <2>3. Len(v) # 0
    BY <2>2
  <2>4. ASSUME NEW i \in 1 .. Len(Fields(o)) PROVE v[i + 1] = Fields(o)[i]
    BY <2>2
  <2>5. QED
    BY <1>55, <1>7, <2>1, <2>2, <2>3, <2>4 DEF Size
<1>8. CASE Kind(o) = "ephemeron"
  <2> DEFINE u == <<Manifest>> \o Fields(o)
             v == u \o <<False, False>>
  <2>1. Words(o) = v
    BY <1>8 DEF Words
  <2>2. Len(Fields(o)) = 2
    BY <1>1, <1>8
  <2>3. /\ u \in Seq(W) /\ Len(u) = 1 + 2
        /\ \A i \in 1 .. 1 + 2 : u[i] = IF i <= 1 THEN <<Manifest>>[i] ELSE Fields(o)[i - 1]
    <3>1. /\ u \in Seq(W) /\ Len(u) = Len(<<Manifest>>) + Len(Fields(o))
          /\ \A i \in 1 .. Len(<<Manifest>>) + Len(Fields(o)) :
               u[i] = IF i <= Len(<<Manifest>>) THEN <<Manifest>>[i]
                      ELSE Fields(o)[i - Len(<<Manifest>>)]
      BY <1>3, <1>4, ConcatProperties
    <3> HIDE DEF u
    <3>2. QED
      BY <1>4, <2>2, <3>1
  <2> HIDE DEF u
  <2>4. /\ v \in Seq(W) /\ Len(v) = 3 + 2
        /\ \A i \in 1 .. 3 + 2 : v[i] = IF i <= 3 THEN u[i] ELSE <<False, False>>[i - 3]
    BY <1>5, <2>3, ConcatProperties, SMTT(20)
  <2> HIDE DEF v
  <2>5. /\ v[1] = Manifest /\ v[2] = Fields(o)[1] /\ v[3] = Fields(o)[2]
        /\ v[4] = False /\ v[5] = False
    BY <1>4, <1>5, <2>3, <2>4
  <2>6. Len(v) = 5 /\ Len(v) # 0
    BY <2>4
  <2>7. QED
    BY <1>55, <1>8, <2>1, <2>4, <2>5, <2>6 DEF Size, EphemeronSize
<1>9. QED
  BY <1>1, <1>6, <1>7, <1>8

-----------------------------------------------------------------------------
\* Overwriting words of tospace.

\* Ephemerons are apart from each other and within tospace.
LEMMA EphemeronFacts ==
  ASSUME heap \in Heaps, NEW m, MemoryOK(m), NEW e, EphemeronAt(m, e)
  PROVE  /\ e \in Nat /\ e >= 3 /\ e + 4 <= Len(m.to) /\ Len(m.to) \in Nat
         /\ LinkOK(m, m.to[ListLink(e)]) /\ LinkOK(m, m.to[NextLink(e)])
         /\ \A f : EphemeronAt(m, f) => e = f \/ e + 5 <= f \/ f + 5 <= e
<1>1. PICK o \in Copied(m) : Kind(o) = "ephemeron" /\ e = m.heart[o]
  BY DEF EphemeronAt
<1>2. \A p \in Copied(m) : Kind(p) = "ephemeron" => Size(p) = 5 /\ p \in Objs
  BY WordsFacts DEF Copied, EphemeronSize
<1>3. e \in Nat /\ e >= 3 /\ e + 4 <= Len(m.to) /\ Len(m.to) \in Nat
  BY <1>1, <1>2, SeqFacts, SMTT(20) DEF MemoryOK, ShapeOK, CopiesOK, IsSeq
<1>4. ASSUME NEW f, EphemeronAt(m, f) PROVE e = f \/ e + 5 <= f \/ f + 5 <= e
  <2>1. PICK p \in Copied(m) : Kind(p) = "ephemeron" /\ f = m.heart[p]
    BY <1>4 DEF EphemeronAt
  <2>2. Size(o) = 5 /\ Size(p) = 5
    BY <1>1, <1>2, <2>1
  <2>3. o = p \/ m.heart[o] + Size(o) <= m.heart[p] \/ m.heart[p] + Size(p) <= m.heart[o]
    BY <1>1, <2>1 DEF MemoryOK, CopiesOK
  <2>4. QED
    BY <1>1, <2>1, <2>2, <2>3
<1>5. LinkOK(m, m.to[ListLink(e)]) /\ LinkOK(m, m.to[NextLink(e)])
  BY <1>1 DEF MemoryOK, LinksOK
<1>6. QED
  BY <1>3, <1>4, <1>5

\* What a word written over another leaves as it was.
PutAt(m, n, a, w) ==
  /\ Record(n) /\ IsSeq(n.to) /\ Len(n.to) = Len(m.to)
  /\ \A i \in 1 .. Len(m.to) : n.to[i] = IF i = a THEN w ELSE m.to[i]
  /\ n.heart = m.heart /\ n.chain = m.chain /\ n.list = m.list
  /\ n.queue = m.queue /\ n.bucket = m.bucket

LEMMA PutStep ==
  ASSUME NEW m, Record(m), IsSeq(m.to), NEW a, NEW w, NEW n,
         n = [m EXCEPT !.to[a] = w]
  PROVE  PutAt(m, n, a, w)
<1>1. n = [m EXCEPT !.to = [m.to EXCEPT ![a] = w]]
  BY DEF Record
<1>2. n = [m EXCEPT !.to = Put(m.to, a, w)]
  BY <1>1 DEF Put
<1>3. /\ Record(n) /\ n.to = Put(m.to, a, w) /\ n.heart = m.heart /\ n.chain = m.chain
      /\ n.list = m.list /\ n.queue = m.queue /\ n.bucket = m.bucket
  <2>1. PICK t : t = Put(m.to, a, w)
    OBVIOUS
  <2>2. n = [m EXCEPT !.to = t]
    BY <1>2, <2>1
  <2>3. QED
    BY <2>1, <2>2 DEF Record
<1>4. QED
  BY <1>3, PutFacts DEF PutAt

\* A word that does not point to fromspace and skips nothing may replace any word but
\* the key of an ephemeron that waits; a link must remain one.
LEMMA WordPut ==
  ASSUME heap \in Heaps, NEW m, MemoryOK(m), NEW a \in 1 .. Len(m.to), NEW w, NEW n,
         w[1] # "old", w[1] # "nmv", PutAt(m, n, a, w),
         \A e : EphemeronAt(m, e) =>
           /\ a \in {ListLink(e), NextLink(e)} => LinkOK(m, w)
           /\ Waits(m, e) => a # Key(e)
  PROVE  /\ MemoryOK(n)
         /\ \A i \in 1 .. Len(m.to) : Waits(n, i) <=> Waits(m, i) /\ i # a
<1>1. \A b, x : /\ EphemeronAt(n, b) <=> EphemeronAt(m, b)
                /\ Pointer(n, b) <=> Pointer(m, b)
                /\ LinkOK(n, x) <=> LinkOK(m, x)
  BY DEF EphemeronAt, Copied, PutAt, Pointer, LinkOK
<1>2. Copied(n) = Copied(m) /\ Len(m.to) \in Nat
  BY SeqFacts DEF Copied, PutAt, IsSeq, MemoryOK, ShapeOK
<1>3. ~Waits(n, a)
  BY DEF Waits, PutAt
<1>4. \A i \in 1 .. Len(m.to) : Waits(n, i) <=> Waits(m, i) /\ i # a
  BY <1>3 DEF Waits, PutAt
<1>5. ShapeOK(n) /\ CopiesOK(n) /\ WeakOK(n)
  BY <1>2 DEF MemoryOK, ShapeOK, CopiesOK, WeakOK, PutAt
<1>6. WordsOK(n)
  <2>1. ASSUME NEW i \in 1 .. Len(m.to)
        PROVE  /\ IsOld(n.to[i]) => n.to[i] \in {"old"} \X Objs \X Nat
               /\ Waits(n, i) => n.to[i] = Skip(4) /\ EphemeronAt(n, i) /\ IsOld(n.to[Key(i)])
    <3>1. CASE i = a
      BY <1>3, <1>4, <3>1 DEF PutAt, IsOld
    <3>2. CASE i # a
      <4>1. n.to[i] = m.to[i]
        BY <3>2 DEF PutAt
      <4>2. ASSUME Waits(m, i)
            PROVE  m.to[i] = Skip(4) /\ EphemeronAt(m, i) /\ IsOld(m.to[Key(i)])
        BY <4>2 DEF MemoryOK, WordsOK
      <4>3. ASSUME Waits(m, i) PROVE n.to[Key(i)] = m.to[Key(i)]
        <5>1. Key(i) \in 1 .. Len(m.to) /\ Key(i) # a
          BY <1>2, <4>2, <4>3, EphemeronFacts DEF Key
        <5>2. QED
          BY <5>1 DEF PutAt
      <4>4. QED
        BY <1>1, <1>4, <4>1, <4>2, <4>3 DEF MemoryOK, WordsOK
    <3>3. QED
      BY <3>1, <3>2
  <2>2. QED
    BY <2>1 DEF WordsOK, PutAt
<1>7. LinksOK(n)
  <2>1. ASSUME NEW o \in Copied(m), Kind(o) = "ephemeron", NEW e, e = m.heart[o]
        PROVE  LinkOK(m, n.to[ListLink(e)]) /\ LinkOK(m, n.to[NextLink(e)])
    <3>1. EphemeronAt(m, e)
      BY <2>1 DEF EphemeronAt
    <3>2. ListLink(e) \in 1 .. Len(m.to) /\ NextLink(e) \in 1 .. Len(m.to)
      BY <3>1, EphemeronFacts DEF ListLink, NextLink
    <3>3. QED
      BY <3>1, <3>2, EphemeronFacts DEF PutAt
  <2>2. QED
    <3>1. n.heart = m.heart /\ n.list = m.list /\ n.queue = m.queue /\ n.bucket = m.bucket
      BY DEF PutAt
    <3>2. LinksOK(m)
      BY DEF MemoryOK
    <3>3. \A o \in Copied(n) : Kind(o) = "ephemeron" =>
            /\ LinkOK(n, n.to[ListLink(n.heart[o])])
            /\ LinkOK(n, n.to[NextLink(n.heart[o])])
      BY <1>1, <1>2, <2>1, <3>1
    <3>4. QED
      BY <1>1, <3>1, <3>2, <3>3 DEF LinksOK
<1>8. QED
  BY <1>4, <1>5, <1>6, <1>7 DEF MemoryOK

\* The same, with every ephemeron that waits still waiting.
LEMMA PutCorrect ==
  ASSUME heap \in Heaps, NEW m, MemoryOK(m), NEW a \in 1 .. Len(m.to), NEW w, NEW n,
         w[1] # "old", w[1] # "nmv", PutAt(m, n, a, w),
         \A e : EphemeronAt(m, e) =>
           /\ a \in {ListLink(e), NextLink(e)} => LinkOK(m, w)
           /\ Waits(m, e) => a # e /\ a # Key(e)
  PROVE  /\ MemoryOK(n)
         /\ \A i \in 1 .. Len(m.to) : Waits(n, i) <=> Waits(m, i)
<1>1. ~Waits(m, a)
  BY DEF MemoryOK, WordsOK
<1>2. QED
  BY <1>1, WordPut

\* The collector's own pointers may be set to any ephemeron.
LEMMA PointersCorrect ==
  ASSUME NEW m, MemoryOK(m), NEW n, Record(n), n.to = m.to, n.heart = m.heart,
         n.chain = m.chain, n.bucket \in [0 .. Buckets - 1 -> Nat],
         Pointer(m, n.list), Pointer(m, n.queue),
         \A b \in 0 .. Buckets - 1 : Pointer(m, n.bucket[b])
  PROVE  MemoryOK(n)
<1>1. \A b, x : /\ EphemeronAt(n, b) <=> EphemeronAt(m, b)
                /\ Pointer(n, b) <=> Pointer(m, b)
                /\ LinkOK(n, x) <=> LinkOK(m, x)
                /\ Waits(n, b) <=> Waits(m, b)
  BY DEF EphemeronAt, Copied, Pointer, LinkOK, Waits
<1>2. Copied(n) = Copied(m)
  BY DEF Copied
<1>3. ShapeOK(n) /\ CopiesOK(n) /\ WeakOK(n)
  BY <1>2 DEF MemoryOK, ShapeOK, CopiesOK, WeakOK
<1>4. WordsOK(n) /\ LinksOK(n)
  BY <1>1, <1>2 DEF MemoryOK, WordsOK, LinksOK
<1>5. QED
  BY <1>3, <1>4 DEF MemoryOK

LEMMA LinkFacts ==
  ASSUME heap \in Heaps, NEW m, MemoryOK(m)
  PROVE  /\ \A w : LinkOK(m, w) => Pointer(m, Link(w)) /\ w[1] # "old" /\ w[1] # "nmv"
         /\ \A a : Pointer(m, a) => LinkOK(m, AsLink(a)) /\ a \in Nat /\ Link(AsLink(a)) = a
<1>1. \A a : EphemeronAt(m, a) => a \in Nat /\ a # 0
  BY EphemeronFacts
<1>2. False[1] = "#f" /\ Link(False) = 0 /\ AsLink(0) = False
  BY DEF False, Link, AsLink
<1>3. \A a : a # 0 => /\ AsLink(a)[1] = "new" /\ AsLink(a)[2] = a /\ Link(AsLink(a)) = a
  BY DEF AsLink, Link
<1>4. QED
  BY <1>1, <1>2, <1>3 DEF LinkOK, Pointer

\* What the walk of the hash table may change: next links, the queue and the buckets.
LinkStep(m, n) ==
  /\ n.heart = m.heart /\ n.chain = m.chain /\ n.list = m.list /\ Len(n.to) = Len(m.to)
  /\ \A i \in 1 .. Len(m.to) :
       n.to[i] = m.to[i] \/ \E e : EphemeronAt(m, e) /\ i = NextLink(e)

LEMMA LinkStepTransitive ==
  ASSUME NEW m, NEW n, NEW r, LinkStep(m, n), LinkStep(n, r)
  PROVE  LinkStep(m, r)
<1>1. \A e : EphemeronAt(n, e) <=> EphemeronAt(m, e)
  BY DEF LinkStep, EphemeronAt, Copied
<1>2. QED
  BY <1>1 DEF LinkStep

\* A next link is set.
LEMMA NextLinkPut ==
  ASSUME heap \in Heaps, NEW m, MemoryOK(m), NEW e, EphemeronAt(m, e), NEW w, LinkOK(m, w),
         NEW n, n = [m EXCEPT !.to[NextLink(e)] = w]
  PROVE  MemoryOK(n) /\ LinkStep(m, n) /\ n.queue = m.queue /\ n.bucket = m.bucket
<1>1. w[1] # "old" /\ w[1] # "nmv"
  BY LinkFacts
<1>2. PutAt(m, n, NextLink(e), w)
  BY PutStep DEF MemoryOK, ShapeOK
<1>3. NextLink(e) \in 1 .. Len(m.to)
  BY EphemeronFacts DEF NextLink
<1>4. ASSUME NEW f, EphemeronAt(m, f), Waits(m, f) PROVE NextLink(e) # f /\ NextLink(e) # Key(f)
  BY <1>4, EphemeronFacts DEF NextLink, Key
<1>5. MemoryOK(n)
  BY <1>1, <1>2, <1>3, <1>4, PutCorrect
<1>6. QED
  BY <1>2, <1>5 DEF PutAt, LinkStep

WalkState(s) ==
  s = [mem |-> s.mem, at |-> s.at, done |-> s.done] /\ MemoryOK(s.mem) /\ Pointer(s.mem, s.at)

\* One round of the walk moves one entry of the bucket into the queue, or none.
LEMMA RoundCorrect ==
  ASSUME heap \in Heaps, HeapAssumption, NEW o \in Objs, NEW s, WalkState(s)
  PROVE  WalkState(Round(s, o)) /\ LinkStep(s.mem, Round(s, o).mem)
<1>1. PICK m : m = s.mem
  OBVIOUS
<1>2. PICK e : e = EntryAt(m, s.at, o)
  OBVIOUS
<1>3. MemoryOK(m) /\ LinkStep(m, m) /\ Pointer(m, s.at)
  BY <1>1 DEF WalkState, LinkStep
<1>4. Bucket(o) \in 0 .. Buckets - 1
  BY HeapFacts DEF Bucket
<1>5. Pointer(m, e)
  <2>1. CASE s.at = 0
    BY <1>2, <1>3, <1>4, <2>1 DEF EntryAt, MemoryOK, LinksOK
  <2>2. CASE s.at # 0
    <3>1. LinkOK(m, m.to[NextLink(s.at)])
      BY <1>3, <2>2, EphemeronFacts DEF Pointer
    <3>2. QED
      BY <1>2, <1>3, <2>2, <3>1, LinkFacts DEF EntryAt
  <2>3. QED
    BY <2>1, <2>2
<1>6. CASE e = 0
  <2>1. Round(s, o) = [s EXCEPT !.done = TRUE]
    BY <1>1, <1>2, <1>6 DEF Round
  <2>2. QED
    BY <1>1, <1>3, <2>1 DEF WalkState
<1>7. CASE e # 0
  <2>1. EphemeronAt(m, e)
    BY <1>5, <1>7 DEF Pointer
  <2>2. PICK rest : rest = m.to[NextLink(e)]
    OBVIOUS
  <2>3. LinkOK(m, rest) /\ Pointer(m, Link(rest)) /\ Link(rest) \in Nat
    BY <1>3, <2>1, <2>2, EphemeronFacts, LinkFacts
  <2>4. PICK u : u = IF s.at = 0 THEN [m EXCEPT !.bucket[Bucket(o)] = Link(rest)]
                     ELSE [m EXCEPT !.to[NextLink(s.at)] = rest]
    OBVIOUS
  <2>5. MemoryOK(u) /\ LinkStep(m, u) /\ u.queue = m.queue
    <3>1. CASE s.at = 0
      <4>1. u = [m EXCEPT !.bucket[Bucket(o)] = Link(rest)]
        BY <2>4, <3>1
      <4>2. /\ Record(u) /\ u.to = m.to /\ u.heart = m.heart /\ u.chain = m.chain
            /\ u.list = m.list /\ u.queue = m.queue
            /\ u.bucket = [m.bucket EXCEPT ![Bucket(o)] = Link(rest)]
        BY <1>3, <4>1 DEF MemoryOK, ShapeOK, Record
      <4>3. /\ u.bucket \in [0 .. Buckets - 1 -> Nat]
            /\ \A b \in 0 .. Buckets - 1 : Pointer(m, u.bucket[b])
        BY <1>3, <1>4, <2>3, <4>2 DEF MemoryOK, ShapeOK, LinksOK
      <4>4. Pointer(m, u.list) /\ Pointer(m, u.queue)
        BY <1>3, <4>2 DEF MemoryOK, LinksOK
      <4>5. MemoryOK(u)
        BY <1>3, <4>2, <4>3, <4>4, PointersCorrect
      <4>6. QED
        BY <4>2, <4>5 DEF LinkStep
    <3>2. CASE s.at # 0
      <4>1. EphemeronAt(m, s.at)
        BY <1>3, <3>2 DEF Pointer
      <4>2. u = [m EXCEPT !.to[NextLink(s.at)] = rest]
        BY <2>4, <3>2
      <4>3. QED
        BY <1>3, <2>3, <4>1, <4>2, NextLinkPut
    <3>3. QED
      BY <3>1, <3>2
  <2>6. PICK v : v = [u EXCEPT !.to[NextLink(e)] = AsLink(m.queue)]
    OBVIOUS
  <2>7. EphemeronAt(u, e) /\ LinkOK(u, AsLink(m.queue))
    <3>1. EphemeronAt(u, e)
      BY <2>1, <2>5 DEF LinkStep, EphemeronAt, Copied
    <3>2. Pointer(u, m.queue)
      BY <2>5 DEF MemoryOK, LinksOK
    <3>3. QED
      BY <2>5, <3>1, <3>2, LinkFacts
  <2>8. MemoryOK(v) /\ LinkStep(u, v) /\ EphemeronAt(v, e)
    <3>1. MemoryOK(v) /\ LinkStep(u, v)
      BY <2>5, <2>6, <2>7, NextLinkPut
    <3>2. QED
      BY <2>7, <3>1 DEF LinkStep, EphemeronAt, Copied
  <2>9. PICK q : q = [v EXCEPT !.queue = e]
    OBVIOUS
  <2>10. MemoryOK(q) /\ LinkStep(v, q) /\ EphemeronAt(q, e)
    <3>1. /\ Record(q) /\ q.to = v.to /\ q.heart = v.heart /\ q.chain = v.chain
          /\ q.list = v.list /\ q.queue = e /\ q.bucket = v.bucket
      BY <2>8, <2>9 DEF MemoryOK, ShapeOK, Record
    <3>2. /\ Pointer(v, q.list) /\ Pointer(v, q.queue)
          /\ q.bucket \in [0 .. Buckets - 1 -> Nat]
          /\ \A b \in 0 .. Buckets - 1 : Pointer(v, q.bucket[b])
      BY <2>8, <3>1 DEF MemoryOK, ShapeOK, LinksOK, Pointer
    <3>3. MemoryOK(q)
      BY <2>8, <3>1, <3>2, PointersCorrect
    <3>4. QED
      BY <2>8, <3>1, <3>3 DEF LinkStep, EphemeronAt, Copied
  <2>11. q = [u EXCEPT !.to[NextLink(e)] = AsLink(m.queue), !.queue = e]
    BY <2>6, <2>9
  <2>12. LinkStep(m, q)
    BY <2>5, <2>8, <2>10, LinkStepTransitive
  <2>13. Round(s, o) = [s EXCEPT !.at = e, !.mem = IF KeyIs(m, e, o) THEN q ELSE m]
    BY <1>1, <1>2, <1>7, <2>2, <2>4, <2>11 DEF Round
  <2>14. PICK n : n = IF KeyIs(m, e, o) THEN q ELSE m
    OBVIOUS
  <2>15. MemoryOK(n) /\ LinkStep(m, n) /\ Pointer(n, e)
    BY <1>3, <2>1, <2>10, <2>12, <2>14 DEF Pointer
  <2>16. Round(s, o) = [mem |-> n, at |-> e, done |-> s.done]
    BY <2>13, <2>14 DEF WalkState
  <2>17. QED
    BY <1>1, <2>15, <2>16 DEF WalkState
<1>8. QED
  BY <1>6, <1>7

\* The rounds of the walk, after as many as it can have.
Walks(f, n, m, o) ==
  f = [k \in 0 .. n |-> IF k = 0 THEN [mem |-> m, at |-> 0, done |-> FALSE]
                        ELSE LET s == f[k-1] IN IF s.done THEN s ELSE Round(s, o)]

\* The rounds of a walk of a bucket as a function of their number.
LEMMA WalkExists ==
  ASSUME NEW n \in Nat, NEW m, NEW o
  PROVE  \E f : Walks(f, n, m, o)
<1> DEFINE Start == [mem |-> m, at |-> 0, done |-> FALSE]
           Step(s) == IF s.done THEN s ELSE Round(s, o)
           Runs(f, k) == f = [i \in 0 .. k |-> IF i = 0 THEN Start ELSE Step(f[i-1])]
           S == {k \in Nat : \E f : Runs(f, k)}
<1> HIDE DEF Step, Start
<1>1. 0 \in S
  <2>1. Runs([i \in 0 .. 0 |-> Start], 0)
    OBVIOUS
  <2>2. QED
    BY <2>1
<1>2. ASSUME NEW k \in Nat, k \in S PROVE k + 1 \in S
  <2>1. PICK f : Runs(f, k)
    BY <1>2
  <2> DEFINE g == [i \in 0 .. k + 1 |-> IF i = k + 1 THEN Step(f[k]) ELSE f[i]]
  <2>2. ASSUME NEW i \in 0 .. k + 1 PROVE g[i] = IF i = 0 THEN Start ELSE Step(g[i-1])
    <3>1. CASE i = 0
      BY <2>1, <3>1
    <3>2. CASE i = k + 1
      <4>1. i - 1 = k /\ k \in 0 .. k + 1 /\ k # k + 1 /\ i # 0
        BY <3>2
      <4>2. QED
        BY <3>2, <4>1
    <3>3. CASE i # 0 /\ i # k + 1
      <4>1. i \in 0 .. k /\ i - 1 \in 0 .. k + 1 /\ i - 1 # k + 1
        BY <3>3
      <4>2. g[i] = f[i] /\ g[i-1] = f[i-1] /\ f[i] = Step(f[i-1])
        BY <2>1, <3>3, <4>1
      <4>3. QED
        BY <3>3, <4>2
    <3>4. QED
      BY <3>1, <3>2, <3>3
  <2>3. g = [i \in 0 .. k + 1 |-> g[i]]
    OBVIOUS
  <2> HIDE DEF g
  <2>4. Runs(g, k + 1)
    BY <2>2, <2>3
  <2>5. QED
    BY <2>4
<1>3. Nat \subseteq S
  <2> HIDE DEF S
  <2>1. QED
    BY <1>1, <1>2, SetInduction
<1>4. PICK f : Runs(f, n)
  BY <1>3
<1>5. QED
  BY <1>4 DEF Walks, Start, Step

LEMMA RoundsType ==
  ASSUME heap \in Heaps, HeapAssumption
  PROVE  Rounds \in Nat
<1>1. {o \in Objs : Kind(o) = "ephemeron"} \subseteq Objs
  OBVIOUS
<1>2. IsFiniteSet({o \in Objs : Kind(o) = "ephemeron"})
  BY <1>1, HeapFacts, FS_Subset
<1>3. QED
  BY <1>2, FS_CardinalityType DEF Rounds

LEMMA WalkDefined ==
  ASSUME heap \in Heaps, HeapAssumption, NEW m, NEW o
  PROVE  \E f : /\ Walks(f, Rounds, m, o)
                /\ queue_ephemerons_for_key(m, o) =
                     IF f[Rounds].done THEN f[Rounds].mem ELSE [m EXCEPT !.hung = TRUE]
<1>1. PICK g : g = CHOOSE f : Walks(f, Rounds, m, o)
  OBVIOUS
<1>2. Walks(g, Rounds, m, o)
  BY <1>1, WalkExists, RoundsType
<1>3. queue_ephemerons_for_key(m, o) =
        IF g[Rounds].done THEN g[Rounds].mem ELSE [m EXCEPT !.hung = TRUE]
  BY <1>1 DEF Walks, queue_ephemerons_for_key
<1>4. QED
  BY <1>2, <1>3

\* queue_ephemerons_for_key changes links only, and leaves them links.
LEMMA QueueCorrect ==
  ASSUME heap \in Heaps, HeapAssumption, NEW m, MemoryOK(m), NEW o \in Objs,
         NEW n, n = queue_ephemerons_for_key(m, o)
  PROVE  MemoryOK(n) /\ LinkStep(m, n)
<1>1. PICK f : /\ Walks(f, Rounds, m, o)
               /\ n = IF f[Rounds].done THEN f[Rounds].mem ELSE [m EXCEPT !.hung = TRUE]
  BY WalkDefined
<1> DEFINE S == {k \in Nat : k <= Rounds => WalkState(f[k]) /\ LinkStep(m, f[k].mem)}
<1>2. 0 \in S
  <2>1. f[0] = [mem |-> m, at |-> 0, done |-> FALSE]
    BY <1>1, RoundsType DEF Walks
  <2>2. QED
    BY <2>1 DEF WalkState, Pointer, LinkStep
<1>3. ASSUME NEW k \in Nat, k \in S PROVE k + 1 \in S
  <2> SUFFICES ASSUME k + 1 <= Rounds
               PROVE  WalkState(f[k + 1]) /\ LinkStep(m, f[k + 1].mem)
    OBVIOUS
  <2>1. k + 1 \in 0 .. Rounds /\ (k + 1) - 1 = k /\ k + 1 # 0 /\ k <= Rounds
    BY RoundsType
  <2>2. f[k + 1] = IF f[k].done THEN f[k] ELSE Round(f[k], o)
    BY <1>1, <2>1 DEF Walks
  <2>3. WalkState(f[k]) /\ LinkStep(m, f[k].mem)
    BY <1>3, <2>1
  <2>4. WalkState(Round(f[k], o)) /\ LinkStep(f[k].mem, Round(f[k], o).mem)
    BY <2>3, RoundCorrect
  <2>5. LinkStep(m, Round(f[k], o).mem)
    BY <2>3, <2>4, LinkStepTransitive
  <2>6. QED
    BY <2>2, <2>3, <2>4, <2>5
<1>4. Nat \subseteq S
  <2> HIDE DEF S
  <2>1. QED
    BY <1>2, <1>3, SetInduction
<1>5. MemoryOK(f[Rounds].mem) /\ LinkStep(m, f[Rounds].mem)
  <2>1. Rounds \in S /\ Rounds <= Rounds
    BY <1>4, RoundsType
  <2>2. QED
    BY <2>1 DEF WalkState
<1>6. ASSUME n = [m EXCEPT !.hung = TRUE] PROVE MemoryOK(n) /\ LinkStep(m, n)
  <2>1. /\ Record(n) /\ n.to = m.to /\ n.heart = m.heart /\ n.chain = m.chain
        /\ n.list = m.list /\ n.queue = m.queue /\ n.bucket = m.bucket
    BY <1>6 DEF MemoryOK, ShapeOK, Record
  <2>2. MemoryOK(n)
    BY <2>1, PointersCorrect DEF MemoryOK, ShapeOK, LinksOK
  <2>3. QED
    BY <2>1, <2>2 DEF LinkStep
<1>7. QED
  BY <1>1, <1>5, <1>6

-----------------------------------------------------------------------------
\* Copying.

\* n is a later memory than m: objects stay where they are, new copies come behind the
\* old words, and a pointer into fromspace or a header stays what it is.
Extends(m, n) ==
  /\ Len(n.to) >= Len(m.to)
  /\ \A o \in Objs : IF m.heart[o] # 0 THEN n.heart[o] = m.heart[o]
                     ELSE n.heart[o] = 0 \/ n.heart[o] > Len(m.to)
  /\ \A i \in 1 .. Len(m.to) :
       (Waits(n, i) <=> Waits(m, i)) /\ (IsOld(m.to[i]) => n.to[i] = m.to[i])

\* Tospace has its two first words, and hearts are addresses.
LEMMA LengthType ==
  ASSUME NEW m, MemoryOK(m)
  PROVE  Len(m.to) \in Nat /\ Len(m.to) >= 2 /\ \A o \in Objs : m.heart[o] \in Nat
BY SeqFacts DEF MemoryOK, ShapeOK, IsSeq

LEMMA ExtendsTransitive ==
  ASSUME NEW m, NEW n, NEW r, MemoryOK(m), MemoryOK(n), MemoryOK(r), Extends(m, n), Extends(n, r)
  PROVE  Extends(m, r)
<1>1. Len(m.to) \in Nat /\ Len(n.to) \in Nat /\ Len(r.to) \in Nat
  BY LengthType
<1>2. Len(r.to) >= Len(m.to)
  BY <1>1 DEF Extends
<1>3. ASSUME NEW o \in Objs
      PROVE  IF m.heart[o] # 0 THEN r.heart[o] = m.heart[o]
             ELSE r.heart[o] = 0 \/ r.heart[o] > Len(m.to)
  <2>1. m.heart[o] \in Nat /\ n.heart[o] \in Nat /\ r.heart[o] \in Nat
    BY LengthType
  <2>2. QED
    BY <1>1, <2>1 DEF Extends
<1>4. ASSUME NEW i \in 1 .. Len(m.to)
      PROVE  (Waits(r, i) <=> Waits(m, i)) /\ (IsOld(m.to[i]) => r.to[i] = m.to[i])
  <2>1. i \in 1 .. Len(n.to)
    BY <1>1 DEF Extends
  <2>2. QED
    BY <2>1 DEF Extends
<1>5. QED
  BY <1>2, <1>3, <1>4 DEF Extends

LEMMA ExtendsSame ==
  ASSUME NEW m, MemoryOK(m)
  PROVE  Extends(m, m)
BY LengthType DEF Extends

LEMMA EphemeronStays ==
  ASSUME NEW m, MemoryOK(m), NEW n, Extends(m, n)
  PROVE  \A a : EphemeronAt(m, a) => EphemeronAt(n, a)
BY DEF EphemeronAt, Copied, Extends

\* The list stays in order while its links and the headers of its ephemerons do.
LEMMA ListKept ==
  ASSUME heap \in Heaps, NEW m, MemoryOK(m), ListOK(m), NEW n, Extends(m, n), n.list = m.list,
         \A e : EphemeronAt(m, e) => n.to[ListLink(e)] = m.to[ListLink(e)],
         \A e : EphemeronAt(n, e) => EphemeronAt(m, e) \/ n.to[ListLink(e)] = False
  PROVE  ListOK(n)
<1>1. ASSUME NEW f, EphemeronAt(m, f), Waits(m, f) PROVE Waits(n, f)
  <2>1. f \in 1 .. Len(m.to)
    BY <1>1, EphemeronFacts
  <2>2. QED
    BY <1>1, <2>1 DEF Extends
<1>2. n.list # 0 => Waits(n, n.list)
  BY <1>1 DEF ListOK, MemoryOK, LinksOK, Pointer
<1>3. ASSUME NEW o \in Copied(n), Kind(o) = "ephemeron"
      PROVE  n.to[ListLink(n.heart[o])] = False \/ Waits(n, Link(n.to[ListLink(n.heart[o])]))
  <2>1. PICK e : e = n.heart[o] /\ EphemeronAt(n, e)
    BY <1>3 DEF EphemeronAt
  <2>2. CASE n.to[ListLink(e)] = False
    BY <2>1, <2>2
  <2>3. CASE n.to[ListLink(e)] # False
    <3>1. EphemeronAt(m, e) /\ n.to[ListLink(e)] = m.to[ListLink(e)]
      BY <2>1, <2>3
    <3>2. PICK f : f = Link(m.to[ListLink(e)])
      OBVIOUS
    <3>3. EphemeronAt(m, f)
      <4>1. LinkOK(m, m.to[ListLink(e)])
        BY <3>1, EphemeronFacts
      <4>2. m.to[ListLink(e)] = AsLink(m.to[ListLink(e)][2])
            /\ EphemeronAt(m, m.to[ListLink(e)][2])
        BY <2>3, <3>1, <4>1 DEF LinkOK
      <4>3. QED
        BY <3>2, <4>2, LinkFacts DEF Pointer
    <3>4. Waits(m, f)
      <4>1. PICK p \in Copied(m) : Kind(p) = "ephemeron" /\ e = m.heart[p]
        BY <3>1 DEF EphemeronAt
      <4>2. QED
        BY <2>3, <3>1, <3>2, <4>1 DEF ListOK
    <3>5. QED
      BY <1>1, <2>1, <3>1, <3>2, <3>3, <3>4
  <2>4. QED
    BY <2>2, <2>3
<1>4. QED
  BY <1>2, <1>3 DEF ListOK

LEMMA LinkStepExtends ==
  ASSUME heap \in Heaps, NEW m, MemoryOK(m), NEW n, MemoryOK(n), LinkStep(m, n)
  PROVE  Extends(m, n) /\ (ListOK(m) => ListOK(n))
<1>1. \A e : EphemeronAt(n, e) <=> EphemeronAt(m, e)
  BY DEF LinkStep, EphemeronAt, Copied
<1>2. ASSUME NEW i \in 1 .. Len(m.to)
      PROVE  (Waits(n, i) <=> Waits(m, i)) /\ (IsOld(m.to[i]) => n.to[i] = m.to[i])
  <2>1. CASE n.to[i] = m.to[i]
    BY <2>1 DEF Waits
  <2>2. CASE n.to[i] # m.to[i]
    <3>1. PICK e : EphemeronAt(m, e) /\ i = NextLink(e)
      BY <2>2 DEF LinkStep
    <3>2. LinkOK(m, m.to[i]) /\ LinkOK(n, n.to[i])
      BY <1>1, <3>1, EphemeronFacts
    <3>3. QED
      BY <3>2, LinkFacts DEF Waits, IsOld
  <2>3. QED
    BY <2>1, <2>2
<1>3. Extends(m, n)
  BY <1>2, LengthType DEF Extends, LinkStep
<1>4. ASSUME ListOK(m) PROVE ListOK(n)
  <2>1. ASSUME NEW e, EphemeronAt(m, e) PROVE n.to[ListLink(e)] = m.to[ListLink(e)]
    <3>1. ListLink(e) \in 1 .. Len(m.to)
      BY <2>1, EphemeronFacts DEF ListLink
    <3>2. ASSUME NEW f, EphemeronAt(m, f) PROVE ListLink(e) # NextLink(f)
      BY <2>1, <3>2, EphemeronFacts DEF ListLink, NextLink
    <3>3. QED
      BY <3>1, <3>2 DEF LinkStep
  <2>2. n.list = m.list
    BY DEF LinkStep
  <2>3. QED
    BY <1>1, <1>3, <1>4, <2>1, <2>2, ListKept
<1>5. QED
  BY <1>3, <1>4

\* gc_transport_words: o is copied behind the last word.
LEMMA TransportCorrect ==
  ASSUME heap \in Heaps, HeapAssumption, NEW m, MemoryOK(m), NEW o \in Objs, m.heart[o] = 0,
         NEW t, t = Transport(m, o)
  PROVE  /\ MemoryOK(t) /\ Extends(m, t) /\ (ListOK(m) => ListOK(t))
         /\ t.heart[o] = Len(m.to) + 1 /\ \A p \in Objs \ {o} : t.heart[p] = m.heart[p]
         /\ t.chain = m.chain /\ t.list = m.list /\ t.queue = m.queue /\ t.bucket = m.bucket
         /\ Len(t.to) = Len(m.to) + Size(o)
         /\ \A i \in 1 .. Len(m.to) : t.to[i] = m.to[i]
         /\ \A i \in 1 .. Size(o) : t.to[Len(m.to) + i] = Words(o)[i]
<1> DEFINE L == Len(m.to)
<1>1. L \in Nat /\ L >= 2 /\ IsSeq(m.to) /\ Record(m) /\ m.heart \in [Objs -> Nat]
  BY LengthType DEF MemoryOK, ShapeOK
<1>2. /\ IsSeq(Words(o)) /\ Size(o) \in Nat \ {0} /\ Size(o) = Len(Words(o))
      /\ \A i \in 1 .. Size(o) : Words(o)[i] \in HeapWords(Objs) \/ Words(o)[i] = Manifest
  BY WordsFacts
<1>3. PICK u : u = m.to \o Words(o)
  OBVIOUS
<1>4. /\ IsSeq(u) /\ Len(u) = L + Size(o)
      /\ \A i \in 1 .. L : u[i] = m.to[i]
      /\ \A i \in 1 .. Size(o) : u[L + i] = Words(o)[i]
  BY <1>1, <1>2, <1>3, ConcatFacts
<1>5. t = [m EXCEPT !.to = u, !.heart[o] = L + 1]
  BY <1>3 DEF Transport
<1>6. /\ Record(t) /\ t.to = u /\ t.heart = [m.heart EXCEPT ![o] = L + 1]
      /\ t.chain = m.chain /\ t.list = m.list /\ t.queue = m.queue /\ t.bucket = m.bucket
  BY <1>1, <1>5 DEF Record
<1>7. ASSUME NEW i \in 1 .. Len(t.to)
      PROVE  \/ i \in 1 .. L /\ t.to[i] = m.to[i]
             \/ i \notin 1 .. L /\ (t.to[i] \in HeapWords(Objs) \/ t.to[i] = Manifest)
  <2>1. CASE i \in 1 .. L
    BY <1>4, <1>6, <2>1
  <2>2. CASE i \notin 1 .. L
    <3>1. i - L \in 1 .. Size(o) /\ L + (i - L) = i
      BY <1>1, <1>2, <1>4, <1>6, <2>2
    <3>2. t.to[i] = Words(o)[i - L]
      BY <1>4, <1>6, <3>1
    <3>3. QED
      BY <1>2, <2>2, <3>1, <3>2
  <2>3. QED
    BY <2>1, <2>2
<1>8. ASSUME NEW i \in 1 .. Len(t.to), i \notin 1 .. L
      PROVE  ~Waits(t, i) /\ (IsOld(t.to[i]) => t.to[i] \in {"old"} \X Objs \X Nat)
  <2>1. t.to[i] \in HeapWords(Objs) \/ t.to[i] = Manifest
    BY <1>7, <1>8
  <2>2. CASE t.to[i] = Manifest
    BY <2>2 DEF Manifest, Waits, IsOld
  <2>3. CASE t.to[i] \in HeapWords(Objs)
    BY <2>3, HeapWordFacts DEF Waits
  <2>4. QED
    BY <2>1, <2>2, <2>3
<1>9. Copied(t) = Copied(m) \cup {o} /\ t.heart[o] = L + 1 /\ o \notin Copied(m)
      /\ \A p \in Copied(m) : t.heart[p] = m.heart[p]
  BY <1>1, <1>6 DEF Copied
<1>10. Extends(m, t)
  <2>1. \A i \in 1 .. L : (Waits(t, i) <=> Waits(m, i)) /\ t.to[i] = m.to[i]
    BY <1>4, <1>6 DEF Waits
  <2>2. QED
    BY <1>1, <1>2, <1>4, <1>6, <2>1 DEF Extends
<1>11. ASSUME NEW e PROVE EphemeronAt(t, e) <=> (EphemeronAt(m, e) \/ (Kind(o) = "ephemeron" /\ e = L + 1))
  BY <1>9 DEF EphemeronAt
<1>12. ShapeOK(t)
  <2>1. t.heart \in [Objs -> Nat]
    BY <1>1, <1>6
  <2>2. QED
    BY <1>1, <1>2, <1>4, <1>6, <2>1 DEF ShapeOK, MemoryOK
<1>13. CopiesOK(t)
  <2>1. ASSUME NEW p \in Copied(m)
        PROVE  /\ m.heart[p] >= 3 /\ m.heart[p] + Size(p) <= L + 1
               /\ m.heart[p] \in Nat /\ Size(p) \in Nat \ {0}
    BY <2>1, <1>1, WordsFacts DEF MemoryOK, CopiesOK, Copied
  <2>2. \A p \in Copied(t) : t.heart[p] >= 3 /\ t.heart[p] + Size(p) <= Len(t.to) + 1
    BY <1>1, <1>2, <1>4, <1>6, <1>9, <2>1
  <2>3. ASSUME NEW p \in Copied(t), NEW q \in Copied(t)
        PROVE  p = q \/ t.heart[p] + Size(p) <= t.heart[q] \/ t.heart[q] + Size(q) <= t.heart[p]
    <3>1. CASE p \in Copied(m) /\ q \in Copied(m)
      BY <1>9, <3>1 DEF MemoryOK, CopiesOK
    <3>2. CASE p = o /\ q \in Copied(m)
      BY <1>9, <2>1, <3>2
    <3>3. CASE q = o /\ p \in Copied(m)
      BY <1>9, <2>1, <3>3
    <3>4. QED
      BY <1>9, <3>1, <3>2, <3>3
  <2>4. ASSUME NEW a \in 3 .. Len(t.to)
        PROVE  \E p \in Copied(t) : t.heart[p] <= a /\ a < t.heart[p] + Size(p)
    <3>1. CASE a \in 3 .. L
      BY <1>9, <3>1 DEF MemoryOK, CopiesOK
    <3>2. CASE a \notin 3 .. L
      <4>1. Len(t.to) = L + Size(o)
        BY <1>4, <1>6
      <4>2. L + 1 <= a /\ a < L + 1 + Size(o)
        BY <1>1, <1>2, <3>2, <4>1
      <4>3. o \in Copied(t) /\ t.heart[o] <= a /\ a < t.heart[o] + Size(o)
        BY <1>9, <4>2
      <4>4. QED
        BY <4>3
    <3>3. QED
      BY <3>1, <3>2
  <2>5. QED
    BY <2>2, <2>3, <2>4 DEF CopiesOK
<1>14. WordsOK(t)
  <2>1. ASSUME NEW i \in 1 .. Len(t.to)
        PROVE  /\ IsOld(t.to[i]) => t.to[i] \in {"old"} \X Objs \X Nat
               /\ Waits(t, i) => t.to[i] = Skip(4) /\ EphemeronAt(t, i) /\ IsOld(t.to[Key(i)])
    <3>1. CASE i \in 1 .. L
      <4>1. t.to[i] = m.to[i] /\ (Waits(t, i) <=> Waits(m, i))
        BY <1>4, <1>6, <3>1 DEF Waits
      <4>2. IsOld(m.to[i]) => m.to[i] \in {"old"} \X Objs \X Nat
        BY <3>1 DEF MemoryOK, WordsOK
      <4>3. ASSUME Waits(m, i)
            PROVE  m.to[i] = Skip(4) /\ EphemeronAt(m, i) /\ IsOld(t.to[Key(i)])
        <5>1. m.to[i] = Skip(4) /\ EphemeronAt(m, i) /\ IsOld(m.to[Key(i)])
          BY <3>1, <4>3 DEF MemoryOK, WordsOK
        <5>2. Key(i) \in 1 .. L
          BY <5>1, EphemeronFacts DEF Key
        <5>3. QED
          BY <1>4, <1>6, <5>1, <5>2
      <4>4. QED
        BY <1>11, <4>1, <4>2, <4>3
    <3>2. CASE i \notin 1 .. L
      BY <1>8, <3>2
    <3>3. QED
      BY <3>1, <3>2
  <2>2. QED
    BY <2>1 DEF WordsOK
<1>15. \A e : EphemeronAt(m, e) => /\ t.to[ListLink(e)] = m.to[ListLink(e)]
                                   /\ t.to[NextLink(e)] = m.to[NextLink(e)]
  <2>1. ASSUME NEW e, EphemeronAt(m, e) PROVE ListLink(e) \in 1 .. L /\ NextLink(e) \in 1 .. L
    BY <2>1, EphemeronFacts DEF ListLink, NextLink
  <2>2. QED
    BY <1>4, <1>6, <2>1
<1>16. Kind(o) = "ephemeron" => t.to[ListLink(L + 1)] = False /\ t.to[NextLink(L + 1)] = False
  <2>1. ASSUME Kind(o) = "ephemeron"
        PROVE  t.to[ListLink(L + 1)] = False /\ t.to[NextLink(L + 1)] = False
    <3>1. Size(o) = 5 /\ Words(o)[4] = False /\ Words(o)[5] = False
      BY <2>1, WordsFacts DEF EphemeronSize
    <3>2. ListLink(L + 1) = L + 4 /\ NextLink(L + 1) = L + 5
      BY <1>1 DEF ListLink, NextLink
    <3>3. QED
      BY <1>4, <1>6, <3>1, <3>2
  <2>2. QED
    BY <2>1
<1>17. LinksOK(t)
  <2>1. \A x : Pointer(m, x) => Pointer(t, x)
    BY <1>11 DEF Pointer
  <2>2. \A w : LinkOK(m, w) => LinkOK(t, w)
    BY <1>11 DEF LinkOK
  <2>3. ASSUME NEW p \in Copied(t), Kind(p) = "ephemeron"
        PROVE  LinkOK(t, t.to[ListLink(t.heart[p])]) /\ LinkOK(t, t.to[NextLink(t.heart[p])])
    <3>1. PICK e : e = t.heart[p] /\ EphemeronAt(t, e)
      BY <2>3 DEF EphemeronAt
    <3>2. CASE EphemeronAt(m, e)
      BY <1>15, <2>2, <3>1, <3>2, EphemeronFacts
    <3>3. CASE Kind(o) = "ephemeron" /\ e = L + 1
      BY <1>16, <3>1, <3>3 DEF LinkOK
    <3>4. QED
      BY <1>11, <3>1, <3>2, <3>3
  <2>4. QED
    BY <1>6, <2>1, <2>3 DEF LinksOK, MemoryOK
<1>18. WeakOK(t)
  <2>1. \A p \in Objs : m.heart[p] # 0 => t.heart[p] # 0
    BY <1>9 DEF Copied
  <2>2. \A i \in 1 .. Len(m.chain) : m.chain[i] \in Objs
    BY ElementOfSeq DEF MemoryOK, WeakOK
  <2>3. QED
    BY <1>6, <2>1, <2>2 DEF MemoryOK, WeakOK
<1>19. MemoryOK(t)
  BY <1>12, <1>13, <1>14, <1>17, <1>18 DEF MemoryOK
<1>20. ListOK(m) => ListOK(t)
  BY <1>6, <1>10, <1>11, <1>15, <1>16, ListKept
<1>21. t.heart[o] = L + 1 /\ \A p \in Objs \ {o} : t.heart[p] = m.heart[p]
  BY <1>1, <1>6
<1>22. QED
  BY <1>4, <1>6, <1>10, <1>19, <1>20, <1>21

\* A memory that is later than another and as well formed.
Later(m, n) == MemoryOK(n) /\ Extends(m, n) /\ (ListOK(m) => ListOK(n))

LEMMA LaterTransitive ==
  ASSUME NEW m, NEW n, NEW r, MemoryOK(m), Later(m, n), Later(n, r)
  PROVE  Later(m, r)
BY ExtendsTransitive DEF Later

\* gc_transport_weak_pair.
LEMMA WeakPairCorrect ==
  ASSUME heap \in Heaps, HeapAssumption, NEW m, MemoryOK(m), NEW o \in Objs, m.heart[o] = 0,
         Kind(o) = "weak", NEW n, n = gc_transport_weak_pair(m, o)
  PROVE  Later(m, n) /\ n.heart[o] # 0
<1>1. PICK t : t = Transport(m, o)
  OBVIOUS
<1>2. PICK a : a = Len(m.to) + 1
  OBVIOUS
<1>3. /\ MemoryOK(t) /\ Extends(m, t) /\ (ListOK(m) => ListOK(t))
      /\ t.heart[o] = Len(m.to) + 1 /\ \A p \in Objs \ {o} : t.heart[p] = m.heart[p]
      /\ t.chain = m.chain /\ t.list = m.list
      /\ Len(t.to) = Len(m.to) + Size(o)
      /\ \A i \in 1 .. Len(m.to) : t.to[i] = m.to[i]
  BY <1>1, TransportCorrect
<1>4. Size(o) = 2 /\ Len(m.to) \in Nat /\ a \in 1 .. Len(t.to) /\ a > Len(m.to)
  BY <1>2, <1>3, WordsFacts, LengthType
<1>5. t.heart[o] = a /\ a # 0
  BY <1>2, <1>3, <1>4 DEF MemoryOK, ShapeOK
<1>6. ASSUME NEW e, EphemeronAt(t, e) PROVE EphemeronAt(m, e) /\ e + 4 < a /\ e \in Nat
  <2>1. EphemeronAt(m, e)
    BY <1>3, <1>6 DEF EphemeronAt, Copied, MemoryOK, ShapeOK
  <2>2. QED
    BY <1>4, <2>1, EphemeronFacts
<1>7. CASE IsOld(Fields(o)[1])
  <2>1. PICK w : w = <<"weak", Fields(o)[1][2], Fields(o)[1][3]>>
    OBVIOUS
  <2>2. PICK u : u = [t EXCEPT !.to[a] = w]
    OBVIOUS
  <2>3. PutAt(t, u, a, w)
    BY <1>3, <2>2, PutStep DEF MemoryOK, ShapeOK
  <2>4. w[1] # "old" /\ w[1] # "nmv"
    BY <2>1
  <2>5. MemoryOK(u) /\ \A i \in 1 .. Len(t.to) : Waits(u, i) <=> Waits(t, i)
    <3>1. ASSUME NEW e, EphemeronAt(t, e)
          PROVE  a \notin {ListLink(e), NextLink(e)} /\ a # e /\ a # Key(e)
      BY <1>4, <1>6, <3>1 DEF ListLink, NextLink, Key
    <3>2. QED
      BY <1>3, <1>4, <2>3, <2>4, <3>1, PutCorrect
  <2>6. PICK c : c = <<o>> \o m.chain
    OBVIOUS
  <2>7. /\ c \in Seq(Objs) /\ Len(c) = 1 + Len(m.chain) /\ Len(m.chain) \in Nat
        /\ \A i \in 1 .. Len(c) : c[i] = IF i <= 1 THEN o ELSE m.chain[i - 1]
    BY <2>6, ConcatProperties DEF MemoryOK, WeakOK
  <2>8. n = [u EXCEPT !.chain = c]
    <3>1. n = [t EXCEPT !.to[a] = w, !.chain = <<o>> \o @]
      BY <1>1, <1>2, <1>7, <2>1 DEF gc_transport_weak_pair
    <3>2. n = [t EXCEPT !.to[a] = w, !.chain = c]
      BY <1>3, <2>6, <3>1
    <3>3. QED
      BY <2>2, <3>2
  <2>9. /\ Record(n) /\ n.to = u.to /\ n.heart = t.heart /\ n.chain = c /\ n.list = t.list
        /\ n.queue = u.queue /\ n.bucket = u.bucket
    BY <2>3, <2>8 DEF PutAt, Record
  <2>10. n.heart = u.heart /\ n.list = u.list /\ u.heart = t.heart
    BY <2>3, <2>9 DEF PutAt
  <2>11. \A b, x : /\ EphemeronAt(n, b) <=> EphemeronAt(u, b)
                   /\ Pointer(n, b) <=> Pointer(u, b)
                   /\ LinkOK(n, x) <=> LinkOK(u, x)
                   /\ Waits(n, b) <=> Waits(u, b)
    BY <2>9, <2>10 DEF EphemeronAt, Copied, Pointer, LinkOK, Waits
  <2>12. Copied(n) = Copied(u)
    BY <2>10 DEF Copied
  <2>13. WeakOK(n)
    <3>1. ASSUME NEW i \in 1 .. Len(c) PROVE Kind(c[i]) = "weak" /\ n.heart[c[i]] # 0
      <4>1. CASE i <= 1
        BY <1>5, <2>7, <2>9, <4>1
      <4>2. CASE ~(i <= 1)
        <5>1. c[i] = m.chain[i - 1] /\ i - 1 \in 1 .. Len(m.chain)
          BY <2>7, <4>2
        <5>2. Kind(c[i]) = "weak" /\ t.heart[c[i]] # 0
          BY <1>3, <5>1 DEF MemoryOK, WeakOK
        <5>3. QED
          BY <2>9, <5>2
      <4>3. QED
        BY <4>1, <4>2
    <3>2. QED
      BY <2>7, <2>9, <3>1 DEF WeakOK
  <2>14. MemoryOK(n)
    <3>1. ShapeOK(n) /\ CopiesOK(n)
      BY <2>5, <2>9, <2>10, <2>12 DEF MemoryOK, ShapeOK, CopiesOK
    <3>2. WordsOK(n)
      BY <2>5, <2>9, <2>11 DEF MemoryOK, WordsOK
    <3>3. LinksOK(n)
      BY <2>5, <2>9, <2>10, <2>11, <2>12 DEF MemoryOK, LinksOK
    <3>4. QED
      BY <2>13, <3>1, <3>2, <3>3 DEF MemoryOK
  <2>15. ASSUME NEW i \in 1 .. Len(m.to)
         PROVE  n.to[i] = t.to[i] /\ (Waits(n, i) <=> Waits(t, i))
    <3>1. i \in 1 .. Len(t.to) /\ i # a
      BY <1>3, <1>4
    <3>2. QED
      BY <2>3, <2>9, <3>1 DEF PutAt, Waits
  <2>16. Len(n.to) = Len(t.to) /\ n.heart = t.heart
    BY <2>3, <2>9 DEF PutAt
  <2>17. Extends(m, n)
    BY <1>3, <2>15, <2>16 DEF Extends
  <2>18. ASSUME ListOK(m) PROVE ListOK(n)
    <3>1. ASSUME NEW e, EphemeronAt(n, e)
          PROVE EphemeronAt(m, e)
      BY <1>6, <2>10, <3>1 DEF EphemeronAt, Copied
    <3>2. ASSUME NEW e, EphemeronAt(m, e)
          PROVE n.to[ListLink(e)] = m.to[ListLink(e)]
      <4>1. ListLink(e) \in 1 .. Len(m.to)
        BY <3>2, EphemeronFacts DEF ListLink
      <4>2. QED
        BY <1>3, <2>15, <4>1
    <3>3. QED
      BY <1>3, <2>9, <2>17, <2>18, <3>1, <3>2, ListKept
  <2>19. QED
    BY <1>5, <2>14, <2>16, <2>17, <2>18 DEF Later
<1>8. CASE ~IsOld(Fields(o)[1])
  <2>1. n = t
    BY <1>1, <1>8 DEF gc_transport_weak_pair
  <2>2. QED
    BY <1>3, <1>5, <2>1 DEF Later
<1>9. QED
  BY <1>7, <1>8

\* The header of an ephemeron whose key is in fromspace may make it be skipped.
LEMMA MarkCorrect ==
  ASSUME heap \in Heaps, NEW m, MemoryOK(m), NEW a, EphemeronAt(m, a), IsOld(m.to[Key(a)]),
         NEW n, PutAt(m, n, a, Skip(4))
  PROVE  /\ MemoryOK(n)
         /\ \A i \in 1 .. Len(m.to) : Waits(n, i) <=> Waits(m, i) \/ i = a
<1>1. \A b, x : /\ EphemeronAt(n, b) <=> EphemeronAt(m, b)
                /\ Pointer(n, b) <=> Pointer(m, b)
                /\ LinkOK(n, x) <=> LinkOK(m, x)
  BY DEF EphemeronAt, Copied, PutAt, Pointer, LinkOK
<1>2. Copied(n) = Copied(m) /\ Len(m.to) \in Nat
  BY LengthType DEF Copied, PutAt
<1>3. Skip(4)[1] = "nmv"
  BY DEF Skip
<1>4. \A i \in 1 .. Len(m.to) : Waits(n, i) <=> Waits(m, i) \/ i = a
  BY <1>3 DEF Waits, PutAt
<1>5. ShapeOK(n) /\ CopiesOK(n) /\ WeakOK(n)
  BY <1>2 DEF MemoryOK, ShapeOK, CopiesOK, WeakOK, PutAt
<1>6. ASSUME NEW e, EphemeronAt(m, e)
      PROVE  /\ n.to[Key(e)] = m.to[Key(e)] /\ n.to[ListLink(e)] = m.to[ListLink(e)]
             /\ n.to[NextLink(e)] = m.to[NextLink(e)] /\ e \in Nat
  <2>1. /\ e \in Nat /\ e >= 3 /\ e + 4 <= Len(m.to) /\ a \in Nat
        /\ e = a \/ e + 5 <= a \/ a + 5 <= e
    BY <1>6, EphemeronFacts
  <2>2. ASSUME NEW i \in {Key(e), ListLink(e), NextLink(e)}
        PROVE  i \in 1 .. Len(m.to) /\ i # a
    BY <1>2, <2>1 DEF Key, ListLink, NextLink
  <2>3. QED
    BY <2>1, <2>2 DEF PutAt
<1>7. WordsOK(n)
  <2>1. ASSUME NEW i \in 1 .. Len(m.to)
        PROVE  /\ IsOld(n.to[i]) => n.to[i] \in {"old"} \X Objs \X Nat
               /\ Waits(n, i) => n.to[i] = Skip(4) /\ EphemeronAt(n, i) /\ IsOld(n.to[Key(i)])
    <3>1. CASE i = a
      BY <1>1, <1>3, <1>6, <3>1 DEF PutAt, IsOld
    <3>2. CASE i # a
      <4>1. n.to[i] = m.to[i] /\ (Waits(n, i) <=> Waits(m, i))
        BY <1>4, <3>2 DEF PutAt
      <4>2. QED
        BY <1>1, <1>6, <4>1 DEF MemoryOK, WordsOK
    <3>3. QED
      BY <3>1, <3>2
  <2>2. QED
    BY <2>1 DEF WordsOK, PutAt
<1>8. LinksOK(n)
  <2>1. n.heart = m.heart /\ n.list = m.list /\ n.queue = m.queue /\ n.bucket = m.bucket
    BY DEF PutAt
  <2>2. \A o \in Copied(n) : Kind(o) = "ephemeron" =>
          /\ LinkOK(n, n.to[ListLink(n.heart[o])])
          /\ LinkOK(n, n.to[NextLink(n.heart[o])])
    BY <1>1, <1>2, <1>6, <2>1 DEF MemoryOK, LinksOK, EphemeronAt
  <2>3. QED
    BY <1>1, <2>1, <2>2 DEF MemoryOK, LinksOK
<1>9. QED
  BY <1>4, <1>5, <1>7, <1>8 DEF MemoryOK

\* gc_transport_ephemeron.
LEMMA EphemeronCorrect ==
  ASSUME heap \in Heaps, HeapAssumption, NEW m, MemoryOK(m), NEW o \in Objs, m.heart[o] = 0,
         Kind(o) = "ephemeron", NEW n, n = gc_transport_ephemeron(m, o)
  PROVE  Later(m, n) /\ n.heart[o] # 0
<1>1. PICK t : t = Transport(m, o)
  OBVIOUS
<1>2. PICK a : a = Len(m.to) + 1
  OBVIOUS
<1>3. PICK key : key = Fields(o)[1]
  OBVIOUS
<1>4. /\ MemoryOK(t) /\ Extends(m, t) /\ (ListOK(m) => ListOK(t))
      /\ t.heart[o] = Len(m.to) + 1 /\ \A p \in Objs \ {o} : t.heart[p] = m.heart[p]
      /\ t.list = m.list
      /\ Len(t.to) = Len(m.to) + Size(o)
      /\ \A i \in 1 .. Len(m.to) : t.to[i] = m.to[i]
      /\ \A i \in 1 .. Size(o) : t.to[Len(m.to) + i] = Words(o)[i]
  BY <1>1, TransportCorrect
<1>5. Size(o) = 5 /\ Words(o)[2] = key /\ key \in HeapWords(Objs)
  <2>1. Fields(o) \in Seq(HeapWords(Objs)) /\ Len(Fields(o)) = 2
    BY HeapFacts
  <2>2. Fields(o)[1] \in HeapWords(Objs)
    <3>1. ASSUME NEW W, NEW f \in Seq(W), Len(f) = 2 PROVE f[1] \in W
      <4>1. 1 \in 1 .. Len(f)
        BY <3>1
      <4>2. QED
        BY <4>1, ElementOfSeq
    <3>2. QED
      BY <2>1, <3>1
  <2>3. QED
    BY <1>3, <2>2, WordsFacts DEF EphemeronSize
<1>6. Len(m.to) \in Nat /\ a \in 1 .. Len(t.to) /\ a > Len(m.to) /\ t.heart[o] = a /\ a # 0
  BY <1>2, <1>4, <1>5, LengthType
<1>7. EphemeronAt(t, a) /\ t.to[Key(a)] = key
  <2>1. Key(a) = Len(m.to) + 2
    BY <1>2, <1>6 DEF Key
  <2>2. t.to[Len(m.to) + 2] = Words(o)[2]
    <3>1. 2 \in 1 .. Size(o)
      BY <1>5
    <3>2. QED
      BY <1>4, <3>1
  <2>3. o \in Copied(t) /\ a = t.heart[o]
    BY <1>6 DEF Copied
  <2>4. QED
    BY <1>5, <2>1, <2>2, <2>3 DEF EphemeronAt
<1>8. CASE ~IsOld(key) \/ t.heart[key[2]] # 0
  <2>1. n = t
    BY <1>1, <1>3, <1>8 DEF gc_transport_ephemeron
  <2>2. QED
    BY <1>4, <1>6, <2>1 DEF Later
<1>9. CASE IsOld(key) /\ t.heart[key[2]] = 0
  <2>1. PICK b : b = Bucket(key[2])
    OBVIOUS
  <2>2. b \in 0 .. Buckets - 1
    <3>1. key[2] \in Nat
      BY <1>5, <1>9, HeapWordFacts, HeapFacts
    <3>2. QED
      BY <2>1, <3>1, HeapFacts DEF Bucket
  <2>3. PICK n1 : n1 = [t EXCEPT !.to[a] = Skip(4)]
    OBVIOUS
  <2>4. PICK n2 : n2 = [n1 EXCEPT !.to[NextLink(a)] = AsLink(m.bucket[b])]
    OBVIOUS
  <2>5. PICK n3 : n3 = [n2 EXCEPT !.bucket[b] = a]
    OBVIOUS
  <2>6. PICK n4 : n4 = [n3 EXCEPT !.to[ListLink(a)] = AsLink(m.list)]
    OBVIOUS
  <2>7. n = [n4 EXCEPT !.list = a]
    <3>1. EphemeronSize - 1 = 4
      BY DEF EphemeronSize
    <3>2. n = [t EXCEPT !.to[a] = Skip(4), !.to[NextLink(a)] = AsLink(m.bucket[b]),
                        !.bucket[b] = a, !.to[ListLink(a)] = AsLink(m.list), !.list = a]
      BY <1>1, <1>2, <1>3, <1>9, <2>1, <3>1 DEF gc_transport_ephemeron
    <3>3. QED
      BY <2>3, <2>4, <2>5, <2>6, <3>2
  <2>8. PutAt(t, n1, a, Skip(4))
    BY <1>4, <2>3, PutStep DEF MemoryOK, ShapeOK
  <2>9. MemoryOK(n1) /\ \A i \in 1 .. Len(t.to) : Waits(n1, i) <=> Waits(t, i) \/ i = a
    BY <1>4, <1>7, <1>9, <2>8, MarkCorrect
  <2>10. EphemeronAt(n1, a) /\ LinkOK(n1, AsLink(m.bucket[b])) /\ LinkOK(n1, AsLink(m.list))
    <3>1. Pointer(m, m.bucket[b]) /\ Pointer(m, m.list)
      BY <2>2 DEF MemoryOK, LinksOK
    <3>2. ASSUME NEW x, EphemeronAt(t, x) PROVE EphemeronAt(n1, x)
      BY <2>8, <3>2 DEF PutAt, EphemeronAt, Copied
    <3>3. Pointer(n1, m.bucket[b]) /\ Pointer(n1, m.list)
      BY <1>4, <3>1, <3>2, EphemeronStays DEF Pointer
    <3>4. QED
      BY <1>7, <2>9, <3>2, <3>3, LinkFacts
  <2>11. PutAt(n1, n2, NextLink(a), AsLink(m.bucket[b]))
    BY <2>4, <2>9, PutStep DEF MemoryOK, ShapeOK
  <2>12. MemoryOK(n2)
    BY <2>4, <2>9, <2>10, NextLinkPut
  <2>13. /\ Record(n3) /\ n3.to = n2.to /\ n3.heart = n2.heart /\ n3.chain = n2.chain
         /\ n3.list = n2.list /\ n3.queue = n2.queue
         /\ n3.bucket = [n2.bucket EXCEPT ![b] = a]
    BY <2>5, <2>12 DEF MemoryOK, ShapeOK, Record
  <2>14. MemoryOK(n3)
    <3>1. EphemeronAt(n2, a)
      BY <2>10, <2>11 DEF PutAt, EphemeronAt, Copied
    <3>2. /\ n3.bucket \in [0 .. Buckets - 1 -> Nat]
          /\ \A c \in 0 .. Buckets - 1 : Pointer(n2, n3.bucket[c])
      BY <1>6, <2>2, <2>12, <2>13, <3>1 DEF MemoryOK, ShapeOK, LinksOK, Pointer
    <3>3. Pointer(n2, n3.list) /\ Pointer(n2, n3.queue)
      BY <2>12, <2>13 DEF MemoryOK, LinksOK
    <3>4. QED
      BY <2>12, <2>13, <3>2, <3>3, PointersCorrect
  <2>15. n3.heart = t.heart /\ Len(n3.to) = Len(t.to) /\ n3.list = m.list
    BY <1>4, <2>8, <2>11, <2>13 DEF PutAt
  <2>16. \A x, w : /\ EphemeronAt(n3, x) <=> EphemeronAt(t, x)
                   /\ EphemeronAt(n1, x) <=> EphemeronAt(t, x)
                   /\ LinkOK(n3, w) <=> LinkOK(n1, w)
    BY <2>8, <2>15 DEF PutAt, EphemeronAt, Copied, LinkOK
  <2>17. PutAt(n3, n4, ListLink(a), AsLink(m.list))
    BY <2>6, <2>14, PutStep DEF MemoryOK, ShapeOK
  <2>18. MemoryOK(n4)
    <3>1. LinkOK(n3, AsLink(m.list))
      BY <2>10, <2>16
    <3>2. AsLink(m.list)[1] # "old" /\ AsLink(m.list)[1] # "nmv"
      BY <2>14, <3>1, LinkFacts
    <3>3. EphemeronAt(n3, a)
      BY <1>7, <2>16
    <3>4. ListLink(a) \in 1 .. Len(n3.to)
      BY <2>14, <3>3, EphemeronFacts DEF ListLink
    <3>5. ASSUME NEW e, EphemeronAt(n3, e) PROVE ListLink(a) # e /\ ListLink(a) # Key(e)
      <4>1. /\ e \in Nat /\ a \in Nat
            /\ e = a \/ e + 5 <= a \/ a + 5 <= e
        BY <2>14, <3>3, <3>5, EphemeronFacts
      <4>2. QED
        BY <4>1 DEF ListLink, Key
    <3>6. QED
      BY <2>14, <2>17, <3>1, <3>2, <3>4, <3>5, PutCorrect
  <2>19. /\ Record(n) /\ n.to = n4.to /\ n.heart = n4.heart /\ n.chain = n4.chain
         /\ n.list = a /\ n.queue = n4.queue /\ n.bucket = n4.bucket
    BY <2>7, <2>18 DEF MemoryOK, ShapeOK, Record
  <2>20. MemoryOK(n)
    <3>1. EphemeronAt(n3, a)
      BY <1>7, <2>16
    <3>2. EphemeronAt(n4, a)
      BY <2>17, <3>1 DEF PutAt, EphemeronAt, Copied
    <3>3. /\ n.bucket \in [0 .. Buckets - 1 -> Nat]
          /\ Pointer(n4, n.list) /\ Pointer(n4, n.queue)
          /\ \A c \in 0 .. Buckets - 1 : Pointer(n4, n.bucket[c])
      BY <2>18, <2>19, <3>2 DEF MemoryOK, ShapeOK, LinksOK, Pointer
    <3>4. QED
      BY <2>18, <2>19, <3>3, PointersCorrect
  <2>21. n.heart = t.heart /\ Len(n.to) = Len(t.to)
    BY <2>15, <2>17, <2>19 DEF PutAt
  <2>22. ListLink(a) = a + 3 /\ NextLink(a) = a + 4 /\ a + 4 <= Len(t.to) /\ a \in Nat
    BY <1>2, <1>4, <1>5, <1>6 DEF ListLink, NextLink
  <2>23. ASSUME NEW i \in 1 .. Len(t.to)
         PROVE  n.to[i] = IF i = ListLink(a) THEN AsLink(m.list)
                          ELSE IF i = NextLink(a) THEN AsLink(m.bucket[b])
                          ELSE IF i = a THEN Skip(4) ELSE t.to[i]
    <3>1. Len(n1.to) = Len(t.to) /\ Len(n3.to) = Len(t.to)
      BY <2>8, <2>15 DEF PutAt
    <3>2. n1.to[i] = IF i = a THEN Skip(4) ELSE t.to[i]
      BY <2>8 DEF PutAt
    <3>3. n2.to[i] = IF i = NextLink(a) THEN AsLink(m.bucket[b]) ELSE n1.to[i]
      BY <2>11, <3>1 DEF PutAt
    <3>4. n4.to[i] = IF i = ListLink(a) THEN AsLink(m.list) ELSE n3.to[i]
      BY <2>17, <3>1 DEF PutAt
    <3>5. QED
      BY <2>13, <2>19, <3>2, <3>3, <3>4
  <2>24. ASSUME NEW i \in 1 .. Len(m.to) PROVE i \in 1 .. Len(t.to) /\ n.to[i] = t.to[i]
    <3>1. i \in 1 .. Len(t.to)
      BY <1>4, <1>5, <1>6
    <3>2. i # a /\ i # ListLink(a) /\ i # NextLink(a)
      BY <1>2, <1>6, <2>22
    <3>3. QED
      BY <2>23, <3>1, <3>2
  <2>25. Extends(m, n)
    BY <1>4, <2>21, <2>24 DEF Extends, Waits
  <2>26. ASSUME ListOK(m) PROVE ListOK(n)
    <3>1. ASSUME NEW f, EphemeronAt(m, f), Waits(m, f) PROVE Waits(n, f)
      <4>1. f \in 1 .. Len(m.to)
        BY <3>1, EphemeronFacts
      <4>2. QED
        BY <2>25, <3>1, <4>1 DEF Extends
    <3>2. Waits(n, a)
      BY <1>6, <2>22, <2>23 DEF Waits, Skip
    <3>3. n.to[ListLink(a)] = AsLink(m.list)
      BY <2>22, <2>23
    <3>4. AsLink(m.list) = False \/ Waits(n, Link(AsLink(m.list)))
      <4>1. CASE m.list = 0
        BY <4>1 DEF AsLink
      <4>2. CASE m.list # 0
        <5>1. EphemeronAt(m, m.list) /\ Pointer(m, m.list) /\ Waits(m, m.list)
          BY <2>26, <4>2 DEF ListOK, MemoryOK, LinksOK, Pointer
        <5>2. QED
          BY <3>1, <5>1, LinkFacts
      <4>3. QED
        BY <4>1, <4>2
    <3>5. ASSUME NEW p \in Copied(n), Kind(p) = "ephemeron"
          PROVE  \/ n.to[ListLink(n.heart[p])] = False
                 \/ Waits(n, Link(n.to[ListLink(n.heart[p])]))
      <4>1. CASE p = o
        BY <1>6, <2>21, <3>3, <3>4, <4>1
      <4>2. CASE p # o
        <5>1. p \in Copied(m) /\ n.heart[p] = m.heart[p]
          BY <1>4, <2>21, <3>5, <4>2 DEF Copied
        <5>2. PICK e : e = m.heart[p] /\ EphemeronAt(m, e)
          BY <3>5, <5>1 DEF EphemeronAt
        <5>3. ListLink(e) \in 1 .. Len(m.to)
          BY <5>2, EphemeronFacts DEF ListLink
        <5>4. PICK w : w = m.to[ListLink(e)]
          OBVIOUS
        <5>5. n.to[ListLink(e)] = w
          BY <1>4, <2>24, <5>3, <5>4
        <5>6. LinkOK(m, w) /\ (w = False \/ Waits(m, Link(w)))
          BY <2>26, <3>5, <5>1, <5>2, <5>4, EphemeronFacts DEF ListOK
        <5>7. w # False => EphemeronAt(m, Link(w))
          BY <5>6, LinkFacts DEF LinkOK, Pointer
        <5>8. QED
          BY <3>1, <5>1, <5>2, <5>5, <5>6, <5>7
      <4>3. QED
        BY <4>1, <4>2
    <3>6. QED
      BY <2>19, <3>2, <3>5 DEF ListOK
  <2>27. QED
    BY <1>6, <2>20, <2>21, <2>25, <2>26 DEF Later
<1>10. QED
  BY <1>8, <1>9

\* gc_precheck_from.
LEMMA PrecheckCorrect ==
  ASSUME heap \in Heaps, HeapAssumption, NEW m, MemoryOK(m), NEW o \in Objs, NEW scanning,
         NEW n, n = Precheck(m, o, scanning)
  PROVE  Later(m, n) /\ n.heart = m.heart
<1>1. CASE scanning /\ m.heart[o] = 0
  <2>1. n = queue_ephemerons_for_key(m, o)
    BY <1>1 DEF Precheck
  <2>2. MemoryOK(n) /\ LinkStep(m, n)
    BY <2>1, QueueCorrect
  <2>3. QED
    BY <2>2, LinkStepExtends DEF Later, LinkStep
<1>2. CASE ~(scanning /\ m.heart[o] = 0)
  BY <1>2, ExtendsSame DEF Precheck, Later
<1>3. QED
  BY <1>1, <1>2

LEMMA CdrFacts ==
  ASSUME heap \in Heaps, HeapAssumption, NEW o \in Objs, Kind(o) = "pair"
  PROVE  IsOld(Fields(o)[2]) => Fields(o)[2][2] \in Objs
<1>1. ASSUME NEW W, NEW f \in Seq(W), Len(f) = 2 PROVE f[2] \in W
  <2>1. 2 \in 1 .. Len(f)
    BY <1>1
  <2>2. QED
    BY <2>1, ElementOfSeq
<1>2. Fields(o) \in Seq(HeapWords(Objs)) /\ Len(Fields(o)) = 2
  BY HeapFacts
<1>3. Fields(o)[2] \in HeapWords(Objs)
  BY <1>1, <1>2
<1>4. QED
  BY <1>3, HeapWordFacts

\* The copies of gc_tuple, one after another.
CopyPair(n, p, scanning) == [mem |-> Transport(Precheck(n, p, scanning), p), last |-> p]
NextPair(s, scanning) ==
  LET cdr == Fields(s.last)[2]
  IN IF IsOld(cdr) /\ Kind(cdr[2]) = "pair" /\ s.mem.heart[cdr[2]] = 0
     THEN CopyPair(s.mem, cdr[2], scanning) ELSE s
Pairs(f, n, m, o, scanning) ==
  f = [k \in 1 .. n |-> IF k = 1 THEN CopyPair(m, o, scanning)
                        ELSE NextPair(f[k-1], scanning)]

\* The turns of the loop gc_tuple as a function of their number.
LEMMA PairsExist ==
  ASSUME NEW n \in Nat \ {0}, NEW m, NEW o, NEW scanning
  PROVE  \E f : Pairs(f, n, m, o, scanning)
<1> DEFINE Start == CopyPair(m, o, scanning)
           Step(s) == NextPair(s, scanning)
           Runs(f, k) == f = [i \in 1 .. k |-> IF i = 1 THEN Start ELSE Step(f[i-1])]
           S == {k \in Nat : \E f : Runs(f, k + 1)}
<1> HIDE DEF Step, Start
<1>1. 0 \in S
  <2>1. Runs([i \in 1 .. 0 + 1 |-> Start], 0 + 1)
    OBVIOUS
  <2>2. QED
    BY <2>1
<1>2. ASSUME NEW k \in Nat, k \in S PROVE k + 1 \in S
  <2>1. PICK f : Runs(f, k + 1)
    BY <1>2
  <2> DEFINE j == k + 2
             g == [i \in 1 .. j |-> IF i = j THEN Step(f[k + 1]) ELSE f[i]]
  <2>2. ASSUME NEW i \in 1 .. j PROVE g[i] = IF i = 1 THEN Start ELSE Step(g[i-1])
    <3>1. CASE i = 1
      <4>1. i # j /\ i \in 1 .. k + 1
        BY <3>1
      <4>2. QED
        BY <2>1, <3>1, <4>1
    <3>2. CASE i = j
      <4>1. i - 1 = k + 1 /\ k + 1 \in 1 .. j /\ k + 1 # j /\ i # 1
        BY <3>2
      <4>2. QED
        BY <3>2, <4>1
    <3>3. CASE i # 1 /\ i # j
      <4>1. i \in 1 .. k + 1 /\ i - 1 \in 1 .. j /\ i - 1 # j
        BY <3>3
      <4>2. g[i] = f[i] /\ g[i-1] = f[i-1] /\ f[i] = Step(f[i-1])
        BY <2>1, <3>3, <4>1
      <4>3. QED
        BY <3>3, <4>2
    <3>4. QED
      BY <3>1, <3>2, <3>3
  <2>3. g = [i \in 1 .. j |-> g[i]]
    OBVIOUS
  <2> HIDE DEF g
  <2>4. Runs(g, j)
    BY <2>2, <2>3
  <2>5. j = (k + 1) + 1
    OBVIOUS
  <2>6. QED
    BY <2>4, <2>5
<1>3. Nat \subseteq S
  <2> HIDE DEF S
  <2>1. QED
    BY <1>1, <1>2, SetInduction
<1>4. PICK k \in Nat : k + 1 = n
  <2>1. n - 1 \in Nat /\ (n - 1) + 1 = n
    OBVIOUS
  <2>2. QED
    BY <2>1
<1>5. PICK f : Runs(f, n)
  <2>1. k \in S
    BY <1>3
  <2>2. PICK f : Runs(f, k + 1)
    BY <2>1
  <2>3. QED
    BY <1>4, <2>2
<1>6. QED
  BY <1>5 DEF Pairs, Start, Step

\* gc_tuple.
LEMMA TupleDefined ==
  ASSUME heap \in Heaps, HeapAssumption, NEW m, NEW o \in Objs, NEW scanning
  PROVE  \E f : /\ Pairs(f, Cardinality(Objs), m, o, scanning)
                /\ gc_tuple(m, o, scanning) = f[Cardinality(Objs)].mem
                /\ Cardinality(Objs) \in Nat \ {0}
<1>1. Cardinality(Objs) \in Nat \ {0}
  <2>1. Objs # {}
    OBVIOUS
  <2>2. QED
    BY <2>1, HeapFacts, FS_EmptySet
<1>2. PICK g : g = CHOOSE f : Pairs(f, Cardinality(Objs), m, o, scanning)
  OBVIOUS
<1>3. Pairs(g, Cardinality(Objs), m, o, scanning)
  BY <1>1, <1>2, PairsExist
<1>4. gc_tuple(m, o, scanning) = g[Cardinality(Objs)].mem
  BY <1>2 DEF gc_tuple, Pairs, NextPair, CopyPair
<1>5. QED
  BY <1>1, <1>3, <1>4

LEMMA CopyPairCorrect ==
  ASSUME heap \in Heaps, HeapAssumption, NEW m, MemoryOK(m), NEW o \in Objs, m.heart[o] = 0,
         NEW scanning, NEW s, s = CopyPair(m, o, scanning)
  PROVE  Later(m, s.mem) /\ s.last = o /\ s.mem.heart[o] # 0
<1>1. PICK n : n = Precheck(m, o, scanning)
  OBVIOUS
<1>2. Later(m, n) /\ n.heart = m.heart
  BY <1>1, PrecheckCorrect
<1>3. PICK t : t = Transport(n, o)
  OBVIOUS
<1>4. /\ MemoryOK(t) /\ Extends(n, t) /\ (ListOK(n) => ListOK(t))
      /\ t.heart[o] = Len(n.to) + 1
  BY <1>2, <1>3, TransportCorrect DEF Later
<1>5. Later(m, t)
  BY <1>2, <1>4, LaterTransitive DEF Later
<1>6. t.heart[o] # 0
  BY <1>2, <1>4, LengthType DEF Later
<1>7. s.mem = t /\ s.last = o
  BY <1>1, <1>3 DEF CopyPair
<1>8. QED
  BY <1>5, <1>6, <1>7

\* gc_tuple copies a pair and the pairs its cdr leads to.
LEMMA TupleCorrect ==
  ASSUME heap \in Heaps, HeapAssumption, NEW m, MemoryOK(m), NEW o \in Objs, m.heart[o] = 0,
         Kind(o) = "pair", NEW scanning, NEW n, n = gc_tuple(m, o, scanning)
  PROVE  Later(m, n) /\ n.heart[o] # 0
<1>1. PICK f : /\ Pairs(f, Cardinality(Objs), m, o, scanning)
               /\ gc_tuple(m, o, scanning) = f[Cardinality(Objs)].mem
               /\ Cardinality(Objs) \in Nat \ {0}
  BY TupleDefined
<1>2. PICK c : c = Cardinality(Objs)
  OBVIOUS
<1> DEFINE Good(s) == /\ Later(m, s.mem) /\ s.mem.heart[o] # 0
                      /\ s.last \in Objs /\ Kind(s.last) = "pair"
           S == {k \in Nat : k + 1 <= c => Good(f[k + 1])}
<1>3. 0 \in S
  <2>1. c >= 1 /\ 0 + 1 = 1
    BY <1>1, <1>2
  <2>2. f[1] = CopyPair(m, o, scanning)
    BY <1>1, <1>2, <2>1 DEF Pairs
  <2>3. QED
    BY <2>1, <2>2, CopyPairCorrect
<1>4. ASSUME NEW k \in Nat, k \in S PROVE k + 1 \in S
  <2> SUFFICES ASSUME (k + 1) + 1 <= c PROVE Good(f[(k + 1) + 1])
    OBVIOUS
  <2>1. PICK j : j = k + 2
    OBVIOUS
  <2>2. j \in 1 .. c /\ j - 1 = k + 1 /\ j # 1 /\ k + 1 <= c /\ j = (k + 1) + 1
    BY <1>1, <1>2, <2>1
  <2>3. PICK s : s = f[k + 1]
    OBVIOUS
  <2>4. f[j] = NextPair(s, scanning)
    BY <1>1, <1>2, <2>2, <2>3 DEF Pairs
  <2>5. Good(s)
    BY <1>4, <2>2, <2>3
  <2>6. PICK cdr : cdr = Fields(s.last)[2]
    OBVIOUS
  <2>7. CASE IsOld(cdr) /\ Kind(cdr[2]) = "pair" /\ s.mem.heart[cdr[2]] = 0
    <3>1. cdr[2] \in Objs
      BY <2>5, <2>6, <2>7, CdrFacts
    <3>2. PICK r : r = CopyPair(s.mem, cdr[2], scanning)
      OBVIOUS
    <3>3. Later(s.mem, r.mem) /\ r.last = cdr[2]
      BY <2>5, <2>7, <3>1, <3>2, CopyPairCorrect DEF Later
    <3>4. f[j] = r
      BY <2>4, <2>6, <2>7, <3>2 DEF NextPair
    <3>5. Later(m, r.mem)
      BY <2>5, <3>3, LaterTransitive
    <3>6. r.mem.heart[o] # 0
      BY <2>5, <3>3 DEF Later, Extends
    <3>7. QED
      BY <2>2, <2>7, <3>1, <3>3, <3>4, <3>5, <3>6
  <2>8. CASE ~(IsOld(cdr) /\ Kind(cdr[2]) = "pair" /\ s.mem.heart[cdr[2]] = 0)
    <3>1. f[j] = s
      BY <2>4, <2>6, <2>8 DEF NextPair
    <3>2. QED
      BY <2>2, <2>5, <3>1
  <2>9. QED
    BY <2>7, <2>8
<1>5. Nat \subseteq S
  <2> HIDE DEF S
  <2>1. QED
    BY <1>3, <1>4, SetInduction
<1>6. c - 1 \in Nat /\ (c - 1) + 1 = c /\ c <= c
  BY <1>1, <1>2
<1>7. Good(f[c])
  <2>1. c - 1 \in S
    BY <1>5, <1>6
  <2>2. QED
    BY <1>6, <2>1
<1>8. QED
  BY <1>1, <1>2, <1>7

\* Whatever its type, an object is copied once, and nothing else is disturbed.
LEMMA HandleCorrect ==
  ASSUME heap \in Heaps, HeapAssumption, NEW m, MemoryOK(m), NEW o \in Objs, NEW scanning,
         NEW n, n = Handle(m, o, scanning)
  PROVE  Later(m, n) /\ n.heart[o] # 0
<1>1. CASE m.heart[o] # 0
  BY <1>1, ExtendsSame DEF Handle, Later
<1>2. CASE m.heart[o] = 0 /\ Kind(o) = "pair"
  <2>1. n = gc_tuple(m, o, scanning)
    BY <1>2 DEF Handle
  <2>2. QED
    BY <1>2, <2>1, TupleCorrect
<1>3. CASE m.heart[o] = 0 /\ Kind(o) # "pair"
  <2>1. PICK p : p = Precheck(m, o, scanning)
    OBVIOUS
  <2>2. Later(m, p) /\ p.heart[o] = 0 /\ MemoryOK(p)
    BY <1>3, <2>1, PrecheckCorrect DEF Later
  <2>3. Later(p, n) /\ n.heart[o] # 0
    <3>1. CASE Kind(o) = "vector"
      <4>1. n = Transport(p, o)
        BY <1>3, <2>1, <3>1 DEF Handle
      <4>2. MemoryOK(n) /\ Extends(p, n) /\ (ListOK(p) => ListOK(n)) /\ n.heart[o] = Len(p.to) + 1
        BY <2>2, <4>1, TransportCorrect
      <4>3. QED
        BY <2>2, <4>2, LengthType DEF Later
    <3>2. CASE Kind(o) = "weak"
      <4>1. n = gc_transport_weak_pair(p, o)
        BY <1>3, <2>1, <3>2 DEF Handle
      <4>2. QED
        BY <2>2, <3>2, <4>1, WeakPairCorrect
    <3>3. CASE Kind(o) = "ephemeron"
      <4>1. n = gc_transport_ephemeron(p, o)
        BY <1>3, <2>1, <3>3 DEF Handle
      <4>2. QED
        BY <2>2, <3>3, <4>1, EphemeronCorrect
    <3>4. QED
      BY <1>3, <3>1, <3>2, <3>3, HeapFacts
  <2>4. QED
    BY <2>2, <2>3, LaterTransitive
<1>4. QED
  BY <1>1, <1>2, <1>3

-----------------------------------------------------------------------------
\* The steps of the collection.

\* A pointer into fromspace is replaced by what it points to now.
LEMMA ForwardCorrect ==
  ASSUME heap \in Heaps, NEW p, MemoryOK(p), NEW m, Later(p, m),
         NEW i \in 1 .. Len(p.to), IsOld(p.to[i]),
         \A e : EphemeronAt(p, e) /\ Waits(p, e) => i # Key(e),
         NEW w, w[1] = "new", NEW n, PutAt(m, n, i, w)
  PROVE  /\ MemoryOK(n) /\ (ListOK(p) => ListOK(n))
         /\ Len(n.to) >= Len(p.to)
         /\ \A a : Pointer(p, a) => Pointer(n, a)
         /\ \A e : EphemeronAt(p, e) /\ Waits(p, e) => Waits(n, e)
         /\ \A e : EphemeronAt(n, e) /\ Waits(n, e) =>
              (EphemeronAt(p, e) /\ Waits(p, e)) \/ e > Len(p.to)
<1>1. MemoryOK(m) /\ Extends(p, m) /\ PutAt(m, n, i, w)
  BY DEF Later
<1>2. i \in 1 .. Len(m.to) /\ IsOld(m.to[i]) /\ Len(p.to) \in Nat /\ Len(m.to) \in Nat
  BY <1>1, LengthType DEF Extends
<1>3. \A e : EphemeronAt(n, e) <=> EphemeronAt(m, e)
  BY <1>1 DEF PutAt, EphemeronAt, Copied
<1>4. ASSUME NEW e, EphemeronAt(m, e), Waits(m, e)
      PROVE  (EphemeronAt(p, e) /\ Waits(p, e)) \/ e > Len(p.to)
  <2>1. PICK o \in Copied(m) : Kind(o) = "ephemeron" /\ e = m.heart[o]
    BY <1>4 DEF EphemeronAt
  <2>2. o \in Objs /\ m.heart[o] # 0
    BY <2>1 DEF Copied
  <2>3. CASE p.heart[o] = 0
    BY <1>1, <2>1, <2>2, <2>3 DEF Extends
  <2>4. CASE p.heart[o] # 0
    <3>1. EphemeronAt(p, e)
      BY <1>1, <2>1, <2>2, <2>4 DEF Extends, EphemeronAt, Copied
    <3>2. e \in 1 .. Len(p.to)
      BY <3>1, EphemeronFacts
    <3>3. QED
      BY <1>1, <1>4, <3>1, <3>2 DEF Extends
  <2>5. QED
    BY <2>3, <2>4
<1>5. ASSUME NEW e, EphemeronAt(m, e)
      PROVE  /\ i \notin {ListLink(e), NextLink(e)}
             /\ Waits(m, e) => i # e /\ i # Key(e)
  <2>1. LinkOK(m, m.to[ListLink(e)]) /\ LinkOK(m, m.to[NextLink(e)])
    BY <1>1, <1>5, EphemeronFacts
  <2>2. i \notin {ListLink(e), NextLink(e)}
    BY <1>1, <1>2, <2>1, LinkFacts DEF IsOld
  <2>3. Waits(m, e) => i # e
    BY <1>2 DEF Waits, IsOld
  <2>4. Waits(m, e) => i # Key(e)
    <3>1. e \in Nat
      BY <1>1, <1>5, EphemeronFacts
    <3>2. QED
      BY <1>2, <1>4, <1>5, <3>1 DEF Key
  <2>5. QED
    BY <2>2, <2>3, <2>4
<1>6. w[1] # "old" /\ w[1] # "nmv"
  OBVIOUS
<1>7. MemoryOK(n) /\ \A j \in 1 .. Len(m.to) : Waits(n, j) <=> Waits(m, j)
  BY <1>1, <1>2, <1>5, <1>6, PutCorrect
<1>8. ASSUME NEW e, EphemeronAt(m, e)
      PROVE  /\ Waits(n, e) <=> Waits(m, e)
             /\ n.to[ListLink(e)] = m.to[ListLink(e)]
  <2>1. e \in 1 .. Len(m.to) /\ ListLink(e) \in 1 .. Len(m.to)
    BY <1>1, <1>8, EphemeronFacts DEF ListLink
  <2>2. ListLink(e) # i
    BY <1>5, <1>8
  <2>3. QED
    BY <1>1, <1>7, <2>1, <2>2 DEF PutAt
<1>9. ASSUME ListOK(m) PROVE ListOK(n)
  <2>1. n.list = m.list /\ n.heart = m.heart /\ Copied(n) = Copied(m)
    BY <1>1 DEF PutAt, Copied
  <2>2. n.list # 0 => Waits(n, n.list)
    BY <1>1, <1>8, <1>9, <2>1 DEF ListOK, MemoryOK, LinksOK, Pointer
  <2>3. ASSUME NEW o \in Copied(m), Kind(o) = "ephemeron"
        PROVE  \/ n.to[ListLink(n.heart[o])] = False
               \/ Waits(n, Link(n.to[ListLink(n.heart[o])]))
    <3>1. PICK e : e = m.heart[o] /\ EphemeronAt(m, e)
      BY <2>3 DEF EphemeronAt
    <3>2. PICK x : x = m.to[ListLink(e)]
      OBVIOUS
    <3>3. LinkOK(m, x) /\ (x = False \/ Waits(m, Link(x)))
      BY <1>1, <1>9, <2>3, <3>1, <3>2, EphemeronFacts DEF ListOK
    <3>4. x # False => EphemeronAt(m, Link(x))
      BY <1>1, <3>3, LinkFacts DEF LinkOK, Pointer
    <3>5. n.to[ListLink(n.heart[o])] = x
      BY <1>8, <2>1, <3>1, <3>2
    <3>6. QED
      BY <1>8, <3>3, <3>4, <3>5
  <2>4. QED
    BY <2>1, <2>2, <2>3 DEF ListOK
<1>10. \A e : EphemeronAt(p, e) => EphemeronAt(m, e)
  BY <1>1, EphemeronStays
<1>11. \A a : Pointer(p, a) => Pointer(n, a)
  BY <1>3, <1>10 DEF Pointer
<1>12. ASSUME NEW e, EphemeronAt(p, e), Waits(p, e) PROVE Waits(n, e)
  <2>1. e \in 1 .. Len(p.to)
    BY <1>12, EphemeronFacts
  <2>2. Waits(m, e)
    BY <1>1, <1>12, <2>1 DEF Extends
  <2>3. QED
    BY <1>8, <1>10, <1>12, <2>2
<1>13. Len(n.to) >= Len(p.to)
  BY <1>1 DEF PutAt, Extends
<1>14. QED
  BY <1>3, <1>4, <1>7, <1>8, <1>9, <1>11, <1>12, <1>13 DEF Later

\* The invariant speaks of the heap, which does not change.
LEMMA HeapSame ==
  ASSUME heap' = heap
  PROVE  /\ Objs' = Objs
         /\ \A o : Kind(o)' = Kind(o) /\ Size(o)' = Size(o)
         /\ \A m : Copied(m)' = Copied(m)
BY DEF Objs, Kind, Size, Words, Fields, Copied

LEMMA MemoryPrime ==
  ASSUME heap' = heap
  PROVE  /\ MemoryOK(mem') => MemoryOK(mem)'
         /\ ListOK(mem') => ListOK(mem)'
         /\ \A a : /\ Pointer(mem', a) <=> Pointer(mem, a)'
                   /\ EphemeronAt(mem', a) <=> EphemeronAt(mem, a)'
<1>1. Copied(mem)' = Copied(mem') /\ \A o : Kind(o)' = Kind(o) /\ Size(o)' = Size(o)
  BY DEF Copied, Objs, Kind, Size, Words, Fields
<1>2. \A a : /\ EphemeronAt(mem', a) <=> EphemeronAt(mem, a)'
             /\ Pointer(mem', a) <=> Pointer(mem, a)'
  BY <1>1 DEF EphemeronAt, Pointer
<1>3. \A w : LinkOK(mem', w) <=> LinkOK(mem, w)'
  BY <1>2 DEF LinkOK
<1>4. ShapeOK(mem') => ShapeOK(mem)'
  BY DEF ShapeOK, Record, Objs
<1>5. CopiesOK(mem') => CopiesOK(mem)'
  BY <1>1 DEF CopiesOK
<1>6. WordsOK(mem') => WordsOK(mem)'
  BY <1>2, HeapSame DEF WordsOK, Waits
<1>7. LinksOK(mem') => LinksOK(mem)'
  BY <1>1, <1>2, <1>3 DEF LinksOK
<1>8. WeakOK(mem') => WeakOK(mem)'
  BY <1>1, HeapSame DEF WeakOK
<1>9. ListOK(mem') => ListOK(mem)'
  BY <1>1 DEF ListOK, Waits
<1>10. QED
  BY <1>2, <1>4, <1>5, <1>6, <1>7, <1>8, <1>9 DEF MemoryOK

LEMMA ScanFacts ==
  ASSUME ScanOK, NEW e, EphemeronAt(mem, e), Waits(mem, e)
  PROVE  scan <= e \/ scan >= e + 5
BY DEF ScanOK, EphemeronAt, EphemeronSize

LEMMA ScanPrime ==
  ASSUME heap' = heap,
         \A e : EphemeronAt(mem', e) /\ Waits(mem', e) => scan' <= e \/ scan' >= e + 5
  PROVE  ScanOK'
<1>1. Copied(mem)' = Copied(mem') /\ \A o : Kind(o)' = Kind(o)
  BY DEF Copied, Objs, Kind
<1>2. \A o \in Copied(mem') : Kind(o) = "ephemeron" => EphemeronAt(mem', mem'.heart[o])
  BY DEF EphemeronAt
<1>3. QED
  BY <1>1, <1>2 DEF ScanOK, EphemeronSize, Waits

\* run_gc_loop: a word is forwarded, skipped with the ones after it, or passed.
LEMMA ScanWordCorrect ==
  ASSUME heap \in Heaps, HeapAssumption, heap' = heap, MemoryOK(mem), ListOK(mem), ScanOK,
         scan \in Nat \ {0}, scan <= Len(mem.to) + 1, NEW scanning, ScanWord(scanning)
  PROVE  /\ MemoryOK(mem') /\ ListOK(mem') /\ ScanOK'
         /\ scan' \in Nat \ {0} /\ scan' <= Len(mem'.to) + 1
         /\ \A a : Pointer(mem, a) => Pointer(mem', a)
<1>1. PICK w : w = mem.to[scan]
  OBVIOUS
<1>2. scan \in 1 .. Len(mem.to) /\ Len(mem.to) \in Nat
  BY LengthType DEF ScanWord
<1>3. \A e : EphemeronAt(mem, e) /\ Waits(mem, e) => scan <= e \/ scan >= e + 5
  BY ScanFacts
<1>4. CASE IsOld(w) /\ scan' = scan + 1
            /\ mem' = [Handle(mem, w[2], scanning) EXCEPT
                         !.to[scan] = Forwarded(Handle(mem, w[2], scanning), w)]
  <2>1. w[2] \in Objs
    BY <1>1, <1>2, <1>4 DEF MemoryOK, WordsOK
  <2>2. PICK m : m = Handle(mem, w[2], scanning)
    OBVIOUS
  <2>3. Later(mem, m)
    BY <2>1, <2>2, HandleCorrect
  <2>4. PICK v : v = Forwarded(m, w) /\ v[1] = "new"
    <3>1. Forwarded(m, w)[1] = "new"
      BY DEF Forwarded
    <3>2. QED
      BY <3>1
  <2>5. \A e : EphemeronAt(mem, e) /\ Waits(mem, e) => scan # Key(e)
    BY <1>2, <1>3, EphemeronFacts DEF Key
  <2>6. PutAt(m, mem', scan, v)
    <3>1. mem' = [m EXCEPT !.to[scan] = v]
      BY <1>4, <2>2, <2>4
    <3>2. QED
      BY <2>3, <3>1, PutStep DEF Later, MemoryOK, ShapeOK
  <2>7. /\ MemoryOK(mem') /\ ListOK(mem')
        /\ Len(mem'.to) >= Len(mem.to)
        /\ \A a : Pointer(mem, a) => Pointer(mem', a)
        /\ \A e : EphemeronAt(mem', e) /\ Waits(mem', e) =>
             (EphemeronAt(mem, e) /\ Waits(mem, e)) \/ e > Len(mem.to)
    <3>1. PICK n : n = mem' /\ PutAt(m, n, scan, v)
      BY <2>6
    <3>2. IsOld(mem.to[scan])
      BY <1>1, <1>4
    <3>3. /\ MemoryOK(n) /\ ListOK(n)
          /\ Len(n.to) >= Len(mem.to)
          /\ \A a : Pointer(mem, a) => Pointer(n, a)
          /\ \A e : EphemeronAt(n, e) /\ Waits(n, e) =>
               (EphemeronAt(mem, e) /\ Waits(mem, e)) \/ e > Len(mem.to)
      BY <1>2, <2>3, <2>4, <2>5, <3>1, <3>2, ForwardCorrect
    <3>4. QED
      BY <3>1, <3>3
  <2>8. Len(mem'.to) \in Nat
    BY <2>7, LengthType
  <2>9. ASSUME NEW e, EphemeronAt(mem', e), Waits(mem', e)
        PROVE  scan' <= e \/ scan' >= e + 5
    <3>1. e \in Nat
      BY <2>7, <2>9, EphemeronFacts
    <3>2. CASE e > Len(mem.to)
      BY <1>2, <1>4, <3>1, <3>2
    <3>3. CASE EphemeronAt(mem, e) /\ Waits(mem, e)
      <4>1. scan # e
        BY <1>1, <1>4, <3>3 DEF IsOld, Waits
      <4>2. QED
        BY <1>2, <1>3, <1>4, <3>1, <3>3, <4>1
    <3>4. QED
      BY <2>7, <2>9, <3>2, <3>3
  <2>10. ScanOK'
    BY <2>9, ScanPrime
  <2>11. scan' \in Nat \ {0} /\ scan' <= Len(mem'.to) + 1
    BY <1>2, <1>4, <2>7, <2>8
  <2>12. QED
    BY <2>7, <2>10, <2>11
<1>5. CASE w[1] = "nmv" /\ scan' = scan + 1 + w[2] /\ mem' = mem
  <2>1. Waits(mem, scan)
    BY <1>1, <1>5 DEF Waits
  <2>2. w = Skip(4) /\ EphemeronAt(mem, scan)
    BY <1>1, <1>2, <2>1 DEF MemoryOK, WordsOK
  <2>3. scan' = scan + 5
    BY <1>2, <1>5, <2>2 DEF Skip
  <2>4. scan + 4 <= Len(mem.to)
    BY <2>2, EphemeronFacts
  <2>5. ASSUME NEW e, EphemeronAt(mem, e) PROVE scan' <= e \/ scan' >= e + 5
    <3>1. e \in Nat /\ (e = scan \/ e + 5 <= scan \/ scan + 5 <= e)
      BY <2>2, <2>5, EphemeronFacts
    <3>2. QED
      BY <1>2, <2>3, <3>1
  <2>6. ScanOK'
    BY <1>5, <2>5, ScanPrime
  <2>7. QED
    BY <1>2, <1>5, <2>3, <2>4, <2>6
<1>6. CASE w[1] # "nmv" /\ scan' = scan + 1 /\ mem' = mem
  <2>1. ASSUME NEW e, EphemeronAt(mem, e), Waits(mem, e) PROVE scan' <= e \/ scan' >= e + 5
    <3>1. scan # e /\ e \in Nat
      BY <1>1, <1>6, <2>1, EphemeronFacts DEF Waits
    <3>2. QED
      BY <1>2, <1>3, <1>6, <2>1, <3>1
  <2>2. ScanOK'
    BY <1>6, <2>1, ScanPrime
  <2>3. QED
    BY <1>2, <1>6, <2>2
<1>7. QED
  BY <1>1, <1>4, <1>5, <1>6 DEF ScanWord

LEMMA ScanStackCorrect ==
  ASSUME HeapAssumption, CopyInv, ScanStack
  PROVE  CopyInv'
<1>1. heap \in Heaps /\ MemoryOK(mem) /\ StackOK /\ ListOK(mem) /\ Pointer(mem, cur)
      /\ pc = "stack" /\ scan \in Nat \ {0} /\ heap' = heap /\ cur' = cur
  BY DEF CopyInv, StepOK, ScanStack
<1>2. IsSeq(stack) /\ Len(stack) \in Nat /\ Len(mem.to) \in Nat
  BY <1>1, SeqFacts, LengthType DEF StackOK, IsSeq
<1>3. CASE scan <= Len(stack) /\ IsOld(stack[scan])
           /\ mem' = Handle(mem, stack[scan][2], FALSE)
           /\ stack' = [stack EXCEPT ![scan] = Forwarded(mem', stack[scan])]
           /\ scan' = scan + 1 /\ pc' = pc
  <2>1. scan \in 1 .. Len(stack) /\ stack[scan][2] \in Objs
    BY <1>1, <1>2, <1>3 DEF StackOK
  <2>2. Later(mem, mem')
    BY <1>1, <1>3, <2>1, HandleCorrect
  <2>3. MemoryOK(mem') /\ ListOK(mem') /\ Pointer(mem', cur)
    BY <1>1, <2>2, EphemeronStays DEF Later, Pointer
  <2>4. PICK v : v = Forwarded(mem', stack[scan]) /\ v[1] = "new"
    <3>1. Forwarded(mem', stack[scan])[1] = "new"
      BY DEF Forwarded
    <3>2. QED
      BY <3>1
  <2>5. stack' = Put(stack, scan, v)
    BY <1>3, <2>4 DEF Put
  <2>6. IsSeq(Put(stack, scan, v)) /\ Len(Put(stack, scan, v)) = Len(stack)
        /\ \A j \in 1 .. Len(stack) : Put(stack, scan, v)[j] = IF j = scan THEN v ELSE stack[j]
    BY <1>2, PutFacts
  <2>7. ASSUME NEW j \in 1 .. Len(stack), IsOld(stack'[j])
        PROVE  stack'[j] \in {"old"} \X Objs \X Nat
    BY <1>1, <2>4, <2>5, <2>6, <2>7 DEF StackOK, IsOld
  <2>8. StackOK'
    BY <1>1, <2>5, <2>6, <2>7 DEF StackOK, IsSeq, IsOld, Objs
  <2>9. StepOK'
    <3>1. pc' = "stack" /\ scan' \in Nat \ {0} /\ scan' <= Len(stack') + 1
      BY <1>1, <1>2, <1>3, <2>1, <2>5, <2>6
    <3>2. ListOK(mem)' /\ Pointer(mem, cur)'
      BY <1>1, <2>3, MemoryPrime
    <3>3. QED
      BY <1>1, <3>1, <3>2 DEF StepOK
  <2>10. QED
    BY <1>1, <2>3, <2>8, <2>9, MemoryPrime DEF CopyInv
<1>4. CASE scan <= Len(stack) /\ scan' = scan + 1 /\ UNCHANGED <<mem, stack, pc>>
  <2>1. StackOK'
    BY <1>1, <1>4 DEF StackOK, IsSeq, IsOld, Objs
  <2>2. StepOK'
    BY <1>1, <1>2, <1>4, MemoryPrime DEF StepOK
  <2>3. QED
    BY <1>1, <1>4, <2>1, <2>2, MemoryPrime DEF CopyInv
<1>5. CASE scan > Len(stack) /\ pc' = "scan" /\ scan' = 1 /\ UNCHANGED <<mem, stack>>
  <2>1. StackOK'
    BY <1>1, <1>5 DEF StackOK, IsSeq, IsOld, Objs
  <2>2. ASSUME NEW e, EphemeronAt(mem, e) PROVE scan' <= e
    BY <1>1, <1>5, <2>2, EphemeronFacts
  <2>3. ScanOK'
    BY <1>1, <1>5, <2>2, ScanPrime
  <2>4. StepOK'
    BY <1>1, <1>2, <1>5, <2>3, MemoryPrime DEF StepOK
  <2>5. QED
    BY <1>1, <1>5, <2>1, <2>4, MemoryPrime DEF CopyInv
<1>6. QED
  BY <1>3, <1>4, <1>5 DEF ScanStack

LEMMA StackPrime ==
  ASSUME heap' = heap, stack' = stack, StackOK
  PROVE  StackOK'
BY DEF StackOK, IsSeq, IsOld, Objs

LEMMA ScanTospaceCorrect ==
  ASSUME HeapAssumption, CopyInv, ScanTospace
  PROVE  CopyInv'
<1>1. heap \in Heaps /\ MemoryOK(mem) /\ StackOK /\ ListOK(mem) /\ Pointer(mem, cur) /\ ScanOK
      /\ pc = "scan" /\ scan \in Nat \ {0} /\ scan <= Len(mem.to) + 1
      /\ heap' = heap /\ stack' = stack
  BY DEF CopyInv, StepOK, ScanTospace
<1>2. CASE ScanWord(FALSE) /\ UNCHANGED <<pc, cur>>
  <2>1. /\ MemoryOK(mem') /\ ListOK(mem') /\ ScanOK'
        /\ scan' \in Nat \ {0} /\ scan' <= Len(mem'.to) + 1
        /\ \A a : Pointer(mem, a) => Pointer(mem', a)
    BY <1>1, <1>2, ScanWordCorrect
  <2>2. MemoryOK(mem)' /\ ListOK(mem)' /\ Pointer(mem, cur)'
    BY <1>1, <1>2, <2>1, MemoryPrime
  <2>3. QED
    BY <1>1, <1>2, <2>1, <2>2, StackPrime DEF CopyInv, StepOK
<1>3. CASE scan > Len(mem.to) /\ pc' = "list" /\ cur' = mem.list /\ UNCHANGED <<mem, scan>>
  <2>1. MemoryOK(mem)' /\ ListOK(mem)' /\ Pointer(mem, cur)'
    BY <1>1, <1>3, MemoryPrime DEF MemoryOK, LinksOK
  <2>2. cur' # 0 => Waits(mem', cur')
    BY <1>1, <1>3 DEF ListOK
  <2>3. QED
    BY <1>1, <1>3, <2>1, <2>2, StackPrime DEF CopyInv, StepOK, Waits
<1>4. QED
  BY <1>2, <1>3 DEF ScanTospace

LEMMA RescanCorrect ==
  ASSUME HeapAssumption, CopyInv, Rescan
  PROVE  CopyInv'
<1>1. heap \in Heaps /\ MemoryOK(mem) /\ StackOK /\ ListOK(mem) /\ Pointer(mem, cur) /\ ScanOK
      /\ pc = "rescan" /\ scan \in Nat \ {0} /\ scan <= Len(mem.to) + 1
      /\ heap' = heap /\ stack' = stack /\ cur' = cur
  BY DEF CopyInv, StepOK, Rescan
<1>2. CASE ScanWord(TRUE) /\ UNCHANGED pc
  <2>1. /\ MemoryOK(mem') /\ ListOK(mem') /\ ScanOK'
        /\ scan' \in Nat \ {0} /\ scan' <= Len(mem'.to) + 1
        /\ \A a : Pointer(mem, a) => Pointer(mem', a)
    BY <1>1, <1>2, ScanWordCorrect
  <2>2. MemoryOK(mem)' /\ ListOK(mem)' /\ Pointer(mem, cur)'
    BY <1>1, <1>2, <2>1, MemoryPrime
  <2>3. QED
    BY <1>1, <1>2, <2>1, <2>2, StackPrime DEF CopyInv, StepOK
<1>3. CASE pc' = "queue" /\ UNCHANGED <<mem, scan>>
  <2>1. MemoryOK(mem)' /\ ListOK(mem)' /\ Pointer(mem, cur)'
    BY <1>1, <1>3, MemoryPrime
  <2>2. QED
    BY <1>1, <1>3, <2>1, StackPrime DEF CopyInv, StepOK
<1>4. QED
  BY <1>2, <1>3 DEF Rescan

LEMMA ScanListCorrect ==
  ASSUME HeapAssumption, CopyInv, ScanList
  PROVE  CopyInv'
<1>1. heap \in Heaps /\ MemoryOK(mem) /\ StackOK /\ ListOK(mem) /\ Pointer(mem, cur)
      /\ pc = "list" /\ (cur # 0 => Waits(mem, cur))
      /\ scan \in Nat \ {0} /\ scan <= Len(mem.to) + 1
      /\ heap' = heap /\ stack' = stack /\ scan' = scan
  BY DEF CopyInv, StepOK, ScanList
<1>2. PICK key : key = mem.to[Key(cur)]
  OBVIOUS
<1>3. CASE /\ cur # 0 /\ cur' = Link(mem.to[ListLink(cur)]) /\ pc' = pc
           /\ mem' = IF mem.heart[key[2]] # 0 THEN queue_ephemerons_for_key(mem, key[2]) ELSE mem
  <2>1. EphemeronAt(mem, cur) /\ Waits(mem, cur) /\ Len(mem.to) \in Nat
    BY <1>1, <1>3, LengthType DEF Pointer
  <2>2. cur \in 1 .. Len(mem.to) /\ Key(cur) \in 1 .. Len(mem.to)
    BY <1>1, <2>1, EphemeronFacts DEF Key
  <2>3. IsOld(key) /\ key[2] \in Objs
    BY <1>1, <1>2, <2>1, <2>2 DEF MemoryOK, WordsOK
  <2>4. Later(mem, mem') /\ Len(mem'.to) = Len(mem.to)
    <3>1. CASE mem.heart[key[2]] # 0
      <4>1. PICK n : n = queue_ephemerons_for_key(mem, key[2])
        OBVIOUS
      <4>2. MemoryOK(n) /\ LinkStep(mem, n)
        BY <1>1, <2>3, <4>1, QueueCorrect
      <4>3. mem' = n
        BY <1>3, <3>1, <4>1
      <4>4. QED
        BY <1>1, <4>2, <4>3, LinkStepExtends DEF Later, LinkStep
    <3>2. CASE mem.heart[key[2]] = 0
      BY <1>1, <1>3, <3>2, ExtendsSame DEF Later
    <3>3. QED
      BY <3>1, <3>2
  <2>5. LinkOK(mem, mem.to[ListLink(cur)]) /\
        (mem.to[ListLink(cur)] = False \/ Waits(mem, Link(mem.to[ListLink(cur)])))
    BY <1>1, <2>1, EphemeronFacts DEF ListOK, EphemeronAt
  <2>6. Pointer(mem, cur')
    BY <1>1, <1>3, <2>5, LinkFacts
  <2>7. cur' # 0 => EphemeronAt(mem, cur') /\ Waits(mem, cur')
    BY <1>3, <2>5, <2>6 DEF Pointer, Link, False
  <2>8. cur' # 0 => Waits(mem', cur')
    BY <1>1, <2>4, <2>7, EphemeronFacts DEF Later, Extends
  <2>9. Pointer(mem', cur')
    BY <1>1, <2>4, <2>6, EphemeronStays DEF Pointer, Later
  <2>10. MemoryOK(mem)' /\ ListOK(mem)' /\ Pointer(mem, cur)'
    BY <1>1, <2>4, <2>9, MemoryPrime DEF Later
  <2>11. QED
    BY <1>1, <1>3, <2>4, <2>8, <2>10, StackPrime DEF CopyInv, StepOK, Waits
<1>4. CASE pc' = "queue" /\ UNCHANGED <<mem, cur>>
  <2>1. MemoryOK(mem)' /\ ListOK(mem)' /\ Pointer(mem, cur)'
    BY <1>1, <1>4, MemoryPrime
  <2>2. QED
    BY <1>1, <1>4, <2>1, StackPrime DEF CopyInv, StepOK
<1>5. QED
  BY <1>2, <1>3, <1>4 DEF ScanList

LEMMA ScanQueueCorrect ==
  ASSUME HeapAssumption, CopyInv, ScanQueue
  PROVE  CopyInv'
<1>1. heap \in Heaps /\ MemoryOK(mem) /\ StackOK /\ ListOK(mem) /\ Pointer(mem, cur)
      /\ pc = "queue" /\ scan \in Nat \ {0} /\ scan <= Len(mem.to) + 1
      /\ heap' = heap /\ stack' = stack
  BY DEF CopyInv, StepOK, ScanQueue
<1>2. Len(mem.to) \in Nat
  BY <1>1, LengthType
<1>3. PICK e : e = mem.queue
  OBVIOUS
<1>4. PICK p : p = [mem EXCEPT !.queue = Link(mem.to[NextLink(e)])]
  OBVIOUS
<1>5. PICK w : w = mem.to[Datum(e)]
  OBVIOUS
<1>6. PICK m : m = IF IsOld(w) THEN Handle(p, w[2], TRUE) ELSE p
  OBVIOUS
<1>7. CASE /\ e # 0 /\ scan' = Len(mem.to) + 1 /\ pc' = "rescan" /\ cur' = cur
           /\ mem' = IF IsOld(w) THEN [m EXCEPT !.to[Datum(e)] = Forwarded(m, w)] ELSE m
  <2>1. EphemeronAt(mem, e)
    BY <1>1, <1>3, <1>7 DEF MemoryOK, LinksOK, Pointer
  <2>2. e \in Nat /\ e >= 3 /\ e + 4 <= Len(mem.to) /\ LinkOK(mem, mem.to[NextLink(e)])
    BY <1>1, <2>1, EphemeronFacts
  <2>3. /\ Record(p) /\ p.to = mem.to /\ p.heart = mem.heart /\ p.chain = mem.chain
        /\ p.list = mem.list /\ p.queue = Link(mem.to[NextLink(e)]) /\ p.bucket = mem.bucket
    BY <1>1, <1>4 DEF MemoryOK, ShapeOK, Record
  <2>4. MemoryOK(p)
    <3>1. Pointer(mem, p.list) /\ Pointer(mem, p.queue)
          /\ p.bucket \in [0 .. Buckets - 1 -> Nat]
          /\ \A b \in 0 .. Buckets - 1 : Pointer(mem, p.bucket[b])
      BY <1>1, <2>2, <2>3, LinkFacts DEF MemoryOK, LinksOK, ShapeOK
    <3>2. QED
      BY <1>1, <2>3, <3>1, PointersCorrect
  <2>5. \A a : /\ EphemeronAt(p, a) <=> EphemeronAt(mem, a)
               /\ Waits(p, a) <=> Waits(mem, a)
               /\ Pointer(p, a) <=> Pointer(mem, a)
    BY <2>3 DEF EphemeronAt, Copied, Waits, Pointer
  <2>6. ListOK(p)
    BY <1>1, <2>3 DEF ListOK, Copied, Waits
  <2>7. /\ MemoryOK(mem') /\ ListOK(mem')
        /\ Len(mem'.to) >= Len(mem.to)
        /\ \A a : Pointer(mem, a) => Pointer(mem', a)
        /\ \A f : EphemeronAt(mem', f) /\ Waits(mem', f) =>
             EphemeronAt(mem, f) \/ f > Len(mem.to)
    <3>1. CASE IsOld(w)
      <4>1. Datum(e) \in 1 .. Len(p.to) /\ IsOld(p.to[Datum(e)])
        BY <1>2, <1>5, <2>2, <2>3, <3>1 DEF Datum
      <4>2. w[2] \in Objs
        BY <1>1, <1>5, <2>3, <3>1, <4>1 DEF MemoryOK, WordsOK
      <4>3. Later(p, m)
        BY <1>1, <1>6, <2>4, <3>1, <4>2, HandleCorrect
      <4>4. PICK v : v = Forwarded(m, w) /\ v[1] = "new"
        <5>1. Forwarded(m, w)[1] = "new"
          BY DEF Forwarded
        <5>2. QED
          BY <5>1
      <4>5. PICK n : n = mem' /\ PutAt(m, n, Datum(e), v)
        <5>1. mem' = [m EXCEPT !.to[Datum(e)] = v]
          BY <1>7, <3>1, <4>4
        <5>2. QED
          BY <4>3, <5>1, PutStep DEF Later, MemoryOK, ShapeOK
      <4>6. ASSUME NEW f, EphemeronAt(p, f) PROVE Datum(e) # Key(f)
        <5>1. f \in Nat /\ (e = f \/ e + 5 <= f \/ f + 5 <= e)
          BY <1>1, <2>1, <2>5, <4>6, EphemeronFacts
        <5>2. QED
          BY <2>2, <5>1 DEF Datum, Key
      <4>7. /\ MemoryOK(n) /\ ListOK(n)
            /\ Len(n.to) >= Len(p.to)
            /\ \A a : Pointer(p, a) => Pointer(n, a)
            /\ \A f : EphemeronAt(n, f) /\ Waits(n, f) =>
                 (EphemeronAt(p, f) /\ Waits(p, f)) \/ f > Len(p.to)
        BY <1>1, <2>4, <2>6, <4>1, <4>3, <4>4, <4>5, <4>6, ForwardCorrect
      <4>8. QED
        BY <2>3, <2>5, <4>5, <4>7
    <3>2. CASE ~IsOld(w)
      <4>1. mem' = p
        BY <1>6, <1>7, <3>2
      <4>2. QED
        BY <1>2, <2>3, <2>4, <2>5, <2>6, <4>1
    <3>3. QED
      BY <3>1, <3>2
  <2>8. Len(mem'.to) \in Nat
    BY <2>7, LengthType
  <2>9. ASSUME NEW f, EphemeronAt(mem', f), Waits(mem', f)
        PROVE  scan' <= f \/ scan' >= f + 5
    <3>1. f \in Nat
      BY <1>1, <2>7, <2>9, EphemeronFacts
    <3>2. CASE EphemeronAt(mem, f)
      BY <1>1, <1>2, <1>7, <3>1, <3>2, EphemeronFacts
    <3>3. CASE f > Len(mem.to)
      BY <1>2, <1>7, <3>1, <3>3
    <3>4. QED
      BY <2>7, <2>9, <3>2, <3>3
  <2>10. ScanOK'
    BY <1>1, <2>9, ScanPrime
  <2>11. scan' \in Nat \ {0} /\ scan' <= Len(mem'.to) + 1
    BY <1>2, <1>7, <2>7, <2>8
  <2>12. MemoryOK(mem)' /\ ListOK(mem)' /\ Pointer(mem, cur)'
    BY <1>1, <1>7, <2>7, MemoryPrime
  <2>13. QED
    BY <1>1, <1>7, <2>10, <2>11, <2>12, StackPrime DEF CopyInv, StepOK
<1>8. CASE pc' = "ephemerons" /\ cur' = mem.list /\ UNCHANGED <<mem, scan>>
  <2>1. MemoryOK(mem)' /\ Pointer(mem, cur)'
    BY <1>1, <1>8, MemoryPrime DEF MemoryOK, LinksOK
  <2>2. QED
    BY <1>1, <1>8, <2>1, StackPrime DEF CopyInv, StepOK
<1>9. QED
  BY <1>3, <1>4, <1>5, <1>6, <1>7, <1>8 DEF ScanQueue

\* weak_referent_forward gives a word that does not point to fromspace.
LEMMA ReferentFacts ==
  ASSUME NEW w, NEW collected, collected[1] # "old", collected[1] # "nmv"
  PROVE  LET v == ReferentForward(w, collected) IN v[1] # "old" /\ v[1] # "nmv"
<1>1. Forwarded(mem, w)[1] = "new"
  BY DEF Forwarded
<1>2. QED
  BY <1>1 DEF ReferentForward

\* A word of an ephemeron that does not wait is overwritten.
LEMMA SettlePut ==
  ASSUME heap \in Heaps, NEW m, MemoryOK(m), NEW e, EphemeronAt(m, e), ~Waits(m, e),
         NEW k \in {1, 2, 3, 4}, NEW w, w[1] # "old", w[1] # "nmv", k \in {3, 4} => w = False,
         NEW n, PutAt(m, n, e + k, w)
  PROVE  /\ MemoryOK(n) /\ Len(n.to) = Len(m.to) /\ EphemeronAt(n, e) /\ ~Waits(n, e)
         /\ \A a : Pointer(m, a) => Pointer(n, a)
         /\ \A j \in 1 .. Len(m.to) : j # e + k => n.to[j] = m.to[j]
<1>1. PICK a : a = e + k
  OBVIOUS
<1>2. PutAt(m, n, a, w)
  BY <1>1
<1>3. e \in Nat /\ e >= 3 /\ e + 4 <= Len(m.to) /\ Len(m.to) \in Nat
  BY EphemeronFacts
<1>4. a \in 1 .. Len(m.to) /\ e \in 1 .. Len(m.to) /\ e # a
  BY <1>1, <1>3
<1>5. ASSUME NEW f, EphemeronAt(m, f)
      PROVE  /\ a \in {ListLink(f), NextLink(f)} => LinkOK(m, w)
             /\ Waits(m, f) => a # Key(f)
  <2>1. f \in Nat /\ (e = f \/ e + 5 <= f \/ f + 5 <= e)
    BY <1>5, EphemeronFacts
  <2>2. CASE f # e
    BY <1>1, <1>3, <2>1, <2>2 DEF ListLink, NextLink, Key
  <2>3. CASE f = e
    BY <1>1, <1>3, <2>3 DEF ListLink, NextLink, LinkOK
  <2>4. QED
    BY <2>2, <2>3
<1>6. MemoryOK(n) /\ (Waits(n, e) => Waits(m, e))
  BY <1>2, <1>4, <1>5, WordPut
<1>7. \A f : (EphemeronAt(n, f) <=> EphemeronAt(m, f)) /\ (Pointer(n, f) <=> Pointer(m, f))
  BY <1>2 DEF PutAt, EphemeronAt, Copied, Pointer
<1>8. QED
  BY <1>1, <1>2, <1>6, <1>7 DEF PutAt

LEMMA UpdateEphemeronsCorrect ==
  ASSUME HeapAssumption, CopyInv, update_ephemerons
  PROVE  CopyInv'
<1>1. heap \in Heaps /\ MemoryOK(mem) /\ StackOK /\ Pointer(mem, cur)
      /\ pc = "ephemerons" /\ scan \in Nat \ {0} /\ scan <= Len(mem.to) + 1
      /\ heap' = heap /\ stack' = stack /\ scan' = scan
  BY DEF CopyInv, StepOK, update_ephemerons
<1>2. PICK key : key = ReferentForward(mem.to[Key(cur)], False)
  OBVIOUS
<1>3. CASE /\ cur # 0 /\ cur' = Link(mem.to[ListLink(cur)]) /\ pc' = pc
           /\ mem' = [mem EXCEPT
                        !.to[cur] = Manifest, !.to[Key(cur)] = key,
                        !.to[Datum(cur)] = IF key = False THEN False ELSE @,
                        !.to[ListLink(cur)] = False, !.to[NextLink(cur)] = False]
  <2>1. EphemeronAt(mem, cur)
    BY <1>1, <1>3 DEF Pointer
  <2>2. cur \in Nat /\ cur >= 3 /\ cur + 4 <= Len(mem.to) /\ Len(mem.to) \in Nat
    BY <1>1, <2>1, EphemeronFacts
  <2>3. False[1] # "old" /\ False[1] # "nmv" /\ key[1] # "old" /\ key[1] # "nmv"
    <3>1. False[1] # "old" /\ False[1] # "nmv"
      BY DEF False
    <3>2. QED
      BY <1>2, <3>1, ReferentFacts
  <2>4. PICK n1 : n1 = [mem EXCEPT !.to[cur] = Manifest]
    OBVIOUS
  <2>5. PICK n2 : n2 = [n1 EXCEPT !.to[Key(cur)] = key]
    OBVIOUS
  <2> DEFINE datum == mem.to[Datum(cur)]
  <2>6. PICK n3 : n3 = [n2 EXCEPT !.to[Datum(cur)] = IF key = False THEN False ELSE datum]
    OBVIOUS
  <2>7. PICK n4 : n4 = [n3 EXCEPT !.to[ListLink(cur)] = False]
    OBVIOUS
  <2>8. mem' = [n4 EXCEPT !.to[NextLink(cur)] = False]
    BY <1>3, <2>4, <2>5, <2>6, <2>7
  <2>9. /\ MemoryOK(n1) /\ Len(n1.to) = Len(mem.to) /\ EphemeronAt(n1, cur) /\ ~Waits(n1, cur)
        /\ \A a : Pointer(mem, a) => Pointer(n1, a)
        /\ n1.to[Datum(cur)] = datum
    <3>1. PutAt(mem, n1, cur, Manifest)
      BY <1>1, <2>4, PutStep DEF MemoryOK, ShapeOK
    <3>2. ASSUME NEW f, EphemeronAt(mem, f)
          PROVE  cur \notin {ListLink(f), NextLink(f)} /\ cur # Key(f)
      <4>1. f \in Nat /\ (cur = f \/ cur + 5 <= f \/ f + 5 <= cur)
        BY <1>1, <2>1, <3>2, EphemeronFacts
      <4>2. QED
        BY <2>2, <4>1 DEF ListLink, NextLink, Key
    <3>3. Manifest[1] # "old" /\ Manifest[1] # "nmv" /\ cur \in 1 .. Len(mem.to)
      BY <2>2 DEF Manifest
    <3>4. MemoryOK(n1) /\ ~Waits(n1, cur)
      BY <1>1, <3>1, <3>2, <3>3, WordPut
    <3>5. \A f : /\ EphemeronAt(n1, f) <=> EphemeronAt(mem, f)
                 /\ Pointer(n1, f) <=> Pointer(mem, f)
      BY <3>1 DEF PutAt, EphemeronAt, Copied, Pointer
    <3>6. n1.to[Datum(cur)] = datum
      BY <2>2, <3>1 DEF PutAt, Datum
    <3>7. QED
      BY <2>1, <3>1, <3>4, <3>5, <3>6 DEF PutAt
  <2>10. /\ MemoryOK(n2) /\ Len(n2.to) = Len(mem.to) /\ EphemeronAt(n2, cur) /\ ~Waits(n2, cur)
         /\ \A a : Pointer(mem, a) => Pointer(n2, a)
         /\ n2.to[Datum(cur)] = datum
    <3>1. PutAt(n1, n2, cur + 1, key)
      BY <2>5, <2>9, PutStep DEF Key, MemoryOK, ShapeOK
    <3>2. Datum(cur) \in 1 .. Len(mem.to) /\ Datum(cur) # cur + 1
      BY <2>2 DEF Datum
    <3> HIDE DEF datum
    <3>3. QED
      BY <1>1, <2>3, <2>9, <3>1, <3>2, SettlePut
  <2>11. /\ MemoryOK(n3) /\ Len(n3.to) = Len(mem.to) /\ EphemeronAt(n3, cur) /\ ~Waits(n3, cur)
         /\ \A a : Pointer(mem, a) => Pointer(n3, a)
    <3>1. CASE key = False
      <4>1. n3 = [n2 EXCEPT !.to[cur + 2] = False]
        BY <2>6, <3>1 DEF Datum
      <4>2. PutAt(n2, n3, cur + 2, False)
        BY <2>10, <4>1, PutStep DEF MemoryOK, ShapeOK
      <4>3. QED
        BY <1>1, <2>3, <2>10, <4>2, SettlePut
    <3>2. CASE key # False
      <4>1. PICK d : d = n2.to[Datum(cur)]
        OBVIOUS
      <4>2. n3 = [n2 EXCEPT !.to[Datum(cur)] = d]
        BY <2>6, <2>10, <3>2, <4>1
      <4>3. Record(n2) /\ IsSeq(n2.to)
        BY <2>10 DEF MemoryOK, ShapeOK
      <4>4. PutAt(n2, n3, Datum(cur), d)
        BY <4>2, <4>3, PutStep
      <4>5. n3.to = n2.to
        <5>1. IsSeq(n3.to) /\ Len(n3.to) = Len(n2.to)
              /\ \A i \in 1 .. Len(n2.to) : n3.to[i] = n2.to[i]
          BY <4>1, <4>4 DEF PutAt
        <5>2. n3.to = [i \in 1 .. Len(n2.to) |-> n3.to[i]]
          BY <5>1, SeqFacts DEF IsSeq
        <5>3. n2.to = [i \in 1 .. Len(n2.to) |-> n2.to[i]]
          BY <4>3, SeqFacts DEF IsSeq
        <5>4. QED
          BY <5>1, <5>2, <5>3
      <4>6. /\ Record(n3) /\ n3.heart = n2.heart /\ n3.chain = n2.chain /\ n3.list = n2.list
            /\ n3.queue = n2.queue /\ n3.bucket = n2.bucket
        BY <4>4 DEF PutAt
      <4>7. MemoryOK(n3)
        BY <2>10, <4>5, <4>6, PointersCorrect DEF MemoryOK, ShapeOK, LinksOK
      <4>8. QED
        BY <2>10, <4>5, <4>6, <4>7 DEF EphemeronAt, Copied, Pointer, Waits
    <3>3. QED
      BY <3>1, <3>2
  <2>12. /\ MemoryOK(n4) /\ Len(n4.to) = Len(mem.to) /\ EphemeronAt(n4, cur) /\ ~Waits(n4, cur)
         /\ \A a : Pointer(mem, a) => Pointer(n4, a)
    <3>1. PutAt(n3, n4, cur + 3, False)
      BY <2>7, <2>11, PutStep DEF ListLink, MemoryOK, ShapeOK
    <3>2. QED
      BY <1>1, <2>3, <2>11, <3>1, SettlePut
  <2>13. /\ MemoryOK(mem') /\ Len(mem'.to) = Len(mem.to)
         /\ \A a : Pointer(mem, a) => Pointer(mem', a)
    <3>1. PICK n5 : n5 = mem' /\ PutAt(n4, n5, cur + 4, False)
      BY <2>8, <2>12, PutStep DEF NextLink, MemoryOK, ShapeOK
    <3>2. /\ MemoryOK(n5) /\ Len(n5.to) = Len(n4.to)
          /\ \A a : Pointer(n4, a) => Pointer(n5, a)
      BY <1>1, <2>3, <2>12, <3>1, SettlePut
    <3>3. QED
      BY <2>12, <3>1, <3>2
  <2>14. Pointer(mem, cur')
    BY <1>1, <1>3, <2>1, EphemeronFacts, LinkFacts
  <2>15. MemoryOK(mem)' /\ Pointer(mem, cur)'
    BY <1>1, <2>13, <2>14, MemoryPrime
  <2>16. QED
    BY <1>1, <1>3, <2>13, <2>15, StackPrime DEF CopyInv, StepOK
<1>4. CASE cur = 0 /\ mem' = [mem EXCEPT !.list = 0] /\ pc' = "weak" /\ cur' = cur
  <2>1. /\ Record(mem') /\ mem'.to = mem.to /\ mem'.heart = mem.heart
        /\ mem'.chain = mem.chain /\ mem'.list = 0 /\ mem'.queue = mem.queue
        /\ mem'.bucket = mem.bucket
    BY <1>1, <1>4 DEF MemoryOK, ShapeOK, Record
  <2>2. MemoryOK(mem')
    BY <1>1, <2>1, PointersCorrect DEF MemoryOK, ShapeOK, LinksOK, Pointer
  <2>3. MemoryOK(mem)' /\ Pointer(mem, cur)'
    BY <1>1, <1>4, <2>2, MemoryPrime DEF Pointer
  <2>4. QED
    BY <1>1, <1>4, <2>1, <2>3, StackPrime DEF CopyInv, StepOK
<1>5. QED
  BY <1>2, <1>3, <1>4 DEF update_ephemerons

LEMMA UpdateWeakPairsCorrect ==
  ASSUME HeapAssumption, CopyInv, update_weak_pairs
  PROVE  CopyInv'
<1>1. heap \in Heaps /\ MemoryOK(mem) /\ StackOK /\ Pointer(mem, cur)
      /\ pc = "weak" /\ scan \in Nat \ {0} /\ scan <= Len(mem.to) + 1
      /\ heap' = heap /\ stack' = stack /\ scan' = scan /\ cur' = cur
  BY DEF CopyInv, StepOK, update_weak_pairs
<1>2. PICK o : o = Head(mem.chain)
  OBVIOUS
<1>3. PICK a : a = mem.heart[o]
  OBVIOUS
<1>4. CASE /\ mem.chain # <<>> /\ pc' = pc
           /\ mem' = [mem EXCEPT !.to[a] = ReferentForward(@, Reclaimed), !.chain = Tail(@)]
  <2>1. PICK c : c = Tail(mem.chain)
    OBVIOUS
  <2>2. /\ mem.chain \in Seq(Objs) /\ Len(mem.chain) \in Nat \ {0} /\ o = mem.chain[1]
        /\ c \in Seq(Objs) /\ Len(c) = Len(mem.chain) - 1
        /\ \A i \in 1 .. Len(c) : c[i] = mem.chain[i + 1]
    BY <1>1, <1>2, <1>4, <2>1, EmptySeq, HeadTailProperties DEF MemoryOK, WeakOK
  <2>3. o \in Objs /\ Kind(o) = "weak" /\ a # 0
    <3>1. 1 \in 1 .. Len(mem.chain)
      BY <2>2
    <3>2. QED
      BY <1>1, <1>3, <2>2, <3>1, ElementOfSeq DEF MemoryOK, WeakOK
  <2>4. o \in Copied(mem) /\ Size(o) = 2
    BY <1>1, <1>3, <2>3, WordsFacts DEF Copied
  <2>5. a \in Nat /\ a >= 3 /\ a + 2 <= Len(mem.to) + 1 /\ Len(mem.to) \in Nat
    BY <1>1, <1>3, <2>3, <2>4, LengthType DEF MemoryOK, CopiesOK
  <2>6. ASSUME NEW e, EphemeronAt(mem, e) PROVE a + 2 <= e \/ e + 5 <= a
    <3>1. PICK p \in Copied(mem) : Kind(p) = "ephemeron" /\ e = mem.heart[p]
      BY <2>6 DEF EphemeronAt
    <3>2. p # o /\ Size(p) = 5
      BY <1>1, <2>3, <3>1, WordsFacts DEF Copied, EphemeronSize
    <3>3. a + Size(o) <= e \/ e + Size(p) <= a
      BY <1>1, <1>3, <2>4, <3>1, <3>2 DEF MemoryOK, CopiesOK
    <3>4. QED
      BY <2>4, <3>2, <3>3
  <2>7. PICK w : w = ReferentForward(mem.to[a], Reclaimed)
    OBVIOUS
  <2>8. w[1] # "old" /\ w[1] # "nmv"
    <3>1. Reclaimed[1] # "old" /\ Reclaimed[1] # "nmv"
      BY DEF Reclaimed
    <3>2. QED
      BY <2>7, <3>1, ReferentFacts
  <2>9. PICK u : u = [mem EXCEPT !.to[a] = w]
    OBVIOUS
  <2>10. PutAt(mem, u, a, w)
    BY <1>1, <2>9, PutStep DEF MemoryOK, ShapeOK
  <2>11. MemoryOK(u)
    <3>1. ASSUME NEW e, EphemeronAt(mem, e)
          PROVE  a \notin {ListLink(e), NextLink(e)} /\ a # Key(e)
      <4>1. e \in Nat
        BY <1>1, <3>1, EphemeronFacts
      <4>2. QED
        BY <2>5, <2>6, <3>1, <4>1 DEF ListLink, NextLink, Key
    <3>2. a \in 1 .. Len(mem.to)
      BY <2>5
    <3>3. QED
      BY <1>1, <2>8, <2>10, <3>1, <3>2, WordPut
  <2>12. mem' = [u EXCEPT !.chain = c]
    BY <1>4, <2>1, <2>7, <2>9
  <2>13. PICK n : n = mem'
    OBVIOUS
  <2>14. /\ Record(n) /\ n.to = u.to /\ n.heart = u.heart /\ n.chain = c
         /\ n.list = u.list /\ n.queue = u.queue /\ n.bucket = u.bucket
    BY <2>11, <2>12, <2>13 DEF MemoryOK, ShapeOK, Record
  <2>15. u.heart = mem.heart /\ Len(u.to) = Len(mem.to)
    BY <2>10 DEF PutAt
  <2>16. \A b, x : /\ EphemeronAt(n, b) <=> EphemeronAt(u, b)
                   /\ Pointer(n, b) <=> Pointer(u, b)
                   /\ LinkOK(n, x) <=> LinkOK(u, x)
                   /\ Waits(n, b) <=> Waits(u, b)
    BY <2>14 DEF EphemeronAt, Copied, Pointer, LinkOK, Waits
  <2>17. Copied(n) = Copied(u)
    BY <2>14 DEF Copied
  <2>18. WeakOK(n)
    <3>1. ASSUME NEW i \in 1 .. Len(c) PROVE Kind(c[i]) = "weak" /\ n.heart[c[i]] # 0
      <4>1. i + 1 \in 1 .. Len(mem.chain) /\ c[i] = mem.chain[i + 1]
        BY <2>2
      <4>2. QED
        BY <1>1, <2>14, <2>15, <4>1 DEF MemoryOK, WeakOK
    <3>2. QED
      BY <2>2, <2>14, <3>1 DEF WeakOK
  <2>19. ShapeOK(n) /\ CopiesOK(n)
    BY <2>11, <2>14, <2>17 DEF MemoryOK, ShapeOK, CopiesOK
  <2>20. WordsOK(n)
    BY <2>11, <2>14, <2>16 DEF MemoryOK, WordsOK
  <2>21. LinksOK(n)
    BY <2>11, <2>14, <2>16, <2>17 DEF MemoryOK, LinksOK
  <2>22. MemoryOK(n)
    BY <2>18, <2>19, <2>20, <2>21 DEF MemoryOK
  <2>23. Pointer(n, cur)
    BY <1>1, <2>14, <2>15 DEF Pointer, EphemeronAt, Copied
  <2>24. MemoryOK(mem)' /\ Pointer(mem, cur)'
    BY <1>1, <2>13, <2>22, <2>23, MemoryPrime
  <2>25. Len(mem'.to) = Len(mem.to)
    BY <2>13, <2>14, <2>15
  <2>26. QED
    BY <1>1, <1>4, <2>24, <2>25, StackPrime DEF CopyInv, StepOK
<1>5. CASE pc' = "done" /\ mem' = mem
  <2>1. MemoryOK(mem)' /\ Pointer(mem, cur)'
    BY <1>1, <1>5, MemoryPrime
  <2>2. QED
    BY <1>1, <1>5, <2>1, StackPrime DEF CopyInv, StepOK
<1>6. QED
  BY <1>2, <1>3, <1>4, <1>5 DEF update_weak_pairs

-----------------------------------------------------------------------------
\* The theorems.

LEMMA InitCorrect ==
  ASSUME HeapAssumption, Init
  PROVE  CopyInv
<1>1. heap \in Heaps /\ stack = heap.stack /\ pc = "stack" /\ scan = 1 /\ cur = 0
  BY DEF Init
<1>2. /\ Record(mem) /\ mem.to = <<heap.fixed, Imm>> /\ mem.heart = [o \in Objs |-> 0]
      /\ mem.chain = <<>> /\ mem.list = 0 /\ mem.queue = 0
      /\ mem.bucket = [b \in 0 .. Buckets - 1 |-> 0]
  BY DEF Init, Record
<1>3. heap.fixed \in HeapWords(Objs) /\ heap.stack \in Seq(HeapWords(Objs))
  BY <1>1, HeapFacts
<1>4. Copied(mem) = {}
  BY <1>2 DEF Copied
<1>5. Len(mem.to) = 2 /\ mem.to[1] = heap.fixed /\ mem.to[2] = Imm /\ IsSeq(mem.to)
  <2>1. <<heap.fixed, Imm>> \in Seq({heap.fixed, Imm})
    OBVIOUS
  <2>2. IsSeq(<<heap.fixed, Imm>>)
    BY <2>1, SeqFacts
  <2>3. QED
    BY <1>2, <2>2
<1>6. ShapeOK(mem)
  BY <1>2, <1>5 DEF ShapeOK
<1>7. CopiesOK(mem)
  BY <1>4, <1>5 DEF CopiesOK
<1>8. WordsOK(mem)
  <2>1. ASSUME NEW i \in 1 .. Len(mem.to)
        PROVE  (IsOld(mem.to[i]) => mem.to[i] \in {"old"} \X Objs \X Nat) /\ ~Waits(mem, i)
    <3>1. CASE i = 1
      BY <1>3, <1>5, <3>1, HeapWordFacts DEF Waits
    <3>2. CASE i = 2
      BY <1>5, <3>2 DEF Waits, Imm, IsOld
    <3>3. QED
      BY <1>5, <3>1, <3>2
  <2>2. QED
    BY <2>1 DEF WordsOK
<1>9. LinksOK(mem) /\ WeakOK(mem) /\ ListOK(mem)
  BY <1>2, <1>4, EmptySeq DEF LinksOK, WeakOK, ListOK, Pointer
<1>10. StackOK
  <2>1. IsSeq(stack) /\ Len(stack) = Len(heap.stack)
    BY <1>1, <1>3, SeqFacts
  <2>2. ASSUME NEW i \in 1 .. Len(stack), IsOld(stack[i])
        PROVE  stack[i] \in {"old"} \X Objs \X Nat
    <3>1. stack[i] \in HeapWords(Objs)
      BY <1>1, <1>3, ElementOfSeq
    <3>2. QED
      BY <2>2, <3>1, HeapWordFacts
  <2>3. QED
    BY <2>1, <2>2 DEF StackOK
<1>11. StepOK
  BY <1>1, <1>9, <1>10, SeqFacts DEF StepOK, StackOK, IsSeq, Pointer
<1>12. QED
  BY <1>6, <1>7, <1>8, <1>9, <1>10, <1>11 DEF CopyInv, MemoryOK

LEMMA NextCorrect ==
  ASSUME HeapAssumption, CopyInv, [Next]_vars
  PROVE  CopyInv'
<1>1. CASE UNCHANGED vars
  <2>1. heap' = heap /\ mem' = mem /\ stack' = stack /\ scan' = scan /\ cur' = cur /\ pc' = pc
    BY <1>1 DEF vars
  <2>2. /\ MemoryOK(mem) => MemoryOK(mem)'
        /\ ListOK(mem) => ListOK(mem)'
        /\ Pointer(mem, cur) => Pointer(mem, cur)'
    BY <2>1, MemoryPrime
  <2>3. ScanOK => ScanOK'
    BY <2>1, ScanFacts, ScanPrime
  <2>4. QED
    BY <2>1, <2>2, <2>3, StackPrime DEF CopyInv, StepOK, Waits
<1>2. CASE Next
  <2>1. \/ ScanStack \/ ScanTospace \/ ScanList \/ ScanQueue \/ Rescan
        \/ update_ephemerons \/ update_weak_pairs \/ UNCHANGED vars
    BY <1>2 DEF Next, Finished
  <2>2. QED
    BY <1>1, <2>1, ScanStackCorrect, ScanTospaceCorrect, ScanListCorrect, ScanQueueCorrect,
       RescanCorrect, UpdateEphemeronsCorrect, UpdateWeakPairsCorrect
<1>3. QED
  BY <1>1, <1>2

\* CopyInv is an invariant, for any heaps and buckets.
LEMMA CopyInvariant == Spec => []CopyInv
<1>1. Init => CopyInv
  BY HeapAssumption, InitCorrect
<1>2. CopyInv /\ [Next]_vars => CopyInv'
  BY HeapAssumption, NextCorrect
<1>3. QED
  BY <1>1, <1>2, PTL DEF Spec

\* Every broken heart and every pointer of the collector points into tospace, whatever
\* the heap (gcloop.c: gc_transport_words).
THEOREM TypeCorrect == Spec => []TypeOK
<1>1. CopyInv => TypeOK
  <2> SUFFICES ASSUME CopyInv PROVE TypeOK
    OBVIOUS
  <2>1. heap \in Heaps /\ MemoryOK(mem) /\ StackOK /\ StepOK
    BY DEF CopyInv, StepOK
  <2>2. Len(mem.to) \in Nat /\ Len(stack) \in Nat
    BY <2>1, LengthType, SeqFacts DEF StackOK, IsSeq
  <2>3. mem.heart \in [Objs -> 0 .. Len(mem.to)]
    <3>1. mem.heart \in [Objs -> Nat]
      BY <2>1 DEF MemoryOK, ShapeOK
    <3>2. ASSUME NEW o \in Objs PROVE mem.heart[o] \in 0 .. Len(mem.to)
      <4>1. CASE mem.heart[o] = 0
        BY <2>2, <4>1
      <4>2. CASE mem.heart[o] # 0
        <5>1. o \in Copied(mem) /\ mem.heart[o] \in Nat
          BY <3>1, <4>2 DEF Copied
        <5>2. Size(o) \in Nat \ {0} /\ mem.heart[o] + Size(o) <= Len(mem.to) + 1
          BY <2>1, <5>1, WordsFacts DEF MemoryOK, CopiesOK
        <5>3. QED
          BY <2>2, <5>1, <5>2
      <4>3. QED
        BY <4>1, <4>2
    <3>3. QED
      BY <3>1, <3>2
  <2>4. cur \in 0 .. Len(mem.to)
    BY <2>1, <2>2, EphemeronFacts DEF StepOK, Pointer
  <2>5. scan \in 1 .. Len(mem.to) + Len(stack) + 1
    BY <2>1, <2>2 DEF StepOK
  <2>6. QED
    BY <2>1, <2>3, <2>4, <2>5 DEF TypeOK, StepOK, StackOK
<1>2. QED
  BY <1>1, CopyInvariant, PTL

\* No object is copied over another, nor twice: the copies are disjoint and fill tospace,
\* whatever the heap and the length of the hash table (gcloop.c: gc_precheck_from,
\* gc_tuple's eager cdrs).
THEOREM CopiesAreApart == Spec => []CopiedOnce
<1>1. CopyInv => CopiedOnce
  <2> SUFFICES ASSUME CopyInv PROVE CopiedOnce
    OBVIOUS
  <2> DEFINE Extent(o) == mem.heart[o] .. mem.heart[o] + Len(Words(o)) - 1
  <2>1. heap \in Heaps /\ MemoryOK(mem) /\ Len(mem.to) \in Nat
    BY LengthType DEF CopyInv, StepOK
  <2>2. ASSUME NEW o \in Copied(mem)
        PROVE  /\ mem.heart[o] \in Nat /\ mem.heart[o] >= 3 /\ Size(o) \in Nat
               /\ mem.heart[o] + Size(o) <= Len(mem.to) + 1
               /\ Extent(o) = mem.heart[o] .. mem.heart[o] + Size(o) - 1
    BY <2>1, WordsFacts, LengthType DEF MemoryOK, CopiesOK, Copied, Size
  <2> HIDE DEF Extent
  <2>3. ASSUME NEW o \in Copied(mem), NEW p \in Copied(mem), o # p
        PROVE  Extent(o) \cap Extent(p) = {}
    <3>1. \/ mem.heart[o] + Size(o) <= mem.heart[p]
          \/ mem.heart[p] + Size(p) <= mem.heart[o]
      BY <2>1, <2>3 DEF MemoryOK, CopiesOK
    <3>2. QED
      BY <2>2, <3>1, SMTT(20)
  <2>4. UNION {Extent(o) : o \in Copied(mem)} = 3 .. Len(mem.to)
    <3>1. ASSUME NEW o \in Copied(mem), NEW a \in Extent(o) PROVE a \in 3 .. Len(mem.to)
      BY <2>1, <2>2, SMTT(20)
    <3>2. ASSUME NEW a \in 3 .. Len(mem.to) PROVE \E o \in Copied(mem) : a \in Extent(o)
      <4>1. PICK o \in Copied(mem) : mem.heart[o] <= a /\ a < mem.heart[o] + Size(o)
        BY <2>1 DEF MemoryOK, CopiesOK
      <4>2. a \in Extent(o)
        BY <2>2, <4>1
      <4>3. QED
        BY <4>2
    <3>3. QED
      BY <3>1, <3>2
  <2>5. QED
    BY <2>3, <2>4 DEF CopiedOnce, Copied, Extent
<1>2. QED
  BY <1>1, CopyInvariant, PTL

-----------------------------------------------------------------------------
\* The chains of ephemerons: the buckets of the hash table, the queue and the list.
\* o, p: objects of fromspace; e, f: addresses of ephemerons.

Waiting(m) == {e \in 1 .. Len(m.to) : EphemeronAt(m, e) /\ Waits(m, e)}
KeyOf(m, e) == m.to[Key(e)][2]

\* The members of S from a on, by decreasing rank: each leads to the next by the link k
\* words behind it, the last one to 0.
ListWord == 3
NextWord == 4
After(m, k, e) == Link(m.to[e + k])
Below(e, S, r) == {f \in S : r[f] < r[e]}
Greatest(a, S, r) == IF S = {} THEN a = 0 ELSE a \in S /\ \A f \in S : r[f] <= r[a]
Descends(m, k, a, S, r) ==
  /\ Greatest(a, S, r)
  /\ \A e \in S : Greatest(After(m, k, e), Below(e, S, r), r)
Address == [a \in Nat |-> a]

\* H, hashed by their keys, and Q, queued, are ephemerons that wait.
InBucket(m, H, b) == {e \in H : Bucket(KeyOf(m, e)) = b}
Chains(m, H, Q, r) ==
  /\ H \cup Q \subseteq Waiting(m) /\ H \cap Q = {}
  /\ \A b \in 0 .. Buckets - 1 : Descends(m, NextWord, m.bucket[b], InBucket(m, H, b), Address)
  /\ r \in [Nat -> Nat] /\ \A e, f \in Q : r[e] = r[f] => e = f
  /\ Descends(m, NextWord, m.queue, Q, r)

\* Every ephemeron but x whose datum is to be scanned if its key lives is in one of them: in
\* Q when the key lives, or is o, and of H at most those up to lim have such a key.
KeyLives(m, e, o) == m.heart[KeyOf(m, e)] # 0 \/ KeyOf(m, e) = o
Sorted(m, H, Q, lim, o, x) ==
  /\ \A e \in Waiting(m) : IsOld(m.to[Datum(e)]) => e \in H \cup Q \cup {x}
  /\ \A e \in Q : KeyLives(m, e, o)
  /\ \A e \in H : KeyLives(m, e, o) => e <= lim
Kept(m, lim, o, x) == \E H, Q, r : Chains(m, H, Q, r) /\ Sorted(m, H, Q, lim, o, x)

-----------------------------------------------------------------------------
\* Chains of ephemerons.

Injective(S, r) == \A e, f \in S : r[e] = r[f] => e = f

\* A chain is the same where the links of its ephemerons are.
LEMMA DescendsSame ==
  ASSUME NEW m, NEW n, NEW k, NEW a, NEW S, NEW r, Descends(m, k, a, S, r),
         \A e \in S : After(n, k, e) = After(m, k, e)
  PROVE  Descends(n, k, a, S, r)
BY DEF Descends

\* The ranks of the others do not matter.
LEMMA DescendsRank ==
  ASSUME NEW m, NEW k, NEW a, NEW S, NEW r, NEW t, Descends(m, k, a, S, r),
         \A e \in S : t[e] = r[e]
  PROVE  Descends(m, k, a, S, t)
<1>1. \A e \in S : Below(e, S, t) = Below(e, S, r)
  BY DEF Below
<1>2. \A T, b : T \subseteq S /\ Greatest(b, T, r) => Greatest(b, T, t)
  BY DEF Greatest
<1>3. \A e \in S : Below(e, S, r) \subseteq S
  BY DEF Below
<1>4. QED
  BY <1>1, <1>2, <1>3 DEF Descends

\* A member of higher rank is put before the first.
LEMMA DescendsPush ==
  ASSUME NEW m, NEW n, NEW k, NEW a, NEW S, S \subseteq Nat, NEW r \in [Nat -> Nat],
         Descends(m, k, a, S, r), NEW e \in Nat, \A f \in S : r[f] < r[e],
         After(n, k, e) = a, \A f \in S : After(n, k, f) = After(m, k, f)
  PROVE  Descends(n, k, e, S \cup {e}, r)
<1>1. \A f \in S : r[f] \in Nat /\ r[e] \in Nat
  OBVIOUS
<1>2. Greatest(e, S \cup {e}, r)
  BY <1>1 DEF Greatest
<1>3. ASSUME NEW f \in S PROVE Below(f, S \cup {e}, r) = Below(f, S, r)
  BY <1>1 DEF Below
<1>4. Below(e, S \cup {e}, r) = S
  <2>1. ~(r[e] < r[e])
    BY <1>1
  <2>2. \A f : f \in Below(e, S \cup {e}, r) <=> f \in S
    BY <2>1 DEF Below
  <2>3. QED
    BY <2>2
<1>5. QED
  BY <1>2, <1>3, <1>4 DEF Descends

\* The first is taken away.
LEMMA DescendsPop ==
  ASSUME NEW m, NEW k, NEW a, NEW S, S \subseteq Nat, NEW r \in [Nat -> Nat],
         Injective(S, r), Descends(m, k, a, S, r), a \in S
  PROVE  Descends(m, k, After(m, k, a), S \ {a}, r)
<1>1. \A f \in S : r[f] \in Nat /\ r[f] <= r[a]
  BY DEF Descends, Greatest
<1>2. \A f \in S \ {a} : r[f] # r[a]
  BY DEF Injective
<1>3. Below(a, S, r) = S \ {a}
  <2>1. \A f \in S : r[f] < r[a] <=> f # a
    BY <1>1, <1>2
  <2>2. \A f : f \in Below(a, S, r) <=> f \in S \ {a}
    BY <2>1 DEF Below
  <2>3. QED
    BY <2>2
<1>4. ASSUME NEW f \in S \ {a} PROVE Below(f, S \ {a}, r) = Below(f, S, r)
  BY <1>1 DEF Below
<1>5. QED
  BY <1>3, <1>4 DEF Descends

\* What a chain leads to is a member or 0.
LEMMA DescendsStep ==
  ASSUME NEW m, NEW k, NEW a, NEW S, S \subseteq Nat \ {0}, NEW r \in [Nat -> Nat],
         Descends(m, k, a, S, r)
  PROVE  /\ a # 0 => a \in S /\ \A f \in S : r[f] <= r[a]
         /\ a = 0 => S = {}
         /\ \A e \in S : LET n == After(m, k, e)
                         IN /\ n # 0 => n \in S /\ r[n] < r[e]
                            /\ \A f \in S : r[f] < r[e] => n # 0 /\ r[f] <= r[n]
<1>1. 0 \notin S /\ (a # 0 => a \in S /\ \A f \in S : r[f] <= r[a]) /\ (a = 0 => S = {})
  BY DEF Descends, Greatest
<1>2. ASSUME NEW e \in S, NEW n, n = After(m, k, e)
      PROVE  /\ n # 0 => n \in S /\ r[n] < r[e]
             /\ \A f \in S : r[f] < r[e] => n # 0 /\ r[f] <= r[n]
  <2>1. Greatest(n, Below(e, S, r), r)
    BY <1>2 DEF Descends
  <2>2. Below(e, S, r) \subseteq S /\ \A f \in S : f \in Below(e, S, r) <=> r[f] < r[e]
    BY DEF Below
  <2>3. CASE Below(e, S, r) = {}
    <3>1. n = 0
      BY <2>1, <2>3 DEF Greatest
    <3>2. QED
      BY <2>2, <2>3, <3>1
  <2>4. CASE Below(e, S, r) # {}
    <3>1. n \in Below(e, S, r) /\ \A f \in Below(e, S, r) : r[f] <= r[n]
      BY <2>1, <2>4 DEF Greatest
    <3>2. QED
      BY <1>1, <2>2, <3>1
  <2>5. QED
    BY <2>3, <2>4
<1>3. QED
  BY <1>1, <1>2

\* One that is not the first is taken away: the one that leads to it leads past it.
LEMMA DescendsUnlink ==
  ASSUME NEW m, NEW n, NEW k, NEW a, NEW S, S \subseteq Nat \ {0}, NEW r \in [Nat -> Nat],
         Injective(S, r), Descends(m, k, a, S, r), NEW at \in S, NEW e \in S,
         e = After(m, k, at), After(n, k, at) = After(m, k, e),
         \A f \in S \ {at, e} : After(n, k, f) = After(m, k, f)
  PROVE  Descends(n, k, a, S \ {e}, r)
<1>1. \A f \in S : r[f] \in Nat
  OBVIOUS
<1>2. \A f, g \in S : f # g => r[f] # r[g]
  BY DEF Injective
<1>3. a \in S /\ \A f \in S : r[f] <= r[a]
  BY DEF Descends, Greatest
<1>5. r[e] < r[at] /\ \A f \in S : r[f] < r[at] => r[f] <= r[e]
  BY DescendsStep
<1>6. Greatest(a, S \ {e}, r)
  <2>1. a # e
    BY <1>1, <1>3, <1>5
  <2>2. QED
    BY <1>3, <2>1 DEF Greatest
<1>7. Below(at, S \ {e}, r) = Below(e, S, r)
  <2>1. \A f \in S : (r[f] < r[at] /\ f # e) <=> r[f] < r[e]
    BY <1>1, <1>2, <1>5
  <2>2. \A f : f \in Below(at, S \ {e}, r) <=> f \in Below(e, S, r)
    BY <2>1 DEF Below
  <2>3. QED
    BY <2>2
<1>8. ASSUME NEW f \in S \ {e}, f # at
      PROVE  Greatest(After(n, k, f), Below(f, S \ {e}, r), r)
  <2>1. Greatest(After(m, k, f), Below(f, S, r), r) /\ After(n, k, f) = After(m, k, f)
    BY <1>8 DEF Descends
  <2>2. CASE r[e] < r[f]
    <3>1. r[at] < r[f]
      BY <1>1, <1>2, <1>5, <1>8, <2>2
    <3>2. at \in Below(f, S, r) /\ at \in Below(f, S \ {e}, r)
      BY <1>1, <1>5, <3>1 DEF Below
    <3>3. /\ After(m, k, f) \in Below(f, S, r)
          /\ \A g \in Below(f, S, r) : r[g] <= r[After(m, k, f)]
      BY <2>1, <3>2 DEF Greatest
    <3>4. After(m, k, f) # e
      BY <1>1, <1>5, <3>2, <3>3
    <3>5. After(m, k, f) \in Below(f, S \ {e}, r) /\ Below(f, S \ {e}, r) \subseteq Below(f, S, r)
      BY <3>3, <3>4 DEF Below
    <3>6. QED
      BY <2>1, <3>2, <3>3, <3>5 DEF Greatest
  <2>3. CASE ~(r[e] < r[f])
    <3>1. Below(f, S \ {e}, r) = Below(f, S, r)
      BY <2>3 DEF Below
    <3>2. QED
      BY <2>1, <3>1
  <2>4. QED
    BY <2>2, <2>3
<1>9. Greatest(After(n, k, at), Below(at, S \ {e}, r), r)
  BY <1>7 DEF Descends
<1>10. QED
  BY <1>6, <1>8, <1>9 DEF Descends

-----------------------------------------------------------------------------
\* Reaches goes far enough to find all members of a chain.

ReachRuns(f, n, a) ==
  f = [k \in 0 .. n |-> IF k = 0 THEN {a}
                        ELSE LET s == f[k-1]
                             IN s \cup {Link(mem.to[NextLink(e)]) : e \in s \ {0}}]

\* The recursive function of Reaches, up to any number of steps.
LEMMA ReachExists ==
  ASSUME NEW n \in Nat, NEW a
  PROVE  \E f : ReachRuns(f, n, a)
<1> DEFINE Step(s) == s \cup {Link(mem.to[NextLink(e)]) : e \in s \ {0}}
           Runs(f, k) == f = [i \in 0 .. k |-> IF i = 0 THEN {a} ELSE Step(f[i-1])]
           S == {k \in Nat : \E f : Runs(f, k)}
<1> HIDE DEF Step
<1>1. 0 \in S
  <2>1. Runs([i \in 0 .. 0 |-> {a}], 0)
    OBVIOUS
  <2>2. QED
    BY <2>1
<1>2. ASSUME NEW k \in Nat, k \in S PROVE k + 1 \in S
  <2>1. PICK f : Runs(f, k)
    BY <1>2
  <2> DEFINE g == [i \in 0 .. k + 1 |-> IF i = k + 1 THEN Step(f[k]) ELSE f[i]]
  <2>2. ASSUME NEW i \in 0 .. k + 1 PROVE g[i] = IF i = 0 THEN {a} ELSE Step(g[i-1])
    <3>1. CASE i = 0
      BY <2>1, <3>1
    <3>2. CASE i = k + 1
      <4>1. i - 1 = k /\ k \in 0 .. k + 1 /\ k # k + 1 /\ i # 0
        BY <3>2
      <4>2. QED
        BY <3>2, <4>1
    <3>3. CASE i # 0 /\ i # k + 1
      <4>1. i \in 0 .. k /\ i - 1 \in 0 .. k + 1 /\ i - 1 # k + 1
        BY <3>3
      <4>2. g[i] = f[i] /\ g[i-1] = f[i-1] /\ f[i] = Step(f[i-1])
        BY <2>1, <3>3, <4>1
      <4>3. QED
        BY <3>3, <4>2
    <3>4. QED
      BY <3>1, <3>2, <3>3
  <2>3. g = [i \in 0 .. k + 1 |-> g[i]]
    OBVIOUS
  <2> HIDE DEF g
  <2>4. Runs(g, k + 1)
    BY <2>2, <2>3
  <2>5. QED
    BY <2>4
<1>3. Nat \subseteq S
  <2> HIDE DEF S
  <2>1. QED
    BY <1>1, <1>2, SetInduction
<1>4. PICK f : Runs(f, n)
  BY <1>3
<1>5. QED
  BY <1>4 DEF ReachRuns, Step

\* The first reach, and reach on by one link.
LEMMA ReachFacts ==
  ASSUME NEW c \in Nat, NEW a, NEW f, ReachRuns(f, c, a)
  PROVE  /\ f[0] = {a}
         /\ \A k \in Nat : \A x : k + 1 <= c =>
              (x \in f[k + 1] <=> x \in f[k] \/ \E e \in f[k] : e # 0 /\ x = After(mem, NextWord, e))
<1>1. f[0] = {a}
  BY DEF ReachRuns
<1>2. ASSUME NEW k \in Nat, k + 1 <= c
      PROVE  f[k + 1] = f[k] \cup {After(mem, NextWord, e) : e \in f[k] \ {0}}
  <2>1. k + 1 \in 0 .. c /\ (k + 1) - 1 = k /\ k + 1 # 0
    BY <1>2
  <2>2. f[k + 1] = LET s == f[k] IN s \cup {Link(mem.to[NextLink(e)]) : e \in s \ {0}}
    BY <2>1 DEF ReachRuns
  <2>3. QED
    BY <2>2 DEF After, NextLink, NextWord
<1>3. QED
  BY <1>1, <1>2

\* Those above a member are fewer than all; those above the one it leads to are one more.
Above(e, S, r) == {f \in S : r[f] > r[e]}

\* Fewer ephemerons stand before one of a chain than the chain has.
LEMMA AboveFacts ==
  ASSUME NEW S, IsFiniteSet(S), NEW r \in [Nat -> Nat], S \subseteq Nat, NEW e \in S
  PROVE  /\ Above(e, S, r) \subseteq S \ {e} /\ IsFiniteSet(Above(e, S, r))
         /\ Cardinality(Above(e, S, r)) \in Nat
         /\ Cardinality(Above(e, S, r)) < Cardinality(S)
<1>1. r[e] \in Nat
  OBVIOUS
<1>2. ~(r[e] > r[e])
  BY <1>1
<1>3. Above(e, S, r) \subseteq S \ {e}
  BY <1>2 DEF Above
<1>4. IsFiniteSet(S \ {e}) /\ Cardinality(S \ {e}) = Cardinality(S) - 1
  BY FS_RemoveElement
<1>5. IsFiniteSet(Above(e, S, r)) /\ Cardinality(Above(e, S, r)) <= Cardinality(S \ {e})
  BY <1>3, <1>4, FS_Subset
<1>6. Cardinality(S) \in Nat /\ Cardinality(Above(e, S, r)) \in Nat
  BY <1>5, FS_CardinalityType
<1>7. QED
  BY <1>3, <1>4, <1>5, <1>6

Leads(m, k, p, e, S, r) ==
  /\ After(m, k, p) = e
  /\ Cardinality(Above(e, S, r)) = Cardinality(Above(p, S, r)) + 1
  /\ Cardinality(Above(p, S, r)) \in Nat

Before(m, k, e, S, r) == CHOOSE p \in S : Leads(m, k, p, e, S, r)

\* Every ephemeron of a chain but the first has one that leads to it.
LEMMA AboveStep ==
  ASSUME NEW m, NEW k, NEW a, NEW S, S \subseteq Nat \ {0}, IsFiniteSet(S),
         NEW r \in [Nat -> Nat], Injective(S, r), Descends(m, k, a, S, r), NEW e \in S \ {a}
  PROVE  Before(m, k, e, S, r) \in S /\ Leads(m, k, Before(m, k, e, S, r), e, S, r)
<1>30. e \in S /\ e # a
  OBVIOUS
<1>10. \A f \in S : r[f] \in Nat
  OBVIOUS
<1>20. \A f \in S : /\ Above(f, S, r) \subseteq S \ {f} /\ IsFiniteSet(Above(f, S, r))
                    /\ Cardinality(Above(f, S, r)) \in Nat
  BY AboveFacts
<1> DEFINE T == {r[f] : f \in Above(e, S, r)}
<1>1. a \in Above(e, S, r)
  <2>1. a # 0 /\ a \in S /\ r[e] <= r[a]
    BY DescendsStep
  <2>2. r[e] # r[a]
    BY <1>30, <2>1 DEF Injective
  <2>3. r[a] > r[e]
    BY <1>10, <2>1, <2>2
  <2>4. QED
    BY <2>1, <2>3 DEF Above
<1>2. T \subseteq Nat /\ T # {}
  <2>1. \A f \in Above(e, S, r) : r[f] \in Nat
    BY <1>10, <1>20
  <2>2. QED
    BY <1>1, <2>1
<1>3. PICK x \in T : \A y \in T : x <= y
  BY <1>2, LeastNatural
<1>4. PICK p \in Above(e, S, r) : x = r[p]
  BY <1>3
<1>5. p \in S /\ r[p] > r[e] /\ \A f \in S : r[f] > r[e] => r[p] <= r[f]
  BY <1>3, <1>4 DEF Above
<1>6. After(m, k, p) = e
  <2>1. PICK n : n = After(m, k, p)
    OBVIOUS
  <2>2. n # 0 => n \in S /\ r[n] < r[p]
    BY <1>5, <2>1, DescendsStep
  <2>3. \A f \in S : r[f] < r[p] => n # 0 /\ r[f] <= r[n]
    BY <1>5, <2>1, DescendsStep
  <2>4. n \in S /\ r[n] < r[p] /\ r[e] <= r[n]
    BY <1>10, <1>5, <2>2, <2>3
  <2>5. r[n] = r[e]
    BY <1>10, <1>5, <2>4
  <2>6. QED
    BY <2>1, <2>4, <2>5 DEF Injective
<1>7. Above(e, S, r) = Above(p, S, r) \cup {p} /\ p \notin Above(p, S, r)
  <2>1. \A f \in S : r[f] > r[e] <=> (r[f] > r[p] \/ f = p)
    BY <1>10, <1>5 DEF Injective
  <2>2. \A f : f \in Above(e, S, r) <=> f \in Above(p, S, r) \cup {p}
    BY <1>5, <2>1 DEF Above
  <2>3. QED
    BY <1>20, <1>5, <2>2
<1>8. Cardinality(Above(e, S, r)) = Cardinality(Above(p, S, r)) + 1
  BY <1>20, <1>5, <1>7, FS_AddElement
<1>9. \E q \in S : Leads(m, k, q, e, S, r)
  BY <1>20, <1>5, <1>6, <1>8 DEF Leads
<1>11. QED
  BY <1>9 DEF Before

\* Reaches finds all of a chain: ranks fall along its links, so it has no cycle.
LEMMA ReachesChain ==
  ASSUME heap \in Heaps, HeapAssumption, NEW a, NEW S, S \subseteq Nat \ {0}, IsFiniteSet(S),
         Cardinality(S) <= Cardinality(Objs), NEW r \in [Nat -> Nat], Injective(S, r),
         Descends(mem, NextWord, a, S, r)
  PROVE  Reaches(a) = S
<1>1. PICK c \in Nat : c = Cardinality(Objs)
  BY HeapFacts
<1>2. PICK g : g = CHOOSE f : ReachRuns(f, c, a)
  OBVIOUS
<1>3. ReachRuns(g, c, a)
  BY <1>2, ReachExists
<1>4. Reaches(a) = g[c] \ {0}
  BY <1>1, <1>2 DEF Reaches, ReachRuns
<1>5. /\ g[0] = {a}
      /\ \A k \in Nat : \A x : k + 1 <= c =>
           (x \in g[k + 1] <=> x \in g[k] \/ \E e \in g[k] : e # 0 /\ x = After(mem, NextWord, e))
  BY <1>3, ReachFacts
<1>51. \A e \in S : After(mem, NextWord, e) # 0 => After(mem, NextWord, e) \in S
  BY DescendsStep
<1>52. /\ a # 0 => a \in S
       /\ \A f \in S : r[f] \in Nat /\ r[f] <= r[a]
  BY DescendsStep
<1>53. \A e \in S : /\ Cardinality(Above(e, S, r)) \in Nat
                    /\ Cardinality(Above(e, S, r)) < Cardinality(S)
  BY AboveFacts
<1>54. ASSUME NEW e \in S \ {a}
       PROVE  \E p \in S : Leads(mem, NextWord, p, e, S, r)
  BY AboveStep
<1> DEFINE K == {k \in Nat : k <= c => g[k] \subseteq S \cup {0}}
           R == {k \in Nat : k <= c =>
                   \A e \in S : Cardinality(Above(e, S, r)) <= k => e \in g[k]}
<1>6. Nat \subseteq K
  <2>1. 0 \in K
    BY <1>5 DEF Descends, Greatest
  <2>2. ASSUME NEW k \in Nat, k \in K PROVE k + 1 \in K
    <3> SUFFICES ASSUME k + 1 <= c PROVE g[k + 1] \subseteq S \cup {0}
      OBVIOUS
    <3>1. k <= c /\ g[k] \subseteq S \cup {0}
      BY <1>1, <2>2
    <3>2. \A e \in S : After(mem, NextWord, e) \in S \cup {0}
      BY <1>51
    <3>3. QED
      BY <1>5, <3>1, <3>2
  <2>3. QED
    <3> HIDE DEF K
    <3>1. QED
      BY <2>1, <2>2, SetInduction
<1>7. Nat \subseteq R
  <2>1. 0 \in R
    <3>1. ASSUME NEW e \in S, Cardinality(Above(e, S, r)) <= 0 PROVE e \in g[0]
      <4>1. e = a
        BY <1>54, <3>1 DEF Leads
      <4>2. QED
        BY <1>5, <4>1
    <3>2. QED
      BY <3>1
  <2>2. ASSUME NEW k \in Nat, k \in R PROVE k + 1 \in R
    <3> SUFFICES ASSUME k + 1 <= c, NEW e \in S, Cardinality(Above(e, S, r)) <= k + 1
                 PROVE  e \in g[k + 1]
      OBVIOUS
    <3>1. k <= c /\ \A p \in S : Cardinality(Above(p, S, r)) <= k => p \in g[k]
      BY <1>1, <2>2
    <3>2. \A x : x \in g[k + 1] <=>
                 x \in g[k] \/ \E p \in g[k] : p # 0 /\ x = After(mem, NextWord, p)
      BY <1>5
    <3>3. CASE e = a
      <4>1. Cardinality(Above(e, S, r)) = 0
        <5>11. Above(e, S, r) = {}
          <6>1. \A f \in S : ~(r[f] > r[a])
            <7>1. a # 0
              BY DescendsStep
            <7>2. r[a] \in Nat /\ \A f \in S : r[f] \in Nat /\ r[f] <= r[a]
              BY <1>52, <7>1
            <7>3. QED
              BY <7>2
          <6>2. QED
            BY <3>3, <6>1 DEF Above
        <5>2. QED
          BY <5>11, FS_EmptySet
      <4>2. QED
        BY <3>1, <3>2, <4>1
    <3>4. CASE e # a
      <4>1. PICK p \in S : Leads(mem, NextWord, p, e, S, r)
        BY <1>54, <3>4
      <4>2. p \in g[k]
        BY <3>1, <4>1 DEF Leads
      <4>3. QED
        BY <3>2, <4>1, <4>2 DEF Leads
    <3>5. QED
      BY <3>3, <3>4
  <2>3. QED
    <3> HIDE DEF R
    <3>1. QED
      BY <2>1, <2>2, SetInduction
<1>8. g[c] \subseteq S \cup {0}
  BY <1>1, <1>6
<1>9. ASSUME NEW e \in S PROVE e \in g[c]
  <2>1. Cardinality(Above(e, S, r)) \in Nat /\ Cardinality(Above(e, S, r)) < Cardinality(S)
    BY <1>53
  <2>2. Cardinality(S) \in Nat
    BY FS_CardinalityType
  <2>3. Cardinality(Above(e, S, r)) <= c
    BY <1>1, <2>1, <2>2
  <2>4. QED
    BY <1>1, <1>7, <2>3
<1>10. QED
  BY <1>4, <1>8, <1>9

-----------------------------------------------------------------------------
\* What the walk of the hash table leaves as it was: all but the next links of ephemerons
\* that wait, the queue and the buckets.
WaitStep(m, n) ==
  /\ n.heart = m.heart /\ n.chain = m.chain /\ n.list = m.list /\ Len(n.to) = Len(m.to)
  /\ n.hung = m.hung
  /\ \A i \in 1 .. Len(m.to) : n.to[i] = m.to[i] \/ \E e \in Waiting(m) : i = NextLink(e)

\* An ephemeron that waits is five words of its own in tospace.
LEMMA WaitingFacts ==
  ASSUME heap \in Heaps, NEW m, MemoryOK(m), NEW e \in Waiting(m)
  PROVE  /\ EphemeronAt(m, e) /\ Waits(m, e)
         /\ e \in Nat \ {0} /\ e >= 3 /\ e + 4 <= Len(m.to) /\ Len(m.to) \in Nat
         /\ m.to[e] = Skip(4) /\ KeyOf(m, e) \in Objs
         /\ \A f : EphemeronAt(m, f) => e = f \/ e + 5 <= f \/ f + 5 <= e
<1>1. EphemeronAt(m, e) /\ Waits(m, e) /\ e \in 1 .. Len(m.to)
  BY DEF Waiting
<1>2. /\ e \in Nat /\ e >= 3 /\ e + 4 <= Len(m.to) /\ Len(m.to) \in Nat
      /\ \A f : EphemeronAt(m, f) => e = f \/ e + 5 <= f \/ f + 5 <= e
  BY <1>1, EphemeronFacts
<1>3. m.to[e] = Skip(4) /\ IsOld(m.to[Key(e)])
  BY <1>1 DEF MemoryOK, WordsOK
<1>4. Key(e) \in 1 .. Len(m.to)
  BY <1>2 DEF Key
<1>5. m.to[Key(e)] \in {"old"} \X Objs \X Nat
  BY <1>3, <1>4 DEF MemoryOK, WordsOK
<1>6. KeyOf(m, e) \in Objs
  BY <1>5 DEF KeyOf
<1>7. QED
  BY <1>1, <1>2, <1>3, <1>6

\* A change of links leaves what waits, and its key and datum, as they were.
LEMMA WaitSame ==
  ASSUME heap \in Heaps, NEW m, MemoryOK(m), NEW n, WaitStep(m, n)
  PROVE  /\ Waiting(n) = Waiting(m) /\ Copied(n) = Copied(m)
         /\ \A e : EphemeronAt(n, e) <=> EphemeronAt(m, e)
         /\ \A e \in Waiting(m) : /\ n.to[e] = m.to[e] /\ n.to[Key(e)] = m.to[Key(e)]
                                  /\ n.to[Datum(e)] = m.to[Datum(e)]
                                  /\ n.to[ListLink(e)] = m.to[ListLink(e)]
                                  /\ KeyOf(n, e) = KeyOf(m, e)
<1>1. Copied(n) = Copied(m)
  BY DEF WaitStep, Copied
<1>2. \A e : EphemeronAt(n, e) <=> EphemeronAt(m, e)
  BY <1>1 DEF WaitStep, EphemeronAt
<1>3. ASSUME NEW e, EphemeronAt(m, e)
      PROVE  /\ n.to[e] = m.to[e] /\ n.to[Key(e)] = m.to[Key(e)]
             /\ n.to[Datum(e)] = m.to[Datum(e)] /\ n.to[ListLink(e)] = m.to[ListLink(e)]
  <2>1. /\ e \in Nat /\ e >= 3 /\ e + 4 <= Len(m.to) /\ Len(m.to) \in Nat
    BY <1>3, EphemeronFacts
  <2>2. \A f \in Waiting(m) : f \in Nat /\ (e = f \/ e + 5 <= f \/ f + 5 <= e)
    BY <1>3, WaitingFacts
  <2>3. \A i \in e .. e + 3 : i \in 1 .. Len(m.to) /\ \A f \in Waiting(m) : i # NextLink(f)
    BY <2>1, <2>2 DEF NextLink
  <2>4. \A i \in e .. e + 3 : n.to[i] = m.to[i]
    BY <2>3 DEF WaitStep
  <2>5. e \in e .. e + 3 /\ e + 1 \in e .. e + 3 /\ e + 2 \in e .. e + 3 /\ e + 3 \in e .. e + 3
    BY <2>1
  <2>6. QED
    BY <2>4, <2>5 DEF Key, Datum, ListLink
<1>4. \A e : e \in Waiting(n) <=> e \in Waiting(m)
  BY <1>2, <1>3 DEF Waiting, Waits, WaitStep
<1>5. \A e \in Waiting(m) : EphemeronAt(m, e)
  BY DEF Waiting
<1>6. QED
  BY <1>1, <1>2, <1>3, <1>4, <1>5 DEF KeyOf

\* Changes of links compose.
LEMMA WaitStepTransitive ==
  ASSUME heap \in Heaps, NEW m, MemoryOK(m), NEW n, NEW q, WaitStep(m, n), WaitStep(n, q)
  PROVE  WaitStep(m, q)
<1>1. Waiting(n) = Waiting(m)
  BY WaitSame
<1>2. QED
  BY <1>1 DEF WaitStep

\* Waiting ephemerons are no more than ephemerons, and have keys of their own.
UniqueKeys(m) == \A e, f \in Waiting(m) : KeyOf(m, e) = KeyOf(m, f) => e = f

\* A walk has a round for each ephemeron that waits, and one to end in.
LEMMA WaitingFinite ==
  ASSUME heap \in Heaps, HeapAssumption, NEW m, MemoryOK(m)
  PROVE  /\ IsFiniteSet(Waiting(m)) /\ Cardinality(Waiting(m)) + 1 <= Rounds
         /\ Cardinality(Waiting(m)) <= Cardinality(Objs)
<1> DEFINE E == {o \in Objs : Kind(o) = "ephemeron"}
           T == {m.heart[o] : o \in E}
<1>1. E \subseteq Objs /\ IsFiniteSet(Objs) /\ Cardinality(Objs) \in Nat
  BY HeapFacts
<1>2. IsFiniteSet(E) /\ Cardinality(E) <= Cardinality(Objs)
  BY <1>1, FS_Subset
<1>3. Cardinality(E) \in Nat
  BY <1>2, FS_CardinalityType
<1>4. IsFiniteSet(T) /\ Cardinality(T) <= Cardinality(E)
  <2>1. [o \in E |-> m.heart[o]] \in Surjection(E, T)
    BY DEF Surjection
  <2>2. QED
    BY <1>2, <2>1, FS_Surjection
<1>5. Waiting(m) \subseteq T
  BY DEF Waiting, EphemeronAt, Copied
<1>6. IsFiniteSet(Waiting(m)) /\ Cardinality(Waiting(m)) <= Cardinality(T)
  BY <1>4, <1>5, FS_Subset
<1>7. Cardinality(Waiting(m)) \in Nat /\ Cardinality(T) \in Nat
  BY <1>4, <1>6, FS_CardinalityType
<1>8. Rounds = 2 * Cardinality(E) + 2
  BY DEF Rounds
<1>9. QED
  BY <1>1, <1>2, <1>3, <1>4, <1>6, <1>7, <1>8

\* An ephemeron is taken from behind at, or from the head of bucket b, to the queue.
MoveStep(m, n, at, e, b) ==
  /\ n.heart = m.heart /\ n.chain = m.chain /\ n.list = m.list /\ Len(n.to) = Len(m.to)
  /\ n.hung = m.hung /\ n.queue = e
  /\ n.bucket = IF at = 0 THEN [m.bucket EXCEPT ![b] = After(m, NextWord, e)] ELSE m.bucket
  /\ \A i \in 1 .. Len(m.to) :
       n.to[i] = IF i = NextLink(e) THEN AsLink(m.queue)
                 ELSE IF at # 0 /\ i = NextLink(at) THEN m.to[NextLink(e)] ELSE m.to[i]

\* The round at the ephemeron of the key moves it from its bucket to the queue.
LEMMA MovingRound ==
  ASSUME heap \in Heaps, HeapAssumption, NEW m, MemoryOK(m), NEW o \in Objs, NEW at,
         at = 0 \/ at \in Waiting(m), NEW e \in Waiting(m), e = EntryAt(m, at, o), KeyIs(m, e, o),
         NEW s, s = [mem |-> m, at |-> at, done |-> FALSE]
  PROVE  \E n : /\ Round(s, o) = [mem |-> n, at |-> e, done |-> FALSE]
                /\ MoveStep(m, n, at, e, Bucket(o))
<1>1. PICK rest : rest = m.to[NextLink(e)]
  OBVIOUS
<1>2. e # 0 /\ NextLink(e) \in 1 .. Len(m.to)
  BY WaitingFacts DEF NextLink
<1>3. Record(m) /\ IsSeq(m.to)
  BY DEF MemoryOK, ShapeOK
<1>4. PICK u : u = IF at = 0 THEN [m EXCEPT !.bucket[Bucket(o)] = Link(rest)]
                   ELSE [m EXCEPT !.to[NextLink(at)] = rest]
  OBVIOUS
<1>5. /\ Record(u) /\ IsSeq(u.to) /\ Len(u.to) = Len(m.to)
      /\ u.heart = m.heart /\ u.chain = m.chain /\ u.list = m.list /\ u.queue = m.queue
      /\ u.hung = m.hung
      /\ u.bucket = IF at = 0 THEN [m.bucket EXCEPT ![Bucket(o)] = Link(rest)] ELSE m.bucket
      /\ \A i \in 1 .. Len(m.to) :
           u.to[i] = IF at # 0 /\ i = NextLink(at) THEN rest ELSE m.to[i]
  <2>1. CASE at = 0
    <3>1. u = [m EXCEPT !.bucket[Bucket(o)] = Link(rest)]
      BY <1>4, <2>1
    <3>2. QED
      BY <1>3, <2>1, <3>1 DEF Record
  <2>2. CASE at # 0
    <3>1. u = [m EXCEPT !.to = Put(m.to, NextLink(at), rest)]
      BY <1>4, <2>2 DEF Put
    <3>2. u.hung = m.hung /\ u.to = Put(m.to, NextLink(at), rest) /\ Record(u)
          /\ u.heart = m.heart /\ u.chain = m.chain /\ u.list = m.list /\ u.queue = m.queue
          /\ u.bucket = m.bucket
      BY <1>3, <3>1 DEF Record
    <3>3. QED
      BY <1>3, <2>2, <3>2, PutFacts
  <2>3. QED
    BY <2>1, <2>2
<1>6. PICK n : n = [u EXCEPT !.to[NextLink(e)] = AsLink(m.queue), !.queue = e]
  OBVIOUS
<1>7. /\ Record(n) /\ n.to = Put(u.to, NextLink(e), AsLink(m.queue))
      /\ n.heart = u.heart /\ n.chain = u.chain /\ n.list = u.list /\ n.queue = e
      /\ n.hung = u.hung /\ n.bucket = u.bucket
  BY <1>5, <1>6 DEF Record, Put
<1>8. /\ Len(n.to) = Len(m.to)
      /\ \A i \in 1 .. Len(m.to) : n.to[i] = IF i = NextLink(e) THEN AsLink(m.queue) ELSE u.to[i]
  BY <1>5, <1>7, PutFacts
<1>9. Link(rest) = After(m, NextWord, e)
  BY <1>1 DEF After, NextLink, NextWord
<1>10. MoveStep(m, n, at, e, Bucket(o))
  BY <1>1, <1>5, <1>7, <1>8, <1>9 DEF MoveStep
<1>11. Round(s, o) = [s EXCEPT !.at = e, !.mem = n]
  BY <1>1, <1>2, <1>4, <1>6 DEF Round
<1>12. QED
  BY <1>10, <1>11

\* The chains after it.
LEMMA MoveKeepsChains ==
  ASSUME heap \in Heaps, HeapAssumption, NEW m, MemoryOK(m), NEW n, NEW H, NEW Q, NEW r,
         Chains(m, H, Q, r), NEW b \in 0 .. Buckets - 1, NEW at, NEW e \in InBucket(m, H, b),
         at = 0 => e = m.bucket[b],
         at # 0 => at \in InBucket(m, H, b) /\ e = After(m, NextWord, at),
         MoveStep(m, n, at, e, b)
  PROVE  /\ WaitStep(m, n)
         /\ \E t : /\ Chains(n, H \ {e}, Q \cup {e}, t)
                   /\ \A f \in Q : t[f] < t[e]
<1> DEFINE B == InBucket(m, H, b)
<1>1. /\ H \subseteq Waiting(m) /\ Q \subseteq Waiting(m) /\ B \subseteq H /\ e \in H /\ e \notin Q
      /\ at # 0 => at \in H
  BY DEF Chains, InBucket
<1>2. \A f \in Waiting(m) : f \in Nat \ {0} /\ NextLink(f) \in 1 .. Len(m.to)
  BY WaitingFacts DEF NextLink
<1>3. \A f, g \in Waiting(m) : NextLink(f) = NextLink(g) => f = g
  BY <1>2 DEF NextLink
<1>4. WaitStep(m, n)
  BY <1>1 DEF MoveStep, WaitStep
<1>5. /\ Waiting(n) = Waiting(m)
      /\ \A f \in Waiting(m) : KeyOf(n, f) = KeyOf(m, f)
  BY <1>4, WaitSame
<1>6. /\ m.queue \in Nat
      /\ m.queue = 0 => Q = {}
      /\ m.queue # 0 => m.queue \in Q /\ \A f \in Q : r[f] <= r[m.queue]
      /\ r \in [Nat -> Nat] /\ \A f, g \in Q : r[f] = r[g] => f = g
      /\ Descends(m, NextWord, m.queue, Q, r)
  BY <1>1, <1>2 DEF Chains, Descends, Greatest
<1>7. /\ After(n, NextWord, e) = m.queue
      /\ at # 0 /\ at # e => After(n, NextWord, at) = After(m, NextWord, e)
      /\ \A f \in Waiting(m) : f # e /\ f # at => After(n, NextWord, f) = After(m, NextWord, f)
  <2>1. n.to[NextLink(e)] = AsLink(m.queue)
    BY <1>1, <1>2 DEF MoveStep
  <2>2. Link(AsLink(m.queue)) = m.queue
    BY DEF Link, AsLink, False
  <2>3. at # 0 /\ at # e => n.to[NextLink(at)] = m.to[NextLink(e)]
    BY <1>1, <1>2, <1>3 DEF MoveStep
  <2>4. ASSUME NEW f \in Waiting(m), f # e, f # at
        PROVE n.to[NextLink(f)] = m.to[NextLink(f)]
    <3>1. NextLink(f) # NextLink(e) /\ (at # 0 => NextLink(f) # NextLink(at))
      BY <1>1, <1>3, <2>4
    <3>2. QED
      BY <1>2, <3>1 DEF MoveStep
  <2>5. QED
    BY <2>1, <2>2, <2>3, <2>4 DEF After, NextLink, NextWord
<1>8. /\ Address \in [Nat -> Nat] /\ \A f \in Nat : Address[f] = f
  BY DEF Address
<1>9. /\ B \subseteq Nat \ {0} /\ B \subseteq Nat /\ Injective(B, Address)
      /\ Descends(m, NextWord, m.bucket[b], B, Address)
  BY <1>1, <1>2, <1>8 DEF Injective, Chains
<1>10. Descends(n, NextWord, n.bucket[b], B \ {e}, Address)
  <2>1. CASE at = 0
    <3>1. n.bucket[b] = After(m, NextWord, e)
      <4>1. m.bucket \in [0 .. Buckets - 1 -> Nat]
        BY DEF MemoryOK, ShapeOK
      <4>2. QED
        BY <2>1, <4>1 DEF MoveStep
    <3>2. Descends(m, NextWord, After(m, NextWord, e), B \ {e}, Address)
      BY <1>8, <1>9, <2>1, DescendsPop
    <3>3. \A f \in B \ {e} : After(n, NextWord, f) = After(m, NextWord, f)
      BY <1>1, <1>2, <1>7, <2>1
    <3>4. QED
      BY <3>1, <3>2, <3>3, DescendsSame
  <2>2. CASE at # 0
    <3>1. n.bucket[b] = m.bucket[b]
      BY <2>2 DEF MoveStep
    <3>2. at \in B /\ e = After(m, NextWord, at)
      BY <2>2
    <3>3. at # e
      <4>1. e # 0 => e \in B /\ Address[e] < Address[at]
        BY <1>8, <1>9, <3>2, DescendsStep
      <4>2. QED
        BY <1>1, <1>2, <1>8, <4>1
    <3>4. After(n, NextWord, at) = After(m, NextWord, e)
      BY <1>7, <2>2, <3>3
    <3>5. \A f \in B \ {at, e} : After(n, NextWord, f) = After(m, NextWord, f)
      BY <1>1, <1>7
    <3>6. QED
      BY <1>8, <1>9, <3>1, <3>2, <3>4, <3>5, DescendsUnlink
  <2>3. QED
    BY <2>1, <2>2
<1>11. ASSUME NEW c \in 0 .. Buckets - 1
       PROVE  Descends(n, NextWord, n.bucket[c], InBucket(n, H \ {e}, c), Address)
  <2>1. InBucket(n, H \ {e}, c) = InBucket(m, H, c) \ {e}
    BY <1>1, <1>5 DEF InBucket
  <2>2. CASE c = b
    BY <1>10, <2>1, <2>2
  <2>3. CASE c # b
    <3>1. n.bucket[c] = m.bucket[c]
      <4>1. m.bucket \in [0 .. Buckets - 1 -> Nat]
        BY DEF MemoryOK, ShapeOK
      <4>2. QED
        BY <2>3, <4>1 DEF MoveStep
    <3>2. InBucket(m, H, c) \ {e} = InBucket(m, H, c)
      BY <2>3 DEF InBucket
    <3>3. \A f \in InBucket(m, H, c) : f # e /\ f # at /\ f \in Waiting(m)
      BY <1>1, <1>2, <2>3 DEF InBucket
    <3>4. \A f \in InBucket(m, H, c) : After(n, NextWord, f) = After(m, NextWord, f)
      BY <1>7, <3>3
    <3>5. Descends(m, NextWord, m.bucket[c], InBucket(m, H, c), Address)
      BY DEF Chains
    <3>6. Descends(n, NextWord, m.bucket[c], InBucket(m, H, c), Address)
      BY <3>4, <3>5, DescendsSame
    <3>7. QED
      BY <2>1, <3>1, <3>2, <3>6
  <2>4. QED
    BY <2>2, <2>3
<1>12. PICK t : t = [r EXCEPT ![e] = r[m.queue] + 1]
  OBVIOUS
<1>13. /\ t \in [Nat -> Nat] /\ t[e] = r[m.queue] + 1 /\ \A f \in Q : t[f] = r[f]
       /\ \A f \in Q : t[f] < t[e]
  <2>1. r[m.queue] \in Nat /\ r[m.queue] + 1 \in Nat /\ e \in Nat
    <3>1. e \in Nat
      BY <1>1, <1>2
    <3>2. r[m.queue] \in Nat
      BY <1>6
    <3>3. QED
      BY <3>1, <3>2
  <2>2. t \in [Nat -> Nat] /\ t[e] = r[m.queue] + 1
    BY <1>6, <1>12, <2>1
  <2>3. ASSUME NEW f \in Q PROVE t[f] = r[f] /\ t[f] < t[e]
    <3>1. f \in Nat /\ f # e /\ r[f] \in Nat /\ r[f] <= r[m.queue]
      BY <1>1, <1>2, <1>6
    <3>2. t[f] = r[f]
      BY <1>6, <1>12, <3>1
    <3>3. QED
      BY <2>1, <2>2, <3>1, <3>2
  <2>4. QED
    BY <2>2, <2>3
<1>14. Descends(n, NextWord, n.queue, Q \cup {e}, t)
  <2>1. Descends(m, NextWord, m.queue, Q, t)
    BY <1>6, <1>13, DescendsRank
  <2>2. Q \subseteq Nat /\ e \in Nat
    BY <1>1, <1>2
  <2>3. \A f \in Q : After(n, NextWord, f) = After(m, NextWord, f)
    <3>1. \A f \in Q : f # e /\ f # at /\ f \in Waiting(m)
      BY <1>1, <1>2 DEF Chains
    <3>2. QED
      BY <1>7, <3>1
  <2>4. Descends(n, NextWord, e, Q \cup {e}, t)
    BY <1>7, <1>13, <2>1, <2>2, <2>3, DescendsPush
  <2>5. QED
    BY <2>4 DEF MoveStep
<1>15. \A f, g \in Q \cup {e} : t[f] = t[g] => f = g
  <2>1. \A f \in Q : t[f] \in Nat /\ t[e] \in Nat
    BY <1>1, <1>2, <1>13
  <2>2. QED
    BY <1>6, <1>13, <2>1
<1>16. /\ (H \ {e}) \cup (Q \cup {e}) \subseteq Waiting(n)
       /\ (H \ {e}) \cap (Q \cup {e}) = {}
  BY <1>1, <1>5 DEF Chains
<1>17. Chains(n, H \ {e}, Q \cup {e}, t)
  BY <1>11, <1>13, <1>14, <1>15, <1>16 DEF Chains
<1>18. QED
  BY <1>4, <1>13, <1>17

\* A chain in the order of the addresses: the greatest leads, and every one leads to the
\* greatest of those below it.
Leading(a, S) == IF S = {} THEN a = 0 ELSE a \in S /\ \A f \in S : f <= a
Lower(e, S) == {f \in S : f < e}

\* In a chain ordered by address the first ephemeron has the greatest address.
LEMMA LeadingGreatest ==
  ASSUME NEW a, NEW S, S \subseteq Nat
  PROVE  Greatest(a, S, Address) <=> Leading(a, S)
<1>1. \A f \in S : Address[f] = f
  BY DEF Address
<1>2. QED
  BY <1>1 DEF Greatest, Leading

\* What follows an ephemeron in such a chain is the next lower address.
LEMMA ChainStep ==
  ASSUME NEW m, NEW k, NEW a, NEW S, S \subseteq Nat, Descends(m, k, a, S, Address)
  PROVE  /\ Leading(a, S)
         /\ \A e \in S : Leading(After(m, k, e), Lower(e, S))
<1>1. \A f \in S : Address[f] = f
  BY DEF Address
<1>2. Leading(a, S)
  BY LeadingGreatest DEF Descends
<1>3. ASSUME NEW e \in S PROVE Leading(After(m, k, e), Lower(e, S))
  <2>1. Below(e, S, Address) = Lower(e, S) /\ Lower(e, S) \subseteq Nat
    BY <1>1 DEF Below, Lower
  <2>2. Greatest(After(m, k, e), Below(e, S, Address), Address)
    BY DEF Descends
  <2>3. QED
    BY <2>1, <2>2, LeadingGreatest
<1>4. QED
  BY <1>2, <1>3

\* The round behind the last ephemeron of a bucket ends the walk.
LEMMA LastRound ==
  ASSUME NEW m, NEW at, NEW o, 0 = EntryAt(m, at, o),
         NEW s, s = [mem |-> m, at |-> at, done |-> FALSE]
  PROVE  Round(s, o) = [mem |-> m, at |-> at, done |-> TRUE]
<1>1. s.mem = m /\ s.at = at
  OBVIOUS
<1>2. QED
  BY <1>1 DEF Round

\* The round at an ephemeron of another key goes on to the next one.
LEMMA PassingRound ==
  ASSUME NEW m, NEW at, NEW o, NEW e \in Nat \ {0}, e = EntryAt(m, at, o), ~KeyIs(m, e, o),
         NEW s, s = [mem |-> m, at |-> at, done |-> FALSE]
  PROVE  Round(s, o) = [mem |-> m, at |-> e, done |-> FALSE]
<1>1. s.mem = m /\ s.at = at
  OBVIOUS
<1>2. Round(s, o) = [s EXCEPT !.at = e, !.mem = m]
  BY <1>1 DEF Round
<1>3. QED
  BY <1>2

\* What a walk from the chains of H and Q for the key o leads to: no entry of the table
\* has this key any more.
Outcome(m, n, G, P, t, H, Q, o) ==
  /\ MemoryOK(n) /\ WaitStep(m, n) /\ Chains(n, G, P, t)
  /\ G \cup P = H \cup Q /\ Q \subseteq P /\ G \subseteq H
  /\ \A f \in P \ Q : KeyOf(m, f) = o
  /\ \A f \in G : KeyOf(m, f) # o
Ended(m, n, H, Q, o) == \E G, P, t : Outcome(m, n, G, P, t, H, Q, o)

\* The walk before it has found the key, and after; the entries in L are still to come.
Unmoved(s, m, H, Q, o, L) ==
  /\ s = [mem |-> m, at |-> s.at, done |-> FALSE]
  /\ s.at = 0 \/ s.at \in InBucket(m, H, Bucket(o))
  /\ \A f \in InBucket(m, H, Bucket(o)) : s.at # 0 /\ f >= s.at => KeyOf(m, f) # o
  /\ L = {f \in InBucket(m, H, Bucket(o)) : s.at = 0 \/ f < s.at} \cup Q
Moved(s, m, H, Q, o, L) ==
  /\ s = [mem |-> s.mem, at |-> s.at, done |-> FALSE]
  /\ \E G, P, t : /\ Outcome(m, s.mem, G, P, t, H, Q, o)
                  /\ s.at \in P
                  /\ \A f \in P : t[f] < t[s.at] => KeyOf(m, f) # o
                  /\ L = {f \in P : t[f] < t[s.at]}
Shorter(K, L) == K \subseteq L /\ \E e \in L : e \notin K

\* A round before the key is found: it ends the walk, passes on or finds the key.
LEMMA UnmovedRound ==
  ASSUME heap \in Heaps, HeapAssumption, NEW m, MemoryOK(m), UniqueKeys(m), NEW o \in Objs,
         NEW H, NEW Q, NEW r, Chains(m, H, Q, r), NEW s, NEW L, Unmoved(s, m, H, Q, o, L),
         NEW v, v = Round(s, o)
  PROVE  \/ v.done /\ Ended(m, v.mem, H, Q, o)
         \/ \E K : Shorter(K, L) /\ (Unmoved(v, m, H, Q, o, K) \/ Moved(v, m, H, Q, o, K))
<1>1. PICK at : at = s.at
  OBVIOUS
<1>2. PICK B : B = InBucket(m, H, Bucket(o))
  OBVIOUS
<1>3. /\ s = [mem |-> m, at |-> at, done |-> FALSE]
      /\ at = 0 \/ at \in B
      /\ \A f \in B : at # 0 /\ f >= at => KeyOf(m, f) # o
      /\ L = {f \in B : at = 0 \/ f < at} \cup Q
  BY <1>1, <1>2 DEF Unmoved
<1>4. /\ H \subseteq Waiting(m) /\ Q \subseteq Waiting(m) /\ B \subseteq H /\ H \cap Q = {}
      /\ \A f \in H : KeyOf(m, f) = o => f \in B
  BY <1>2 DEF Chains, InBucket
<1>5. \A f \in Waiting(m) : f \in Nat \ {0}
  BY WaitingFacts
<1>51. B \subseteq Nat \ {0} /\ at \in Nat
  <2>1. B \subseteq Nat \ {0}
    BY <1>4, <1>5
  <2>2. at = 0 \/ at \in B
    BY <1>3
  <2>3. \A f \in B : f \in Nat
    BY <2>1
  <2>4. at \in Nat
    BY <2>2, <2>3
  <2>5. QED
    BY <2>1, <2>4
<1>6. Bucket(o) \in 0 .. Buckets - 1
  BY HeapFacts DEF Bucket
<1>7. PICK e : e = EntryAt(m, at, o)
  OBVIOUS
<1>8. /\ Address \in [Nat -> Nat] /\ \A f \in Nat : Address[f] = f
  BY DEF Address
<1>9. /\ e # 0 => e \in B /\ (at # 0 => e < at)
      /\ \A f \in B : at = 0 \/ f < at => e # 0 /\ f <= e
  <2>1. Descends(m, NextWord, m.bucket[Bucket(o)], B, Address)
    BY <1>2, <1>6 DEF Chains
  <2>2. B \subseteq Nat \ {0} /\ B \subseteq Nat
    BY <1>51
  <2>3. CASE at = 0
    <3>1. e = m.bucket[Bucket(o)]
      BY <1>7, <2>3 DEF EntryAt
    <3>2. Leading(e, B)
      BY <2>1, <2>2, <3>1, ChainStep
    <3>3. QED
      BY <2>2, <2>3, <3>2 DEF Leading
  <2>4. CASE at # 0
    <3>1. e = After(m, NextWord, at) /\ at \in B
      BY <1>3, <1>7, <2>4 DEF EntryAt, After, NextLink, NextWord
    <3>2. Leading(e, Lower(at, B))
      BY <2>1, <2>2, <3>1, ChainStep
    <3>3. QED
      BY <1>51, <2>4, <3>1, <3>2 DEF Leading, Lower
  <2>5. QED
    BY <2>3, <2>4
<1>10. CASE e = 0
  <2>1. v = [mem |-> m, at |-> at, done |-> TRUE]
    BY <1>3, <1>7, <1>10, LastRound
  <2>2. \A f \in H : KeyOf(m, f) # o
    <3>1. ASSUME NEW f \in B PROVE KeyOf(m, f) # o
      <4>1. ~(at = 0 \/ f < at)
        BY <1>9, <1>10, <3>1
      <4>2. at \in Nat /\ f \in Nat
        BY <1>3, <1>4, <1>5
      <4>3. QED
        BY <1>3, <4>1, <4>2
    <3>2. QED
      BY <1>4, <3>1
  <2>3. WaitStep(m, m)
    BY DEF WaitStep
  <2>4. Outcome(m, m, H, Q, r, H, Q, o)
    BY <2>2, <2>3 DEF Outcome
  <2>5. QED
    BY <2>1, <2>4 DEF Ended
<1>11. CASE e # 0 /\ KeyOf(m, e) # o
  <2>1. v = [mem |-> m, at |-> e, done |-> FALSE]
    <3>1. e \in Nat \ {0} /\ ~KeyIs(m, e, o)
      BY <1>51, <1>9, <1>11 DEF KeyIs, KeyOf
    <3>2. QED
      BY <1>3, <1>7, <3>1, PassingRound
  <2>2. PICK K : K = {f \in B : e = 0 \/ f < e} \cup Q
    OBVIOUS
  <2>3. ASSUME NEW f \in B, f >= e PROVE KeyOf(m, f) # o
    <3>1. e \in B /\ f \in Nat /\ e \in Nat
      BY <1>4, <1>5, <1>9, <1>11
    <3>2. CASE at = 0 \/ f < at
      <4>1. f <= e
        BY <1>9, <3>2
      <4>2. f = e
        BY <2>3, <3>1, <4>1
      <4>3. QED
        BY <1>11, <4>2
    <3>3. CASE at # 0 /\ ~(f < at)
      <4>1. f >= at
        BY <1>51, <3>1, <3>3
      <4>2. QED
        BY <1>3, <3>3, <4>1
    <3>4. QED
      BY <3>2, <3>3
  <2>4. Unmoved(v, m, H, Q, o, K)
    BY <1>2, <1>9, <1>11, <2>1, <2>2, <2>3 DEF Unmoved
  <2>5. Shorter(K, L)
    <3>1. e \in B /\ e \in Nat /\ e \notin Q /\ (at = 0 \/ e < at)
      BY <1>4, <1>5, <1>9, <1>11
    <3>2. e \in L /\ e \notin K
      BY <1>3, <1>11, <2>2, <3>1
    <3>3. K \subseteq L
      <4>1. \A f \in B : f < e => at = 0 \/ f < at
        BY <1>51, <3>1
      <4>2. QED
        BY <1>3, <1>11, <2>2, <4>1
    <3>4. QED
      BY <3>2, <3>3 DEF Shorter
  <2>6. QED
    BY <2>4, <2>5
<1>12. CASE e # 0 /\ KeyOf(m, e) = o
  <2>1. e \in B /\ e \in Waiting(m) /\ e \in H /\ e \notin Q
    BY <1>4, <1>9, <1>12
  <2>2. at = 0 \/ at \in Waiting(m)
    BY <1>3, <1>4
  <2>3. KeyIs(m, e, o)
    BY <1>12 DEF KeyIs, KeyOf
  <2>4. PICK n : /\ v = [mem |-> n, at |-> e, done |-> FALSE]
                 /\ MoveStep(m, n, at, e, Bucket(o))
    BY <1>3, <1>7, <2>1, <2>2, <2>3, MovingRound
  <2>5. MemoryOK(n)
    <3>1. Pointer(m, at)
      BY <2>2 DEF Pointer, Waiting
    <3>2. WalkState(s)
      BY <1>3, <3>1 DEF WalkState
    <3>3. WalkState(v)
      BY <3>2, RoundCorrect
    <3>4. QED
      BY <2>4, <3>3 DEF WalkState
  <2>6. /\ at = 0 => e = m.bucket[Bucket(o)]
        /\ at # 0 => at \in InBucket(m, H, Bucket(o)) /\ e = After(m, NextWord, at)
    BY <1>2, <1>3, <1>7 DEF EntryAt, After, NextLink, NextWord
  <2>7. WaitStep(m, n) /\ \E t : /\ Chains(n, H \ {e}, Q \cup {e}, t)
                                 /\ \A f \in Q : t[f] < t[e]
    BY <1>2, <1>6, <2>1, <2>4, <2>6, MoveKeepsChains
  <2>8. PICK t : /\ Chains(n, H \ {e}, Q \cup {e}, t)
                 /\ \A f \in Q : t[f] < t[e]
    BY <2>7
  <2>9. \A f \in Waiting(m) : f # e => KeyOf(m, f) # o
    BY <1>12, <2>1 DEF UniqueKeys
  <2>10. Outcome(m, n, H \ {e}, Q \cup {e}, t, H, Q, o)
    <3>1. \A f \in (Q \cup {e}) \ Q : KeyOf(m, f) = o
      BY <1>12
    <3>2. \A f \in H \ {e} : KeyOf(m, f) # o
      BY <1>4, <2>9
    <3>3. (H \ {e}) \cup (Q \cup {e}) = H \cup Q
      BY <2>1
    <3>4. QED
      BY <2>5, <2>7, <2>8, <3>1, <3>2, <3>3 DEF Outcome
  <2>11. PICK K : K = {f \in Q \cup {e} : t[f] < t[e]}
    OBVIOUS
  <2>12. e \notin K
    <3>1. t[e] \in Nat
      BY <1>5, <2>1, <2>8 DEF Chains
    <3>2. QED
      BY <2>11, <3>1
  <2>13. Moved(v, m, H, Q, o, K)
    <3>1. \A f \in Q \cup {e} : t[f] < t[e] => KeyOf(m, f) # o
      BY <1>4, <2>9, <2>11, <2>12
    <3>2. v.mem = n /\ v.at = e /\ v = [mem |-> v.mem, at |-> v.at, done |-> FALSE]
      BY <2>4
    <3>3. QED
      BY <2>10, <2>11, <3>1, <3>2 DEF Moved
  <2>14. Shorter(K, L)
    <3>1. e \in L
      BY <1>3, <1>9, <1>12
    <3>2. K \subseteq Q /\ Q \subseteq L
      BY <1>3, <2>11, <2>12
    <3>3. QED
      BY <2>12, <3>1, <3>2 DEF Shorter
  <2>15. QED
    BY <2>13, <2>14
<1>13. QED
  BY <1>10, <1>11, <1>12

\* After the key has been found the walk goes on along the queue and finds nothing.
LEMMA MovedRound ==
  ASSUME heap \in Heaps, HeapAssumption, NEW m, MemoryOK(m), NEW o \in Objs,
         NEW H, NEW Q, NEW s, NEW L, Moved(s, m, H, Q, o, L), NEW v, v = Round(s, o)
  PROVE  \/ v.done /\ Ended(m, v.mem, H, Q, o)
         \/ \E K : Shorter(K, L) /\ Moved(v, m, H, Q, o, K)
<1>1. PICK G, P, t : /\ Outcome(m, s.mem, G, P, t, H, Q, o)
                     /\ s.at \in P
                     /\ \A f \in P : t[f] < t[s.at] => KeyOf(m, f) # o
                     /\ L = {f \in P : t[f] < t[s.at]}
  BY DEF Moved
<1>2. PICK n, at : n = s.mem /\ at = s.at
  OBVIOUS
<1>3. s = [mem |-> n, at |-> at, done |-> FALSE]
  BY <1>2 DEF Moved
<1>4. PICK e : e = EntryAt(n, at, o)
  OBVIOUS
<1>5. /\ MemoryOK(n) /\ WaitStep(m, n) /\ Chains(n, G, P, t) /\ at \in P
      /\ P \subseteq Waiting(n)
  BY <1>1, <1>2 DEF Outcome, Chains
<1>6. /\ P \subseteq Nat \ {0} /\ at # 0
      /\ \A f \in P : KeyOf(n, f) = KeyOf(m, f)
  <2>1. \A f \in Waiting(n) : f \in Nat \ {0}
    BY <1>5, WaitingFacts
  <2>2. Waiting(n) = Waiting(m)
    BY <1>5, WaitSame
  <2>3. \A f \in Waiting(m) : KeyOf(n, f) = KeyOf(m, f)
    BY <1>5, WaitSame
  <2>4. QED
    BY <1>5, <2>1, <2>2, <2>3
<1>7. /\ e # 0 => e \in P /\ t[e] < t[at]
      /\ t \in [Nat -> Nat]
  <2>1. e = After(n, NextWord, at)
    BY <1>4, <1>6 DEF EntryAt, After, NextLink, NextWord
  <2>2. t \in [Nat -> Nat] /\ Descends(n, NextWord, n.queue, P, t)
    BY <1>5 DEF Chains
  <2>3. QED
    BY <1>5, <1>6, <2>1, <2>2, DescendsStep
<1>8. CASE e = 0
  <2>1. v = [mem |-> n, at |-> at, done |-> TRUE]
    BY <1>3, <1>4, <1>8, LastRound
  <2>2. QED
    BY <1>1, <1>2, <2>1 DEF Ended
<1>9. CASE e # 0
  <2>1. KeyOf(n, e) # o
    BY <1>1, <1>2, <1>6, <1>7, <1>9
  <2>2. v = [mem |-> n, at |-> e, done |-> FALSE]
    <3>1. e \in Nat \ {0} /\ ~KeyIs(n, e, o)
      BY <1>6, <1>7, <1>9, <2>1 DEF KeyIs, KeyOf
    <3>2. QED
      BY <1>3, <1>4, <3>1, PassingRound
  <2>3. PICK K : K = {f \in P : t[f] < t[e]}
    OBVIOUS
  <2>4. \A f \in P : t[f] \in Nat /\ (t[f] < t[e] => t[f] < t[at])
    <3>1. at \in Nat /\ e \in Nat
      BY <1>5, <1>6, <1>7, <1>9
    <3>2. t[at] \in Nat /\ t[e] \in Nat /\ t[e] < t[at]
      BY <1>7, <1>9, <3>1
    <3>3. \A f \in P : t[f] \in Nat
      BY <1>6, <1>7
    <3>4. QED
      BY <3>2, <3>3
  <2>5. Moved(v, m, H, Q, o, K)
    <3>1. \A f \in P : t[f] < t[e] => KeyOf(m, f) # o
      BY <1>1, <1>2, <2>4
    <3>2. v.mem = n /\ v.at = e /\ v = [mem |-> v.mem, at |-> v.at, done |-> FALSE]
      BY <2>2
    <3>3. QED
      BY <1>1, <1>2, <1>7, <1>9, <2>3, <3>1, <3>2 DEF Moved
  <2>6. Shorter(K, L)
    <3>1. e \in L /\ e \notin K
      BY <1>1, <1>2, <1>7, <1>9, <2>3, <2>4
    <3>2. K \subseteq L
      BY <1>1, <1>2, <2>3, <2>4
    <3>3. QED
      BY <3>1, <3>2 DEF Shorter
  <2>7. QED
    BY <2>5, <2>6
<1>10. QED
  BY <1>8, <1>9

Stage(s, m, H, Q, o, k) ==
  \/ s.done /\ Ended(m, s.mem, H, Q, o)
  \/ \E L : /\ L \subseteq Waiting(m) /\ Cardinality(L) + k <= Cardinality(Waiting(m))
            /\ Unmoved(s, m, H, Q, o, L) \/ Moved(s, m, H, Q, o, L)

\* Every round leaves less of the bucket to walk, so that the walk ends.
LEMMA StageRound ==
  ASSUME heap \in Heaps, HeapAssumption, NEW m, MemoryOK(m), UniqueKeys(m), NEW o \in Objs,
         NEW H, NEW Q, NEW r, Chains(m, H, Q, r), NEW k \in Nat, NEW s, Stage(s, m, H, Q, o, k),
         NEW v, v = IF s.done THEN s ELSE Round(s, o)
  PROVE  Stage(v, m, H, Q, o, k + 1)
<1>1. CASE s.done /\ Ended(m, s.mem, H, Q, o)
  BY <1>1 DEF Stage
<1>2. ASSUME NEW L, L \subseteq Waiting(m), Cardinality(L) + k <= Cardinality(Waiting(m)),
             Unmoved(s, m, H, Q, o, L) \/ Moved(s, m, H, Q, o, L)
      PROVE  Stage(v, m, H, Q, o, k + 1)
  <2>1. v = Round(s, o)
    <3>1. s.done = FALSE
      BY <1>2 DEF Unmoved, Moved
    <3>2. QED
      BY <3>1
  <2>2. \/ v.done /\ Ended(m, v.mem, H, Q, o)
        \/ \E K : Shorter(K, L) /\ (Unmoved(v, m, H, Q, o, K) \/ Moved(v, m, H, Q, o, K))
    BY <1>2, <2>1, UnmovedRound, MovedRound
  <2>3. ASSUME NEW K, Shorter(K, L), Unmoved(v, m, H, Q, o, K) \/ Moved(v, m, H, Q, o, K)
        PROVE  Stage(v, m, H, Q, o, k + 1)
    <3>1. PICK e \in L : e \notin K /\ K \subseteq L
      BY <2>3 DEF Shorter
    <3>2. IsFiniteSet(Waiting(m))
      BY WaitingFinite
    <3>3. IsFiniteSet(L) /\ L \subseteq Waiting(m)
      BY <1>2, <3>2, FS_Subset
    <3>4. IsFiniteSet(L \ {e}) /\ Cardinality(L \ {e}) = Cardinality(L) - 1
      BY <3>1, <3>3, FS_RemoveElement
    <3>5. K \subseteq L \ {e}
      BY <3>1
    <3>6. IsFiniteSet(K) /\ Cardinality(K) <= Cardinality(L \ {e})
      BY <3>4, <3>5, FS_Subset
    <3>7. Cardinality(K) \in Nat /\ Cardinality(L) \in Nat /\ Cardinality(Waiting(m)) \in Nat
      BY <3>2, <3>3, <3>6, FS_CardinalityType
    <3>8. Cardinality(K) + (k + 1) <= Cardinality(Waiting(m))
      BY <1>2, <3>4, <3>6, <3>7
    <3>9. K \subseteq Waiting(m)
      BY <3>1, <3>3
    <3>10. QED
      BY <2>3, <3>8, <3>9 DEF Stage
  <2>4. QED
    BY <2>2, <2>3 DEF Stage
<1>3. QED
  BY <1>1, <1>2 DEF Stage

\* The walk ends within Rounds rounds.
LEMMA WalkEnds ==
  ASSUME heap \in Heaps, HeapAssumption, NEW m, MemoryOK(m), UniqueKeys(m), NEW o \in Objs,
         NEW H, NEW Q, NEW r, Chains(m, H, Q, r), NEW n, n = queue_ephemerons_for_key(m, o)
  PROVE  Ended(m, n, H, Q, o)
<1>1. PICK f : /\ Walks(f, Rounds, m, o)
               /\ n = IF f[Rounds].done THEN f[Rounds].mem ELSE [m EXCEPT !.hung = TRUE]
  BY WalkDefined
<1> DEFINE S == {k \in Nat : k <= Rounds => Stage(f[k], m, H, Q, o, k)}
<1>2. 0 \in S
  <2>1. PICK s : s = f[0]
    OBVIOUS
  <2>2. s = [mem |-> m, at |-> 0, done |-> FALSE]
    BY <1>1, <2>1, RoundsType DEF Walks
  <2>3. PICK L : L = {g \in InBucket(m, H, Bucket(o)) : s.at = 0 \/ g < s.at} \cup Q
    OBVIOUS
  <2>4. Unmoved(s, m, H, Q, o, L)
    <3>1. s.at = 0 /\ s = [mem |-> m, at |-> s.at, done |-> FALSE]
      BY <2>2
    <3>2. QED
      BY <2>3, <3>1 DEF Unmoved
  <2>5. L \subseteq Waiting(m)
    BY <2>3 DEF InBucket, Chains
  <2>6. IsFiniteSet(Waiting(m))
    BY WaitingFinite
  <2>7. IsFiniteSet(L) /\ Cardinality(L) <= Cardinality(Waiting(m))
    BY <2>5, <2>6, FS_Subset
  <2>8. Cardinality(L) \in Nat
    BY <2>7, FS_CardinalityType
  <2>9. Cardinality(L) + 0 <= Cardinality(Waiting(m))
    BY <2>7, <2>8
  <2>10. Stage(s, m, H, Q, o, 0)
    BY <2>4, <2>5, <2>9 DEF Stage
  <2>11. QED
    BY <2>1, <2>10
<1>3. ASSUME NEW k \in Nat, k \in S PROVE k + 1 \in S
  <2> SUFFICES ASSUME k + 1 <= Rounds
               PROVE  Stage(f[k + 1], m, H, Q, o, k + 1)
    OBVIOUS
  <2>1. k + 1 \in 0 .. Rounds /\ (k + 1) - 1 = k /\ k + 1 # 0 /\ k <= Rounds
    BY RoundsType
  <2>2. f[k + 1] = IF f[k].done THEN f[k] ELSE Round(f[k], o)
    BY <1>1, <2>1 DEF Walks
  <2>3. Stage(f[k], m, H, Q, o, k)
    BY <1>3, <2>1
  <2>4. QED
    BY <2>2, <2>3, StageRound
<1>4. Nat \subseteq S
  <2> HIDE DEF S
  <2>1. QED
    BY <1>2, <1>3, SetInduction
<1>5. PICK s : s = f[Rounds]
  OBVIOUS
<1>6. Stage(s, m, H, Q, o, Rounds)
  <2>1. Rounds \in S /\ Rounds <= Rounds
    BY <1>4, RoundsType
  <2>2. QED
    BY <1>5, <2>1
<1>7. s.done /\ Ended(m, s.mem, H, Q, o)
  <2> SUFFICES ASSUME NEW L, L \subseteq Waiting(m),
                      Cardinality(L) + Rounds <= Cardinality(Waiting(m))
               PROVE  FALSE
    BY <1>6 DEF Stage
  <2>1. IsFiniteSet(Waiting(m)) /\ Cardinality(Waiting(m)) + 1 <= Rounds
    BY WaitingFinite
  <2>2. IsFiniteSet(L)
    BY <2>1, FS_Subset
  <2>3. Cardinality(L) \in Nat /\ Cardinality(Waiting(m)) \in Nat
    BY <2>1, <2>2, FS_CardinalityType
  <2>4. QED
    BY <2>1, <2>3, RoundsType
<1>8. QED
  BY <1>1, <1>5, <1>7

\* All ephemerons that wait for o are taken out of the table.
KeptBut(m, lim, o, x) ==
  \E H, Q, r : /\ Chains(m, H, Q, r) /\ Sorted(m, H, Q, lim, o, x)
               /\ \A e \in H : KeyOf(m, e) # o

\* queue_ephemerons_for_key keeps what waits in buckets and queue, and moves its key.
LEMMA QueueKept ==
  ASSUME heap \in Heaps, HeapAssumption, NEW m, MemoryOK(m), UniqueKeys(m), NEW o \in Objs,
         NEW lim, NEW x, Kept(m, lim, 0, x), NEW n, n = queue_ephemerons_for_key(m, o)
  PROVE  WaitStep(m, n) /\ MemoryOK(n) /\ KeptBut(n, lim, o, x)
<1>1. PICK H, Q, r : Chains(m, H, Q, r) /\ Sorted(m, H, Q, lim, 0, x)
  BY DEF Kept
<1>2. Ended(m, n, H, Q, o)
  BY <1>1, WalkEnds
<1>3. PICK G, P, t : Outcome(m, n, G, P, t, H, Q, o)
  BY <1>2 DEF Ended
<1>4. /\ MemoryOK(n) /\ WaitStep(m, n) /\ Chains(n, G, P, t)
      /\ G \cup P = H \cup Q /\ Q \subseteq P /\ G \subseteq H
      /\ \A f \in P \ Q : KeyOf(m, f) = o
      /\ \A f \in G : KeyOf(m, f) # o
  BY <1>3 DEF Outcome
<1>5. /\ Waiting(n) = Waiting(m)
      /\ \A e \in Waiting(m) : n.to[Datum(e)] = m.to[Datum(e)] /\ KeyOf(n, e) = KeyOf(m, e)
  BY <1>4, WaitSame
<1>6. /\ G \subseteq Waiting(m) /\ P \subseteq Waiting(m) /\ n.heart = m.heart
  BY <1>4, <1>5 DEF Chains, WaitStep
<1>7. \A e \in Waiting(m) : KeyOf(m, e) # 0
  BY WaitingFacts, HeapFacts
<1>8. \A e \in Waiting(n) : IsOld(n.to[Datum(e)]) => e \in G \cup P \cup {x}
  BY <1>1, <1>4, <1>5 DEF Sorted
<1>9. \A e \in P : KeyLives(n, e, o)
  <2>1. ASSUME NEW e \in P PROVE KeyLives(n, e, o)
    <3>1. KeyOf(n, e) = KeyOf(m, e)
      BY <1>5, <1>6
    <3>2. CASE e \in Q
      <4>1. KeyLives(m, e, 0) /\ KeyOf(m, e) # 0
        BY <1>1, <1>6, <1>7, <3>2 DEF Sorted
      <4>2. QED
        BY <1>6, <3>1, <4>1 DEF KeyLives
    <3>3. CASE e \notin Q
      BY <1>4, <3>1, <3>3 DEF KeyLives
    <3>4. QED
      BY <3>2, <3>3
  <2>2. QED
    BY <2>1
<1>10. ASSUME NEW e \in G, KeyLives(n, e, o) PROVE e <= lim
  <2>1. KeyOf(n, e) = KeyOf(m, e) /\ KeyOf(m, e) # o
    BY <1>4, <1>5, <1>6
  <2>2. KeyLives(m, e, 0)
    BY <1>6, <1>10, <2>1 DEF KeyLives
  <2>3. QED
    BY <1>1, <1>4, <2>2 DEF Sorted
<1>11. \A e \in G : KeyOf(n, e) # o
  BY <1>4, <1>5, <1>6
<1>12. Sorted(n, G, P, lim, o, x)
  BY <1>8, <1>9, <1>10 DEF Sorted
<1>13. QED
  BY <1>4, <1>11, <1>12 DEF KeptBut
=============================================================================
