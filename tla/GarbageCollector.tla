-------------------------- MODULE GarbageCollector --------------------------
(***************************************************************************)
(* The copying collector (microcode gcloop.c and std_gc_pt1, std_gc_pt2 of *)
(* memmag.c): objects reached from the stack and the fixed objects are     *)
(* copied to tospace word by word and leave a broken heart behind; weak    *)
(* pairs and ephemerons are settled afterwards.                            *)
(*                                                                         *)
(* A word is a tuple: <<"old", o, k>> points k words into fromspace object *)
(* o, <<"new", a, k>> k words into the object at newspace address a, and   *)
(* the others are not pointers.  k > 0 is a compiled entry, which points   *)
(* into its code block.                                                    *)
(***************************************************************************)
EXTENDS Naturals, Sequences, FiniteSets

CONSTANTS Heaps,      \* the heaps a run starts from: [stack, fixed, graph]
          Buckets     \* length of the ephemeron hash table (ephemeron_array)

Imm == <<"imm">>                    \* any object that is not a pointer
False == <<"#f">>                   \* SHARP_F
Reclaimed == <<"reclaimed">>        \* GC_RECLAIMED
Manifest == <<"manifest">>          \* a marked header: the words after it are scanned
Skip(n) == <<"nmv", n>>             \* TC_MANIFEST_NM_VECTOR: n words are not
Old(o) == <<"old", o, 0>>
IsOld(w) == w[1] = "old"
EphemeronSize == 5                  \* header, key, datum, list, next
Key(a) == a + 1
Datum(a) == a + 2
ListLink(a) == a + 3
NextLink(a) == a + 4

\* A word of fromspace before the collection, and the heaps built from such words:
\* pairs, weak pairs and ephemerons have two fields.
HeapWords(objs) == {Imm, False} \cup ({"old"} \X objs \X Nat)
HeapAssumption ==
  /\ Buckets \in Nat \ {0}
  /\ \A h \in Heaps :
       LET objs == DOMAIN h.graph
       IN /\ objs \subseteq Nat \ {0} /\ IsFiniteSet(objs)
          /\ h.fixed \in HeapWords(objs) /\ h.stack \in Seq(HeapWords(objs))
          /\ \A o \in objs :
               /\ h.graph[o].kind \in {"pair", "vector", "weak", "ephemeron"}
               /\ h.graph[o].fields \in Seq(HeapWords(objs))
               /\ h.graph[o].kind # "vector" => Len(h.graph[o].fields) = 2
ASSUME HeapAssumption

(***************************************************************************)
(* heap: what the collection started from; fromspace but for broken hearts *)
(* and the links of the weak chain, which are mem.heart and mem.chain.     *)
(* mem: to (tospace), heart (the new address of each copied object, 0 if   *)
(* none), chain (weak_chain), list and queue (ephemerons), bucket (the     *)
(* hash table), hung (a walk of the hash table that never ends).           *)
(* pc, scan, cur, stack: the step, the scan pointer, the ephemeron being   *)
(* looked at, and the scanned part of oldspace.                            *)
(***************************************************************************)
VARIABLES heap, mem, pc, scan, cur, stack
vars == <<heap, mem, pc, scan, cur, stack>>

Objs == DOMAIN heap.graph
Kind(o) == heap.graph[o].kind
Fields(o) == heap.graph[o].fields
\* The words of an object: a pair and a weak pair have no header
Words(o) == CASE Kind(o) \in {"pair", "weak"} -> Fields(o)
              [] Kind(o) = "vector" -> <<Manifest>> \o Fields(o)
              [] Kind(o) = "ephemeron" -> <<Manifest>> \o Fields(o) \o <<False, False>>

\* open_tospace, initialize_weak_chain and the two words std_gc_pt1 adds
Init == /\ heap \in Heaps
        /\ mem = [to |-> <<heap.fixed, Imm>>, heart |-> [o \in Objs |-> 0], chain |-> <<>>,
                  list |-> 0, queue |-> 0, bucket |-> [b \in 0 .. Buckets - 1 |-> 0],
                  hung |-> FALSE]
        /\ stack = heap.stack
        /\ pc = "stack" /\ scan = 1 /\ cur = 0

-----------------------------------------------------------------------------
\* The hash table of ephemerons whose key has not been copied

Bucket(o) == o % Buckets
Link(w) == IF w[1] = "new" THEN w[2] ELSE 0
AsLink(a) == IF a = 0 THEN False ELSE <<"new", a, 0>>
KeyIs(m, a, o) == m.to[Key(a)][2] = o

\* One round of the loop of queue_ephemerons_for_key.  at is entry_loc: 0 for the
\* bucket's head, else the ephemeron whose next link it is.
EntryAt(m, at, o) == IF at = 0 THEN m.bucket[Bucket(o)] ELSE Link(m.to[NextLink(at)])
Round(s, o) ==
  LET m == s.mem
      e == EntryAt(m, s.at, o)
      rest == m.to[NextLink(e)]
      unlinked == IF s.at = 0 THEN [m EXCEPT !.bucket[Bucket(o)] = Link(rest)]
                  ELSE [m EXCEPT !.to[NextLink(s.at)] = rest]
  IN IF e = 0 THEN [s EXCEPT !.done = TRUE]
     ELSE [s EXCEPT !.at = e,
                    !.mem = IF KeyIs(m, e, o)
                            THEN [unlinked EXCEPT !.to[NextLink(e)] = AsLink(m.queue), !.queue = e]
                            ELSE m]

\* Enough rounds for every walk that ends
Rounds == 2 * Cardinality({o \in Objs : Kind(o) = "ephemeron"}) + 2
queue_ephemerons_for_key(m, o) ==
  LET walk[n \in 0 .. Rounds] ==
        IF n = 0 THEN [mem |-> m, at |-> 0, done |-> FALSE]
        ELSE LET s == walk[n-1] IN IF s.done THEN s ELSE Round(s, o)
      end == walk[Rounds]
  IN IF end.done THEN end.mem ELSE [m EXCEPT !.hung = TRUE]

-----------------------------------------------------------------------------
\* Copying

\* gc_precheck_from: an object about to be copied may be the key of ephemerons
Precheck(m, o, scanning) ==
  IF scanning /\ m.heart[o] = 0 THEN queue_ephemerons_for_key(m, o) ELSE m

\* gc_transport_words
Transport(m, o) == [m EXCEPT !.to = @ \o Words(o), !.heart[o] = Len(m.to) + 1]

\* o and then, eagerly, the cdrs that are pairs not copied yet: the loop stays where it
\* stops, and no list is longer than the heap
gc_tuple(m, o, scanning) ==
  LET copy(n, p) == [mem |-> Transport(Precheck(n, p, scanning), p), last |-> p]
      run[n \in 1 .. Cardinality(Objs)] ==
        IF n = 1 THEN copy(m, o)
        ELSE LET s == run[n-1]
                 cdr == Fields(s.last)[2]
             IN IF IsOld(cdr) /\ Kind(cdr[2]) = "pair" /\ s.mem.heart[cdr[2]] = 0
                THEN copy(s.mem, cdr[2]) ELSE s
  IN run[Cardinality(Objs)].mem

\* Mutant: the pair is not chained.
WeakPairNotChained(m, o) ==
  IF IsOld(Fields(o)[1])
  THEN [Transport(m, o) EXCEPT !.to[Len(m.to) + 1] = <<"weak", Fields(o)[1][2], Fields(o)[1][3]>>]
  ELSE Transport(m, o)
\* gc_transport_weak_pair: the car is made a non-pointer and the pair is chained
gc_transport_weak_pair(m, o) ==
  LET a == Len(m.to) + 1
      car == Fields(o)[1]
  IN IF IsOld(car)
     THEN [Transport(m, o) EXCEPT !.to[a] = <<"weak", car[2], car[3]>>, !.chain = <<o>> \o @]
     ELSE Transport(m, o)

\* Mutant: the next link does not keep the rest of the bucket.
EphemeronForgetsBucket(m, o) ==
  LET a == Len(m.to) + 1
      key == Fields(o)[1]
      t == Transport(m, o)
  IN IF ~ IsOld(key) \/ t.heart[key[2]] # 0 THEN t
     ELSE [t EXCEPT !.to[a] = Skip(EphemeronSize - 1),
                    !.bucket[Bucket(key[2])] = a,
                    !.to[ListLink(a)] = AsLink(m.list), !.list = a]
\* gc_transport_ephemeron: with a key that is not live yet it is skipped by the scan,
\* hashed by its key and listed
gc_transport_ephemeron(m, o) ==
  LET a == Len(m.to) + 1
      key == Fields(o)[1]
      t == Transport(m, o)
  IN IF ~ IsOld(key) \/ t.heart[key[2]] # 0 THEN t
     ELSE [t EXCEPT !.to[a] = Skip(EphemeronSize - 1),
                    !.to[NextLink(a)] = AsLink(m.bucket[Bucket(key[2])]),
                    !.bucket[Bucket(key[2])] = a,
                    !.to[ListLink(a)] = AsLink(m.list), !.list = a]

\* Mutant: broken hearts are not looked for.
HandleAgain(m, o, scanning) ==
  CASE Kind(o) = "pair" -> gc_tuple(m, o, scanning)
    [] Kind(o) = "vector" -> Transport(Precheck(m, o, scanning), o)
    [] Kind(o) = "weak" -> gc_transport_weak_pair(Precheck(m, o, scanning), o)
    [] Kind(o) = "ephemeron" -> gc_transport_ephemeron(Precheck(m, o, scanning), o)
\* The entry of the gc table for the type of a pointer to o
Handle(m, o, scanning) ==
  IF m.heart[o] # 0 THEN m
  ELSE CASE Kind(o) = "pair" -> gc_tuple(m, o, scanning)
         [] Kind(o) = "vector" -> Transport(Precheck(m, o, scanning), o)
         [] Kind(o) = "weak" -> gc_transport_weak_pair(Precheck(m, o, scanning), o)
         [] Kind(o) = "ephemeron" -> gc_transport_ephemeron(Precheck(m, o, scanning), o)
Forwarded(m, w) == <<"new", m.heart[w[2]], w[3]>>

\* run_gc_loop, one word of tospace
ScanWord(scanning) ==
  LET w == mem.to[scan]
      m == Handle(mem, w[2], scanning)
  IN /\ scan <= Len(mem.to)
     /\ \/ /\ IsOld(w)
           /\ mem' = [m EXCEPT !.to[scan] = Forwarded(m, w)]
           /\ scan' = scan + 1
        \/ /\ w[1] = "nmv"
           /\ scan' = scan + 1 + w[2]
           /\ UNCHANGED mem
        \/ /\ ~ IsOld(w) /\ w[1] # "nmv"
           /\ scan' = scan + 1
           /\ UNCHANGED mem

-----------------------------------------------------------------------------
\* gc_scan_oldspace on the stack and on constant space
ScanStack ==
  /\ pc = "stack"
  /\ \/ /\ scan <= Len(stack) /\ IsOld(stack[scan])
        /\ mem' = Handle(mem, stack[scan][2], FALSE)
        /\ stack' = [stack EXCEPT ![scan] = Forwarded(mem', @)]
        /\ scan' = scan + 1
        /\ UNCHANGED pc
     \/ /\ scan <= Len(stack) /\ ~ IsOld(stack[scan])
        /\ scan' = scan + 1
        /\ UNCHANGED <<mem, stack, pc>>
     \/ /\ scan > Len(stack)
        /\ pc' = "scan" /\ scan' = 1
        /\ UNCHANGED <<mem, stack>>
  /\ UNCHANGED <<heap, cur>>

\* gc_scan_tospace, then into scan_ephemerons
ScanTospace ==
  /\ pc = "scan"
  /\ \/ ScanWord(FALSE) /\ UNCHANGED <<pc, cur>>
     \/ /\ scan > Len(mem.to)
        /\ pc' = "list" /\ cur' = mem.list
        /\ UNCHANGED <<mem, scan>>
  /\ UNCHANGED <<heap, stack>>

\* Mutant: the loop does not go on to the next ephemeron of the list.
ScanListStays ==
  /\ pc = "list"
  /\ \/ /\ cur # 0
        /\ LET key == mem.to[Key(cur)]
           IN mem' = IF mem.heart[key[2]] # 0 THEN queue_ephemerons_for_key(mem, key[2]) ELSE mem
        /\ UNCHANGED <<pc, cur>>
     \/ /\ cur = 0
        /\ pc' = "queue"
        /\ UNCHANGED <<mem, cur>>
  /\ UNCHANGED <<heap, scan, stack>>
\* scan_ephemerons, first loop: queue the ephemerons whose key was copied since
ScanList ==
  /\ pc = "list"
  /\ \/ /\ cur # 0
        /\ LET key == mem.to[Key(cur)]
           IN mem' = IF mem.heart[key[2]] # 0 THEN queue_ephemerons_for_key(mem, key[2]) ELSE mem
        /\ cur' = Link(mem.to[ListLink(cur)])
        /\ UNCHANGED pc
     \/ /\ cur = 0
        /\ pc' = "queue"
        /\ UNCHANGED <<mem, cur>>
  /\ UNCHANGED <<heap, scan, stack>>

\* scan_ephemerons, second loop: scan a queued ephemeron's datum (scan_newspace_addr)
ScanQueue ==
  /\ pc = "queue"
  /\ \/ /\ mem.queue # 0
        /\ LET e == mem.queue
               w == mem.to[Datum(e)]
               popped == [mem EXCEPT !.queue = Link(mem.to[NextLink(e)])]
               m == IF IsOld(w) THEN Handle(popped, w[2], TRUE) ELSE popped
           IN mem' = IF IsOld(w) THEN [m EXCEPT !.to[Datum(e)] = Forwarded(m, w)] ELSE m
        /\ scan' = Len(mem.to) + 1
        /\ pc' = "rescan"
        /\ UNCHANGED cur
     \/ /\ mem.queue = 0
        /\ pc' = "ephemerons" /\ cur' = mem.list
        /\ UNCHANGED <<mem, scan>>
  /\ UNCHANGED <<heap, stack>>

\* gc_scan_tospace over what the datum added
Rescan ==
  /\ pc = "rescan"
  /\ \/ ScanWord(TRUE) /\ UNCHANGED pc
     \/ /\ scan > Len(mem.to)
        /\ pc' = "queue"
        /\ UNCHANGED <<mem, scan>>
  /\ UNCHANGED <<heap, cur, stack>>

\* weak_referent_forward
ReferentForward(w, collected) ==
  IF mem.heart[w[2]] # 0 THEN Forwarded(mem, w) ELSE collected

update_ephemerons ==
  /\ pc = "ephemerons"
  /\ \/ /\ cur # 0
        /\ LET key == ReferentForward(mem.to[Key(cur)], False)
           IN mem' = [mem EXCEPT
                        !.to[cur] = Manifest, !.to[Key(cur)] = key,
                        !.to[Datum(cur)] = IF key = False THEN False ELSE @,
                        !.to[ListLink(cur)] = False, !.to[NextLink(cur)] = False]
        /\ cur' = Link(mem.to[ListLink(cur)])
        /\ UNCHANGED pc
     \/ /\ cur = 0
        /\ mem' = [mem EXCEPT !.list = 0]
        /\ pc' = "weak"
        /\ UNCHANGED cur
  /\ UNCHANGED <<heap, scan, stack>>

update_weak_pairs ==
  /\ pc = "weak"
  /\ \/ /\ mem.chain # <<>>
        /\ LET a == mem.heart[Head(mem.chain)]
           IN mem' = [mem EXCEPT !.to[a] = ReferentForward(@, Reclaimed), !.chain = Tail(@)]
        /\ UNCHANGED pc
     \/ /\ mem.chain = <<>>
        /\ pc' = "done"
        /\ UNCHANGED mem
  /\ UNCHANGED <<heap, scan, cur, stack>>

\* std_gc_pt2 copies tospace to newspace and makes a new ephemeron array; then the
\* program goes on
Finished == pc = "done" /\ UNCHANGED vars

Next == \/ ~ mem.hung /\ (\/ ScanStack \/ ScanTospace \/ ScanList \/ ScanQueue \/ Rescan
                          \/ update_ephemerons \/ update_weak_pairs)
        \/ Finished

Spec == Init /\ [][Next]_vars /\ WF_vars(Next)

-----------------------------------------------------------------------------
\* What a collection owes the program, in terms of the heap it started from

Targets(ws) == {ws[i][2] : i \in {j \in DOMAIN ws : IsOld(ws[j])}}
Strong(o, live) ==
  CASE Kind(o) \in {"pair", "vector"} -> Targets(Fields(o))
    [] Kind(o) = "weak" -> Targets(<<Fields(o)[2]>>)
    [] Kind(o) = "ephemeron" ->
         IF Targets(<<Fields(o)[1]>>) \subseteq live THEN Targets(Fields(o)) ELSE {}
Live ==
  LET reach[n \in 0 .. Cardinality(Objs)] ==
        IF n = 0 THEN Targets(heap.stack \o <<heap.fixed>>)
        ELSE LET r == reach[n-1] IN r \cup UNION {Strong(o, r) : o \in r}
  IN reach[Cardinality(Objs)]

\* Type invariant: every broken heart, and every pointer of the collector, points into
\* tospace (gcloop.c: gc_transport_words).
TypeOK == /\ Len(stack) = Len(heap.stack)
          /\ pc \in {"stack", "scan", "list", "queue", "rescan", "ephemerons", "weak", "done"}
          /\ mem.heart \in [Objs -> 0 .. Len(mem.to)]
          /\ scan \in 1 .. Len(mem.to) + Len(stack) + 1 /\ cur \in 0 .. Len(mem.to)

\* The word a word of the old heap must have become
Image(w, lost) == IF ~ IsOld(w) THEN w
                  ELSE IF mem.heart[w[2]] # 0 THEN Forwarded(mem, w) ELSE lost
NewWords(o) ==
  LET f == Fields(o)
  IN CASE Kind(o) \in {"pair", "vector"} -> [i \in DOMAIN f |-> Image(f[i], Reclaimed)]
       [] Kind(o) = "weak" -> <<Image(f[1], Reclaimed), Image(f[2], Reclaimed)>>
       [] Kind(o) = "ephemeron" ->
            IF IsOld(f[1]) /\ mem.heart[f[1][2]] = 0 THEN <<False, False, False, False>>
            ELSE <<Image(f[1], False), Image(f[2], False), False, False>>
HeaderSize(o) == IF Kind(o) \in {"pair", "weak"} THEN 0 ELSE 1

\* When the collection is over exactly the live objects have been copied, each once,
\* and every word of the copies points to the copy of what it pointed to: a weak car
\* and an ephemeron whose key is dead are cleared, and nothing points to the old heap
\* (gcloop.c: gc_transport_words, update_weak_pointers).
GraphPreserved ==
  pc = "done" =>
    /\ {o \in Objs : mem.heart[o] # 0} = Live
    /\ stack = [i \in DOMAIN stack |-> Image(heap.stack[i], Reclaimed)]
    /\ mem.to[1] = Image(heap.fixed, Reclaimed)
    /\ \A o \in {p \in Objs : mem.heart[p] # 0} :
         SubSeq(mem.to, mem.heart[o] + HeaderSize(o), mem.heart[o] + Len(Words(o)) - 1)
           = NewWords(o)

\* No object is copied over another: the copies are disjoint and fill tospace
\* (gcloop.c: gc_precheck_from, gc_tuple's eager cdrs).
CopiedOnce ==
  LET copied == {o \in Objs : mem.heart[o] # 0}
      Extent(o) == mem.heart[o] .. mem.heart[o] + Len(Words(o)) - 1
  IN /\ UNION {Extent(o) : o \in copied} = 3 .. Len(mem.to)
     /\ \A o, p \in copied : o # p => Extent(o) \cap Extent(p) = {}

\* While datums are scanned, an ephemeron that was copied with a dead key and has not
\* been scanned is in the hash table or in the queue, and the ones in the queue have a
\* live key: none is forgotten (gcloop.c: queue_ephemerons_for_key, scan_ephemerons).
Reaches(a) ==
  LET r[n \in 0 .. Cardinality(Objs)] ==
        IF n = 0 THEN {a}
        ELSE LET s == r[n-1] IN s \cup {Link(mem.to[NextLink(e)]) : e \in s \ {0}}
  IN r[Cardinality(Objs)] \ {0}
EphemeronsKept ==
  pc \in {"queue", "rescan"} /\ ~ mem.hung =>
    /\ \A e \in Reaches(mem.queue) : mem.heart[mem.to[Key(e)][2]] # 0
    /\ \A o \in {p \in Objs : Kind(p) = "ephemeron" /\ mem.heart[p] # 0} :
         LET e == mem.heart[o]
             waiting == mem.to[e][1] = "nmv" /\ IsOld(mem.to[Datum(e)])
         IN waiting => e \in Reaches(mem.queue)
                             \cup UNION {Reaches(mem.bucket[b]) : b \in DOMAIN mem.bucket}

\* No two ephemerons have the same key: the walk of the hash table ends for such a heap
\* (gcloop.c: queue_ephemerons_for_key).
DistinctKeys(h) ==
  \A o, p \in DOMAIN h.graph :
    /\ h.graph[o].kind = "ephemeron" /\ h.graph[p].kind = "ephemeron"
    /\ IsOld(h.graph[o].fields[1]) /\ IsOld(h.graph[p].fields[1])
    /\ h.graph[o].fields[1][2] = h.graph[p].fields[1][2]
    => o = p

\* A collection ends (gcloop.c: run_gc_loop, scan_ephemerons).
CollectionEnds == <>(pc = "done")

=============================================================================
