-------------------------- MODULE ThreadQueueProofs --------------------------
(***************************************************************************)
(* Proofs about thread queues (ThreadQueue), for any sets of threads,      *)
(* items and pairs, any limit and any operations: the pairs form the       *)
(* chain that the counts say, they implement the bounded sequence of       *)
(* BoundedQueue, and no waiting thread is forgotten.                       *)
(***************************************************************************)
EXTENDS ThreadQueue, WellFoundedInduction, TLAPS

(***************************************************************************)
(* Induction, over a set of numbers instead of a predicate.                *)
(***************************************************************************)

\* A set of natural numbers has a least one.
LEMMA LeastNatural ==
  ASSUME NEW T, T \subseteq Nat, T # {}
  PROVE  \E x \in T : \A y \in T : x <= y
<1> DEFINE R == {ss \in Nat \X Nat : ss[1] < ss[2]}
<1>1. IsWellFoundedOn(R, Nat)
  BY NatLessThanWellFounded DEF OpToRel
<1> HIDE DEF R
<1>2. PICK x \in T : \A y \in T : ~ (<<y, x>> \in R)
  BY <1>1, WFMin
<1>3. ASSUME NEW y \in T, ~(x <= y) PROVE FALSE
  <2> DEFINE ss == <<y, x>>
  <2>1. y < x /\ ss \in Nat \X Nat /\ ss[1] = y /\ ss[2] = x
    BY <1>3
  <2>2. ss \in R
    BY <2>1 DEF R
  <2>3. QED
    BY <1>2, <2>2
<1>4. QED
  BY <1>3

\* A set that holds 0 and every successor holds every natural number.
LEMMA SetInduction ==
  ASSUME NEW S, 0 \in S, \A n \in Nat : n \in S => n + 1 \in S
  PROVE  Nat \subseteq S
<1> SUFFICES ASSUME Nat \ S # {} PROVE FALSE
  OBVIOUS
<1>1. PICK x \in Nat \ S : \A y \in Nat \ S : x <= y
  BY LeastNatural
<1>2. x # 0 /\ x - 1 \in Nat /\ x = (x - 1) + 1
  BY <1>1
<1>3. x - 1 \in S
  BY <1>1, <1>2
<1>4. QED
  BY <1>1, <1>2, <1>3

\* f starts with a and follows d.
Iterates(f, N, a, d) ==
  f \in [Nat -> N] /\ f[0] = a /\ \A n \in Nat : f[n + 1] = d[f[n]]

LEMMA IterationExists ==
  ASSUME NEW N, NEW a \in N, NEW d \in [N -> N]
  PROVE  \E f : Iterates(f, N, a, d)
<1> DEFINE Run(n, f) == /\ f \in [0..n -> N] /\ f[0] = a
                        /\ \A i \in 0..(n - 1) : f[i + 1] = d[f[i]]
           S == {n \in Nat : \E f : Run(n, f)}
<1>1. 0 \in S
  <2>1. Run(0, [i \in 0..0 |-> a])
    OBVIOUS
  <2>2. QED
    BY <2>1
<1>2. ASSUME NEW n \in Nat, n \in S PROVE n + 1 \in S
  <2>1. PICK f : Run(n, f)
    BY <1>2
  <2> DEFINE g == [i \in 0..(n + 1) |-> IF i = n + 1 THEN d[f[n]] ELSE f[i]]
  <2>2. g \in [0..(n + 1) -> N] /\ g[0] = a
    BY <2>1
  <2>3. ASSUME NEW i \in 0..n PROVE g[i + 1] = d[g[i]]
    <3>1. CASE i = n
      BY <3>1
    <3>2. CASE i # n
      <4>1. i \in 0..(n - 1) /\ i + 1 \in 0..n
        BY <3>2
      <4>2. QED
        BY <2>1, <4>1
    <3>3. QED
      BY <3>1, <3>2
  <2>4. (n + 1) - 1 = n /\ n + 1 \in Nat
    OBVIOUS
  <2> HIDE DEF g
  <2>5. Run(n + 1, g)
    BY <2>2, <2>3, <2>4
  <2>6. QED
    BY <2>4, <2>5
<1>3. Nat \subseteq S
  <2> HIDE DEF S
  <2>1. QED
    BY <1>1, <1>2, SetInduction
<1>4. \A n \in Nat : \E f : Run(n, f)
  BY <1>3
<1>5. ASSUME NEW n \in Nat, NEW f, NEW g, NEW m \in Nat, Run(n, f), Run(m, g)
      PROVE  \A i \in Nat : i <= n /\ i <= m => f[i] = g[i]
  <2> DEFINE E == {i \in Nat : i <= n /\ i <= m => f[i] = g[i]}
  <2>1. 0 \in E
    BY <1>5
  <2>2. ASSUME NEW i \in Nat, i \in E PROVE i + 1 \in E
    BY <1>5, <2>2
  <2>3. Nat \subseteq E
    <3> HIDE DEF E
    <3>1. QED
      BY <2>1, <2>2, SetInduction
  <2>4. QED
    BY <2>3
<1> DEFINE h == [n \in Nat |-> CHOOSE f : Run(n, f)]
           F == [n \in Nat |-> h[n][n]]
<1>6. \A n \in Nat : Run(n, h[n])
  BY <1>4
<1> HIDE DEF h
<1>7. F \in [Nat -> N]
  BY <1>6
<1>8. F[0] = a
  BY <1>6
<1>9. ASSUME NEW n \in Nat PROVE F[n + 1] = d[F[n]]
  <2>1. n + 1 \in Nat /\ Run(n, h[n]) /\ Run(n + 1, h[n + 1])
    BY <1>6
  <2>2. \A i \in Nat : i <= n /\ i <= n + 1 => h[n][i] = h[n + 1][i]
    <3> HIDE DEF Run
    <3>1. QED
      BY <1>5, <2>1
  <2>3. h[n + 1][n] = h[n][n]
    BY <2>2
  <2>4. n \in 0..((n + 1) - 1)
    OBVIOUS
  <2>5. h[n + 1][n + 1] = d[h[n + 1][n]]
    BY <2>1, <2>4
  <2>6. QED
    BY <2>1, <2>3, <2>5
<1>10. Iterates(F, N, a, d)
  BY <1>7, <1>8, <1>9 DEF Iterates
<1>11. QED
  BY <1>10

\* f starts with a and follows d up to the end e of the list, and stays there.
Follows(f, P, e, a, d) ==
  /\ f \in [Nat -> P \cup {e}]
  /\ f[0] = a
  /\ \A n \in Nat : f[n + 1] = IF f[n] = e THEN e ELSE d[f[n]]

LEMMA FollowExists ==
  ASSUME NEW P, NEW e, NEW a \in P \cup {e}, NEW d \in [P -> P \cup {e}]
  PROVE  \E g : Follows(g, P, e, a, d)
<1> DEFINE N == P \cup {e}
           D == [p \in N |-> IF p = e THEN e ELSE d[p]]
<1>1. D \in [N -> N] /\ a \in N
  OBVIOUS
<1>2. PICK g : Iterates(g, N, a, D)
  <2> HIDE DEF D, N
  <2>1. QED
    BY <1>1, IterationExists
<1>3. ASSUME NEW n \in Nat PROVE g[n + 1] = IF g[n] = e THEN e ELSE d[g[n]]
  <2>1. g[n] \in N /\ g[n + 1] = D[g[n]]
    BY <1>2 DEF Iterates
  <2>2. QED
    BY <2>1
<1>4. Follows(g, P, e, a, d)
  BY <1>2, <1>3 DEF Iterates, Follows
<1>5. QED
  BY <1>4

\* A function defined the way Follow is follows d from a until it meets e.
LEMMA FollowDefined ==
  ASSUME NEW P, NEW e, e \notin P, NEW a \in P \cup {e},
         NEW d \in [P -> P \cup {e}], NEW f,
         f = CHOOSE h : h = [n \in Nat |->
               IF n = 0 THEN a ELSE IF h[n - 1] = e THEN e ELSE d[h[n - 1]]]
  PROVE  Follows(f, P, e, a, d)
<1> DEFINE N == P \cup {e}
           Def(h) == [n \in Nat |->
               IF n = 0 THEN a ELSE IF h[n - 1] = e THEN e ELSE d[h[n - 1]]]
<1>1. PICK g : Follows(g, P, e, a, d)
  BY FollowExists
<1>2. /\ g \in [Nat -> N] /\ g[0] = a
      /\ \A n \in Nat : g[n + 1] = IF g[n] = e THEN e ELSE d[g[n]]
  BY <1>1 DEF Follows
<1>3. g = Def(g)
  <2>1. ASSUME NEW n \in Nat PROVE g[n] = Def(g)[n]
    <3>1. CASE n = 0
      BY <1>2, <3>1
    <3>2. CASE n # 0
      <4>1. n - 1 \in Nat /\ (n - 1) + 1 = n
        BY <3>2
      <4>2. g[n] = IF g[n - 1] = e THEN e ELSE d[g[n - 1]]
        BY <1>2, <4>1
      <4>3. QED
        BY <3>2, <4>2
    <3>3. QED
      BY <3>1, <3>2
  <2>2. g = [n \in Nat |-> g[n]]
    BY <1>2
  <2>3. QED
    BY <2>1, <2>2
<1>4. f = Def(f)
  <2> HIDE DEF Def
  <2>1. f = CHOOSE h : h = Def(h)
    BY DEF Def
  <2>2. QED
    BY <1>3, <2>1
<1>5. f[0] = a
  BY <1>4
<1>6. ASSUME NEW n \in Nat
      PROVE  f[n + 1] = IF f[n] = e THEN e ELSE d[f[n]]
  <2>1. n + 1 \in Nat /\ n + 1 # 0 /\ (n + 1) - 1 = n
    OBVIOUS
  <2>2. f[n + 1] = Def(f)[n + 1]
    <3> HIDE DEF Def
    <3>1. QED
      BY <1>4
  <2>3. Def(f)[n + 1] = IF f[(n + 1) - 1] = e THEN e ELSE d[f[(n + 1) - 1]]
    BY <2>1
  <2>4. QED
    BY <2>1, <2>2, <2>3
<1>7. \A n \in Nat : f[n] \in N
  <2> DEFINE S == {n \in Nat : f[n] \in N}
  <2>1. 0 \in S
    BY <1>5
  <2>2. ASSUME NEW n \in Nat, n \in S PROVE n + 1 \in S
    BY <1>6, <2>2
  <2>3. Nat \subseteq S
    <3> HIDE DEF S
    <3>1. QED
      BY <2>1, <2>2, SetInduction
  <2>4. QED
    BY <2>3
<1>8. f \in [Nat -> N]
  BY <1>4, <1>7
<1>9. QED
  BY <1>5, <1>6, <1>8 DEF Follows

(***************************************************************************)
(* The pairs.                                                              *)
(***************************************************************************)

\* The pairs of the queue, first one first.
Chain(c) ==
  /\ c \in Seq(Pairs)
  /\ Len(c) = element_count
  /\ \A i, j \in 1..Len(c) : c[i] = c[j] => i = j
  /\ \A i \in 1..(Len(c) - 1) : cdr[c[i]] = c[i + 1]
  /\ c = << >> => first_pair = None /\ last_pair = None
  /\ c # << >> => /\ first_pair = c[1] /\ last_pair = c[Len(c)]
                  /\ cdr[last_pair] = None

PairType ==
  /\ car \in [Pairs -> Items \cup {None}]
  /\ cdr \in [Pairs -> Pairs \cup {None}]

PairsOK ==
  /\ PairType
  /\ \E c : Chain(c)
  /\ MaxElements # None => element_count <= MaxElements

\* The pairs c are linked by d, from a on.
Linked(c, a, d) ==
  /\ c \in Seq(Pairs)
  /\ c = << >> => a = None
  /\ c # << >> => a = c[1] /\ d[c[Len(c)]] = None
  /\ \A i \in 1..(Len(c) - 1) : d[c[i]] = c[i + 1]

Along(c, f) ==
  \A n \in 0..Len(c) : f[n] = IF n = Len(c) THEN None ELSE c[n + 1]

\* The cdrs of Follow lead along the chain, and then to its end.
LEMMA ChainFollowed ==
  ASSUME NEW c, NEW d \in [Pairs -> Pairs \cup {None}], NEW a, Linked(c, a, d),
         NEW f, Follows(f, Pairs, None, a, d)
  PROVE  Along(c, f)
<1> USE DEF Linked, Along
<1> DEFINE S == {n \in Nat : n <= Len(c) =>
                   f[n] = IF n = Len(c) THEN None ELSE c[n + 1]}
<1>0. Len(c) \in Nat /\ None \notin Pairs
  BY QueueAssumption
<1>1. 0 \in S
  BY <1>0 DEF Follows
<1>2. ASSUME NEW n \in Nat, n \in S PROVE n + 1 \in S
  <2> SUFFICES ASSUME n + 1 <= Len(c)
               PROVE  f[n + 1] = IF n + 1 = Len(c) THEN None ELSE c[n + 2]
    OBVIOUS
  <2>1. n + 1 \in 1..Len(c) /\ f[n] = c[n + 1] /\ c[n + 1] \in Pairs
    BY <1>0, <1>2
  <2>2. f[n + 1] = d[c[n + 1]]
    BY <1>0, <2>1 DEF Follows
  <2>3. CASE n + 1 = Len(c)
    BY <2>2, <2>3
  <2>4. CASE n + 1 # Len(c)
    <3>1. n + 1 \in 1..(Len(c) - 1) /\ (n + 1) + 1 = n + 2
      BY <1>0, <2>1, <2>4
    <3>2. QED
      BY <2>2, <2>4, <3>1
  <2>5. QED
    BY <2>3, <2>4
<1>3. Nat \subseteq S
  <2> HIDE DEF S
  <2>1. QED
    BY <1>1, <1>2, SetInduction
<1>4. QED
  BY <1>0, <1>3

\* What a chain says about Follow, InUse and Contents.
ChainDescribes ==
  PairType => \A c : Chain(c) =>
    /\ element_count = Len(c)
    /\ \A n \in 0..Len(c) : Follow[n] = IF n = Len(c) THEN None ELSE c[n + 1]
    /\ InUse = {c[i] : i \in 1..Len(c)}
    /\ Contents = [i \in 1..Len(c) |-> car[c[i]]]

LEMMA ChainFacts == ChainDescribes
<1> SUFFICES ASSUME PairType, NEW c, Chain(c)
             PROVE  /\ element_count = Len(c)
                    /\ \A n \in 0..Len(c) :
                         Follow[n] = IF n = Len(c) THEN None ELSE c[n + 1]
                    /\ InUse = {c[i] : i \in 1..Len(c)}
                    /\ Contents = [i \in 1..Len(c) |-> car[c[i]]]
  BY DEF ChainDescribes
<1>1. /\ c \in Seq(Pairs) /\ Len(c) \in Nat /\ None \notin Pairs
      /\ element_count = Len(c) /\ first_pair \in Pairs \cup {None}
      /\ cdr \in [Pairs -> Pairs \cup {None}]
  BY QueueAssumption DEF Chain, PairType
<1>2. Follows(Follow, Pairs, None, first_pair, cdr)
  <2>1. Follow = CHOOSE h : h = [n \in Nat |->
           IF n = 0 THEN first_pair
           ELSE IF h[n - 1] = None THEN None ELSE cdr[h[n - 1]]]
    BY DEF Follow
  <2>2. QED
    BY <1>1, <2>1, FollowDefined
<1>3. \A n \in 0..Len(c) : Follow[n] = IF n = Len(c) THEN None ELSE c[n + 1]
  <2>1. Linked(c, first_pair, cdr)
    BY DEF Chain, Linked
  <2>2. Along(c, Follow)
    BY <1>1, <1>2, <2>1, ChainFollowed
  <2>3. QED
    BY <2>2 DEF Along
<1>4. \A i \in 1..Len(c) : i - 1 \in 0..Len(c) /\ Follow[i - 1] = c[i]
                           /\ c[i] \in Pairs
  BY <1>1, <1>3
<1>5. InUse = {c[i] : i \in 1..Len(c)}
  <2>1. ASSUME NEW p, p \in InUse PROVE \E i \in 1..Len(c) : p = c[i]
    <3>1. PICK n \in 0..Len(c) : p = Follow[n] /\ p # None
      BY <1>1, <2>1 DEF InUse
    <3>2. n + 1 \in 1..Len(c) /\ p = c[n + 1]
      BY <1>1, <1>3, <3>1
    <3>3. QED
      BY <3>2
  <2>2. ASSUME NEW i \in 1..Len(c) PROVE c[i] \in InUse
    BY <1>1, <1>4 DEF InUse
  <2>3. QED
    BY <2>1, <2>2
<1>6. Contents = [i \in 1..Len(c) |-> car[c[i]]]
  BY <1>1, <1>4 DEF Contents
<1>7. QED
  BY <1>1, <1>3, <1>5, <1>6
LEMMA ChainFactsNext == ChainDescribes'
BY ChainFacts, PTL

\* What the queue holds, as a sequence.
LEMMA ContentsType ==
  ASSUME PairType, NEW c, Chain(c)
  PROVE  /\ Contents \in Seq(Items \cup {None})
         /\ Len(Contents) = Len(c) /\ Len(c) \in Nat /\ element_count = Len(c)
         /\ \A i \in 1..Len(c) : Contents[i] = car[c[i]] /\ c[i] \in Pairs
         /\ InUse = {c[i] : i \in 1..Len(c)}
<1>1. /\ c \in Seq(Pairs) /\ Len(c) \in Nat /\ element_count = Len(c)
      /\ Contents = [i \in 1..Len(c) |-> car[c[i]]]
      /\ InUse = {c[i] : i \in 1..Len(c)}
  BY ChainFacts DEF ChainDescribes, Chain
<1>2. \A i \in 1..Len(c) : c[i] \in Pairs /\ car[c[i]] \in Items \cup {None}
  BY <1>1 DEF PairType
<1>3. Contents \in [1..Len(c) -> Items \cup {None}]
  BY <1>1, <1>2
<1>4. Contents \in Seq(Items \cup {None})
  BY <1>1, <1>3
<1>5. Len(Contents) = Len(c)
  BY <1>1, <1>3, <1>4
<1>6. QED
  BY <1>1, <1>2, <1>4, <1>5

\* A step whose next chain is c gives the contents r.
LEMMA ContentsNext ==
  ASSUME PairType', NEW c, Chain(c)', NEW r \in Seq(Items \cup {None}),
         Len(r) = Len(c), \A i \in 1..Len(c) : r[i] = car'[c[i]]
  PROVE  Contents' = r
<1>1. Contents' = [i \in 1..Len(c) |-> car'[c[i]]]
  BY ChainFactsNext DEF ChainDescribes
<1>2. r = [i \in 1..Len(r) |-> r[i]]
  OBVIOUS
<1>3. QED
  BY <1>1, <1>2

\* %queue! adds a pair at the end.
LEMMA AddLastCorrect ==
  ASSUME PairType, NEW c, Chain(c), NEW x \in Items, AddLast(x)
  PROVE  /\ PairType' /\ \E e : Chain(e)'
         /\ Contents' = Append(Contents, x)
<1>1. /\ Contents \in Seq(Items \cup {None})
      /\ Len(Contents) = Len(c) /\ Len(c) \in Nat /\ element_count = Len(c)
      /\ \A i \in 1..Len(c) : Contents[i] = car[c[i]] /\ c[i] \in Pairs
      /\ InUse = {c[i] : i \in 1..Len(c)}
  BY ContentsType
<1>2. PICK new \in Pairs \ InUse :
        /\ car' = [car EXCEPT ![new] = x]
        /\ cdr' = [p \in Pairs |-> IF p = last_pair THEN new
                                   ELSE IF p = new THEN None ELSE cdr[p]]
        /\ last_pair' = new
        /\ first_pair' = IF first_pair = None THEN new ELSE first_pair
        /\ element_count' = element_count + 1
  BY DEF AddLast
<1> DEFINE e == Append(c, new)
<1>3. /\ e \in Seq(Pairs) /\ Len(e) = Len(c) + 1 /\ e[Len(c) + 1] = new
      /\ \A i \in 1..Len(c) : e[i] = c[i] /\ c[i] # new /\ c[i] \in Pairs
  BY <1>1, <1>2 DEF Chain
<1> HIDE DEF e
<1>4. PairType'
  BY <1>2 DEF PairType
<1>5. None \notin Pairs /\ new # last_pair
  BY <1>1, <1>2, <1>3, QueueAssumption DEF Chain
<1>6. \A i, j \in 1..Len(e) : e[i] = e[j] => i = j
  <2>1. ASSUME NEW i \in 1..Len(e), NEW j \in 1..Len(e), e[i] = e[j]
        PROVE  i = j
    <3>1. CASE i \in 1..Len(c) /\ j \in 1..Len(c)
      BY <1>3, <2>1, <3>1 DEF Chain
    <3>2. CASE ~(i \in 1..Len(c) /\ j \in 1..Len(c))
      BY <1>1, <1>3, <2>1, <3>2
    <3>3. QED
      BY <3>1, <3>2
  <2>2. QED
    BY <2>1
<1>7. ASSUME NEW i \in 1..(Len(e) - 1) PROVE cdr'[e[i]] = e[i + 1]
  <2>1. i \in 1..Len(c) /\ c # << >> /\ e[i] = c[i] /\ Len(c) \in 1..Len(c)
    BY <1>1, <1>3
  <2>2. CASE i = Len(c)
    BY <1>2, <1>3, <2>1, <2>2 DEF Chain
  <2>3. CASE i # Len(c)
    <3>1. c[i] # last_pair /\ cdr[c[i]] = c[i + 1] /\ i + 1 \in 1..Len(c)
      BY <1>1, <2>1, <2>3 DEF Chain
    <3>2. QED
      BY <1>2, <1>3, <2>1, <3>1
  <2>4. QED
    BY <2>2, <2>3
<1>8. e # << >> /\ first_pair' = e[1] /\ last_pair' = e[Len(e)]
      /\ cdr'[last_pair'] = None
  <2>1. e # << >> /\ last_pair' = e[Len(e)] /\ cdr'[last_pair'] = None
    BY <1>1, <1>2, <1>3, <1>5
  <2>2. CASE c = << >>
    BY <1>1, <1>2, <1>3, <2>1, <2>2 DEF Chain
  <2>3. CASE c # << >>
    <3>1. 1 \in 1..Len(c) /\ first_pair = c[1] /\ first_pair # None
      BY <1>1, <1>5, <2>3 DEF Chain
    <3>2. QED
      BY <1>2, <1>3, <2>1, <3>1
  <2>4. QED
    BY <2>2, <2>3
<1>9. Chain(e)'
  BY <1>1, <1>2, <1>3, <1>6, <1>7, <1>8 DEF Chain
<1> DEFINE r == Append(Contents, x)
<1>10. /\ r \in Seq(Items \cup {None}) /\ Len(r) = Len(e)
       /\ \A i \in 1..Len(e) : r[i] = car'[e[i]]
  <2>1. r \in Seq(Items \cup {None}) /\ Len(r) = Len(c) + 1
        /\ r[Len(c) + 1] = x /\ \A i \in 1..Len(c) : r[i] = Contents[i]
    BY <1>1
  <2>2. \A i \in 1..Len(c) : car'[e[i]] = car[c[i]]
    BY <1>2, <1>3 DEF PairType
  <2>3. car'[e[Len(c) + 1]] = x
    BY <1>2, <1>3 DEF PairType
  <2>4. \A i \in 1..Len(e) : i \in 1..Len(c) \/ i = Len(c) + 1
    BY <1>1, <1>3
  <2> HIDE DEF r
  <2>5. QED
    BY <1>1, <1>3, <2>1, <2>2, <2>3, <2>4
<1>11. Contents' = r
  <2> HIDE DEF r
  <2>1. QED
    BY <1>4, <1>9, <1>10, ContentsNext
<1>12. QED
  BY <1>4, <1>9, <1>11
\* %dequeue! takes the first pair out.
LEMMA TakeFirstCorrect ==
  ASSUME PairType, NEW c, Chain(c), element_count # 0, TakeFirst
  PROVE  /\ PairType' /\ \E e : Chain(e)'
         /\ Contents # << >> /\ Contents' = Tail(Contents)
<1>1. /\ Contents \in Seq(Items \cup {None})
      /\ Len(Contents) = Len(c) /\ Len(c) \in Nat \ {0} /\ element_count = Len(c)
      /\ \A i \in 1..Len(c) : Contents[i] = car[c[i]] /\ c[i] \in Pairs
      /\ Contents # << >>
  BY ContentsType
<1>2. /\ c \in Seq(Pairs) /\ c # << >> /\ None \notin Pairs
      /\ 1 \in 1..Len(c) /\ Len(c) \in 1..Len(c)
      /\ first_pair = c[1] /\ last_pair = c[Len(c)] /\ cdr[last_pair] = None
      /\ first_pair \in Pairs
  BY <1>1, QueueAssumption DEF Chain
<1> DEFINE e == Tail(c)
<1>3. /\ e \in Seq(Pairs) /\ Len(e) = Len(c) - 1
      /\ \A i \in 1..Len(e) : i + 1 \in 1..Len(c) /\ e[i] = c[i + 1]
  BY <1>1, <1>2
<1> HIDE DEF e
<1>4. \A i \in 1..Len(e) : e[i] # first_pair
  BY <1>2, <1>3 DEF Chain
<1>5. /\ PairType' /\ element_count' = Len(e)
      /\ \A p \in Pairs \ {first_pair} : car'[p] = car[p] /\ cdr'[p] = cdr[p]
  BY <1>1, <1>2, <1>3 DEF TakeFirst, PairType
<1>6. \A i, j \in 1..Len(e) : e[i] = e[j] => i = j
  <2>1. ASSUME NEW i \in 1..Len(e), NEW j \in 1..Len(e), e[i] = e[j]
        PROVE  i = j
    <3>1. i + 1 = j + 1
      BY <1>3, <2>1 DEF Chain
    <3>2. QED
      BY <1>1, <1>3, <3>1
  <2>2. QED
    BY <2>1
<1>7. ASSUME NEW i \in 1..(Len(e) - 1) PROVE cdr'[e[i]] = e[i + 1]
  <2>1. /\ i \in 1..Len(e) /\ i + 1 \in 1..Len(e) /\ i + 1 \in 1..(Len(c) - 1)
    BY <1>1, <1>3
  <2>2. cdr[c[i + 1]] = c[i + 2] /\ e[i] = c[i + 1] /\ e[i + 1] = c[i + 2]
    <3>1. (i + 1) + 1 = i + 2
      OBVIOUS
    <3>2. QED
      BY <1>3, <2>1, <3>1 DEF Chain
  <2>3. e[i] \in Pairs \ {first_pair}
    BY <1>3, <1>4, <2>1
  <2>4. QED
    BY <1>5, <2>2, <2>3
<1>8. ASSUME Len(c) = 1
      PROVE  e = << >> /\ first_pair' = None /\ last_pair' = None
  <2>1. first_pair = last_pair /\ first_pair' = None /\ last_pair' = None
    BY <1>2, <1>8 DEF TakeFirst
  <2>2. e = << >>
    BY <1>3, <1>8
  <2>3. QED
    BY <2>1, <2>2
<1>9. ASSUME Len(c) # 1
      PROVE  /\ e # << >> /\ first_pair' = e[1] /\ last_pair' = e[Len(e)]
             /\ cdr'[last_pair'] = None
  <2>1. /\ 1 \in 1..Len(e) /\ Len(e) \in 1..Len(e) /\ e # << >>
        /\ e[1] = c[2] /\ e[Len(e)] = c[Len(c)] /\ 1 \in 1..(Len(c) - 1)
    BY <1>1, <1>3, <1>9
  <2>2. first_pair # last_pair /\ cdr[first_pair] = c[2]
    <3>1. cdr[c[1]] = c[1 + 1]
      BY <2>1 DEF Chain
    <3>2. QED
      BY <1>2, <1>9, <3>1 DEF Chain
  <2>3. first_pair' = e[1] /\ last_pair' = e[Len(e)]
    BY <1>2, <2>1, <2>2 DEF TakeFirst
  <2>4. cdr'[last_pair'] = None
    <3>1. last_pair' = last_pair /\ last_pair \in Pairs \ {first_pair}
      BY <1>1, <1>2, <2>1, <2>2, <2>3
    <3>2. QED
      BY <1>2, <1>5, <3>1
  <2>5. QED
    BY <2>1, <2>3, <2>4
<1>10. Chain(e)'
  BY <1>3, <1>5, <1>6, <1>7, <1>8, <1>9 DEF Chain
<1> DEFINE r == Tail(Contents)
<1>11. /\ r \in Seq(Items \cup {None}) /\ Len(r) = Len(e)
       /\ \A i \in 1..Len(e) : r[i] = car'[e[i]]
  <2>1. r \in Seq(Items \cup {None}) /\ Len(r) = Len(c) - 1
        /\ \A i \in 1..(Len(c) - 1) : r[i] = Contents[i + 1]
    BY <1>1
  <2>2. \A i \in 1..Len(e) : e[i] \in Pairs \ {first_pair}
    BY <1>3, <1>4
  <2>3. \A i \in 1..Len(e) : car'[e[i]] = car[c[i + 1]]
    BY <1>3, <1>5, <2>2
  <2> HIDE DEF r
  <2>4. QED
    BY <1>1, <1>3, <2>1, <2>3
<1>12. Contents' = r
  <2> HIDE DEF r
  <2>1. QED
    BY <1>5, <1>10, <1>11, ContentsNext
<1>13. QED
  BY <1>1, <1>5, <1>10, <1>12

\* The sequence with one item in front.
LEMMA InFront ==
  ASSUME NEW X, NEW x \in X, NEW s \in Seq(X)
  PROVE  /\ <<x>> \o s \in Seq(X) /\ Len(<<x>> \o s) = Len(s) + 1
         /\ Len(s) \in Nat
         /\ (<<x>> \o s)[1] = x
         /\ \A i \in 1..Len(s) : (<<x>> \o s)[i + 1] = s[i]
OBVIOUS

\* %push! adds a pair in front.
LEMMA AddFirstCorrect ==
  ASSUME PairType, NEW c, Chain(c), NEW x \in Items, AddFirst(x)
  PROVE  /\ PairType' /\ \E e : Chain(e)'
         /\ Contents' = <<x>> \o Contents
<1>1. /\ Contents \in Seq(Items \cup {None})
      /\ Len(Contents) = Len(c) /\ Len(c) \in Nat /\ element_count = Len(c)
      /\ \A i \in 1..Len(c) : Contents[i] = car[c[i]] /\ c[i] \in Pairs
      /\ InUse = {c[i] : i \in 1..Len(c)}
  BY ContentsType
<1>2. PICK new \in Pairs \ InUse :
        /\ car' = [car EXCEPT ![new] = x]
        /\ cdr' = [cdr EXCEPT ![new] = first_pair]
        /\ first_pair' = new
        /\ last_pair' = IF last_pair = None THEN new ELSE last_pair
        /\ element_count' = element_count + 1
  BY DEF AddFirst
<1>3. c \in Seq(Pairs) /\ new \in Pairs /\ None \notin Pairs
  BY QueueAssumption DEF Chain
<1>4. PICK e : e = <<new>> \o c
  OBVIOUS
<1>5. /\ e \in Seq(Pairs) /\ Len(e) = Len(c) + 1 /\ e[1] = new
      /\ \A i \in 1..Len(c) : e[i + 1] = c[i]
  BY <1>3, <1>4, InFront
<1>6. /\ PairType' /\ cdr'[new] = first_pair /\ car'[new] = x
      /\ \A i \in 1..Len(c) : c[i] \in Pairs \ {new}
      /\ \A p \in Pairs \ {new} : cdr'[p] = cdr[p] /\ car'[p] = car[p]
  BY <1>1, <1>2, <1>3 DEF PairType, Chain
<1>7. \A i \in 1..Len(e) : i = 1 \/ (i - 1 \in 1..Len(c) /\ e[i] = c[i - 1])
  <2>1. ASSUME NEW i \in 1..Len(e), i # 1
        PROVE  i - 1 \in 1..Len(c) /\ e[i] = c[i - 1]
    <3>1. i - 1 \in 1..Len(c) /\ (i - 1) + 1 = i
      BY <1>1, <1>5, <2>1
    <3>2. QED
      BY <1>5, <3>1
  <2>2. QED
    BY <2>1
<1>8. \A i, j \in 1..Len(e) : e[i] = e[j] => i = j
  <2>1. ASSUME NEW i \in 1..Len(e), NEW j \in 1..Len(e), e[i] = e[j]
        PROVE  i = j
    <3>1. CASE i # 1 /\ j # 1
      <4>1. i - 1 = j - 1
        BY <1>7, <2>1, <3>1 DEF Chain
      <4>2. QED
        BY <1>1, <1>5, <4>1
    <3>2. CASE i = 1 \/ j = 1
      BY <1>5, <1>6, <1>7, <2>1, <3>2
    <3>3. QED
      BY <3>1, <3>2
  <2>2. QED
    BY <2>1
<1>9. ASSUME NEW i \in 1..(Len(e) - 1) PROVE cdr'[e[i]] = e[i + 1]
  <2>1. i \in 1..Len(c) /\ i \in 1..Len(e) /\ e[i + 1] = c[i] /\ c # << >>
    BY <1>1, <1>5
  <2>2. CASE i = 1
    BY <1>5, <1>6, <2>1, <2>2 DEF Chain
  <2>3. CASE i # 1
    <3>1. i - 1 \in 1..(Len(c) - 1) /\ (i - 1) + 1 = i /\ i - 1 \in 1..Len(c)
      BY <1>1, <2>1, <2>3
    <3>2. cdr[c[i - 1]] = c[i] /\ e[i] = c[i - 1]
      BY <1>7, <2>1, <2>3, <3>1 DEF Chain
    <3>3. QED
      BY <1>6, <2>1, <3>1, <3>2
  <2>4. QED
    BY <2>2, <2>3
<1>10. e # << >> /\ first_pair' = e[1] /\ last_pair' = e[Len(e)]
       /\ cdr'[last_pair'] = None
  <2>1. CASE c = << >>
    BY <1>1, <1>2, <1>5, <1>6, <2>1 DEF Chain
  <2>2. CASE c # << >>
    <3>1. /\ Len(c) \in 1..Len(c) /\ last_pair = c[Len(c)] /\ last_pair # None
          /\ cdr[last_pair] = None /\ Len(e) - 1 = Len(c) /\ Len(e) \in 1..Len(e)
          /\ Len(e) # 1
      BY <1>1, <1>3, <1>5, <2>2 DEF Chain
    <3>2. QED
      BY <1>2, <1>5, <1>6, <1>7, <3>1
  <2>3. QED
    BY <2>1, <2>2
<1>11. Chain(e)'
  BY <1>1, <1>2, <1>5, <1>8, <1>9, <1>10 DEF Chain
<1>12. PICK r : r = <<x>> \o Contents
  OBVIOUS
<1>13. /\ r \in Seq(Items \cup {None}) /\ Len(r) = Len(e)
       /\ \A i \in 1..Len(e) : r[i] = car'[e[i]]
  <2>1. /\ r \in Seq(Items \cup {None}) /\ Len(r) = Len(c) + 1
        /\ r[1] = x /\ \A i \in 1..Len(c) : r[i + 1] = Contents[i]
    BY <1>1, <1>12, InFront
  <2>2. ASSUME NEW i \in 1..Len(e) PROVE r[i] = car'[e[i]]
    <3>1. CASE i = 1
      BY <1>5, <1>6, <2>1, <3>1
    <3>2. CASE i # 1
      <4>1. i - 1 \in 1..Len(c) /\ e[i] = c[i - 1] /\ (i - 1) + 1 = i
        BY <1>1, <1>5, <1>7, <3>2
      <4>2. r[i] = Contents[i - 1]
        BY <2>1, <4>1
      <4>3. QED
        BY <1>1, <1>6, <4>1, <4>2
    <3>3. QED
      BY <3>1, <3>2
  <2>3. QED
    BY <1>5, <2>1, <2>2
<1>14. Contents' = r
  BY <1>6, <1>11, <1>13, ContentsNext
<1>15. QED
  BY <1>6, <1>11, <1>12, <1>14

\* push! on a full queue: the last pair moves to the front.
LEMMA RotateCorrect ==
  ASSUME PairType, NEW c, Chain(c), NEW x \in Items, Rotate(x)
  PROVE  /\ PairType' /\ (\E e : Chain(e)') /\ UNCHANGED element_count
         /\ Len(Contents) \in Nat \ {0}
         /\ Contents' = <<x>> \o SubSeq(Contents, 1, Len(Contents) - 1)
<1>1. /\ Contents \in Seq(Items \cup {None})
      /\ Len(Contents) = Len(c) /\ Len(c) \in Nat /\ element_count = Len(c)
      /\ \A i \in 1..Len(c) : Contents[i] = car[c[i]] /\ c[i] \in Pairs
      /\ InUse = {c[i] : i \in 1..Len(c)}
  BY ContentsType
<1>2. PICK p \in Pairs :
        /\ p \in InUse /\ cdr[p] = last_pair
        /\ car' = [car EXCEPT ![last_pair] = x]
        /\ cdr' = [cdr EXCEPT ![p] = None, ![last_pair] = first_pair]
        /\ last_pair' = p
        /\ first_pair' = last_pair
        /\ UNCHANGED element_count
  BY DEF Rotate, IsBeforeLast
<1>3. PICK k \in 1..Len(c) : p = c[k]
  BY <1>1, <1>2
<1>4. PICK n \in Nat : n = Len(c) - 1
  BY <1>1, <1>3
<1>5. /\ c \in Seq(Pairs) /\ c # << >> /\ Len(c) = n + 1 /\ n + 1 \in 1..Len(c)
      /\ first_pair = c[1] /\ last_pair = c[n + 1] /\ cdr[last_pair] = None
      /\ None \notin Pairs /\ last_pair \in Pairs
  BY <1>1, <1>3, <1>4, QueueAssumption DEF Chain
\* the pair before the last one is where before-last finds it
<1>6. k = n /\ n \in 1..Len(c) /\ p # last_pair
  <2>1. k # n + 1
    BY <1>2, <1>3, <1>5
  <2>2. k \in 1..(Len(c) - 1) /\ k + 1 \in 1..Len(c)
    BY <1>3, <1>5, <2>1
  <2>3. c[k + 1] = c[n + 1]
    BY <1>2, <1>3, <1>5, <2>2 DEF Chain
  <2>4. k + 1 = n + 1
    BY <1>5, <2>2, <2>3 DEF Chain
  <2>5. k = n
    BY <1>3, <1>4, <2>4
  <2>6. c[n] # c[n + 1]
    BY <1>3, <1>4, <1>5, <2>5 DEF Chain
  <2>7. QED
    BY <1>3, <1>5, <2>5, <2>6
<1>7. PICK f : f = SubSeq(c, 1, n)
  OBVIOUS
<1>8. f \in Seq(Pairs) /\ Len(f) = n /\ \A i \in 1..n : f[i] = c[i] /\ i \in 1..Len(c)
  BY <1>4, <1>5, <1>7
<1>9. PICK e : e = <<last_pair>> \o f
  OBVIOUS
<1>10. /\ e \in Seq(Pairs) /\ Len(e) = n + 1 /\ e[1] = last_pair
       /\ \A i \in 1..n : e[i + 1] = c[i] /\ c[i] \in Pairs \ {last_pair}
  <2>1. /\ e \in Seq(Pairs) /\ Len(e) = n + 1 /\ e[1] = last_pair
        /\ \A i \in 1..n : e[i + 1] = f[i]
    BY <1>5, <1>8, <1>9, InFront
  <2>2. \A i \in 1..n : c[i] # c[n + 1]
    BY <1>4, <1>5, <1>8 DEF Chain
  <2>3. QED
    BY <1>1, <1>5, <1>8, <2>1, <2>2
<1>11. \A i \in 1..Len(e) : i = 1 \/ (i - 1 \in 1..n /\ e[i] = c[i - 1])
  <2>1. ASSUME NEW i \in 1..Len(e), i # 1
        PROVE  i - 1 \in 1..n /\ e[i] = c[i - 1]
    <3>1. i - 1 \in 1..n /\ (i - 1) + 1 = i
      BY <1>4, <1>10, <2>1
    <3>2. QED
      BY <1>10, <3>1
  <2>2. QED
    BY <2>1
<1>12. /\ PairType' /\ cdr'[last_pair] = first_pair /\ car'[last_pair] = x
       /\ cdr'[p] = None
       /\ \A q \in Pairs \ {last_pair} :
            car'[q] = car[q] /\ (q # p => cdr'[q] = cdr[q])
  <2>1. first_pair \in Pairs
    BY <1>5, <1>8 DEF Chain
  <2>2. QED
    BY <1>2, <1>5, <1>6, <2>1 DEF PairType
<1>13. \A i, j \in 1..Len(e) : e[i] = e[j] => i = j
  <2>1. ASSUME NEW i \in 1..Len(e), NEW j \in 1..Len(e), e[i] = e[j]
        PROVE  i = j
    <3>1. CASE i # 1 /\ j # 1
      <4>1. i - 1 = j - 1
        BY <1>8, <1>11, <2>1, <3>1 DEF Chain
      <4>2. QED
        BY <1>10, <4>1
    <3>2. ASSUME NEW q \in 1..Len(e), e[q] = last_pair PROVE q = 1
      BY <1>10, <1>11, <3>2
    <3>3. CASE i = 1
      <4>1. e[j] = last_pair
        BY <1>10, <2>1, <3>3
      <4>2. QED
        BY <3>2, <3>3, <4>1
    <3>4. CASE j = 1
      <4>1. e[i] = last_pair
        BY <1>10, <2>1, <3>4
      <4>2. QED
        BY <3>2, <3>4, <4>1
    <3>5. QED
      BY <3>1, <3>3, <3>4
  <2>2. QED
    BY <2>1
<1>14. ASSUME NEW i \in 1..(Len(e) - 1) PROVE cdr'[e[i]] = e[i + 1]
  <2>1. i \in 1..n /\ i \in 1..Len(e) /\ e[i + 1] = c[i]
    BY <1>4, <1>10
  <2>2. CASE i = 1
    BY <1>5, <1>10, <1>12, <2>1, <2>2
  <2>3. CASE i # 1
    <3>1. /\ i - 1 \in 1..n /\ i - 1 \in 1..(Len(c) - 1) /\ (i - 1) + 1 = i
          /\ i - 1 # n /\ e[i] = c[i - 1]
      BY <1>4, <1>5, <1>11, <2>1, <2>3
    <3>2. cdr[c[i - 1]] = c[i] /\ c[i - 1] # p
      BY <1>3, <1>6, <1>8, <3>1 DEF Chain
    <3>3. QED
      BY <1>10, <1>12, <2>1, <3>1, <3>2
  <2>4. QED
    BY <2>2, <2>3
<1>15. e # << >> /\ first_pair' = e[1] /\ last_pair' = e[Len(e)]
       /\ cdr'[last_pair'] = None
  <2>1. n \in 1..n /\ e # << >>
    BY <1>4, <1>6, <1>10
  <2>2. QED
    BY <1>2, <1>3, <1>6, <1>10, <1>12, <2>1
<1>16. Chain(e)'
  BY <1>1, <1>2, <1>5, <1>10, <1>13, <1>14, <1>15 DEF Chain
<1>17. PICK s : s = SubSeq(Contents, 1, n)
  OBVIOUS
<1>18. /\ s \in Seq(Items \cup {None}) /\ Len(s) = n
       /\ \A i \in 1..n : s[i] = Contents[i]
  BY <1>1, <1>4, <1>17
<1>19. PICK r : r = <<x>> \o s
  OBVIOUS
<1>20. /\ r \in Seq(Items \cup {None}) /\ Len(r) = Len(e)
       /\ \A i \in 1..Len(e) : r[i] = car'[e[i]]
  <2>1. /\ r \in Seq(Items \cup {None}) /\ Len(r) = n + 1
        /\ r[1] = x /\ \A i \in 1..n : r[i + 1] = s[i]
    BY <1>18, <1>19, InFront
  <2>2. ASSUME NEW i \in 1..Len(e) PROVE r[i] = car'[e[i]]
    <3>1. CASE i = 1
      BY <1>10, <1>12, <2>1, <3>1
    <3>2. CASE i # 1
      <4>1. i - 1 \in 1..n /\ e[i] = c[i - 1] /\ (i - 1) + 1 = i
        BY <1>10, <1>11, <3>2
      <4>2. r[i] = s[i - 1]
        BY <2>1, <4>1
      <4>3. s[i - 1] = car[c[i - 1]]
        BY <1>1, <1>8, <1>18, <4>1
      <4>4. QED
        BY <1>10, <1>12, <4>1, <4>2, <4>3
    <3>3. QED
      BY <3>1, <3>2
  <2>3. QED
    BY <1>10, <2>1, <2>2
<1>21. Contents' = r
  BY <1>12, <1>16, <1>20, ContentsNext
<1>22. Contents' = <<x>> \o SubSeq(Contents, 1, Len(Contents) - 1)
  BY <1>1, <1>4, <1>17, <1>19, <1>21
<1>23. QED
  BY <1>1, <1>2, <1>3, <1>12, <1>16, <1>22

\* Steps that do not touch the pairs.
LEMMA PairsUnchanged ==
  ASSUME PairsOK, UNCHANGED pairVars
  PROVE  PairsOK' /\ UNCHANGED Contents
<1>1. PICK c : Chain(c)
  BY DEF PairsOK
<1>2. PairType' /\ Chain(c)'
  BY <1>1 DEF PairsOK, PairType, Chain, pairVars
<1>3. PairsOK'
  BY <1>2 DEF PairsOK, pairVars
<1>4. /\ Contents \in Seq(Items \cup {None}) /\ Len(Contents) = Len(c)
      /\ \A i \in 1..Len(c) : Contents[i] = car'[c[i]]
  BY <1>1, ContentsType DEF PairsOK, pairVars
<1>5. PICK r : r = Contents
  OBVIOUS
<1>6. Contents' = r
  BY <1>2, <1>4, <1>5, ContentsNext
<1>7. QED
  BY <1>3, <1>5, <1>6

(***************************************************************************)
(* The calls.                                                              *)
(***************************************************************************)

InCall(t) == pc[t] \in {"lock", "unlocked", "suspended"}

CallType ==
  /\ pc \in [Threads -> {"idle", "lock", "unlocked", "suspended", "dead"}]
  /\ op \in [Threads -> AllOps \cup {None}]
  /\ item \in [Threads -> Items \cup {None}]
  /\ waiting_queuers \in Seq(Threads)
  /\ waiting_dequeuers \in Seq(Threads)
  /\ pending \in SUBSET Threads

\* A thread that calls queue!, queue-no-hang! or push! has an item to add.
ItemOK ==
  \A t \in Threads :
    InCall(t) /\ op[t] \in {"queue", "queue_no_hang", "push"} => item[t] \in Items

LEMMA AfterResumeType ==
  ASSUME NEW list \in Seq(Threads)
  PROVE  AfterResume(list) \in Seq(Threads)
BY DEF AfterResume

LEMMA ReachedType ==
  ASSUME NEW list \in Seq(Threads)
  PROVE  Reached(list) \subseteq Threads
BY DEF Reached

LEMMA ReturnType ==
  ASSUME CallType, ItemOK, NEW t \in Threads, NEW s \in SUBSET Threads,
         Return(t, s), waiting_queuers' \in Seq(Threads),
         waiting_dequeuers' \in Seq(Threads)
  PROVE  CallType' /\ ItemOK'
BY DEF CallType, ItemOK, Return, InCall, AllOps

LEMMA BodyType ==
  ASSUME CallType, ItemOK, NEW t \in Threads, Body(t)
  PROVE  CallType' /\ ItemOK'
<1> DEFINE q == waiting_queuers
           d == waiting_dequeuers
<1>1. /\ q \in Seq(Threads) /\ d \in Seq(Threads)
      /\ AfterResume(q) \in Seq(Threads) /\ AfterResume(d) \in Seq(Threads)
      /\ Reached(q) \in SUBSET Threads /\ Reached(d) \in SUBSET Threads
      /\ {} \in SUBSET Threads
      /\ Append(q, t) \in Seq(Threads) /\ Append(d, t) \in Seq(Threads)
  BY AfterResumeType, ReachedType DEF CallType
<1>2. CASE Queue(t) \/ Push(t)
  BY <1>1, <1>2, ReturnType DEF Queue, Push
<1>3. CASE Dequeue(t) \/ EmptyQueue(t)
  BY <1>1, <1>3, ReturnType DEF Dequeue, EmptyQueue
<1>4. CASE QueueFull(t) \/ Peek(t) \/ TimedOut(t)
  BY <1>1, <1>4, ReturnType DEF QueueFull, Peek, TimedOut, waitVars
<1>5. CASE QueueWait(t) \/ DequeueWait(t) \/ TimedWait(t)
  <2>1. /\ pc[t] = "lock" /\ pc' = [pc EXCEPT ![t] = "unlocked"]
        /\ UNCHANGED <<op, item, pending>>
        /\ waiting_queuers' \in {q, Append(q, t)}
        /\ waiting_dequeuers' \in {d, Append(d, t)}
    BY <1>5 DEF QueueWait, DequeueWait, TimedWait, Unlock, Locked, callVars
  <2>2. CallType'
    BY <1>1, <2>1 DEF CallType
  <2>3. ItemOK'
    BY <2>1 DEF CallType, ItemOK, InCall
  <2>4. QED
    BY <2>2, <2>3
<1>6. QED
  BY <1>2, <1>3, <1>4, <1>5 DEF Body

LEMMA CallsKeep ==
  ASSUME CallType, ItemOK, NEW t \in Threads, Calls(t)
  PROVE  CallType' /\ ItemOK'
<1>1. PICK o \in AllOps, x \in Items \cup {None} :
        /\ Call(t, o, x)
        /\ o \in {"queue", "queue_no_hang", "push"} => x \in Items
  BY DEF Calls, AllOps
<1>2. /\ UNCHANGED <<waiting_queuers, waiting_dequeuers, pending>>
      /\ pc' = [pc EXCEPT ![t] = "lock"]
      /\ op' = [op EXCEPT ![t] = o]
      /\ item' = [item EXCEPT ![t] = x]
  BY <1>1 DEF Call, waitVars
<1>3. CallType'
  BY <1>2 DEF CallType
<1>4. ASSUME NEW v \in Threads, InCall(v)',
             op'[v] \in {"queue", "queue_no_hang", "push"}
      PROVE  item'[v] \in Items
  <2>1. CASE v = t
    BY <1>1, <1>2, <1>4, <2>1 DEF CallType
  <2>2. CASE v # t
    BY <1>2, <1>4, <2>2 DEF CallType, ItemOK, InCall
  <2>3. QED
    BY <2>1, <2>2
<1>5. QED
  BY <1>3, <1>4 DEF ItemOK

LEMMA OthersKeep ==
  ASSUME CallType, ItemOK, NEW t \in Threads,
         \/ Suspend(t) \/ Resume(t) \/ OtherEvent(t) \/ TimePasses(t) \/ Exit(t)
  PROVE  CallType' /\ ItemOK' /\ UNCHANGED <<pairVars, waitVars, callVars>>
<1>1. /\ UNCHANGED <<pairVars, waitVars, callVars>>
      /\ pending' \in SUBSET Threads
      /\ \/ pc' = pc
         \/ InCall(t) /\ pc' = [pc EXCEPT ![t] = "lock"]
         \/ InCall(t) /\ pc' = [pc EXCEPT ![t] = "suspended"]
         \/ pc' = [pc EXCEPT ![t] = "dead"]
  BY DEF CallType, Suspend, Resume, OtherEvent, TimePasses, Exit, InCall
<1>2. CallType'
  BY <1>1 DEF CallType, waitVars, callVars
<1>3. ItemOK'
  BY <1>1 DEF CallType, ItemOK, InCall, callVars
<1>4. QED
  BY <1>1, <1>2, <1>3
(***************************************************************************)
(* The pairs implement the bounded sequence.                               *)
(***************************************************************************)

PairsInv == CallType /\ ItemOK /\ PairsOK

\* Every operation keeps the chain, and does to its contents what
\* BoundedQueue says.
LEMMA BodyCorrect ==
  ASSUME PairsInv, NEW t \in Threads, Body(t)
  PROVE  PairsOK' /\ (Abstract!Next \/ UNCHANGED Contents)
<1>1. PICK c : Chain(c)
  BY DEF PairsInv, PairsOK
<1>2. /\ PairType /\ Len(Contents) = element_count /\ element_count \in Nat
      /\ MaxElements = None \/ MaxElements \in Nat
      /\ MaxElements # None => element_count <= MaxElements
  BY <1>1, ContentsType, QueueAssumption DEF PairsInv, PairsOK
<1>3. Abstract!Full <=> Full
  BY <1>2 DEF Abstract!Full, Full
<1>4. CASE UNCHANGED pairVars
  BY <1>4, PairsUnchanged DEF PairsInv
<1>5. CASE Queue(t)
  <2>1. ~Full /\ AddLast(item[t]) /\ item[t] \in Items
    BY <1>5 DEF Queue, Locked, PairsInv, ItemOK, InCall
  <2>2. PairType' /\ (\E e : Chain(e)') /\ Contents' = Append(Contents, item[t])
    BY <1>1, <1>2, <2>1, AddLastCorrect
  <2>3. element_count' = element_count + 1
    BY <2>1 DEF AddLast
  <2>4. MaxElements # None => element_count' <= MaxElements
    BY <1>2, <2>1, <2>3 DEF Full
  <2>5. Abstract!Queue(item[t])
    BY <1>3, <2>1, <2>2 DEF Abstract!Queue
  <2>6. QED
    BY <2>1, <2>2, <2>4, <2>5 DEF PairsOK, Abstract!Next
<1>6. CASE Dequeue(t)
  <2>1. element_count # 0 /\ TakeFirst
    BY <1>6 DEF Dequeue, Empty
  <2>2. /\ PairType' /\ (\E e : Chain(e)')
        /\ Contents # << >> /\ Contents' = Tail(Contents)
    BY <1>1, <1>2, <2>1, TakeFirstCorrect
  <2>3. element_count' = element_count - 1
    BY <2>1 DEF TakeFirst
  <2>4. MaxElements # None => element_count' <= MaxElements
    BY <1>2, <2>1, <2>3
  <2>5. Abstract!Dequeue
    BY <2>2 DEF Abstract!Dequeue
  <2>6. QED
    BY <2>2, <2>4, <2>5 DEF PairsOK, Abstract!Next
<1>7. CASE Push(t) /\ ~UNCHANGED pairVars
  <2>1. item[t] \in Items
    BY <1>7 DEF Push, Locked, PairsInv, ItemOK, InCall
  <2>2. CASE ~Full /\ AddFirst(item[t])
    <3>1. /\ PairType' /\ (\E e : Chain(e)')
          /\ Contents' = <<item[t]>> \o Contents
      BY <1>1, <1>2, <2>1, <2>2, AddFirstCorrect
    <3>2. element_count' = element_count + 1
      BY <2>2 DEF AddFirst
    <3>3. MaxElements # None => element_count' <= MaxElements
      BY <1>2, <2>2, <3>2 DEF Full
    <3>4. Abstract!Push(item[t])
      BY <1>3, <2>2, <3>1 DEF Abstract!Push
    <3>5. QED
      BY <2>1, <3>1, <3>3, <3>4 DEF PairsOK, Abstract!Next
  <2>3. CASE Full /\ Rotate(item[t])
    <3>1. /\ PairType' /\ (\E e : Chain(e)') /\ UNCHANGED element_count
          /\ Contents' = <<item[t]>> \o SubSeq(Contents, 1, Len(Contents) - 1)
      BY <1>1, <1>2, <2>1, <2>3, RotateCorrect
    <3>2. Abstract!Push(item[t])
      BY <1>3, <2>3, <3>1 DEF Abstract!Push
    <3>3. QED
      BY <1>2, <2>1, <3>1, <3>2 DEF PairsOK, Abstract!Next
  <2>4. QED
    BY <1>7, <2>2, <2>3 DEF Push
<1>8. CASE EmptyQueue(t) /\ ~UNCHANGED pairVars
  <2>1. /\ first_pair' = None /\ last_pair' = None /\ element_count' = 0
        /\ car' = [p \in Pairs |-> None] /\ cdr' = [p \in Pairs |-> None]
    BY <1>8 DEF EmptyQueue
  <2>2. PairType' /\ Chain(<< >>)'
    BY <2>1 DEF PairType, Chain
  <2>3. Contents' = << >>
    BY <2>1 DEF Contents
  <2>4. Abstract!Empty
    BY <2>3 DEF Abstract!Empty
  <2>5. QED
    BY <1>2, <2>1, <2>2, <2>4 DEF PairsOK, Abstract!Next
<1>9. QED
  BY <1>4, <1>5, <1>6, <1>7, <1>8
     DEF Body, QueueFull, QueueWait, Peek, DequeueWait, TimedOut, TimedWait, Unlock

LEMMA PairsInitially ==
  ASSUME Init
  PROVE  PairsInv /\ Contents = << >>
<1>1. PairType /\ Chain(<< >>)
  BY DEF Init, PairType, Chain
<1>2. CallType /\ ItemOK
  BY DEF Init, CallType, ItemOK, InCall
<1>3. MaxElements # None => element_count <= MaxElements
  BY QueueAssumption DEF Init
<1>4. Contents = << >>
  BY DEF Init, Contents
<1>5. QED
  BY <1>1, <1>2, <1>3, <1>4 DEF PairsInv, PairsOK

LEMMA PairsStep ==
  ASSUME PairsInv, [Next]_vars
  PROVE  PairsInv' /\ (Abstract!Next \/ UNCHANGED Contents)
<1>1. CASE UNCHANGED vars
  <2>1. CallType' /\ ItemOK'
    BY <1>1 DEF vars, waitVars, callVars, PairsInv, CallType, ItemOK, InCall
  <2>2. UNCHANGED pairVars
    BY <1>1 DEF vars
  <2>3. QED
    BY <2>1, <2>2, PairsUnchanged DEF PairsInv
<1>2. ASSUME NEW t \in Threads, Calls(t)
      PROVE  PairsInv' /\ UNCHANGED Contents
  <2>1. UNCHANGED pairVars
    BY <1>2 DEF Calls, Call
  <2>2. QED
    BY <1>2, <2>1, CallsKeep, PairsUnchanged DEF PairsInv
<1>3. ASSUME NEW t \in Threads, Body(t)
      PROVE  PairsInv' /\ (Abstract!Next \/ UNCHANGED Contents)
  BY <1>3, BodyType, BodyCorrect DEF PairsInv
<1>4. ASSUME NEW t \in Threads,
             \/ Suspend(t) \/ Resume(t) \/ OtherEvent(t) \/ TimePasses(t)
             \/ Exit(t)
      PROVE  PairsInv' /\ UNCHANGED Contents
  BY <1>4, OthersKeep, PairsUnchanged DEF PairsInv
<1>5. QED
  BY <1>1, <1>2, <1>3, <1>4 DEF Next

LEMMA PairsInvariant == Spec => []PairsInv
<1>1. Init => PairsInv
  BY PairsInitially
<1>2. PairsInv /\ [Next]_vars => PairsInv'
  BY PairsStep
<1>3. QED
  BY <1>1, <1>2, PTL DEF Spec

\* QueueShape: whatever sequence of queue!, dequeue!, push! (with its rotation
\* of a full queue) and empty! the threads make, first-pair, last-pair,
\* element-count and the cdrs describe one chain of distinct pairs that
\* respects max-elements.
THEOREM QueueShapeCorrect == Spec => []QueueShape
<1>1. PairsInv => QueueShape
  <2> SUFFICES ASSUME PairsInv PROVE QueueShape
    OBVIOUS
  <2>1. PICK c : Chain(c)
    BY DEF PairsInv, PairsOK
  <2>2. /\ element_count = Len(c) /\ c \in Seq(Pairs) /\ Len(c) \in Nat
        /\ \A n \in 0..Len(c) : Follow[n] = IF n = Len(c) THEN None ELSE c[n + 1]
    <3>1. c \in Seq(Pairs) /\ Len(c) \in Nat
      BY <2>1 DEF Chain
    <3>2. QED
      BY <2>1, <3>1, ChainFacts DEF ChainDescribes, PairsInv, PairsOK
  <2>3. ASSUME NEW m \in 0..(element_count - 1), NEW n \in 0..(element_count - 1),
               m # n
        PROVE  Follow[m] # Follow[n]
    <3>1. /\ m + 1 \in 1..Len(c) /\ n + 1 \in 1..Len(c) /\ m + 1 # n + 1
          /\ Follow[m] = c[m + 1] /\ Follow[n] = c[n + 1]
      BY <2>2, <2>3
    <3>2. QED
      BY <2>1, <3>1 DEF Chain
  <2>4. CASE c = << >>
    BY <2>1, <2>2, <2>3, <2>4 DEF QueueShape, Chain, Empty, PairsInv, PairsOK
  <2>5. CASE c # << >>
    <3>1. /\ Len(c) # 0 /\ Len(c) - 1 \in 0..Len(c) /\ (Len(c) - 1) + 1 = Len(c)
          /\ c[1] \in Pairs /\ c[Len(c)] \in Pairs /\ None \notin Pairs
      BY <2>2, <2>5, QueueAssumption
    <3>2. Follow[element_count - 1] = c[Len(c)]
      BY <2>2, <3>1
    <3>3. QED
      BY <2>1, <2>2, <2>3, <2>5, <3>1, <3>2
         DEF QueueShape, Chain, Empty, PairsInv, PairsOK
  <2>6. QED
    BY <2>4, <2>5
<1>2. QED
  BY <1>1, PairsInvariant, PTL

\* RefinesBoundedQueue: seen through its contents, the list of pairs with its
\* counts is the bounded sequence of BoundedQueue: every step of every thread
\* queues, pushes, takes or empties, or leaves the contents alone.
THEOREM QueueRefines == Spec => RefinesBoundedQueue
<1>1. Init => Contents = << >>
  BY PairsInitially
<1>2. PairsInv /\ [Next]_vars => [Abstract!Next]_Contents
  BY PairsStep
<1>3. QED
  BY <1>1, <1>2, PairsInvariant, PTL DEF Spec, RefinesBoundedQueue, Abstract!Spec
(***************************************************************************)
(* The waiting threads.                                                    *)
(***************************************************************************)

Dequeuing == {"dequeue", "dequeue_until", "peek", "peek_until"}

In(v, list) == \E i \in 1..Len(list) : list[i] = v

\* A thread that waits, and that no event will restart, is in its list, and
\* there is nothing for it unless a thread before it has exited.
WaitersOK ==
  \A v \in Threads :
    /\ Waiting(v, Dequeuing) =>
         In(v, waiting_dequeuers) /\ (Empty \/ Behind(v, waiting_dequeuers))
    /\ Waiting(v, {"queue"}) =>
         In(v, waiting_queuers) /\ (Full \/ Behind(v, waiting_queuers))

\* A step of thread t: the others stay where they are, no event of theirs is
\* lost, and nobody comes back to life.
StepOf(t) ==
  /\ pc[t] # "dead"
  /\ \A v \in Threads \ {t} :
       pc'[v] = pc[v] /\ op'[v] = op[v] /\ (v \in pending => v \in pending')

\* Steps that do not resume the waiting threads of list: it may grow, and
\* what they wait for must not come.
LEMMA StillWaiting ==
  ASSUME NEW t \in Threads, NEW v \in Threads, StepOf(t), NEW ops,
         NEW list \in Seq(Threads), NEW next, NEW c \in BOOLEAN, NEW e \in BOOLEAN,
         Waiting(v, ops) => In(v, list) /\ (c \/ Behind(v, list)),
         v = t => (Waiting(v, ops)' => Waiting(v, ops)),
         c => e, next \in {list, Append(list, t)}
  PROVE  Waiting(v, ops)' => In(v, next) /\ (e \/ Behind(v, next)')
<1> SUFFICES ASSUME Waiting(v, ops)' PROVE In(v, next) /\ (e \/ Behind(v, next)')
  OBVIOUS
<1>1. Waiting(v, ops)
  <2>1. CASE v = t
    BY <2>1
  <2>2. CASE v # t
    BY <2>2 DEF StepOf, Waiting
  <2>3. QED
    BY <2>1, <2>2
<1>2. In(v, list) /\ (c \/ Behind(v, list))
  BY <1>1
<1>3. /\ Len(list) \in Nat /\ Len(next) \in Nat /\ Len(list) <= Len(next)
      /\ \A i \in 1..Len(list) : next[i] = list[i] /\ list[i] \in Threads
                                 /\ i \in 1..Len(next)
  OBVIOUS
<1>4. In(v, next)
  BY <1>2, <1>3 DEF In
<1>5. ASSUME Behind(v, list) PROVE Behind(v, next)'
  <2>1. PICK i \in 1..Len(list), j \in 1..Len(list) :
          i < j /\ pc[list[i]] = "dead" /\ list[j] = v
    BY <1>5 DEF Behind
  <2>2. pc'[list[i]] = "dead"
    BY <1>3, <2>1 DEF StepOf
  <2>3. /\ i \in 1..Len(next) /\ j \in 1..Len(next) /\ i < j
        /\ pc'[next[i]] = "dead" /\ next[j] = v
    BY <1>3, <2>1, <2>2
  <2>4. QED
    BY <2>3 DEF Behind
<1>6. QED
  BY <1>2, <1>4, <1>5

\* %resume-queuers and %resume-dequeuers: who is not signalled is behind a
\* thread that has exited, and stays in the list.
LEMMA Resumed ==
  ASSUME NEW t \in Threads, NEW v \in Threads, v # t, StepOf(t), NEW ops,
         NEW list \in Seq(Threads), NEW e \in BOOLEAN,
         Waiting(v, ops) => In(v, list),
         Reached(list) \ {t} \subseteq pending',
         NEW next, next = AfterResume(list)
  PROVE  Waiting(v, ops)' => In(v, next) /\ (e \/ Behind(v, next)')
<1> SUFFICES ASSUME Waiting(v, ops)' PROVE In(v, next) /\ Behind(v, next)'
  OBVIOUS
<1>1. Waiting(v, ops) /\ In(v, list) /\ v \notin pending'
      /\ pc[v] \in {"unlocked", "suspended"}
  BY DEF StepOf, Waiting
<1>2. v \notin Reached(list)
  BY <1>1
<1>3. PICK j \in 1..Len(list) : list[j] = v
  BY <1>1 DEF In
<1>4. PICK k \in 1..j : pc[list[k]] = "dead"
  BY <1>2, <1>3 DEF Reached
<1>5. k \in 1..Len(list) /\ k < j /\ list[k] \in Threads
  BY <1>1, <1>3, <1>4
<1>6. next = list
  BY <1>4, <1>5 DEF AfterResume
<1>7. pc'[list[k]] = "dead"
  BY <1>4, <1>5 DEF StepOf
<1>8. QED
  BY <1>1, <1>3, <1>5, <1>6, <1>7 DEF Behind

\* The waiting threads after a step of t that resumes none of them.
LEMMA QuietWaiters ==
  ASSUME CallType, WaitersOK, NEW t \in Threads, StepOf(t),
         UNCHANGED <<waiting_queuers, waiting_dequeuers>>,
         Empty => Empty', Full => Full',
         pc'[t] \in {"unlocked", "suspended"} /\ t \notin pending' =>
           /\ pc[t] \in {"unlocked", "suspended"} /\ t \notin pending
           /\ op'[t] = op[t]
  PROVE  WaitersOK'
<1>1. \A ops : Waiting(t, ops)' => Waiting(t, ops)
  BY DEF Waiting
<1>2. /\ waiting_dequeuers \in Seq(Threads) /\ waiting_queuers \in Seq(Threads)
      /\ Empty \in BOOLEAN /\ Full \in BOOLEAN
      /\ Empty' \in BOOLEAN /\ Full' \in BOOLEAN
  BY DEF CallType, Empty, Full
<1>3. ASSUME NEW v \in Threads
      PROVE  /\ Waiting(v, Dequeuing)' =>
                  /\ In(v, waiting_dequeuers)
                  /\ Empty' \/ Behind(v, waiting_dequeuers)'
             /\ Waiting(v, {"queue"})' =>
                  /\ In(v, waiting_queuers)
                  /\ Full' \/ Behind(v, waiting_queuers)'
  <2>1. PICK d, q, c, e, f, g : d = waiting_dequeuers /\ q = waiting_queuers
          /\ c = Empty /\ e = Empty' /\ f = Full /\ g = Full'
    OBVIOUS
  <2>2. /\ Waiting(v, Dequeuing) => In(v, d) /\ (c \/ Behind(v, d))
        /\ Waiting(v, {"queue"}) => In(v, q) /\ (f \/ Behind(v, q))
    BY <2>1 DEF WaitersOK
  <2>3. Waiting(v, Dequeuing)' => In(v, d) /\ (e \/ Behind(v, d)')
    BY <1>1, <1>2, <2>1, <2>2, StillWaiting
  <2>4. Waiting(v, {"queue"})' => In(v, q) /\ (g \/ Behind(v, q)')
    BY <1>1, <1>2, <2>1, <2>2, StillWaiting
  <2>5. QED
    BY <2>1, <2>3, <2>4 DEF Behind
<1>4. QED
  BY <1>3 DEF WaitersOK, In
\* A call ends after %resume-dequeuers.
LEMMA DequeuersResumed ==
  ASSUME CallType, WaitersOK, NEW t \in Threads, StepOf(t), pc'[t] = "idle",
         waiting_dequeuers' = AfterResume(waiting_dequeuers),
         Reached(waiting_dequeuers) \ {t} \subseteq pending',
         UNCHANGED waiting_queuers, Full => Full'
  PROVE  WaitersOK'
<1>1. \A ops : ~Waiting(t, ops)'
  BY DEF Waiting
<1>2. /\ waiting_dequeuers \in Seq(Threads) /\ waiting_queuers \in Seq(Threads)
      /\ Full \in BOOLEAN /\ Full' \in BOOLEAN /\ Empty' \in BOOLEAN
  BY DEF CallType, Full, Empty
<1>3. ASSUME NEW v \in Threads, v # t
      PROVE  /\ Waiting(v, Dequeuing)' =>
                  /\ In(v, waiting_dequeuers')
                  /\ Empty' \/ Behind(v, waiting_dequeuers)'
             /\ Waiting(v, {"queue"})' =>
                  /\ In(v, waiting_queuers)
                  /\ Full' \/ Behind(v, waiting_queuers)'
  <2>1. PICK d, n, q, e, f, g : d = waiting_dequeuers /\ q = waiting_queuers
          /\ n = AfterResume(d) /\ e = Empty' /\ f = Full /\ g = Full'
    OBVIOUS
  <2>2. /\ Waiting(v, Dequeuing) => In(v, d)
        /\ Waiting(v, {"queue"}) => In(v, q) /\ (f \/ Behind(v, q))
    BY <2>1 DEF WaitersOK
  <2>3. Waiting(v, Dequeuing)' => In(v, n) /\ (e \/ Behind(v, n)')
    BY <1>2, <1>3, <2>1, <2>2, Resumed
  <2>4. Waiting(v, {"queue"})' => In(v, q) /\ (g \/ Behind(v, q)')
    BY <1>2, <1>3, <2>1, <2>2, StillWaiting
  <2>5. n = waiting_dequeuers'
    BY <2>1
  <2>6. QED
    BY <2>1, <2>3, <2>4, <2>5 DEF Behind
<1>4. QED
  BY <1>1, <1>3 DEF WaitersOK, In

\* A call ends after %resume-queuers.
LEMMA QueuersResumed ==
  ASSUME CallType, WaitersOK, NEW t \in Threads, StepOf(t), pc'[t] = "idle",
         waiting_queuers' = AfterResume(waiting_queuers),
         Reached(waiting_queuers) \ {t} \subseteq pending',
         UNCHANGED waiting_dequeuers, Empty => Empty'
  PROVE  WaitersOK'
<1>1. \A ops : ~Waiting(t, ops)'
  BY DEF Waiting
<1>2. /\ waiting_dequeuers \in Seq(Threads) /\ waiting_queuers \in Seq(Threads)
      /\ Empty \in BOOLEAN /\ Full' \in BOOLEAN /\ Empty' \in BOOLEAN
  BY DEF CallType, Full, Empty
<1>3. ASSUME NEW v \in Threads, v # t
      PROVE  /\ Waiting(v, Dequeuing)' =>
                  /\ In(v, waiting_dequeuers)
                  /\ Empty' \/ Behind(v, waiting_dequeuers)'
             /\ Waiting(v, {"queue"})' =>
                  /\ In(v, waiting_queuers')
                  /\ Full' \/ Behind(v, waiting_queuers)'
  <2>1. PICK d, n, q, e, f, g : d = waiting_dequeuers /\ q = waiting_queuers
          /\ n = AfterResume(q) /\ e = Empty' /\ f = Empty /\ g = Full'
    OBVIOUS
  <2>2. /\ Waiting(v, Dequeuing) => In(v, d) /\ (f \/ Behind(v, d))
        /\ Waiting(v, {"queue"}) => In(v, q)
    BY <2>1 DEF WaitersOK
  <2>3. Waiting(v, Dequeuing)' => In(v, d) /\ (e \/ Behind(v, d)')
    BY <1>2, <1>3, <2>1, <2>2, StillWaiting
  <2>4. Waiting(v, {"queue"})' => In(v, n) /\ (g \/ Behind(v, n)')
    BY <1>2, <1>3, <2>1, <2>2, Resumed
  <2>5. n = waiting_queuers'
    BY <2>1
  <2>6. QED
    BY <2>1, <2>3, <2>4, <2>5 DEF Behind
<1>4. QED
  BY <1>1, <1>3 DEF WaitersOK, In

\* A thread joins a list, because there is nothing for it.
LEMMA WaiterAdded ==
  ASSUME CallType, WaitersOK, NEW t \in Threads, StepOf(t),
         \/ /\ op'[t] \in Dequeuing /\ Empty'
            /\ waiting_dequeuers' = Append(waiting_dequeuers, t)
            /\ UNCHANGED waiting_queuers
         \/ /\ op'[t] = "queue" /\ Full'
            /\ waiting_queuers' = Append(waiting_queuers, t)
            /\ UNCHANGED waiting_dequeuers,
         Empty => Empty', Full => Full'
  PROVE  WaitersOK'
<1>1. /\ waiting_dequeuers \in Seq(Threads) /\ waiting_queuers \in Seq(Threads)
      /\ Empty \in BOOLEAN /\ Full \in BOOLEAN
      /\ Empty' \in BOOLEAN /\ Full' \in BOOLEAN
  BY DEF CallType, Full, Empty
<1>2. ASSUME NEW v \in Threads, v # t
      PROVE  /\ Waiting(v, Dequeuing)' =>
                  /\ In(v, waiting_dequeuers')
                  /\ Empty' \/ Behind(v, waiting_dequeuers)'
             /\ Waiting(v, {"queue"})' =>
                  /\ In(v, waiting_queuers')
                  /\ Full' \/ Behind(v, waiting_queuers)'
  <2>1. PICK d, m, q, n, c, e, f, g :
          /\ d = waiting_dequeuers /\ m = waiting_dequeuers'
          /\ q = waiting_queuers /\ n = waiting_queuers'
          /\ c = Empty /\ e = Empty' /\ f = Full /\ g = Full'
    OBVIOUS
  <2>2. /\ Waiting(v, Dequeuing) => In(v, d) /\ (c \/ Behind(v, d))
        /\ Waiting(v, {"queue"}) => In(v, q) /\ (f \/ Behind(v, q))
        /\ m \in {d, Append(d, t)} /\ n \in {q, Append(q, t)}
    BY <2>1 DEF WaitersOK
  <2>3. Waiting(v, Dequeuing)' => In(v, m) /\ (e \/ Behind(v, m)')
    BY <1>1, <1>2, <2>1, <2>2, StillWaiting
  <2>4. Waiting(v, {"queue"})' => In(v, n) /\ (g \/ Behind(v, n)')
    BY <1>1, <1>2, <2>1, <2>2, StillWaiting
  <2>5. QED
    BY <2>1, <2>3, <2>4 DEF Behind
<1>3. /\ Waiting(t, Dequeuing)' => In(t, waiting_dequeuers') /\ Empty'
      /\ Waiting(t, {"queue"})' => In(t, waiting_queuers') /\ Full'
  <2>1. ASSUME NEW list \in Seq(Threads) PROVE In(t, Append(list, t))
    <3>1. /\ Len(list) + 1 \in 1..Len(Append(list, t))
          /\ Append(list, t)[Len(list) + 1] = t
      OBVIOUS
    <3>2. QED
      BY <3>1 DEF In
  <2>2. QED
    BY <1>1, <2>1 DEF Waiting, Dequeuing
<1>4. QED
  BY <1>2, <1>3 DEF WaitersOK, In

\* A call that ends is a step of its thread.
LEMMA ReturnIsStep ==
  ASSUME CallType, NEW t \in Threads, pc[t] = "lock",
         NEW s \in SUBSET Threads, Return(t, s)
  PROVE  StepOf(t) /\ pc'[t] = "idle" /\ s \ {t} \subseteq pending'
BY DEF CallType, Return, StepOf

LEMMA BodyWaiters ==
  ASSUME CallType, WaitersOK, element_count \in Nat, NEW t \in Threads, Body(t)
  PROVE  WaitersOK'
<1>1. /\ pc[t] = "lock"
      /\ Reached(waiting_queuers) \in SUBSET Threads
      /\ Reached(waiting_dequeuers) \in SUBSET Threads
      /\ {} \in SUBSET Threads
  BY ReachedType
     DEF CallType, Body, Queue, QueueFull, QueueWait, Dequeue, Peek,
         DequeueWait, TimedOut, TimedWait, Push, EmptyQueue, Locked
<1>2. ASSUME Return(t, {}), UNCHANGED <<element_count, waitVars>>
      PROVE  WaitersOK'
  <2>1. StepOf(t) /\ pc'[t] = "idle"
    BY <1>1, <1>2, ReturnIsStep
  <2>2. (Empty => Empty') /\ (Full => Full')
    BY <1>2 DEF Empty, Full
  <2>3. QED
    BY <1>2, <2>1, <2>2, QuietWaiters DEF waitVars
<1>3. ASSUME ~Full, Return(t, Reached(waiting_dequeuers)),
             waiting_dequeuers' = AfterResume(waiting_dequeuers),
             UNCHANGED waiting_queuers
      PROVE  WaitersOK'
  <2>1. StepOf(t) /\ pc'[t] = "idle" /\
        Reached(waiting_dequeuers) \ {t} \subseteq pending'
    BY <1>1, <1>3, ReturnIsStep
  <2>2. QED
    BY <1>3, <2>1, DequeuersResumed
<1>4. ASSUME ~Empty, Return(t, Reached(waiting_queuers)),
             waiting_queuers' = AfterResume(waiting_queuers),
             UNCHANGED waiting_dequeuers
      PROVE  WaitersOK'
  <2>1. StepOf(t) /\ pc'[t] = "idle" /\
        Reached(waiting_queuers) \ {t} \subseteq pending'
    BY <1>1, <1>4, ReturnIsStep
  <2>2. QED
    BY <1>4, <2>1, QueuersResumed
<1>5. CASE Queue(t)
  BY <1>3, <1>5 DEF Queue
<1>6. CASE Push(t)
  BY <1>2, <1>3, <1>6 DEF Push, Rotate, pairVars, waitVars
<1>7. CASE Dequeue(t)
  BY <1>4, <1>7 DEF Dequeue
<1>8. CASE EmptyQueue(t)
  BY <1>2, <1>4, <1>8 DEF EmptyQueue, pairVars, waitVars
<1>9. CASE QueueFull(t) \/ Peek(t) \/ TimedOut(t)
  BY <1>2, <1>9 DEF QueueFull, Peek, TimedOut, pairVars
<1>10. CASE QueueWait(t) \/ DequeueWait(t) \/ TimedWait(t)
  <2>1. StepOf(t) /\ UNCHANGED <<element_count, op>>
    BY <1>1, <1>10
       DEF QueueWait, DequeueWait, TimedWait, Unlock, CallType, StepOf, pairVars, callVars
  <2>2. (Empty => Empty') /\ (Full => Full')
    BY <2>1 DEF Empty, Full
  <2>3. \/ /\ op'[t] \in Dequeuing /\ Empty'
           /\ waiting_dequeuers' = Append(waiting_dequeuers, t)
           /\ UNCHANGED waiting_queuers
        \/ /\ op'[t] = "queue" /\ Full'
           /\ waiting_queuers' = Append(waiting_queuers, t)
           /\ UNCHANGED waiting_dequeuers
    BY <1>10, <2>1
       DEF QueueWait, DequeueWait, TimedWait, Locked, Dequeuing, Empty, Full
  <2>4. QED
    BY <2>1, <2>2, <2>3, WaiterAdded
<1>11. QED
  BY <1>5, <1>6, <1>7, <1>8, <1>9, <1>10 DEF Body

LEMMA OtherWaiters ==
  ASSUME CallType, WaitersOK, NEW t \in Threads,
         \/ Calls(t) \/ Suspend(t) \/ Resume(t) \/ OtherEvent(t)
         \/ TimePasses(t) \/ Exit(t)
  PROVE  WaitersOK'
<1>1. UNCHANGED <<element_count, waiting_queuers, waiting_dequeuers>>
  BY DEF Calls, Call, Suspend, Resume, OtherEvent, TimePasses, Exit, pairVars, waitVars
<1>2. /\ StepOf(t)
      /\ pc'[t] \in {"unlocked", "suspended"} /\ t \notin pending' =>
           /\ pc[t] \in {"unlocked", "suspended"} /\ t \notin pending
           /\ op'[t] = op[t]
  <2>1. CASE Calls(t)
    BY <2>1 DEF Calls, Call, StepOf, CallType
  <2>2. CASE Suspend(t) \/ Resume(t)
    BY <2>2 DEF Suspend, Resume, StepOf, CallType, callVars
  <2>3. CASE OtherEvent(t) \/ TimePasses(t)
    BY <2>3 DEF OtherEvent, TimePasses, StepOf, CallType, callVars
  <2>4. CASE Exit(t)
    BY <2>4 DEF Exit, StepOf, CallType, callVars
  <2>5. QED
    BY <2>1, <2>2, <2>3, <2>4
<1>3. (Empty => Empty') /\ (Full => Full')
  BY <1>1 DEF Empty, Full
<1>4. QED
  BY <1>1, <1>2, <1>3, QuietWaiters

LEMMA WaitersInvariant == Spec => []WaitersOK
<1>1. Init => WaitersOK
  BY DEF Init, WaitersOK, Waiting
<1>2. WaitersOK /\ PairsInv /\ [Next]_vars => WaitersOK'
  <2> SUFFICES ASSUME WaitersOK, PairsInv, [Next]_vars PROVE WaitersOK'
    OBVIOUS
  <2>1. CallType /\ element_count \in Nat
    BY DEF PairsInv, PairsOK, Chain
  <2>2. CASE UNCHANGED vars
    BY <2>2 DEF vars, pairVars, waitVars, callVars, WaitersOK, Waiting, In,
                Behind, Empty, Full
  <2>3. ASSUME NEW t \in Threads,
               \/ Calls(t) \/ Body(t) \/ Suspend(t) \/ Resume(t)
               \/ OtherEvent(t) \/ TimePasses(t) \/ Exit(t)
        PROVE  WaitersOK'
    BY <2>1, <2>3, BodyWaiters, OtherWaiters
  <2>4. QED
    BY <2>2, <2>3 DEF Next
<1>3. QED
  BY <1>1, <1>2, PairsInvariant, PTL DEF Spec

\* DequeuersRestarted: a thread that waits for an item, and that
\* %resume-dequeuers has not signalled, waits in an empty queue or behind a
\* thread that has exited.
THEOREM DequeuersAreRestarted == Spec => []DequeuersRestarted
<1>1. WaitersOK => DequeuersRestarted
  BY DEF WaitersOK, DequeuersRestarted, Dequeuing
<1>2. QED
  BY <1>1, WaitersInvariant, PTL

\* QueuersRestarted: a thread that waits for room, and that %resume-queuers
\* has not signalled, waits in a full queue or behind a thread that has exited.
THEOREM QueuersAreRestarted == Spec => []QueuersRestarted
<1>1. WaitersOK => QueuersRestarted
  BY DEF WaitersOK, QueuersRestarted
<1>2. QED
  BY <1>1, WaitersInvariant, PTL
=============================================================================
