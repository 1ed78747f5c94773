------------------------- MODULE VariableCacheProofs -------------------------
(***************************************************************************)
(* Proofs about the caches of compiled references (VariableCache): what    *)
(* compiled code reads, assigns and calls through its caches is what a     *)
(* search of the environment finds, for any frames, symbols, references    *)
(* and chains, in programs that are Independent (defined below).           *)
(*                                                                         *)
(* The properties compare the cache a location points to with the cell a   *)
(* search stops at.  What relates the two is the list of references each   *)
(* cache keeps, which update_cache_references moves when a definition or   *)
(* unbind-variable diverts searches:                                       *)
(*   Held     a trap belongs to one cell and has the cache of its number;  *)
(*            a reference is in at most one list, under the symbol of the  *)
(*            cell, and its location holds what install_cache writes;      *)
(*   CloneOK  assignments trap where operators depend on the value;        *)
(*   Placed   a reference is in the lists of the cache whose trap is in    *)
(*            the cell where its search stops;                             *)
(*   Tracked  every installed reference is in a list.                      *)
(* Each part of an operation (Install, UpdateClone, MoveRefPairs, ...) has *)
(* a lemma on what it keeps.  ShadowedStops, OthersStop and PassingStops   *)
(* say which searches stop elsewhere when a cell comes to bind or ceases   *)
(* to: exactly those that move_ref_pair_p selects.                         *)
(***************************************************************************)
EXTENDS VariableCache, WellFoundedInduction, TLAPS

\* A set of natural numbers has a least one.
LEMMA LeastNatural ==
  ASSUME NEW T, T \subseteq Nat, T # {}
  PROVE  \E x \in T : \A y \in T : x <= y
<1> DEFINE R == {ss \in Nat \X Nat : ss[1] < ss[2]}
<1>1. IsWellFoundedOn(R, Nat)
  BY NatLessThanWellFounded DEF OpToRel
<1> HIDE DEF R
<1>2. PICK x \in T : \A y \in T : ~ (<<y, x>> \in R)
  BY <1>1, WFMin
<1>3. ASSUME NEW y \in T, ~(x <= y) PROVE FALSE
  <2> DEFINE ss == <<y, x>>
  <2>1. y < x /\ ss \in Nat \X Nat /\ ss[1] = y /\ ss[2] = x
    BY <1>3
  <2>2. ss \in R
    BY <2>1 DEF R
  <2>3. QED
    BY <1>2, <2>2
<1>4. QED
  BY <1>3

LEMMA MinIsLeast ==
  ASSUME NEW T, T \subseteq Nat, T # {}
  PROVE  Min(T) \in T /\ \A y \in T : Min(T) <= y
<1>1. \E x \in T : \A y \in T : x =< y
  BY LeastNatural
<1>2. QED
  BY <1>1 DEF Min

(***************************************************************************)
(* Chains of frames.                                                       *)
(***************************************************************************)

LEMMA ChainType ==
  ASSUME program \in Programs, NEW e \in Envs
  PROVE  /\ Chain(e) \in Seq(Envs) /\ Len(Chain(e)) \in Nat /\ Len(Chain(e)) >= 1
         /\ DOMAIN Chain(e) = 1 .. Len(Chain(e)) /\ Chain(e)[1] = e
         /\ \A i \in 1 .. Len(Chain(e)) : Chain(e)[i] \in Envs
<1>1. CASE e = Global
  <2>1. Chain(e) = <<Global>> /\ Global \in Envs
    BY <1>1 DEF Chain, Envs
  <2>2. QED
    BY <2>1, <1>1
<1>2. CASE e # Global
  <2>1. e \in Frames /\ Chain(e) = program.chain[e]
    BY <1>2 DEF Chain, Envs
  <2>2. Chain(e) \in Seq(Envs) /\ Len(Chain(e)) >= 1 /\ Chain(e)[1] = e
    BY <2>1, ChainAssumption
  <2>3. QED
    BY <2>2
<1>3. QED
  BY <1>1, <1>2

\* The chain of a frame in a chain is the rest of that chain.
LEMMA ChainTail ==
  ASSUME program \in Programs, NEW e \in Envs, NEW n \in 1 .. Len(Chain(e))
  PROVE  /\ Len(Chain(Chain(e)[n])) = Len(Chain(e)) - n + 1
         /\ \A j \in 1 .. Len(Chain(e)) - n + 1 : Chain(Chain(e)[n])[j] = Chain(e)[n + j - 1]
<1> DEFINE c == Chain(e)
           Rest(i) == /\ Len(Chain(c[i])) = Len(c) - i + 1
                      /\ \A j \in 1 .. Len(c) - i + 1 : Chain(c[i])[j] = c[i + j - 1]
           Bad == {i \in 1 .. Len(c) : ~ Rest(i)}
<1>0. c \in Seq(Envs) /\ Len(c) \in Nat /\ c[1] = e /\ \A i \in 1 .. Len(c) : c[i] \in Envs
  BY ChainType
<1>1. SUFFICES ASSUME Bad # {} PROVE FALSE
  OBVIOUS
<1>2. PICK i \in Bad : \A k \in Bad : i <= k
  <2>1. Bad \subseteq Nat
    OBVIOUS
  <2>2. QED
    BY <1>1, <2>1, LeastNatural
<1>3. CASE i = 1
  BY <1>0, <1>2, <1>3
<1>4. CASE i # 1
  <2> DEFINE f == c[i - 1]
             d == Chain(f)
  <2>1. i \in 2 .. Len(c) /\ i - 1 \in 1 .. Len(c) /\ ~ Rest(i)
    BY <1>0, <1>2, <1>4
  <2>2. Rest(i - 1)
    <3> HIDE DEF Rest
    <3>1. i - 1 \in Bad => i <= i - 1
      BY <1>2
    <3>2. QED
      BY <2>1, <3>1, <1>0
  <2>3. f \in Envs /\ Len(d) = Len(c) - i + 2 /\ d[2] = c[i]
        /\ \A j \in 1 .. Len(d) : d[j] = c[i + j - 2]
    BY <2>1, <2>2, <1>0
  <2>10. Len(c) \in Nat /\ i \in Nat
    BY <2>1, <1>0
  <2>11. d \in Seq(Envs) /\ Len(d) \in Nat
    BY <2>3, ChainType
  <2>12. Rest(i) <=> /\ Len(Chain(c[i])) = Len(c) - i + 1
                     /\ \A j \in 1 .. Len(c) - i + 1 : Chain(c[i])[j] = c[i + j - 1]
    OBVIOUS
  <2>13. f \in Frames /\ f # Global => d = program.chain[f]
    BY DEF Chain
  <2>14. PICK N \in Nat, M \in Nat : N = Len(c) /\ M = Len(d)
    BY <2>10, <2>11
  <2>15. i \in 2 .. N /\ M = N - i + 2
    BY <2>1, <2>3, <2>14
  <2> HIDE DEF f, d, Rest, c, Bad
  <2>4. f # Global
    <3>1. Len(Chain(Global)) <= 1
      BY DEF Chain
    <3>2. QED
      BY <2>1, <2>3, <3>1, <2>10 DEF d
  <2>5. f \in Frames /\ d = program.chain[f]
    BY <2>3, <2>4, <2>13 DEF Envs
  <2>6. d \in Seq(Envs) /\ Len(d) > 1
    BY <2>1, <2>3, <2>10, <2>11
  <2>7. CASE c[i] = Global
    <3>1. ~ (M > 2)
      BY <2>3, <2>5, <2>7, <2>14, ChainAssumption
    <3>2. Chain(c[i]) = <<Global>>
      BY <2>7 DEF Chain
    <3>3. N = i /\ N - i + 1 = 1
      BY <2>14, <2>15, <3>1
    <3>4. Len(Chain(c[i])) = 1 /\ Chain(c[i])[1] = c[i]
      BY <2>7, <3>2
    <3>5. ASSUME NEW j \in 1 .. Len(c) - i + 1 PROVE Chain(c[i])[j] = c[i + j - 1]
      <4>1. j = 1 /\ i + j - 1 = i
        BY <2>14, <3>3
      <4>2. QED
        BY <3>4, <4>1
    <3>6. Rest(i)
      BY <2>14, <3>3, <3>4, <3>5 DEF Rest
    <3>7. QED
      BY <2>1, <3>6
  <2>8. CASE c[i] # Global
    <3>1. c[i] \in Frames /\ Chain(c[i]) = program.chain[c[i]]
      BY <2>8, <2>1, <1>0 DEF Chain, Envs, c
    <3>2. Chain(c[i]) = Tail(d)
      BY <2>3, <2>5, <2>6, <3>1, ChainAssumption
    <3>3. Len(Tail(d)) = Len(d) - 1 /\ \A j \in 1 .. Len(d) - 1 : Tail(d)[j] = d[j + 1]
      BY <2>6
    <3>4. Len(Chain(c[i])) = Len(c) - i + 1
      <4>1. M - 1 = N - i + 1
        BY <2>15
      <4>2. QED
        BY <2>14, <3>2, <3>3, <4>1
    <3>5. ASSUME NEW j \in 1 .. Len(c) - i + 1 PROVE Chain(c[i])[j] = c[i + j - 1]
      <4>1. j \in 1 .. Len(d) - 1 /\ j + 1 \in 1 .. Len(d) /\ i + (j + 1) - 2 = i + j - 1
        BY <2>1, <2>3, <2>10, <2>11
      <4>2. QED
        BY <2>3, <3>2, <3>3, <4>1
    <3>6. Rest(i)
      BY <3>4, <3>5 DEF Rest
    <3>7. QED
      BY <2>1, <3>6
  <2>9. QED
    BY <2>7, <2>8
<1>5. QED
  BY <1>3, <1>4

LEMMA ChainDistinct ==
  ASSUME program \in Programs, NEW e \in Envs, NEW m \in 1 .. Len(Chain(e)),
         NEW n \in 1 .. Len(Chain(e)), Chain(e)[m] = Chain(e)[n]
  PROVE  m = n
<1>1. PICK N \in Nat : N = Len(Chain(e))
  BY ChainType
<1>2. Len(Chain(Chain(e)[m])) = N - m + 1 /\ Len(Chain(Chain(e)[n])) = N - n + 1
  BY <1>1, ChainTail
<1>3. N - m + 1 = N - n + 1
  BY <1>2
<1>4. QED
  BY <1>1, <1>3

\* The parent of a frame is the next one of any chain it is in.
LEMMA ParentIsNext ==
  ASSUME program \in Programs, NEW e \in Envs, NEW k \in 1 .. Len(Chain(e))
  PROVE  LET f == Chain(e)[k]
         IN /\ Parent(f) # Null <=> k < Len(Chain(e))
            /\ k < Len(Chain(e)) => Parent(f) = Chain(e)[k + 1] /\ Parent(f) \in Envs
<1> DEFINE f == Chain(e)[k]
<1>1. PICK N \in Nat : N = Len(Chain(e))
  BY ChainType
<1>2. PICK M \in Nat : M = Len(Chain(f)) /\ M = N - k + 1
  BY <1>1, ChainTail, ChainType
<1>3. Null \notin Envs
  BY ProgramAssumption DEF Envs, Null, Global
<1>4. Parent(f) = IF M = 1 THEN Null ELSE Chain(f)[2]
  BY <1>2 DEF Parent
<1>5. CASE k < N
  <2>1. M # 1 /\ 2 \in 1 .. N - k + 1 /\ k + 2 - 1 = k + 1 /\ k + 1 \in 1 .. N
    BY <1>1, <1>2, <1>5
  <2>2. Chain(f)[2] = Chain(e)[k + 2 - 1]
    BY <1>1, <2>1, ChainTail
  <2>3. Chain(e)[k + 1] \in Envs
    BY <1>1, <2>1, ChainType
  <2>4. QED
    BY <1>1, <1>3, <1>4, <1>5, <2>1, <2>2, <2>3
<1>6. CASE ~ (k < N)
  <2>1. M = 1
    BY <1>1, <1>2, <1>6
  <2>2. QED
    BY <1>1, <1>4, <1>6, <2>1
<1>7. QED
  BY <1>5, <1>6

(***************************************************************************)
(* Where a search of a chain stops.                                        *)
(***************************************************************************)

\* The n-th frame of the chain of e is the first that binds s.
BoundAt(h, e, s, n) ==
  /\ n \in 1 .. Len(Chain(e)) /\ Binds(h, Chain(e)[n], s)
  /\ \A m \in 1 .. n - 1 : ~ Binds(h, Chain(e)[m], s)

LEMMA BindingAt ==
  ASSUME program \in Programs, NEW e \in Envs, NEW h, NEW s, NEW n, BoundAt(h, e, s, n)
  PROVE  BindingFrame(h, e, s) = Chain(e)[n] /\ Binds(h, BindingFrame(h, e, s), s)
<1> DEFINE c == Chain(e)
           hits == {i \in DOMAIN c : Binds(h, c[i], s)}
<1>1. DOMAIN c = 1 .. Len(c) /\ Len(c) \in Nat
  BY ChainType
<1>2. n \in hits /\ hits \subseteq Nat /\ n \in Nat
  BY <1>1 DEF BoundAt
<1>3. Min(hits) \in hits /\ Min(hits) <= n
  BY <1>2, MinIsLeast
<1>4. Min(hits) \notin 1 .. n - 1
  BY <1>3 DEF BoundAt
<1>5. Min(hits) = n
  BY <1>1, <1>2, <1>3, <1>4
<1>6. BindingFrame(h, e, s) = c[n]
  BY <1>2, <1>5 DEF BindingFrame
<1>7. QED
  BY <1>6 DEF BoundAt

LEMMA BindingFirst ==
  ASSUME program \in Programs, NEW e \in Envs, NEW h, NEW s, NEW m \in 1 .. Len(Chain(e)),
         Binds(h, Chain(e)[m], s)
  PROVE  \E n \in 1 .. m : BoundAt(h, e, s, n)
<1> DEFINE hits == {i \in 1 .. Len(Chain(e)) : Binds(h, Chain(e)[i], s)}
<1>1. Len(Chain(e)) \in Nat /\ m \in hits /\ hits \subseteq Nat
  BY ChainType
<1>2. PICK n \in hits : \A k \in hits : n <= k
  BY <1>1, LeastNatural
<1>3. n \in 1 .. m /\ n \in 1 .. Len(Chain(e)) /\ Binds(h, Chain(e)[n], s)
  BY <1>1, <1>2
<1>4. ASSUME NEW k \in 1 .. n - 1 PROVE ~ Binds(h, Chain(e)[k], s)
  <2>1. k \in 1 .. Len(Chain(e)) /\ ~ (n <= k)
    BY <1>1, <1>3
  <2>2. k \notin hits
    BY <1>2, <2>1
  <2>3. QED
    BY <2>1, <2>2
<1>5. QED
  BY <1>3, <1>4 DEF BoundAt

LEMMA BindingLast ==
  ASSUME program \in Programs, NEW e \in Envs, NEW h, NEW s,
         \A m \in 1 .. Len(Chain(e)) : ~ Binds(h, Chain(e)[m], s)
  PROVE  BindingFrame(h, e, s) = Chain(e)[Len(Chain(e))]
<1>1. {i \in DOMAIN Chain(e) : Binds(h, Chain(e)[i], s)} = {}
  BY ChainType
<1>2. QED
  BY <1>1 DEF BindingFrame

\* A search that stops where s is bound, and one that stops anywhere.
LEMMA BindingFound ==
  ASSUME program \in Programs, NEW e \in Envs, NEW h, NEW s
  PROVE  /\ BindingFrame(h, e, s) \in Range(Chain(e)) /\ BindingFrame(h, e, s) \in Envs
         /\ Binds(h, BindingFrame(h, e, s), s) => \E n : BoundAt(h, e, s, n)
         /\ \A n : BoundAt(h, e, s, n) => BindingFrame(h, e, s) = Chain(e)[n]
<1>0. /\ Len(Chain(e)) \in 1 .. Len(Chain(e)) /\ DOMAIN Chain(e) = 1 .. Len(Chain(e))
      /\ \A i \in 1 .. Len(Chain(e)) : Chain(e)[i] \in Envs
  BY ChainType
<1>1. CASE \E m \in 1 .. Len(Chain(e)) : Binds(h, Chain(e)[m], s)
  <2>1. PICK n : BoundAt(h, e, s, n)
    BY <1>1, BindingFirst
  <2>2. BindingFrame(h, e, s) = Chain(e)[n] /\ n \in 1 .. Len(Chain(e))
    BY <2>1, BindingAt DEF BoundAt
  <2>3. QED
    BY <1>0, <2>1, <2>2, BindingAt DEF Range
<1>2. CASE \A m \in 1 .. Len(Chain(e)) : ~ Binds(h, Chain(e)[m], s)
  <2>1. BindingFrame(h, e, s) = Chain(e)[Len(Chain(e))]
    BY <1>2, BindingLast
  <2>2. QED
    BY <1>0, <1>2, <2>1, BindingAt DEF Range
<1>3. QED
  BY <1>1, <1>2

\* g differs from h in that frame f binds s.
Shadows(h, g, f, s) ==
  /\ f \in Envs /\ ~ Binds(h, f, s) /\ Binds(g, f, s)
  /\ \A d \in Envs \ {f} : Binds(g, d, s) <=> Binds(h, d, s)

\* The searches that a new binding in f diverts are the ones from f or inside it that
\* stopped where the search from f's parent does.
LEMMA ShadowedStops ==
  ASSUME program \in Programs, NEW e \in Envs, NEW h, NEW g, NEW s, NEW f, Shadows(h, g, f, s),
         BindingFrame(g, e, s) = f
  PROVE  /\ f \in Range(Chain(e))
         /\ Parent(f) # Null =>
              /\ Parent(f) \in Envs
              /\ BindingFrame(h, e, s) = BindingFrame(h, Parent(f), s)
         /\ Binds(h, BindingFrame(h, e, s), s) => Parent(f) # Null
<1> DEFINE c == Chain(e)
<1>0. Binds(g, f, s)
  BY DEF Shadows
<1>1. PICK k : BoundAt(g, e, s, k)
  BY <1>0, BindingFound
<1>2. k \in 1 .. Len(c) /\ c[k] = f /\ \A m \in 1 .. k - 1 : ~ Binds(g, c[m], s)
  BY <1>1, BindingFound DEF BoundAt
<1>3. PICK N \in Nat : N = Len(c)
  BY ChainType
<1>4. DOMAIN c = 1 .. N /\ \A i \in 1 .. N : c[i] \in Envs
  BY <1>3, ChainType
<1>5. \A m \in 1 .. k : ~ Binds(h, c[m], s)
  <2>1. SUFFICES ASSUME NEW m \in 1 .. k PROVE ~ Binds(h, c[m], s)
    OBVIOUS
  <2>2. CASE c[m] = f
    BY <2>2 DEF Shadows
  <2>3. CASE c[m] # f
    <3>1. m \in 1 .. k - 1 /\ m \in 1 .. N
      BY <1>2, <1>3, <2>3
    <3>2. QED
      BY <1>2, <1>4, <2>3, <3>1 DEF Shadows
  <2>4. QED
    BY <2>2, <2>3
<1>6. /\ Parent(f) # Null <=> k < N
      /\ k < N => Parent(f) = c[k + 1] /\ Parent(f) \in Envs
  BY <1>2, <1>3, ParentIsNext
<1>7. ASSUME NEW n, BoundAt(h, e, s, n)
      PROVE  /\ k < N /\ n \in k + 1 .. N /\ Binds(h, c[n], s)
             /\ \A m \in 1 .. n - 1 : ~ Binds(h, c[m], s)
  <2>1. n \in 1 .. N /\ Binds(h, c[n], s) /\ \A m \in 1 .. n - 1 : ~ Binds(h, c[m], s)
    BY <1>3, <1>7 DEF BoundAt
  <2>2. n \notin 1 .. k
    BY <1>5, <2>1
  <2>3. QED
    BY <1>2, <1>3, <2>1, <2>2
<1>8. ASSUME k < N PROVE BindingFrame(h, e, s) = BindingFrame(h, Parent(f), s)
  <2> DEFINE p == Parent(f)
  <2>1. p = c[k + 1] /\ p \in Envs /\ k + 1 \in 1 .. N /\ k \in Nat
    BY <1>2, <1>3, <1>6, <1>8
  <2>2. /\ Len(Chain(p)) = N - (k + 1) + 1
        /\ \A j \in 1 .. N - (k + 1) + 1 : Chain(p)[j] = c[(k + 1) + j - 1]
    BY <1>3, <2>1, ChainTail
  <2>3. PICK M \in Nat : M = Len(Chain(p)) /\ M = N - k
    <3>1. Len(Chain(p)) \in Nat
      BY <2>1, ChainType
    <3>2. N - (k + 1) + 1 = N - k
      BY <2>1
    <3>3. QED
      BY <2>2, <3>1, <3>2
  <2>4. \A j \in 1 .. M : Chain(p)[j] = c[k + j]
    <3>1. \A j \in 1 .. M : j \in 1 .. N - (k + 1) + 1 /\ (k + 1) + j - 1 = k + j
      BY <1>3, <2>1, <2>3
    <3>2. QED
      BY <2>2, <3>1
  <2>5. CASE Binds(h, BindingFrame(h, e, s), s)
    <3>1. PICK n : BoundAt(h, e, s, n)
      BY <2>5, BindingFound
    <3>2. /\ n \in k + 1 .. N /\ Binds(h, c[n], s)
          /\ \A m \in 1 .. n - 1 : ~ Binds(h, c[m], s)
      BY <1>7, <3>1
    <3>3. n - k \in 1 .. M /\ k + (n - k) = n
      BY <1>3, <2>1, <2>3, <3>2
    <3>4. ASSUME NEW m \in 1 .. n - k - 1 PROVE ~ Binds(h, Chain(p)[m], s)
      <4>1. m \in 1 .. M /\ k + m \in 1 .. n - 1
        BY <1>3, <2>1, <2>3, <3>2
      <4>2. QED
        BY <2>4, <3>2, <4>1
    <3>5. BoundAt(h, p, s, n - k)
      BY <2>3, <2>4, <3>2, <3>3, <3>4 DEF BoundAt
    <3>6. BindingFrame(h, p, s) = c[n]
      BY <2>1, <2>4, <3>3, <3>5, BindingFound
    <3>7. QED
      BY <3>1, <3>6, BindingFound
  <2>6. CASE ~ Binds(h, BindingFrame(h, e, s), s)
    <3>1. ~ \E n : BoundAt(h, e, s, n)
      BY <2>6, BindingAt
    <3>2. \A m \in 1 .. N : ~ Binds(h, c[m], s)
      BY <1>3, <3>1, BindingFirst
    <3>3. \A m \in 1 .. M : k + m \in 1 .. N
      BY <1>3, <2>1, <2>3
    <3>4. \A m \in 1 .. M : ~ Binds(h, Chain(p)[m], s)
      BY <2>4, <3>2, <3>3
    <3>5. BindingFrame(h, p, s) = Chain(p)[M] /\ BindingFrame(h, e, s) = c[N]
      BY <1>3, <2>1, <2>3, <3>2, <3>4, BindingLast
    <3>6. M \in 1 .. M /\ k + M = N
      BY <1>3, <1>8, <2>1, <2>3
    <3>7. QED
      BY <2>4, <3>5, <3>6
  <2>7. QED
    BY <2>5, <2>6
<1>9. f \in Range(c)
  BY <1>2, <1>3, <1>4 DEF Range
<1>10. QED
  BY <1>6, <1>7, <1>8, <1>9, BindingFound

\* The others are not diverted, in either direction.
LEMMA OthersStop ==
  ASSUME program \in Programs, NEW e \in Envs, NEW h, NEW g, NEW s, NEW f, Shadows(h, g, f, s),
         BindingFrame(g, e, s) # f,
         \/ Binds(h, BindingFrame(h, e, s), s)
         \/ Binds(g, BindingFrame(g, e, s), s)
  PROVE  BindingFrame(g, e, s) = BindingFrame(h, e, s)
<1> DEFINE c == Chain(e)
<1>1. PICK N \in Nat : N = Len(c)
  BY ChainType
<1>2. \A i \in 1 .. N : c[i] \in Envs
  BY <1>1, ChainType
<1>3. CASE Binds(h, BindingFrame(h, e, s), s)
  <2>1. PICK n : BoundAt(h, e, s, n)
    BY <1>3, BindingFound
  <2>2. /\ n \in 1 .. N /\ Binds(h, c[n], s) /\ c[n] # f
        /\ \A m \in 1 .. n - 1 : ~ Binds(h, c[m], s)
    BY <1>1, <2>1 DEF BoundAt, Shadows
  <2>3. ASSUME NEW m \in 1 .. n - 1, Binds(g, c[m], s) PROVE FALSE
    <3>1. m \in 1 .. N /\ c[m] = f
      BY <1>1, <1>2, <2>2, <2>3 DEF Shadows
    <3>2. PICK k \in 1 .. m : BoundAt(g, e, s, k)
      BY <1>1, <2>3, <3>1, BindingFirst
    <3>3. k \in 1 .. n - 1 /\ k \in 1 .. N /\ Binds(g, c[k], s) /\ BindingFrame(g, e, s) = c[k]
      BY <1>1, <2>2, <3>2, BindingFound DEF BoundAt
    <3>4. QED
      BY <1>2, <2>2, <3>3 DEF Shadows
  <2>4. BoundAt(g, e, s, n)
    BY <1>1, <1>2, <2>2, <2>3 DEF BoundAt, Shadows
  <2>5. QED
    BY <2>1, <2>4, BindingFound
<1>4. CASE Binds(g, BindingFrame(g, e, s), s)
  <2>1. PICK n : BoundAt(g, e, s, n)
    BY <1>4, BindingFound
  <2>2. /\ n \in 1 .. N /\ Binds(g, c[n], s) /\ c[n] # f
        /\ \A m \in 1 .. n - 1 : ~ Binds(g, c[m], s)
    BY <1>1, <2>1, BindingFound DEF BoundAt
  <2>3. ASSUME NEW m \in 1 .. n - 1 PROVE ~ Binds(h, c[m], s)
    BY <1>1, <1>2, <2>2 DEF Shadows
  <2>4. BoundAt(h, e, s, n)
    BY <1>1, <1>2, <2>2, <2>3 DEF BoundAt, Shadows
  <2>5. QED
    BY <2>1, <2>4, BindingFound
<1>5. QED
  BY <1>3, <1>4

\* A search that passes f and stops where the search from f's parent does is diverted.
LEMMA PassingStops ==
  ASSUME program \in Programs, NEW e \in Envs, NEW h, NEW g, NEW s, NEW f, Shadows(h, g, f, s),
         f \in Range(Chain(e)), Parent(f) # Null,
         Binds(h, BindingFrame(h, e, s), s),
         BindingFrame(h, e, s) = BindingFrame(h, Parent(f), s)
  PROVE  BindingFrame(g, e, s) = f
<1> DEFINE c == Chain(e)
<1>1. PICK N \in Nat : N = Len(c)
  BY ChainType
<1>2. PICK k \in 1 .. N : c[k] = f
  BY <1>1, ChainType DEF Range
<1>3. \A i \in 1 .. N : c[i] \in Envs
  BY <1>1, ChainType
<1>4. k < N /\ Parent(f) = c[k + 1] /\ Parent(f) \in Envs /\ k + 1 \in 1 .. N
  BY <1>1, <1>2, ParentIsNext
<1>5. PICK n : BoundAt(h, e, s, n)
  BY BindingFound
<1>6. /\ n \in 1 .. N /\ Binds(h, c[n], s) /\ c[n] # f /\ BindingFrame(h, e, s) = c[n]
      /\ \A m \in 1 .. n - 1 : ~ Binds(h, c[m], s)
  BY <1>1, <1>5, BindingFound DEF BoundAt, Shadows
<1>7. k < n
  <2>1. c[n] \in Range(Chain(Parent(f)))
    BY <1>4, <1>6, BindingFound
  <2>2. /\ Len(Chain(Parent(f))) = N - (k + 1) + 1
        /\ \A j \in 1 .. N - (k + 1) + 1 : Chain(Parent(f))[j] = c[(k + 1) + j - 1]
    BY <1>1, <1>4, ChainTail
  <2>3. PICK j \in 1 .. Len(Chain(Parent(f))) : c[n] = Chain(Parent(f))[j]
    BY <1>4, <2>1, ChainType DEF Range
  <2>4. j \in 1 .. N - (k + 1) + 1
    BY <2>2, <2>3
  <2>5. c[n] = c[(k + 1) + j - 1] /\ (k + 1) + j - 1 \in 1 .. N /\ (k + 1) + j - 1 > k
    BY <1>4, <2>2, <2>3, <2>4
  <2>6. n = (k + 1) + j - 1
    BY <1>1, <1>6, <2>5, ChainDistinct
  <2>7. QED
    BY <2>5, <2>6
<1>8. ASSUME NEW m \in 1 .. k - 1 PROVE ~ Binds(g, c[m], s)
  <2>1. m \in 1 .. n - 1 /\ m \in 1 .. N /\ m # k
    BY <1>6, <1>7
  <2>2. c[m] # f
    BY <1>1, <1>2, <2>1, ChainDistinct
  <2>3. QED
    BY <1>3, <1>6, <2>1, <2>2 DEF Shadows
<1>9. BoundAt(g, e, s, k)
  BY <1>1, <1>2, <1>8 DEF BoundAt, Shadows
<1>10. QED
  BY <1>2, <1>9, BindingFound

\* The search from f's parent never comes to f.
LEMMA ParentStops ==
  ASSUME program \in Programs, NEW h, NEW g, NEW s, NEW f, Shadows(h, g, f, s),
         Parent(f) # Null
  PROVE  /\ Parent(f) \in Envs
         /\ BindingFrame(g, Parent(f), s) = BindingFrame(h, Parent(f), s)
         /\ BindingFrame(g, Parent(f), s) # f
<1> DEFINE p == Parent(f)
           c == Chain(f)
<1>0. f \in Envs
  BY DEF Shadows
<1>1. PICK N \in Nat : N = Len(c) /\ 1 \in 1 .. N /\ c[1] = f
  BY <1>0, ChainType
<1>2. 1 < N /\ p = c[1 + 1] /\ p \in Envs /\ 1 + 1 \in 1 .. N
  BY <1>0, <1>1, ParentIsNext
<1>3. f \notin Range(Chain(p))
  <2>1. ASSUME NEW j \in 1 .. Len(Chain(p)), Chain(p)[j] = f PROVE FALSE
    <3>1. /\ Len(Chain(p)) = N - (1 + 1) + 1
          /\ \A i \in 1 .. N - (1 + 1) + 1 : Chain(p)[i] = c[(1 + 1) + i - 1]
      BY <1>0, <1>1, <1>2, ChainTail
    <3>2. j \in 1 .. N - (1 + 1) + 1
      BY <3>1
    <3>3. c[(1 + 1) + j - 1] = f /\ (1 + 1) + j - 1 \in 1 .. N /\ (1 + 1) + j - 1 # 1
      BY <2>1, <3>1, <3>2
    <3>4. QED
      BY <1>0, <1>1, <3>3, ChainDistinct
  <2>2. QED
    BY <1>2, <2>1, ChainType DEF Range
<1>4. {i \in DOMAIN Chain(p) : Binds(g, Chain(p)[i], s)}
        = {i \in DOMAIN Chain(p) : Binds(h, Chain(p)[i], s)}
  BY <1>2, <1>3, ChainType DEF Range, Shadows
<1>5. BindingFrame(g, p, s) # f
  BY <1>2, <1>3, BindingFound
<1>6. QED
  BY <1>2, <1>4, <1>5 DEF BindingFrame

(***************************************************************************)
(* Lists of references: without links a cache's lists hold one symbol.     *)
(***************************************************************************)

Entry(s, R) == [sym |-> s, refs |-> R]
ListOf(alist, s) == alist = <<>> \/ \E R \in SUBSET Refs : alist = <<Entry(s, R)>>

LEMMA EmptyAlist ==
  ASSUME NEW s
  PROVE  InAlist(<<>>) = {} /\ Named(<<>>, s) = 0
<1>1. DOMAIN <<>> = {}
  OBVIOUS
<1>2. QED
  BY <1>1 DEF Named, InAlist

\* A list of one element, with the element replaced.
LEMMA ReplacedEntry ==
  ASSUME NEW x, NEW y
  PROVE  [<<x>> EXCEPT ![1] = y] = <<y>>
<1> DEFINE b == [<<x>> EXCEPT ![1] = y]
<1>1. b \in Seq({x, y}) /\ Len(b) = 1 /\ b[1] = y
  OBVIOUS
<1>2. QED
  BY <1>1

LEMMA EntryIsAlist ==
  ASSUME NEW s, NEW R
  PROVE  /\ LET a == <<Entry(s, R)>>
            IN /\ DOMAIN a = {1} /\ a[1].sym = s /\ a[1].refs = R
               /\ InAlist(a) = R /\ a # <<>> /\ Named(a, s) = 1
<1> DEFINE a == <<Entry(s, R)>>
<1>1. DOMAIN a = {1} /\ a[1] = Entry(s, R) /\ a # <<>>
  OBVIOUS
<1>2. a[1].sym = s /\ a[1].refs = R
  BY <1>1 DEF Entry
<1>3. {m \in DOMAIN a : a[m].sym = s} = {1}
  BY <1>1, <1>2
<1>4. Min({1}) = 1
  BY MinIsLeast
<1>5. Named(a, s) = 1
  BY <1>3, <1>4 DEF Named
<1>7. InAlist(a) = R
  <2>1. {a[n].refs : n \in DOMAIN a} = {R}
    BY <1>1, <1>2
  <2>2. QED
    BY <2>1 DEF InAlist
<1>8. QED
  BY <1>1, <1>2, <1>5, <1>7

LEMMA WalkedEmpty == Walked(<<>>) = <<>>
<1> DEFINE Walk(w) == [n \in 0 .. Len(<<>>) |->
                         IF n = 0 THEN <<>>
                         ELSE IF <<>>[n].refs = {} THEN w[n - 1] ELSE Append(w[n - 1], <<>>[n])]
           g == [n \in 0 .. Len(<<>>) |-> <<>>]
           w == CHOOSE v : v = Walk(v)
<1>1. 0 .. Len(<<>>) = {0}
  OBVIOUS
<1>2. g = Walk(g)
  BY <1>1
<1>3. w = Walk(w)
  BY <1>2, Zenon
<1>4. Walked(<<>>) = w[Len(<<>>)]
  BY DEF Walked
<1> HIDE DEF w
<1>5. w[0] = <<>>
  BY <1>1, <1>3
<1>6. QED
  BY <1>1, <1>4, <1>5

LEMMA WalkedEntry ==
  ASSUME NEW x
  PROVE  Walked(<<x>>) = IF x.refs = {} THEN <<>> ELSE <<x>>
<1> DEFINE a == <<x>>
           y == IF x.refs = {} THEN <<>> ELSE <<x>>
           Walk(w) == [n \in 0 .. Len(a) |->
                         IF n = 0 THEN <<>>
                         ELSE IF a[n].refs = {} THEN w[n - 1] ELSE Append(w[n - 1], a[n])]
           g == [n \in 0 .. Len(a) |-> IF n = 0 THEN <<>> ELSE y]
           w == CHOOSE v : v = Walk(v)
<1>1. 0 .. Len(a) = {0, 1} /\ Len(a) = 1 /\ a[1] = x /\ Append(<<>>, x) = <<x>>
  OBVIOUS
<1>2. g = Walk(g)
  <2>1. g[0] = <<>> /\ g[1] = y
    BY <1>1
  <2>2. QED
    BY <1>1, <2>1
<1>3. w = Walk(w)
  BY <1>2, Zenon
<1>4. Walked(a) = w[Len(a)]
  BY DEF Walked
<1> HIDE DEF w
<1>5. w[0] = <<>>
  BY <1>1, <1>3
<1>6. w[1] = y
  <2>1. w[1] = IF 1 = 0 THEN <<>>
               ELSE IF a[1].refs = {} THEN w[1 - 1] ELSE Append(w[1 - 1], a[1])
    BY <1>1, <1>3
  <2>2. w[1 - 1] = <<>>
    BY <1>5
  <2>3. w[1] = IF a[1].refs = {} THEN <<>> ELSE Append(<<>>, a[1])
    BY <2>1, <2>2
  <2>4. Append(<<>>, a[1]) = <<x>> /\ a[1].refs = x.refs
    BY <1>1
  <2>5. QED
    BY <2>3, <2>4, Zenon
<1>7. QED
  BY <1>1, <1>4, <1>6

LEMMA WalkedList ==
  ASSUME NEW s, NEW a, ListOf(a, s)
  PROVE  /\ ListOf(Walked(a), s) /\ InAlist(Walked(a)) = InAlist(a)
         /\ a = <<>> => InAlist(a) = {}
         /\ InAlist(a) \subseteq Refs
<1>1. CASE a = <<>>
  BY <1>1, WalkedEmpty, EmptyAlist DEF ListOf
<1>2. ASSUME NEW R \in SUBSET Refs, a = <<Entry(s, R)>>
      PROVE  ListOf(Walked(a), s) /\ InAlist(Walked(a)) = InAlist(a) /\ a # <<>>
             /\ InAlist(a) \subseteq Refs
  <2>1. a # <<>> /\ InAlist(a) = R
    BY <1>2, EntryIsAlist
  <2>2. Entry(s, R).refs = R
    BY DEF Entry
  <2>3. Walked(a) = IF R = {} THEN <<>> ELSE a
    BY <1>2, <2>2, WalkedEntry
  <2>4. QED
    BY <1>2, <2>1, <2>3, EmptyAlist DEF ListOf
<1>3. QED
  BY <1>1, <1>2 DEF ListOf

LEMMA AddedList ==
  ASSUME NEW s, NEW a, ListOf(a, s), NEW T \in SUBSET Refs
  PROVE  ListOf(AddNamed(a, s, T), s) /\ InAlist(AddNamed(a, s, T)) = InAlist(a) \cup T
<1>1. CASE a = <<>>
  <2>1. AddNamed(a, s, T) = <<Entry(s, T)>> \o <<>>
    BY <1>1, EmptyAlist DEF AddNamed, Entry
  <2>2. AddNamed(a, s, T) = <<Entry(s, T)>>
    BY <2>1
  <2>3. QED
    BY <1>1, <2>2, EmptyAlist, EntryIsAlist DEF ListOf
<1>2. ASSUME NEW R \in SUBSET Refs, a = <<Entry(s, R)>>
      PROVE  ListOf(AddNamed(a, s, T), s) /\ InAlist(AddNamed(a, s, T)) = InAlist(a) \cup T
  <2>1. Named(a, s) = 1
    BY <1>2, EntryIsAlist
  <2>2. AddNamed(a, s, T) = [a EXCEPT ![1] = [a[1] EXCEPT !.refs = @ \cup T]]
    BY <2>1 DEF AddNamed
  <2>3. [a[1] EXCEPT !.refs = @ \cup T] = Entry(s, R \cup T)
    BY <1>2 DEF Entry
  <2>5. AddNamed(a, s, T) = <<Entry(s, R \cup T)>>
    BY <1>2, <2>2, <2>3, ReplacedEntry
  <2>4. QED
    BY <1>2, <2>5, EntryIsAlist DEF ListOf
<1>3. QED
  BY <1>1, <1>2 DEF ListOf

LEMMA LessList ==
  ASSUME NEW s, NEW a, ListOf(a, s), NEW T
  PROVE  ListOf(Less(a, s, T), s) /\ InAlist(Less(a, s, T)) = InAlist(a) \ T
<1>1. CASE a = <<>>
  BY <1>1, EmptyAlist DEF Less, ListOf
<1>2. ASSUME NEW R \in SUBSET Refs, a = <<Entry(s, R)>>
      PROVE  ListOf(Less(a, s, T), s) /\ InAlist(Less(a, s, T)) = InAlist(a) \ T
  <2>1. Named(a, s) = 1
    BY <1>2, EntryIsAlist
  <2>2. Less(a, s, T) = [a EXCEPT ![1] = [a[1] EXCEPT !.refs = @ \ T]]
    BY <2>1 DEF Less
  <2>3. [a[1] EXCEPT !.refs = @ \ T] = Entry(s, R \ T)
    BY <1>2 DEF Entry
  <2>5. Less(a, s, T) = <<Entry(s, R \ T)>>
    BY <1>2, <2>2, <2>3, ReplacedEntry
  <2>4. QED
    BY <1>2, <2>5, EntryIsAlist DEF ListOf
<1>3. QED
  BY <1>1, <1>2 DEF ListOf

LEMMA MovedList ==
  ASSUME NEW s, NEW a, ListOf(a, s), NEW env
  PROVE  ToMove(a, env, s) = {r \in InAlist(a) : Inside(r, env)}
<1>1. CASE a = <<>>
  BY <1>1, EmptyAlist DEF ToMove
<1>2. ASSUME NEW R \in SUBSET Refs, a = <<Entry(s, R)>>
      PROVE  ToMove(a, env, s) = {r \in InAlist(a) : Inside(r, env)}
  <2>1. Named(a, s) = 1 /\ a[1].refs = R /\ InAlist(a) = R
    BY <1>2, EntryIsAlist
  <2>2. QED
    BY <2>1 DEF ToMove
<1>3. QED
  BY <1>1, <1>2 DEF ListOf

LEMMA EmptiedList ==
  ASSUME NEW s, NEW a, ListOf(a, s), NEW r
  PROVE  ListOf(Emptied(a, r), s) /\ InAlist(Emptied(a, r)) = InAlist(a) \ {r}
<1>1. CASE a = <<>>
  <2>1. Emptied(a, r) = <<>>
    BY <1>1 DEF Emptied
  <2>2. QED
    BY <1>1, <2>1, EmptyAlist DEF ListOf
<1>2. ASSUME NEW R \in SUBSET Refs, a = <<Entry(s, R)>>
      PROVE  ListOf(Emptied(a, r), s) /\ InAlist(Emptied(a, r)) = InAlist(a) \ {r}
  <2>1. DOMAIN a = {1} /\ a[1] = Entry(s, R)
    BY <1>2
  <2>2. [a[1] EXCEPT !.refs = @ \ {r}] = Entry(s, R \ {r})
    BY <2>1 DEF Entry
  <2>3. Emptied(a, r) = <<Entry(s, R \ {r})>>
    BY <2>1, <2>2 DEF Emptied
  <2>4. QED
    BY <1>2, <2>3, EntryIsAlist DEF ListOf
<1>3. QED
  BY <1>1, <1>2 DEF ListOf

(***************************************************************************)
(* What holds of cells, traps, caches and locations wherever the searches  *)
(* stop: it is kept by every part of an operation.                         *)
(***************************************************************************)

Alists == Seq([sym : Symbols, refs : SUBSET Refs])
Caches == [value : Plain, clone : BOOLEAN, alist : [Kinds -> Alists]]
Locs == {NotLinked} \cup ({"cache", "clone", "fake"} \X Ids) \cup ({"link"} \X Values)
HeapType == [cell : [Envs -> [Symbols -> Plain \cup CellTraps \cup {NoCell}]],
             trap : [Ids -> Ids \cup {0}],
             cache : [Ids -> Caches],
             loc : [Refs -> Locs]]

\* The references of one kind that a cache knows.
In(h, i, k) == InAlist(h.cache[i].alist[k])

\* A trap belongs to one cell, and has the cache of its number.
CellsOK(h) ==
  /\ \A f \in Envs, s \in Symbols, i \in Ids : h.cell[f][s] = Trap(i) =>
       /\ h.trap[i] = i
       /\ \A d \in Envs, t \in Symbols : h.cell[d][t] = Trap(i) => d = f /\ t = s
  /\ \A i \in Ids : h.trap[i] \in {0, i}
  /\ \A s \in Symbols : h.cell[Global][s] # NoCell

\* A cache has references to one symbol, that of its cell, and no other cache has them.
ListsOK(h) ==
  /\ \A i \in Ids, k \in Kinds : \E s \in Symbols : ListOf(h.cache[i].alist[k], s)
  /\ \A f \in Envs, s \in Symbols, i \in Ids, k \in Kinds :
       h.cell[f][s] = Trap(i) => ListOf(h.cache[i].alist[k], s)
  /\ \A i \in Ids, k \in Kinds : In(h, i, k) # {} => h.trap[i] = i
  /\ \A i, j \in Ids, k \in Kinds : i # j => In(h, i, k) \cap In(h, j, k) = {}
  /\ \A i \in Ids, k \in Kinds : \A r \in In(h, i, k) : r.kind = k /\ r \in program.refs

\* The locations hold what install_cache writes, but for some references.
LocsOK(h, S) ==
  \A i \in Ids, k \in Kinds : \A r \in In(h, i, k) \ S : h.loc[r] = Installed(h, i, k)

\* Assignments trap where operators depend on the value.
CloneOK(h, i) ==
  In(h, i, "assignment") # {} /\ In(h, i, "operator") # {} => h.cache[i].clone

Held(h, S) == h \in HeapType /\ CellsOK(h) /\ ListsOK(h) /\ LocsOK(h, S)

LEMMA KindsDiffer == Kinds = {"lookup", "assignment", "operator"}
                     /\ "lookup" # "assignment" /\ "lookup" # "operator"
                     /\ "assignment" # "operator"
BY DEF Kinds

LEMMA ListIsAlist ==
  ASSUME NEW s \in Symbols, NEW a, ListOf(a, s)
  PROVE  a \in Alists
<1>1. \A R \in SUBSET Refs : Entry(s, R) \in [sym : Symbols, refs : SUBSET Refs]
  BY DEF Entry
<1>2. CASE a = <<>>
  BY <1>2 DEF Alists
<1>3. ASSUME NEW R \in SUBSET Refs, a = <<Entry(s, R)>> PROVE a \in Alists
  <2>1. PICK x \in [sym : Symbols, refs : SUBSET Refs] : a = <<x>>
    BY <1>1, <1>3
  <2>2. QED
    BY <2>1 DEF Alists
<1>4. QED
  BY <1>2, <1>3 DEF ListOf

LEMMA RefsAreRefs ==
  ASSUME NEW h, ListsOK(h), NEW i \in Ids, NEW k \in Kinds
  PROVE  In(h, i, k) \subseteq Refs
<1>1. PICK s \in Symbols : ListOf(h.cache[i].alist[k], s)
  BY DEF ListsOK
<1>2. QED
  BY <1>1, WalkedList DEF In

LEMMA InstalledIsLoc ==
  ASSUME NEW h, h \in HeapType, NEW i \in Ids, NEW k \in Kinds
  PROVE  Installed(h, i, k) \in Locs
BY DEF Installed, Kinds, Locs

LEMMA HeldMonotone ==
  ASSUME NEW h, NEW S, NEW T, Held(h, S), S \subseteq T
  PROVE  Held(h, T)
BY DEF Held, LocsOK

\* install_cache for a set of references of one cache.
InstallFits(h, i, T, S) ==
  /\ Held(h, S) /\ i \in Ids /\ T \in SUBSET Refs
  /\ \A r \in T : \A j \in Ids \ {i}, k \in Kinds : r \notin In(h, j, k)

InstalledIn(h, g, i, T, S) ==
  /\ Held(g, S \ T)
  /\ g.cell = h.cell /\ g.trap = h.trap /\ g.cache = h.cache
  /\ \A r \in Refs : g.loc[r] = IF r \in T THEN Installed(h, i, r.kind) ELSE h.loc[r]

LEMMA InstallHolds ==
  ASSUME NEW h, NEW i, NEW T, NEW S, InstallFits(h, i, T, S)
  PROVE  InstalledIn(h, Install(h, i, T), i, T, S)
<1> USE DEF InstallFits
<1> DEFINE g == Install(h, i, T)
<1>1. h \in HeapType
  BY DEF Held
<1>2. /\ g.cell = h.cell /\ g.trap = h.trap /\ g.cache = h.cache
      /\ g.loc = [r \in Refs |-> IF r \in T THEN Installed(h, i, r.kind) ELSE h.loc[r]]
      /\ g = [cell |-> h.cell, trap |-> h.trap, cache |-> h.cache, loc |-> g.loc]
  BY <1>1 DEF Install, HeapType
<1>3. g.loc \in [Refs -> Locs]
  <2>1. \A r \in Refs : r.kind \in Kinds /\ h.loc[r] \in Locs
    BY <1>1, ProgramAssumption DEF HeapType
  <2>2. \A r \in Refs : Installed(h, i, r.kind) \in Locs
    BY <1>1, <2>1, InstalledIsLoc
  <2> HIDE DEF g
  <2>3. QED
    BY <1>2, <2>1, <2>2
<1>4. g \in HeapType
  <2> HIDE DEF g
  <2>1. QED
    BY <1>1, <1>2, <1>3 DEF HeapType
<1>5. \A j, k : In(g, j, k) = In(h, j, k) /\ Installed(g, j, k) = Installed(h, j, k)
  <2> HIDE DEF g
  <2>1. QED
    BY <1>2 DEF In, Installed
<1>6. CellsOK(g)
  <2> HIDE DEF g
  <2>1. QED
    BY <1>2 DEF Held, CellsOK
<1>7. ListsOK(g)
  <2> HIDE DEF g
  <2>1. QED
    BY <1>2, <1>5 DEF Held, ListsOK
<1>8. LocsOK(g, S \ T)
  <2> HIDE DEF g
  <2>1. SUFFICES ASSUME NEW j \in Ids, NEW k \in Kinds, NEW r \in In(h, j, k) \ (S \ T)
                 PROVE  g.loc[r] = Installed(h, j, k)
    BY <1>5 DEF LocsOK
  <2>2. r \in Refs /\ r.kind = k
    BY RefsAreRefs DEF Held, ListsOK
  <2>3. CASE r \in T
    BY <1>2, <2>2, <2>3
  <2>4. CASE r \notin T
    BY <1>2, <2>2, <2>4 DEF Held, LocsOK
  <2>5. QED
    BY <2>3, <2>4
<1>9. QED
  BY <1>2, <1>4, <1>6, <1>7, <1>8 DEF Held, InstalledIn

\* A cache c instead of h's number i, with references of its own in its lists; the ones
\* not in T are installed.
CacheFits(h, i, c, T) ==
  /\ i \in Ids /\ c \in Caches
  /\ \A k \in Kinds :
       /\ \E s \in Symbols : ListOf(c.alist[k], s)
       /\ \A f \in Envs, s \in Symbols : h.cell[f][s] = Trap(i) => ListOf(c.alist[k], s)
       /\ InAlist(c.alist[k]) # {} => h.trap[i] = i
       /\ \A r \in InAlist(c.alist[k]) :
            /\ r.kind = k /\ r \in program.refs
            /\ \A j \in Ids \ {i} : r \notin In(h, j, k)
            /\ r \in T \/ h.loc[r] = Installed([h EXCEPT !.cache[i] = c], i, k)

LEMMA CacheHolds ==
  ASSUME NEW h, NEW S, Held(h, S), NEW i, NEW c, NEW T, CacheFits(h, i, c, T), S \subseteq T
  PROVE  LET g == [h EXCEPT !.cache[i] = c]
         IN /\ Held(g, T)
            /\ g.cell = h.cell /\ g.trap = h.trap /\ g.loc = h.loc
            /\ g.cache[i] = c /\ \A j \in Ids \ {i} : g.cache[j] = h.cache[j]
<1> DEFINE g == [h EXCEPT !.cache[i] = c]
<1>0. /\ i \in Ids /\ c \in Caches
      /\ \A k \in Kinds :
           /\ \E s \in Symbols : ListOf(c.alist[k], s)
           /\ \A f \in Envs, s \in Symbols : h.cell[f][s] = Trap(i) => ListOf(c.alist[k], s)
           /\ InAlist(c.alist[k]) # {} => h.trap[i] = i
           /\ \A r \in InAlist(c.alist[k]) :
                /\ r.kind = k /\ r \in program.refs
                /\ \A j \in Ids \ {i} : r \notin In(h, j, k)
                /\ r \in T \/ h.loc[r] = Installed(g, i, k)
  BY DEF CacheFits
<1>1. h \in HeapType
  BY DEF Held
<1>2. /\ g.cell = h.cell /\ g.trap = h.trap /\ g.loc = h.loc
      /\ g.cache = [h.cache EXCEPT ![i] = c]
      /\ g = [cell |-> h.cell, trap |-> h.trap, cache |-> g.cache, loc |-> h.loc]
  BY <1>1, <1>0 DEF HeapType
<1> HIDE DEF g
<1>3. g.cache \in [Ids -> Caches] /\ g.cache[i] = c
      /\ \A j \in Ids \ {i} : g.cache[j] = h.cache[j]
  BY <1>0, <1>1, <1>2 DEF HeapType
<1>4. g \in HeapType
  BY <1>1, <1>2, <1>3 DEF HeapType
<1>5. \A j \in Ids \ {i}, k \in Kinds :
        In(g, j, k) = In(h, j, k) /\ Installed(g, j, k) = Installed(h, j, k)
  BY <1>3 DEF In, Installed
<1>6. \A k \in Kinds : In(g, i, k) = InAlist(c.alist[k])
  BY <1>3 DEF In
<1>7. CellsOK(g)
  BY <1>2 DEF Held, CellsOK
<1>8. ListsOK(g)
  <2>1. ASSUME NEW j \in Ids, NEW k \in Kinds
        PROVE  /\ \E s \in Symbols : ListOf(g.cache[j].alist[k], s)
               /\ \A f \in Envs, s \in Symbols : g.cell[f][s] = Trap(j) => ListOf(g.cache[j].alist[k], s)
    <3>1. CASE j = i
      BY <1>0, <1>2, <1>3, <3>1
    <3>2. CASE j # i
      BY <1>2, <1>3, <3>2 DEF Held, ListsOK
    <3>3. QED
      BY <3>1, <3>2
  <2>2. ASSUME NEW j \in Ids, NEW k \in Kinds
        PROVE  /\ In(g, j, k) # {} => g.trap[j] = j
               /\ \A r \in In(g, j, k) : r.kind = k /\ r \in program.refs
    BY <1>0, <1>2, <1>5, <1>6 DEF Held, ListsOK
  <2>3. ASSUME NEW j \in Ids, NEW l \in Ids, NEW k \in Kinds, j # l
        PROVE  In(g, j, k) \cap In(g, l, k) = {}
    BY <1>0, <1>5, <1>6, <2>3 DEF Held, ListsOK
  <2>4. QED
    BY <1>2, <2>1, <2>2, <2>3 DEF Held, ListsOK
<1>9. LocsOK(g, T)
  <2>1. SUFFICES ASSUME NEW j \in Ids, NEW k \in Kinds, NEW r \in In(g, j, k) \ T
                 PROVE  g.loc[r] = Installed(g, j, k)
    BY DEF LocsOK
  <2>2. CASE j = i
    BY <1>0, <1>2, <1>6, <2>2
  <2>3. CASE j # i
    BY <1>2, <1>5, <2>3 DEF Held, LocsOK
  <2>4. QED
    BY <2>2, <2>3
<1>10. QED
  BY <1>2, <1>3, <1>4, <1>7, <1>8, <1>9 DEF Held, g

\* A cache with another list.
WithList(c, k, L) ==
  [value |-> c.value, clone |-> c.clone, alist |-> [c.alist EXCEPT ![k] = L]]

LEMMA WithListIs ==
  ASSUME NEW c \in Caches, NEW k \in Kinds, NEW L \in Alists
  PROVE  /\ WithList(c, k, L) \in Caches
         /\ WithList(c, k, L).value = c.value /\ WithList(c, k, L).clone = c.clone
         /\ \A l \in Kinds : WithList(c, k, L).alist[l] = IF l = k THEN L ELSE c.alist[l]
BY DEF WithList, Caches

LEMMA SetListIs ==
  ASSUME NEW h, NEW i, NEW k, NEW L, h.cache[i] \in Caches
  PROVE  SetList(h, i, k, L) = [h EXCEPT !.cache[i] = WithList(h.cache[i], k, L)]
<1> DEFINE c == h.cache[i]
<1>1. c = [value |-> c.value, clone |-> c.clone, alist |-> c.alist]
  BY DEF Caches
<1>2. SetList(h, i, k, L) = [h EXCEPT !.cache[i] = [c EXCEPT !.alist[k] = L]]
  BY DEF SetList
<1> HIDE DEF c
<1>3. [c EXCEPT !.alist[k] = L] = WithList(c, k, L)
  BY <1>1 DEF WithList
<1>4. QED
  BY <1>2, <1>3 DEF c

\* The references some cache knows.
Known(h) == {r \in Refs : \E i \in Ids : r \in In(h, i, r.kind)}

\* A location install_cache may write for r.
LocFits(r, l) ==
  l \in Locs /\ l # NotLinked /\ (r.kind = "assignment" => l \in {"cache", "clone"} \X Ids)

LEMMA InstalledFits ==
  ASSUME NEW h, h \in HeapType, NEW i \in Ids, NEW r, r.kind \in Kinds
  PROVE  LocFits(r, Installed(h, i, r.kind))
<1>1. Installed(h, i, r.kind) \in Locs
  BY InstalledIsLoc
<1>2. r.kind = "lookup" \/ r.kind = "assignment" \/ r.kind = "operator"
  BY DEF Kinds
<1>3. CASE r.kind = "lookup"
  BY <1>1, <1>3 DEF LocFits, Installed, NotLinked
<1>4. CASE r.kind = "assignment"
  BY <1>1, <1>4 DEF LocFits, Installed, NotLinked
<1>5. CASE r.kind = "operator"
  BY <1>1, <1>5 DEF LocFits, Installed, NotLinked
<1>6. QED
  BY <1>2, <1>3, <1>4, <1>5

\* update_clone changes what assignments trap on, and nothing else.
CloneUpdated(h, g, i, S) ==
  /\ Held(g, S) /\ CloneOK(g, i)
  /\ g.cell = h.cell /\ g.trap = h.trap
  /\ g.cache[i].value = h.cache[i].value
  /\ \A j \in Ids \ {i} : g.cache[j] = h.cache[j]
  /\ \A k \in Kinds : In(g, i, k) = In(h, i, k)
  /\ \A r \in Refs : g.loc[r] = h.loc[r] \/ (r \in Known(h) /\ LocFits(r, g.loc[r]))

LEMMA UpdateCloneHolds ==
  ASSUME NEW h, NEW S, Held(h, S), NEW i \in Ids
  PROVE  CloneUpdated(h, UpdateClone(h, i), i, S)
<1> DEFINE a == h.cache[i].alist["assignment"]
           want == a # <<>> /\ h.cache[i].alist["operator"] # <<>>
           c == [value |-> h.cache[i].value, clone |-> want,
                 alist |-> [h.cache[i].alist EXCEPT !["assignment"] = Walked(a)]]
           m == [h EXCEPT !.cache[i] = c]
           A == In(h, i, "assignment")
<1>1. h \in HeapType /\ ListsOK(h) /\ LocsOK(h, S) /\ "assignment" \in Kinds /\ "operator" \in Kinds
      /\ h.cache[i] \in Caches
  BY DEF Held, Kinds, HeapType
<1>2. PICK s \in Symbols : ListOf(a, s)
  BY <1>1 DEF ListsOK
<1>3. ListOf(Walked(a), s) /\ InAlist(Walked(a)) = InAlist(a) /\ Walked(a) \in Alists
  BY <1>2, WalkedList, ListIsAlist
<1>4. CASE want = h.cache[i].clone
  <2>1. UpdateClone(h, i) = h
    BY <1>4 DEF UpdateClone
  <2>2. In(h, i, "assignment") # {} /\ In(h, i, "operator") # {} => want
    BY EmptyAlist DEF In
  <2>3. QED
    BY <1>4, <2>1, <2>2 DEF CloneOK, CloneUpdated
<1>5. CASE want # h.cache[i].clone
  <2>1. UpdateClone(h, i) = Install(m, i, A)
    <3>1. [SetList(h, i, "assignment", Walked(a)) EXCEPT !.cache[i] = [@ EXCEPT !.clone = want]] = m
      <4> DEFINE d == WithList(h.cache[i], "assignment", Walked(a))
                 n == [h EXCEPT !.cache[i] = d]
      <4>1. SetList(h, i, "assignment", Walked(a)) = n
        BY <1>1, SetListIs
      <4>2. d = [value |-> h.cache[i].value, clone |-> h.cache[i].clone,
                 alist |-> [h.cache[i].alist EXCEPT !["assignment"] = Walked(a)]]
        BY DEF WithList
      <4> HIDE DEF d
      <4>3. [d EXCEPT !.clone = want] = c
        BY <4>2
      <4>4. n.cache[i] = d
        BY <1>1 DEF HeapType
      <4>5. [n EXCEPT !.cache[i] = c] = [h EXCEPT !.cache[i] = c]
        BY <4>4
      <4> HIDE DEF n, c
      <4>6. QED
        BY <4>1, <4>3, <4>4, <4>5
    <3>2. InAlist(Walked(a)) = A
      BY <1>3 DEF In
    <3>3. QED
      BY <1>5, <3>1, <3>2 DEF UpdateClone
  <2>2. c \in Caches
    BY <1>1, <1>3 DEF Caches
  <2>3. \A k \in Kinds :
           /\ \A t \in Symbols : ListOf(h.cache[i].alist[k], t) => ListOf(c.alist[k], t)
           /\ InAlist(c.alist[k]) = In(h, i, k)
    <3>1. \A k \in Kinds : c.alist[k] = IF k = "assignment" THEN Walked(a) ELSE h.cache[i].alist[k]
      BY <1>1 DEF Caches
    <3>2. QED
      BY <1>3, <3>1, WalkedList DEF In
  <2> HIDE DEF c, m
  <2>4. \A k \in Kinds : k # "assignment" => Installed(m, i, k) = Installed(h, i, k)
    <3>1. m.cache[i] = c /\ c.value = h.cache[i].value
      BY <1>1 DEF HeapType, m, c
    <3>2. QED
      BY <3>1 DEF Installed, Kinds
  <2>5. ASSUME NEW k \in Kinds, NEW r \in In(h, i, k)
        PROVE  /\ r.kind = k /\ r \in program.refs /\ \A j \in Ids \ {i} : r \notin In(h, j, k)
               /\ r \in S \cup A \/ h.loc[r] = Installed(m, i, k)
               /\ h.trap[i] = i
    BY <1>1, <2>4 DEF ListsOK, LocsOK
  <2>6. /\ Held(m, S \cup A)
        /\ m.cell = h.cell /\ m.trap = h.trap /\ m.loc = h.loc
        /\ m.cache[i] = c /\ \A j \in Ids \ {i} : m.cache[j] = h.cache[j]
    <3>1. \A k \in Kinds : /\ \E t \in Symbols : ListOf(c.alist[k], t)
                           /\ \A f \in Envs, t \in Symbols : h.cell[f][t] = Trap(i) => ListOf(c.alist[k], t)
      BY <1>1, <2>3 DEF ListsOK
    <3>3. CacheFits(h, i, c, S \cup A)
      BY <2>2, <2>3, <2>5, <3>1 DEF CacheFits, m
    <3>4. QED
      BY <3>3, CacheHolds DEF m
  <2>7. \A j \in Ids, k \in Kinds : In(m, j, k) = In(h, j, k)
    BY <2>3, <2>6 DEF In
  <2>8. A \in SUBSET Refs /\ \A r \in A : \A j \in Ids \ {i}, k \in Kinds : r \notin In(m, j, k)
    BY <1>1, <2>7, RefsAreRefs DEF ListsOK
  <2> DEFINE g == Install(m, i, A)
  <2>9. /\ Held(g, (S \cup A) \ A)
        /\ g.cell = m.cell /\ g.trap = m.trap /\ g.cache = m.cache
        /\ \A r \in Refs : g.loc[r] = IF r \in A THEN Installed(m, i, r.kind) ELSE m.loc[r]
    <3>1. InstallFits(m, i, A, S \cup A)
      BY <2>6, <2>8 DEF InstallFits
    <3>2. InstalledIn(m, g, i, A, S \cup A)
      BY <3>1, InstallHolds
    <3>3. QED
      BY <3>2 DEF InstalledIn
  <2> HIDE DEF g
  <2>10. Held(g, S)
    BY <2>9, HeldMonotone
  <2>11. \A k \in Kinds : /\ In(g, i, k) = In(h, i, k)
                          /\ \A t \in Symbols : ListOf(h.cache[i].alist[k], t) =>
                               ListOf(g.cache[i].alist[k], t)
    BY <2>3, <2>6, <2>7, <2>9 DEF In
  <2>12. CloneOK(g, i)
    <3>1. c.clone = want
      BY DEF c
    <3>2. In(h, i, "assignment") # {} /\ In(h, i, "operator") # {} => want
      BY EmptyAlist DEF In
    <3>3. QED
      BY <1>1, <2>6, <2>9, <2>11, <3>1, <3>2 DEF CloneOK
  <2>13. g.cache[i].value = h.cache[i].value
    BY <2>6, <2>9 DEF c
  <2>14. \A r \in Refs : g.loc[r] = h.loc[r] \/ (r \in Known(h) /\ LocFits(r, g.loc[r]))
    <3>1. m \in HeapType
      BY <2>6 DEF Held
    <3>2. \A r \in Refs : r.kind \in Kinds
      BY ProgramAssumption
    <3>3. \A r \in Refs : LocFits(r, Installed(m, i, r.kind))
      BY <3>1, <3>2, InstalledFits
    <3>4. A \subseteq Known(h)
      BY <1>1, <2>8 DEF ListsOK, Known
    <3>5. QED
      BY <2>6, <2>9, <3>3, <3>4
  <2>15. CloneUpdated(h, g, i, S)
    BY <2>6, <2>9, <2>10, <2>11, <2>12, <2>13, <2>14 DEF CloneUpdated
  <2>16. QED
    BY <2>1, <2>15 DEF g
<1>6. QED
  BY <1>4, <1>5

\* Another list for one kind of references of one cache: what it needs and what it leaves.
ListFits(h, i, k, s, L, S, T) ==
  /\ Held(h, S) /\ S \subseteq T /\ i \in Ids /\ k \in Kinds /\ s \in Symbols /\ ListOf(L, s)
  /\ \A d \in Envs, t \in Symbols : h.cell[d][t] = Trap(i) => t = s
  /\ InAlist(L) # {} => h.trap[i] = i
  /\ \A r \in InAlist(L) :
       /\ r.kind = k /\ r \in program.refs
       /\ \A j \in Ids \ {i} : r \notin In(h, j, k)
       /\ r \in T \/ r \in In(h, i, k)

ListChanged(h, g, i, k, L, T) ==
  /\ Held(g, T)
  /\ g.cell = h.cell /\ g.trap = h.trap /\ g.loc = h.loc
  /\ g.cache[i] = WithList(h.cache[i], k, L)
  /\ \A j \in Ids \ {i} : g.cache[j] = h.cache[j]
  /\ \A j \in Ids, l \in Kinds : Installed(g, j, l) = Installed(h, j, l)
  /\ \A j \in Ids, l \in Kinds :
       In(g, j, l) = IF j = i /\ l = k THEN InAlist(L) ELSE In(h, j, l)

LEMMA ListHolds ==
  ASSUME NEW h, NEW i, NEW k, NEW s, NEW L, NEW S, NEW T, ListFits(h, i, k, s, L, S, T)
  PROVE  ListChanged(h, SetList(h, i, k, L), i, k, L, T)
<1> USE DEF ListFits
<1> DEFINE c == WithList(h.cache[i], k, L)
           g == [h EXCEPT !.cache[i] = c]
<1>1. h \in HeapType /\ h.cache[i] \in Caches /\ ListsOK(h) /\ LocsOK(h, S)
  BY DEF Held, HeapType
<1>2. /\ c \in Caches /\ c.value = h.cache[i].value /\ c.clone = h.cache[i].clone
      /\ \A l \in Kinds : c.alist[l] = IF l = k THEN L ELSE h.cache[i].alist[l]
  <2>1. L \in Alists
    BY ListIsAlist
  <2>2. QED
    BY <1>1, <2>1, WithListIs
<1> HIDE DEF c
<1>3. g.cache[i] = c /\ \A j \in Ids \ {i} : g.cache[j] = h.cache[j]
  BY <1>1 DEF HeapType
<1> HIDE DEF g
<1>4. \A j \in Ids, l \in Kinds : Installed(g, j, l) = Installed(h, j, l)
  BY <1>2, <1>3 DEF Installed
<1>5. \A j \in Ids, l \in Kinds :
        In(g, j, l) = IF j = i /\ l = k THEN InAlist(L) ELSE In(h, j, l)
  BY <1>2, <1>3 DEF In
<1>6. CacheFits(h, i, c, T)
  <2>1. ASSUME NEW l \in Kinds
        PROVE  /\ \E t \in Symbols : ListOf(c.alist[l], t)
               /\ \A f \in Envs, t \in Symbols : h.cell[f][t] = Trap(i) => ListOf(c.alist[l], t)
    BY <1>1, <1>2 DEF ListsOK
  <2>2. ASSUME NEW l \in Kinds
        PROVE  InAlist(c.alist[l]) # {} => h.trap[i] = i
    BY <1>1, <1>2 DEF ListsOK, In
  <2>3. ASSUME NEW l \in Kinds, NEW r \in InAlist(c.alist[l])
        PROVE  /\ r.kind = l /\ r \in program.refs
               /\ \A j \in Ids \ {i} : r \notin In(h, j, l)
               /\ r \in T \/ h.loc[r] = Installed(g, i, l)
    <3>1. CASE l = k
      BY <1>1, <1>2, <1>4, <2>3, <3>1 DEF LocsOK
    <3>2. CASE l # k
      <4>1. r \in In(h, i, l)
        BY <1>2, <2>3, <3>2 DEF In
      <4>2. QED
        BY <1>1, <1>4, <4>1 DEF ListsOK, LocsOK
    <3>3. QED
      BY <3>1, <3>2
  <2>4. QED
    BY <1>2, <2>1, <2>2, <2>3 DEF CacheFits, g
<1>7. Held(g, T) /\ g.cell = h.cell /\ g.trap = h.trap /\ g.loc = h.loc
  BY <1>6, CacheHolds DEF g
<1>8. SetList(h, i, k, L) = g
  BY <1>1, SetListIs DEF g, c
<1>9. QED
  BY <1>3, <1>4, <1>5, <1>7, <1>8 DEF c, ListChanged

\* move_ref_pairs: the references of one kind made from env or inside it go from one
\* cache to another, and nothing else changes.
MovedOut(h, from, k, env) == {r \in In(h, from, k) : Inside(r, env)}

MoveFits(h, from, to, k, s, S) ==
  /\ Held(h, S) /\ from \in Ids /\ to \in Ids /\ from # to /\ k \in Kinds /\ s \in Symbols
  /\ ListOf(h.cache[from].alist[k], s) /\ ListOf(h.cache[to].alist[k], s)
  /\ \A d \in Envs, t \in Symbols : h.cell[d][t] \in {Trap(from), Trap(to)} => t = s
  /\ h.trap[to] = to

KindMoved(h, g, from, to, k, M, S) ==
  /\ Held(g, S \ M)
  /\ g.cell = h.cell /\ g.trap = h.trap
  /\ \A j \in Ids : g.cache[j].value = h.cache[j].value
  /\ \A j \in Ids, l \in Kinds : l # k \/ j \notin {from, to} =>
       g.cache[j].alist[l] = h.cache[j].alist[l]
  /\ \A j \in Ids \ {from, to} : g.cache[j] = h.cache[j]
  /\ In(g, from, k) = In(h, from, k) \ M
  /\ In(g, to, k) = In(h, to, k) \cup M
  /\ \A r \in Refs : g.loc[r] = h.loc[r] \/ (r \in M /\ g.loc[r] = Installed(h, to, k))

LEMMA MoveHolds ==
  ASSUME NEW h, NEW from, NEW to, NEW k, NEW env, NEW s, NEW S, MoveFits(h, from, to, k, s, S)
  PROVE  KindMoved(h, MoveRefPairs(h, from, to, k, env, s), from, to, k, MovedOut(h, from, k, env), S)
<1> USE DEF MoveFits
<1> DEFINE M == MovedOut(h, from, k, env)
           a == h.cache[from].alist[k]
           b == h.cache[to].alist[k]
           La == Less(a, s, M)
           Lb == AddNamed(b, s, M)
           m == SetList(h, from, k, La)
           n == SetList(m, to, k, Lb)
           g == Install(n, to, M)
<1>1. /\ h \in HeapType /\ ListsOK(h) /\ LocsOK(h, S)
      /\ h.cache[from] \in Caches /\ h.cache[to] \in Caches
  BY DEF Held, HeapType
<1>2. ToMove(a, env, s) = M /\ M \subseteq In(h, from, k) /\ M \in SUBSET Refs
  BY <1>1, MovedList, RefsAreRefs DEF In, MovedOut
<1>3. ListOf(La, s) /\ InAlist(La) = In(h, from, k) \ M
  BY LessList DEF In
<1>4. ListOf(Lb, s) /\ InAlist(Lb) = In(h, to, k) \cup M
  BY <1>2, AddedList DEF In
<1>5. La \in Alists /\ Lb \in Alists
  BY <1>3, <1>4, ListIsAlist
<1>6. MoveRefPairs(h, from, to, k, env, s) = IF M = {} THEN h ELSE g
  <2>1. m.cache[to] = h.cache[to]
    BY <1>1, SetListIs DEF HeapType
  <2>2. QED
    BY <1>2, <2>1 DEF MoveRefPairs
<1> HIDE DEF M, La, Lb, a, b
<1>7. /\ Held(m, S)
      /\ m.cell = h.cell /\ m.trap = h.trap /\ m.loc = h.loc
      /\ m.cache[from] = WithList(h.cache[from], k, La)
      /\ \A j \in Ids \ {from} : m.cache[j] = h.cache[j]
      /\ \A j \in Ids, l \in Kinds : Installed(m, j, l) = Installed(h, j, l)
      /\ \A j \in Ids, l \in Kinds :
           In(m, j, l) = IF j = from /\ l = k THEN InAlist(La) ELSE In(h, j, l)
  <2>1. \A r \in InAlist(La) :
           /\ r.kind = k /\ r \in program.refs
           /\ \A j \in Ids \ {from} : r \notin In(h, j, k)
           /\ r \in S \/ r \in In(h, from, k)
    BY <1>1, <1>3 DEF ListsOK
  <2>2. InAlist(La) # {} => h.trap[from] = from
    BY <1>1, <1>3 DEF ListsOK
  <2>3. ListFits(h, from, k, s, La, S, S)
    BY <1>3, <2>1, <2>2 DEF ListFits
  <2>4. ListChanged(h, m, from, k, La, S)
    BY <2>3, ListHolds
  <2> HIDE DEF m
  <2>5. QED
    BY <2>4 DEF ListChanged
<1> HIDE DEF m
<1>8. /\ Held(n, S \cup M)
      /\ n.cell = m.cell /\ n.trap = m.trap /\ n.loc = m.loc
      /\ n.cache[to] = WithList(m.cache[to], k, Lb)
      /\ \A j \in Ids \ {to} : n.cache[j] = m.cache[j]
      /\ \A j \in Ids, l \in Kinds : Installed(n, j, l) = Installed(m, j, l)
      /\ \A j \in Ids, l \in Kinds :
           In(n, j, l) = IF j = to /\ l = k THEN InAlist(Lb) ELSE In(m, j, l)
  <2>1. ASSUME NEW r \in InAlist(Lb)
        PROVE  /\ r.kind = k /\ r \in program.refs
               /\ \A j \in Ids \ {to} : r \notin In(m, j, k)
               /\ r \in S \cup M \/ r \in In(m, to, k)
    <3>1. CASE r \in M
      BY <1>1, <1>2, <1>3, <1>7, <3>1 DEF ListsOK
    <3>2. CASE r \in In(h, to, k)
      BY <1>1, <1>3, <1>7, <3>2 DEF ListsOK
    <3>3. QED
      BY <1>4, <3>1, <3>2
  <2>2. Held(m, S) /\ m.trap[to] = to
        /\ \A d \in Envs, t \in Symbols : m.cell[d][t] = Trap(to) => t = s
    BY <1>7
  <2>3. S \subseteq S \cup M
    OBVIOUS
  <2>4. ListFits(m, to, k, s, Lb, S, S \cup M)
    BY <1>4, <1>7, <2>1, <2>2, <2>3 DEF ListFits
  <2>5. ListChanged(m, n, to, k, Lb, S \cup M)
    BY <2>4, ListHolds
  <2> HIDE DEF n
  <2>6. QED
    BY <2>5 DEF ListChanged
<1> HIDE DEF n
<1>9. /\ Held(g, (S \cup M) \ M)
      /\ g.cell = n.cell /\ g.trap = n.trap /\ g.cache = n.cache
      /\ \A r \in Refs : g.loc[r] = IF r \in M THEN Installed(n, to, r.kind) ELSE n.loc[r]
  <2>1. \A r \in M : \A j \in Ids \ {to}, l \in Kinds : r \notin In(n, j, l)
    BY <1>1, <1>2, <1>3, <1>7, <1>8 DEF ListsOK
  <2>2. InstallFits(n, to, M, S \cup M)
    BY <1>2, <1>8, <2>1 DEF InstallFits
  <2>3. InstalledIn(n, g, to, M, S \cup M)
    BY <2>2, InstallHolds
  <2> HIDE DEF g
  <2>4. QED
    BY <2>3 DEF InstalledIn
<1> HIDE DEF g
<1>10. Held(g, S \ M)
  <2>1. (S \cup M) \ M = S \ M
    OBVIOUS
  <2>2. QED
    BY <1>9, <2>1
<1>11. \A j \in Ids, l \in Kinds :
         /\ g.cache[j].value = h.cache[j].value
         /\ l # k \/ j \notin {from, to} => g.cache[j].alist[l] = h.cache[j].alist[l]
  <2>1. \A j \in Ids, l \in Kinds :
          /\ m.cache[j].value = h.cache[j].value
          /\ l # k \/ j # from => m.cache[j].alist[l] = h.cache[j].alist[l]
    <3>1. /\ m.cache[from].value = h.cache[from].value
          /\ \A l \in Kinds : l # k => m.cache[from].alist[l] = h.cache[from].alist[l]
      BY <1>1, <1>5, <1>7, WithListIs
    <3>2. QED
      BY <1>7, <3>1
  <2>2. \A j \in Ids, l \in Kinds :
          /\ n.cache[j].value = m.cache[j].value
          /\ l # k \/ j # to => n.cache[j].alist[l] = m.cache[j].alist[l]
    <3>1. m.cache[to] \in Caches
      BY <1>7 DEF Held, HeapType
    <3>2. /\ n.cache[to].value = m.cache[to].value
          /\ \A l \in Kinds : l # k => n.cache[to].alist[l] = m.cache[to].alist[l]
      BY <1>5, <1>8, <3>1, WithListIs
    <3>3. QED
      BY <1>8, <3>2
  <2>3. QED
    BY <1>9, <2>1, <2>2
<1>12. \A j \in Ids : In(g, j, k) = In(n, j, k)
  BY <1>9 DEF In
<1>13. In(g, from, k) = In(h, from, k) \ M /\ In(g, to, k) = In(h, to, k) \cup M
  BY <1>3, <1>4, <1>7, <1>8, <1>12
<1>14. \A r \in Refs : g.loc[r] = h.loc[r] \/ (r \in M /\ g.loc[r] = Installed(h, to, k))
  <2>1. \A r \in M : r.kind = k
    BY <1>1, <1>2 DEF ListsOK
  <2>2. SUFFICES ASSUME NEW r \in Refs
                 PROVE  g.loc[r] = h.loc[r] \/ (r \in M /\ g.loc[r] = Installed(h, to, k))
    OBVIOUS
  <2>3. CASE r \in M
    <3>1. g.loc[r] = Installed(n, to, k)
      BY <1>9, <2>1, <2>3
    <3>2. QED
      BY <1>7, <1>8, <2>3, <3>1
  <2>4. CASE r \notin M
    <3>1. g.loc[r] = n.loc[r]
      BY <1>9, <2>4
    <3>2. n.loc = h.loc
      BY <1>7, <1>8
    <3>3. QED
      BY <3>1, <3>2
  <2>5. QED
    BY <2>3, <2>4
<1>15. \A j \in Ids \ {from, to} : g.cache[j] = h.cache[j]
  BY <1>7, <1>8, <1>9
<1>16. \A j \in Ids : g.cache[j].value = h.cache[j].value
  BY <1>11, KindsDiffer
<1>17. KindMoved(h, g, from, to, k, M, S)
  BY <1>7, <1>8, <1>9, <1>10, <1>11, <1>13, <1>14, <1>15, <1>16 DEF KindMoved
<1>18. ASSUME M = {} PROVE KindMoved(h, h, from, to, k, M, S)
  <2>1. Held(h, S \ M)
    <3>1. S \ M = S
      BY <1>18
    <3>2. QED
      BY <3>1
  <2>2. In(h, from, k) = In(h, from, k) \ M /\ In(h, to, k) = In(h, to, k) \cup M
    BY <1>18
  <2>3. QED
    BY <2>1, <2>2 DEF KindMoved
<1>19. QED
  BY <1>6, <1>17, <1>18 DEF M, g

AllOut(h, from, env) == UNION {MovedOut(h, from, k, env) : k \in Kinds}

AllMoved(h, g, from, to, env, S) ==
  /\ Held(g, S \ AllOut(h, from, env))
  /\ g.cell = h.cell /\ g.trap = h.trap
  /\ \A j \in Ids : g.cache[j].value = h.cache[j].value
  /\ \A j \in Ids \ {from, to} : g.cache[j] = h.cache[j]
  /\ \A k \in Kinds : /\ In(g, from, k) = In(h, from, k) \ MovedOut(h, from, k, env)
                      /\ In(g, to, k) = In(h, to, k) \cup MovedOut(h, from, k, env)
  /\ \A r \in Refs : g.loc[r] = h.loc[r] \/ (r \in Known(h) /\ LocFits(r, g.loc[r]))

LEMMA MoveKindsHolds ==
  ASSUME NEW h, NEW from, NEW to, NEW env, NEW s, NEW S,
         \A k \in Kinds : MoveFits(h, from, to, k, s, S)
  PROVE  AllMoved(h, MoveKinds(h, from, to, env, s), from, to, env, S)
<1> DEFINE a == MoveRefPairs(h, from, to, "lookup", env, s)
           b == MoveRefPairs(a, from, to, "assignment", env, s)
           c == MoveRefPairs(b, from, to, "operator", env, s)
           M(k) == MovedOut(h, from, k, env)
           Sa == S \ M("lookup")
           Sb == Sa \ M("assignment")
           Sc == Sb \ M("operator")
<1>0. /\ "lookup" \in Kinds /\ "assignment" \in Kinds /\ "operator" \in Kinds
      /\ "lookup" # "assignment" /\ "lookup" # "operator" /\ "assignment" # "operator"
      /\ from \in Ids /\ to \in Ids
  BY KindsDiffer DEF MoveFits
<1>1. MoveKinds(h, from, to, env, s) = c
  BY DEF MoveKinds
<1>2. KindMoved(h, a, from, to, "lookup", M("lookup"), S)
  BY <1>0, MoveHolds
<1> HIDE DEF a
<1>3. /\ MoveFits(a, from, to, "assignment", s, Sa)
      /\ MovedOut(a, from, "assignment", env) = M("assignment")
  BY <1>0, <1>2 DEF KindMoved, MoveFits, MovedOut, In
<1>4. KindMoved(a, b, from, to, "assignment", M("assignment"), Sa)
  BY <1>3, MoveHolds
<1> HIDE DEF b
<1>5. /\ MoveFits(b, from, to, "operator", s, Sb)
      /\ MovedOut(b, from, "operator", env) = M("operator")
  <2>1. \A j \in {from, to} : b.cache[j].alist["operator"] = h.cache[j].alist["operator"]
    BY <1>0, <1>2, <1>4 DEF KindMoved
  <2>2. b.cell = h.cell /\ b.trap = h.trap /\ Held(b, Sb)
    BY <1>2, <1>4 DEF KindMoved
  <2>3. MoveFits(h, from, to, "operator", s, S)
    BY <1>0
  <2>4. MoveFits(b, from, to, "operator", s, Sb)
    BY <2>1, <2>2, <2>3 DEF MoveFits
  <2>5. QED
    BY <2>1, <2>4 DEF MovedOut, In
<1>6. KindMoved(b, c, from, to, "operator", M("operator"), Sb)
  BY <1>5, MoveHolds
<1> HIDE DEF c
<1>7. Sc = S \ AllOut(h, from, env)
  <2>1. \A k : k \in Kinds <=> k = "lookup" \/ k = "assignment" \/ k = "operator"
    BY DEF Kinds
  <2>2. AllOut(h, from, env) = M("lookup") \cup M("assignment") \cup M("operator")
    BY <2>1 DEF AllOut
  <2>3. QED
    BY <2>2
<1>8. /\ Held(c, S \ AllOut(h, from, env)) /\ c.cell = h.cell /\ c.trap = h.trap
      /\ \A j \in Ids : c.cache[j].value = h.cache[j].value
      /\ \A j \in Ids \ {from, to} : c.cache[j] = h.cache[j]
  BY <1>2, <1>4, <1>6, <1>7 DEF KindMoved
<1>9. ASSUME NEW k \in Kinds
      PROVE  /\ In(c, from, k) = In(h, from, k) \ M(k)
             /\ In(c, to, k) = In(h, to, k) \cup M(k)
  <2>1. ASSUME NEW j \in {from, to}
        PROVE  /\ In(c, j, "lookup") = In(a, j, "lookup")
               /\ In(c, j, "assignment") = In(b, j, "assignment")
               /\ In(b, j, "operator") = In(h, j, "operator")
               /\ In(a, j, "assignment") = In(h, j, "assignment")
    BY <1>0, <1>2, <1>4, <1>6 DEF KindMoved, In
  <2>2. CASE k = "lookup"
    BY <1>2, <2>1, <2>2 DEF KindMoved
  <2>3. CASE k = "assignment"
    BY <1>4, <2>1, <2>3 DEF KindMoved
  <2>4. CASE k = "operator"
    BY <1>6, <2>1, <2>4 DEF KindMoved
  <2>5. QED
    BY <2>2, <2>3, <2>4 DEF Kinds
<1>10. ASSUME NEW r \in Refs
       PROVE  c.loc[r] = h.loc[r] \/ (r \in Known(h) /\ LocFits(r, c.loc[r]))
  <2>1. \A k \in Kinds : \A q \in M(k) : q.kind = k
    BY <1>0 DEF MoveFits, Held, ListsOK, MovedOut
  <2>9. ASSUME NEW k \in Kinds, r \in M(k) PROVE r \in Known(h) /\ r.kind = k
    BY <1>0, <2>1, <2>9 DEF MovedOut, Known
  <2>2. h \in HeapType /\ a \in HeapType /\ b \in HeapType
    BY <1>0, <1>2, <1>4 DEF MoveFits, KindMoved, Held
  <2>3. r.kind \in Kinds
    BY ProgramAssumption
  <2>4. \A g \in {h, a, b} : LocFits(r, Installed(g, to, r.kind))
    BY <1>0, <2>2, <2>3, InstalledFits
  <2>5. c.loc[r] = b.loc[r] \/ (r \in Known(h) /\ c.loc[r] = Installed(b, to, r.kind))
    <3>1. c.loc[r] = b.loc[r] \/ (r \in M("operator") /\ c.loc[r] = Installed(b, to, "operator"))
      BY <1>6 DEF KindMoved
    <3>2. QED
      BY <1>0, <2>9, <3>1
  <2>6. b.loc[r] = a.loc[r] \/ (r \in Known(h) /\ b.loc[r] = Installed(a, to, r.kind))
    <3>1. b.loc[r] = a.loc[r] \/ (r \in M("assignment") /\ b.loc[r] = Installed(a, to, "assignment"))
      BY <1>4 DEF KindMoved
    <3>2. QED
      BY <1>0, <2>9, <3>1
  <2>7. a.loc[r] = h.loc[r] \/ (r \in Known(h) /\ a.loc[r] = Installed(h, to, r.kind))
    <3>1. a.loc[r] = h.loc[r] \/ (r \in M("lookup") /\ a.loc[r] = Installed(h, to, "lookup"))
      BY <1>2 DEF KindMoved
    <3>2. QED
      BY <1>0, <2>9, <3>1
  <2>8. QED
    BY <2>4, <2>5, <2>6, <2>7
<1>11. AllMoved(h, c, from, to, env, S)
  BY <1>8, <1>9, <1>10 DEF AllMoved
<1>12. QED
  BY <1>1, <1>11

LEMMA TrapsDiffer ==
  ASSUME NEW i, NEW j, Trap(i) = Trap(j)
  PROVE  i = j
BY DEF Trap

\* Another object in a cell.
CellChanged(h, g, f, s, v) ==
  /\ g.cell = [h.cell EXCEPT ![f][s] = v]
  /\ g = [cell |-> g.cell, trap |-> h.trap, cache |-> h.cache, loc |-> h.loc]
  /\ g.cell[f][s] = v
  /\ \A d \in Envs, t \in Symbols : d # f \/ t # s => g.cell[d][t] = h.cell[d][t]
  /\ v \in Plain \cup CellTraps \cup {NoCell} => g \in HeapType

LEMMA SetCellIs ==
  ASSUME NEW h, h \in HeapType, NEW f \in Envs, NEW s \in Symbols, NEW v
  PROVE  CellChanged(h, SetCell(h, f, s, v), f, s, v)
<1> DEFINE n == [h.cell EXCEPT ![f] = [h.cell[f] EXCEPT ![s] = v]]
           g == [h EXCEPT !.cell = n]
<1>1. SetCell(h, f, s, v) = g
  BY DEF SetCell
<1>2. n = [h.cell EXCEPT ![f][s] = v]
  OBVIOUS
<1>3. h.cell \in [Envs -> [Symbols -> Plain \cup CellTraps \cup {NoCell}]]
      /\ h = [cell |-> h.cell, trap |-> h.trap, cache |-> h.cache, loc |-> h.loc]
  BY DEF HeapType
<1>4. /\ n[f][s] = v
      /\ \A d \in Envs, t \in Symbols : d # f \/ t # s => n[d][t] = h.cell[d][t]
      /\ v \in Plain \cup CellTraps \cup {NoCell} =>
           n \in [Envs -> [Symbols -> Plain \cup CellTraps \cup {NoCell}]]
  BY <1>3
<1> HIDE DEF n
<1>5. g = [cell |-> n, trap |-> h.trap, cache |-> h.cache, loc |-> h.loc]
  BY <1>3
<1> HIDE DEF g
<1>6. g.cell = n /\ (n \in [Envs -> [Symbols -> Plain \cup CellTraps \cup {NoCell}]] => g \in HeapType)
  BY <1>5 DEF HeapType
<1>7. CellChanged(h, g, f, s, v)
  BY <1>2, <1>4, <1>5, <1>6 DEF CellChanged
<1>8. QED
  BY <1>1, <1>7 DEF g

\* make_cache leaves the variable's cell with a trap, whose cache has the cell's value,
\* and changes no other cell, no reference and no location.
Guaranteed(h, g, f, s, i, S) ==
  /\ Held(g, S) /\ i \in Ids /\ g.cell[f][s] = Trap(i) /\ g.trap[i] = i
  /\ \A d \in Envs, t \in Symbols : d # f \/ t # s => g.cell[d][t] = h.cell[d][t]
  /\ g.loc = h.loc
  /\ \A j \in Ids, k \in Kinds : In(g, j, k) = In(h, j, k)
  /\ \A j \in Ids \ {i} : g.cache[j] = h.cache[j] /\ g.trap[j] = h.trap[j]
  /\ h.cell[f][s] \in CellTraps => g = h
  /\ h.cell[f][s] \notin CellTraps =>
       /\ i \in Free(h) /\ h.trap[i] = 0 /\ g.cache[i].value = h.cell[f][s]
       /\ \A k \in Kinds : In(h, i, k) = {}

\* Traps has the identities of the traps in cells.
LEMMA TrapsAre ==
  ASSUME NEW h
  PROVE  /\ Traps(h) \subseteq Ids
         /\ \A i \in Ids : i \in Traps(h) <=>
              \E f \in Envs, s \in Symbols : h.cell[f][s] = Trap(i)
<1> DEFINE cells == {h.cell[f][s] : f \in Envs, s \in Symbols}
<1>1. \A i \in Ids : Trap(i) \in CellTraps /\ Trap(i)[2] = i
  BY DEF CellTraps, Trap
<1>2. \A c \in CellTraps : \E i \in Ids : c = Trap(i)
  BY DEF CellTraps
<1>3. Traps(h) = {c[2] : c \in CellTraps \cap cells}
  BY DEF Traps
<1>4. \A i \in Ids : Trap(i) \in cells <=> \E f \in Envs, s \in Symbols : h.cell[f][s] = Trap(i)
  OBVIOUS
<1> HIDE DEF cells
<1>5. ASSUME NEW x \in Traps(h) PROVE x \in Ids /\ Trap(x) \in cells
  <2>1. PICK c \in CellTraps \cap cells : x = c[2]
    BY <1>3
  <2>2. PICK i \in Ids : c = Trap(i)
    BY <1>2, <2>1
  <2>3. QED
    BY <1>1, <2>1, <2>2
<1>6. ASSUME NEW i \in Ids, Trap(i) \in cells PROVE i \in Traps(h)
  <2>1. Trap(i) \in CellTraps \cap cells /\ Trap(i)[2] = i
    BY <1>1, <1>6
  <2>2. QED
    BY <1>3, <2>1
<1>7. QED
  BY <1>4, <1>5, <1>6

LEMMA GuaranteeHolds ==
  ASSUME NEW h, NEW S, Held(h, S), NEW f \in Envs, NEW s \in Symbols,
         h.cell[f][s] # NoCell, Free(h) # {}
  PROVE  \E i \in Ids : /\ Guaranteed(h, GuaranteeCache(h, f, s), f, s, i, S)
                        /\ CacheOf(GuaranteeCache(h, f, s), GuaranteeCache(h, f, s).cell[f][s]) = i
<1>1. /\ h \in HeapType /\ CellsOK(h) /\ ListsOK(h) /\ LocsOK(h, S)
      /\ Ids \subseteq Nat \ {0} /\ \A i \in Ids : Trap(i)[2] = i
  BY ProgramAssumption DEF Held, Trap
<1>2. CASE h.cell[f][s] \in CellTraps
  <2>1. GuaranteeCache(h, f, s) = h
    BY <1>2 DEF GuaranteeCache
  <2>2. PICK i \in Ids : h.cell[f][s] = Trap(i)
    BY <1>2 DEF CellTraps
  <2>3. h.trap[i] = i /\ CacheOf(h, h.cell[f][s]) = i
    BY <1>1, <2>2 DEF CellsOK, CacheOf
  <2>4. Guaranteed(h, h, f, s, i, S)
    BY <1>2, <2>2, <2>3 DEF Guaranteed
  <2>5. QED
    BY <2>1, <2>3, <2>4
<1>3. CASE h.cell[f][s] \notin CellTraps
  <2> DEFINE i == Min(Free(h))
             c == [NoCache EXCEPT !.value = h.cell[f][s]]
             g == [SetCell(h, f, s, Trap(i)) EXCEPT !.trap[i] = i, !.cache[i] = c]
  <2>1. GuaranteeCache(h, f, s) = g
    BY <1>3 DEF GuaranteeCache
  <2>2. i \in Free(h)
    <3>1. Free(h) \subseteq Nat
      BY <1>1 DEF Free
    <3>2. QED
      BY <3>1, MinIsLeast
  <2>3. /\ i \in Ids /\ h.trap[i] = 0
        /\ \A d \in Envs, t \in Symbols : h.cell[d][t] # Trap(i)
    <3> HIDE DEF i
    <3>1. i \in Ids /\ i \notin Traps(h) /\ h.trap[i] # i
      BY <2>2 DEF Free
    <3>2. h.trap[i] \in {0, i}
      BY <1>1, <3>1 DEF CellsOK
    <3>3. \A d \in Envs, t \in Symbols : h.cell[d][t] # Trap(i)
      BY <3>1, TrapsAre
    <3>4. QED
      BY <3>1, <3>2, <3>3
  <2>4. \A k \in Kinds : In(h, i, k) = {}
    BY <1>1, <2>3 DEF ListsOK
  <2>5. c = [value |-> h.cell[f][s], clone |-> FALSE, alist |-> [k \in Kinds |-> <<>>]]
    <3>1. NoCache.clone = FALSE /\ NoCache.alist = [k \in Kinds |-> <<>>]
          /\ NoCache = [value |-> NoCache.value, clone |-> NoCache.clone, alist |-> NoCache.alist]
      BY DEF NoCache
    <3>2. c = [value |-> h.cell[f][s], clone |-> NoCache.clone, alist |-> NoCache.alist]
      BY <3>1
    <3>3. QED
      BY <3>1, <3>2
  <2>6. c \in Caches /\ \A k \in Kinds : c.alist[k] = <<>>
    <3>1. h.cell[f][s] \in Plain
      BY <1>1, <1>3 DEF HeapType
    <3>2. <<>> \in Alists
      BY DEF Alists
    <3>3. QED
      BY <2>5, <3>1, <3>2 DEF Caches
  <2> HIDE DEF i, c
  <2>7. /\ g.cell = [h.cell EXCEPT ![f][s] = Trap(i)]
        /\ g.trap = [h.trap EXCEPT ![i] = i] /\ g.cache = [h.cache EXCEPT ![i] = c]
        /\ g = [cell |-> g.cell, trap |-> g.trap, cache |-> g.cache, loc |-> h.loc]
        /\ g.loc = h.loc
    <3> DEFINE g1 == SetCell(h, f, s, Trap(i))
               g2 == [g1 EXCEPT !.trap[i] = i]
    <3>1. /\ g1 = [cell |-> g1.cell, trap |-> h.trap, cache |-> h.cache, loc |-> h.loc]
          /\ g1.cell = [h.cell EXCEPT ![f][s] = Trap(i)]
      <4>1. CellChanged(h, g1, f, s, Trap(i))
        BY <1>1, SetCellIs
      <4> HIDE DEF g1
      <4>2. QED
        BY <4>1 DEF CellChanged
    <3>2. g = [g2 EXCEPT !.cache[i] = c]
      OBVIOUS
    <3> HIDE DEF g1, g
    <3>3. /\ g2 = [cell |-> g1.cell, trap |-> g2.trap, cache |-> h.cache, loc |-> h.loc]
          /\ g2.trap = [h.trap EXCEPT ![i] = i]
      BY <3>1
    <3> HIDE DEF g2
    <3>4. QED
      BY <3>1, <3>2, <3>3
  <2> HIDE DEF g
  <2>8. /\ g.cell[f][s] = Trap(i)
        /\ \A d \in Envs, t \in Symbols : d # f \/ t # s => g.cell[d][t] = h.cell[d][t]
        /\ g.trap[i] = i /\ g.cache[i] = c
        /\ \A j \in Ids \ {i} : g.cache[j] = h.cache[j] /\ g.trap[j] = h.trap[j]
    BY <1>1, <2>3, <2>7 DEF HeapType
  <2>9. g \in HeapType
    <3>1. g.cell \in [Envs -> [Symbols -> Plain \cup CellTraps \cup {NoCell}]]
      <4>1. Trap(i) \in CellTraps
        BY <2>3 DEF CellTraps
      <4>2. QED
        BY <1>1, <2>7, <4>1 DEF HeapType
    <3>2. g.trap \in [Ids -> Ids \cup {0}] /\ g.cache \in [Ids -> Caches]
      BY <1>1, <2>3, <2>6, <2>7 DEF HeapType
    <3>3. h.loc \in [Refs -> Locs]
      BY <1>1 DEF HeapType
    <3>4. QED
      BY <2>7, <3>1, <3>2, <3>3 DEF HeapType
  <2>10. \A k \in Kinds : In(g, i, k) = {}
    BY <2>6, <2>8, EmptyAlist DEF In
  <2>11. \A j \in Ids, k \in Kinds : In(g, j, k) = In(h, j, k)
    BY <2>4, <2>8, <2>10 DEF In
  <2>12. \A d \in Envs, t \in Symbols, j \in Ids :
           g.cell[d][t] = Trap(j) => IF j = i THEN d = f /\ t = s ELSE h.cell[d][t] = Trap(j)
    BY <2>3, <2>8, TrapsDiffer
  <2>13. CellsOK(g)
    <3>1. \A d \in Envs, t \in Symbols, j \in Ids : g.cell[d][t] = Trap(j) =>
             /\ g.trap[j] = j
             /\ \A e \in Envs, u \in Symbols : g.cell[e][u] = Trap(j) => e = d /\ u = t
      BY <1>1, <2>8, <2>12 DEF CellsOK
    <3>2. \A j \in Ids : g.trap[j] \in {0, j}
      BY <1>1, <2>8 DEF CellsOK
    <3>3. \A t \in Symbols : g.cell[Global][t] # NoCell
      <4>1. Trap(i) # NoCell /\ Global \in Envs
        BY DEF Trap, NoCell, Envs
      <4>2. QED
        BY <1>1, <2>8, <4>1 DEF CellsOK
    <3>4. QED
      BY <3>1, <3>2, <3>3 DEF CellsOK
  <2>14. ListsOK(g)
    <3>1. ASSUME NEW j \in Ids, NEW k \in Kinds
          PROVE  /\ \E t \in Symbols : ListOf(g.cache[j].alist[k], t)
                 /\ \A d \in Envs, t \in Symbols : g.cell[d][t] = Trap(j) => ListOf(g.cache[j].alist[k], t)
                 /\ In(g, j, k) # {} => g.trap[j] = j
      <4>1. CASE j = i
        BY <2>6, <2>8, <2>10, <4>1 DEF ListOf
      <4>2. CASE j # i
        BY <1>1, <2>8, <2>11, <2>12, <4>2 DEF ListsOK
      <4>3. QED
        BY <4>1, <4>2
    <3>2. QED
      BY <1>1, <2>11, <3>1 DEF ListsOK
  <2>15. LocsOK(g, S)
    <3>1. \A j \in Ids \ {i}, k \in Kinds : Installed(g, j, k) = Installed(h, j, k)
      BY <2>8 DEF Installed
    <3>2. QED
      BY <1>1, <2>4, <2>7, <2>11, <3>1 DEF LocsOK
  <2>16. Held(g, S)
    BY <2>9, <2>13, <2>14, <2>15 DEF Held
  <2>17. g.cache[i].value = h.cell[f][s]
    BY <2>5, <2>8
  <2>18. Guaranteed(h, g, f, s, i, S)
    BY <1>3, <2>2, <2>3, <2>4, <2>7, <2>8, <2>11, <2>16, <2>17 DEF Guaranteed
  <2>19. CacheOf(g, g.cell[f][s]) = i
    BY <1>1, <2>3, <2>8 DEF CacheOf
  <2>20. QED
    BY <2>1, <2>3, <2>18, <2>19
<1>4. QED
  BY <1>2, <1>3

\* update_cache_references: the references made from env or inside it go from one cache
\* to the cache of the cell of s in f.
UpdateFits(h, from, f, s, S) ==
  /\ Held(h, S) /\ from \in Ids /\ f \in Envs /\ s \in Symbols
  /\ h.cell[f][s] # NoCell /\ h.cell[f][s] # Trap(from) /\ Free(h) # {} /\ h.trap[from] = from
  /\ \A k \in Kinds : ListOf(h.cache[from].alist[k], s)
  /\ \A d \in Envs, t \in Symbols : h.cell[d][t] = Trap(from) => t = s

Updated(h, g, from, to, f, env, s, S) ==
  /\ Held(g, S \ AllOut(h, from, env))
  /\ g.cell[f][s] = Trap(to) /\ g.trap[to] = to
  /\ \A d \in Envs, t \in Symbols : d # f \/ t # s => g.cell[d][t] = h.cell[d][t]
  /\ \A k \in Kinds : /\ In(g, from, k) = In(h, from, k) \ MovedOut(h, from, k, env)
                      /\ In(g, to, k) = In(h, to, k) \cup MovedOut(h, from, k, env)
                      /\ \A j \in Ids \ {from, to} : In(g, j, k) = In(h, j, k)
  /\ CloneOK(g, from) /\ CloneOK(g, to)
  /\ \A j \in Ids \ {from, to} : g.cache[j] = h.cache[j]
  /\ \A r \in Refs : g.loc[r] = h.loc[r] \/ (r \in Known(h) /\ LocFits(r, g.loc[r]))
  /\ h.cell[f][s] \in CellTraps => h.cell[f][s] = Trap(to)
  /\ h.cell[f][s] \notin CellTraps => \A k \in Kinds : In(h, to, k) = {}

LEMMA UpdateHolds ==
  ASSUME NEW h, NEW from, NEW f, NEW s, NEW S, UpdateFits(h, from, f, s, S), NEW env
  PROVE  \E to \in Ids \ {from} :
           Updated(h, UpdateCacheReferences(h, from, f, env, s), from, to, f, env, s, S)
<1> DEFINE g == GuaranteeCache(h, f, s)
           to == CacheOf(g, g.cell[f][s])
           m == MoveKinds(g, from, to, env, s)
           u == UpdateClone(m, to)
           w == UpdateClone(u, from)
           T == S \ AllOut(h, from, env)
<1>0. UpdateCacheReferences(h, from, f, env, s) = w
  BY DEF UpdateCacheReferences
<1>1. Guaranteed(h, g, f, s, to, S) /\ to \in Ids
  <2>1. /\ Held(h, S) /\ f \in Envs /\ s \in Symbols /\ h.cell[f][s] # NoCell /\ Free(h) # {}
    BY DEF UpdateFits
  <2>2. \E i \in Ids : Guaranteed(h, g, f, s, i, S) /\ to = i
    BY <2>1, GuaranteeHolds
  <2> HIDE DEF g, to
  <2>3. QED
    BY <2>2
<1> HIDE DEF g, to
<1>2. /\ Held(h, S) /\ Held(g, S) /\ from \in Ids /\ f \in Envs /\ s \in Symbols
      /\ h.trap[from] = from /\ CellsOK(h) /\ CellsOK(g) /\ ListsOK(g) /\ ListsOK(h)
      /\ Ids \subseteq Nat \ {0}
  BY <1>1, ProgramAssumption DEF UpdateFits, Guaranteed, Held
<1>3. from # to
  <2>1. CASE h.cell[f][s] \in CellTraps
    BY <1>1, <2>1 DEF UpdateFits, Guaranteed
  <2>2. CASE h.cell[f][s] \notin CellTraps
    <3>1. h.trap[to] = 0
      BY <1>1, <2>2 DEF Guaranteed
    <3>2. QED
      BY <1>2, <3>1
  <2>3. QED
    BY <2>1, <2>2
<1>4. \A k \in Kinds : MoveFits(g, from, to, k, s, S)
  <2>1. ASSUME NEW d \in Envs, NEW t \in Symbols, g.cell[d][t] \in {Trap(from), Trap(to)}
        PROVE  t = s
    <3>1. CASE g.cell[d][t] = Trap(to)
      BY <1>1, <1>2, <3>1 DEF Guaranteed, CellsOK
    <3>2. CASE g.cell[d][t] = Trap(from)
      BY <1>1, <3>2 DEF UpdateFits, Guaranteed
    <3>3. QED
      BY <2>1, <3>1, <3>2
  <2>2. g.trap[to] = to
    BY <1>1 DEF Guaranteed
  <2>3. \A k \in Kinds : ListOf(g.cache[from].alist[k], s)
    BY <1>1, <1>3 DEF UpdateFits, Guaranteed
  <2>4. \A k \in Kinds : ListOf(g.cache[to].alist[k], s)
    BY <1>1, <1>2 DEF Guaranteed, ListsOK
  <2>5. QED
    BY <1>1, <1>2, <1>3, <2>1, <2>2, <2>3, <2>4 DEF MoveFits
<1>5. AllMoved(g, m, from, to, env, S)
  BY <1>4, MoveKindsHolds
<1> HIDE DEF m
<1>6. /\ \A k \in Kinds : MovedOut(g, from, k, env) = MovedOut(h, from, k, env)
      /\ AllOut(g, from, env) = AllOut(h, from, env)
  BY <1>1, <1>2 DEF Guaranteed, MovedOut, AllOut
<1>7. Held(m, T)
  BY <1>5, <1>6 DEF AllMoved
<1>8. CloneUpdated(m, u, to, T)
  BY <1>1, <1>7, UpdateCloneHolds
<1> HIDE DEF u
<1>9. CloneUpdated(u, w, from, T)
  <2>1. Held(u, T)
    BY <1>8 DEF CloneUpdated
  <2>2. QED
    BY <1>2, <2>1, UpdateCloneHolds
<1> HIDE DEF w, T
<1>10. /\ w.cell = g.cell /\ w.trap = g.trap
       /\ \A j \in Ids \ {from, to} : w.cache[j] = h.cache[j]
       /\ w.cache[to] = u.cache[to]
  <2>1. w.cell = u.cell /\ w.trap = u.trap /\ \A j \in Ids \ {from} : w.cache[j] = u.cache[j]
    BY <1>9 DEF CloneUpdated
  <2>2. u.cell = m.cell /\ u.trap = m.trap /\ \A j \in Ids \ {to} : u.cache[j] = m.cache[j]
    BY <1>8 DEF CloneUpdated
  <2>3. m.cell = g.cell /\ m.trap = g.trap /\ \A j \in Ids \ {from, to} : m.cache[j] = g.cache[j]
    BY <1>5 DEF AllMoved
  <2>4. \A j \in Ids \ {to} : g.cache[j] = h.cache[j]
    BY <1>1 DEF Guaranteed
  <2>5. QED
    BY <1>1, <1>3, <2>1, <2>2, <2>3, <2>4
<1>11. ASSUME NEW k \in Kinds
       PROVE  /\ In(w, from, k) = In(h, from, k) \ MovedOut(h, from, k, env)
              /\ In(w, to, k) = In(h, to, k) \cup MovedOut(h, from, k, env)
              /\ \A j \in Ids \ {from, to} : In(w, j, k) = In(h, j, k)
  <2>1. In(w, from, k) = In(u, from, k) /\ In(w, to, k) = In(u, to, k)
    BY <1>9, <1>10 DEF CloneUpdated, In
  <2>2. In(u, to, k) = In(m, to, k) /\ In(u, from, k) = In(m, from, k)
    BY <1>2, <1>3, <1>8 DEF CloneUpdated, In
  <2>3. In(m, from, k) = In(g, from, k) \ MovedOut(h, from, k, env)
        /\ In(m, to, k) = In(g, to, k) \cup MovedOut(h, from, k, env)
    BY <1>5, <1>6 DEF AllMoved
  <2>4. In(g, from, k) = In(h, from, k) /\ In(g, to, k) = In(h, to, k)
    BY <1>1, <1>2 DEF Guaranteed
  <2>5. \A j \in Ids \ {from, to} : In(w, j, k) = In(h, j, k)
    BY <1>10 DEF In
  <2>6. QED
    BY <2>1, <2>2, <2>3, <2>4, <2>5
<1>12. CloneOK(w, from) /\ CloneOK(w, to)
  BY <1>8, <1>9, <1>10 DEF CloneUpdated, CloneOK, In
<1>13. \A r \in Refs : w.loc[r] = h.loc[r] \/ (r \in Known(h) /\ LocFits(r, w.loc[r]))
  <2>1. \A r \in Refs : w.loc[r] = u.loc[r] \/ (r \in Known(u) /\ LocFits(r, w.loc[r]))
    BY <1>9 DEF CloneUpdated
  <2>2. \A r \in Refs : u.loc[r] = m.loc[r] \/ (r \in Known(m) /\ LocFits(r, u.loc[r]))
    BY <1>8 DEF CloneUpdated
  <2>3. \A r \in Refs : m.loc[r] = g.loc[r] \/ (r \in Known(g) /\ LocFits(r, m.loc[r]))
    BY <1>5 DEF AllMoved
  <2>4. g.loc = h.loc
    BY <1>1 DEF Guaranteed
  <2>5. \A r \in Refs : r.kind \in Kinds
    BY ProgramAssumption
  <2>6. \A j \in Ids, k \in Kinds : In(u, j, k) = In(m, j, k)
    BY <1>1, <1>8 DEF CloneUpdated, In
  <2>7. \A j \in Ids, k \in Kinds : In(m, j, k) \subseteq In(g, j, k) \cup In(g, from, k)
    <3>1. \A j \in Ids \ {from, to}, k \in Kinds : In(m, j, k) = In(g, j, k)
      BY <1>5 DEF AllMoved, In
    <3>2. \A k \in Kinds : MovedOut(g, from, k, env) \subseteq In(g, from, k)
      BY DEF MovedOut
    <3>3. QED
      BY <1>5, <3>1, <3>2 DEF AllMoved
  <2>8. Known(u) = Known(m)
    BY <2>5, <2>6 DEF Known
  <2>9. Known(m) \subseteq Known(g)
    BY <1>2, <2>5, <2>7 DEF Known
  <2>10. Known(g) = Known(h)
    BY <1>1, <2>5 DEF Known, Guaranteed
  <2>11. QED
    BY <2>1, <2>2, <2>3, <2>4, <2>8, <2>9, <2>10
<1>14. Held(w, T)
  BY <1>9 DEF CloneUpdated
<1>15. h.cell[f][s] \in CellTraps => h.cell[f][s] = Trap(to)
  BY <1>1 DEF Guaranteed
<1>16. h.cell[f][s] \notin CellTraps => \A k \in Kinds : In(h, to, k) = {}
  BY <1>1 DEF Guaranteed
<1>17. /\ w.cell[f][s] = Trap(to) /\ w.trap[to] = to
       /\ \A d \in Envs, t \in Symbols : d # f \/ t # s => w.cell[d][t] = h.cell[d][t]
  BY <1>1, <1>10 DEF Guaranteed
<1>18. Updated(h, w, from, to, f, env, s, S)
  BY <1>10, <1>11, <1>12, <1>13, <1>14, <1>15, <1>16, <1>17 DEF Updated, T
<1>19. QED
  BY <1>0, <1>1, <1>3, <1>18

(***************************************************************************)
(* The invariant: the references of a cache are those whose search stops   *)
(* at the cell with its trap.                                              *)
(***************************************************************************)

Placed(h) ==
  \A i \in Ids, k \in Kinds : \A r \in In(h, i, k) :
    h.cell[BindingFrame(h, r.env, r.sym)][r.sym] = Trap(i)

\* Every installed reference is known to a cache, but for some.
Tracked(h, S) ==
  /\ \A r \in Refs : h.loc[r] # NotLinked =>
       LocFits(r, h.loc[r]) /\ (r \notin S => \E i \in Ids : r \in In(h, i, r.kind))
  /\ \A i \in Ids, k \in Kinds : \A r \in In(h, i, k) : h.loc[r] # NotLinked

HInv(h, S) == Held(h, S) /\ (\A i \in Ids : CloneOK(h, i)) /\ Placed(h) /\ Tracked(h, S)

\* Programs without links whose references are looked up in their block's frame and
\* which define, assign and unbind no parameter of a procedure in its own frame.
Independent(p) ==
  /\ p.links = {}
  /\ \A r \in p.refs : r.block = r.env
  /\ \A w \in p.vars : w[1] \in Frames => w[2] \notin Params[w[1]]

CacheInv == /\ Independent(program) /\ program \in Programs
            /\ HInv(heap, stale) /\ stale \subseteq Refs

LEMMA TrapBinds ==
  ASSUME NEW h, NEW f, NEW s, NEW i \in Ids, h.cell[f][s] = Trap(i)
  PROVE  Binds(h, f, s) /\ h.cell[f][s] \in CellTraps
BY DEF Binds, CellTraps, Trap, NoCell, Unbound

\* A reference a cache knows finds the trap of the cache.
LEMMA FoundTrap ==
  ASSUME NEW h, NEW S, HInv(h, S), NEW i \in Ids, NEW k \in Kinds, NEW r \in In(h, i, k)
  PROVE  /\ r \in Refs /\ r.env \in Envs /\ r.sym \in Symbols /\ r.kind = k /\ r \in program.refs
         /\ h.cell[BindingFrame(h, r.env, r.sym)][r.sym] = Trap(i)
         /\ Binds(h, BindingFrame(h, r.env, r.sym), r.sym)
         /\ Contents(h, r.env, r.sym) = Trap(i)
         /\ CacheOf(h, Trap(i)) = i
<1>1. r \in Refs /\ r.kind = k /\ r \in program.refs
  BY RefsAreRefs DEF HInv, Held, ListsOK
<1>2. r.env \in Envs /\ r.sym \in Symbols
  BY <1>1, ProgramAssumption
<1>3. h.cell[BindingFrame(h, r.env, r.sym)][r.sym] = Trap(i)
  BY DEF HInv, Placed
<1>4. Binds(h, BindingFrame(h, r.env, r.sym), r.sym)
  BY <1>3, TrapBinds
<1>5. r.env # Null
  BY <1>2, ProgramAssumption DEF Envs, Null, Global
<1>6. Contents(h, r.env, r.sym) = Trap(i)
  BY <1>3, <1>4, <1>5 DEF Contents
<1>7. h.trap[i] = i
  BY DEF HInv, Held, ListsOK
<1>8. QED
  BY <1>1, <1>2, <1>3, <1>4, <1>6, <1>7 DEF CacheOf, Trap

LEMMA InvIsCoherent ==
  ASSUME HInv(heap, stale)
  PROVE  LookupCoherent /\ AssignmentCoherent /\ OperatorCoherent
<1>1. ASSUME NEW k \in Kinds, NEW r \in Linked(k)
      PROVE  \E i \in Ids : /\ r \in In(heap, i, k) /\ heap.loc[r] = Installed(heap, i, k)
                            /\ Contents(heap, r.env, r.sym) = Trap(i) /\ CacheOf(heap, Trap(i)) = i
                            /\ LookupVariable(heap, r.env, r.sym) = LookupCache(heap, i)
  <2>1. r \in Refs /\ r.kind = k /\ heap.loc[r] # NotLinked /\ r \notin stale
    BY DEF Linked
  <2>2. PICK i \in Ids : r \in In(heap, i, k)
    BY <2>1 DEF HInv, Tracked
  <2>3. Contents(heap, r.env, r.sym) = Trap(i) /\ CacheOf(heap, Trap(i)) = i
    BY <2>2, FoundTrap
  <2>4. Trap(i) \in CellTraps /\ Trap(i) # NoCell
    BY DEF CellTraps, Trap, NoCell
  <2>5. heap.loc[r] = Installed(heap, i, k)
    BY <2>1, <2>2 DEF HInv, Held, LocsOK
  <2>6. LookupVariable(heap, r.env, r.sym) = LookupCache(heap, i)
    BY <2>3, <2>4 DEF LookupVariable
  <2>7. QED
    BY <2>2, <2>3, <2>5, <2>6
<1>2. ASSUME NEW r \in Linked("lookup")
      PROVE  LookupCache(heap, heap.loc[r][2]) = LookupVariable(heap, r.env, r.sym)
  <2>1. PICK i \in Ids : /\ heap.loc[r] = Installed(heap, i, "lookup")
                         /\ LookupVariable(heap, r.env, r.sym) = LookupCache(heap, i)
    BY <1>1 DEF Kinds
  <2>2. heap.loc[r] = <<"cache", i>>
    BY <2>1 DEF Installed
  <2>3. QED
    BY <2>1, <2>2
<1>3. ASSUME NEW r \in Linked("assignment")
      PROVE  LET i == heap.loc[r][2]
             IN /\ Contents(heap, r.env, r.sym) \in CellTraps
                /\ i = CacheOf(heap, Contents(heap, r.env, r.sym))
                /\ InAlist(heap.cache[i].alist["operator"]) # {} => heap.loc[r][1] = "clone"
  <2>1. PICK i \in Ids : /\ r \in In(heap, i, "assignment")
                         /\ heap.loc[r] = Installed(heap, i, "assignment")
                         /\ Contents(heap, r.env, r.sym) = Trap(i) /\ CacheOf(heap, Trap(i)) = i
    BY <1>1 DEF Kinds
  <2>2. heap.loc[r] = <<IF heap.cache[i].clone THEN "clone" ELSE "cache", i>>
    BY <2>1, KindsDiffer DEF Installed
  <2>3. heap.loc[r][2] = i /\ (heap.cache[i].clone => heap.loc[r][1] = "clone")
    BY <2>2
  <2>4. InAlist(heap.cache[i].alist["operator"]) # {} => heap.cache[i].clone
    BY <2>1 DEF HInv, CloneOK, In
  <2>5. Trap(i) \in CellTraps
    BY DEF CellTraps
  <2>6. QED
    BY <2>1, <2>3, <2>4, <2>5
<1>4. ASSUME NEW r \in Linked("operator")
      PROVE  LET now == LookupVariable(heap, r.env, r.sym)
             IN IF heap.loc[r][1] = "link" THEN heap.loc[r][2] = now
                ELSE LookupCache(heap, heap.loc[r][2]) = now
  <2>1. PICK i \in Ids : /\ heap.loc[r] = Installed(heap, i, "operator")
                         /\ LookupVariable(heap, r.env, r.sym) = LookupCache(heap, i)
    BY <1>1 DEF Kinds
  <2>2. heap.loc[r] = IF heap.cache[i].value \in Values THEN <<"link", heap.cache[i].value>>
                      ELSE <<"fake", i>>
    BY <2>1, KindsDiffer DEF Installed
  <2>3. QED
    BY <2>1, <2>2 DEF LookupCache
<1>5. QED
  BY <1>2, <1>3, <1>4 DEF LookupCoherent, AssignmentCoherent, OperatorCoherent

LEMMA NoCacheIs ==
  /\ NoCache \in Caches /\ \A k \in Kinds : NoCache.alist[k] = <<>> /\ InAlist(NoCache.alist[k]) = {}
<1>1. \A k \in Kinds : NoCache.alist[k] = <<>>
  BY DEF NoCache
<1>2. NoCache \in Caches
  <2>1. <<>> \in Alists /\ Unbound \in Plain
    BY DEF Alists, Plain
  <2>2. QED
    BY <2>1 DEF NoCache, Caches
<1>3. QED
  BY <1>1, <1>2, EmptyAlist

\* The collector keeps every cache that knows a reference: some cell has its trap.
LEMMA ReclaimHolds ==
  ASSUME program \in Programs, NEW h, NEW S, HInv(h, S)
  PROVE  HInv(Reclaim(h), S)
<1> DEFINE traps == Traps(h)
           caches == {h.trap[i] : i \in traps} \cup Installs(h)
           newtrap == [i \in Ids |-> IF i \in traps THEN h.trap[i] ELSE 0]
           newcache == [i \in Ids |-> IF i \in caches THEN h.cache[i] ELSE NoCache]
           g == [h EXCEPT !.trap = newtrap, !.cache = newcache]
<1>1. Reclaim(h) = g
  BY DEF Reclaim
<1>2. h \in HeapType /\ CellsOK(h) /\ ListsOK(h) /\ LocsOK(h, S)
  BY DEF HInv, Held
<1>3. \A f \in Envs, s \in Symbols, i \in Ids : h.cell[f][s] = Trap(i) => i \in traps /\ i \in caches
  <2>1. SUFFICES ASSUME NEW f \in Envs, NEW s \in Symbols, NEW i \in Ids, h.cell[f][s] = Trap(i)
                 PROVE  i \in traps /\ i \in caches
    OBVIOUS
  <2>2. i \in traps /\ h.trap[i] = i
    BY <1>2, <2>1, TrapsAre DEF CellsOK
  <2>3. QED
    BY <2>2
<1>4. ASSUME NEW i \in Ids, NEW k \in Kinds, In(h, i, k) # {}
      PROVE  i \in traps /\ i \in caches
  <2>1. PICK r : r \in In(h, i, k)
    BY <1>4
  <2>2. h.cell[BindingFrame(h, r.env, r.sym)][r.sym] = Trap(i) /\ r.env \in Envs /\ r.sym \in Symbols
    BY <2>1, FoundTrap
  <2>3. BindingFrame(h, r.env, r.sym) \in Envs
    BY <2>2, BindingFound
  <2>4. QED
    BY <1>3, <2>2, <2>3
<1> HIDE DEF traps, caches
<1>5. /\ newtrap \in [Ids -> Ids \cup {0}]
      /\ \A i \in Ids : newtrap[i] = IF i \in traps THEN h.trap[i] ELSE 0
  BY <1>2 DEF HeapType
<1>6. /\ newcache \in [Ids -> Caches]
      /\ \A i \in Ids : newcache[i] = IF i \in caches THEN h.cache[i] ELSE NoCache
  BY <1>2, NoCacheIs DEF HeapType
<1> HIDE DEF newtrap, newcache
<1>7. /\ g \in HeapType /\ g.cell = h.cell /\ g.loc = h.loc /\ g.trap = newtrap /\ g.cache = newcache
  BY <1>2, <1>5, <1>6 DEF HeapType
<1> HIDE DEF g
<1>8. \A i \in Ids, k \in Kinds : In(g, i, k) = In(h, i, k)
  <2>1. SUFFICES ASSUME NEW i \in Ids, NEW k \in Kinds PROVE In(g, i, k) = In(h, i, k)
    OBVIOUS
  <2>2. CASE i \in caches
    BY <1>6, <1>7, <2>2 DEF In
  <2>3. CASE i \notin caches
    <3>1. In(h, i, k) = {} /\ g.cache[i] = NoCache
      BY <1>4, <1>6, <1>7, <2>3
    <3>2. QED
      BY <3>1, NoCacheIs DEF In
  <2>4. QED
    BY <2>2, <2>3
<1>9. \A i \in Ids, k \in Kinds : In(h, i, k) # {} => g.cache[i] = h.cache[i] /\ g.trap[i] = h.trap[i]
  BY <1>4, <1>5, <1>6, <1>7
<1>10. CellsOK(g)
  BY <1>2, <1>3, <1>5, <1>7 DEF CellsOK
<1>11. ListsOK(g)
  <2>1. ASSUME NEW i \in Ids, NEW k \in Kinds
        PROVE  /\ \E s \in Symbols : ListOf(g.cache[i].alist[k], s)
               /\ \A f \in Envs, s \in Symbols : g.cell[f][s] = Trap(i) => ListOf(g.cache[i].alist[k], s)
               /\ In(g, i, k) # {} => g.trap[i] = i
    <3>1. PICK s \in Symbols : ListOf(h.cache[i].alist[k], s)
      BY <1>2 DEF ListsOK
    <3>2. \E t \in Symbols : ListOf(g.cache[i].alist[k], t)
      BY <1>6, <1>7, <3>1, NoCacheIs DEF ListOf
    <3>3. \A f \in Envs, t \in Symbols : g.cell[f][t] = Trap(i) => ListOf(g.cache[i].alist[k], t)
      BY <1>2, <1>3, <1>6, <1>7 DEF ListsOK
    <3>4. In(g, i, k) # {} => g.trap[i] = i
      BY <1>2, <1>8, <1>9 DEF ListsOK
    <3>5. QED
      BY <3>2, <3>3, <3>4
  <2>2. QED
    BY <1>2, <1>8, <2>1 DEF ListsOK
<1>12. LocsOK(g, S)
  <2>1. \A i \in Ids, k \in Kinds : In(h, i, k) # {} => Installed(g, i, k) = Installed(h, i, k)
    BY <1>9 DEF Installed
  <2>2. QED
    BY <1>2, <1>7, <1>8, <2>1 DEF LocsOK
<1>13. \A i \in Ids : CloneOK(g, i)
  BY <1>8, <1>9 DEF HInv, CloneOK, Kinds
<1>14. Placed(g)
  <2>1. \A e, s : BindingFrame(g, e, s) = BindingFrame(h, e, s)
    BY <1>7 DEF BindingFrame, Binds
  <2>2. QED
    BY <1>7, <1>8, <2>1 DEF HInv, Placed
<1>15. Tracked(g, S)
  <2>1. \A r \in Refs : r.kind \in Kinds
    BY ProgramAssumption
  <2>2. QED
    BY <1>7, <1>8, <2>1 DEF HInv, Tracked
<1>16. HInv(g, S)
  BY <1>7, <1>10, <1>11, <1>12, <1>13, <1>14, <1>15 DEF HInv, Held
<1>17. QED
  BY <1>1, <1>16

LEMMA InitHolds ==
  ASSUME Init
  PROVE  program \in Programs /\ HInv(heap, stale)
<1>1. program \in Programs
  BY DEF Init
<1>2. PICK v \in Values :
        heap = [cell |-> [f \in Envs |-> [s \in Symbols |->
                          IF f = Global THEN Unbound
                          ELSE IF s \in Params[f] THEN v ELSE NoCell]],
                trap |-> [i \in Ids |-> 0],
                cache |-> [i \in Ids |-> NoCache],
                loc |-> [r \in Refs |-> NotLinked]]
  BY DEF Init
<1>3. /\ \A f \in Envs, s \in Symbols : heap.cell[f][s] = IF f = Global THEN Unbound
                                          ELSE IF s \in Params[f] THEN v ELSE NoCell
      /\ \A i \in Ids : heap.trap[i] = 0 /\ heap.cache[i] = NoCache
      /\ \A r \in Refs : heap.loc[r] = NotLinked
  BY <1>2
<1>4. heap \in HeapType
  <2>1. v \in Plain /\ Unbound \in Plain
    BY DEF Plain
  <2>2. [f \in Envs |-> [s \in Symbols |-> IF f = Global THEN Unbound
                          ELSE IF s \in Params[f] THEN v ELSE NoCell]]
          \in [Envs -> [Symbols -> Plain \cup CellTraps \cup {NoCell}]]
    BY <2>1
  <2>3. [i \in Ids |-> 0] \in [Ids -> Ids \cup {0}] /\ [i \in Ids |-> NoCache] \in [Ids -> Caches]
    BY NoCacheIs
  <2>4. [r \in Refs |-> NotLinked] \in [Refs -> Locs]
    BY DEF Locs
  <2>5. QED
    BY <1>2, <2>2, <2>3, <2>4 DEF HeapType
<1>5. \A f \in Envs, s \in Symbols, i \in Ids : heap.cell[f][s] # Trap(i)
  <2>1. \A i \in Ids : Trap(i) # Unbound /\ Trap(i) # NoCell /\ Trap(i) \in CellTraps
    BY DEF Trap, Unbound, NoCell, CellTraps
  <2>2. \A i \in Ids : v # Trap(i)
    BY <2>1, ProgramAssumption
  <2>3. QED
    BY <1>3, <2>1, <2>2
<1>6. CellsOK(heap)
  <2>1. Unbound # NoCell /\ Global \in Envs
    BY DEF Unbound, NoCell, Envs
  <2>2. QED
    BY <1>3, <1>5, <2>1 DEF CellsOK
<1>7. \A i \in Ids, k \in Kinds : heap.cache[i].alist[k] = <<>> /\ In(heap, i, k) = {}
  BY <1>3, NoCacheIs DEF In
<1>8. ListsOK(heap)
  <2>1. \A s : ListOf(<<>>, s)
    BY DEF ListOf
  <2>2. \A i \in Ids, k \in Kinds : \E s \in Symbols : ListOf(heap.cache[i].alist[k], s)
    BY <1>7, <2>1, ProgramAssumption
  <2>3. QED
    BY <1>7, <2>1, <2>2 DEF ListsOK
<1>9. LocsOK(heap, stale) /\ Placed(heap) /\ Tracked(heap, stale)
  BY <1>3, <1>7 DEF LocsOK, Placed, Tracked
<1>10. \A i \in Ids : CloneOK(heap, i)
  BY <1>7 DEF CloneOK, Kinds
<1>11. QED
  BY <1>1, <1>4, <1>6, <1>8, <1>9, <1>10 DEF HInv, Held

(***************************************************************************)
(* Another object in a cell, and the searches it diverts.                  *)
(***************************************************************************)

LEMMA PlainIsNoTrap ==
  ASSUME NEW v \in Plain \cup {NoCell}
  PROVE  v \notin CellTraps /\ (v \in Plain => v # NoCell)
<1>1. /\ Unassigned # NoCell /\ Unbound # NoCell /\ Macro # NoCell
      /\ Unassigned[1] = "UNASSIGNED" /\ Unbound[1] = "UNBOUND" /\ Macro[1] = "MACRO"
      /\ NoCell[1] = "no cell"
  BY DEF NoCell, Unassigned, Unbound, Macro
<1>2. \A x \in CellTraps : x[1] = "trap"
  BY DEF CellTraps, Trap
<1>3. v \in Values \/ v \in {Unassigned, Unbound, Macro, NoCell}
  BY DEF Plain
<1>4. \A x \in {Unassigned, Unbound, Macro, NoCell} : x \notin CellTraps
  BY <1>1, <1>2
<1>5. v \in Values => v \notin CellTraps /\ v # NoCell
  BY ProgramAssumption
<1>6. QED
  BY <1>1, <1>3, <1>4, <1>5 DEF Plain

CellSet(h, g, f, s, v, S) ==
  /\ Held(g, S) /\ f \in Envs /\ s \in Symbols /\ v \in Plain \cup {NoCell} /\ g.cell[f][s] = v
  /\ \A d \in Envs, t \in Symbols : d # f \/ t # s => g.cell[d][t] = h.cell[d][t]
  /\ g.trap = h.trap /\ g.cache = h.cache /\ g.loc = h.loc
  /\ \A j \in Ids, k \in Kinds : In(g, j, k) = In(h, j, k)
  /\ Free(h) \subseteq Free(g)

LEMMA SetHolds ==
  ASSUME NEW h, NEW S, Held(h, S), NEW f \in Envs, NEW s \in Symbols,
         NEW v \in Plain \cup {NoCell}, f = Global => v # NoCell
  PROVE  CellSet(h, SetCell(h, f, s, v), f, s, v, S)
<1> DEFINE g == SetCell(h, f, s, v)
<1>1. h \in HeapType /\ CellsOK(h) /\ ListsOK(h) /\ LocsOK(h, S)
  BY DEF Held
<1>2. /\ g = [cell |-> g.cell, trap |-> h.trap, cache |-> h.cache, loc |-> h.loc]
      /\ g.cell[f][s] = v
      /\ \A d \in Envs, t \in Symbols : d # f \/ t # s => g.cell[d][t] = h.cell[d][t]
      /\ g \in HeapType
  <2>1. v \in Plain \cup CellTraps \cup {NoCell}
    OBVIOUS
  <2>2. h \in HeapType
    BY <1>1
  <2>3. CellChanged(h, g, f, s, v)
    BY <2>2, SetCellIs
  <2> HIDE DEF g
  <2>4. QED
    BY <2>1, <2>3 DEF CellChanged
<1> HIDE DEF g
<1>3. g.trap = h.trap /\ g.cache = h.cache /\ g.loc = h.loc
  BY <1>2
<1>4. /\ \A j, k : In(g, j, k) = In(h, j, k)
      /\ \A j, k : Installed(g, j, k) = Installed(h, j, k)
  BY <1>3 DEF In, Installed
<1>5. \A i \in Ids : v # Trap(i)
  BY PlainIsNoTrap DEF CellTraps
<1>6. \A d \in Envs, t \in Symbols, i \in Ids : g.cell[d][t] = Trap(i) => h.cell[d][t] = Trap(i)
  BY <1>2, <1>5
<1>7. CellsOK(g)
  <2>1. \A t \in Symbols : g.cell[Global][t] # NoCell
    <3>1. Global \in Envs
      BY DEF Envs
    <3>2. QED
      BY <1>1, <1>2, <3>1 DEF CellsOK
  <2>2. QED
    BY <1>1, <1>3, <1>6, <2>1 DEF CellsOK
<1>8. ListsOK(g)
  BY <1>1, <1>3, <1>4, <1>6 DEF ListsOK
<1>9. LocsOK(g, S)
  BY <1>1, <1>3, <1>4 DEF LocsOK
<1>10. Free(h) \subseteq Free(g)
  <2>1. Traps(g) \subseteq Traps(h)
    BY <1>6, TrapsAre
  <2>2. Installs(g) = Installs(h)
    BY <1>3 DEF Installs
  <2>3. QED
    BY <1>3, <2>1, <2>2 DEF Free
<1>11. QED
  BY <1>2, <1>3, <1>4, <1>7, <1>8, <1>9, <1>10 DEF CellSet, Held, g

\* The same bindings, the same searches.
LEMMA SearchSame ==
  ASSUME program \in Programs, NEW e \in Envs, NEW h, NEW g, NEW s,
         \A d \in Envs : Binds(g, d, s) <=> Binds(h, d, s)
  PROVE  BindingFrame(g, e, s) = BindingFrame(h, e, s)
<1>1. {i \in DOMAIN Chain(e) : Binds(g, Chain(e)[i], s)}
        = {i \in DOMAIN Chain(e) : Binds(h, Chain(e)[i], s)}
  BY ChainType
<1>2. QED
  BY <1>1 DEF BindingFrame

LEMMA BindsCell ==
  ASSUME NEW h, NEW g, NEW d, NEW s, g.cell[d][s] = h.cell[d][s]
  PROVE  Binds(g, d, s) <=> Binds(h, d, s)
BY DEF Binds

\* The cells of the other symbols and of the other frames are the same.
Differs(h, g, f, s) ==
  /\ f \in Envs /\ s \in Symbols
  /\ \A d \in Envs, t \in Symbols : d # f \/ t # s => g.cell[d][t] = h.cell[d][t]

LEMMA DiffersBinds ==
  ASSUME NEW h, NEW g, NEW f, NEW s, Differs(h, g, f, s)
  PROVE  /\ \A d \in Envs \ {f} : Binds(g, d, s) <=> Binds(h, d, s)
         /\ \A t \in Symbols \ {s} : \A d \in Envs : Binds(g, d, t) <=> Binds(h, d, t)
BY DEF Differs, Binds

\* A cell that binds before and after, or neither, diverts no search.
LEMMA SamePlaced ==
  ASSUME program \in Programs, NEW h, NEW g, NEW S, HInv(h, S), NEW f, NEW s, Differs(h, g, f, s),
         h.cell[f][s] \in CellTraps => g.cell[f][s] = h.cell[f][s],
         Binds(g, f, s) <=> Binds(h, f, s),
         NEW i \in Ids, NEW k \in Kinds, NEW r \in In(h, i, k)
  PROVE  g.cell[BindingFrame(g, r.env, r.sym)][r.sym] = Trap(i)
<1> DEFINE b == BindingFrame(h, r.env, r.sym)
<1>1. r.env \in Envs /\ r.sym \in Symbols /\ h.cell[b][r.sym] = Trap(i)
  BY FoundTrap
<1>2. \A d \in Envs : Binds(g, d, r.sym) <=> Binds(h, d, r.sym)
  BY <1>1, DiffersBinds
<1>3. BindingFrame(g, r.env, r.sym) = b /\ b \in Envs
  BY <1>1, <1>2, SearchSame, BindingFound
<1>4. h.cell[b][r.sym] \in CellTraps
  BY <1>1, TrapBinds
<1> HIDE DEF b
<1>5. g.cell[b][r.sym] = h.cell[b][r.sym]
  BY <1>1, <1>3, <1>4 DEF Differs
<1>6. QED
  BY <1>1, <1>3, <1>5

\* Where a new binding of s in f leaves the reference r of cache i.
Stays(g, f, s, i, r) ==
  /\ g.cell[BindingFrame(g, r.env, r.sym)][r.sym] = Trap(i)
  /\ r.sym = s => BindingFrame(g, r.env, r.sym) # f
Diverted(h, g, f, s, i, r) ==
  /\ r.sym = s /\ BindingFrame(g, r.env, s) = f /\ f \in Range(Chain(r.env))
  /\ Parent(f) # Null /\ Contents(h, Parent(f), s) = Trap(i)

LEMMA ShadowPlaced ==
  ASSUME program \in Programs, NEW h, NEW g, NEW S, HInv(h, S), NEW f, NEW s, Differs(h, g, f, s),
         Shadows(h, g, f, s), NEW i \in Ids, NEW k \in Kinds, NEW r \in In(h, i, k)
  PROVE  Stays(g, f, s, i, r) \/ Diverted(h, g, f, s, i, r)
<1> DEFINE b == BindingFrame(h, r.env, r.sym)
<1>1. r.env \in Envs /\ r.sym \in Symbols /\ h.cell[b][r.sym] = Trap(i) /\ Binds(h, b, r.sym)
  BY FoundTrap
<1>2. b \in Envs
  BY <1>1, BindingFound
<1>3. CASE r.sym # s
  <2>1. BindingFrame(g, r.env, r.sym) = b
    BY <1>1, <1>3, SearchSame, DiffersBinds
  <2> HIDE DEF b
  <2>2. g.cell[b][r.sym] = h.cell[b][r.sym]
    BY <1>1, <1>2, <1>3 DEF Differs
  <2>3. QED
    BY <1>1, <1>3, <2>1, <2>2 DEF Stays
<1>4. CASE r.sym = s /\ BindingFrame(g, r.env, s) # f
  <2>1. BindingFrame(g, r.env, r.sym) = b
    BY <1>1, <1>4, OthersStop
  <2> HIDE DEF b
  <2>2. g.cell[b][r.sym] = h.cell[b][r.sym]
    BY <1>1, <1>2, <1>4, <2>1 DEF Differs
  <2>3. QED
    BY <1>1, <1>4, <2>1, <2>2 DEF Stays
<1>5. CASE r.sym = s /\ BindingFrame(g, r.env, s) = f
  <2>1. /\ f \in Range(Chain(r.env)) /\ Parent(f) # Null
        /\ b = BindingFrame(h, Parent(f), s)
    BY <1>1, <1>5, ShadowedStops
  <2>2. Contents(h, Parent(f), s) = Trap(i)
    BY <1>1, <1>5, <2>1 DEF Contents
  <2>3. QED
    BY <1>5, <2>1, <2>2 DEF Diverted
<1>6. QED
  BY <1>3, <1>4, <1>5

\* The references keep their caches and their locations.
LEMMA SameRefs ==
  ASSUME NEW h, NEW g, NEW S, HInv(h, S), Held(g, S), g.cache = h.cache, g.loc = h.loc, Placed(g)
  PROVE  HInv(g, S)
<1>1. \A j, k : In(g, j, k) = In(h, j, k)
  BY DEF In
<1>2. \A i \in Ids : CloneOK(g, i)
  BY <1>1 DEF HInv, CloneOK
<1>3. Tracked(g, S)
  BY <1>1 DEF HInv, Tracked
<1>4. QED
  BY <1>2, <1>3 DEF HInv

\* An object that is no trap is replaced by another that binds as it did.
LEMMA ReplacedHolds ==
  ASSUME program \in Programs, NEW h, NEW S, HInv(h, S), NEW f \in Envs, NEW s \in Symbols,
         NEW v \in Plain, h.cell[f][s] \notin CellTraps,
         Binds(SetCell(h, f, s, v), f, s) <=> Binds(h, f, s)
  PROVE  HInv(SetCell(h, f, s, v), S)
<1> DEFINE g == SetCell(h, f, s, v)
<1>0. v \in Plain \cup {NoCell} /\ v # NoCell
  <2>1. v # NoCell
    BY PlainIsNoTrap
  <2>2. QED
    BY <2>1
<1>1. CellSet(h, g, f, s, v, S)
  BY <1>0, SetHolds DEF HInv
<1>2. Differs(h, g, f, s)
  BY <1>1 DEF CellSet, Differs
<1>3. \A i \in Ids, k \in Kinds : \A r \in In(h, i, k) :
        g.cell[BindingFrame(g, r.env, r.sym)][r.sym] = Trap(i)
  <2>1. h.cell[f][s] \in CellTraps => g.cell[f][s] = h.cell[f][s]
    OBVIOUS
  <2>2. Binds(g, f, s) <=> Binds(h, f, s)
    OBVIOUS
  <2> HIDE DEF g
  <2>3. QED
    BY <1>2, <2>1, <2>2, SamePlaced
<1> HIDE DEF g
<1>4. Placed(g)
  BY <1>1, <1>3 DEF CellSet, Placed
<1>5. HInv(g, S)
  BY <1>1, <1>4, SameRefs DEF CellSet
<1>6. QED
  BY <1>5 DEF g

\* After update_cache_references every known reference is installed as its cache says.
LEMMA UpdatedHolds ==
  ASSUME NEW h, NEW g, NEW w, NEW S, HInv(h, S), g.cache = h.cache, g.loc = h.loc,
         NEW from \in Ids, NEW to \in Ids \ {from}, NEW f, NEW env, NEW s,
         Updated(g, w, from, to, f, env, s, S), Placed(w)
  PROVE  HInv(w, S \ AllOut(h, from, env))
<1>1. \A j, k : In(g, j, k) = In(h, j, k)
  BY DEF In
<1>2. /\ AllOut(g, from, env) = AllOut(h, from, env) /\ Known(g) = Known(h)
      /\ \A k : MovedOut(g, from, k, env) = MovedOut(h, from, k, env)
  BY <1>1 DEF AllOut, MovedOut, Known
<1>3. Held(w, S \ AllOut(h, from, env))
  BY <1>2 DEF Updated
<1>4. \A i \in Ids : CloneOK(w, i)
  <2>1. SUFFICES ASSUME NEW i \in Ids \ {from, to} PROVE CloneOK(w, i)
    BY DEF Updated
  <2>2. w.cache[i] = h.cache[i]
    BY DEF Updated
  <2>3. QED
    BY <2>2 DEF HInv, CloneOK, In
<1>5. \A k \in Kinds : /\ In(w, from, k) = In(h, from, k) \ MovedOut(h, from, k, env)
                       /\ In(w, to, k) = In(h, to, k) \cup MovedOut(h, from, k, env)
                       /\ \A j \in Ids \ {from, to} : In(w, j, k) = In(h, j, k)
  BY <1>1, <1>2 DEF Updated
<1>6. \A r \in Refs : r.kind \in Kinds
  BY ProgramAssumption
<1>7. ASSUME NEW k \in Kinds
      PROVE  /\ \A i \in Ids : \A r \in In(w, i, k) : \E j \in Ids : r \in In(h, j, k)
             /\ \A i \in Ids : \A r \in In(h, i, k) : \E j \in Ids : r \in In(w, j, k)
  BY <1>5 DEF MovedOut
<1>8. \A r \in Refs : w.loc[r] = h.loc[r] \/ (r \in Known(h) /\ LocFits(r, w.loc[r]))
  BY <1>2 DEF Updated
<1>9. Tracked(w, S \ AllOut(h, from, env))
  <2>1. ASSUME NEW r \in Refs, w.loc[r] # NotLinked
        PROVE  /\ LocFits(r, w.loc[r])
               /\ r \notin S \ AllOut(h, from, env) => \E i \in Ids : r \in In(w, i, r.kind)
    <3>1. h.loc[r] # NotLinked
      BY <1>6, <1>8, <2>1 DEF HInv, Tracked, Known
    <3>2. LocFits(r, w.loc[r])
      BY <1>8, <3>1 DEF HInv, Tracked
    <3>3. ASSUME r \in AllOut(h, from, env) PROVE \E i \in Ids : r \in In(h, i, r.kind)
      <4>1. PICK k \in Kinds : r \in In(h, from, k)
        BY <3>3 DEF AllOut, MovedOut
      <4>2. r.kind = k
        BY <4>1, FoundTrap
      <4>3. QED
        BY <4>1, <4>2
    <3>4. r \notin S => \E i \in Ids : r \in In(h, i, r.kind)
      BY <3>1 DEF HInv, Tracked
    <3>5. QED
      BY <1>6, <1>7, <3>2, <3>3, <3>4
  <2>2. ASSUME NEW i \in Ids, NEW k \in Kinds, NEW r \in In(w, i, k)
        PROVE  w.loc[r] # NotLinked
    <3>1. PICK j \in Ids : r \in In(h, j, k)
      BY <1>7
    <3>2. r \in Refs /\ h.loc[r] # NotLinked
      BY <3>1, FoundTrap DEF HInv, Tracked
    <3>3. QED
      BY <1>8, <3>2 DEF LocFits
  <2>3. QED
    BY <2>1, <2>2 DEF Tracked
<1>10. QED
  BY <1>3, <1>4, <1>9 DEF HInv

\* A reference of an independent program is inside the frames of its chain.
LEMMA InsideIs ==
  ASSUME Independent(program), NEW r, r \in program.refs, NEW f
  PROVE  Inside(r, f) <=> f \in Range(Chain(r.env))
BY DEF Independent, Inside

\* Extending a frame: the references that now stop there are moved to its cell.
LEMMA ExtendHolds ==
  ASSUME program \in Programs, Independent(program), NEW h, NEW S, HInv(h, S), Free(h) # {},
         NEW f \in Envs, NEW s \in Symbols, h.cell[f][s] = NoCell, NEW v \in Plain, v # Unbound
  PROVE  HInv(Extend(h, f, s, v), S)
<1> DEFINE g == SetCell(h, f, s, v)
           shadowed == Contents(h, Parent(f), s)
           from == CacheOf(h, shadowed)
           w == UpdateCacheReferences(g, from, f, f, s)
<1>0. Extend(h, f, s, v) = IF shadowed \in CellTraps THEN w ELSE g
  BY DEF Extend
<1>1. /\ v \in Plain \cup {NoCell} /\ v # NoCell /\ v \notin CellTraps
      /\ Held(h, S) /\ ListsOK(h) /\ CellsOK(h)
  BY PlainIsNoTrap DEF HInv, Held
<1>2. CellSet(h, g, f, s, v, S)
  BY <1>1, SetHolds
<1>3. Differs(h, g, f, s) /\ Shadows(h, g, f, s)
  <2>1. Differs(h, g, f, s)
    BY <1>2 DEF CellSet, Differs
  <2>2. ~ Binds(h, f, s)
    BY DEF Binds
  <2>3. g.cell[f][s] = v
    BY <1>2 DEF CellSet
  <2> HIDE DEF g
  <2>4. Binds(g, f, s)
    BY <1>1, <2>3 DEF Binds
  <2>5. QED
    BY <2>1, <2>2, <2>4, DiffersBinds DEF Shadows
<1> HIDE DEF g
<1>4. \A i \in Ids, k \in Kinds : \A r \in In(h, i, k) :
        Stays(g, f, s, i, r) \/ Diverted(h, g, f, s, i, r)
  BY <1>3, ShadowPlaced
<1>5. CASE shadowed \notin CellTraps
  <2>1. \A i \in Ids, k \in Kinds : \A r \in In(h, i, k) : Stays(g, f, s, i, r)
    BY <1>4, <1>5 DEF Diverted, CellTraps
  <2>2. Placed(g)
    BY <1>2, <2>1 DEF CellSet, Placed, Stays
  <2>3. HInv(g, S)
    BY <1>2, <2>2, SameRefs DEF CellSet
  <2>4. QED
    BY <1>0, <1>5, <2>3
<1>6. CASE shadowed \in CellTraps
  <2> DEFINE b == BindingFrame(h, Parent(f), s)
  <2>1. PICK i \in Ids : shadowed = Trap(i)
    BY <1>6 DEF CellTraps
  <2>2. /\ Parent(f) # Null /\ h.cell[b][s] = Trap(i) /\ Binds(h, b, s)
    <3>1. Trap(i) # NoCell
      BY DEF Trap, NoCell
    <3>2. QED
      BY <2>1, <3>1 DEF Contents
  <2>3. Parent(f) \in Envs /\ b \in Envs
    BY <1>3, <2>2, ParentStops, BindingFound
  <2>4. h.trap[i] = i /\ from = i
    <3>1. h.trap[i] = i
      BY <1>1, <2>2, <2>3 DEF CellsOK
    <3>2. QED
      BY <2>1, <3>1 DEF CacheOf, Trap
  <2> HIDE DEF from, shadowed
  <2>5. \A d \in Envs, t \in Symbols : h.cell[d][t] = Trap(i) => d = b /\ t = s
    BY <1>1, <2>2, <2>3 DEF CellsOK
  <2>6. b # f
    BY <1>3, <2>2 DEF Shadows
  <2>7. UpdateFits(g, i, f, s, S)
    <3>1. \A k \in Kinds : ListOf(h.cache[i].alist[k], s)
      BY <1>1, <2>2, <2>3 DEF ListsOK
    <3>2. g.cell[f][s] # NoCell /\ g.cell[f][s] # Trap(i) /\ Free(g) # {}
      <4>1. Trap(i) \in CellTraps
        BY DEF CellTraps
      <4>2. QED
        BY <1>1, <1>2, <4>1 DEF CellSet
    <3>3. \A d \in Envs, t \in Symbols : g.cell[d][t] = Trap(i) => t = s
      BY <1>2, <2>5 DEF CellSet
    <3>4. QED
      BY <1>2, <2>4, <3>1, <3>2, <3>3 DEF CellSet, UpdateFits
  <2>8. PICK to \in Ids \ {i} : Updated(g, w, i, to, f, f, s, S)
    BY <2>4, <2>7, UpdateHolds
  <2> HIDE DEF w, b
  <2>9. /\ w.cell[f][s] = Trap(to)
        /\ \A d \in Envs, t \in Symbols : d # f \/ t # s => w.cell[d][t] = g.cell[d][t]
    BY <2>8 DEF Updated
  <2>10. \A e \in Envs, t \in Symbols : BindingFrame(w, e, t) = BindingFrame(g, e, t)
    <3>1. Binds(w, f, s) /\ Binds(g, f, s)
      BY <1>3, <2>9, TrapBinds DEF Shadows
    <3>2. \A d \in Envs, t \in Symbols : Binds(w, d, t) <=> Binds(g, d, t)
      BY <2>9, <3>1, BindsCell
    <3>3. QED
      BY <3>2, SearchSame
  <2>11. ASSUME NEW j \in Ids, NEW k \in Kinds, NEW r \in In(h, j, k), Stays(g, f, s, j, r)
         PROVE  w.cell[BindingFrame(w, r.env, r.sym)][r.sym] = Trap(j)
    <3>1. r.env \in Envs /\ r.sym \in Symbols
      BY FoundTrap
    <3>2. BindingFrame(g, r.env, r.sym) \in Envs
      BY <3>1, BindingFound
    <3>3. QED
      BY <2>9, <2>10, <2>11, <3>1, <3>2 DEF Stays
  <2>12. ASSUME NEW k \in Kinds, NEW r \in In(h, i, k), Inside(r, f)
         PROVE  w.cell[BindingFrame(w, r.env, r.sym)][r.sym] = Trap(to)
    <3>1. /\ r.env \in Envs /\ r.sym \in Symbols /\ r \in program.refs
          /\ h.cell[BindingFrame(h, r.env, r.sym)][r.sym] = Trap(i)
      BY FoundTrap
    <3>2. BindingFrame(h, r.env, r.sym) \in Envs
      BY <3>1, BindingFound
    <3>3. r.sym = s /\ BindingFrame(h, r.env, s) = b
      BY <2>5, <3>1, <3>2
    <3>4. f \in Range(Chain(r.env))
      BY <2>12, <3>1, InsideIs
    <3>5. BindingFrame(g, r.env, s) = f
      BY <1>3, <2>2, <3>1, <3>3, <3>4, PassingStops DEF b
    <3>6. QED
      BY <2>9, <2>10, <3>1, <3>3, <3>5
  <2>13. ASSUME NEW j \in Ids, NEW k \in Kinds, NEW r \in In(h, j, k), Diverted(h, g, f, s, j, r)
         PROVE  j = i /\ Inside(r, f)
    <3>1. Trap(j) = Trap(i)
      BY <2>1, <2>13 DEF Diverted, shadowed
    <3>2. QED
      BY <2>13, <3>1, TrapsDiffer, FoundTrap, InsideIs DEF Diverted
  <2>14. Placed(w)
    <3>1. ASSUME NEW j \in Ids, NEW k \in Kinds, NEW r \in In(w, j, k)
          PROVE  w.cell[BindingFrame(w, r.env, r.sym)][r.sym] = Trap(j)
      <4>1. \A l \in Ids : In(g, l, k) = In(h, l, k)
        BY <1>2 DEF CellSet
      <4>2. In(h, to, k) = {}
        BY <1>1, <1>2, <2>8, <4>1 DEF CellSet, Updated
      <4>3. CASE j = to
        <5>1. r \in In(h, i, k) /\ Inside(r, f)
          BY <2>8, <4>1, <4>2, <4>3 DEF Updated, MovedOut
        <5>2. QED
          BY <2>12, <4>3, <5>1
      <4>4. CASE j # to
        <5>1. r \in In(h, j, k) /\ ~ (j = i /\ Inside(r, f))
          BY <2>8, <4>1, <4>4 DEF Updated, MovedOut
        <5>2. Stays(g, f, s, j, r)
          BY <1>4, <2>13, <5>1
        <5>3. QED
          BY <2>11, <5>1, <5>2
      <4>5. QED
        BY <4>3, <4>4
    <3>2. QED
      BY <3>1 DEF Placed
  <2>15. g.cache = h.cache /\ g.loc = h.loc
    BY <1>2 DEF CellSet
  <2>16. HInv(w, S \ AllOut(h, i, f))
    BY <2>8, <2>14, <2>15, UpdatedHolds
  <2>17. HInv(w, S)
    <3>1. S \ AllOut(h, i, f) \subseteq S
      OBVIOUS
    <3>2. QED
      BY <2>16, <3>1, HeldMonotone DEF HInv, Tracked
  <2>18. QED
    BY <1>0, <1>6, <2>17 DEF shadowed
<1>7. QED
  BY <1>5, <1>6

(***************************************************************************)
(* The value of a cache.                                                   *)
(***************************************************************************)

ValueSet(h, g, i, v, T) ==
  /\ Held(g, T)
  /\ g.cell = h.cell /\ g.trap = h.trap /\ g.loc = h.loc
  /\ g.cache[i].clone = h.cache[i].clone /\ g.cache[i].alist = h.cache[i].alist
  /\ \A j \in Ids \ {i} : g.cache[j] = h.cache[j]
  /\ \A j \in Ids, k \in Kinds : In(g, j, k) = In(h, j, k)

\* SET_CACHE_VALUE: only the links of operator references depend on the value.
LEMMA SetValueHolds ==
  ASSUME NEW h, NEW S, Held(h, S), NEW i \in Ids, NEW v \in Plain
  PROVE  ValueSet(h, SetValue(h, i, v), i, v, S \cup In(h, i, "operator"))
<1> DEFINE c == [value |-> v, clone |-> h.cache[i].clone, alist |-> h.cache[i].alist]
           g == [h EXCEPT !.cache[i] = c]
           T == S \cup In(h, i, "operator")
<1>1. h \in HeapType /\ ListsOK(h) /\ LocsOK(h, S) /\ h.cache[i] \in Caches
  BY DEF Held, HeapType
<1>2. SetValue(h, i, v) = g
  <2>1. h.cache[i] = [value |-> h.cache[i].value, clone |-> h.cache[i].clone, alist |-> h.cache[i].alist]
    BY <1>1 DEF Caches
  <2>2. [h.cache[i] EXCEPT !.value = v] = c
    BY <2>1
  <2>3. SetValue(h, i, v) = [h EXCEPT !.cache[i] = [h.cache[i] EXCEPT !.value = v]]
    BY DEF SetValue
  <2> HIDE DEF c
  <2>4. QED
    BY <2>2, <2>3
<1>3. c \in Caches
  BY <1>1 DEF Caches
<1>4. g.cache[i] = c
  BY <1>1 DEF HeapType
<1>5. \A k \in Kinds \ {"operator"} : Installed(g, i, k) = Installed(h, i, k)
  <2>1. g.cache[i].clone = h.cache[i].clone
    BY <1>4
  <2> HIDE DEF g
  <2>2. QED
    BY <2>1 DEF Installed, Kinds
<1>6. CacheFits(h, i, c, T)
  <2>1. \A k \in Kinds : InAlist(c.alist[k]) = In(h, i, k)
    BY DEF In
  <2>2. ASSUME NEW k \in Kinds, NEW r \in In(h, i, k)
        PROVE  r \in T \/ h.loc[r] = Installed(g, i, k)
    <3>1. CASE k = "operator"
      BY <3>1
    <3>2. CASE k # "operator" /\ r \notin S
      BY <1>1, <1>5, <3>2 DEF LocsOK
    <3>3. QED
      BY <3>1, <3>2
  <2>3. c.alist = h.cache[i].alist
    OBVIOUS
  <2> HIDE DEF c, T
  <2>4. \A k \in Kinds :
          /\ \E s \in Symbols : ListOf(c.alist[k], s)
          /\ \A f \in Envs, s \in Symbols : h.cell[f][s] = Trap(i) => ListOf(c.alist[k], s)
          /\ InAlist(c.alist[k]) # {} => h.trap[i] = i
          /\ \A r \in InAlist(c.alist[k]) : r.kind = k /\ r \in program.refs
    BY <1>1, <2>1, <2>3 DEF ListsOK
  <2>5. \A k \in Kinds : \A r \in In(h, i, k), j \in Ids \ {i} : r \notin In(h, j, k)
    BY <1>1 DEF ListsOK
  <2>6. QED
    BY <1>3, <2>1, <2>2, <2>4, <2>5 DEF CacheFits
<1>7. /\ Held(g, T) /\ g.cell = h.cell /\ g.trap = h.trap /\ g.loc = h.loc
      /\ \A j \in Ids \ {i} : g.cache[j] = h.cache[j]
  <2>1. S \subseteq T
    OBVIOUS
  <2> HIDE DEF c, T
  <2>2. QED
    BY <1>6, <2>1, CacheHolds
<1>8. g.cache[i].clone = h.cache[i].clone /\ g.cache[i].alist = h.cache[i].alist
  BY <1>4
<1> HIDE DEF g, T
<1>9. \A j \in Ids, k \in Kinds : In(g, j, k) = In(h, j, k)
  BY <1>7, <1>8 DEF In
<1>10. QED
  BY <1>2, <1>7, <1>8, <1>9 DEF ValueSet, T

\* The references of cache i known to operate on it, and the invariant without them.
LEMMA ValueHolds ==
  ASSUME program \in Programs, NEW h, NEW S, HInv(h, S), NEW i \in Ids, NEW v \in Plain
  PROVE  HInv(SetValue(h, i, v), S \cup In(h, i, "operator"))
<1> DEFINE g == SetValue(h, i, v)
           T == S \cup In(h, i, "operator")
<1>1. ValueSet(h, g, i, v, T)
  BY SetValueHolds DEF HInv
<1>2. S \subseteq T
  OBVIOUS
<1> HIDE DEF g, T
<1>3. \A j \in Ids : CloneOK(g, j)
  <2>1. \A j \in Ids : g.cache[j].clone = h.cache[j].clone
    BY <1>1 DEF ValueSet
  <2>2. QED
    BY <1>1, <2>1 DEF HInv, CloneOK, ValueSet, Kinds
<1>4. Placed(g)
  <2>1. \A e, s : BindingFrame(g, e, s) = BindingFrame(h, e, s)
    BY <1>1 DEF BindingFrame, Binds, ValueSet
  <2>2. QED
    BY <1>1, <2>1 DEF HInv, Placed, ValueSet
<1>5. Tracked(g, T)
  <2>1. \A r \in Refs : r.kind \in Kinds
    BY ProgramAssumption
  <2>2. QED
    BY <1>1, <1>2, <2>1 DEF HInv, Tracked, ValueSet
<1>6. QED
  BY <1>1, <1>3, <1>4, <1>5 DEF HInv, ValueSet, g, T

\* The caches keep their references, and the locations that change are of known ones.
LEMMA SettledHolds ==
  ASSUME program \in Programs, NEW h, NEW S, HInv(h, S), NEW g, NEW T, Held(g, T), g.cell = h.cell,
         \A j \in Ids, k \in Kinds : In(g, j, k) = In(h, j, k),
         \A j \in Ids : CloneOK(g, j),
         \A r \in Refs : g.loc[r] = h.loc[r] \/ (r \in Known(h) /\ LocFits(r, g.loc[r])),
         S \ Known(h) \subseteq T
  PROVE  HInv(g, T)
<1>1. Placed(g)
  <2>1. \A e, s : BindingFrame(g, e, s) = BindingFrame(h, e, s)
    BY DEF BindingFrame, Binds
  <2>2. QED
    BY <2>1 DEF HInv, Placed
<1>2. \A r \in Refs : r.kind \in Kinds
  BY ProgramAssumption
<1>3. Tracked(g, T)
  <2>1. ASSUME NEW r \in Refs, g.loc[r] # NotLinked
        PROVE  LocFits(r, g.loc[r]) /\ (r \notin T => \E i \in Ids : r \in In(g, i, r.kind))
    <3>1. h.loc[r] # NotLinked
      BY <1>2, <2>1 DEF HInv, Tracked, Known
    <3>2. LocFits(r, g.loc[r])
      BY <3>1 DEF HInv, Tracked
    <3>3. ASSUME r \notin T PROVE \E i \in Ids : r \in In(h, i, r.kind)
      BY <3>1, <3>3 DEF HInv, Tracked, Known
    <3>4. QED
      BY <1>2, <3>2, <3>3
  <2>2. ASSUME NEW i \in Ids, NEW k \in Kinds, NEW r \in In(g, i, k) PROVE g.loc[r] # NotLinked
    <3>1. r \in In(h, i, k)
      OBVIOUS
    <3>2. r \in Refs /\ h.loc[r] # NotLinked
      BY <3>1, FoundTrap DEF HInv, Tracked
    <3>3. QED
      BY <3>2 DEF LocFits
  <2>3. QED
    BY <2>1, <2>2 DEF Tracked
<1>4. QED
  BY <1>1, <1>3 DEF HInv

\* The symbol of a cache's references is that of the cell that holds its trap.
LEMMA CacheSymbol ==
  ASSUME NEW h, NEW S, Held(h, S), NEW i \in Ids, NEW k \in Kinds
  PROVE  \E s \in Symbols : /\ ListOf(h.cache[i].alist[k], s)
                            /\ \A d \in Envs, t \in Symbols : h.cell[d][t] = Trap(i) => t = s
<1>1. CellsOK(h) /\ ListsOK(h)
  BY DEF Held
<1>2. CASE \E d \in Envs, t \in Symbols : h.cell[d][t] = Trap(i)
  BY <1>1, <1>2 DEF CellsOK, ListsOK
<1>3. CASE ~ \E d \in Envs, t \in Symbols : h.cell[d][t] = Trap(i)
  BY <1>1, <1>3 DEF ListsOK
<1>4. QED
  BY <1>2, <1>3

\* An assignment through a cache leaves every operator reference of it up to date.
LEMMA AssignCacheHolds ==
  ASSUME program \in Programs, NEW h, NEW S, HInv(h, S), NEW i \in Ids, NEW v \in Plain
  PROVE  HInv(AssignCache(h, i, v), S \ In(h, i, "operator"))
<1> DEFINE a == h.cache[i].alist["operator"]
           A == In(h, i, "operator")
           g1 == SetList(h, i, "operator", Walked(a))
           g2 == SetValue(g1, i, v)
           g3 == UpdateClone(g2, i)
           g4 == Install(g3, i, A)
<1>0. "operator" \in Kinds /\ Held(h, S) /\ ListsOK(h)
  BY DEF Kinds, HInv, Held
<1>1. CASE a = <<>>
  <2>1. AssignCache(h, i, v) = SetValue(h, i, v) /\ A = {}
    BY <1>1, EmptyAlist DEF AssignCache, In
  <2>2. S \cup A = S \ A
    BY <2>1
  <2>3. HInv(SetValue(h, i, v), S \cup A)
    BY ValueHolds
  <2>4. QED
    BY <2>1, <2>2, <2>3
<1>2. CASE a # <<>>
  <2>1. PICK s \in Symbols : /\ ListOf(a, s)
                             /\ \A d \in Envs, t \in Symbols : h.cell[d][t] = Trap(i) => t = s
    BY <1>0, CacheSymbol
  <2>2. ListOf(Walked(a), s) /\ InAlist(Walked(a)) = A
    BY <2>1, WalkedList DEF In
  <2>3. AssignCache(h, i, v) = g4
    BY <1>2, <2>2 DEF AssignCache
  <2>4. ListFits(h, i, "operator", s, Walked(a), S, S)
    <3>1. A # {} => h.trap[i] = i
      BY <1>0 DEF ListsOK
    <3>2. \A r \in A : r.kind = "operator" /\ r \in program.refs /\ r \in In(h, i, "operator")
      BY <1>0 DEF ListsOK
    <3>3. \A r \in A : \A j \in Ids \ {i} : r \notin In(h, j, "operator")
      BY <1>0 DEF ListsOK
    <3> HIDE DEF A, a
    <3>4. QED
      BY <1>0, <2>1, <2>2, <3>1, <3>2, <3>3 DEF ListFits
  <2>5. ListChanged(h, g1, i, "operator", Walked(a), S)
    BY <2>4, ListHolds
  <2> HIDE DEF g1, a
  <2>6. Held(g1, S) /\ \A j \in Ids, k \in Kinds : In(g1, j, k) = In(h, j, k)
    BY <2>2, <2>5 DEF ListChanged, A
  <2>7. ValueSet(g1, g2, i, v, S \cup In(g1, i, "operator"))
    BY <2>6, SetValueHolds
  <2>8. In(g1, i, "operator") = A
    BY <1>0, <2>6
  <2> HIDE DEF g2, A
  <2>9. /\ Held(g2, S \cup A) /\ \A j \in Ids, k \in Kinds : In(g2, j, k) = In(h, j, k)
        /\ g2.cell = h.cell /\ g2.loc = h.loc /\ \A j \in Ids \ {i} : g2.cache[j] = h.cache[j]
    BY <2>5, <2>6, <2>7, <2>8 DEF ValueSet, ListChanged
  <2>10. CloneUpdated(g2, g3, i, S \cup A)
    BY <2>9, UpdateCloneHolds
  <2> HIDE DEF g3
  <2>11. \A j \in Ids, k \in Kinds : In(g3, j, k) = In(h, j, k)
    <3>1. \A j \in Ids \ {i} : g3.cache[j] = g2.cache[j]
      BY <2>10 DEF CloneUpdated
    <3>2. \A j \in Ids \ {i}, k \in Kinds : In(g3, j, k) = In(g2, j, k)
      BY <3>1 DEF In
    <3>3. QED
      BY <2>9, <2>10, <3>2 DEF CloneUpdated
  <2>12. InstallFits(g3, i, A, S \cup A)
    <3>1. A \subseteq Refs
      BY <1>0, RefsAreRefs DEF A
    <3>2. ASSUME NEW r \in A, NEW j \in Ids \ {i}, NEW k \in Kinds PROVE r \notin In(h, j, k)
      BY <1>0 DEF ListsOK, A
    <3>3. QED
      BY <2>10, <2>11, <3>1, <3>2 DEF InstallFits, CloneUpdated
  <2>13. InstalledIn(g3, g4, i, A, S \cup A)
    BY <2>12, InstallHolds
  <2> HIDE DEF g4
  <2>14. Held(g4, S \ A) /\ g4.cell = h.cell
    <3>1. (S \cup A) \ A = S \ A
      OBVIOUS
    <3>2. QED
      BY <2>9, <2>10, <2>13, <3>1 DEF InstalledIn, CloneUpdated
  <2>15. \A j \in Ids, k \in Kinds : In(g4, j, k) = In(h, j, k)
    BY <2>11, <2>13 DEF InstalledIn, In
  <2>16. \A j \in Ids : CloneOK(g4, j)
    <3>1. CloneOK(g4, i)
      BY <2>10, <2>13 DEF InstalledIn, CloneUpdated, CloneOK, In
    <3>2. \A j \in Ids \ {i} : g4.cache[j] = h.cache[j]
      BY <2>9, <2>10, <2>13 DEF InstalledIn, CloneUpdated
    <3>3. \A j \in Ids \ {i} : CloneOK(g4, j)
      BY <3>2 DEF HInv, CloneOK, In
    <3>4. QED
      BY <3>1, <3>3
  <2>17. Known(g2) = Known(h) /\ A \subseteq Known(h)
    <3>1. \A r \in Refs : r.kind \in Kinds
      BY ProgramAssumption
    <3>2. Known(g2) = Known(h)
      BY <2>9, <3>1 DEF Known
    <3>3. \A r \in A : r \in Refs /\ r.kind = "operator"
      BY <1>0, RefsAreRefs DEF A, ListsOK
    <3>4. QED
      BY <3>2, <3>3 DEF Known, A
  <2>18. \A r \in Refs : g4.loc[r] = h.loc[r] \/ (r \in Known(h) /\ LocFits(r, g4.loc[r]))
    <3>1. SUFFICES ASSUME NEW r \in Refs
                   PROVE  g4.loc[r] = h.loc[r] \/ (r \in Known(h) /\ LocFits(r, g4.loc[r]))
      OBVIOUS
    <3>2. CASE r \in A
      <4>1. g3 \in HeapType /\ r.kind \in Kinds
        BY <2>10, ProgramAssumption DEF CloneUpdated, Held
      <4>2. LocFits(r, Installed(g3, i, r.kind))
        BY <4>1, InstalledFits
      <4>3. QED
        BY <2>13, <2>17, <3>2, <4>2 DEF InstalledIn
    <3>3. CASE r \notin A
      BY <2>9, <2>10, <2>13, <2>17, <3>3 DEF InstalledIn, CloneUpdated
    <3>4. QED
      BY <3>2, <3>3
  <2>19. S \ Known(h) \subseteq S \ A
    BY <2>17
  <2>20. HInv(g4, S \ A)
    BY <2>14, <2>15, <2>16, <2>18, <2>19, SettledHolds
  <2>21. QED
    BY <2>3, <2>20 DEF A
<1>3. QED
  BY <1>1, <1>2

(***************************************************************************)
(* unbind_variable.                                                        *)
(***************************************************************************)

\* A frame's binding is removed: the searches that stopped at it go on.
Unbinds(h, g, f, s, S) ==
  /\ \E v \in Plain \cup {NoCell} : CellSet(h, g, f, s, v, S)
  /\ Differs(h, g, f, s) /\ Shadows(g, h, f, s)

LEMMA UnbindingIs ==
  ASSUME program \in Programs, NEW h, NEW S, HInv(h, S), NEW f \in Envs, f # Global,
         NEW s \in Symbols, Binds(h, f, s)
  PROVE  Unbinds(h, Unbinding(h, f, s), f, s, S)
<1> DEFINE v == IF s \in Params[f] THEN Unbound ELSE NoCell
           g == SetCell(h, f, s, v)
<1>1. Unbinding(h, f, s) = g
  BY DEF Unbinding
<1>2. v \in Plain \cup {NoCell}
  BY DEF Plain
<1>3. v = NoCell \/ (f \in Frames /\ s \in Params[f] /\ v = Unbound)
  BY DEF Envs
<1> HIDE DEF v
<1>4. CellSet(h, g, f, s, v, S)
  BY <1>2, SetHolds DEF HInv
<1> HIDE DEF g
<1>5. Differs(h, g, f, s)
  BY <1>4 DEF CellSet, Differs
<1>6. ~ Binds(g, f, s)
  BY <1>3, <1>4 DEF CellSet, Binds
<1>7. Shadows(g, h, f, s)
  BY <1>5, <1>6, DiffersBinds DEF Shadows
<1>8. QED
  BY <1>1, <1>2, <1>4, <1>5, <1>7 DEF Unbinds

\* Where that leaves the reference r of cache i.
Uncovered(h, g, f, s, i, r) ==
  /\ r.sym = s /\ h.cell[f][s] = Trap(i) /\ f \in Range(Chain(r.env))
  /\ Parent(f) # Null => BindingFrame(g, r.env, s) = BindingFrame(g, Parent(f), s)

LEMMA UnboundPlaced ==
  ASSUME program \in Programs, NEW h, NEW g, NEW S, HInv(h, S), NEW f, NEW s,
         Unbinds(h, g, f, s, S), NEW i \in Ids, NEW k \in Kinds, NEW r \in In(h, i, k)
  PROVE  \/ g.cell[BindingFrame(g, r.env, r.sym)][r.sym] = Trap(i) /\ h.cell[f][s] # Trap(i)
         \/ Uncovered(h, g, f, s, i, r)
<1> DEFINE b == BindingFrame(h, r.env, r.sym)
<1>0. Differs(h, g, f, s) /\ Shadows(g, h, f, s) /\ CellsOK(h)
  BY DEF Unbinds, HInv, Held
<1>1. r.env \in Envs /\ r.sym \in Symbols /\ h.cell[b][r.sym] = Trap(i) /\ Binds(h, b, r.sym)
  BY FoundTrap
<1>2. b \in Envs
  BY <1>1, BindingFound
<1>3. CASE r.sym # s
  <2>1. BindingFrame(g, r.env, r.sym) = b
    BY <1>0, <1>1, <1>3, SearchSame, DiffersBinds
  <2> HIDE DEF b
  <2>2. g.cell[b][r.sym] = h.cell[b][r.sym]
    BY <1>0, <1>1, <1>2, <1>3 DEF Differs
  <2>3. h.cell[f][s] # Trap(i)
    BY <1>0, <1>1, <1>2, <1>3 DEF CellsOK, Differs
  <2>4. QED
    BY <1>1, <2>1, <2>2, <2>3
<1>4. CASE r.sym = s /\ b # f
  <2>1. BindingFrame(g, r.env, r.sym) = b
    BY <1>0, <1>1, <1>4, OthersStop
  <2> HIDE DEF b
  <2>2. g.cell[b][r.sym] = h.cell[b][r.sym]
    BY <1>0, <1>1, <1>2, <1>4 DEF Differs
  <2>3. h.cell[f][s] # Trap(i)
    BY <1>0, <1>1, <1>2, <1>4 DEF CellsOK, Differs
  <2>4. QED
    BY <1>1, <2>1, <2>2, <2>3
<1>5. CASE r.sym = s /\ b = f
  BY <1>0, <1>1, <1>5, ShadowedStops DEF Uncovered
<1>6. QED
  BY <1>3, <1>4, <1>5

\* Without a cache nothing else is to be done.
LEMMA PlainUnbound ==
  ASSUME program \in Programs, NEW h, NEW S, HInv(h, S), NEW f \in Envs, NEW s \in Symbols,
         Binds(h, f, s), h.cell[f][s] \notin CellTraps
  PROVE  HInv(Unbinding(h, f, s), S)
<1> DEFINE g == Unbinding(h, f, s)
<1>1. CASE f = Global
  <2>1. g = SetCell(h, f, s, Unbound) /\ Unbound \in Plain
    BY <1>1 DEF Unbinding, Plain
  <2>2. CellChanged(h, SetCell(h, f, s, Unbound), f, s, Unbound)
    BY SetCellIs DEF HInv, Held
  <2>3. g.cell[f][s] = Unbound
    BY <2>1, <2>2 DEF CellChanged
  <2>4. Unbound # NoCell /\ Global \notin Frames
    BY ProgramAssumption DEF Unbound, NoCell
  <2> HIDE DEF g
  <2>5. Binds(g, f, s)
    BY <1>1, <2>3, <2>4 DEF Binds
  <2>6. QED
    BY <2>1, <2>5, ReplacedHolds DEF g
<1>2. CASE f # Global
  <2>1. Unbinds(h, g, f, s, S)
    BY <1>2, UnbindingIs
  <2> HIDE DEF g
  <2>2. \A i \in Ids : h.cell[f][s] # Trap(i)
    BY DEF CellTraps
  <2>3. \A i \in Ids, k \in Kinds : \A r \in In(h, i, k) :
          g.cell[BindingFrame(g, r.env, r.sym)][r.sym] = Trap(i)
    <3>1. ASSUME NEW i \in Ids, NEW k \in Kinds, NEW r \in In(h, i, k)
          PROVE  g.cell[BindingFrame(g, r.env, r.sym)][r.sym] = Trap(i)
      <4>1. ~ Uncovered(h, g, f, s, i, r)
        BY <2>2 DEF Uncovered
      <4>2. QED
        BY <2>1, <4>1, UnboundPlaced
    <3>2. QED
      BY <3>1
  <2>4. PICK v \in Plain \cup {NoCell} : CellSet(h, g, f, s, v, S)
    BY <2>1 DEF Unbinds
  <2>5. Placed(g)
    BY <2>3, <2>4 DEF CellSet, Placed
  <2>6. HInv(g, S)
    BY <2>4, <2>5, SameRefs DEF CellSet
  <2>7. QED
    BY <2>6 DEF g
<1>3. QED
  BY <1>1, <1>2

\* What is known of the cache of the binding to be removed.
TrapUnbound(h, g, f, s, i) ==
  /\ h.trap[i] = i /\ g.trap = h.trap /\ g.cache = h.cache /\ g.loc = h.loc
  /\ Free(h) \subseteq Free(g)
  /\ \A d \in Envs, t \in Symbols : g.cell[d][t] # Trap(i)
  /\ \A d \in Envs, t \in Symbols : d # f \/ t # s => g.cell[d][t] = h.cell[d][t]
  /\ \A k \in Kinds : ListOf(h.cache[i].alist[k], s)
  /\ \A j \in Ids, k \in Kinds : In(g, j, k) = In(h, j, k)
  /\ \A k \in Kinds : \A r \in In(h, i, k) : Inside(r, f)
  /\ Deleted(h, i, f, s) = AllOut(h, i, f)
  /\ \A k \in Kinds : ToMove(h.cache[i].alist[k], f, s) = In(h, i, k)

LEMMA TrapUnboundIs ==
  ASSUME program \in Programs, Independent(program), NEW h, NEW g, NEW S, HInv(h, S),
         NEW f \in Envs, NEW s \in Symbols, NEW i \in Ids, h.cell[f][s] = Trap(i),
         Unbinds(h, g, f, s, S)
  PROVE  TrapUnbound(h, g, f, s, i)
<1>1. PICK v \in Plain \cup {NoCell} : CellSet(h, g, f, s, v, S)
  BY DEF Unbinds
<1>2. CellsOK(h) /\ ListsOK(h)
  BY DEF HInv, Held
<1>3. h.trap[i] = i
  BY <1>2 DEF CellsOK
<1>4. \A k \in Kinds : ListOf(h.cache[i].alist[k], s)
  BY <1>2 DEF ListsOK
<1>5. \A d \in Envs, t \in Symbols : g.cell[d][t] # Trap(i)
  <2>1. v # Trap(i)
    BY PlainIsNoTrap DEF CellTraps
  <2>2. QED
    BY <1>1, <1>2, <2>1 DEF CellSet, CellsOK
<1>6. \A k \in Kinds : \A r \in In(h, i, k) : Inside(r, f)
  <2>1. SUFFICES ASSUME NEW k \in Kinds, NEW r \in In(h, i, k) PROVE Inside(r, f)
    OBVIOUS
  <2>2. /\ r.env \in Envs /\ r.sym \in Symbols /\ r \in program.refs
        /\ h.cell[BindingFrame(h, r.env, r.sym)][r.sym] = Trap(i)
    BY FoundTrap
  <2>3. BindingFrame(h, r.env, r.sym) \in Envs /\ BindingFrame(h, r.env, r.sym) \in Range(Chain(r.env))
    BY <2>2, BindingFound
  <2>4. BindingFrame(h, r.env, r.sym) = f
    BY <1>2, <2>2, <2>3 DEF CellsOK
  <2>5. QED
    BY <2>2, <2>3, <2>4, InsideIs
<1>7. \A k \in Kinds : ToMove(h.cache[i].alist[k], f, s) = In(h, i, k)
                       /\ MovedOut(h, i, k, f) = In(h, i, k)
  <2>1. SUFFICES ASSUME NEW k \in Kinds
                 PROVE  ToMove(h.cache[i].alist[k], f, s) = In(h, i, k)
                        /\ MovedOut(h, i, k, f) = In(h, i, k)
    OBVIOUS
  <2>2. ToMove(h.cache[i].alist[k], f, s) = {r \in InAlist(h.cache[i].alist[k]) : Inside(r, f)}
    BY <1>4, MovedList
  <2>3. In(h, i, k) = InAlist(h.cache[i].alist[k])
    BY DEF In
  <2>4. {r \in In(h, i, k) : Inside(r, f)} = In(h, i, k)
    BY <1>6
  <2>5. QED
    BY <2>2, <2>3, <2>4 DEF MovedOut
<1>8. Deleted(h, i, f, s) = AllOut(h, i, f)
  BY <1>7 DEF Deleted, AllOut
<1>9. QED
  BY <1>1, <1>3, <1>4, <1>5, <1>6, <1>7, <1>8 DEF TrapUnbound, CellSet

\* The references of the removed binding go to the cache of the one it shadowed.
LEMMA MovedUnbound ==
  ASSUME program \in Programs, Independent(program), NEW h, NEW S, HInv(h, S), Free(h) # {},
         NEW f \in Envs, f # Global, NEW s \in Symbols, NEW i \in Ids, h.cell[f][s] = Trap(i),
         Contents(h, Parent(f), s) # NoCell
  PROVE  HInv(UpdateCacheReferences(Unbinding(h, f, s), i, BindingFrame(h, Parent(f), s), f, s),
              S \ Deleted(h, i, f, s))
<1> DEFINE g == Unbinding(h, f, s)
           b == BindingFrame(h, Parent(f), s)
           w == UpdateCacheReferences(g, i, b, f, s)
<1>1. Binds(h, f, s)
  BY TrapBinds
<1>2. Unbinds(h, g, f, s, S)
  BY <1>1, UnbindingIs
<1> HIDE DEF g
<1>3. TrapUnbound(h, g, f, s, i)
  BY <1>2, TrapUnboundIs
<1>4. Parent(f) # Null /\ Binds(h, b, s) /\ h.cell[b][s] # NoCell
  BY DEF Contents
<1>5. Shadows(g, h, f, s) /\ Held(g, S) /\ ListsOK(h) /\ CellsOK(h)
  BY <1>2 DEF Unbinds, CellSet, HInv, Held
<1>6. Parent(f) \in Envs /\ b \in Envs /\ b # f /\ BindingFrame(g, Parent(f), s) = b
  BY <1>4, <1>5, ParentStops, BindingFound
<1> HIDE DEF b
<1>7. g.cell[b][s] = h.cell[b][s] /\ Binds(g, b, s)
  <2>1. g.cell[b][s] = h.cell[b][s]
    BY <1>3, <1>6 DEF TrapUnbound
  <2>2. QED
    BY <1>4, <2>1, BindsCell
<1>8. UpdateFits(g, i, b, s, S)
  <2>1. g.cell[b][s] # NoCell /\ g.cell[b][s] # Trap(i)
    BY <1>3, <1>4, <1>6, <1>7 DEF TrapUnbound
  <2>2. Free(g) # {} /\ g.trap[i] = i
    BY <1>3 DEF TrapUnbound
  <2>3. /\ \A k \in Kinds : ListOf(g.cache[i].alist[k], s)
        /\ \A d \in Envs, t \in Symbols : g.cell[d][t] = Trap(i) => t = s
    BY <1>3 DEF TrapUnbound
  <2>4. QED
    BY <1>5, <1>6, <2>1, <2>2, <2>3 DEF UpdateFits
<1>9. PICK to \in Ids \ {i} : Updated(g, w, i, to, b, f, s, S)
  BY <1>8, UpdateHolds
<1> HIDE DEF w
<1>10. /\ w.cell[b][s] = Trap(to)
       /\ \A d \in Envs, t \in Symbols : d # b \/ t # s => w.cell[d][t] = g.cell[d][t]
  BY <1>9 DEF Updated
<1>11. \A e \in Envs, t \in Symbols : BindingFrame(w, e, t) = BindingFrame(g, e, t)
  <2>1. Binds(w, b, s)
    BY <1>10, TrapBinds
  <2>2. \A d \in Envs, t \in Symbols : Binds(w, d, t) <=> Binds(g, d, t)
    BY <1>7, <1>10, <2>1, BindsCell
  <2>3. QED
    BY <2>2, SearchSame
<1>12. ASSUME NEW j \in Ids \ {i}, NEW k \in Kinds, NEW r \in In(h, j, k)
       PROVE  w.cell[BindingFrame(w, r.env, r.sym)][r.sym] = Trap(j)
  <2>1. r.env \in Envs /\ r.sym \in Symbols
    BY FoundTrap
  <2>2. ~ Uncovered(h, g, f, s, j, r)
    BY TrapsDiffer DEF Uncovered
  <2>3. g.cell[BindingFrame(g, r.env, r.sym)][r.sym] = Trap(j)
    BY <1>2, <2>2, UnboundPlaced
  <2>4. BindingFrame(g, r.env, r.sym) \in Envs
    BY <2>1, BindingFound
  <2>5. CASE BindingFrame(g, r.env, r.sym) = b /\ r.sym = s
    <3>1. h.cell[b][s] = Trap(j) /\ h.cell[b][s] \in CellTraps
      BY <1>7, <2>3, <2>5 DEF CellTraps
    <3>2. g.cell[b][s] \in CellTraps /\ g.cell[b][s] = Trap(j)
      BY <1>7, <3>1
    <3>3. w.cell[b][s] = Trap(j)
      BY <1>9, <1>10, <3>2 DEF Updated
    <3>4. QED
      BY <1>11, <2>1, <2>5, <3>3
  <2>6. CASE ~ (BindingFrame(g, r.env, r.sym) = b /\ r.sym = s)
    BY <1>10, <1>11, <2>1, <2>3, <2>4, <2>6
  <2>7. QED
    BY <2>5, <2>6
<1>13. ASSUME NEW k \in Kinds, NEW r \in In(h, i, k)
       PROVE  w.cell[BindingFrame(w, r.env, r.sym)][r.sym] = Trap(to)
  <2>1. r.env \in Envs /\ r.sym \in Symbols
    BY FoundTrap
  <2>2. Uncovered(h, g, f, s, i, r)
    BY <1>2, UnboundPlaced
  <2>3. r.sym = s /\ BindingFrame(g, r.env, s) = b
    BY <1>4, <1>6, <2>2 DEF Uncovered
  <2>4. QED
    BY <1>10, <1>11, <2>1, <2>3
<1>14. Placed(w)
  <2>1. ASSUME NEW j \in Ids, NEW k \in Kinds, NEW r \in In(w, j, k)
        PROVE  w.cell[BindingFrame(w, r.env, r.sym)][r.sym] = Trap(j)
    <3>1. \A l \in Ids : In(g, l, k) = In(h, l, k)
      BY <1>3 DEF TrapUnbound
    <3>2. MovedOut(g, i, k, f) = In(h, i, k)
      BY <1>3, <3>1 DEF TrapUnbound, MovedOut
    <3>3. CASE j = i
      BY <1>9, <3>1, <3>2, <3>3 DEF Updated
    <3>4. CASE j # i /\ r \in In(h, j, k)
      BY <1>12, <3>4
    <3>5. CASE j # i /\ r \notin In(h, j, k)
      <4>1. j = to /\ r \in In(h, i, k)
        BY <1>9, <3>1, <3>2, <3>5 DEF Updated
      <4>2. QED
        BY <1>13, <4>1
    <3>6. QED
      BY <3>3, <3>4, <3>5
  <2>2. QED
    BY <2>1 DEF Placed
<1>15. g.cache = h.cache /\ g.loc = h.loc /\ Deleted(h, i, f, s) = AllOut(h, i, f)
  BY <1>3 DEF TrapUnbound
<1>16. HInv(w, S \ AllOut(h, i, f))
  BY <1>9, <1>14, <1>15, UpdatedHolds
<1>17. QED
  BY <1>15, <1>16 DEF w, g, b

\* delete_ref_pairs when all the references of a cache are deleted: it has none left.
RefsDeleted(h, g, i, S) ==
  /\ Held(g, S) /\ g.cell = h.cell /\ g.trap = h.trap /\ g.loc = h.loc
  /\ \A j \in Ids \ {i} : g.cache[j] = h.cache[j]
  /\ \A k \in Kinds : In(g, i, k) = {}

LEMMA DeleteHolds ==
  ASSUME NEW g, NEW S, Held(g, S), NEW i \in Ids, NEW f, NEW s \in Symbols,
         \A k \in Kinds : ListOf(g.cache[i].alist[k], s),
         \A d \in Envs, t \in Symbols : g.cell[d][t] # Trap(i),
         \A k \in Kinds : ToMove(g.cache[i].alist[k], f, s) = In(g, i, k)
  PROVE  RefsDeleted(g, DeleteRefPairs(g, i, f, s), i, S)
<1> DEFINE L == [k \in Kinds |-> Less(g.cache[i].alist[k], s, ToMove(g.cache[i].alist[k], f, s))]
           c == [value |-> g.cache[i].value, clone |-> g.cache[i].clone, alist |-> L]
           m == [g EXCEPT !.cache[i] = c]
<1>1. g \in HeapType /\ g.cache[i] \in Caches
  BY DEF Held, HeapType
<1>2. DeleteRefPairs(g, i, f, s) = m
  <2>1. g.cache[i] = [value |-> g.cache[i].value, clone |-> g.cache[i].clone, alist |-> g.cache[i].alist]
    BY <1>1 DEF Caches
  <2>2. [g.cache[i] EXCEPT !.alist = L] = c
    <3> HIDE DEF L
    <3>1. QED
      BY <2>1
  <2>3. DeleteRefPairs(g, i, f, s) = [g EXCEPT !.cache[i] = [g.cache[i] EXCEPT !.alist = L]]
    BY DEF DeleteRefPairs
  <2> HIDE DEF c, L
  <2>4. QED
    BY <2>2, <2>3
<1>3. \A k \in Kinds : ListOf(L[k], s) /\ InAlist(L[k]) = {}
  <2>1. SUFFICES ASSUME NEW k \in Kinds PROVE ListOf(L[k], s) /\ InAlist(L[k]) = {}
    OBVIOUS
  <2> DEFINE a == g.cache[i].alist[k]
             T == ToMove(a, f, s)
  <2>2. L[k] = Less(a, s, T) /\ ListOf(a, s) /\ T = InAlist(a)
    BY DEF In
  <2> HIDE DEF L, a, T
  <2>3. ListOf(Less(a, s, T), s) /\ InAlist(Less(a, s, T)) = InAlist(a) \ T
    BY <2>2, LessList
  <2>4. QED
    BY <2>2, <2>3
<1>4. L \in [Kinds -> Alists]
  <2>1. \A k \in Kinds : L[k] \in Alists
    BY <1>3, ListIsAlist
  <2>2. L = [k \in Kinds |-> L[k]]
    OBVIOUS
  <2> HIDE DEF L
  <2>3. QED
    BY <2>1, <2>2
<1> HIDE DEF L
<1>5. c \in Caches
  BY <1>1, <1>4 DEF Caches
<1>6. c.alist = L
  OBVIOUS
<1> HIDE DEF c
<1>7. CacheFits(g, i, c, S)
  BY <1>3, <1>5, <1>6 DEF CacheFits
<1>8. /\ Held(m, S) /\ m.cell = g.cell /\ m.trap = g.trap /\ m.loc = g.loc
      /\ m.cache[i] = c /\ \A j \in Ids \ {i} : m.cache[j] = g.cache[j]
  BY <1>7, CacheHolds
<1> HIDE DEF m
<1>9. \A k \in Kinds : In(m, i, k) = {}
  BY <1>3, <1>6, <1>8 DEF In
<1>10. QED
  BY <1>2, <1>8, <1>9 DEF RefsDeleted

\* No outer binding: the references of the removed one are left unbound.
LEMMA DeletedUnbound ==
  ASSUME program \in Programs, Independent(program), NEW h, NEW S, HInv(h, S),
         NEW f \in Envs, f # Global, NEW s \in Symbols, NEW i \in Ids, h.cell[f][s] = Trap(i)
  PROVE  HInv(UpdateClone(DeleteRefPairs(Unbinding(h, f, s), i, f, s), i),
              S \cup Deleted(h, i, f, s))
<1> DEFINE g == Unbinding(h, f, s)
           m == DeleteRefPairs(g, i, f, s)
           w == UpdateClone(m, i)
           T == S \cup Deleted(h, i, f, s)
<1>1. Binds(h, f, s)
  BY TrapBinds
<1>2. Unbinds(h, g, f, s, S)
  BY <1>1, UnbindingIs
<1> HIDE DEF g
<1>3. TrapUnbound(h, g, f, s, i)
  BY <1>2, TrapUnboundIs
<1>4. Held(g, S)
  BY <1>2 DEF Unbinds, CellSet
<1>5. RefsDeleted(g, m, i, S)
  <2>1. /\ \A k \in Kinds : ListOf(g.cache[i].alist[k], s)
        /\ \A d \in Envs, t \in Symbols : g.cell[d][t] # Trap(i)
        /\ \A k \in Kinds : ToMove(g.cache[i].alist[k], f, s) = In(g, i, k)
    BY <1>3 DEF TrapUnbound
  <2>2. QED
    BY <1>4, <2>1, DeleteHolds
<1> HIDE DEF m
<1>6. CloneUpdated(m, w, i, S)
  BY <1>5, UpdateCloneHolds DEF RefsDeleted
<1> HIDE DEF w
<1>7. w.cell = g.cell /\ Held(w, S) /\ \A j \in Ids \ {i} : w.cache[j] = h.cache[j]
  BY <1>3, <1>5, <1>6 DEF TrapUnbound, RefsDeleted, CloneUpdated
<1>8. \A k \in Kinds : In(w, i, k) = {} /\ \A j \in Ids \ {i} : In(w, j, k) = In(h, j, k)
  BY <1>5, <1>6, <1>7 DEF RefsDeleted, CloneUpdated, In
<1>9. \A j \in Ids : CloneOK(w, j)
  BY <1>6, <1>7 DEF HInv, CloneUpdated, CloneOK, In
<1>10. Placed(w)
  <2>1. ASSUME NEW j \in Ids, NEW k \in Kinds, NEW r \in In(w, j, k)
        PROVE  w.cell[BindingFrame(w, r.env, r.sym)][r.sym] = Trap(j)
    <3>1. j # i /\ r \in In(h, j, k)
      BY <1>8
    <3>2. ~ Uncovered(h, g, f, s, j, r)
      BY <3>1, TrapsDiffer DEF Uncovered
    <3>3. g.cell[BindingFrame(g, r.env, r.sym)][r.sym] = Trap(j)
      BY <1>2, <3>1, <3>2, UnboundPlaced
    <3>4. BindingFrame(w, r.env, r.sym) = BindingFrame(g, r.env, r.sym)
      BY <1>7 DEF BindingFrame, Binds
    <3>5. QED
      BY <1>7, <3>3, <3>4
  <2>2. QED
    BY <2>1 DEF Placed
<1>11. \A r \in Refs : w.loc[r] = h.loc[r] \/ (r \in Known(h) /\ LocFits(r, w.loc[r]))
  <2>1. \A r \in Refs : r.kind \in Kinds
    BY ProgramAssumption
  <2>2. \A k \in Kinds, j \in Ids : In(m, j, k) \subseteq In(h, j, k)
    BY <1>3, <1>5 DEF TrapUnbound, RefsDeleted, In
  <2>3. Known(m) \subseteq Known(h)
    BY <2>1, <2>2 DEF Known
  <2>4. m.loc = h.loc
    BY <1>3, <1>5 DEF TrapUnbound, RefsDeleted
  <2>5. QED
    BY <1>6, <2>3, <2>4 DEF CloneUpdated
<1>12. \A r \in Refs : r.kind \in Kinds /\ (r \in In(h, i, r.kind) => r \in T)
  <2>1. \A r \in Refs : r.kind \in Kinds
    BY ProgramAssumption
  <2>2. \A k \in Kinds : ToMove(h.cache[i].alist[k], f, s) = In(h, i, k)
    BY <1>3 DEF TrapUnbound
  <2>3. QED
    BY <2>1, <2>2 DEF Deleted
<1>13. Tracked(w, T)
  <2>1. ASSUME NEW r \in Refs, w.loc[r] # NotLinked
        PROVE  LocFits(r, w.loc[r]) /\ (r \notin T => \E j \in Ids : r \in In(w, j, r.kind))
    <3>1. h.loc[r] # NotLinked
      BY <1>11, <1>12, <2>1 DEF HInv, Tracked, Known
    <3>2. LocFits(r, w.loc[r])
      BY <1>11, <3>1 DEF HInv, Tracked
    <3>3. ASSUME r \notin T PROVE \E j \in Ids : r \in In(w, j, r.kind)
      <4>1. PICK j \in Ids : r \in In(h, j, r.kind)
        BY <3>1, <3>3 DEF HInv, Tracked
      <4>2. j # i
        BY <1>12, <3>3, <4>1
      <4>3. QED
        BY <1>8, <1>12, <4>1, <4>2
    <3>4. QED
      BY <3>2, <3>3
  <2>2. ASSUME NEW j \in Ids, NEW k \in Kinds, NEW r \in In(w, j, k) PROVE w.loc[r] # NotLinked
    <3>1. r \in In(h, j, k)
      BY <1>8
    <3>2. r \in Refs /\ h.loc[r] # NotLinked
      BY <3>1, FoundTrap DEF HInv, Tracked
    <3>3. QED
      BY <1>11, <3>2 DEF LocFits
  <2>3. QED
    BY <2>1, <2>2 DEF Tracked
<1>14. HInv(w, T)
  <2>1. Held(w, T)
    BY <1>7, HeldMonotone
  <2>2. QED
    BY <1>9, <1>10, <1>13, <2>1 DEF HInv
<1>15. QED
  BY <1>14 DEF w, m, g, T

(***************************************************************************)
(* add_cache_reference.                                                    *)
(***************************************************************************)

\* A failed search stops at the last frame of the chain; bound there, it succeeds.
LEMMA LastStops ==
  ASSUME program \in Programs, NEW e \in Envs, NEW h, NEW s,
         ~ Binds(h, BindingFrame(h, e, s), s)
  PROVE  /\ Parent(BindingFrame(h, e, s)) = Null
         /\ \A g : Shadows(h, g, BindingFrame(h, e, s), s) =>
              BindingFrame(g, e, s) = BindingFrame(h, e, s)
<1> DEFINE c == Chain(e)
           f == BindingFrame(h, e, s)
<1>1. PICK N \in Nat : N = Len(c) /\ N \in 1 .. N
  BY ChainType
<1>2. \A i \in 1 .. N : c[i] \in Envs
  BY <1>1, ChainType
<1>3. \A m \in 1 .. N : ~ Binds(h, c[m], s)
  BY <1>1, BindingFirst, BindingAt
<1>4. f = c[N]
  BY <1>1, <1>3, BindingLast
<1>5. Parent(f) = Null
  <2>1. Parent(c[N]) # Null <=> N < N
    BY <1>1, ParentIsNext
  <2>2. QED
    BY <1>1, <1>4, <2>1
<1> HIDE DEF f
<1>6. ASSUME NEW g, Shadows(h, g, f, s) PROVE BindingFrame(g, e, s) = f
  <2>1. Binds(g, c[N], s)
    BY <1>4, <1>6 DEF Shadows
  <2>2. PICK n : BoundAt(g, e, s, n)
    BY <1>1, <2>1, BindingFirst
  <2>3. n \in 1 .. N /\ Binds(g, c[n], s) /\ BindingFrame(g, e, s) = c[n]
    BY <1>1, <2>2, BindingFound DEF BoundAt
  <2>4. c[n] = f
    BY <1>2, <1>3, <1>6, <2>3 DEF Shadows
  <2>5. QED
    BY <2>3, <2>4
<1>7. QED
  BY <1>5, <1>6 DEF f

\* A new binding in a frame without parent diverts no reference.
LEMMA OutermostPlaced ==
  ASSUME program \in Programs, NEW h, NEW g, NEW S, HInv(h, S), NEW f, NEW s, Differs(h, g, f, s),
         Shadows(h, g, f, s), Parent(f) = Null,
         \A j \in Ids, k \in Kinds : In(g, j, k) = In(h, j, k)
  PROVE  Placed(g)
<1>1. \A i \in Ids, k \in Kinds : \A r \in In(h, i, k) : Stays(g, f, s, i, r)
  BY ShadowPlaced DEF Diverted
<1>2. QED
  BY <1>1 DEF Placed, Stays

\* The cell of an unbound variable that a reference may be cached for.
CellReady(h, g, e, s) ==
  LET f == BindingFrame(h, e, s)
  IN /\ f \in Envs /\ g.cell[f][s] # NoCell /\ g.loc = h.loc /\ Free(h) \subseteq Free(g)
     /\ \/ Binds(g, f, s) /\ BindingFrame(g, e, s) = f
        \/ ~ Binds(g, f, s) /\ BindingFrame(g, e, s) = f /\ Parent(f) = Null

LEMMA ReadyHolds ==
  ASSUME program \in Programs, NEW h, NEW S, HInv(h, S), NEW e \in Envs, NEW s \in Symbols
  PROVE  LET g == IF Contents(h, e, s) # NoCell THEN h
                  ELSE SetCell(h, BindingFrame(h, e, s), s, Unbound)
         IN HInv(g, S) /\ CellReady(h, g, e, s)
<1> DEFINE f == BindingFrame(h, e, s)
           n == SetCell(h, f, s, Unbound)
<1>0. f \in Envs /\ Unbound \in Plain /\ Null \notin Envs
  BY BindingFound, ProgramAssumption DEF Plain, Envs, Null, Global
<1>1. CASE Binds(h, f, s)
  <2>1. Contents(h, e, s) = h.cell[f][s] /\ h.cell[f][s] # NoCell
    BY <1>0, <1>1 DEF Contents, Binds
  <2>2. CellReady(h, h, e, s)
    BY <1>0, <1>1, <2>1 DEF CellReady
  <2>3. QED
    BY <2>1, <2>2
<1>2. CASE ~ Binds(h, f, s)
  <2>1. Contents(h, e, s) = NoCell
    BY <1>2 DEF Contents
  <2>2. Parent(f) = Null
    BY <1>2, LastStops
  <2>3. Unbound \in Plain \cup {NoCell} /\ Unbound # NoCell
    BY <1>0 DEF Unbound, NoCell
  <2>4. CellSet(h, n, f, s, Unbound, S)
    BY <1>0, <2>3, SetHolds DEF HInv
  <2>5. n.cell[f][s] # NoCell /\ n.loc = h.loc /\ Free(h) \subseteq Free(n)
    BY <2>3, <2>4 DEF CellSet
  <2>6. h.cell[f][s] \notin CellTraps
    BY <1>2, TrapBinds DEF CellTraps
  <2>7. Differs(h, n, f, s)
    BY <2>4 DEF CellSet, Differs
  <2>8. HInv(n, S) /\ BindingFrame(n, e, s) = f
    <3>1. CASE ~ Binds(n, f, s)
      <4>1. HInv(n, S)
        BY <1>0, <1>2, <2>6, <3>1, ReplacedHolds
      <4>2. \A d \in Envs : Binds(n, d, s) <=> Binds(h, d, s)
        <5> HIDE DEF n, f
        <5>1. QED
          BY <1>2, <2>7, <3>1, DiffersBinds
      <4>3. BindingFrame(n, e, s) = f
        <5> HIDE DEF n
        <5>1. QED
          BY <4>2, SearchSame
      <4>4. QED
        BY <4>1, <4>3
    <3>2. CASE Binds(n, f, s)
      <4> HIDE DEF n
      <4>1. Shadows(h, n, f, s)
        <5> HIDE DEF f
        <5>1. QED
          BY <1>0, <1>2, <2>7, <3>2, DiffersBinds DEF Shadows
      <4>2. Placed(n)
        <5> HIDE DEF f
        <5>1. QED
          BY <2>2, <2>4, <2>7, <4>1, OutermostPlaced DEF CellSet
      <4>3. HInv(n, S)
        BY <2>4, <4>2, SameRefs DEF CellSet
      <4>4. BindingFrame(n, e, s) = f
        BY <1>2, <4>1, LastStops
      <4>5. QED
        BY <4>3, <4>4
    <3>3. QED
      BY <3>1, <3>2
  <2>9. CellReady(h, n, e, s)
    <3> HIDE DEF n
    <3>1. QED
      BY <1>0, <2>2, <2>5, <2>8 DEF CellReady
  <2>10. QED
    BY <2>1, <2>8, <2>9
<1>3. QED
  BY <1>1, <1>2

\* A trap in that cell: the reference's search stops at it, the others where they did.
LEMMA GuaranteeReady ==
  ASSUME program \in Programs, NEW h, NEW g, NEW S, HInv(h, S), NEW e \in Envs, NEW s \in Symbols,
         NEW f \in Envs, BindingFrame(h, e, s) = f, NEW i \in Ids,
         Binds(h, f, s) \/ Parent(f) = Null,
         Guaranteed(h, g, f, s, i, S)
  PROVE  /\ HInv(g, S) /\ g.loc = h.loc
         /\ BindingFrame(g, e, s) = f /\ g.cell[f][s] = Trap(i)
<1>1. CASE h.cell[f][s] \in CellTraps
  BY <1>1 DEF Guaranteed
<1>2. CASE h.cell[f][s] \notin CellTraps
  <2>1. Differs(h, g, f, s) /\ \A j \in Ids, k \in Kinds : In(g, j, k) = In(h, j, k)
    BY DEF Guaranteed, Differs
  <2>2. g.cell[f][s] = Trap(i) /\ Binds(g, f, s)
    BY TrapBinds DEF Guaranteed
  <2>3. Placed(g) /\ BindingFrame(g, e, s) = f
    <3>1. CASE Binds(h, f, s)
      <4>1. \A d \in Envs : Binds(g, d, s) <=> Binds(h, d, s)
        BY <2>1, <2>2, <3>1, DiffersBinds
      <4>2. BindingFrame(g, e, s) = f
        BY <4>1, SearchSame
      <4>3. \A j \in Ids, k \in Kinds : \A r \in In(h, j, k) :
              g.cell[BindingFrame(g, r.env, r.sym)][r.sym] = Trap(j)
        BY <1>2, <2>1, <2>2, <3>1, SamePlaced
      <4>4. QED
        BY <2>1, <4>2, <4>3 DEF Placed
    <3>2. CASE ~ Binds(h, f, s)
      <4>1. Shadows(h, g, f, s)
        BY <2>1, <2>2, <3>2, DiffersBinds DEF Shadows
      <4>2. BindingFrame(g, e, s) = f
        BY <3>2, <4>1, LastStops
      <4>3. Placed(g)
        BY <2>1, <3>2, <4>1, OutermostPlaced
      <4>4. QED
        BY <4>2, <4>3
    <3>3. QED
      BY <3>1, <3>2
  <2>4. \A j \in Ids : CloneOK(g, j)
    <3>1. CloneOK(g, i)
      BY <1>2 DEF Guaranteed, CloneOK, Kinds
    <3>2. \A j \in Ids \ {i} : g.cache[j] = h.cache[j]
      BY DEF Guaranteed
    <3>3. \A j \in Ids \ {i} : CloneOK(g, j)
      BY <3>2 DEF HInv, CloneOK, In
    <3>4. QED
      BY <3>1, <3>3
  <2>5. Tracked(g, S) /\ g.loc = h.loc
    <3>1. \A r \in Refs : r.kind \in Kinds
      BY ProgramAssumption
    <3>2. g.loc = h.loc
      BY DEF Guaranteed
    <3>3. QED
      BY <2>1, <3>1, <3>2 DEF HInv, Tracked
  <2>6. QED
    BY <2>2, <2>3, <2>4, <2>5 DEF HInv, Guaranteed
<1>3. QED
  BY <1>1, <1>2

LEMMA SameSearch ==
  ASSUME NEW h, NEW g, g.cell = h.cell
  PROVE  \A e, s : BindingFrame(g, e, s) = BindingFrame(h, e, s)
BY DEF BindingFrame, Binds

\* The new reference is entered in its list, and installed.
LEMMA EnterHolds ==
  ASSUME program \in Programs, NEW h, NEW S, HInv(h, S), NEW r \in program.refs,
         h.loc[r] = NotLinked, NEW i \in Ids,
         h.cell[BindingFrame(h, r.env, r.sym)][r.sym] = Trap(i)
  PROVE  LET L == AddNamed(h.cache[i].alist[r.kind], r.sym, {r})
         IN HInv(Install(UpdateClone(SetList(h, i, r.kind, L), i), i, {r}), S)
<1> DEFINE b == BindingFrame(h, r.env, r.sym)
           L == AddNamed(h.cache[i].alist[r.kind], r.sym, {r})
           a == SetList(h, i, r.kind, L)
           u == UpdateClone(a, i)
           w == Install(u, i, {r})
           T == S \cup {r}
<1>1. /\ r \in Refs /\ r.env \in Envs /\ r.sym \in Symbols /\ r.kind \in Kinds
      /\ CellsOK(h) /\ ListsOK(h) /\ Held(h, S)
  BY ProgramAssumption DEF HInv, Held
<1>2. b \in Envs
  BY <1>1, BindingFound
<1>3. h.trap[i] = i /\ \A d \in Envs, t \in Symbols : h.cell[d][t] = Trap(i) => t = r.sym
  BY <1>1, <1>2 DEF CellsOK
<1>4. ListOf(h.cache[i].alist[r.kind], r.sym)
  BY <1>1, <1>2 DEF ListsOK
<1>5. ListOf(L, r.sym) /\ InAlist(L) = In(h, i, r.kind) \cup {r}
  BY <1>1, <1>4, AddedList DEF In
<1>6. \A j \in Ids, k \in Kinds : r \notin In(h, j, k)
  BY DEF HInv, Tracked
<1> HIDE DEF L, b
<1>7. ListFits(h, i, r.kind, r.sym, L, S, T)
  <2>1. S \subseteq T
    OBVIOUS
  <2>2. \A q \in InAlist(L) :
          /\ q.kind = r.kind /\ q \in program.refs
          /\ \A j \in Ids \ {i} : q \notin In(h, j, r.kind)
          /\ q \in T \/ q \in In(h, i, r.kind)
    <3>1. SUFFICES ASSUME NEW q \in InAlist(L)
                   PROVE  /\ q.kind = r.kind /\ q \in program.refs
                          /\ \A j \in Ids \ {i} : q \notin In(h, j, r.kind)
                          /\ q \in T \/ q \in In(h, i, r.kind)
      OBVIOUS
    <3>2. CASE q = r
      BY <1>1, <1>6, <3>2
    <3>3. CASE q # r
      BY <1>1, <1>5, <3>3 DEF ListsOK
    <3>4. QED
      BY <3>2, <3>3
  <2> HIDE DEF T
  <2>3. QED
    BY <1>1, <1>3, <1>5, <2>1, <2>2 DEF ListFits
<1>8. ListChanged(h, a, i, r.kind, L, T)
  BY <1>7, ListHolds
<1> HIDE DEF a
<1>9. /\ Held(a, T) /\ a.cell = h.cell /\ a.loc = h.loc
      /\ \A j \in Ids \ {i} : a.cache[j] = h.cache[j]
      /\ \A j \in Ids, k \in Kinds :
           In(a, j, k) = IF j = i /\ k = r.kind THEN In(h, i, r.kind) \cup {r} ELSE In(h, j, k)
  BY <1>5, <1>8 DEF ListChanged
<1>10. CloneUpdated(a, u, i, T)
  BY <1>9, UpdateCloneHolds
<1> HIDE DEF u
<1>11. /\ \A j \in Ids \ {i} : u.cache[j] = h.cache[j]
       /\ \A j \in Ids, k \in Kinds : In(u, j, k) = In(a, j, k)
  <2>1. \A j \in Ids \ {i} : u.cache[j] = a.cache[j] /\ u.cache[j] = h.cache[j]
    BY <1>9, <1>10 DEF CloneUpdated
  <2>2. \A j \in Ids \ {i}, k \in Kinds : In(u, j, k) = In(a, j, k)
    BY <2>1 DEF In
  <2>3. QED
    BY <1>10, <2>1, <2>2 DEF CloneUpdated
<1>12. InstallFits(u, i, {r}, T)
  <2>1. \A j \in Ids \ {i}, k \in Kinds : r \notin In(u, j, k)
    BY <1>6, <1>9, <1>11
  <2>2. QED
    BY <1>1, <1>10, <2>1 DEF InstallFits, CloneUpdated
<1>13. InstalledIn(u, w, i, {r}, T)
  BY <1>12, InstallHolds
<1> HIDE DEF w
<1>14. /\ w.cell = h.cell /\ Held(w, S)
       /\ \A j \in Ids \ {i} : w.cache[j] = h.cache[j]
       /\ \A j \in Ids, k \in Kinds :
            In(w, j, k) = IF j = i /\ k = r.kind THEN In(h, i, r.kind) \cup {r} ELSE In(h, j, k)
  <2>1. w.cell = h.cell /\ w.cache = u.cache
    BY <1>9, <1>10, <1>13 DEF InstalledIn, CloneUpdated
  <2>2. \A j \in Ids, k \in Kinds : In(w, j, k) = In(a, j, k)
    BY <1>11, <2>1 DEF In
  <2>3. T \ {r} \subseteq S
    OBVIOUS
  <2>4. Held(w, S)
    BY <1>13, <2>3, HeldMonotone DEF InstalledIn
  <2>5. QED
    BY <1>9, <1>11, <2>1, <2>2, <2>4
<1>15. \A j \in Ids : CloneOK(w, j)
  <2>1. CloneOK(w, i)
    BY <1>10, <1>13 DEF InstalledIn, CloneUpdated, CloneOK, In
  <2>2. \A j \in Ids \ {i} : CloneOK(w, j)
    BY <1>14 DEF HInv, CloneOK, In
  <2>3. QED
    BY <2>1, <2>2
<1>16. \A e, t : BindingFrame(w, e, t) = BindingFrame(h, e, t)
  <2>1. w.cell = h.cell
    BY <1>14
  <2>2. QED
    BY <2>1, SameSearch
<1>17. Placed(w)
  <2>1. ASSUME NEW j \in Ids, NEW k \in Kinds, NEW q \in In(w, j, k)
        PROVE  w.cell[BindingFrame(w, q.env, q.sym)][q.sym] = Trap(j)
    <3>1. CASE q = r /\ j = i
      BY <1>14, <1>16, <3>1 DEF b
    <3>2. CASE ~ (q = r /\ j = i)
      <4>1. q \in In(h, j, k)
        BY <1>14, <3>2
      <4>2. QED
        BY <1>14, <1>16, <4>1 DEF HInv, Placed
    <3>3. QED
      BY <3>1, <3>2
  <2>2. QED
    BY <2>1 DEF Placed
<1>18. \A q \in Refs \ {r} : w.loc[q] = h.loc[q] \/ (q \in Known(h) /\ LocFits(q, w.loc[q]))
  <2>1. \A q \in Refs : q.kind \in Kinds
    BY ProgramAssumption
  <2>2. \A q \in Refs \ {r} : q \in Known(a) => q \in Known(h)
    BY <1>9, <2>1 DEF Known
  <2>3. \A q \in Refs \ {r} : w.loc[q] = u.loc[q]
    BY <1>13 DEF InstalledIn
  <2>4. QED
    BY <1>9, <1>10, <2>2, <2>3 DEF CloneUpdated
<1>19. LocFits(r, w.loc[r])
  <2>1. w.loc[r] = Installed(u, i, r.kind)
    BY <1>1, <1>13 DEF InstalledIn
  <2>2. u \in HeapType
    BY <1>10 DEF CloneUpdated, Held
  <2>3. QED
    BY <1>1, <2>1, <2>2, InstalledFits
<1>20. Tracked(w, S)
  <2>1. \A q \in Refs : q.kind \in Kinds
    BY ProgramAssumption
  <2>2. ASSUME NEW q \in Refs, w.loc[q] # NotLinked
        PROVE  LocFits(q, w.loc[q]) /\ (q \notin S => \E j \in Ids : q \in In(w, j, q.kind))
    <3>1. CASE q = r
      BY <1>1, <1>14, <1>19, <3>1
    <3>2. CASE q # r
      <4>1. h.loc[q] # NotLinked
        BY <1>18, <2>1, <2>2, <3>2 DEF HInv, Tracked, Known
      <4>2. LocFits(q, w.loc[q])
        BY <1>18, <3>2, <4>1 DEF HInv, Tracked
      <4>3. ASSUME q \notin S PROVE \E j \in Ids : q \in In(w, j, q.kind)
        <5>1. PICK j \in Ids : q \in In(h, j, q.kind)
          BY <4>1, <4>3 DEF HInv, Tracked
        <5>2. QED
          BY <1>14, <2>1, <5>1
      <4>4. QED
        BY <4>2, <4>3
    <3>3. QED
      BY <3>1, <3>2
  <2>3. ASSUME NEW j \in Ids, NEW k \in Kinds, NEW q \in In(w, j, k) PROVE w.loc[q] # NotLinked
    <3>1. CASE q = r
      BY <1>19, <3>1 DEF LocFits
    <3>2. CASE q # r
      <4>1. q \in In(h, j, k)
        BY <1>14, <3>2
      <4>2. q \in Refs /\ h.loc[q] # NotLinked
        BY <4>1, FoundTrap DEF HInv, Tracked
      <4>3. QED
        BY <1>18, <3>2, <4>2 DEF LocFits
    <3>3. QED
      BY <3>1, <3>2
  <2>4. QED
    BY <2>2, <2>3 DEF Tracked
<1>21. HInv(w, S)
  BY <1>14, <1>15, <1>17, <1>20 DEF HInv
<1>22. QED
  BY <1>21 DEF w, u, a, L

LEMMA AddHolds ==
  ASSUME program \in Programs, NEW h, NEW S, HInv(h, S), Free(h) # {}, NEW r \in program.refs,
         h.loc[r] = NotLinked
  PROVE  LET f == BindingFrame(h, r.env, r.sym)
             n == IF Contents(h, r.env, r.sym) # NoCell THEN h
                  ELSE SetCell(h, f, r.sym, Unbound)
             g == GuaranteeCache(n, f, r.sym)
             i == CacheOf(g, g.cell[f][r.sym])
             a == SetList(g, i, r.kind, AddNamed(g.cache[i].alist[r.kind], r.sym, {r}))
         IN HInv(n, S) /\ HInv(Install(UpdateClone(a, i), i, {r}), S)
<1> DEFINE f == BindingFrame(h, r.env, r.sym)
           n == IF Contents(h, r.env, r.sym) # NoCell THEN h
                ELSE SetCell(h, f, r.sym, Unbound)
           g == GuaranteeCache(n, f, r.sym)
           c == CacheOf(g, g.cell[f][r.sym])
           Entered(i) == Install(UpdateClone(SetList(g, i, r.kind,
                           AddNamed(g.cache[i].alist[r.kind], r.sym, {r})), i), i, {r})
<1>1. r \in Refs /\ r.env \in Envs /\ r.sym \in Symbols
  BY ProgramAssumption
<1>2. HInv(n, S) /\ CellReady(h, n, r.env, r.sym)
  BY <1>1, ReadyHolds
<1> HIDE DEF n
<1>3. /\ f \in Envs /\ n.cell[f][r.sym] # NoCell /\ n.loc = h.loc /\ Free(n) # {}
      /\ BindingFrame(n, r.env, r.sym) = f
      /\ Binds(n, f, r.sym) \/ Parent(f) = Null
  BY <1>2 DEF CellReady
<1> HIDE DEF f
<1>4. PICK i \in Ids : Guaranteed(n, g, f, r.sym, i, S) /\ c = i
  BY <1>1, <1>2, <1>3, GuaranteeHolds DEF HInv
<1> HIDE DEF g, c
<1>5. /\ HInv(g, S) /\ g.loc = n.loc
      /\ BindingFrame(g, r.env, r.sym) = f /\ g.cell[f][r.sym] = Trap(i)
  BY <1>1, <1>2, <1>3, <1>4, GuaranteeReady
<1>6. HInv(Entered(i), S)
  BY <1>3, <1>5, EnterHolds
<1>7. HInv(Entered(c), S)
  BY <1>4, <1>6
<1>8. QED
  BY <1>2, <1>7 DEF Entered, c, g, n, f

(***************************************************************************)
(* reclaim_block and compiled_assignment.                                  *)
(***************************************************************************)

\* A reference is forgotten wherever it stands.
Forgotten(h, g, r) ==
  /\ g = [cell |-> h.cell, trap |-> h.trap, cache |-> g.cache, loc |-> g.loc]
  /\ g.loc = [h.loc EXCEPT ![r] = NotLinked]
  /\ g.cache = [i \in Ids |-> WithList(h.cache[i], r.kind, Emptied(h.cache[i].alist[r.kind], r))]

LEMMA ForgottenHolds ==
  ASSUME program \in Programs, NEW h, NEW S, HInv(h, S), NEW r \in Refs, NEW g, Forgotten(h, g, r)
  PROVE  HInv(g, S \ {r})
<1>1. /\ h \in HeapType /\ CellsOK(h) /\ ListsOK(h) /\ LocsOK(h, S) /\ r.kind \in Kinds
      /\ \A q \in Refs : q.kind \in Kinds
  BY ProgramAssumption DEF HInv, Held
<1>2. \A i \in Ids : h.cache[i] \in Caches
  BY <1>1 DEF HeapType
<1>3. ASSUME NEW i \in Ids, NEW s \in Symbols, ListOf(h.cache[i].alist[r.kind], s)
      PROVE  LET L == Emptied(h.cache[i].alist[r.kind], r)
             IN L \in Alists /\ ListOf(L, s) /\ InAlist(L) = In(h, i, r.kind) \ {r}
  BY <1>3, EmptiedList, ListIsAlist DEF In
<1>4. \A i \in Ids : /\ g.cache[i] \in Caches
                     /\ g.cache[i].value = h.cache[i].value /\ g.cache[i].clone = h.cache[i].clone
                     /\ \A k \in Kinds : g.cache[i].alist[k] =
                          IF k = r.kind THEN Emptied(h.cache[i].alist[k], r)
                          ELSE h.cache[i].alist[k]
  <2>1. SUFFICES ASSUME NEW i \in Ids
                 PROVE  /\ g.cache[i] \in Caches
                        /\ g.cache[i].value = h.cache[i].value /\ g.cache[i].clone = h.cache[i].clone
                        /\ \A k \in Kinds : g.cache[i].alist[k] =
                             IF k = r.kind THEN Emptied(h.cache[i].alist[k], r)
                             ELSE h.cache[i].alist[k]
    OBVIOUS
  <2>2. PICK s \in Symbols : ListOf(h.cache[i].alist[r.kind], s)
    BY <1>1 DEF ListsOK
  <2>3. Emptied(h.cache[i].alist[r.kind], r) \in Alists
    BY <1>3, <2>2
  <2>4. g.cache[i] = WithList(h.cache[i], r.kind, Emptied(h.cache[i].alist[r.kind], r))
    BY DEF Forgotten
  <2>5. QED
    BY <1>1, <1>2, <2>3, <2>4, WithListIs
<1>5. \A i \in Ids, k \in Kinds : In(g, i, k) = In(h, i, k) \ {r}
  <2>1. SUFFICES ASSUME NEW i \in Ids, NEW k \in Kinds PROVE In(g, i, k) = In(h, i, k) \ {r}
    OBVIOUS
  <2>2. CASE k = r.kind
    <3>1. PICK s \in Symbols : ListOf(h.cache[i].alist[r.kind], s)
      BY <1>1 DEF ListsOK
    <3>2. QED
      BY <1>3, <1>4, <2>2, <3>1 DEF In
  <2>3. CASE k # r.kind
    <3>1. r \notin In(h, i, k)
      BY <1>1, <2>3 DEF ListsOK
    <3>2. In(g, i, k) = In(h, i, k)
      BY <1>4, <2>3 DEF In
    <3>3. QED
      BY <3>1, <3>2
  <2>4. QED
    BY <2>2, <2>3
<1>6. /\ g.cell = h.cell /\ g.trap = h.trap
      /\ \A q \in Refs : g.loc[q] = IF q = r THEN NotLinked ELSE h.loc[q]
  BY <1>1 DEF Forgotten, HeapType
<1>7. g \in HeapType
  <2>1. g.loc \in [Refs -> Locs]
    BY <1>1 DEF Forgotten, HeapType, Locs
  <2>2. g.cache \in [Ids -> Caches]
    BY <1>4 DEF Forgotten
  <2>3. QED
    BY <1>1, <2>1, <2>2 DEF Forgotten, HeapType
<1>8. CellsOK(g)
  BY <1>1, <1>6 DEF CellsOK
<1>9. ListsOK(g)
  <2>1. ASSUME NEW i \in Ids, NEW k \in Kinds, NEW s \in Symbols, ListOf(h.cache[i].alist[k], s)
        PROVE  ListOf(g.cache[i].alist[k], s)
    BY <1>3, <1>4, <2>1
  <2>2. QED
    BY <1>1, <1>5, <1>6, <2>1 DEF ListsOK
<1>10. LocsOK(g, S \ {r})
  <2>1. SUFFICES ASSUME NEW i \in Ids, NEW k \in Kinds, NEW q \in In(g, i, k) \ (S \ {r})
                 PROVE  g.loc[q] = Installed(g, i, k)
    BY DEF LocsOK
  <2>2. q # r /\ q \in In(h, i, k) /\ q \notin S
    BY <1>5
  <2>3. Installed(g, i, k) = Installed(h, i, k)
    BY <1>4 DEF Installed
  <2>4. q \in Refs
    BY <1>1, <2>2, RefsAreRefs
  <2>5. QED
    BY <1>1, <1>6, <2>2, <2>3, <2>4 DEF LocsOK
<1>11. \A i \in Ids : CloneOK(g, i)
  BY <1>4, <1>5 DEF HInv, CloneOK, Kinds
<1>12. Placed(g)
  <2>1. \A e, s : BindingFrame(g, e, s) = BindingFrame(h, e, s)
    BY <1>6, SameSearch
  <2>2. QED
    BY <1>5, <1>6, <2>1 DEF HInv, Placed
<1>13. Tracked(g, S \ {r})
  <2>1. ASSUME NEW q \in Refs, g.loc[q] # NotLinked
        PROVE  LocFits(q, g.loc[q]) /\ (q \notin S \ {r} => \E i \in Ids : q \in In(g, i, q.kind))
    <3>1. q # r /\ g.loc[q] = h.loc[q]
      BY <1>6, <2>1
    <3>2. LocFits(q, h.loc[q]) /\ (q \notin S => \E i \in Ids : q \in In(h, i, q.kind))
      BY <2>1, <3>1 DEF HInv, Tracked
    <3>3. QED
      BY <1>1, <1>5, <3>1, <3>2
  <2>2. ASSUME NEW i \in Ids, NEW k \in Kinds, NEW q \in In(g, i, k) PROVE g.loc[q] # NotLinked
    <3>1. q # r /\ q \in In(h, i, k)
      BY <1>5
    <3>2. q \in Refs /\ h.loc[q] # NotLinked
      BY <3>1, FoundTrap DEF HInv, Tracked
    <3>3. QED
      BY <1>6, <3>1, <3>2
  <2>3. QED
    BY <2>1, <2>2 DEF Tracked
<1>14. QED
  BY <1>7, <1>8, <1>9, <1>10, <1>11, <1>12, <1>13 DEF HInv, Held

\* An in-place assignment: the location holds a clone where operators depend on the value.
LEMMA CompiledHolds ==
  ASSUME program \in Programs, HInv(heap, stale), NEW r \in program.refs, NEW v \in Values,
         compiled_assignment(r, v)
  PROVE  HInv(heap', stale')
<1> DEFINE i == heap.loc[r][2]
<1>1. r \in Refs /\ r.kind = "assignment" /\ heap.loc[r] # NotLinked /\ v \in Plain
  BY ProgramAssumption DEF compiled_assignment, Plain
<1>2. heap.loc[r] \in {"cache", "clone"} \X Ids
  BY <1>1 DEF HInv, Tracked, LocFits
<1>3. i \in Ids /\ heap.loc[r] = <<heap.loc[r][1], i>>
  BY <1>2
<1>4. CASE /\ heap.loc[r][1] = "cache" /\ LookupCache(heap, i) \in Values
           /\ Becomes(SetValue(heap, i, v))
           /\ stale' = stale \cup (IF r \in stale THEN Relinked(heap, i) ELSE {})
  <2> HIDE DEF i
  <2>1. HInv(SetValue(heap, i, v), stale \cup In(heap, i, "operator"))
    BY <1>1, <1>3, ValueHolds
  <2>2. stale \cup In(heap, i, "operator") = stale'
    <3>1. CASE r \in stale
      BY <1>4, <3>1 DEF Relinked, In
    <3>2. CASE r \notin stale
      <4>1. PICK j \in Ids : r \in In(heap, j, "assignment")
        BY <1>1, <3>2 DEF HInv, Tracked
      <4>2. heap.loc[r] = Installed(heap, j, "assignment")
        BY <3>2, <4>1 DEF HInv, Held, LocsOK, Kinds
      <4>3. Installed(heap, j, "assignment") = <<IF heap.cache[j].clone THEN "clone" ELSE "cache", j>>
        BY DEF Installed
      <4>4. j = i /\ ~ heap.cache[i].clone
        BY <1>3, <1>4, <4>2, <4>3
      <4>5. In(heap, i, "operator") = {}
        BY <1>3, <4>1, <4>4 DEF HInv, CloneOK
      <4>6. QED
        BY <1>4, <3>2, <4>5
    <3>3. QED
      BY <3>1, <3>2
  <2>3. HInv(Reclaim(SetValue(heap, i, v)), stale')
    BY <2>1, <2>2, ReclaimHolds
  <2>4. QED
    BY <1>4, <2>3 DEF Becomes
<1>5. CASE /\ Becomes(AssignCache(heap, i, v))
           /\ stale' = stale \ Relinked(heap, i)
  <2> HIDE DEF i
  <2>1. HInv(AssignCache(heap, i, v), stale \ In(heap, i, "operator"))
    BY <1>1, <1>3, AssignCacheHolds
  <2>2. HInv(Reclaim(AssignCache(heap, i, v)), stale')
    BY <1>5, <2>1, ReclaimHolds DEF Relinked, In
  <2>3. QED
    BY <1>5, <2>2 DEF Becomes
<1>6. QED
  BY <1>4, <1>5 DEF compiled_assignment

LEMMA ReclaimBlockHolds ==
  ASSUME program \in Programs, HInv(heap, stale), NEW r \in program.refs, reclaim_block(r)
  PROVE  HInv(heap', stale')
<1> DEFINE E == [i \in Ids |-> [heap.cache[i] EXCEPT !.alist[r.kind] = Emptied(@, r)]]
           g == [heap EXCEPT !.loc[r] = NotLinked, !.cache = E]
<1>1. r \in Refs /\ heap \in HeapType
  BY ProgramAssumption DEF HInv, Held
<1>2. E = [i \in Ids |-> WithList(heap.cache[i], r.kind, Emptied(heap.cache[i].alist[r.kind], r))]
  <2>1. ASSUME NEW i \in Ids
        PROVE  [heap.cache[i] EXCEPT !.alist[r.kind] = Emptied(@, r)]
                 = WithList(heap.cache[i], r.kind, Emptied(heap.cache[i].alist[r.kind], r))
    <3> DEFINE c == heap.cache[i]
    <3>1. c = [value |-> c.value, clone |-> c.clone, alist |-> c.alist]
      BY <1>1 DEF HeapType, Caches
    <3> HIDE DEF c
    <3>2. [c EXCEPT !.alist[r.kind] = Emptied(@, r)] = WithList(c, r.kind, Emptied(c.alist[r.kind], r))
      BY <3>1 DEF WithList
    <3>3. QED
      BY <3>2 DEF c
  <2>2. QED
    BY <2>1
<1> HIDE DEF E
<1>3. Forgotten(heap, g, r)
  <2>1. heap = [cell |-> heap.cell, trap |-> heap.trap, cache |-> heap.cache, loc |-> heap.loc]
    BY <1>1 DEF HeapType
  <2>2. g = [cell |-> heap.cell, trap |-> heap.trap, cache |-> E,
             loc |-> [heap.loc EXCEPT ![r] = NotLinked]]
    <3> DEFINE L == [heap.loc EXCEPT ![r] = NotLinked]
    <3>1. g = [heap EXCEPT !.loc = L, !.cache = E]
      OBVIOUS
    <3> HIDE DEF L, g
    <3>2. g = [cell |-> heap.cell, trap |-> heap.trap, cache |-> E, loc |-> L]
      BY <2>1, <3>1
    <3>3. QED
      BY <3>2 DEF L
  <2> HIDE DEF g
  <2>3. QED
    BY <1>2, <2>2 DEF Forgotten
<1>4. heap' = Reclaim(g) /\ stale' = stale \ {r}
  BY DEF reclaim_block, Becomes, E
<1> HIDE DEF g
<1>5. HInv(g, stale \ {r})
  BY <1>1, <1>3, ForgottenHolds
<1>6. QED
  BY <1>4, <1>5, ReclaimHolds

\* An assignment or a definition of a variable that is bound.
LEMMA AssignCellHolds ==
  ASSUME program \in Programs, HInv(heap, stale), NEW f \in Envs, NEW s \in Symbols,
         Binds(heap, f, s), NEW v \in Plain, v # Unbound, NEW force, AssignCell(f, s, v, force)
  PROVE  HInv(heap', stale')
<1> DEFINE c == heap.cell[f][s]
<1>1. CASE c \in CellTraps
  <2>1. PICK i \in Ids : c = Trap(i)
    BY <1>1 DEF CellTraps
  <2>2. CacheOf(heap, c) = i
    <3>1. heap.trap[i] = i
      BY <2>1 DEF HInv, Held, CellsOK
    <3>2. QED
      BY <2>1, <3>1 DEF CacheOf, Trap
  <2>3. HInv(AssignCache(heap, i, v), stale \ In(heap, i, "operator"))
    BY AssignCacheHolds
  <2>4. HInv(Reclaim(AssignCache(heap, i, v)), stale \ Relinked(heap, i))
    BY <2>3, ReclaimHolds DEF Relinked, In
  <2>5. QED
    BY <1>1, <2>2, <2>4 DEF AssignCell, Becomes
<1>2. CASE c \notin CellTraps
  <2> DEFINE g == SetCell(heap, f, s, v)
  <2>1. CellChanged(heap, g, f, s, v)
    BY SetCellIs DEF HInv, Held
  <2>2. g.cell[f][s] = v /\ v # NoCell
    BY <2>1, PlainIsNoTrap DEF CellChanged
  <2>3. Binds(g, f, s)
    <3> HIDE DEF g
    <3>1. QED
      BY <2>2 DEF Binds
  <2>4. HInv(g, stale)
    BY <1>2, <2>3, ReplacedHolds
  <2> HIDE DEF g
  <2>5. HInv(Reclaim(g), stale)
    BY <2>4, ReclaimHolds
  <2>6. QED
    BY <1>2, <2>5 DEF AssignCell, Becomes, g
<1>3. QED
  BY <1>1, <1>2

LEMMA InputsAre ==
  ASSUME program \in Programs, NEW v \in program.inputs
  PROVE  v \in Plain /\ v # Unbound
<1>1. v \in Values \cup {Unassigned, Macro} /\ Unbound \notin Values
  BY ProgramAssumption
<1>2. Unassigned # Unbound /\ Macro # Unbound
  BY DEF Unassigned, Unbound, Macro
<1>3. QED
  BY <1>1, <1>2 DEF Plain

LEMMA UnbindHolds ==
  ASSUME program \in Programs, Independent(program), HInv(heap, stale), Free(heap) # {},
         NEW e \in Envs, NEW s \in Symbols, unbind_variable(e, s)
  PROVE  HInv(heap', stale')
<1> DEFINE f == BindingFrame(heap, e, s)
           c == Contents(heap, e, s)
           g == Unbinding(heap, f, s)
           outer == Parent(f)
<1>1. c # NoCell
  BY DEF unbind_variable, LookupVariable
<1>2. Binds(heap, f, s) /\ c = heap.cell[f][s] /\ f \in Envs
  BY <1>1, BindingFound DEF Contents
<1>3. CASE c \notin CellTraps /\ Becomes(g) /\ stale' = stale
  <2>1. HInv(g, stale)
    BY <1>2, <1>3, PlainUnbound
  <2>2. QED
    BY <1>3, <2>1, ReclaimHolds DEF Becomes
<1>4. CASE c \in CellTraps
  <2>1. PICK i \in Ids : c = Trap(i)
    BY <1>4 DEF CellTraps
  <2>2. heap.cell[f][s] = Trap(i) /\ CacheOf(heap, c) = i
    <3> HIDE DEF f, c
    <3>1. heap.cell[f][s] = Trap(i) /\ CellsOK(heap)
      BY <1>2, <2>1 DEF HInv, Held
    <3>2. heap.trap[i] = i
      BY <1>2, <3>1 DEF CellsOK
    <3>3. QED
      BY <2>1, <3>1, <3>2 DEF CacheOf, Trap
  <2>3. \/ /\ f = Global /\ Becomes(SetValue(heap, i, Unbound))
           /\ stale' = stale \cup Relinked(heap, i)
        \/ /\ f # Global /\ Contents(heap, outer, s) # NoCell
           /\ Becomes(UpdateCacheReferences(g, i, BindingFrame(heap, outer, s), f, s))
           /\ stale' = stale \ Deleted(heap, i, f, s)
        \/ /\ f # Global
           /\ Becomes(UpdateClone(DeleteRefPairs(g, i, f, s), i))
           /\ stale' = stale \cup Deleted(heap, i, f, s)
    BY <1>4, <2>2 DEF unbind_variable
  <2> HIDE DEF f, c, g
  <2>4. CASE /\ f = Global /\ Becomes(SetValue(heap, i, Unbound))
             /\ stale' = stale \cup Relinked(heap, i)
    <3>1. HInv(SetValue(heap, i, Unbound), stale \cup In(heap, i, "operator"))
      BY ValueHolds DEF Plain
    <3>2. HInv(Reclaim(SetValue(heap, i, Unbound)), stale \cup Relinked(heap, i))
      BY <3>1, ReclaimHolds DEF Relinked, In
    <3>3. QED
      BY <2>4, <3>2 DEF Becomes
  <2>5. CASE /\ f # Global /\ Contents(heap, outer, s) # NoCell
             /\ Becomes(UpdateCacheReferences(g, i, BindingFrame(heap, outer, s), f, s))
             /\ stale' = stale \ Deleted(heap, i, f, s)
    <3> DEFINE w == UpdateCacheReferences(g, i, BindingFrame(heap, outer, s), f, s)
    <3>1. HInv(w, stale \ Deleted(heap, i, f, s))
      BY <1>2, <2>2, <2>5, MovedUnbound DEF g
    <3> HIDE DEF w
    <3>2. HInv(Reclaim(w), stale \ Deleted(heap, i, f, s))
      BY <3>1, ReclaimHolds
    <3>3. QED
      BY <2>5, <3>2 DEF Becomes, w
  <2>6. CASE /\ f # Global
             /\ Becomes(UpdateClone(DeleteRefPairs(g, i, f, s), i))
             /\ stale' = stale \cup Deleted(heap, i, f, s)
    <3> DEFINE w == UpdateClone(DeleteRefPairs(g, i, f, s), i)
    <3>1. HInv(w, stale \cup Deleted(heap, i, f, s))
      BY <1>2, <2>2, <2>6, DeletedUnbound DEF g
    <3> HIDE DEF w
    <3>2. HInv(Reclaim(w), stale \cup Deleted(heap, i, f, s))
      BY <3>1, ReclaimHolds
    <3>3. QED
      BY <2>6, <3>2 DEF Becomes, w
  <2>7. QED
    BY <2>3, <2>4, <2>5, <2>6
<1>5. QED
  BY <1>3, <1>4 DEF unbind_variable

LEMMA DefineHolds ==
  ASSUME program \in Programs, Independent(program), HInv(heap, stale), Free(heap) # {},
         NEW w \in program.vars, NEW v \in program.inputs, define_variable(w[1], w[2], v)
  PROVE  HInv(heap', stale')
<1> DEFINE f == w[1]
           s == w[2]
<1>1. f \in Envs /\ s \in Symbols /\ v \in Plain /\ v # Unbound
  BY InputsAre, ProgramAssumption
<1>2. CASE heap.cell[f][s] # NoCell /\ AssignCell(f, s, v, TRUE)
  <2>1. Binds(heap, f, s)
    BY <1>2 DEF Binds, Independent
  <2>2. QED
    BY <1>1, <1>2, <2>1, AssignCellHolds
<1>3. CASE heap.cell[f][s] = NoCell /\ Becomes(Extend(heap, f, s, v)) /\ stale' = stale
  <2>1. HInv(Extend(heap, f, s, v), stale)
    BY <1>1, <1>3, ExtendHolds
  <2>2. HInv(Reclaim(Extend(heap, f, s, v)), stale)
    BY <2>1, ReclaimHolds
  <2>3. QED
    BY <1>3, <2>2 DEF Becomes
<1>4. QED
  BY <1>2, <1>3 DEF define_variable

LEMMA AssignHolds ==
  ASSUME program \in Programs, HInv(heap, stale), NEW w \in program.vars,
         NEW v \in program.inputs, assign_variable(w[1], w[2], v)
  PROVE  HInv(heap', stale')
<1> DEFINE f == BindingFrame(heap, w[1], w[2])
<1>1. w[1] \in Envs /\ w[2] \in Symbols /\ v \in Plain /\ v # Unbound
  BY InputsAre, ProgramAssumption
<1>2. Binds(heap, f, w[2]) /\ f \in Envs /\ AssignCell(f, w[2], v, FALSE)
  BY <1>1, BindingFound DEF assign_variable, Contents
<1> HIDE DEF f
<1>3. QED
  BY <1>1, <1>2, AssignCellHolds

LEMMA AddReferenceHolds ==
  ASSUME program \in Programs, HInv(heap, stale), Free(heap) # {}, NEW r \in program.refs,
         add_cache_reference(r)
  PROVE  HInv(heap', stale')
<1> DEFINE f == BindingFrame(heap, r.env, r.sym)
           n == IF Contents(heap, r.env, r.sym) # NoCell THEN heap
                ELSE SetCell(heap, f, r.sym, Unbound)
           g == GuaranteeCache(n, f, r.sym)
           i == CacheOf(g, g.cell[f][r.sym])
           a == SetList(g, i, r.kind, AddNamed(g.cache[i].alist[r.kind], r.sym, {r}))
           w == Install(UpdateClone(a, i), i, {r})
<1>1. /\ heap.loc[r] = NotLinked /\ stale' = stale
      /\ heap' = Reclaim(n) \/ heap' = Reclaim(w)
  BY DEF add_cache_reference, Becomes
<1>2. HInv(n, stale) /\ HInv(w, stale)
  BY <1>1, AddHolds
<1> HIDE DEF n, w
<1>3. QED
  BY <1>1, <1>2, ReclaimHolds

LEMMA NextHolds ==
  ASSUME program \in Programs, Independent(program), HInv(heap, stale), Next
  PROVE  HInv(heap', stale') /\ program' = program
<1>1. ASSUME NEW w \in program.vars, NEW v \in program.inputs, assign_variable(w[1], w[2], v)
      PROVE  HInv(heap', stale') /\ program' = program
  <2>1. program' = program
    BY <1>1 DEF assign_variable, AssignCell, Becomes
  <2>2. QED
    BY <1>1, <2>1, AssignHolds
<1>2. ASSUME NEW w \in program.vars, NEW v \in program.inputs,
             Room, define_variable(w[1], w[2], v)
      PROVE  HInv(heap', stale') /\ program' = program
  <2>1. program' = program
    BY <1>2 DEF define_variable, AssignCell, Becomes
  <2>2. QED
    BY <1>2, <2>1, DefineHolds DEF Room
<1>3. ASSUME NEW w \in program.vars, Room, unbind_variable(w[1], w[2])
      PROVE  HInv(heap', stale') /\ program' = program
  <2>1. w[1] \in Envs /\ w[2] \in Symbols
    BY ProgramAssumption
  <2>2. program' = program
    BY <1>3 DEF unbind_variable, Becomes
  <2>3. QED
    BY <1>3, <2>1, <2>2, UnbindHolds DEF Room
<1>4. ASSUME NEW r \in program.refs, Room, add_cache_reference(r)
      PROVE  HInv(heap', stale') /\ program' = program
  <2>1. program' = program
    BY <1>4 DEF add_cache_reference, Becomes
  <2>2. QED
    BY <1>4, <2>1, AddReferenceHolds DEF Room
<1>5. ASSUME NEW r \in program.refs, reclaim_block(r)
      PROVE  HInv(heap', stale') /\ program' = program
  <2>1. program' = program
    BY <1>5 DEF reclaim_block, Becomes
  <2>2. QED
    BY <1>5, <2>1, ReclaimBlockHolds
<1>6. ASSUME NEW r \in program.refs, NEW v \in Values, compiled_assignment(r, v)
      PROVE  HInv(heap', stale') /\ program' = program
  <2>1. program' = program
    BY <1>6 DEF compiled_assignment, Becomes
  <2>2. QED
    BY <1>6, <2>1, CompiledHolds
<1>7. program.links = {}
  BY DEF Independent
<1>8. QED
  BY <1>1, <1>2, <1>3, <1>4, <1>5, <1>6, <1>7 DEF Next

\* Only references are ever left behind.
LEMMA StaleRefs ==
  ASSUME program \in Programs, HInv(heap, stale), stale \subseteq Refs,
         Independent(program), Next
  PROVE  stale' \subseteq Refs
<1>1. CellsOK(heap) /\ ListsOK(heap)
  BY DEF HInv, Held
<1>2. ASSUME NEW i \in Ids PROVE Relinked(heap, i) \subseteq Refs
  BY <1>1, RefsAreRefs DEF Relinked, In, Kinds
<1>3. ASSUME NEW w \in program.vars, unbind_variable(w[1], w[2]) PROVE stale' \subseteq Refs
  <2> DEFINE f == BindingFrame(heap, w[1], w[2])
             c == Contents(heap, w[1], w[2])
             i == CacheOf(heap, c)
  <2>1. w[1] \in Envs /\ w[2] \in Symbols
    BY ProgramAssumption
  <2>2. f \in Envs
    BY <2>1, BindingFound
  <2>3. CASE c \in CellTraps
    <3>1. PICK j \in Ids : c = Trap(j)
      BY <2>3 DEF CellTraps
    <3>2. heap.cell[f][w[2]] = Trap(j)
      <4>1. Trap(j) # NoCell
        BY DEF Trap, NoCell
      <4>2. QED
        BY <3>1, <4>1 DEF Contents
    <3>3. i = j
      <4> HIDE DEF f, c
      <4>1. heap.trap[j] = j
        BY <1>1, <2>1, <2>2, <3>2 DEF CellsOK
      <4>2. QED
        BY <3>1, <4>1 DEF CacheOf, Trap
    <3>4. Deleted(heap, j, f, w[2]) \subseteq Refs
      <4>1. SUFFICES ASSUME NEW k \in Kinds
                     PROVE  ToMove(heap.cache[j].alist[k], f, w[2]) \subseteq Refs
        BY DEF Deleted
      <4>2. ListOf(heap.cache[j].alist[k], w[2])
        BY <1>1, <2>1, <2>2, <3>2 DEF ListsOK
      <4>3. QED
        BY <1>1, <4>2, MovedList, RefsAreRefs DEF In
    <3>5. stale' \subseteq stale \cup Relinked(heap, i) \cup Deleted(heap, i, f, w[2])
      BY <1>3 DEF unbind_variable
    <3> HIDE DEF f, c, i
    <3>6. QED
      BY <1>2, <3>3, <3>4, <3>5
  <2>4. CASE c \notin CellTraps
    BY <1>3, <2>4 DEF unbind_variable
  <2>5. QED
    BY <2>3, <2>4
<1>4. ASSUME NEW r \in program.refs, NEW v \in Values, compiled_assignment(r, v)
      PROVE  stale' \subseteq Refs
  <2> DEFINE i == heap.loc[r][2]
  <2>1. r \in Refs /\ r.kind = "assignment" /\ heap.loc[r] # NotLinked
    BY <1>4, ProgramAssumption DEF compiled_assignment
  <2>2. i \in Ids
    BY <2>1 DEF HInv, Tracked, LocFits
  <2>3. stale' \subseteq stale \cup Relinked(heap, i)
    BY <1>4 DEF compiled_assignment
  <2> HIDE DEF i
  <2>4. QED
    BY <1>2, <2>2, <2>3
<1>5. ASSUME NEW w \in program.vars, NEW v \in program.inputs,
             assign_variable(w[1], w[2], v) \/ define_variable(w[1], w[2], v)
      PROVE  stale' \subseteq Refs
  BY <1>5 DEF assign_variable, define_variable, AssignCell
<1>6. ASSUME NEW r \in program.refs, add_cache_reference(r) \/ reclaim_block(r)
      PROVE  stale' \subseteq Refs
  BY <1>6 DEF add_cache_reference, reclaim_block
<1>7. program.links = {}
  BY DEF Independent
<1>8. QED
  BY <1>3, <1>4, <1>5, <1>6, <1>7 DEF Next

\* The invariant reads the program, which never changes.
LEMMA SameProgram ==
  ASSUME program' = program, HInv(heap', stale')
  PROVE  HInv(heap, stale)'
<1>1. \A e, s : BindingFrame(heap, e, s)' = BindingFrame(heap', e, s)
  BY DEF BindingFrame, Chain, Binds
<1>2. Placed(heap)'
  <2>1. Placed(heap')
    BY DEF HInv
  <2>2. \A i \in Ids, k \in Kinds : \A r \in In(heap', i, k) :
          heap'.cell[BindingFrame(heap, r.env, r.sym)'][r.sym] = Trap(i)
    BY <1>1, <2>1 DEF Placed
  <2>3. \A i, k : In(heap, i, k)' = In(heap', i, k)
    BY DEF In, InAlist
  <2>4. QED
    BY <2>2, <2>3 DEF Placed
<1>3. ListsOK(heap)'
  BY DEF HInv, Held, ListsOK, In, InAlist, ListOf, Entry
<1>4. QED
  BY <1>2, <1>3 DEF HInv, Held, HeapType, CellsOK, LocsOK, CloneOK, Tracked

LEMMA CacheInvariant == Spec /\ Independent(program) => []CacheInv
<1>1. Init /\ Independent(program) => CacheInv
  BY InitHolds DEF CacheInv, Init
<1>2. CacheInv /\ [Next]_vars => CacheInv'
  <2>1. SUFFICES ASSUME CacheInv, [Next]_vars PROVE CacheInv'
    OBVIOUS
  <2>2. program \in Programs /\ Independent(program) /\ HInv(heap, stale) /\ stale \subseteq Refs
    BY <2>1 DEF CacheInv
  <2>3. program' = program /\ HInv(heap', stale') /\ stale' \subseteq Refs
    <3>1. CASE Next
      BY <2>2, <3>1, NextHolds, StaleRefs
    <3>2. CASE UNCHANGED vars
      BY <2>2, <3>2 DEF vars
    <3>3. QED
      BY <2>1, <3>1, <3>2
  <2>4. HInv(heap, stale)'
    BY <2>3, SameProgram
  <2>5. Independent(program)' /\ (program \in Programs)'
    BY <2>2, <2>3 DEF Independent
  <2>6. QED
    BY <2>3, <2>4, <2>5 DEF CacheInv
<1>3. QED
  BY <1>1, <1>2, PTL DEF Spec

\* The cells, traps and caches hold what lookup.c may store in them.
THEOREM TypeCorrect == Spec /\ Independent(program) => []TypeOK
<1>1. CacheInv => TypeOK
  BY DEF CacheInv, TypeOK, HInv, Held, HeapType, Caches
<1>2. QED
  BY <1>1, CacheInvariant, PTL

\* For every environment, every set of references and every independent program, what
\* compiled code reads through its cache is what a search of the environment finds
\* (lookup.c: define_variable, unbind_variable, add_cache_reference).
THEOREM LookupCoherence == Spec /\ Independent(program) => []LookupCoherent
<1>1. CacheInv => LookupCoherent
  BY InvIsCoherent DEF CacheInv
<1>2. QED
  BY <1>1, CacheInvariant, PTL

\* An assignment by compiled code reaches the variable's own cache, and traps while
\* compiled operators depend on its value (lookup.c: update_clone, install_cache).
THEOREM AssignmentCoherence == Spec /\ Independent(program) => []AssignmentCoherent
<1>1. CacheInv => AssignmentCoherent
  BY InvIsCoherent DEF CacheInv
<1>2. QED
  BY <1>1, CacheInvariant, PTL

\* A compiled call reaches the operator's current value (lookup.c: update_uuo_links,
\* install_operator_cache).
THEOREM OperatorCoherence == Spec /\ Independent(program) => []OperatorCoherent
<1>1. CacheInv => OperatorCoherent
  BY InvIsCoherent DEF CacheInv
<1>2. QED
  BY <1>1, CacheInvariant, PTL
===============================================================================
