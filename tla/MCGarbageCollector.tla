------------------------ MODULE MCGarbageCollector ------------------------
(***************************************************************************)
(* All heaps of a few layouts.  The fixed objects point to object 1.       *)
(***************************************************************************)
EXTENDS GarbageCollector

Ptr(objs) == {Old(o) : o \in objs}
Obj(kind, f1, f2) == {[kind |-> kind, fields |-> <<a, b>>] : a \in f1, b \in f2}
Heap(st, g) == [stack |-> st, fixed |-> Old(1), graph |-> g]
All == Ptr(1 .. 4) \cup {Imm}

\* Two ephemerons with keys of their own, reached from a pair
TwoEphemerons ==
  {Heap(<<Imm>>, <<p, e, f, q>>) :
     p \in Obj("pair", Ptr({2}), Ptr({3, 4}) \cup {Imm}),
     e \in Obj("ephemeron", All, All), f \in Obj("ephemeron", All, All),
     q \in Obj("pair", All, {Imm})}
\* A weak pair, an ephemeron and a vector that is a compiled-code block
Mixed ==
  {Heap(<<s>>, <<p, w, e, v>>) :
     s \in {Imm, <<"old", 4, 1>>},
     p \in Obj("pair", Ptr({2}), Ptr({3})),
     w \in Obj("weak", All \cup {<<"old", 4, 1>>}, All),
     e \in Obj("ephemeron", All, All),
     v \in {[kind |-> "vector", fields |-> <<a>>] : a \in {Imm, Old(2), Old(4)}}}
\* Lists, copied along the cdrs
Lists ==
  {Heap(<<s>>, <<p, q, r, w>>) :
     s \in {Imm, Old(3)}, p \in Obj("pair", {Imm}, All),
     q \in Obj("pair", {Imm}, All), r \in Obj("pair", {Imm, Old(4)}, All),
     w \in Obj("weak", All, {Imm})}
\* The heaps without two ephemerons of one key
MCHeaps == {h \in TwoEphemerons : DistinctKeys(h)} \cup Mixed \cup Lists
\* Two ephemerons, 2 and 3, with one key, 4, that is itself the datum of a third
SharedKeys ==
  {Heap(<<Imm>>, <<[kind |-> "vector", fields |-> <<Old(2), Old(3), Old(5), Old(6)>>],
                   e, f, k, [kind |-> "ephemeron", fields |-> <<Old(6), Old(4)>>], q, q>>) :
     e \in Obj("ephemeron", {Old(4)}, {Imm, Old(6)}), f \in Obj("ephemeron", {Old(4)}, {Imm, Old(7)}),
     k \in Obj("pair", {Imm}, {Imm}), q \in Obj("pair", {Imm}, {Imm})}

=============================================================================
