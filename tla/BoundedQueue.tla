---------------------------- MODULE BoundedQueue ----------------------------
(***************************************************************************)
(* What src/src/runtime/thread-queue.scm promises about the items of a     *)
(* thread queue: a sequence of at most MaxElements items, extended at the  *)
(* end by queue! and at the front by push!, taken from the front.          *)
(***************************************************************************)
EXTENDS Naturals, Sequences

CONSTANTS Items, MaxElements, None

VARIABLE items

\* max-elements is #f in a queue without a limit.
Full == MaxElements # None /\ Len(items) >= MaxElements

Queue(x) == ~Full /\ items' = Append(items, x)

Dequeue == items # << >> /\ items' = Tail(items)

\* push! on a full queue clobbers the most recently queued item.
Push(x) ==
  items' = <<x>> \o (IF Full THEN SubSeq(items, 1, Len(items) - 1) ELSE items)

Empty == items' = << >>

Next == (\E x \in Items : Queue(x) \/ Push(x)) \/ Dequeue \/ Empty

Spec == items = << >> /\ [][Next]_items
=============================================================================
