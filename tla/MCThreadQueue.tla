---------------------------- MODULE MCThreadQueue ----------------------------
(* An instance of ThreadQueue for TLC.  Each operation has two callers or  *)
(* more that can wait for one another; one of them may be woken by an      *)
(* event of another origin, and the one with a time limit may exit while   *)
(* it waits.                                                               *)
EXTENDS ThreadQueue, TLC

CONSTANTS t1, t2, t3

MCOps ==
  (t1 :> {"queue", "push", "empty"})
    @@ (t2 :> {"queue", "dequeue", "peek", "event"})
    @@ (t3 :> {"queue_no_hang", "dequeue_until", "peek_until", "exit"})
================================================================================
