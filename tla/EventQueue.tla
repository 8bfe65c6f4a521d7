----------------------------- MODULE EventQueue -----------------------------
(***************************************************************************)
(* What an event dispatcher promises the code that posts to it, with no    *)
(* lock, no wakeup and no batch in sight: a first-in first-out queue of    *)
(* events, each handed to its receiver exactly once while the loop is      *)
(* open, and none of them stranded while the loop stays open.              *)
(* EventDispatcher.tla implements it.                                      *)
(***************************************************************************)
EXTENDS Sequences

CONSTANT Events

VARIABLES pending,    \* events posted and not yet handed to their receiver
          delivered,  \* events handed over, oldest first
          open        \* whether exec() is running the loop

vars == <<pending, delivered, open>>

Init == /\ pending = <<>>
        /\ delivered = <<>>
        /\ open = TRUE

Post(e) == /\ pending' = Append(pending, e)
           /\ UNCHANGED <<delivered, open>>

Deliver == /\ open
           /\ pending # <<>>
           /\ pending' = Tail(pending)
           /\ delivered' = Append(delivered, Head(pending))
           /\ UNCHANGED open

\* exec() returns, and may be entered again; the queue survives both.
Close  == open /\ open' = FALSE /\ UNCHANGED <<pending, delivered>>
Reopen == ~open /\ open' = TRUE /\ UNCHANGED <<pending, delivered>>

Next == \/ \E e \in Events : Post(e)
        \/ Deliver
        \/ Close
        \/ Reopen

Spec == Init /\ [][Next]_vars /\ WF_vars(Deliver)
=============================================================================
