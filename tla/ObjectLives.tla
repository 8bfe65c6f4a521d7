----------------------------- MODULE ObjectLives -----------------------------
(***************************************************************************)
(* What a thread promises the Objects that live on it, with no queue, no   *)
(* token and no batch in sight: as long as its loop is open an object dies *)
(* only because that was asked for, dies once, and never under a slot;     *)
(* slots and timer events are for the living; and the loop does not close  *)
(* before everything it was asked for is done.  ObjectLifetime implements  *)
(* it.                                                                     *)
(***************************************************************************)
CONSTANTS Objects, NoObject

VARIABLES phase,    \* of every object: "alive", "destroying", "freed"
          due,      \* the objects whose deletion was asked for
          entered,  \* the object whose slot or timerEvent() is running, or NoObject
          open      \* whether the loop still takes requests

vars == <<phase, due, entered, open>>

Init == /\ phase = [o \in Objects |-> "alive"]
        /\ due = {} /\ entered = NoObject /\ open = TRUE

Ask(o) == /\ open /\ phase[o] = "alive" /\ o \notin due
          /\ due' = due \cup {o}
          /\ UNCHANGED <<phase, entered, open>>

Die(o) == /\ phase[o] = "alive" /\ entered = NoObject
          /\ open => o \in due
          /\ phase' = [phase EXCEPT ![o] = "destroying"]
          /\ UNCHANGED <<due, entered, open>>

Free(o) == /\ phase[o] = "destroying"
           /\ phase' = [phase EXCEPT ![o] = "freed"]
           /\ UNCHANGED <<due, entered, open>>

Enter(o) == /\ open /\ entered = NoObject /\ phase[o] = "alive"
            /\ entered' = o
            /\ UNCHANGED <<phase, due, open>>

Leave == /\ entered # NoObject
         /\ entered' = NoObject
         /\ UNCHANGED <<phase, due, open>>

Close == /\ open /\ entered = NoObject
         /\ \A o \in due : phase[o] = "freed"
         /\ open' = FALSE
         /\ UNCHANGED <<phase, due, entered>>

Next == \/ \E o \in Objects : Ask(o) \/ Die(o) \/ Free(o) \/ Enter(o)
        \/ Leave \/ Close

Safety == Init /\ [][Next]_vars
=============================================================================
