----------------------------- MODULE ThreadRuns -----------------------------
(***************************************************************************)
(* What a Thread promises those who use it, with no lock, no flag and no   *)
(* handle in sight: its runs follow one another, wait() does not come back *)
(* before the runs it found are over, and the object is not destroyed      *)
(* under a run, nor under anybody who waits.  ThreadLifecycle implements   *)
(* it.                                                                     *)
(***************************************************************************)
EXTENDS Naturals

CONSTANT Callers

VARIABLES begun,    \* the number of runs so far
          alive,    \* those under way
          awaited,  \* of every caller: the runs its wait() has to outlast
          gone      \* whether the object is destroyed

vars == <<begun, alive, awaited, gone>>

Nobody == [t \in Callers |-> {}]

Init == begun = 0 /\ alive = {} /\ awaited = Nobody /\ gone = FALSE

Start == /\ ~gone /\ alive = {}
         /\ begun' = begun + 1
         /\ alive' = {begun + 1}
         /\ UNCHANGED <<awaited, gone>>

End == /\ alive # {}
       /\ alive' = {}
       /\ UNCHANGED <<begun, awaited, gone>>

\* wait() begins; start() and ~Thread() begin with one.
Wait(t) == /\ ~gone /\ awaited[t] = {}
           /\ awaited' = [awaited EXCEPT ![t] = alive]
           /\ UNCHANGED <<begun, alive, gone>>

Return(t) == /\ awaited[t] \cap alive = {}
             /\ awaited' = [awaited EXCEPT ![t] = {}]
             /\ UNCHANGED <<begun, alive, gone>>

\* ~Thread() has waited, and nobody else is waiting.
Destroy(t) == /\ ~gone /\ alive = {}
              /\ \A u \in Callers \ {t} : awaited[u] = {}
              /\ gone' = TRUE
              /\ awaited' = Nobody
              /\ UNCHANGED <<begun, alive>>

Next == \/ Start \/ End
        \/ \E t \in Callers : Wait(t) \/ Return(t) \/ Destroy(t)

Safety == Init /\ [][Next]_vars
=============================================================================
