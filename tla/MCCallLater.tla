---------------------------- MODULE MCCallLater ----------------------------
(* CallLater on small sets of threads, contexts and slots.                 *)
EXTENDS CallLater, TLC

\* Callers, contexts and slots are interchangeable: Init and Next name none of them. Used
\* only where no liveness property is checked.
Interchangeable == Permutations(Threads) \cup Permutations(Contexts) \cup Permutations(Slots)
=============================================================================
