------------------------------ MODULE MCAffinity ------------------------------
(* Affinity with the main thread, one worker, one Timer and one singleShot() helper. *)
EXTENDS Affinity

\* Settled moves: two timer ids, for a Timer that is started twice before a helper exists, or
\* for a Timer and a helper that is armed. Arbitrary moves: one timer id, and no helper.
Small == /\ \/ nextId <= 2
            \/ \E h \in Helpers : timerId[h] # 0
            \/ quiet /\ \A h \in Helpers : state[h] = "unborn"
         /\ ~quiet => \A h \in Helpers : state[h] = "unborn"
=============================================================================
