------------------------- MODULE MCEventDispatcher -------------------------
(***************************************************************************)
(* Small instances of EventDispatcher: the sets come from the .cfg files.  *)
(* Both runs check liveness, so no symmetry is used.                       *)
(***************************************************************************)
EXTENDS EventDispatcher

\* All sources are of one descriptor, so that registering replaces.
OneFd == [s \in Sources |-> 1]
=============================================================================
