--------------------------- MODULE MCObjectLifetime ---------------------------
(* ObjectLifetime on small sets of threads and objects. The configurations give them as   *)
(* model values; no symmetry is used, because the main run checks a liveness property.    *)
EXTENDS ObjectLifetime
=============================================================================
