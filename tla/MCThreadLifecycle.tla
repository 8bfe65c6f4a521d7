------------------------- MODULE MCThreadLifecycle -------------------------
(* ThreadLifecycle with a few callers and runs, on the platforms of the configuration. *)
EXTENDS ThreadLifecycle
=============================================================================
