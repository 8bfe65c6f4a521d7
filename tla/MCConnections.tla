--------------------------- MODULE MCConnections ---------------------------
(***************************************************************************)
(* Small instances of Connections.  Threads, connections and objects are   *)
(* interchangeable: only the pairs of a connection tell them apart.        *)
(***************************************************************************)
EXTENDS Connections, TLC

AllModes == [careful : BOOLEAN, holding : BOOLEAN]
Careless == {[careful |-> FALSE, holding |-> TRUE]}

Interchangeable ==
  UNION {Permutations(Threads), Permutations(Conns), Permutations(Objects), Permutations(Signals)}
=============================================================================
