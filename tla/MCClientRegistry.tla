--------------------------- MODULE MCClientRegistry ---------------------------
(***************************************************************************)
(* ClientRegistry for TLC: connections, ids and events are model values.   *)
(***************************************************************************)
EXTENDS ClientRegistry, TLC

Symmetry == Permutations(Handles) \union Permutations(ClientIds) \union Permutations(Events)
===============================================================================
