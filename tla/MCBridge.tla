------------------------------- MODULE MCBridge -------------------------------
(***************************************************************************)
(* Bridge for TLC: connections, ids, events and workers are model values.  *)
(***************************************************************************)
EXTENDS Bridge, TLC

BridgeSymmetry == Permutations(Handles) \union Permutations(ClientIds)
                      \union Permutations(Events) \union Permutations(Workers)
===============================================================================
