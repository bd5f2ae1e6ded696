-------------------------- MODULE MCServerLifecycle ---------------------------
(***************************************************************************)
(* ServerLifecycle for TLC.                                                *)
(***************************************************************************)
EXTENDS ServerLifecycle, TLC

WorkerSymmetry == Permutations(Workers) \union Permutations(Clients)
===============================================================================
