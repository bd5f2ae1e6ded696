-------------------------- MODULE MCRequestHandlers --------------------------
(***************************************************************************)
(* Two flight plans around the number of a radar target and a controller,  *)
(* three sector elements of two types, two voice channels; object 1 of a   *)
(* kind does not serialize.                                                *)
(***************************************************************************)
EXTENDS RequestHandlers

MCItems == [fp |-> {1, 3}, rt |-> {2}, ct |-> {2}, me |-> {2}, se |-> 1 .. 3, ch |-> {1, 2}]
MCElementType == <<2, 2, 3>>
==============================================================================
