--------------------------- MODULE MCActiveOrder ---------------------------
(***************************************************************************)
(* Instances of ActiveOrder for TLC.                                       *)
(***************************************************************************)
EXTENDS ActiveOrder
=============================================================================
