------------------------------ MODULE MCFibers ------------------------------
(* Instances of Fibers for TLC: Values are model values. *)
EXTENDS Fibers
=============================================================================
