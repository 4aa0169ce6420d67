---------------------------- MODULE MCIntChains ----------------------------
(* Instances of IntChains for TLC. *)
EXTENDS IntChains
ASSUME FitAssumption == HandlersFit
============================================================================
