----------------------------- MODULE MCMemCard -----------------------------
(* Instances of MemCard for TLC: Files are model values. *)
EXTENDS MemCard
============================================================================
