------------------------------ MODULE MCFrame ------------------------------
(* Instances of Frame for TLC. *)
EXTENDS Frame

\* Without a wait, the next frame, and two frames.
MCModes == {-1, 0, 2}
============================================================================
