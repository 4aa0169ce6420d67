---------------------------- MODULE SampleQueue ----------------------------
(***************************************************************************)
(* What the ring between a decoder and the audio callback promises, with   *)
(* neither slots nor indices: a bounded queue.  The decoder appends a run  *)
(* of samples in one step, the callback removes a run from the front in    *)
(* one step, and what the callback removed is what the decoder appended,   *)
(* in order.                                                               *)
(***************************************************************************)
EXTENDS Naturals, Sequences

CONSTANT Capacity

VARIABLES queue,  \* samples the callback may take
          made,   \* samples appended so far, numbered from 1
          got     \* samples removed so far

vars == <<queue, made, got>>

Init == queue = <<>> /\ made = 0 /\ got = 0

\* n samples appended at once.
Put == \E n \in 0..(Capacity - Len(queue)) :
         /\ queue' = queue \o [i \in 1..n |-> made + i]
         /\ made' = made + n
         /\ UNCHANGED got

\* n samples removed at once: they must be the next n in the decoder's order.
Take == \E n \in 0..Len(queue) :
          /\ \A i \in 1..n : queue[i] = got + i
          /\ queue' = SubSeq(queue, n + 1, Len(queue))
          /\ got' = got + n
          /\ UNCHANGED made

Next == Put \/ Take
Spec == Init /\ [][Next]_vars
============================================================================
