----------------------------- MODULE MCSpuVoice ----------------------------
(* Instances of SpuVoice for TLC. *)
EXTENDS SpuVoice
\* A one-shot sample of one block, a looped one of three, a free block; 5 is
\* the end of the RAM.
Samples == [b \in 0..4 |-> CASE b = 0 -> {"end"} [] b = 2 -> {"start"}
                             [] b = 3 -> {"end", "repeat"} [] OTHER -> {}]
Attacks == {[attack |-> 2, decay |-> 1, sustain |-> 1],
            [attack |-> 3, decay |-> 3, sustain |-> 4]}
Releases == {1, 2}
SampleStarts == {0, 1, 5}
ASSUME SampleAssumption == SamplesLoop
UploadFlags == {{}, {"end"}}
============================================================================
