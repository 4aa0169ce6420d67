----------------------------- MODULE MCXaAudio -----------------------------
(* Instances of XaAudio for TLC: a disc of seven sectors, two channels      *)
(* interleaved, data before, between and after them.                        *)
EXTENDS XaAudio
MCDisc == <<0, 1, 2, 1, 0, 0, 2>>
MCSeeks == {0, 1, 7}
============================================================================
