---------------------------- MODULE AudioStream ----------------------------
(***************************************************************************)
(* One stream through the ring: a decoder thread makes samples 1, 2, 3,    *)
(* ..., the audio callback takes them in portions of its own, and nobody   *)
(* seeks (XaAudio adds the seeks).  The thread of cd_audio.cpp writes whole*)
(* chunks, the last padded with silence, and sleeps until a whole one fits;*)
(* the one of xa_audio.cpp writes what fits and what its sector has left.  *)
(* Both ignore what ring_write returns: what did not fit is gone.          *)
(***************************************************************************)
EXTENDS AudioRing, Sequences

CONSTANT MaxMade  \* bound: length of the stream, without the padding

ASSUME StreamAssumption == Chunk \in Nat /\ Callback \in Nat /\ MaxMade \in Nat

VARIABLES source,   \* the stream is a "track" of the disc or "xa" sectors
          produced, \* length of the chunk on its way to ring_write, 0 if none
          made,     \* samples of the chunks before it
          got       \* samples of the calls of read_pcm that have returned, ghost

streamVars == <<ringVars, source, produced, made, got>>

StreamInit == RingInit /\ source \in {"track", "xa"} /\ produced = 0 /\ made = 0 /\ got = 0
----------------------------------------------------------------------------
\* get_free(), then fread of a whole chunk, if a whole chunk fits.
ReadTrack == /\ source = "track"
             /\ FreeSlots(r, w) >= Chunk /\ produced' = Chunk

\* get_free(), then the loop that fills temp_buf from the sector.
ResampleXa == /\ source = "xa"
              /\ \E n \in 1..Smaller(Chunk, MaxMade - made) :
                    n <= FreeSlots(r, w) /\ produced' = n

Generate == /\ wPc = "idle" /\ produced = 0 /\ made < MaxMade
            /\ ReadTrack \/ ResampleXa
            /\ UNCHANGED <<ringVars, source, made, got>>

\* ring_write(temp_buf, produced).
StreamWrite == produced > 0 /\ StartWrite(produced) /\ UNCHANGED <<source, produced, made, got>>
StreamWriteSample == CopyIn(made + Avail(w, wAt) + 1) /\ UNCHANGED <<source, produced, made, got>>
StreamWriteDone == Publish /\ made' = made + produced /\ produced' = 0 /\ UNCHANGED <<source, got>>

\* xa_audio_read_pcm(s_mix_temp, to_mix), from the audio callback.
Ask == \E n \in 1..Callback : StartRead(n) /\ UNCHANGED <<source, produced, made, got>>
Look == LoadRead /\ UNCHANGED <<source, produced, made, got>>
ReadSample == CopyOut /\ UNCHANGED <<source, produced, made, got>>
ReadDone == PublishRead /\ got' = got + Avail(r, rAt) /\ UNCHANGED <<source, produced, made>>

StreamDecoder == Generate \/ StreamWrite \/ StreamWriteSample \/ StreamWriteDone
StreamListener == Ask \/ Look \/ ReadSample \/ ReadDone
StreamNext == StreamDecoder \/ StreamListener
StreamSpec == StreamInit /\ [][StreamNext]_streamVars

\* The decoder thread loops (Sleep(5) while the ring has no room) and the
\* device calls back for as long as it runs; neither waits for the other.
FairSpec == StreamSpec /\ WF_streamVars(StreamDecoder) /\ WF_streamVars(StreamListener)
----------------------------------------------------------------------------
StreamTypeOK == RingTypeOK /\ source \in {"track", "xa"} /\ {produced, made, got} \subseteq Nat

\* The sample the callback is about to copy out is the next one of the stream:
\* none is dropped by a ring_write that found less room than get_free did,
\* read before it is written, read twice, or overwritten while the callback is
\* still at it (get_free, ring_write, xa_audio_read_pcm).
Fifo == rPc = "copy" /\ rLeft > 0 => buf[rAt] = got + Avail(r, rAt) + 1

\* The two threads implement a queue of Size - 1 samples: a whole chunk appears
\* at ring_write's store of the write index, a whole read_pcm at its store of
\* the read index, and both stay within the capacity.
Queued == [i \in 1..Avail(r, w) |-> buf[Beyond(r, i - 1)]]
Queue == INSTANCE SampleQueue WITH Capacity <- Size - 1, queue <- Queued
ImplementsQueue == Queue!Spec

\* The whole stream is heard, however the two threads interleave and whatever
\* portions the device asks for: no pair of indices looks full to the decoder
\* and empty to the callback, and what the callback leaves behind never keeps a
\* track's decoder from finding the room of a whole chunk.
Drained == <>(got >= MaxMade)
============================================================================
