------------------------------ MODULE XaAudio ------------------------------
(***************************************************************************)
(* XA streaming (xa_audio.cpp): the game's thread posts seeks into a slot  *)
(* of one, the decoder thread picks them up between two chunks, empties    *)
(* the ring under the audio callback, reads sectors of the disc from there *)
(* on, locks to the channel of the first audio sector and feeds the ring.  *)
(* Of a sample the model keeps the seek it belongs to and the sector it    *)
(* was decoded from.  The WAV capture, a debugging aid, is left out.       *)
(***************************************************************************)
EXTENDS AudioRing, Sequences, FiniteSetsExt

CONSTANTS None,     \* UINT32_MAX: no request, no position
          Disc,     \* the sectors: 0 for data, or file and channel
          Seeks,    \* what the game passes to xa_audio_seek; Stop is one
          Window,   \* data sectors in a row that end a stream (20)
          Sector,   \* SAMPLES_PER_SECTOR
          InRate, OutRate,  \* SAMPLE_RATE and OUTPUT_RATE, in lowest terms
          MaxSeeks  \* bound on the seeks

Stop == 0   \* xa_audio_seek(0)

ASSUME DiscAssumption == Disc \in Seq(Nat) /\ Stop \in Seeks /\ Seeks \subseteq Nat
ASSUME RateAssumption == {InRate, OutRate, Sector, Window} \subseteq Nat /\ InRate < OutRate
ASSUME PortionsAssumption == Chunk \in Nat \ {0} /\ {Callback, MaxSeeks} \subseteq Nat
ASSUME NoneAssumption == None \notin Nat

VARIABLES running,  \* g_running
          seekReq,  \* g_seek_lba
          dPc,      \* decoder: "loop", "restart", "body", "write" or "ended"
          req,      \* its local req
          lba, rem, phase, noAudio,  \* lba, sect_rem, resamp_phase, no_audio
          lock,     \* g_xa_file and g_xa_channel, 0 while unlocked
          sect,     \* the sector sect_pcm holds: [serial, at]
          chunk,    \* produced
          serial, start,  \* ghosts: seeks picked up, and where the last one went
          seeks, last     \* ghosts: seeks posted, and the last one

stream == <<lba, rem, phase, noAudio, lock, sect, chunk, serial, start>>
game == <<running, seekReq, seeks, last>>
vars == <<ringVars, game, dPc, req, stream>>

Init == /\ RingInit
        /\ running = TRUE /\ seekReq = None /\ dPc = "loop" /\ req = None
        /\ lba = None /\ rem = 0 /\ phase = 0 /\ noAudio = 0 /\ lock = 0
        /\ sect = None /\ chunk = 0 /\ serial = 0 /\ start = Stop
        /\ seeks = 0 /\ last = None
----------------------------------------------------------------------------
(* The game's thread. *)

\* Mutant: a request that was not picked up yet is kept.
SeekIfNone(s) == IF seekReq = None THEN s ELSE seekReq
\* What the slot holds after xa_audio_seek(s).
Posted(s) == s

Seek(s) == /\ running /\ seeks < MaxSeeks
           /\ seekReq' = Posted(s) /\ seeks' = seeks + 1 /\ last' = s
           /\ UNCHANGED <<ringVars, running, dPc, req, stream>>

\* xa_audio_shutdown; the join is the end of the decoder thread.
Shutdown == /\ running /\ running' = FALSE
            /\ UNCHANGED <<ringVars, seekReq, seeks, last, dPc, req, stream>>
----------------------------------------------------------------------------
(* The decoder thread: audio_thread. *)

\* The exchange takes a request; the write index goes first.
PickUp == /\ dPc = "loop" /\ running /\ seekReq # None
          /\ req' = seekReq /\ seekReq' = None /\ dPc' = "restart"
          /\ ResetWrite
          /\ UNCHANGED <<running, seeks, last, stream>>

\* Mutant: the channel of the old stream stays locked.
RestartLocked ==
  /\ dPc = "restart"
  /\ ResetRead
  /\ lba' = (IF req = Stop THEN None ELSE req)
  /\ rem' = 0 /\ phase' = 0 /\ noAudio' = 0 /\ chunk' = 0
  /\ serial' = serial + 1 /\ start' = req
  /\ dPc' = "body" /\ req' = None
  /\ UNCHANGED <<game, lock, sect>>
\* Then the read index, and the state of the stream starts over.
Restart ==
  /\ dPc = "restart"
  /\ ResetRead
  /\ lba' = (IF req = Stop THEN None ELSE req)
  /\ rem' = 0 /\ phase' = 0 /\ noAudio' = 0 /\ lock' = 0 /\ chunk' = 0
  /\ serial' = serial + 1 /\ start' = req
  /\ dPc' = "body" /\ req' = None
  /\ UNCHANGED <<game, sect>>

\* The rest of the loop: after a restart, or round again with no request.
Looping == dPc = "body" \/ (dPc = "loop" /\ running /\ seekReq = None)

\* Stopped: Sleep, continue.
Idle == /\ dPc = "body" /\ lba = None /\ dPc' = "loop"
        /\ UNCHANGED <<ringVars, game, req, stream>>

\* Pairs of the sector used up by p pairs of output.
Used(p) == (phase + p * InRate) \div OutRate

\* temp_buf fills up to the room or the chunk size, or the sector runs out.
Produced == LET room == Smaller(Chunk, FreeSlots(r, w))
            IN Min({p \in 1..room : p = room \/ Used(p) >= rem})

\* Mutant: a full ring is waited for in place, not around the loop.
ProduceWaiting == /\ Looping \/ dPc = "wait"
                  /\ lba # None /\ rem > 0
                  /\ IF FreeSlots(r, w) = 0
                     THEN dPc' = "wait" /\ UNCHANGED <<rem, phase, chunk>>
                     ELSE /\ chunk' = Produced /\ rem' = rem - Used(Produced)
                          /\ phase' = (phase + Produced * InRate) % OutRate
                          /\ dPc' = "write"
                  /\ UNCHANGED <<ringVars, game, req, lba, noAudio, lock, sect, serial, start>>

\* A chunk of output, resampled, unless the ring is full (Sleep).
Produce == /\ Looping /\ lba # None /\ rem > 0 /\ FreeSlots(r, w) > 0
           /\ chunk' = Produced /\ rem' = rem - Used(Produced)
           /\ phase' = (phase + Produced * InRate) % OutRate
           /\ dPc' = "write"
           /\ UNCHANGED <<ringVars, game, req, lba, noAudio, lock, sect, serial, start>>

\* Past the end of the image.
EndOfDisc == /\ Looping /\ lba # None /\ rem = 0 /\ lba \notin DOMAIN Disc
             /\ lba' = None /\ dPc' = "loop"
             /\ UNCHANGED <<ringVars, game, req, rem, phase, noAudio, lock, sect, chunk, serial, start>>

\* An audio sector: decoded if it is of the locked channel, else skipped.
AudioSector ==
  /\ Looping /\ lba # None /\ rem = 0 /\ lba \in DOMAIN Disc /\ Disc[lba] # 0
  /\ lock' = (IF lock = 0 THEN Disc[lba] ELSE lock)
  /\ noAudio' = 0
  /\ IF Disc[lba] = lock' THEN rem' = Sector /\ sect' = [serial |-> serial, at |-> lba]
                          ELSE UNCHANGED <<rem, sect>>
  /\ lba' = lba + 1 /\ dPc' = "loop"
  /\ UNCHANGED <<ringVars, game, req, phase, chunk, serial, start>>

TooFar == noAudio' > Window

DataSector ==
  /\ Looping /\ lba # None /\ rem = 0 /\ lba \in DOMAIN Disc /\ Disc[lba] = 0
  /\ noAudio' = noAudio + 1
  /\ lba' = (IF TooFar THEN None ELSE lba + 1)
  /\ dPc' = "loop"
  /\ UNCHANGED <<ringVars, game, req, rem, phase, lock, sect, chunk, serial, start>>

\* ring_write(temp_buf, produced); what it returns is ignored.
WriteChunk == dPc = "write" /\ chunk > 0 /\ StartWrite(chunk)
              /\ chunk' = 0
              /\ UNCHANGED <<game, dPc, req, lba, rem, phase, noAudio, lock, sect, serial, start>>
WriteSample == CopyIn(sect) /\ UNCHANGED <<game, dPc, req, stream>>
WriteDone == Publish /\ dPc' = "loop" /\ UNCHANGED <<game, req, stream>>

EndThread == /\ dPc = "loop" /\ ~running /\ dPc' = "ended"
             /\ UNCHANGED <<ringVars, game, req, stream>>

Decoder == \/ PickUp \/ Restart \/ Idle \/ Produce \/ EndOfDisc \/ AudioSector \/ DataSector
           \/ WriteChunk \/ WriteSample \/ WriteDone \/ EndThread
----------------------------------------------------------------------------
(* The audio callback: xa_audio_read_pcm. *)
Listener == \/ \E n \in 1..Callback : StartRead(n) /\ UNCHANGED <<game, dPc, req, stream>>
            \/ LoadRead /\ UNCHANGED <<game, dPc, req, stream>>
            \/ CopyOut /\ UNCHANGED <<game, dPc, req, stream>>
            \/ PublishRead /\ UNCHANGED <<game, dPc, req, stream>>

Next == (\E s \in Seeks : Seek(s)) \/ Shutdown \/ Decoder \/ Listener
Spec == Init /\ [][Next]_vars

\* The operating system runs the decoder thread; nothing makes it wait for
\* another thread.
DecoderSpec == Spec /\ WF_vars(Decoder)
----------------------------------------------------------------------------
Sectors == DOMAIN Disc

TypeOK == /\ RingTypeOK
          /\ running \in BOOLEAN /\ dPc \in {"loop", "restart", "body", "write", "ended"}
          /\ {seekReq, req, last} \subseteq Seeks \cup {None}
          /\ lba \in Nat \cup {None} /\ rem \in 0..Sector /\ phase \in 0..(OutRate - 1)
          /\ noAudio \in 0..(Window + 1) /\ lock \in Nat
          /\ sect \in [serial : Nat, at : Sectors] \cup {None}
          /\ chunk \in 0..Chunk

\* The sectors a stream decodes are all of the channel of the first audio
\* sector after its seek, and none is of an earlier stream: a seek resets the
\* lock and drops the rest of the sector (audio_thread, channel lock).
StreamKeepsChannel ==
  rem > 0 \/ (wPc = "copy" /\ wLeft > 0) =>
    /\ sect.serial = serial /\ sect.at >= start
    /\ Disc[sect.at] = Disc[Min({a \in Sectors : a >= start /\ Disc[a] # 0})]

\* A stream reads on only while one of the last Window + 1 sectors was audio
\* (the scan window of xa_audio_seek).
WithinWindow ==
  lba # None /\ lba > start + Window =>
    \E a \in (lba - Window - 1)..(lba - 1) : a \in Sectors /\ Disc[a] # 0

\* What the decoder plays, with the types of its state.
StreamOK == TypeOK /\ StreamKeepsChannel /\ WithinWindow

\* The last seek is the one that is played: requests that follow each other
\* before the decoder looks replace each other, and none is lost.
LastSeekWins == <>[](running => start = last \/ last = None)

\* xa_audio_shutdown returns: the decoder ends although nobody empties the
\* ring any more.
Joined == ~running ~> dPc = "ended"

\* Whatever an index reset under a running callback leaves behind, in the end
\* only samples of the last stream are heard, if the device keeps calling back.
Settles == WF_vars(Listener) => <>[](rPc = "copy" /\ rLeft > 0 => buf[rAt] # NoSample /\ buf[rAt].serial = serial)
============================================================================
