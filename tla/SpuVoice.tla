------------------------------ MODULE SpuVoice -----------------------------
(***************************************************************************)
(* One voice of the sound processor (spu.cpp): the game's thread writes    *)
(* registers, uploads samples and keys the voice on and off; the audio     *)
(* callback ticks it, decoding a block of the sample RAM when the last one *)
(* is used up and advancing the envelope. Ticks, key-ons, key-offs and     *)
(* uploads hold the lock g_cs: each is one step. A register is stored      *)
(* before the lock is taken, one halfword at a time, so a store is a step  *)
(* of its own between any two ticks; a tick reads each register once. The  *)
(* voices do not touch each other. Addresses count blocks; of a block the  *)
(* model keeps its flags, of the pitch how far it moves the position.      *)
(***************************************************************************)
EXTENDS Naturals

CONSTANTS RamBlocks,  \* blocks in SPU RAM
          BlockLen,   \* samples in a block (28)
          MaxAdv,     \* samples a tick moves on at most (16)
          MaxVol,     \* 0x7FFF
          AdsrHi,     \* upper halves of the envelope register: attack rate, decay shift, sustain level
          AdsrLo,     \* lower halves: release shift
          Uploaded,   \* what the RAM holds at first: block |-> flags
          Uploads,    \* flags of the blocks uploaded later
          Starts,     \* start addresses and repeat addresses the game writes
          None,       \* loop start not seen yet
          MaxNotes, MaxUploads  \* bounds

Blocks == 0..(RamBlocks - 1)
Flags == SUBSET {"start", "end", "repeat"}

ASSUME RamAssumption == Uploaded \in [Blocks -> Flags] /\ Uploads \subseteq Flags /\ Starts \subseteq 0..RamBlocks
ASSUME PitchAssumption == RamBlocks \in Nat /\ BlockLen \in Nat /\ MaxAdv \in Nat /\ MaxAdv < BlockLen
ASSUME NoneAssumption == None \notin Blocks
ASSUME BoundsAssumption == MaxVol \in Nat /\ MaxNotes \in Nat /\ MaxUploads \in Nat
ASSUME AdsrAssumption == /\ AdsrHi \subseteq [attack : 1..MaxVol, decay : 1..15, sustain : 1..MaxVol]
                         /\ AdsrLo \subseteq 1..15

VARIABLES ram, transfer,         \* g_spu_ram, g_transfer_addr
          regStart, regRepeat, adsrHi, adsrLo,  \* the voice's registers
          active, cur, idx,      \* active, cur_addr, blk_idx
          phase, vol,            \* env_phase, env_vol
          loopStart,             \* loop_start
          playing,               \* the block decoded in blk, and the note it was decoded for
          note, from, uploads    \* ghosts: key-ons and uploads so far, start of the note

memory == <<ram, transfer, uploads>>
regs == <<regStart, regRepeat, adsrHi, adsrLo>>
voice == <<active, cur, idx, phase, vol, loopStart, playing, note, from>>
vars == <<memory, regs, voice>>

Attack == 0
Decay == 1
Sustain == 2
Release == 3
Off == 4

Init == /\ ram = Uploaded /\ transfer = 0 /\ uploads = 0
        /\ regStart \in Starts /\ regRepeat \in Starts /\ adsrHi \in AdsrHi /\ adsrLo \in AdsrLo
        /\ active = FALSE /\ cur = 0 /\ idx = BlockLen
        /\ phase = Attack /\ vol = 0 /\ loopStart = None
        /\ playing = [block |-> None, note |-> 0] /\ note = 0 /\ from = 0
----------------------------------------------------------------------------
(* The game's thread: spu_write_half, spu_dma_write. *)

\* One halfword; the two halves of the envelope register are two stores.
WriteRegister == /\ \/ regStart' \in Starts /\ UNCHANGED <<regRepeat, adsrHi, adsrLo>>
                    \/ regRepeat' \in Starts /\ UNCHANGED <<regStart, adsrHi, adsrLo>>
                    \/ adsrHi' \in AdsrHi /\ UNCHANGED <<regStart, regRepeat, adsrLo>>
                    \/ adsrLo' \in AdsrLo /\ UNCHANGED <<regStart, regRepeat, adsrHi>>
                 /\ UNCHANGED <<memory, voice>>

SetTransfer == /\ uploads < MaxUploads /\ transfer' \in Blocks
               /\ UNCHANGED <<ram, uploads, regs, voice>>

\* Blocks beyond the end of the RAM are cut off.
Upload == /\ uploads < MaxUploads
          /\ transfer < RamBlocks
          /\ \E n \in 1..RamBlocks, flags \in Uploads :
               LET end == IF transfer + n > RamBlocks THEN RamBlocks ELSE transfer + n
               IN /\ ram' = [b \in Blocks |-> IF b \in transfer..(end - 1) THEN flags ELSE ram[b]]
                  /\ transfer' = end
          /\ uploads' = uploads + 1
          /\ UNCHANGED <<regs, voice>>

\* Mutant: the rest of the old note's block is played first.
KeyOnKeepsBlock == /\ note < MaxNotes
                   /\ active' = TRUE /\ cur' = regStart
                   /\ phase' = Attack /\ vol' = 0 /\ loopStart' = None
                   /\ note' = note + 1 /\ from' = regStart
                   /\ UNCHANGED <<memory, regs, idx, playing>>
\* idx past the block forces the first block to be decoded at the next tick.
KeyOn == /\ note < MaxNotes
         /\ active' = TRUE /\ cur' = regStart /\ idx' = BlockLen
         /\ phase' = Attack /\ vol' = 0 /\ loopStart' = None
         /\ note' = note + 1 /\ from' = regStart
         /\ UNCHANGED <<memory, regs, playing>>

\* Mutant: a voice that is off is released again.
KeyOffAlways == /\ phase' = Release
                /\ UNCHANGED <<memory, regs, active, cur, idx, vol, loopStart, playing, note, from>>
KeyOff == /\ phase < Release /\ phase' = Release
          /\ UNCHANGED <<memory, regs, active, cur, idx, vol, loopStart, playing, note, from>>
----------------------------------------------------------------------------
(* The audio callback: spu_mix, for one sample of this voice. *)

Smaller(x, y) == IF x < y THEN x ELSE y
Larger(x, y) == IF x < y THEN y ELSE x

\* Mutant: an exponential step may be zero.
ShiftedMaybeZero(shift) == vol \div 2^shift
\* The step of the exponential phases, env_vol >> rs.
Shifted(shift) == Larger(vol \div 2^shift, 1)

\* One step of the linear attack.
Attacked == Smaller(vol + adsrHi.attack, MaxVol)

\* update_adsr, from phase p.
Envelope(p) ==
  \/ /\ p = Attack
     /\ vol' = Attacked
     /\ phase' = (IF vol' = MaxVol THEN Decay ELSE p)
     /\ active' = active
  \/ /\ p = Decay
     /\ vol' = Larger(vol - Smaller(vol, Shifted(adsrHi.decay)), adsrHi.sustain)
     /\ phase' = (IF vol' = adsrHi.sustain THEN Sustain ELSE p)
     /\ active' = active
  \/ /\ p = Sustain
     /\ vol' = adsrHi.sustain
     /\ phase' = p /\ active' = active
  \/ /\ p = Release
     /\ vol' = vol - Smaller(vol, Shifted(adsrLo))
     /\ phase' = (IF vol' = 0 THEN Off ELSE p)
     /\ active' = (vol' # 0)

\* The position stays in the decoded block.
TickWithin(adv) ==
  /\ active /\ idx + adv < BlockLen
  /\ idx' = idx + adv
  /\ Envelope(phase)
  /\ UNCHANGED <<memory, regs, cur, loopStart, playing, note, from>>

\* The block would lie past the RAM.
TickPastRam(adv) ==
  /\ active /\ idx + adv >= BlockLen /\ cur >= RamBlocks
  /\ idx' = idx + adv - BlockLen /\ active' = FALSE
  /\ UNCHANGED <<memory, regs, cur, phase, vol, loopStart, playing, note, from>>

\* Where a loop goes back to.  Mutant: always the repeat register.
LoopToRegister(seen) == regRepeat
LoopTo(seen) == IF seen # None THEN seen ELSE regRepeat

\* The next block is decoded.  At the end of a loop the loop's first block is
\* decoded over it at once; of its flags only "start" is looked at.
TickNext(adv) ==
  /\ active /\ idx + adv >= BlockLen /\ cur < RamBlocks
  /\ idx' = idx + adv - BlockLen
  /\ LET flags == ram[cur]
         seen == IF "start" \in flags THEN cur ELSE loopStart
         loops == {"end", "repeat"} \subseteq flags
         jumps == loops /\ LoopTo(seen) < RamBlocks
     IN /\ cur' = IF jumps THEN LoopTo(seen) + 1 ELSE IF loops THEN LoopTo(seen) ELSE cur + 1
        /\ playing' = [block |-> IF jumps THEN LoopTo(seen) ELSE cur, note |-> note]
        /\ loopStart' = IF jumps /\ "start" \in ram[LoopTo(seen)] THEN LoopTo(seen) ELSE seen
        /\ Envelope(IF "end" \in flags /\ ~loops THEN Release ELSE phase)
  /\ UNCHANGED <<memory, regs, note, from>>

Tick == \E adv \in 0..MaxAdv : TickWithin(adv) \/ TickPastRam(adv) \/ TickNext(adv)

Next == WriteRegister \/ SetTransfer \/ Upload \/ KeyOn \/ KeyOff \/ Tick
Spec == Init /\ [][Next]_vars

\* The device calls back for as long as it is open.
FairSpec == Spec /\ WF_vars(Tick)
----------------------------------------------------------------------------
TypeOK == /\ ram \in [Blocks -> Flags] /\ transfer \in 0..RamBlocks
          /\ {regStart, regRepeat} \subseteq Starts /\ adsrHi \in AdsrHi /\ adsrLo \in AdsrLo
          /\ active \in BOOLEAN /\ cur \in 0..RamBlocks /\ idx \in 0..(BlockLen + MaxAdv)
          /\ phase \in Attack..Off /\ vol \in 0..MaxVol
          /\ loopStart \in Blocks \cup {None}
          /\ playing \in [block : Blocks \cup {None}, note : 0..MaxNotes]

\* A voice that was keyed on never sounds a block of the note before it, in
\* whatever state it was when it was keyed on (key_on, blk_idx = 28).
OwnBlocks == active /\ idx < BlockLen => playing.note = note

\* A sample ends at the first block from its start that says so.  SamplesLoop is
\* what its author promises: there is such a block, and one that goes back finds
\* the loop's start before it (the block at a jump is not asked for an end).
EndsAt(b, e) == e >= b /\ "end" \in Uploaded[e] /\ \A c \in b..(e - 1) : "end" \notin Uploaded[c]
LastBlock(b) == CHOOSE e \in Blocks : EndsAt(b, e)
SamplesLoop ==
  \A b \in Starts \cap Blocks :
    \E e \in Blocks : /\ EndsAt(b, e)
                      /\ "repeat" \in Uploaded[e] =>
                           /\ "start" \notin Uploaded[e]
                           /\ \E c \in b..e : "start" \in Uploaded[c]

\* A sample that loops is left neither way: until an upload changes the RAM, the
\* voice sounds only blocks from its start address to the end of the loop,
\* however often it goes round and wherever the repeat register points
\* (spu_mix, loop_start).
StaysInSample == uploads = 0 /\ active /\ idx < BlockLen /\ phase < Release =>
                   playing.block \in from..LastBlock(from)

\* What an active voice sounds, with the types of its state.
VoiceOK == TypeOK /\ StaysInSample

\* Between two key-ons the envelope moves only forward, whoever moves it: the
\* envelope itself, a key-off or the end of a one-shot sample.
PhaseForward == [][phase' >= phase \/ note' # note]_vars

\* Attack, decay and release end: no rate rounds to a standstill, and a voice
\* released by key-off or by the end of its sample falls silent.
EnvelopeAdvances == \A p \in {Attack, Decay, Release} :
                      (active /\ phase = p) ~> (~active \/ phase # p)
============================================================================
