--------------------------- MODULE SpuVoiceProofs --------------------------
(***************************************************************************)
(* For any RAM, pitch, envelope settings and number of notes: a voice      *)
(* sounds only its own note, its envelope goes forward, its state keeps its   *)
(* type and a sample that loops is not left.                               *)
(***************************************************************************)
EXTENDS SpuVoice, FiniteSetTheorems, TLAPS

\* The part of the types the two properties rest on; a voice that is off never
\* ticks.
Counters == /\ idx \in Nat /\ note \in Nat
            /\ phase \in {Attack, Decay, Sustain, Release, Off}
            /\ active \in BOOLEAN
            /\ active => phase # Off

IInv == Counters /\ OwnBlocks
----------------------------------------------------------------------------
\* update_adsr moves the phase forward only.
LEMMA EnvelopeForward ==
  ASSUME NEW p \in {Attack, Decay, Sustain, Release, Off}, Counters, Envelope(p)
  PROVE /\ phase' \in {Attack, Decay, Sustain, Release, Off} /\ phase' >= p
        /\ active' \in BOOLEAN /\ (active' => phase' # Off)
  <1>1. CASE p = Attack /\ phase' = (IF vol' = MaxVol THEN Decay ELSE p) /\ active' = active
    BY <1>1 DEF Counters, Attack, Decay, Sustain, Release, Off
  <1>2. CASE p = Decay /\ phase' = (IF vol' = adsrHi.sustain THEN Sustain ELSE p) /\ active' = active
    BY <1>2 DEF Counters, Attack, Decay, Sustain, Release, Off
  <1>3. CASE p = Sustain /\ phase' = p /\ active' = active
    BY <1>3 DEF Counters, Attack, Decay, Sustain, Release, Off
  <1>4. CASE p = Release /\ phase' = (IF vol' = 0 THEN Off ELSE p) /\ active' = (vol' # 0)
    <2>1. phase' \in {Attack, Decay, Sustain, Release, Off} /\ phase' >= p
      BY <1>4 DEF Attack, Decay, Sustain, Release, Off
    <2>2. active' \in BOOLEAN
      BY <1>4, Zenon
    <2>3. CASE vol' = 0
      <3>1. ~active'
        BY <1>4, <2>3, Zenon
      <3> QED
        BY <2>1, <2>2, <3>1
    <2>4. CASE vol' # 0
      BY <1>4, <2>1, <2>2, <2>4 DEF Release, Off
    <2> QED
      BY <2>3, <2>4
  <1> QED
    BY <1>1, <1>2, <1>3, <1>4, Zenon DEF Envelope

\* A voice starts silent.
LEMMA InitHolds == Init => IInv
  <1>1. SUFFICES ASSUME Init PROVE IInv
    OBVIOUS
  <1>2. idx = BlockLen /\ note = 0 /\ phase = Attack /\ active = FALSE
    BY <1>1 DEF Init
  <1>3. Counters /\ OwnBlocks
    BY <1>2, PitchAssumption DEF Counters, OwnBlocks, Attack, Off
  <1> QED
    BY <1>3 DEF IInv

\* One step: the counters keep their types, a key-on makes the old block
\* unplayable until the next one is decoded, and only a key-on takes the
\* envelope back.
LEMMA StepHolds == IInv /\ Next => IInv' /\ (phase' >= phase \/ note' # note)
  <1> SUFFICES ASSUME IInv, Next
               PROVE IInv' /\ (phase' >= phase \/ note' # note)
    OBVIOUS
  <1> USE DEF IInv, Counters, OwnBlocks
  <1>0. phase >= phase
    BY DEF Attack, Decay, Sustain, Release, Off
  <1>1. CASE WriteRegister \/ SetTransfer \/ Upload
    BY <1>0, <1>1 DEF WriteRegister, SetTransfer, Upload, voice, regs, memory
  <1>2. CASE KeyOn
    BY <1>2, PitchAssumption DEF KeyOn, Attack, Off
  <1>3. CASE KeyOff
    BY <1>3 DEF KeyOff, Attack, Decay, Sustain, Release, Off
  <1>4. ASSUME NEW adv \in 0..MaxAdv, TickWithin(adv)
        PROVE IInv' /\ phase' >= phase
    <2>1. /\ active /\ idx + adv < BlockLen /\ idx' = idx + adv
          /\ note' = note /\ playing' = playing /\ Envelope(phase)
      BY <1>4 DEF TickWithin
    <2>2. phase' \in {Attack, Decay, Sustain, Release, Off} /\ phase' >= phase /\ active' \in BOOLEAN /\ (active' => phase' # Off)
      BY <2>1, EnvelopeForward
    <2>3. idx' \in Nat /\ idx < BlockLen
      BY <2>1, PitchAssumption
    <2> QED
      BY <2>1, <2>2, <2>3
  <1>5. ASSUME NEW adv \in 0..MaxAdv, TickPastRam(adv)
        PROVE IInv' /\ phase' >= phase
    <2>1. /\ idx + adv >= BlockLen /\ idx' = idx + adv - BlockLen /\ active' = FALSE
          /\ phase' = phase /\ note' = note /\ playing' = playing
      BY <1>5 DEF TickPastRam
    <2>2. idx' \in Nat
      BY <2>1, PitchAssumption
    <2> QED
      BY <1>0, <2>1, <2>2
  <1>6. ASSUME NEW adv \in 0..MaxAdv, TickNext(adv)
        PROVE IInv' /\ phase' >= phase
    <2>1. /\ idx + adv >= BlockLen /\ idx' = idx + adv - BlockLen /\ note' = note
          /\ playing'.note = note
      BY <1>6 DEF TickNext
    <2>2. Envelope(Release) \/ Envelope(phase)
      BY <1>6 DEF TickNext
    <2>3. phase' \in {Attack, Decay, Sustain, Release, Off} /\ phase' >= phase /\ active' \in BOOLEAN /\ (active' => phase' # Off)
      <3>1. CASE Envelope(phase)
        BY <3>1, EnvelopeForward
      <3>2. CASE Envelope(Release)
        <4>1. phase' \in {Attack, Decay, Sustain, Release, Off} /\ phase' >= Release /\ active' \in BOOLEAN /\ (active' => phase' # Off)
          BY <3>2, EnvelopeForward
        <4>2. phase # Off
          BY <1>6 DEF TickNext
        <4> QED
          BY <4>1, <4>2 DEF Attack, Decay, Sustain, Release, Off
      <3> QED
        BY <2>2, <3>1, <3>2
    <2>4. idx' \in Nat
      BY <2>1, PitchAssumption
    <2> QED
      BY <2>1, <2>3, <2>4
  <1> QED
    BY <1>1, <1>2, <1>3, <1>4, <1>5, <1>6 DEF Next, Tick

\* A stuttering step keeps the invariant.
LEMMA StutterHolds == IInv /\ UNCHANGED vars => IInv'
  BY DEF IInv, Counters, OwnBlocks, vars, voice

\* The invariant holds in every state of every behaviour.
LEMMA Invariance == Spec => []IInv
  BY InitHolds, StepHolds, StutterHolds, PTL DEF Spec

\* Whatever a voice was doing when it was keyed on, it sounds no block decoded
\* for an earlier note.
THEOREM AlwaysOwnBlocks == Spec => []OwnBlocks
  <1>1. IInv => OwnBlocks
    BY DEF IInv
  <1> QED
    BY <1>1, Invariance, PTL

\* Only a key-on takes the envelope back to an earlier phase.
THEOREM AlwaysPhaseForward == Spec => PhaseForward
  <1>1. IInv /\ [Next]_vars => [phase' >= phase \/ note' # note]_vars
    BY StepHolds
  <1> QED
    BY <1>1, Invariance, PTL DEF Spec, PhaseForward
----------------------------------------------------------------------------
(* The types of the voice's state. *)

Typed == /\ TypeOK /\ idx \in 0..BlockLen
         /\ note \in 0..MaxNotes
         /\ active => from \in Starts

\* Until the first upload the RAM holds what it held at first.
RamAsUploaded == uploads \in Nat /\ (uploads = 0 => ram = Uploaded)

\* Where the voice is in the sample it was keyed on for, until it is released: it
\* has not passed the sample's end, and it has seen the loop's start if it has
\* passed it.  A start address at the end of the RAM sounds nothing.
LoopSeen == IF loopStart = None
            THEN \A c \in from..(cur - 1) : "start" \notin Uploaded[c]
            ELSE loopStart \in from..LastBlock(from) /\ "start" \in Uploaded[loopStart]
InSample == uploads = 0 /\ active /\ phase < Release =>
              IF from \in Blocks
              THEN /\ cur \in from..LastBlock(from)
                   /\ idx < BlockLen => playing.block \in from..LastBlock(from)
                   /\ LoopSeen
              ELSE cur = from /\ idx = BlockLen

VInv == IInv /\ Typed /\ RamAsUploaded /\ InSample
----------------------------------------------------------------------------
\* A sample has one end.
LEMMA LastBlockFacts ==
  ASSUME SamplesLoop, NEW b \in Starts, b \in Blocks
  PROVE  /\ LastBlock(b) \in b..(RamBlocks - 1)
         /\ "end" \in Uploaded[LastBlock(b)]
         /\ \A c \in b..(LastBlock(b) - 1) : "end" \notin Uploaded[c]
         /\ "repeat" \in Uploaded[LastBlock(b)] =>
              /\ "start" \notin Uploaded[LastBlock(b)]
              /\ \E c \in b..(LastBlock(b) - 1) : "start" \in Uploaded[c]
  <1>1. PICK e \in Blocks : /\ EndsAt(b, e)
                            /\ "repeat" \in Uploaded[e] =>
                                 /\ "start" \notin Uploaded[e]
                                 /\ \E c \in b..e : "start" \in Uploaded[c]
    BY DEF SamplesLoop
  <1>2. LastBlock(b) \in Blocks /\ EndsAt(b, LastBlock(b))
    BY <1>1, Zenon DEF LastBlock
  <1>3. LastBlock(b) = e
    BY <1>1, <1>2, PitchAssumption DEF EndsAt, Blocks
  <1>4. ASSUME "repeat" \in Uploaded[e]
        PROVE  \E c \in b..(e - 1) : "start" \in Uploaded[c]
    <2>1. PICK c \in b..e : "start" \in Uploaded[c]
      BY <1>1, <1>4
    <2>2. c # e
      BY <1>1, <1>4, <2>1
    <2> QED
      BY <2>1, <2>2, PitchAssumption DEF Blocks
  <1> QED
    BY <1>1, <1>3, <1>4, PitchAssumption DEF EndsAt, Blocks

\* A shift by a number of bits divides by a positive number.
LEMMA PowerOfTwo ==
  ASSUME NEW n \in Nat
  PROVE  2^n \in Nat /\ 2^n > 0
  <1>1. IsFiniteSet(1..n) /\ Cardinality(1..n) = n
    BY FS_Interval
  <1>2. IsFiniteSet(SUBSET (1..n)) /\ Cardinality(SUBSET (1..n)) = 2^n
    BY <1>1, FS_SUBSET
  <1>3. Cardinality(SUBSET (1..n)) \in Nat
    BY <1>2, FS_CardinalityType
  <1>4. Cardinality(SUBSET (1..n)) # 0
    <2>1. SUBSET (1..n) # {}
      OBVIOUS
    <2> QED
      BY <1>2, <2>1, FS_EmptySet
  <1> QED
    BY <1>2, <1>3, <1>4

LEMMA ShiftedType ==
  ASSUME vol \in Nat, NEW n \in Nat
  PROVE  Shifted(n) \in Nat /\ Shifted(n) > 0
  <1>1. 2^n \in Nat /\ 2^n > 0
    BY PowerOfTwo
  <1> DEFINE p == 2^n
  <1>2. p \in Nat /\ p > 0
    BY <1>1
  <1> HIDE DEF p
  <1>3. vol \div p \in Nat
    BY <1>2
  <1>4. Larger(vol \div p, 1) \in Nat /\ Larger(vol \div p, 1) > 0
    BY <1>3 DEF Larger
  <1> QED
    BY <1>4 DEF Shifted, p

\* The volume never leaves its range, whatever the envelope's settings.
LEMMA EnvelopeTypes ==
  ASSUME TypeOK, NEW p \in Attack..Off, Envelope(p)
  PROVE  vol' \in 0..MaxVol
  <1>1. vol \in 0..MaxVol /\ MaxVol \in Nat /\ adsrHi \in AdsrHi /\ adsrLo \in AdsrLo
    BY BoundsAssumption DEF TypeOK
  <1>2. /\ adsrHi.attack \in 1..MaxVol /\ adsrHi.decay \in 1..15
        /\ adsrHi.sustain \in 1..MaxVol /\ adsrLo \in 1..15
    BY <1>1, AdsrAssumption
  <1>3. Shifted(adsrHi.decay) \in Nat /\ Shifted(adsrLo) \in Nat
    BY <1>1, <1>2, ShiftedType
  <1>4. CASE vol' = Attacked
    BY <1>1, <1>2, <1>4 DEF Attacked, Smaller
  <1>5. CASE vol' = Larger(vol - Smaller(vol, Shifted(adsrHi.decay)), adsrHi.sustain)
    <2>1. vol - Smaller(vol, Shifted(adsrHi.decay)) \in 0..MaxVol
      BY <1>1, <1>3 DEF Smaller
    <2> QED
      BY <1>2, <1>5, <2>1 DEF Larger
  <1>6. CASE vol' = adsrHi.sustain
    BY <1>1, <1>2, <1>6
  <1>7. CASE vol' = vol - Smaller(vol, Shifted(adsrLo))
    BY <1>1, <1>3, <1>7 DEF Smaller
  <1> QED
    BY <1>4, <1>5, <1>6, <1>7 DEF Envelope
----------------------------------------------------------------------------
\* A voice starts silent, before any sample is played.
LEMMA InitVoice == Init => VInv
  <1> SUFFICES ASSUME Init PROVE VInv
    OBVIOUS
  <1>1. IInv
    BY InitHolds
  <1>2. TypeOK
    <2>1. ram \in [Blocks -> Flags] /\ transfer \in 0..RamBlocks /\ {regStart, regRepeat} \subseteq Starts /\ adsrHi \in AdsrHi /\ adsrLo \in AdsrLo
      BY RamAssumption, PitchAssumption DEF Init
    <2>2. cur \in 0..RamBlocks /\ idx \in 0..(BlockLen + MaxAdv)
      BY PitchAssumption DEF Init
    <2>5. active \in BOOLEAN
      BY <1>1 DEF IInv, Counters
    <2>3. phase \in Attack..Off /\ vol \in 0..MaxVol
      BY BoundsAssumption DEF Init, Attack, Off
    <2>4. loopStart \in Blocks \cup {None} /\ playing \in [block : Blocks \cup {None}, note : 0..MaxNotes]
      BY BoundsAssumption DEF Init
    <2> QED
      BY <2>1, <2>2, <2>3, <2>4, <2>5 DEF TypeOK
  <1>3. Typed
    BY <1>2, PitchAssumption, BoundsAssumption DEF Typed, Init
  <1>4. RamAsUploaded /\ InSample
    BY DEF RamAsUploaded, InSample, Init
  <1> QED
    BY <1>1, <1>3, <1>4 DEF VInv

\* The game's writes change no sample the voice plays before the first upload,
\* and a key-on starts at a start address.
LEMMA GameKeepsVoice ==
  ASSUME SamplesLoop, VInv, WriteRegister \/ SetTransfer \/ Upload \/ KeyOn \/ KeyOff
  PROVE  Typed' /\ RamAsUploaded' /\ InSample'
  <1> USE DEF VInv, Typed
  <1>1. CASE WriteRegister
    <2>1. {regStart', regRepeat'} \subseteq Starts /\ adsrHi' \in AdsrHi /\ adsrLo' \in AdsrLo
      BY <1>1 DEF WriteRegister, TypeOK
    <2>2. UNCHANGED <<memory, voice>>
      BY <1>1 DEF WriteRegister
    <2> QED
      BY <2>1, <2>2 DEF memory, voice, TypeOK, RamAsUploaded, InSample, LoopSeen
  <1>2. CASE SetTransfer
    <2>1. transfer' \in 0..RamBlocks
      BY <1>2, PitchAssumption DEF SetTransfer, Blocks
    <2>2. UNCHANGED <<ram, uploads, regs, voice>>
      BY <1>2 DEF SetTransfer
    <2> QED
      BY <2>1, <2>2 DEF regs, voice, TypeOK, RamAsUploaded, InSample, LoopSeen
  <1>3. CASE Upload
    <2>1. uploads' = uploads + 1 /\ UNCHANGED <<regs, voice>>
      BY <1>3 DEF Upload
    <2>2. PICK n \in 1..RamBlocks, flags \in Uploads :
            LET end == IF transfer + n > RamBlocks THEN RamBlocks ELSE transfer + n
            IN /\ ram' = [b \in Blocks |-> IF b \in transfer..(end - 1) THEN flags ELSE ram[b]]
               /\ transfer' = end
      BY <1>3 DEF Upload
    <2>3. flags \in Flags
      BY RamAssumption
    <2>4. ram' \in [Blocks -> Flags]
      BY <2>2, <2>3 DEF TypeOK
    <2>5. transfer' \in 0..RamBlocks
      BY <2>2, PitchAssumption DEF TypeOK
    <2>6. uploads' \in Nat /\ uploads' # 0
      BY <2>1 DEF RamAsUploaded
    <2> QED
      BY <2>1, <2>4, <2>5, <2>6 DEF regs, voice, TypeOK, RamAsUploaded, InSample
  <1>4. CASE KeyOn
    <2>1. /\ active' = TRUE /\ cur' = regStart /\ idx' = BlockLen /\ phase' = Attack /\ vol' = 0
          /\ loopStart' = None /\ note' = note + 1 /\ from' = regStart
          /\ UNCHANGED <<memory, regs, playing>>
      BY <1>4 DEF KeyOn
    <2>2. note' \in 0..MaxNotes
      BY <1>4, BoundsAssumption DEF KeyOn
    <2>3. regStart \in Starts /\ regStart \in 0..RamBlocks
      BY RamAssumption DEF TypeOK
    <2>4. TypeOK'
      BY <2>1, <2>3, PitchAssumption, BoundsAssumption DEF TypeOK, memory, regs, Attack, Off
    <2>5. Typed'
      BY <2>1, <2>2, <2>3, <2>4, PitchAssumption
    <2>6. RamAsUploaded'
      BY <2>1 DEF RamAsUploaded, memory
    <2>7. ASSUME regStart \in Blocks
          PROVE  regStart \in regStart..LastBlock(regStart)
      BY <2>3, <2>7, LastBlockFacts, PitchAssumption
    <2>8. LoopSeen'
      BY <2>1, <2>3 DEF LoopSeen
    <2>9. ~(idx' < BlockLen)
      BY <2>1, PitchAssumption
    <2>10. InSample'
      BY <2>1, <2>7, <2>8, <2>9 DEF InSample
    <2> QED
      BY <2>5, <2>6, <2>10
  <1>5. CASE KeyOff
    <2>1. phase' = Release /\ UNCHANGED <<memory, regs, active, cur, idx, vol, loopStart, playing, note, from>>
      BY <1>5 DEF KeyOff
    <2>2. ~(phase' < Release) /\ phase' \in Attack..Off
      BY <2>1 DEF Attack, Release, Off
    <2> QED
      BY <2>1, <2>2 DEF memory, regs, TypeOK, RamAsUploaded, InSample
  <1> QED
    BY <1>1, <1>2, <1>3, <1>4, <1>5

\* What every tick keeps.
LEMMA TickTypes ==
  ASSUME VInv, NEW adv \in 0..MaxAdv, TickWithin(adv) \/ TickPastRam(adv) \/ TickNext(adv)
  PROVE  /\ UNCHANGED <<memory, regs, note, from>>
         /\ idx' \in 0..BlockLen /\ vol' \in 0..MaxVol /\ phase' \in Attack..Off
         /\ RamAsUploaded' /\ (active' => active)
  <1>1. /\ TypeOK /\ Counters /\ idx \in 0..BlockLen /\ phase \in Attack..Off
    BY DEF VInv, Typed, TypeOK, IInv
  <1>2. UNCHANGED <<memory, regs, note, from>>
    BY DEF TickWithin, TickPastRam, TickNext
  <1>3. idx' \in 0..BlockLen
    BY <1>1, PitchAssumption DEF TickWithin, TickPastRam, TickNext
  <1>4. phase \in {Attack, Decay, Sustain, Release, Off} /\ Release \in {Attack, Decay, Sustain, Release, Off}
    BY <1>1 DEF Counters
  <1>5. \/ Envelope(phase)
        \/ Envelope(Release)
        \/ vol' = vol /\ phase' = phase
    BY DEF TickWithin, TickPastRam, TickNext
  <1>6. vol' \in 0..MaxVol
    BY <1>1, <1>5, EnvelopeTypes DEF TypeOK, Attack, Release, Off
  <1>7. phase' \in {Attack, Decay, Sustain, Release, Off}
    <2>1. CASE Envelope(phase)
      BY <1>1, <1>4, <2>1, EnvelopeForward
    <2>2. CASE Envelope(Release)
      BY <1>1, <1>4, <2>2, EnvelopeForward
    <2> QED
      BY <1>4, <1>5, <2>1, <2>2
  <1>8. RamAsUploaded'
    BY <1>2 DEF VInv, RamAsUploaded, memory
  <1>9. active' => active
    BY DEF TickWithin, TickPastRam, TickNext
  <1> QED
    BY <1>2, <1>3, <1>6, <1>7, <1>8, <1>9 DEF Attack, Decay, Sustain, Release, Off

\* A tick inside a block, or past the end of the RAM, decodes nothing.
LEMMA TickWithinKeeps ==
  ASSUME VInv, NEW adv \in 0..MaxAdv, TickWithin(adv)
  PROVE  Typed' /\ InSample'
  <1>1. /\ active /\ idx < BlockLen
        /\ UNCHANGED <<memory, regs, cur, loopStart, playing, note, from>> /\ Envelope(phase)
    BY PitchAssumption DEF TickWithin, VInv, Typed
  <1>2. /\ idx' \in 0..BlockLen /\ vol' \in 0..MaxVol /\ phase' \in Attack..Off
    BY TickTypes
  <1>3. phase' >= phase /\ active' \in BOOLEAN
    BY <1>1, EnvelopeForward DEF VInv, IInv, Counters
  <1>4. Typed'
    BY <1>1, <1>2, <1>3, PitchAssumption DEF VInv, Typed, TypeOK, memory, regs
  <1>5. phase' < Release => phase < Release
    BY <1>2, <1>3 DEF VInv, Typed, TypeOK, Attack, Release, Off
  <1>6. LoopSeen => LoopSeen'
    BY <1>1 DEF LoopSeen
  <1>7. InSample'
    <2>1. SUFFICES ASSUME uploads' = 0, active', phase' < Release
                   PROVE  IF from' \in Blocks
                          THEN /\ cur' \in from'..LastBlock(from')
                               /\ idx' < BlockLen => playing'.block \in from'..LastBlock(from')
                               /\ LoopSeen'
                          ELSE cur' = from' /\ idx' = BlockLen
      BY DEF InSample
    <2>2. uploads = 0 /\ active /\ phase < Release
      BY <1>1, <1>5, <2>1 DEF memory
    <2>3. idx # BlockLen
      BY <1>1, PitchAssumption DEF VInv, Typed
    <2>4. from \in Blocks /\ cur \in from..LastBlock(from) /\ playing.block \in from..LastBlock(from) /\ LoopSeen
      BY <1>1, <2>2, <2>3 DEF VInv, InSample
    <2> QED
      BY <1>1, <1>6, <2>4
  <1> QED
    BY <1>4, <1>7

LEMMA TickPastRamKeeps ==
  ASSUME VInv, NEW adv \in 0..MaxAdv, TickPastRam(adv)
  PROVE  Typed' /\ InSample'
  <1>1. /\ active' = FALSE
        /\ UNCHANGED <<memory, regs, cur, phase, vol, loopStart, playing, note, from>>
    BY DEF TickPastRam
  <1>2. idx' \in 0..BlockLen
    BY TickTypes
  <1>3. active' \in BOOLEAN
    BY <1>1
  <1>4. idx' \in 0..(BlockLen + MaxAdv)
    BY <1>2, PitchAssumption
  <1>5. TypeOK'
    BY <1>1, <1>3, <1>4 DEF VInv, Typed, TypeOK, memory, regs
  <1>6. Typed'
    BY <1>1, <1>2, <1>5 DEF VInv, Typed
  <1> QED
    BY <1>1, <1>6 DEF InSample

\* The next block: at the end of a loop the voice goes back to the loop's start,
\* which lies in the sample; at the end of a one-shot sample it is released.
LEMMA TickNextKeeps ==
  ASSUME SamplesLoop, VInv, NEW adv \in 0..MaxAdv, TickNext(adv)
  PROVE  Typed' /\ InSample'
  <1> DEFINE flags == ram[cur]
             seen == IF "start" \in flags THEN cur ELSE loopStart
             loops == {"end", "repeat"} \subseteq flags
             jumps == loops /\ LoopTo(seen) < RamBlocks
             last == LastBlock(from)
  <1>1. /\ active /\ cur < RamBlocks /\ idx + adv >= BlockLen
        /\ cur' = IF jumps THEN LoopTo(seen) + 1 ELSE IF loops THEN LoopTo(seen) ELSE cur + 1
        /\ playing' = [block |-> IF jumps THEN LoopTo(seen) ELSE cur, note |-> note]
        /\ loopStart' = IF jumps /\ "start" \in ram[LoopTo(seen)] THEN LoopTo(seen) ELSE seen
        /\ Envelope(IF "end" \in flags /\ ~loops THEN Release ELSE phase)
        /\ UNCHANGED <<memory, regs, note, from>>
    BY DEF TickNext
  <1>2. /\ idx' \in 0..BlockLen /\ vol' \in 0..MaxVol /\ phase' \in Attack..Off
    BY TickTypes
  <1>3. /\ Typed /\ TypeOK /\ Counters /\ RamAsUploaded /\ InSample /\ LoopSeen \in BOOLEAN
    BY DEF VInv, Typed, IInv, LoopSeen
  <1>4. cur \in Blocks /\ from \in Starts
    BY <1>1, <1>3, PitchAssumption DEF Typed, TypeOK, Blocks
  <1>5. seen \in Blocks \cup {None}
    BY <1>3, <1>4 DEF TypeOK
  <1>6. LoopTo(seen) \in 0..RamBlocks
    <2>1. regRepeat \in 0..RamBlocks
      BY <1>3, RamAssumption DEF TypeOK
    <2> HIDE DEF seen
    <2> QED
      BY <1>5, <2>1, PitchAssumption DEF LoopTo, Blocks
  <1>7. phase \in {Attack, Decay, Sustain, Release, Off} /\ Release \in {Attack, Decay, Sustain, Release, Off}
    BY <1>3 DEF Counters
  <1>8. active' \in BOOLEAN /\ (phase' < Release => phase < Release /\ ~("end" \in flags /\ ~loops))
    <2>1. CASE "end" \in flags /\ ~loops
      <3>1. active' \in BOOLEAN /\ phase' >= Release
        BY <1>1, <1>3, <1>7, <2>1, EnvelopeForward
      <3> QED
        BY <1>2, <3>1 DEF Attack, Release, Off
    <2>2. CASE ~("end" \in flags /\ ~loops)
      <3>1. active' \in BOOLEAN /\ phase' >= phase
        BY <1>1, <1>3, <1>7, <2>2, EnvelopeForward
      <3> QED
        BY <1>2, <1>7, <2>2, <3>1 DEF Attack, Decay, Sustain, Release, Off
    <2> QED
      BY <2>1, <2>2
  <1>9. cur' \in 0..RamBlocks
    BY <1>1, <1>4, <1>6, PitchAssumption DEF Blocks
  <1>10. /\ loopStart' \in Blocks \cup {None}
         /\ playing' \in [block : Blocks \cup {None}, note : 0..MaxNotes]
    <2>1. jumps => LoopTo(seen) \in Blocks
      BY <1>6, PitchAssumption DEF Blocks
    <2>2. note \in 0..MaxNotes
      BY <1>3 DEF Typed
    <2> HIDE DEF jumps, seen
    <2> QED
      BY <1>1, <1>4, <1>5, <2>1, <2>2
  <1>11. TypeOK'
    <2>1. idx' \in 0..(BlockLen + MaxAdv)
      BY <1>2, PitchAssumption
    <2>2. ram' = ram /\ transfer' = transfer /\ regStart' = regStart /\ regRepeat' = regRepeat /\ adsrHi' = adsrHi /\ adsrLo' = adsrLo
      BY <1>1 DEF memory, regs
    <2> QED
      BY <1>2, <1>3, <1>8, <1>9, <1>10, <2>1, <2>2 DEF TypeOK
  <1>12. Typed'
    BY <1>1, <1>2, <1>3, <1>4, <1>11 DEF Typed
  <1>13. InSample'
    <2>1. SUFFICES ASSUME uploads' = 0, active', phase' < Release
                   PROVE  IF from' \in Blocks
                          THEN /\ cur' \in from'..LastBlock(from')
                               /\ idx' < BlockLen => playing'.block \in from'..LastBlock(from')
                               /\ LoopSeen'
                          ELSE cur' = from' /\ idx' = BlockLen
      BY DEF InSample
    <2>2. uploads = 0 /\ phase < Release /\ ram = Uploaded /\ ~("end" \in flags /\ ~loops)
      BY <1>1, <1>3, <1>8, <2>1 DEF memory, RamAsUploaded
    <2>3. from \in Blocks
      BY <1>1, <1>3, <1>4, <2>2 DEF InSample
    <2>4. cur \in from..last /\ LoopSeen
      BY <1>1, <1>3, <2>2, <2>3 DEF InSample
    <2>5. /\ last \in from..(RamBlocks - 1) /\ "end" \in Uploaded[last]
          /\ \A c \in from..(last - 1) : "end" \notin Uploaded[c]
          /\ "repeat" \in Uploaded[last] =>
               /\ "start" \notin Uploaded[last]
               /\ \E c \in from..(last - 1) : "start" \in Uploaded[c]
      BY <1>4, <2>3, LastBlockFacts
    <2>6. from \in Nat /\ last \in Nat /\ cur \in Nat /\ last < RamBlocks
      BY <2>3, <2>4, <2>5, PitchAssumption DEF Blocks
    <2> HIDE DEF last
    \* Before the end nothing jumps: the next block is in the sample too.
    <2>7. CASE cur # last
      <3>1. cur \in from..(last - 1)
        BY <2>4, <2>6, <2>7
      <3>2. ~loops /\ ~jumps
        BY <2>2, <2>5, <3>1
      <3>3. cur' = cur + 1 /\ playing'.block = cur /\ loopStart' = seen
        BY <1>1, <3>2
      <3>4. CASE "start" \in flags
        <4>1. loopStart' = cur /\ cur # None
          BY <1>4, <3>3, <3>4, NoneAssumption
        <4>2. "start" \in Uploaded[cur]
          BY <2>2, <3>4
        <4>3. LoopSeen'
          BY <1>1, <2>4, <4>1, <4>2 DEF LoopSeen, last
        <4> QED
          BY <1>1, <2>3, <2>4, <2>6, <3>1, <3>3, <4>3 DEF last
      <3>5. CASE "start" \notin flags
        <4>1. loopStart' = loopStart /\ "start" \notin Uploaded[cur]
          BY <2>2, <3>3, <3>5
        <4>2. ASSUME loopStart = None
              PROVE  \A c \in from..(cur' - 1) : "start" \notin Uploaded[c]
          BY <2>4, <2>6, <3>3, <4>1, <4>2 DEF LoopSeen
        <4>3. LoopSeen'
          BY <1>1, <2>4, <4>1, <4>2 DEF LoopSeen
        <4> QED
          BY <1>1, <2>3, <2>4, <2>6, <3>1, <3>3, <4>3 DEF last
      <3> QED
        BY <3>4, <3>5
    \* At the end of a loop its start has been seen and is not the end.
    <2>8. CASE cur = last
      <3>1. loops /\ "start" \notin flags
        BY <2>2, <2>5, <2>8
      <3>2. seen = loopStart
        BY <3>1
      <3>3. PICK c \in from..(last - 1) : "start" \in Uploaded[c]
        BY <2>2, <2>5, <2>8, <3>1
      <3>4. loopStart # None /\ loopStart \in from..last /\ "start" \in Uploaded[loopStart]
        BY <2>4, <2>8, <3>3 DEF LoopSeen, last
      <3>5. loopStart # last
        BY <2>2, <2>8, <3>1, <3>4
      <3>6. LoopTo(seen) = loopStart
        BY <3>2, <3>4 DEF LoopTo
      <3> HIDE DEF seen, loops, flags
      <3>7. jumps
        BY <2>6, <3>1, <3>4, <3>6, PitchAssumption
      <3> HIDE DEF jumps
      <3>8. cur' = loopStart + 1 /\ playing'.block = loopStart /\ loopStart' \in {loopStart, seen}
        BY <1>1, <3>6, <3>7
      <3>9. loopStart' = loopStart
        BY <3>2, <3>8
      <3>10. LoopSeen'
        BY <1>1, <3>4, <3>9 DEF LoopSeen, last
      <3>11. cur' \in from..last
        BY <2>6, <3>4, <3>5, <3>8
      <3> QED
        BY <1>1, <2>3, <3>4, <3>8, <3>10, <3>11 DEF last
    <2> QED
      BY <2>7, <2>8
  <1> QED
    BY <1>12, <1>13

LEMMA VoiceStepHolds == SamplesLoop /\ VInv /\ [Next]_vars => VInv'
  <1> SUFFICES ASSUME SamplesLoop, VInv, [Next]_vars PROVE VInv'
    OBVIOUS
  <1>1. IInv'
    BY StepHolds, StutterHolds DEF VInv
  <1>2. CASE WriteRegister \/ SetTransfer \/ Upload \/ KeyOn \/ KeyOff
    BY <1>1, <1>2, GameKeepsVoice DEF VInv
  <1>3. ASSUME NEW adv \in 0..MaxAdv, TickWithin(adv) \/ TickPastRam(adv) \/ TickNext(adv)
        PROVE  VInv'
    <2>1. RamAsUploaded'
      BY <1>3, TickTypes
    <2>2. Typed' /\ InSample'
      BY <1>3, TickWithinKeeps, TickPastRamKeeps, TickNextKeeps
    <2> QED
      BY <1>1, <2>1, <2>2 DEF VInv
  <1>4. CASE UNCHANGED vars
    BY <1>1, <1>4 DEF vars, memory, regs, voice, VInv, Typed, TypeOK, RamAsUploaded, InSample, LoopSeen
  <1> QED
    BY <1>2, <1>3, <1>4 DEF Next, Tick

LEMMA VoiceIsOK == SamplesLoop /\ VInv => VoiceOK
  <1> SUFFICES ASSUME SamplesLoop, VInv PROVE VoiceOK
    OBVIOUS
  <1>1. SUFFICES ASSUME uploads = 0, active, idx < BlockLen, phase < Release
                 PROVE  playing.block \in from..LastBlock(from)
    BY DEF VInv, Typed, VoiceOK, StaysInSample
  <1>2. idx # BlockLen
    BY <1>1, PitchAssumption DEF VInv, Typed
  <1> QED
    BY <1>1, <1>2 DEF VInv, InSample

\* For any RAM whose samples end, and whose loops have their start before their
\* end, the voice's state keeps its type, and until an upload changes the RAM the
\* voice sounds only blocks of the sample it was keyed on for.
THEOREM AlwaysVoiceOK ==
  ASSUME SamplesLoop
  PROVE  Spec => []VoiceOK
  <1>1. VInv /\ [Next]_vars => VInv'
    BY VoiceStepHolds
  <1>2. VInv => VoiceOK
    BY VoiceIsOK
  <1> QED
    BY InitVoice, <1>1, <1>2, PTL DEF Spec
============================================================================
