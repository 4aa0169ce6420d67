---------------------------- MODULE AudioProofs ----------------------------
(***************************************************************************)
(* The two modules on the sample ring.                                     *)
(* AudioStream, for a ring and portions of any size: the callback gets the *)
(* decoder's samples in order, and the two threads implement SampleQueue.  *)
(* XaAudio, for a disc, seeks, rates, a ring and portions of any size: the *)
(* decoder plays one channel of one stream and gives up within the scan    *)
(* window.  Its invariant names where a scan stands (Scanned), what the    *)
(* lock was taken from (Locked) and whose samples are on their way (Held). *)
(***************************************************************************)
EXTENDS AudioStream, XaAudio, SequenceTheorems, FiniteSetTheorems, WellFoundedInduction, TLAPS

----------------------------------------------------------------------------
(* AudioStream: one stream through the ring. *)

\* What a thread has copied and not published yet.
Unpublished == IF wPc = "copy" THEN Avail(w, wAt) ELSE 0
Unreleased == IF rPc = "copy" THEN Avail(r, rAt) ELSE 0

\* The published region holds what was made and not released.
Counted == made - got = Avail(r, w)

\* A chunk fits into the slots the callback has released, whatever it releases
\* meanwhile, so ring_write takes all of it.
Fits == /\ produced > 0 => Avail(r, w) + produced <= Size - 1
        /\ wPc = "copy" => produced > 0 /\ wLeft + Unpublished = produced

\* The callback reads published slots only, although its write index is old.
Behind == /\ rPc = "load" => Avail(r, rEnd) <= Avail(r, w)
          /\ rPc = "copy" => Unreleased + rLeft <= Avail(r, w)

\* Every slot from the read index to the decoder's copy loop holds the sample
\* of its turn.
InOrder == \A j \in Slots : Avail(r, j) < Avail(r, w) + Unpublished
                              => buf[j] = got + Avail(r, j) + 1

BufOK == buf \in [Slots -> Nat \cup {NoSample}]

IInv == StreamTypeOK /\ BufOK /\ Counted /\ Fits /\ Behind /\ InOrder
----------------------------------------------------------------------------
\* The wrap of an index stays in the ring.
LEMMA AfterInRing == ASSUME NEW i \in Slots PROVE After(i) \in Slots
  BY SizeAssumption DEF After, Slots

\* A distance in the ring is less than its size.
LEMMA AvailRange == ASSUME NEW i \in Slots, NEW j \in Slots
                    PROVE /\ Avail(i, j) \in 0..(Size - 1)
                          /\ FreeSlots(i, j) = Size - 1 - Avail(i, j)
  BY SizeAssumption DEF Avail, FreeSlots, Slots

\* One slot further is one sample more, unless the lap is complete.
LEMMA AvailAfter == ASSUME NEW i \in Slots, NEW j \in Slots, Avail(i, j) < Size - 1
                    PROVE Avail(i, After(j)) = Avail(i, j) + 1
  BY SizeAssumption DEF Avail, After, Slots

\* Distances add up as long as they stay within a lap.
LEMMA AvailAdds == ASSUME NEW i \in Slots, NEW j \in Slots, NEW k \in Slots,
                          Avail(i, j) + Avail(j, k) < Size
                   PROVE Avail(i, k) = Avail(i, j) + Avail(j, k)
  BY SizeAssumption DEF Avail, Slots

\* ... and can be taken back.
LEMMA AvailSplits == ASSUME NEW i \in Slots, NEW j \in Slots, NEW k \in Slots,
                            Avail(i, j) <= Avail(i, k)
                     PROVE Avail(i, k) = Avail(i, j) + Avail(j, k)
  BY SizeAssumption DEF Avail, Slots

\* A distance names one slot.
LEMMA AvailOne == ASSUME NEW i \in Slots, NEW j \in Slots, NEW k \in Slots,
                         Avail(i, j) = Avail(i, k)
                  PROVE j = k
  BY SizeAssumption DEF Avail, Slots

\* The distance of a slot to itself is 0.
LEMMA AvailSelf == ASSUME NEW i \in Slots PROVE Avail(i, i) = 0
  BY SizeAssumption DEF Avail, Slots

\* Smaller is the minimum.
LEMMA SmallerIs == ASSUME NEW a \in Nat, NEW b \in Nat
                   PROVE /\ Smaller(a, b) \in Nat
                         /\ Smaller(a, b) <= a /\ Smaller(a, b) <= b
                         /\ a <= b => Smaller(a, b) = a
                         /\ a > 0 /\ b > 0 => Smaller(a, b) > 0
  BY DEF Smaller
----------------------------------------------------------------------------
\* The empty ring satisfies the invariant.
LEMMA InitHolds == StreamInit => IInv
  <1>1. SUFFICES ASSUME StreamInit PROVE IInv
    OBVIOUS
  <1>2. 0 \in Slots
    BY SizeAssumption DEF Slots
  <1>3. Avail(0, 0) = 0
    BY <1>2, AvailSelf
  <1>4. \A j \in Slots : Avail(0, j) \in 0..(Size - 1)
    BY <1>2, AvailRange
  <1>5. StreamTypeOK /\ BufOK
    BY <1>1, <1>2 DEF StreamInit, RingInit, StreamTypeOK, RingTypeOK, BufOK
  <1>6. Counted /\ Fits /\ Behind
    BY <1>1, <1>3 DEF StreamInit, RingInit, Counted, Fits, Behind, Unpublished, Unreleased
  <1>7. InOrder
    BY <1>1, <1>3, <1>4, SizeAssumption DEF StreamInit, RingInit, InOrder, Unpublished
  <1> QED
    BY <1>5, <1>6, <1>7 DEF IInv

\* get_free() leaves room for the chunk, ring_write finds at least as much.
LEMMA GenerateHolds == ASSUME IInv, Generate PROVE IInv'
  <1>1. PICK n \in Nat : n <= FreeSlots(r, w) /\ produced' = n
    <2>1. ASSUME ReadTrack PROVE \E n \in Nat : n <= FreeSlots(r, w) /\ produced' = n
      <3>1. /\ Chunk \in Nat /\ produced' = Chunk
            /\ FreeSlots(r, w) = Size - 1 - Avail(r, w) /\ Avail(r, w) \in 0..(Size - 1)
        BY <2>1, StreamAssumption, AvailRange DEF ReadTrack, IInv, StreamTypeOK, RingTypeOK
      <3>2. Chunk <= FreeSlots(r, w)
        BY <2>1, <3>1, SizeAssumption DEF ReadTrack
      <3> QED
        BY <3>1, <3>2
    <2>2. ASSUME ResampleXa PROVE \E n \in Nat : n <= FreeSlots(r, w) /\ produced' = n
      BY <2>2 DEF ResampleXa
    <2> QED
      BY <2>1, <2>2 DEF Generate
  <1>2. UNCHANGED <<w, r, buf, wPc, wAt, wLeft, rPc, rEnd, rAt, rLeft, source, made, got>>
    BY DEF Generate, ringVars, writeVars, readVars
  <1>3. /\ w \in Slots /\ r \in Slots
        /\ wPc = "idle"
    BY DEF IInv, StreamTypeOK, RingTypeOK, Generate
  <1>4. FreeSlots(r, w) = Size - 1 - Avail(r, w) /\ Avail(r, w) \in 0..(Size - 1)
    BY <1>3, AvailRange
  <1>5. n \in Nat
    BY <1>1
  <1>6. Avail(r, w) + n <= Size - 1
    BY <1>1, <1>4, <1>5, SizeAssumption
  <1>7. StreamTypeOK' /\ BufOK' /\ Counted'
    BY <1>1, <1>2, <1>5 DEF IInv, StreamTypeOK, RingTypeOK, BufOK, Counted, Avail
  <1>8. Fits'
    BY <1>1, <1>2, <1>3, <1>6 DEF Fits, Avail
  <1>9. Behind' /\ InOrder'
    BY <1>2 DEF IInv, Behind, InOrder, Unpublished, Unreleased, Avail
  <1> QED
    BY <1>7, <1>8, <1>9 DEF IInv

\* ring_write starts with room for the whole chunk: nothing is cut off.
LEMMA WriteChunkHolds == ASSUME IInv, StreamWrite PROVE IInv'
  <1>1. /\ produced > 0 /\ wPc = "idle" /\ wPc' = "copy" /\ wAt' = w
        /\ wLeft' = Smaller(produced, FreeSlots(r, w))
        /\ UNCHANGED <<w, r, buf, rPc, rEnd, rAt, rLeft, source, produced, made, got>>
    BY DEF StreamWrite, StartWrite, readVars
  <1>2. w \in Slots /\ r \in Slots /\ produced \in Nat
    BY DEF IInv, StreamTypeOK, RingTypeOK
  <1>3. FreeSlots(r, w) = Size - 1 - Avail(r, w) /\ Avail(r, w) \in 0..(Size - 1)
    BY <1>2, AvailRange
  <1>4. produced <= FreeSlots(r, w) /\ FreeSlots(r, w) \in Nat
    BY <1>1, <1>2, <1>3, SizeAssumption DEF IInv, Fits
  <1>5. wLeft' = produced
    BY <1>1, <1>2, <1>4, SmallerIs
  <1>6. Avail(w, w) = 0
    BY <1>2, AvailSelf
  <1>7. Unpublished' = 0 /\ Unpublished = 0
    BY <1>1, <1>6 DEF Unpublished, Avail
  <1>8. StreamTypeOK' /\ BufOK' /\ Counted'
    BY <1>1, <1>2, <1>5 DEF IInv, StreamTypeOK, RingTypeOK, BufOK, Counted, Avail
  <1>9. Fits'
    BY <1>1, <1>2, <1>5, <1>7 DEF IInv, Fits, Avail
  <1>10. Behind'
    BY <1>1 DEF IInv, Behind, Unreleased, Avail
  <1>11. InOrder'
    BY <1>1, <1>7 DEF IInv, InOrder, Avail
  <1> QED
    BY <1>8, <1>9, <1>10, <1>11 DEF IInv

\* The slot written is outside of what the callback may read.
LEMMA WriteSampleHolds == ASSUME IInv, StreamWriteSample PROVE IInv'
  <1> DEFINE s == made + Avail(w, wAt) + 1
  <1>1. /\ wPc = "copy" /\ wLeft > 0
        /\ buf' = [buf EXCEPT ![wAt] = s]
        /\ wAt' = After(wAt) /\ wLeft' = wLeft - 1
        /\ UNCHANGED <<w, r, wPc, rPc, rEnd, rAt, rLeft, source, produced, made, got>>
    BY DEF StreamWriteSample, CopyIn, readVars
  <1>2. /\ w \in Slots /\ r \in Slots /\ wAt \in Slots
        /\ wLeft \in Nat /\ produced \in Nat /\ made \in Nat /\ got \in Nat
    BY DEF IInv, StreamTypeOK, RingTypeOK
  <1>3. /\ Avail(r, w) \in 0..(Size - 1) /\ Avail(w, wAt) \in 0..(Size - 1)
        /\ After(wAt) \in Slots
    BY <1>2, AvailRange, AfterInRing
  <1>4. /\ Unpublished = Avail(w, wAt) /\ wLeft + Avail(w, wAt) = produced
        /\ Avail(r, w) + produced <= Size - 1
    BY <1>1, <1>2 DEF IInv, Fits, Unpublished
  <1>5. Avail(r, w) + Avail(w, wAt) < Size - 1 /\ Avail(w, wAt) < Size - 1
    BY <1>1, <1>2, <1>3, <1>4, SizeAssumption
  <1>6. Avail(r, wAt) = Avail(r, w) + Avail(w, wAt)
    BY <1>2, <1>3, <1>5, AvailAdds, SizeAssumption
  <1>7. Avail(w, After(wAt)) = Avail(w, wAt) + 1
    BY <1>2, <1>5, AvailAfter
  <1>8. Unpublished' = Unpublished + 1
    BY <1>1, <1>4, <1>7 DEF Unpublished, Avail
  <1>9. StreamTypeOK' /\ BufOK' /\ Counted'
    BY <1>1, <1>2, <1>3 DEF IInv, StreamTypeOK, RingTypeOK, BufOK, Counted, Avail
  <1>10. Fits'
    BY <1>1, <1>2, <1>3, <1>4, <1>8 DEF IInv, Fits, Avail
  <1>11. Behind'
    BY <1>1 DEF IInv, Behind, Unreleased, Avail
  <1>12. InOrder'
    <2>1. SUFFICES ASSUME NEW j \in Slots, Avail(r, j) < Avail(r, w) + Unpublished + 1
                   PROVE buf'[j] = got + Avail(r, j) + 1
      BY <1>1, <1>2, <1>3, <1>4, <1>8 DEF InOrder, Avail
    <2>2. Avail(r, j) \in 0..(Size - 1)
      BY <1>2, AvailRange
    <2>3. CASE j = wAt
      <3>1. buf'[j] = s
        BY <1>1, <1>2, <2>3 DEF IInv, BufOK
      <3>2. made - got = Avail(r, w)
        BY DEF IInv, Counted
      <3> QED
        BY <1>2, <1>3, <1>6, <2>3, <3>1, <3>2
    <2>4. CASE j # wAt
      <3>1. Avail(r, j) # Avail(r, wAt)
        BY <1>2, <2>4, AvailOne
      <3>2. Avail(r, j) < Avail(r, w) + Unpublished
        BY <1>3, <1>4, <1>6, <2>1, <2>2, <3>1, SizeAssumption
      <3> QED
        BY <1>1, <2>4, <3>2 DEF IInv, InOrder, BufOK
    <2> QED
      BY <2>3, <2>4
  <1> QED
    BY <1>9, <1>10, <1>11, <1>12 DEF IInv

\* The store of the write index adds the whole chunk.
LEMMA WriteDoneHolds == ASSUME IInv, StreamWriteDone PROVE IInv' /\ Avail(r, wAt) = Avail(r, w) + produced
  <1>1. /\ wPc = "copy" /\ wLeft = 0 /\ w' = wAt /\ wPc' = "idle"
        /\ made' = made + produced /\ produced' = 0
        /\ UNCHANGED <<r, buf, wAt, wLeft, rPc, rEnd, rAt, rLeft, source, got>>
    BY DEF StreamWriteDone, Publish, readVars
  <1>2. /\ w \in Slots /\ r \in Slots /\ wAt \in Slots /\ rEnd \in Slots /\ rLeft \in Nat
        /\ produced \in Nat /\ made \in Nat /\ got \in Nat /\ rAt \in Slots
    BY DEF IInv, StreamTypeOK, RingTypeOK
  <1>3. /\ Avail(r, w) \in 0..(Size - 1) /\ Avail(w, wAt) \in 0..(Size - 1)
        /\ Avail(r, rEnd) \in 0..(Size - 1) /\ Avail(r, rAt) \in 0..(Size - 1)
    BY <1>2, AvailRange
  <1>4. /\ Unpublished = produced /\ Avail(w, wAt) = produced
        /\ Avail(r, w) + produced <= Size - 1
    BY <1>1, <1>2, <1>3 DEF IInv, Fits, Unpublished
  <1>5. Avail(r, wAt) = Avail(r, w) + produced
    BY <1>2, <1>3, <1>4, AvailAdds, SizeAssumption
  <1>6. Avail(r, w)' = Avail(r, w) + produced /\ Unpublished' = 0
    BY <1>1, <1>5 DEF Avail, Unpublished
  <1>7. StreamTypeOK' /\ BufOK'
    BY <1>1, <1>2 DEF IInv, StreamTypeOK, RingTypeOK, BufOK
  <1>8. Counted'
    BY <1>1, <1>2, <1>3, <1>6 DEF IInv, Counted
  <1>9. Fits'
    BY <1>1 DEF Fits
  <1>10. Behind'
    <2>1. Avail(r, rEnd)' = Avail(r, rEnd) /\ Unreleased' = Unreleased
      BY <1>1 DEF Avail, Unreleased
    <2> QED
      BY <1>1, <1>2, <1>3, <1>6, <2>1 DEF IInv, Behind, Unreleased
  <1>11. InOrder'
    BY <1>1, <1>3, <1>4, <1>6 DEF IInv, InOrder, Avail
  <1> QED
    BY <1>5, <1>7, <1>8, <1>9, <1>10, <1>11 DEF IInv

\* The callback's copy of the write index starts out right.
LEMMA AskHolds == ASSUME IInv, Ask PROVE IInv'
  <1>1. PICK n \in 1..Callback : StartRead(n) /\ UNCHANGED <<source, produced, made, got>>
    BY DEF Ask
  <1>2. /\ rPc' = "load" /\ rEnd' = w /\ rLeft' = n
        /\ UNCHANGED <<w, r, buf, wPc, wAt, wLeft, rAt, source, produced, made, got>>
    BY <1>1 DEF StartRead, writeVars
  <1>3. n \in Nat
    BY StreamAssumption
  <1>4. w \in Slots /\ r \in Slots /\ Avail(r, w) \in 0..(Size - 1)
    BY AvailRange DEF IInv, StreamTypeOK, RingTypeOK
  <1>5. StreamTypeOK' /\ BufOK' /\ Counted' /\ Fits' /\ InOrder'
    BY <1>2, <1>3 DEF IInv, StreamTypeOK, RingTypeOK, BufOK, Counted, Fits, InOrder, Unpublished, Avail
  <1>6. Behind'
    <2>1. Avail(r, rEnd)' = Avail(r, w) /\ Avail(r, w)' = Avail(r, w)
      BY <1>2 DEF Avail
    <2> QED
      BY <1>2, <1>4, <2>1 DEF Behind
  <1> QED
    BY <1>5, <1>6 DEF IInv

\* ... and what it wants is cut to what that copy shows.
LEMMA LookHolds == ASSUME IInv, Look PROVE IInv'
  <1>1. /\ rPc = "load" /\ rPc' = "copy" /\ rAt' = r
        /\ rLeft' = Smaller(rLeft, Avail(r, rEnd))
        /\ UNCHANGED <<w, r, buf, wPc, wAt, wLeft, rEnd, source, produced, made, got>>
    BY DEF Look, LoadRead, writeVars
  <1>2. w \in Slots /\ r \in Slots /\ rEnd \in Slots /\ rLeft \in Nat
    BY DEF IInv, StreamTypeOK, RingTypeOK
  <1>3. Avail(r, rEnd) \in Nat /\ Avail(r, w) \in Nat /\ Avail(r, r) = 0
    BY <1>2, AvailRange, AvailSelf
  <1>4. rLeft' \in Nat /\ rLeft' <= Avail(r, rEnd)
    BY <1>1, <1>2, <1>3, SmallerIs
  <1>5. StreamTypeOK' /\ BufOK' /\ Counted' /\ Fits' /\ InOrder'
    BY <1>1, <1>2, <1>4 DEF IInv, StreamTypeOK, RingTypeOK, BufOK, Counted, Fits, InOrder, Unpublished, Avail
  <1>6. Behind'
    <2>1. Unreleased' = 0 /\ Avail(r, w)' = Avail(r, w)
      BY <1>1, <1>3 DEF Unreleased, Avail
    <2>2. Avail(r, rEnd) <= Avail(r, w)
      BY <1>1 DEF IInv, Behind
    <2> QED
      BY <1>1, <1>3, <1>4, <2>1, <2>2 DEF Behind
  <1> QED
    BY <1>5, <1>6 DEF IInv

\* The callback's local index moves within the published region.
LEMMA ReadSampleHolds == ASSUME IInv, ReadSample PROVE IInv'
  <1>1. /\ rPc = "copy" /\ rLeft > 0 /\ rAt' = After(rAt) /\ rLeft' = rLeft - 1
        /\ UNCHANGED <<w, r, buf, wPc, wAt, wLeft, rPc, rEnd, source, produced, made, got>>
    BY DEF ReadSample, CopyOut, writeVars
  <1>2. w \in Slots /\ r \in Slots /\ rAt \in Slots /\ rLeft \in Nat
    BY DEF IInv, StreamTypeOK, RingTypeOK
  <1>3. /\ Avail(r, rAt) \in 0..(Size - 1) /\ Avail(r, w) \in 0..(Size - 1)
        /\ After(rAt) \in Slots
    BY <1>2, AvailRange, AfterInRing
  <1>4. Avail(r, rAt) + rLeft <= Avail(r, w) /\ Unreleased = Avail(r, rAt)
    BY <1>1 DEF IInv, Behind, Unreleased
  <1>5. Avail(r, rAt) < Size - 1
    BY <1>1, <1>2, <1>3, <1>4, SizeAssumption
  <1>6. Avail(r, After(rAt)) = Avail(r, rAt) + 1
    BY <1>2, <1>5, AvailAfter
  <1>7. StreamTypeOK' /\ BufOK' /\ Counted' /\ Fits' /\ InOrder'
    BY <1>1, <1>2, <1>3 DEF IInv, StreamTypeOK, RingTypeOK, BufOK, Counted, Fits, InOrder, Unpublished, Avail
  <1>8. Behind'
    <2>1. Unreleased' = Avail(r, rAt) + 1 /\ Avail(r, w)' = Avail(r, w)
      BY <1>1, <1>6 DEF Unreleased, Avail
    <2> QED
      BY <1>1, <1>2, <1>3, <1>4, <2>1 DEF Behind
  <1> QED
    BY <1>7, <1>8 DEF IInv

\* The store of the read index moves every distance by what was read.
LEMMA ReadDoneHolds == ASSUME IInv, ReadDone
                       PROVE IInv' /\ Avail(r, rAt) <= Avail(r, w)
  <1> DEFINE k == Avail(r, rAt)
  <1>1. /\ rPc = "copy" /\ rLeft = 0 /\ r' = rAt /\ rPc' = "idle" /\ got' = got + k
        /\ UNCHANGED <<w, buf, wPc, wAt, wLeft, rEnd, rAt, rLeft, source, produced, made>>
    BY DEF ReadDone, PublishRead, writeVars
  <1>2. /\ w \in Slots /\ r \in Slots /\ rAt \in Slots /\ wAt \in Slots
        /\ got \in Nat /\ made \in Nat /\ produced \in Nat /\ wLeft \in Nat
    BY DEF IInv, StreamTypeOK, RingTypeOK
  <1>3. k \in 0..(Size - 1) /\ Avail(r, w) \in 0..(Size - 1) /\ Avail(w, wAt) \in 0..(Size - 1)
    BY <1>2, AvailRange
  <1>4. k <= Avail(r, w)
    BY <1>1, <1>3 DEF IInv, Behind, Unreleased
  <1>5. Avail(r, w) = k + Avail(rAt, w) /\ Avail(rAt, w) \in 0..(Size - 1)
    BY <1>2, <1>4, AvailSplits, AvailRange
  <1>6. Avail(r, w)' = Avail(r, w) - k
    <2>1. Avail(r, w)' = Avail(rAt, w)
      BY <1>1 DEF Avail
    <2> QED
      BY <1>3, <1>5, <2>1
  <1>7. Unpublished' = Unpublished /\ Unpublished \in 0..(Size - 1)
    BY <1>1, <1>3, SizeAssumption DEF Unpublished, Avail
  <1>8. StreamTypeOK' /\ BufOK'
    BY <1>1, <1>2, <1>3 DEF IInv, StreamTypeOK, RingTypeOK, BufOK
  <1>9. Counted'
    BY <1>1, <1>2, <1>3, <1>6 DEF IInv, Counted
  <1>10. Fits'
    BY <1>1, <1>2, <1>3, <1>6, <1>7, SizeAssumption DEF IInv, Fits
  <1>11. Behind'
    BY <1>1 DEF Behind
  <1>12. InOrder'
    <2>1. SUFFICES ASSUME NEW j \in Slots, Avail(rAt, j) < Avail(r, w) - k + Unpublished
                   PROVE buf[j] = got + k + Avail(rAt, j) + 1
      BY <1>1, <1>6, <1>7 DEF InOrder, Avail
    <2>2. Avail(rAt, j) \in 0..(Size - 1)
      BY <1>2, AvailRange
    <2>3. Avail(r, w) + Unpublished <= Size - 1
      BY <1>2, <1>3, SizeAssumption DEF IInv, Fits, Unpublished
    <2>4. k + Avail(rAt, j) < Size
      BY <1>3, <1>7, <2>1, <2>2, <2>3, SizeAssumption
    <2>5. Avail(r, j) = k + Avail(rAt, j)
      BY <1>2, <2>4, AvailAdds
    <2>6. Avail(r, j) < Avail(r, w) + Unpublished
      BY <1>3, <1>7, <2>1, <2>2, <2>5
    <2>7. buf[j] = got + Avail(r, j) + 1
      BY <2>6 DEF IInv, InOrder
    <2> QED
      BY <1>2, <1>3, <2>2, <2>5, <2>7
  <1> QED
    BY <1>4, <1>8, <1>9, <1>10, <1>11, <1>12 DEF IInv

\* A stuttering step keeps the invariant.
LEMMA StutterHolds == ASSUME IInv, UNCHANGED streamVars PROVE IInv'
  BY DEF IInv, StreamTypeOK, RingTypeOK, BufOK, Counted, Fits, Behind, InOrder, Unpublished, Unreleased,
         Avail, streamVars, ringVars, writeVars, readVars

\* The invariant is inductive.
LEMMA NextHolds == IInv /\ [StreamNext]_streamVars => IInv'
  BY GenerateHolds, WriteChunkHolds, WriteSampleHolds, WriteDoneHolds,
     AskHolds, LookHolds, ReadSampleHolds, ReadDoneHolds, StutterHolds
     DEF StreamNext, StreamDecoder, StreamListener

\* The invariant holds in every state of every behaviour.
LEMMA Invariance == StreamSpec => []IInv
  BY InitHolds, NextHolds, PTL DEF StreamSpec

\* Types hold: the indices stay in the ring, whatever its size.
THEOREM TypesAlwaysOK == StreamSpec => []StreamTypeOK
  <1>1. IInv => StreamTypeOK
    BY DEF IInv
  <1> QED
    BY <1>1, Invariance, PTL

\* For a ring of any size, chunks and callbacks of any length and a stream of
\* any length, the callback copies out the decoder's samples in order.
THEOREM AlwaysFifo == StreamSpec => []Fifo
  <1>1. IInv => Fifo
    <2>1. SUFFICES ASSUME IInv, rPc = "copy", rLeft > 0
                   PROVE buf[rAt] = got + Avail(r, rAt) + 1
      BY DEF Fifo
    <2>2. rAt \in Slots /\ r \in Slots /\ w \in Slots /\ wAt \in Slots /\ rLeft \in Nat
      BY <2>1 DEF IInv, StreamTypeOK, RingTypeOK
    <2>3. Avail(r, rAt) \in Nat /\ Avail(r, w) \in Nat /\ Avail(w, wAt) \in Nat
      BY <2>2, AvailRange
    <2>4. Avail(r, rAt) + rLeft <= Avail(r, w)
      BY <2>1 DEF IInv, Behind, Unreleased
    <2>5. Avail(r, rAt) < Avail(r, w) + Unpublished
      BY <2>1, <2>2, <2>3, <2>4 DEF Unpublished
    <2> QED
      BY <2>1, <2>2, <2>5 DEF IInv, InOrder
  <1> QED
    BY <1>1, Invariance, PTL
----------------------------------------------------------------------------
\* The slot k places after i is at distance k.
LEMMA AvailBeyond == ASSUME NEW i \in Slots, NEW k \in 0..(Size - 1)
                     PROVE Beyond(i, k) \in Slots /\ Avail(i, Beyond(i, k)) = k
  BY SizeAssumption DEF Beyond, Avail, Slots

\* n numbers after g.
Run(g, n) == [i \in 1..n |-> g + i]

\* A run is a sequence of its length.
LEMMA RunIsSeq == ASSUME NEW g \in Nat, NEW n \in Nat
                  PROVE Run(g, n) \in Seq(Nat) /\ Len(Run(g, n)) = n
  BY DEF Run

\* Two adjoining runs make one.
LEMMA RunConcat == ASSUME NEW g \in Nat, NEW k \in Nat, NEW n \in Nat
                   PROVE Run(g, k) \o Run(g + k, n) = Run(g, k + n)
  <1> DEFINE s == Run(g, k) \o Run(g + k, n)
             t == Run(g, k + n)
  <1>1. s \in Seq(Nat) /\ t \in Seq(Nat) /\ Len(s) = k + n /\ Len(t) = k + n
    <2>1. Run(g, k) \in Seq(Nat) /\ Len(Run(g, k)) = k
      BY RunIsSeq
    <2>2. Run(g + k, n) \in Seq(Nat) /\ Len(Run(g + k, n)) = n
      <3>1. g + k \in Nat
        OBVIOUS
      <3> QED
        BY <3>1, RunIsSeq, Zenon
    <2>3. t \in Seq(Nat) /\ Len(t) = k + n
      BY RunIsSeq
    <2>4. s \in Seq(Nat) /\ Len(s) = k + n
      BY <2>1, <2>2, ConcatProperties, Zenon
    <2> QED
      BY <2>3, <2>4
  <1>2. \A i \in 1..(k + n) : s[i] = t[i]
    BY RunIsSeq DEF Run
  <1> QED
    BY <1>1, <1>2, SeqEqual

\* A run without its first n numbers is a run.
LEMMA RunSubSeq == ASSUME NEW g \in Nat, NEW k \in Nat, NEW n \in 0..k
                   PROVE SubSeq(Run(g, k), n + 1, k) = Run(g + n, k - n)
  <1> DEFINE s == SubSeq(Run(g, k), n + 1, k)
             t == Run(g + n, k - n)
  <1>1. s \in Seq(Nat) /\ t \in Seq(Nat) /\ Len(s) = k - n /\ Len(t) = k - n
    <2>1. t \in Seq(Nat) /\ Len(t) = k - n
      <3>1. g + n \in Nat /\ k - n \in Nat
        OBVIOUS
      <3> QED
        BY <3>1, RunIsSeq, Zenon
    <2>2. \A i \in (n + 1)..k : Run(g, k)[i] \in Nat
      BY DEF Run
    <2>3. s \in Seq(Nat) /\ Len(s) = IF n + 1 <= k THEN k - (n + 1) + 1 ELSE 0
      BY <2>2, SubSeqProperties
    <2> QED
      BY <2>1, <2>3
  <1>2. \A i \in 1..(k - n) : s[i] = t[i]
    BY RunIsSeq DEF Run
  <1> QED
    BY <1>1, <1>2, SeqEqual

\* In a state of the invariant the queue of the mapping is the run of samples
\* made and not released.
LEMMA QueuedIs == ASSUME IInv PROVE Queued = Run(got, Avail(r, w))
  <1>1. r \in Slots /\ w \in Slots /\ wAt \in Slots /\ got \in Nat
    BY DEF IInv, StreamTypeOK, RingTypeOK
  <1>2. Avail(r, w) \in 0..(Size - 1) /\ Avail(w, wAt) \in Nat
    BY <1>1, AvailRange
  <1>3. ASSUME NEW i \in 1..Avail(r, w) PROVE buf[Beyond(r, i - 1)] = got + i
    <2>1. Beyond(r, i - 1) \in Slots /\ Avail(r, Beyond(r, i - 1)) = i - 1
      BY <1>1, <1>2, AvailBeyond, SizeAssumption
    <2>2. i - 1 < Avail(r, w) + Unpublished
      BY <1>2 DEF Unpublished
    <2>3. buf[Beyond(r, i - 1)] = got + (i - 1) + 1
      BY <2>1, <2>2 DEF IInv, InOrder
    <2> QED
      BY <1>1, <1>2, <2>3
  <1> QED
    BY <1>3 DEF Queued, Run

\* The same of the next state.
LEMMA QueuedIsNext == ASSUME IInv' PROVE Queued' = Run(got', Avail(r', w'))
  <1>1. r' \in Slots /\ w' \in Slots /\ wAt' \in Slots /\ got' \in Nat
    BY DEF IInv, StreamTypeOK, RingTypeOK
  <1>2. Avail(r', w') \in 0..(Size - 1) /\ Avail(w', wAt') \in Nat
    BY <1>1, AvailRange
  <1>3. ASSUME NEW i \in 1..Avail(r', w') PROVE buf'[Beyond(r', i - 1)] = got' + i
    <2>1. Beyond(r', i - 1) \in Slots /\ Avail(r', Beyond(r', i - 1)) = i - 1
      <3>1. i - 1 \in 0..(Size - 1)
        BY <1>2, SizeAssumption
      <3> QED
        BY <1>1, <3>1, AvailBeyond
    <2>2. Unpublished' \in Nat
      BY <1>2 DEF Unpublished, Avail
    <2>3. Avail(r', Beyond(r', i - 1)) < (Avail(r, w) + Unpublished)'
      BY <1>2, <2>1, <2>2 DEF Avail
    <2>4. buf'[Beyond(r', i - 1)] = got' + Avail(r', Beyond(r', i - 1)) + 1
      BY <2>1, <2>3 DEF IInv, InOrder, Avail
    <2> QED
      BY <1>1, <1>2, <2>1, <2>4
  <1> QED
    BY <1>3 DEF Queued, Run, Avail

\* A ring_write appears to the queue at its store of the write index.
LEMMA WriteDonePuts == ASSUME IInv, StreamWriteDone PROVE Queue!Put
  <1> DEFINE k == Avail(r, w)
  <1>1. produced' = 0 /\ made' = made + produced /\ got' = got /\ r' = r /\ w' = wAt
    BY DEF StreamWriteDone, Publish
  <1>2. IInv' /\ Avail(r, wAt) = k + produced
    BY WriteDoneHolds
  <1>3. /\ r \in Slots /\ w \in Slots /\ produced \in Nat /\ got \in Nat /\ made \in Nat
    BY DEF IInv, StreamTypeOK, RingTypeOK
  <1>4. k \in 0..(Size - 1) /\ made = got + k
    BY <1>3, AvailRange DEF IInv, Counted
  <1>5. Queued = Run(got, k) /\ Len(Queued) = k
    BY <1>3, <1>4, QueuedIs, RunIsSeq
  <1>6. Queued' = Run(got, k + produced)
    BY <1>1, <1>2, QueuedIsNext
  <1>7. Queued' = Queued \o [i \in 1..produced |-> made + i]
    <2>1. Run(got, k) \o Run(got + k, produced) = Run(got, k + produced)
      <3>1. got \in Nat /\ k \in Nat /\ produced \in Nat
        BY <1>3, <1>4, SizeAssumption
      <3> QED
        BY <3>1, RunConcat, Zenon
    <2>2. Run(got + k, produced) = [i \in 1..produced |-> made + i]
      BY <1>4 DEF Run
    <2> QED
      BY <1>5, <1>6, <2>1, <2>2
  <1>8. produced \in 0..(Size - 1 - Len(Queued))
    <2>1. wPc = "copy"
      BY DEF StreamWriteDone, Publish
    <2>2. k + produced <= Size - 1
      BY <1>3, <1>4, <2>1 DEF IInv, Fits
    <2> QED
      BY <1>3, <1>4, <1>5, <2>2, SizeAssumption
  <1> QED
    BY <1>1, <1>7, <1>8 DEF Queue!Put

\* A read_pcm takes its samples at its store of the read index.
LEMMA ReadDoneTakes == ASSUME IInv, ReadDone PROVE Queue!Take
  <1> DEFINE k == Avail(r, w)
             n == Avail(r, rAt)
  <1>1. r' = rAt /\ w' = w /\ got' = got + n /\ made' = made
    BY DEF ReadDone, PublishRead, writeVars
  <1>2. IInv' /\ n <= k
    BY ReadDoneHolds
  <1>3. r \in Slots /\ w \in Slots /\ rAt \in Slots /\ got \in Nat
    BY DEF IInv, StreamTypeOK, RingTypeOK
  <1>4. k \in 0..(Size - 1) /\ n \in 0..(Size - 1)
    BY <1>3, AvailRange
  <1>5. k = n + Avail(rAt, w) /\ Avail(rAt, w) \in Nat
    BY <1>2, <1>3, AvailSplits, AvailRange
  <1>6. n \in 0..k /\ Avail(rAt, w) = k - n
    BY <1>2, <1>4, <1>5
  <1>7. Queued = Run(got, k) /\ Len(Queued) = k
    BY <1>3, <1>4, QueuedIs, RunIsSeq
  <1>8. Queued' = Run(got + n, k - n)
    BY <1>1, <1>2, <1>6, QueuedIsNext
  <1>9. Queued' = SubSeq(Queued, n + 1, Len(Queued))
    <2>1. SubSeq(Run(got, k), n + 1, k) = Run(got + n, k - n)
      <3>1. got \in Nat /\ k \in Nat
        BY <1>3, <1>4, SizeAssumption
      <3> QED
        BY <3>1, <1>6, RunSubSeq, Zenon
    <2> QED
      BY <1>7, <1>8, <2>1
  <1>10. \A i \in 1..n : Queued[i] = got + i
    BY <1>4, <1>6, <1>7 DEF Run
  <1> QED
    BY <1>1, <1>6, <1>7, <1>9, <1>10 DEF Queue!Take

\* Every other step leaves the queue as it is.
LEMMA OthersStutter == ASSUME IInv, IInv', [StreamNext]_streamVars, ~StreamWriteDone, ~ReadDone
                       PROVE UNCHANGED Queue!vars
  <1>1. UNCHANGED <<r, w, made, got>>
    BY DEF StreamNext, StreamDecoder, StreamListener, Generate, StreamWrite, StreamWriteSample, Ask, Look, ReadSample,
           StartWrite, CopyIn, StartRead, LoadRead, CopyOut, streamVars, ringVars, writeVars, readVars
  <1>2. Queued' = Queued
    BY <1>1, QueuedIs, QueuedIsNext
  <1> QED
    BY <1>1, <1>2 DEF Queue!vars

\* For a ring, chunks and callbacks of any size the decoder and the callback
\* implement a bounded queue that hands every sample over once, in order.
THEOREM AlwaysImplementsQueue == StreamSpec => ImplementsQueue
  <1>1. StreamInit => Queue!Init
    <2>1. SUFFICES ASSUME StreamInit PROVE Queue!Init
      OBVIOUS
    <2>2. 0 \in Slots
      BY SizeAssumption DEF Slots
    <2>3. Avail(r, w) = 0
      BY <2>1, <2>2, AvailSelf DEF StreamInit, RingInit
    <2>4. Queued = <<>>
      BY <2>3 DEF Queued
    <2> QED
      BY <2>1, <2>4 DEF StreamInit, Queue!Init
  <1>2. IInv /\ IInv' /\ [StreamNext]_streamVars => [Queue!Next]_(Queue!vars)
    BY WriteDonePuts, ReadDoneTakes, OthersStutter DEF Queue!Next
  <1> QED
    BY <1>1, <1>2, Invariance, PTL DEF StreamSpec, ImplementsQueue, Queue!Spec
----------------------------------------------------------------------------
(* XaAudio: the seeks, the channel and the scan window. *)

\* The audio sectors of the disc from the start of the stream on.
Audible == {a \in Sectors : a >= start /\ Disc[a] # 0}

\* ring_write is entered with a chunk, a restart with a request.
Streams == /\ serial \in Nat /\ start \in Seeks
           /\ wPc = "copy" => dPc = "write"
           /\ dPc = "restart" => req \in Seeks

\* The position is one past the data sectors counted since the last audio
\* sector, or since the seek.
Scanned == lba # None =>
  /\ noAudio <= Window /\ lba >= start
  /\ \/ lba = start + noAudio
     \/ lba - noAudio - 1 \in Sectors /\ Disc[lba - noAudio - 1] # 0

\* The lock is open while no audio sector was passed, then it is the channel
\* of the first one.
Locked == lba # None =>
  /\ lock = 0 => \A a \in Audible : a >= lba
  /\ lock # 0 => Audible # {} /\ lock = Disc[Min(Audible)]

\* While samples of a sector are to be resampled, written or copied, it is a
\* sector of this stream and of the locked channel.
Held == rem > 0 \/ chunk > 0 \/ wPc = "copy" =>
  /\ sect \in [serial : Nat, at : Sectors]
  /\ sect.serial = serial /\ sect.at >= start
  /\ Disc[sect.at] = Disc[Min(Audible)]

StreamInv == TypeOK /\ Streams /\ Scanned /\ Locked /\ Held
----------------------------------------------------------------------------
(* Numbers: least elements, and what the resampler's division does. *)

\* A set of natural numbers that is not empty has a least element.
LEMMA MinIs ==
  ASSUME NEW S \in SUBSET Nat, S # {}
  PROVE  Min(S) \in S /\ \A y \in S : Min(S) <= y
<1>. DEFINE T == {0..x : x \in S}
<1>1. T \subseteq FiniteSubsetsOf(Nat) /\ T # {}
  <2>1. \A x \in S : 0..x \in SUBSET Nat /\ IsFiniteSet(0..x)
    BY FS_Interval
  <2>. QED  BY <2>1 DEF FiniteSubsetsOf
<1>2. PICK t \in T : \A u \in T : <<u, t>> \notin StrictSubsetOrdering(Nat)
  <2>. HIDE DEF T
  <2>. QED  BY <1>1, FS_StrictSubsetOrderingWellFounded, WFMin
<1>3. PICK x \in S : t = 0..x
  OBVIOUS
<1>4. \A y \in S : x <= y
  <2>. SUFFICES ASSUME NEW y \in S, y < x PROVE FALSE
    OBVIOUS
  <2>1. 0..y \in T /\ 0..y \subseteq 0..x /\ 0..y # 0..x
    <3>1. x \in 0..x /\ x \notin 0..y
      OBVIOUS
    <3>. QED  BY <3>1
  <2>2. <<0..y, 0..x>> \in StrictSubsetOrdering(Nat)
    BY <2>1 DEF StrictSubsetOrdering
  <2>. QED  BY <1>2, <1>3, <2>1, <2>2
<1>. QED  BY <1>4 DEF Min

\* A quotient and its remainder.
LEMMA DivIs ==
  ASSUME NEW a \in Nat, NEW n \in Nat, n > 0
  PROVE  /\ a \div n \in Nat /\ a % n \in 0..(n - 1)
         /\ n * (a \div n) <= a /\ a < n * (a \div n) + n
  OBVIOUS

\* Multiples of n are n apart.
LEMMA MultiplesApart ==
  ASSUME NEW n \in Nat, n > 0, NEW p \in Int, NEW q \in Int, p < q
  PROVE  n * p + n <= n * q
  OBVIOUS

\* One multiple more.
LEMMA NextMultiple ==
  ASSUME NEW p \in Nat, NEW k \in Nat
  PROVE  (p + 1) * k = p * k + k /\ p * k \in Nat
  OBVIOUS

\* Less than n more adds at most one to the quotient.
LEMMA DivStep ==
  ASSUME NEW a \in Nat, NEW d \in Nat, NEW n \in Nat, n > 0, d < n
  PROVE  (a + d) \div n <= a \div n + 1
<1>. DEFINE q == a \div n
            s == (a + d) \div n
<1>1. q \in Nat /\ n * q <= a /\ a < n * q + n
  BY DivIs
<1>2. s \in Nat /\ n * s <= a + d /\ a + d < n * s + n
  BY DivIs
<1>. HIDE DEF q, s
<1>3. ASSUME q + 1 < s PROVE FALSE
  <2>. DEFINE x == n * q
              y == n * s
  <2>1. n * (q + 1) + n <= n * s
    BY <1>1, <1>2, <1>3, MultiplesApart
  <2>2. n * (q + 1) = n * q + n
    BY <1>1
  <2>3. n * (q + 1) \in Int /\ x \in Int /\ y \in Int
    BY <1>1, <1>2
  <2>. HIDE DEF x, y
  <2>. QED  BY <1>1, <1>2, <2>1, <2>2, <2>3 DEF x, y
<1>. QED  BY <1>1, <1>2, <1>3 DEF q, s

\* What is less than n is no multiple of it.
LEMMA DivZero ==
  ASSUME NEW a \in Nat, NEW n \in Nat, a < n
  PROVE  a \div n = 0
<1>1. n > 0
  OBVIOUS
<1>. DEFINE q == a \div n
<1>2. q \in Nat /\ n * q <= a
  BY <1>1, DivIs
<1>. HIDE DEF q
<1>3. ASSUME 0 < q PROVE FALSE
  <2>. DEFINE y == n * q
  <2>1. n * 0 + n <= n * q
    BY <1>1, <1>2, <1>3, MultiplesApart
  <2>2. y \in Int /\ y <= a
    BY <1>2
  <2>3. n <= y
    BY <2>1
  <2>. HIDE DEF y
  <2>. QED  BY <2>2, <2>3
<1>. QED  BY <1>2, <1>3 DEF q
----------------------------------------------------------------------------
(* The resampler: a chunk never takes more of the sector than is left. *)

\* A pair of output uses up at most one pair of the sector.
LEMMA UsedIs ==
  ASSUME TypeOK
  PROVE  /\ \A p \in Nat : /\ Used(p) \in Nat /\ Used(p + 1) <= Used(p) + 1
                           /\ (phase + p * InRate) % OutRate \in 0..(OutRate - 1)
         /\ Used(0) = 0
<1>1. /\ phase \in Nat /\ phase < OutRate
      /\ InRate \in Nat /\ OutRate \in Nat /\ InRate < OutRate /\ OutRate > 0
  BY RateAssumption DEF TypeOK
<1>2. ASSUME NEW p \in Nat
      PROVE  /\ Used(p) \in Nat /\ Used(p + 1) <= Used(p) + 1
             /\ (phase + p * InRate) % OutRate \in 0..(OutRate - 1)
  <2>1. p * InRate \in Nat /\ (p + 1) * InRate = p * InRate + InRate
    BY <1>1, NextMultiple
  <2>. DEFINE x == p * InRate
  <2>. HIDE DEF x
  <2>2. x \in Nat /\ phase + x \in Nat /\ phase + (x + InRate) = (phase + x) + InRate
    BY <1>1, <2>1 DEF x
  <2>3. (phase + x) \div OutRate \in Nat /\ (phase + x) % OutRate \in 0..(OutRate - 1)
    BY <1>1, <2>2, DivIs
  <2>4. ((phase + x) + InRate) \div OutRate <= (phase + x) \div OutRate + 1
    BY <1>1, <2>2, DivStep
  <2>. QED  BY <2>1, <2>2, <2>3, <2>4 DEF Used, x
<1>3. Used(0) = 0
  <2>1. phase + 0 * InRate = phase
    BY <1>1
  <2>. QED  BY <1>1, <2>1, DivZero DEF Used
<1>. QED  BY <1>2, <1>3

\* The free slots of a ring.
LEMMA FreeSlotsIs == ASSUME NEW i \in Slots, NEW j \in Slots PROVE FreeSlots(i, j) \in Nat
  BY SizeAssumption DEF FreeSlots, Slots

\* The loop of audio_thread stops at the room, at the chunk size, or with the
\* pair that takes the last one of the sector.
LEMMA ProducedIs ==
  ASSUME TypeOK, rem > 0, FreeSlots(r, w) > 0
  PROVE  /\ Produced \in 1..Chunk /\ Used(Produced) \in 0..rem
         /\ (phase + Produced * InRate) % OutRate \in 0..(OutRate - 1)
<1>. DEFINE room == Smaller(Chunk, FreeSlots(r, w))
            P == {p \in 1..room : p = room \/ Used(p) >= rem}
<1>1. room \in Nat /\ room >= 1 /\ room <= Chunk /\ Chunk \in Nat
  <2>1. FreeSlots(r, w) \in Nat /\ Chunk \in Nat /\ Chunk > 0
    BY FreeSlotsIs, PortionsAssumption DEF TypeOK, RingTypeOK
  <2>. DEFINE free == FreeSlots(r, w)
  <2>. HIDE DEF free
  <2>2. free \in Nat /\ free > 0
    BY <2>1 DEF free
  <2>3. Smaller(Chunk, free) \in Nat /\ Smaller(Chunk, free) <= Chunk /\ Smaller(Chunk, free) > 0
    BY <2>1, <2>2, SmallerIs
  <2>. QED  BY <2>1, <2>3 DEF free
<1>2. rem \in Nat
  BY RateAssumption DEF TypeOK
<1>. HIDE DEF room
<1>3. room \in P /\ P \subseteq 1..room /\ P \in SUBSET Nat
  BY <1>1
<1>4. Min(P) \in P /\ \A y \in P : Min(P) <= y
  BY <1>3, MinIs
<1>5. PICK m \in 1..room : m = Min(P)
  BY <1>3, <1>4
<1>6. Produced = m
  BY <1>5 DEF Produced, room
<1>7. m - 1 \in Nat /\ m = (m - 1) + 1 /\ m \in Nat
  BY <1>1
<1>8. Used(m - 1) < rem
  <2>1. CASE m = 1
    BY <1>2, <2>1, UsedIs
  <2>2. CASE m # 1
    <3>1. m - 1 \in 1..room /\ m - 1 # room /\ ~(m <= m - 1)
      BY <1>1, <2>2
    <3>2. m - 1 \notin P
      BY <1>4, <1>5, <3>1
    <3>3. ~(Used(m - 1) >= rem)
      BY <3>1, <3>2
    <3>. QED  BY <1>2, <1>7, <3>3, UsedIs
  <2>. QED  BY <2>1, <2>2
<1>9. Used(m) <= Used(m - 1) + 1 /\ Used(m) \in Nat /\ Used(m - 1) \in Nat
  BY <1>7, UsedIs
<1>10. Used(m) \in 0..rem
  BY <1>2, <1>8, <1>9
<1>. QED  BY <1>1, <1>6, <1>7, <1>10, UsedIs
----------------------------------------------------------------------------
(* The sectors, and what a step of the ring leaves alone. *)

\* Sectors are numbers, and what they hold are numbers.
LEMMA SectorsAre == Sectors \subseteq Nat /\ \A a \in Sectors : Disc[a] \in Nat
  BY DiscAssumption DEF Sectors

\* The first audible sector is one.
LEMMA FirstAudible ==
  ASSUME Audible # {}
  PROVE  Min(Audible) \in Audible /\ \A a \in Audible : Min(Audible) <= a
<1>1. Audible \in SUBSET Nat
  BY SectorsAre DEF Audible
<1>. QED  BY <1>1, MinIs

\* The callback moves the read index and its own locals only.
LEMMA ListenerStep ==
  ASSUME Listener
  PROVE  UNCHANGED <<w, buf, wPc, wAt, wLeft, game, dPc, req, stream>>
  BY DEF Listener, StartRead, LoadRead, CopyOut, PublishRead, writeVars

\* Every step keeps the types of the ring.
LEMMA RingStep ==
  ASSUME TypeOK, Next
  PROVE  RingTypeOK'
<1>1. /\ {w, r, wAt, rEnd, rAt} \subseteq Slots /\ wLeft \in Nat /\ rLeft \in Nat
      /\ wPc \in {"idle", "copy"} /\ rPc \in {"idle", "load", "copy"}
      /\ chunk \in Nat
  BY PortionsAssumption DEF TypeOK, RingTypeOK
<1>2. 0 \in Slots /\ \A i \in Slots : After(i) \in Slots
  BY SizeAssumption DEF Slots, After
<1>3. \A i, j \in Slots : FreeSlots(i, j) \in Nat /\ Avail(i, j) \in Nat
  BY SizeAssumption DEF Slots, FreeSlots, Avail
<1>4. CASE UNCHANGED ringVars
  BY <1>1, <1>4 DEF ringVars, writeVars, readVars, RingTypeOK
<1>5. CASE PickUp \/ Restart
  BY <1>1, <1>2, <1>5 DEF PickUp, Restart, ResetWrite, ResetRead, writeVars, readVars, RingTypeOK
<1>6. CASE WriteChunk
  <2>1. Smaller(chunk, FreeSlots(r, w)) \in Nat
    BY <1>1, <1>3, SmallerIs
  <2>. QED  BY <1>1, <1>6, <2>1 DEF WriteChunk, StartWrite, readVars, RingTypeOK
<1>7. CASE WriteSample
  BY <1>1, <1>2, <1>7 DEF WriteSample, CopyIn, readVars, RingTypeOK
<1>8. CASE WriteDone
  BY <1>1, <1>8 DEF WriteDone, Publish, readVars, RingTypeOK
<1>9. ASSUME NEW n \in 1..Callback, StartRead(n) PROVE RingTypeOK'
  BY <1>1, <1>9, PortionsAssumption DEF StartRead, writeVars, RingTypeOK
<1>10. CASE LoadRead
  <2>1. Smaller(rLeft, Avail(r, rEnd)) \in Nat
    BY <1>1, <1>3, SmallerIs
  <2>. QED  BY <1>1, <1>10, <2>1 DEF LoadRead, writeVars, RingTypeOK
<1>11. CASE CopyOut
  BY <1>1, <1>2, <1>11 DEF CopyOut, writeVars, RingTypeOK
<1>12. CASE PublishRead
  BY <1>1, <1>12 DEF PublishRead, writeVars, RingTypeOK
<1>13. CASE (\E s \in Seeks : Seek(s)) \/ Shutdown
  BY <1>4, <1>13 DEF Seek, Shutdown
<1>14. CASE Idle \/ Produce \/ EndOfDisc \/ AudioSector \/ DataSector \/ EndThread
  BY <1>4, <1>14 DEF Idle, Produce, EndOfDisc, AudioSector, DataSector, EndThread
<1>. QED
  BY <1>5, <1>6, <1>7, <1>8, <1>9, <1>10, <1>11, <1>12, <1>13, <1>14 DEF Next, Decoder, Listener

\* Every step keeps the types of the threads.
LEMMA TypeStep ==
  ASSUME StreamInv, Next
  PROVE  TypeOK'
<1>1. RingTypeOK'
  BY RingStep DEF StreamInv
<1>2. TypeOK /\ Streams /\ Scanned
  BY DEF StreamInv
<1>3. CASE UNCHANGED <<game, dPc, req, stream>>
  BY <1>1, <1>2, <1>3 DEF TypeOK, game, stream
<1>4. ASSUME NEW s \in Seeks, Seek(s) PROVE TypeOK'
  BY <1>1, <1>2, <1>4 DEF Seek, Posted, stream, TypeOK
<1>5. CASE Shutdown
  BY <1>1, <1>2, <1>5 DEF Shutdown, stream, TypeOK
<1>6. CASE PickUp
  BY <1>1, <1>2, <1>6 DEF PickUp, stream, TypeOK
<1>7. CASE Restart
  <2>1. req \in Nat /\ lba' \in Nat \cup {None}
    BY <1>2, <1>7, DiscAssumption DEF Restart, Streams
  <2>2. 0 \in 0..Sector /\ 0 \in 0..(OutRate - 1) /\ 0 \in 0..(Window + 1) /\ 0 \in 0..Chunk
    BY RateAssumption, PortionsAssumption
  <2>3. rem' \in 0..Sector /\ phase' \in 0..(OutRate - 1) /\ noAudio' \in 0..(Window + 1)
        /\ chunk' \in 0..Chunk /\ lock' \in Nat
    BY <1>7, <2>2 DEF Restart
  <2>. QED  BY <1>1, <1>2, <1>7, <2>1, <2>3 DEF Restart, game, TypeOK
<1>8. CASE Idle \/ EndThread
  BY <1>1, <1>2, <1>8 DEF Idle, EndThread, game, stream, TypeOK
<1>9. CASE Produce
  <2>1. Produced \in 0..Chunk
    BY <1>2, <1>9, ProducedIs, PortionsAssumption DEF Produce
  <2>2. rem - Used(Produced) \in 0..Sector
    BY <1>2, <1>9, ProducedIs, RateAssumption DEF Produce, TypeOK
  <2>3. (phase + Produced * InRate) % OutRate \in 0..(OutRate - 1)
    BY <1>2, <1>9, ProducedIs DEF Produce
  <2>. QED  BY <1>1, <1>2, <1>9, <2>1, <2>2, <2>3 DEF Produce, game, TypeOK
<1>10. CASE EndOfDisc
  BY <1>1, <1>2, <1>10 DEF EndOfDisc, game, TypeOK
<1>11. CASE AudioSector
  <2>1. lba \in Nat /\ lba \in Sectors /\ serial \in Nat /\ Disc[lba] \in Nat /\ Sector \in 0..Sector
    BY <1>2, <1>11, SectorsAre, RateAssumption DEF AudioSector, Sectors, TypeOK, Streams
  <2>2. [serial |-> serial, at |-> lba] \in [serial : Nat, at : Sectors]
    BY <2>1
  <2>3. rem' \in 0..Sector /\ sect' \in [serial : Nat, at : Sectors] \cup {None}
    BY <1>2, <1>11, <2>1, <2>2 DEF AudioSector, TypeOK
  <2>4. lock' \in Nat /\ noAudio' \in 0..(Window + 1) /\ lba' \in Nat
    BY <1>2, <1>11, <2>1, RateAssumption DEF AudioSector, TypeOK
  <2>. QED  BY <1>1, <1>2, <1>11, <2>3, <2>4 DEF AudioSector, game, TypeOK
<1>12. CASE DataSector
  <2>1. lba \in Nat /\ noAudio + 1 \in 0..(Window + 1)
    BY <1>2, <1>12, RateAssumption DEF DataSector, TypeOK, Scanned
  <2>. QED  BY <1>1, <1>2, <1>12, <2>1 DEF DataSector, game, TypeOK
<1>13. CASE WriteChunk
  BY <1>1, <1>2, <1>13, PortionsAssumption DEF WriteChunk, game, TypeOK
<1>14. CASE WriteSample
  BY <1>3, <1>14 DEF WriteSample
<1>15. CASE WriteDone
  BY <1>1, <1>2, <1>15 DEF WriteDone, game, stream, TypeOK
<1>16. CASE Listener
  BY <1>3, <1>16, ListenerStep
<1>. QED
  BY <1>4, <1>5, <1>6, <1>7, <1>8, <1>9, <1>10, <1>11, <1>12, <1>13, <1>14, <1>15, <1>16
     DEF Next, Decoder

\* Only audio_thread enters ring_write, and it stays there until it returns.
LEMMA StreamsStep ==
  ASSUME StreamInv, Next
  PROVE  Streams'
<1>1. TypeOK /\ Streams
  BY DEF StreamInv
<1>2. CASE (\E s \in Seeks : Seek(s)) \/ Shutdown
  BY <1>1, <1>2 DEF Seek, Shutdown, ringVars, writeVars, stream, Streams
<1>3. CASE PickUp
  <2>1. req' \in Seeks
    BY <1>1, <1>3 DEF PickUp, TypeOK
  <2>2. wPc' # "copy"
    BY <1>1, <1>3 DEF PickUp, ResetWrite, writeVars, Streams
  <2>. QED  BY <1>1, <1>3, <2>1, <2>2 DEF PickUp, stream, Streams
<1>4. CASE Restart
  BY <1>1, <1>4 DEF Restart, ResetRead, writeVars, Streams
<1>5. CASE Idle \/ Produce \/ EndOfDisc \/ AudioSector \/ DataSector \/ EndThread
  BY <1>1, <1>5 DEF Idle, Produce, EndOfDisc, AudioSector, DataSector, EndThread, Looping,
                    ringVars, writeVars, stream, Streams
<1>6. CASE WriteChunk \/ WriteSample \/ WriteDone
  BY <1>1, <1>6 DEF WriteChunk, StartWrite, WriteSample, CopyIn, WriteDone, Publish, stream, Streams
<1>7. CASE Listener
  BY <1>1, <1>7, ListenerStep DEF stream, Streams
<1>. QED  BY <1>2, <1>3, <1>4, <1>5, <1>6, <1>7 DEF Next, Decoder

\* The steps that leave the scan alone.
Elsewhere == UNCHANGED <<lba, noAudio, lock, start, serial>>

\* A step moves the scan, or leaves all that says where it stands alone.
LEMMA ScanSteps ==
  ASSUME Next
  PROVE  Restart \/ EndOfDisc \/ AudioSector \/ DataSector \/ Elsewhere
<1>1. CASE (\E s \in Seeks : Seek(s)) \/ Shutdown \/ PickUp \/ Idle \/ EndThread
  BY <1>1 DEF Seek, Shutdown, PickUp, Idle, EndThread, stream, Elsewhere
<1>2. CASE Produce \/ WriteChunk \/ WriteSample \/ WriteDone
  BY <1>2 DEF Produce, WriteChunk, WriteSample, WriteDone, stream, Elsewhere
<1>3. CASE Listener
  BY <1>3, ListenerStep DEF stream, Elsewhere
<1>. QED  BY <1>1, <1>2, <1>3 DEF Next, Decoder

\* A data sector is counted, an audio sector starts the count over.
LEMMA ScannedStep ==
  ASSUME StreamInv, Next
  PROVE  Scanned'
<1>1. TypeOK /\ Streams /\ Scanned
  BY DEF StreamInv
<1>2. CASE Elsewhere
  BY <1>1, <1>2 DEF Elsewhere, Scanned
<1>3. CASE Restart
  <2>1. req \in Nat
    BY <1>1, <1>3, DiscAssumption DEF Restart, Streams
  <2>2. 0 <= Window
    BY RateAssumption
  <2>3. start' = req /\ noAudio' = 0 /\ (lba' # None => lba' = req)
    BY <1>3 DEF Restart
  <2>. QED  BY <2>1, <2>2, <2>3 DEF Scanned
<1>4. CASE EndOfDisc
  BY <1>4 DEF EndOfDisc, Scanned
<1>5. CASE AudioSector
  <2>1. lba \in Nat /\ lba \in Sectors /\ lba >= start /\ start \in Nat
    BY <1>1, <1>5, SectorsAre, DiscAssumption DEF AudioSector, Scanned, Sectors, Streams
  <2>2. lba' = lba + 1 /\ noAudio' = 0 /\ start' = start /\ Disc[lba] # 0
    BY <1>5 DEF AudioSector
  <2>3. lba' - noAudio' - 1 = lba
    BY <2>1, <2>2
  <2>. QED  BY <2>1, <2>2, <2>3, RateAssumption DEF Scanned
<1>6. CASE DataSector
  <2>1. lba \in Nat /\ noAudio \in Nat /\ start \in Nat /\ lba # None
    BY <1>1, <1>6, SectorsAre, DiscAssumption, RateAssumption
       DEF DataSector, Sectors, Streams, TypeOK
  <2>2. lba' # None => lba' = lba + 1 /\ noAudio' = noAudio + 1 /\ noAudio' <= Window
                       /\ start' = start
    BY <1>6, <2>1, RateAssumption DEF DataSector, TooFar
  <2>3. lba' # None => lba' - noAudio' - 1 = lba - noAudio - 1
    BY <2>1, <2>2
  <2>. QED  BY <1>1, <2>1, <2>2, <2>3 DEF Scanned
<1>. QED  BY <1>2, <1>3, <1>4, <1>5, <1>6, ScanSteps

\* The lock is taken at the first audio sector of the stream.
LEMMA LockedStep ==
  ASSUME StreamInv, Next
  PROVE  Locked'
<1>1. TypeOK /\ Streams /\ Scanned /\ Locked
  BY DEF StreamInv
<1>2. CASE Elsewhere
  BY <1>1, <1>2 DEF Elsewhere, Locked, Audible
<1>3. CASE Restart
  <2>1. lock' = 0 /\ (lba' # None => lba' = start')
    BY <1>3 DEF Restart
  <2>. QED  BY <2>1 DEF Locked, Audible
<1>4. CASE EndOfDisc
  BY <1>4 DEF EndOfDisc, Locked
<1>5. CASE AudioSector
  <2>1. lba \in Nat /\ lba \in Audible /\ lba # None /\ start' = start /\ Disc[lba] # 0
    BY <1>1, <1>5, SectorsAre DEF AudioSector, Scanned, Sectors, Audible
  <2>2. Audible' = Audible
    BY <2>1 DEF Audible
  <2>3. CASE lock = 0
    <3>1. \A a \in Audible : a >= lba
      BY <1>1, <2>1, <2>3 DEF Locked
    <3>2. Min(Audible) \in Audible /\ Min(Audible) <= lba
      BY <2>1, FirstAudible
    <3>3. Min(Audible) = lba
      <4>1. Min(Audible) \in Nat /\ Min(Audible) >= lba
        BY <3>1, <3>2, SectorsAre DEF Audible
      <4>. QED  BY <2>1, <3>2, <4>1
    <3>4. lock' = Disc[lba]
      BY <1>5, <2>3 DEF AudioSector
    <3>. QED  BY <2>1, <2>2, <3>3, <3>4 DEF Locked
  <2>4. CASE lock # 0
    BY <1>1, <1>5, <2>1, <2>2, <2>4 DEF AudioSector, Locked
  <2>. QED  BY <2>3, <2>4
<1>6. CASE DataSector
  <2>1. Audible' = Audible /\ lock' = lock /\ lba # None
    BY <1>6 DEF DataSector, Audible
  <2>2. CASE lba' # None /\ lock = 0
    <3>1. lba \in Nat /\ lba \notin Audible /\ lba' = lba + 1
      BY <1>6, <2>2, SectorsAre DEF DataSector, Sectors, Audible
    <3>2. \A a \in Audible : a \in Nat /\ a >= lba /\ a # lba
      BY <1>1, <2>1, <2>2, <3>1, SectorsAre DEF Locked, Audible
    <3>. QED  BY <2>1, <2>2, <3>1, <3>2 DEF Locked
  <2>. QED  BY <1>1, <2>1, <2>2 DEF Locked
<1>. QED  BY <1>2, <1>3, <1>4, <1>5, <1>6, ScanSteps

\* A sector is kept for decoding when its channel is the locked one; the seek
\* that ends its stream drops what is left of it.
LEMMA HeldStep ==
  ASSUME StreamInv, Next
  PROVE  Held'
<1>1. TypeOK /\ Streams /\ Scanned /\ Locked /\ Held
  BY DEF StreamInv
<1>2. CASE UNCHANGED <<rem, chunk, wPc, sect, serial, start>>
  BY <1>1, <1>2 DEF Held, Audible
<1>3. CASE (\E s \in Seeks : Seek(s)) \/ Shutdown \/ PickUp \/ Idle \/ EndOfDisc \/ DataSector
           \/ WriteSample \/ EndThread \/ Listener
  <2>1. CASE Listener
    BY <1>2, <2>1, ListenerStep DEF stream
  <2>. QED
    BY <1>2, <1>3, <2>1 DEF Seek, Shutdown, PickUp, ResetWrite, Idle, EndOfDisc, DataSector,
       WriteSample, CopyIn, EndThread, ringVars, writeVars, stream
<1>4. CASE Restart
  BY <1>1, <1>4 DEF Restart, ResetRead, writeVars, Streams, Held
<1>5. CASE Produce
  <2>1. rem > 0 /\ UNCHANGED <<sect, serial, start, wPc>>
    BY <1>5 DEF Produce, ringVars, writeVars
  <2>. QED  BY <1>1, <2>1 DEF Held, Audible
<1>6. CASE AudioSector
  <2>1. lba \in Nat /\ lba \in Audible /\ UNCHANGED <<serial, start, chunk, wPc>> /\ rem = 0
    BY <1>1, <1>6, SectorsAre DEF AudioSector, Scanned, Sectors, Audible, ringVars, writeVars
  <2>2. Audible' = Audible
    BY <2>1 DEF Audible
  <2>3. CASE Disc[lba] = lock'
    <3>1. sect' = [serial |-> serial, at |-> lba]
      BY <1>6, <2>3 DEF AudioSector
    <3>2. sect' \in [serial : Nat, at : Sectors] /\ sect'.serial = serial' /\ sect'.at = lba
      BY <1>1, <2>1, <3>1 DEF Streams, Audible
    <3>3. lba' # None /\ lock' # 0
      BY <1>6, <2>1, <2>3, NoneAssumption DEF AudioSector
    <3>4. lock' = Disc[Min(Audible)]
      BY <2>2, <3>3, LockedStep DEF Locked
    <3>5. lba >= start'
      BY <1>1, <1>6, <2>1 DEF AudioSector, Scanned
    <3>. QED  BY <2>2, <2>3, <3>2, <3>4, <3>5 DEF Held
  <2>4. CASE Disc[lba] # lock'
    BY <1>1, <1>6, <2>1, <2>2, <2>4 DEF AudioSector, Held
  <2>. QED  BY <2>3, <2>4
<1>7. CASE WriteChunk
  BY <1>1, <1>7 DEF WriteChunk, Held, Audible
<1>8. CASE WriteDone
  <2>1. wPc = "copy" /\ UNCHANGED <<rem, chunk, sect, serial, start>>
    BY <1>8 DEF WriteDone, Publish, stream
  <2>. QED  BY <1>1, <2>1 DEF Held, Audible
<1>. QED  BY <1>3, <1>4, <1>5, <1>6, <1>7, <1>8 DEF Next, Decoder
----------------------------------------------------------------------------
\* The thread starts with an empty ring and no stream.
LEMMA StreamStarts == Init => StreamInv
<1>. SUFFICES ASSUME Init PROVE StreamInv
  OBVIOUS
<1>1. RingTypeOK
  BY SizeAssumption DEF Init, RingInit, RingTypeOK, Slots
<1>2. 0 \in 0..Sector /\ 0 \in 0..(OutRate - 1) /\ 0 \in 0..(Window + 1) /\ 0 \in 0..Chunk
  BY RateAssumption, PortionsAssumption
<1>3. TypeOK
  BY <1>1, <1>2 DEF Init, TypeOK
<1>4. Streams /\ Scanned /\ Locked /\ Held
  BY DiscAssumption DEF Init, RingInit, Streams, Scanned, Locked, Held
<1>. QED  BY <1>3, <1>4 DEF StreamInv

\* Every step of the decoder, the game and the callback keeps the stream's invariant.
LEMMA StreamStep == StreamInv /\ [Next]_vars => StreamInv'
<1>1. ASSUME StreamInv, Next PROVE StreamInv'
  BY <1>1, TypeStep, StreamsStep, ScannedStep, LockedStep, HeldStep DEF StreamInv
<1>2. ASSUME StreamInv, UNCHANGED vars PROVE StreamInv'
  BY <1>2 DEF vars, ringVars, writeVars, readVars, game, stream, StreamInv,
              TypeOK, RingTypeOK, Streams, Scanned, Locked, Held, Audible
<1>. QED  BY <1>1, <1>2

\* What is written and what is left of a sector is of the locked channel.
LEMMA HeldIsChannel == StreamInv => StreamKeepsChannel
  BY DEF StreamInv, Held, Audible, StreamKeepsChannel

\* Where a count that is within the window started, an audio sector lies.
LEMMA ScannedIsWindow == StreamInv => WithinWindow
<1>. SUFFICES ASSUME StreamInv, lba # None, lba > start + Window
              PROVE \E a \in (lba - Window - 1)..(lba - 1) : a \in Sectors /\ Disc[a] # 0
  BY DEF WithinWindow
<1>1. lba \in Nat /\ start \in Nat /\ Window \in Nat /\ noAudio \in Nat /\ noAudio <= Window
  BY RateAssumption, DiscAssumption DEF StreamInv, TypeOK, Streams, Scanned
<1>2. lba # start + noAudio
  BY <1>1
<1>3. lba - noAudio - 1 \in Sectors /\ Disc[lba - noAudio - 1] # 0
  BY <1>2 DEF StreamInv, Scanned
<1>4. lba - noAudio - 1 \in (lba - Window - 1)..(lba - 1)
  BY <1>1
<1>. QED  BY <1>3, <1>4

\* For every disc, every sequence of seeks and every order of the threads'
\* steps: the samples resampled and copied into the ring are all of the stream
\* sought last and of the channel of its first audio sector, and the stream is
\* given up within the scan window (audio_thread).
THEOREM StreamAlwaysOK == Spec => []StreamOK
<1>1. StreamInv => StreamOK
  BY HeldIsChannel, ScannedIsWindow DEF StreamInv, StreamOK
<1>. QED  BY <1>1, StreamStarts, StreamStep, PTL DEF Spec
============================================================================
