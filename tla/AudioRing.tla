----------------------------- MODULE AudioRing -----------------------------
(***************************************************************************)
(* The ring of decoded samples between a decoder thread and the audio      *)
(* callback: ring_write and *_audio_read_pcm, the same code in xa_audio.cpp*)
(* and cd_audio.cpp.  Two atomic indices; the decoder owns the write       *)
(* index, the callback the read index.  A step makes at most one access to *)
(* an index or a slot of the other side.  The indices are sequentially     *)
(* consistent here: the build is x86, where the release stores and acquire *)
(* loads of the code do not reorder against each other.                    *)
(***************************************************************************)
EXTENDS Naturals

CONSTANTS Size,     \* RING_BUF_SAMPLES
          NoSample, \* what a slot holds before the first lap
          Chunk,    \* samples made at a time (512 pairs; 1024 for a track)
          Callback  \* samples one call of read_pcm wants at most

ASSUME SizeAssumption == Size \in Nat \ {0, 1}

Slots == 0..(Size - 1)

VARIABLES w,       \* g_ring_write
          r,       \* g_ring_read
          buf,     \* g_ring_buf
          wPc,     \* the decoder is in ring_write: "idle" or "copy"
          wAt,     \* its local w
          wLeft,   \* samples it still has to copy
          rPc,     \* the callback is in read_pcm: "idle", "load" or "copy"
          rEnd,    \* its local w
          rAt,     \* its local r
          rLeft    \* samples it wants, then samples it still has to copy

writeVars == <<wPc, wAt, wLeft>>
readVars == <<rPc, rEnd, rAt, rLeft>>
ringVars == <<w, r, buf, writeVars, readVars>>

Smaller(a, b) == IF a <= b THEN a ELSE b

\* (i + 1) % RING_BUF_SAMPLES, for an index of the ring.
After(i) == IF i = Size - 1 THEN 0 ELSE i + 1

\* The slot k places after i, k < Size.
Beyond(i, k) == IF i + k < Size THEN i + k ELSE i + k - Size

\* Mutant: > in place of >=, an empty ring looks full to the callback.
AvailStrict(i, j) == IF j > i THEN j - i ELSE Size - (i - j)
\* Samples from index i up to index j: what a reader at i may take; one slot
\* stays empty, so a writer at j may add FreeSlots(i, j).
Avail(i, j) == IF j >= i THEN j - i ELSE Size - (i - j)
\* Mutant: the slot that tells full from empty is given away.
AllSlots(i, j) == Size - Avail(i, j)
\* Mutant: > in place of >=, an empty ring looks full.
SlotsStrict(i, j) == IF j > i THEN Size - 1 - (j - i) ELSE i - j - 1
FreeSlots(i, j) == IF j >= i THEN Size - 1 - (j - i) ELSE i - j - 1

RingInit == /\ w = 0 /\ r = 0
            /\ buf = [i \in Slots |-> NoSample]
            /\ wPc = "idle" /\ wAt = 0 /\ wLeft = 0
            /\ rPc = "idle" /\ rEnd = 0 /\ rAt = 0 /\ rLeft = 0
----------------------------------------------------------------------------
\* Mutant: the write index is stored before the samples are copied.
StartWritePublished(n) ==
  /\ wPc = "idle"
  /\ wPc' = "copy" /\ wAt' = w
  /\ wLeft' = Smaller(n, FreeSlots(r, w))
  /\ w' = Beyond(w, Smaller(n, FreeSlots(r, w)))
  /\ UNCHANGED <<r, buf, readVars>>
\* ring_write(data, n): load both indices, copy, store the write index.
StartWrite(n) ==
  /\ wPc = "idle"
  /\ wPc' = "copy" /\ wAt' = w
  /\ wLeft' = Smaller(n, FreeSlots(r, w))
  /\ UNCHANGED <<w, r, buf, readVars>>

CopyIn(s) ==
  /\ wPc = "copy" /\ wLeft > 0
  /\ buf' = [buf EXCEPT ![wAt] = s]
  /\ wAt' = After(wAt) /\ wLeft' = wLeft - 1
  /\ UNCHANGED <<w, r, wPc, readVars>>

Publish ==
  /\ wPc = "copy" /\ wLeft = 0
  /\ w' = wAt /\ wPc' = "idle"
  /\ UNCHANGED <<r, buf, wAt, wLeft, readVars>>

\* *_audio_read_pcm(out, n): load the write index, load the read index, copy,
\* store the read index.
StartRead(n) ==
  /\ rPc = "idle"
  /\ rPc' = "load" /\ rEnd' = w /\ rLeft' = n
  /\ UNCHANGED <<w, r, buf, writeVars, rAt>>

LoadRead ==
  /\ rPc = "load"
  /\ rPc' = "copy" /\ rAt' = r
  /\ rLeft' = Smaller(rLeft, Avail(r, rEnd))
  /\ UNCHANGED <<w, r, buf, writeVars, rEnd>>

CopyOut ==
  /\ rPc = "copy" /\ rLeft > 0
  /\ rAt' = After(rAt) /\ rLeft' = rLeft - 1
  /\ UNCHANGED <<w, r, buf, writeVars, rPc, rEnd>>

PublishRead ==
  /\ rPc = "copy" /\ rLeft = 0
  /\ r' = rAt /\ rPc' = "idle"
  /\ UNCHANGED <<w, buf, writeVars, rEnd, rAt, rLeft>>

\* A new stream begins: the decoder thread empties the ring, whatever the
\* callback is doing.
ResetWrite == w' = 0 /\ UNCHANGED <<r, buf, writeVars, readVars>>
ResetRead == r' = 0 /\ UNCHANGED <<w, buf, writeVars, readVars>>
----------------------------------------------------------------------------
RingTypeOK == /\ {w, r, wAt, rEnd, rAt} \subseteq Slots
              /\ wLeft \in Nat /\ rLeft \in Nat
              /\ wPc \in {"idle", "copy"} /\ rPc \in {"idle", "load", "copy"}
============================================================================
