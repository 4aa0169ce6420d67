---------------------------- MODULE GpuCommands ----------------------------
(***************************************************************************)
(* The GPU's command interpreter (gpu_interpreter.cpp) as functions of its *)
(* state.  A word is what its bits say in every place it may stand in: the *)
(* type and the flags of a header, the sides of a rectangle, two pixels.   *)
(* The FIFO never holds more than the word just written: ProcessGP0FIFO    *)
(* empties it before WriteGP0 returns.                                     *)
(***************************************************************************)
EXTENDS Integers, SequencesExt, FiniteSets

CONSTANTS MaxWidth, MaxHeight  \* of the VRAM (1024, 512)

ASSUME VramAssumption == MaxWidth \in Nat \ {0} /\ MaxHeight \in Nat \ {0}

Types == {"misc", "polygon", "line", "rectangle", "copy", "upload", "download", "environment"}
\* bit28: Gouraud shading.  bit27: a quad, a polyline, a fixed size.  bit26: a texture.
Word == [type : Types, fill : BOOLEAN, bit28 : BOOLEAN, bit27 : BOOLEAN, bit26 : BOOLEAN,
         w : Nat, h : Nat, id : Nat]

If(b) == IF b THEN 1 ELSE 0
IsPolyline(c) == c.type = "line" /\ c.bit27
Vertices(c) == IF c.bit27 THEN 4 ELSE 3

\* GetGP0ParameterCount.  Mutant: the colour in a Gouraud polygon's header is
\* counted again.
ParameterCountColour(c) ==
  CASE c.type = "polygon" /\ c.bit28 -> 1 + Vertices(c) * (2 + If(c.bit26))
    [] c.type = "polygon" /\ ~c.bit28 -> 1 + Vertices(c) * (1 + If(c.bit26))
    [] c.type = "line" -> IF IsPolyline(c) THEN -1 ELSE IF c.bit28 THEN 4 ELSE 3
    [] c.type = "rectangle" -> 2 + If(c.bit26) + If(~c.bit27)
    [] c.type = "copy" -> 4
    [] c.type \in {"upload", "download"} -> 3
    [] c.type = "misc" -> IF c.fill THEN 3 ELSE 1
    [] c.type = "environment" -> 1
ParameterCount(c) ==
  CASE c.type = "polygon" /\ c.bit28 -> Vertices(c) * (2 + If(c.bit26))
    [] c.type = "polygon" /\ ~c.bit28 -> 1 + Vertices(c) * (1 + If(c.bit26))
    [] c.type = "line" -> IF IsPolyline(c) THEN -1 ELSE IF c.bit28 THEN 4 ELSE 3
    [] c.type = "rectangle" -> 2 + If(c.bit26) + If(~c.bit27)
    [] c.type = "copy" -> 4
    [] c.type \in {"upload", "download"} -> 3
    [] c.type = "misc" -> IF c.fill THEN 3 ELSE 1
    [] c.type = "environment" -> 1

\* The words the handlers of all commands but polylines read: of each vertex
\* its colour, when it has one of its own, its place and its texture
\* coordinates.
VerticesRead(c, n) == (IF c.bit28 THEN n ELSE 1) + n + (IF c.type = "polygon" /\ c.bit26 THEN n ELSE 0)
WordsRead(c) ==
  CASE c.type = "polygon" -> VerticesRead(c, Vertices(c))
    [] c.type = "line" -> VerticesRead(c, 2)
    [] c.type = "rectangle" -> 2 + If(c.bit26) + If(~c.bit27)
    [] c.type = "copy" -> 4
    [] c.type \in {"upload", "download"} -> 3
    [] c.type = "misc" -> IF c.fill THEN 3 ELSE 1
    [] c.type = "environment" -> 1

Smaller(a, b) == IF a < b THEN a ELSE b
\* Pixels of an upload, whose sides are cut to the VRAM's.
Pixels(size) == Smaller(size.w, MaxWidth) * Smaller(size.h, MaxHeight)
WordsOf(pixels) == (pixels + 1) \div 2
Lower(w) == <<w.id, "low">>
Upper(w) == <<w.id, "high">>
----------------------------------------------------------------------------
(* GPUState: the words of the unfinished command; the running upload, its  *)
(* pixels to come and those staged; the words GPUREAD has; and what the    *)
(* renderer was told.                                                      *)

Ready == [params |-> <<>>, active |-> FALSE, left |-> 0, staging |-> <<>>, answer |-> <<>>, calls |-> <<>>]

Told(g, words) == [g EXCEPT !.calls = Append(@, words)]
Idle(g) == [g EXCEPT !.params = <<>>]

\* StreamCPUToVRAMWord; behind the last pixel the rectangle goes to the
\* renderer.
Streamed(g, w) ==
  LET pixels == IF g.left >= 2 THEN <<Lower(w), Upper(w)>> ELSE <<Lower(w)>>
      staged == g.staging \o pixels
      left == g.left - Len(pixels)
  IN  IF left = 0
      THEN [Told(Idle(g), g.params \o staged) EXCEPT !.active = FALSE, !.left = 0, !.staging = <<>>]
      ELSE [g EXCEPT !.left = left, !.staging = staged]

\* HandleGP0VRAMToCPU: an empty rectangle, or one larger than the VRAM, leaves
\* the buffer as it is.
Downloaded(g) ==
  LET size == g.params[3]
      pixels == size.w * size.h
      Packed(k) == <<2 * k - 1, IF 2 * k <= pixels THEN 2 * k ELSE 0>>
  IN  IF pixels = 0 \/ pixels > MaxWidth * MaxHeight THEN g
      ELSE [Told(g, g.params) EXCEPT !.answer = [k \in 1..WordsOf(pixels) |-> Packed(k)]]

\* ExecuteGP0Command.  Of a polyline only the header was received, for its
\* count is -1: its handler finds one vertex and draws nothing.
Executed(g) ==
  LET c == g.params[1]
  IN  CASE c.type = "download" -> Downloaded(g)
        [] IsPolyline(c) -> g
        [] c.type = "misc" /\ ~c.fill -> g
        [] OTHER -> Told(g, g.params)

Started(g) == [g EXCEPT !.active = TRUE, !.left = Pixels(g.params[3]), !.staging = <<>>]

\* WriteGP0 and ProcessGP0FIFO: one word more.
Accumulated(g) ==
  LET c == g.params[1]
      n == Len(g.params)
  IN  CASE c.type = "upload" /\ n = 3 /\ Pixels(g.params[3]) > 0 -> Started(g)
        [] c.type = "upload" /\ n = 3 /\ Pixels(g.params[3]) = 0 -> Idle(g)
        [] c.type # "upload" /\ n >= ParameterCount(c) -> Idle(Executed(g))
        [] OTHER -> g
Submitted(g, w) == IF g.active THEN Streamed(g, w) ELSE Accumulated([g EXCEPT !.params = Append(@, w)])
SubmittedAll(g, words) ==
  LET after[n \in 0..Len(words)] == IF n = 0 THEN g ELSE Submitted(after[n - 1], words[n])
  IN  after[Len(words)]
=============================================================================
