------------------------------- MODULE MCGpu -------------------------------
(* Instances of Gpu for TLC.                                               *)
EXTENDS Gpu, TLC

Header(type, flags, w, h, id) ==
  [type |-> type, fill |-> "fill" \in flags, bit28 |-> "28" \in flags, bit27 |-> "27" \in flags,
   bit26 |-> "26" \in flags, w |-> w, h |-> h, id |-> id]

\* Words of every type; as the third word of an upload they give rectangles
\* of no, one, two, three and four pixels, and one wider than the VRAM.
Nop == Header("misc", {}, 0, 1, 1)
Fill == Header("misc", {"fill"}, 1, 1, 2)
Triangle == Header("polygon", {}, 2, 1, 3)
Sprite == Header("rectangle", {"26", "27"}, 1, 3, 4)
Upload == Header("upload", {}, 2, 2, 5)
Download == Header("download", {}, 3, 1, 6)
Offset == Header("environment", {}, 4, 1, 7)
Copy == Header("copy", {}, 1, 2, 8)
Line == Header("line", {"28"}, 2, 1, 9)
TexturedQuad == Header("polygon", {"26", "27"}, 1, 1, 11)
GouraudQuad == Header("polygon", {"26", "27", "28"}, 1, 1, 12)
Box == Header("rectangle", {}, 1, 1, 13)

PortWords == {Nop, Triangle, Upload, Download, Sprite}
Repeat(w, n) == [k \in 1..n |-> w]
SomeBlocks == { <<Upload, Nop>>,                              \* a header without its sides
                <<Upload, Nop, Sprite>>,                      \* three pixels to come
                <<Fill, Copy, Offset>>,
                <<Line>> \o Repeat(Box, 3) \o <<Box, Nop>>,
                <<GouraudQuad>> \o Repeat(Offset, 11) \o <<Copy, Copy>>,
                <<TexturedQuad>> \o Repeat(Offset, 7) }

Element(next, words) == [next |-> next, words |-> words, kernel |-> FALSE]
Kernel(next) == [next |-> next, words |-> <<Fill>>, kernel |-> TRUE]
Links(f) == LET packet == [a |-> <<Offset>>, b |-> <<Box, Nop, Nop>>, c |-> <<Copy, Nop>>, d |-> <<Upload, Offset>>]
            IN  [e \in {"a", "b", "c", "d"} |-> Element(f[e], packet[e])]

\* Straight, ring, rings behind one, two and three elements, a loop of one,
\* and every table of three elements.
AllTables ==
  {Links(f) : f \in { [a |-> "b", b |-> "c", c |-> "d", d |-> n] : n \in {"a", "b", "c", "d", End} }}
  \cup {Links(f) : f \in { [a |-> x, b |-> y, c |-> z, d |-> End] : x, y, z \in {"b", "c", End} }}
  \cup { [Links([a |-> "b", b |-> "c", c |-> "d", d |-> "b"]) EXCEPT !["c"] = Kernel(n)] : n \in {"a", "d", End} }
  \cup { [Links([a |-> "b", b |-> "c", c |-> "d", d |-> "c"]) EXCEPT !["d"] = Kernel("c")] }
StraightTables == {Links([a |-> "d", b |-> "c", c |-> End, d |-> "b"])}

ASSUME FitAssumption == TablesFit
ASSUME PlainAssumption == NoPolylines
============================================================================
