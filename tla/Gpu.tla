-------------------------------- MODULE Gpu --------------------------------
(***************************************************************************)
(* How words reach the GPU: one by one through the port GP0, in blocks of  *)
(* DMA channel 2, and from ordering tables, linked lists in game memory    *)
(* that DrawOTag and the channel's linked-list mode walk with a second     *)
(* pointer, twice as fast, to notice a ring.                               *)
(***************************************************************************)
EXTENDS GpuCommands

CONSTANTS Words,    \* words the game writes to GP0
          Blocks,   \* word sequences it sends as a DMA block
          Tables,   \* ordering tables: element |-> [next, words, kernel]
          MaxJobs,  \* bound: what the game starts
          Limit     \* elements a walk visits at most (65536)

VARIABLES gpu,
          table,    \* the ordering table in memory
          ptr, hare, steps,
          jobs,
          sent,     \* history: the words since the last reset
          base,     \* history: what the renderer had been told by then
          walked,   \* history: the elements the walk has sent
          opened    \* history: where the running upload was begun

vars == <<gpu, table, ptr, hare, steps, jobs, sent, base, walked, opened>>

End == "end"    \* 0 or 0xFFFFFF, or an address outside memory
Nobody == "none"

ASSUME WordsAssumption == Words \subseteq Word /\ Blocks \subseteq Seq(Word)
ASSUME TablesAssumption ==
  \A t \in Tables :
    /\ IsFiniteSet(DOMAIN t) /\ {End, Nobody} \cap DOMAIN t = {}
    /\ \A e \in DOMAIN t : /\ t[e].next \in DOMAIN t \cup {End}
                           /\ t[e].words \in Seq(Word) /\ t[e].kernel \in BOOLEAN
ASSUME BoundsAssumption == MaxJobs \in Nat /\ Limit \in Nat

\* No table has more elements than a walk visits.
TablesFit == \A t \in Tables : Cardinality(DOMAIN t) <= Limit

\* No word, a parameter or a pixel included, has the bits of a polyline's
\* header: the code executes one at its header (gpu_interpreter.cpp:356).
Plain == {w \in Word : ~IsPolyline(w)}
NoPolylines == /\ Words \subseteq Plain /\ Blocks \subseteq Seq(Plain)
               /\ \A t \in Tables : \A e \in DOMAIN t : t[e].words \in Seq(Plain)

Init == /\ table \in Tables
        /\ gpu = Ready
        /\ ptr = Nobody /\ hare = Nobody /\ steps = 0 /\ jobs = 0
        /\ sent = <<>> /\ base = <<>> /\ walked = <<>> /\ opened = Nobody

Job == /\ ptr = Nobody /\ jobs < MaxJobs
       /\ jobs' = jobs + 1
Memory == UNCHANGED <<table, ptr, hare, steps, walked>>

\* An upload that was not running before was begun by who sends now.
Send(words, who) ==
  /\ gpu' = SubmittedAll(gpu, words)
  /\ sent' = sent \o words
  /\ opened' = IF ~gpu'.active THEN Nobody ELSE IF gpu.active /\ gpu'.calls = gpu.calls THEN opened ELSE who
  /\ base' = base

\* A store to GP0, GPU_cw, or a drawing environment passed on.
WriteGP0 == /\ Job
            /\ \E w \in Words : Send(<<w>>, "port")
            /\ Memory

DmaBlock == /\ Job
            /\ \E b \in Blocks : Send(b, "port")
            /\ Memory

\* The whole state is reset; an upload's staged pixels stay until the next.
ResetGPU == /\ Job
            /\ gpu' = [Ready EXCEPT !.staging = gpu.staging, !.calls = gpu.calls]
            /\ sent' = <<>> /\ base' = gpu.calls /\ opened' = Nobody
            /\ Memory

\* Only the FIFO and the unfinished command go; a running upload runs on, and
\* keeps its rectangle.
ResetCommandBuffer ==
  /\ Job
  /\ gpu' = IF gpu.active THEN gpu ELSE Idle(gpu)
  /\ IF gpu.active THEN UNCHANGED <<sent, base>> ELSE sent' = <<>> /\ base' = gpu.calls
  /\ opened' = opened
  /\ Memory

GetGPUInfo == /\ Job
              /\ gpu' = [gpu EXCEPT !.answer = << <<"info">> >>]
              /\ UNCHANGED <<sent, base, opened>>
              /\ Memory

\* A load from GPUREAD, or DMA from the GPU: 0 when there is no answer.
ReadGPUREAD == /\ ptr = Nobody
               /\ gpu' = [gpu EXCEPT !.answer = IF @ = <<>> THEN @ ELSE Tail(@)]
               /\ UNCHANGED <<jobs, sent, base, opened>>
               /\ Memory
----------------------------------------------------------------------------
DrawOTag == /\ Job
            /\ \E e \in DOMAIN table :
                 IF table[e].kernel THEN UNCHANGED <<ptr, hare, steps, walked>>
                 ELSE ptr' = e /\ hare' = e /\ steps' = 0 /\ walked' = <<>>
            /\ UNCHANGED <<gpu, table, sent, base, opened>>

\* Mutant: the hare never meets anybody.
HaredNever == [at |-> hare, ended |-> TRUE]
\* Where the hare is after its two steps, and whether it met the end.
Hared == LET one == table[hare].next
             two == table[one].next
         IN  CASE one = End -> [at |-> hare, ended |-> TRUE]
               [] one # End /\ two = End -> [at |-> one, ended |-> TRUE]
               [] one # End /\ two # End -> [at |-> two, ended |-> FALSE]

Stopped == ptr' = Nobody /\ hare' = Nobody

WalkStep ==
  /\ ptr # Nobody
  /\ IF steps = Limit \/ table[ptr].kernel
     THEN /\ Stopped
          /\ UNCHANGED <<gpu, sent, base, opened, walked, steps>>
     ELSE /\ Send(table[ptr].words, "table")
          /\ walked' = Append(walked, ptr)
          /\ steps' = steps + 1
          /\ LET next == table[ptr].next
             IN  IF next = End THEN Stopped
                 ELSE IF ~Hared.ended /\ Hared.at = next THEN Stopped
                 ELSE ptr' = next /\ hare' = Hared.at
  /\ UNCHANGED <<table, jobs>>

Next == WriteGP0 \/ DmaBlock \/ ResetGPU \/ ResetCommandBuffer \/ GetGPUInfo \/ ReadGPUREAD \/ DrawOTag \/ WalkStep
Spec == Init /\ [][Next]_vars
----------------------------------------------------------------------------
\* Types: an upload has pixels to come exactly while it runs.
TypeOK == /\ table \in Tables /\ ptr \in DOMAIN table \cup {Nobody}
          /\ steps \in 0..Limit /\ jobs \in 0..MaxJobs
          /\ gpu.left \in Nat /\ (gpu.active <=> gpu.left > 0)
          /\ gpu.active => Len(gpu.params) = 3 /\ Len(gpu.staging) + gpu.left = Pixels(gpu.params[3])

\* What a sequence of words says: it is cut into commands by what each
\* command's handler reads, an upload's by its rectangle.  No word begins a
\* polyline.
Extent(ws) == CASE ws[1].type # "upload" -> WordsRead(ws[1])
                [] ws[1].type = "upload" /\ Len(ws) < 3 -> 3
                [] ws[1].type = "upload" /\ Len(ws) >= 3 -> 3 + WordsOf(Pixels(ws[3]))
Halves(ws) == [k \in 1..(2 * Len(ws)) |-> IF k % 2 = 1 THEN Lower(ws[(k + 1) \div 2]) ELSE Upper(ws[k \div 2])]
Says(ws) == CASE ws[1].type = "misc" /\ ~ws[1].fill -> <<>>
              [] ws[1].type = "upload" ->
                   IF Pixels(ws[3]) = 0 THEN <<>>
                   ELSE << SubSeq(ws, 1, 3) \o SubSeq(Halves(SubSeq(ws, 4, Len(ws))), 1, Pixels(ws[3])) >>
              [] ws[1].type = "download" ->
                   IF ws[3].w * ws[3].h \in 1..(MaxWidth * MaxHeight) THEN <<ws>> ELSE <<>>
              [] OTHER -> <<ws>>
Meaning(ws) ==
  LET Rest(n) == SubSeq(ws, Len(ws) - n + 1, Len(ws))
      says[n \in 0..Len(ws)] ==  \* of the last n words
        IF n = 0 \/ n < Extent(Rest(n)) THEN <<>>
        ELSE Says(SubSeq(Rest(n), 1, Extent(Rest(n)))) \o says[n - Extent(Rest(n))]
  IN  says[Len(ws)]

\* However the game spreads its words over stores, blocks and tables, and
\* wherever it resets, the renderer is told what they say in sequence: the
\* count taken from a header is what its handler reads, an upload takes its
\* pixels and no more (gpu_interpreter.cpp 152-310, 314-385).
DrawnAsSent == gpu.calls = base \o Meaning(sent)

\* The same, with the state of the upload that is running, of a game that
\* draws no polylines.
CommandsOK == TypeOK /\ DrawnAsSent

\* Where the links lead from the first element of the walk, one by one.
Following(e) == IF e = End THEN End ELSE table[e].next
Trail == LET hop[n \in 0..Cardinality(DOMAIN table)] == IF n = 0 THEN walked[1] ELSE Following(hop[n - 1])
         IN  hop

\* The elements to send: those before the end, the kernel's memory, or an
\* element that came already.
Fresh(n) == Trail[n] # End /\ ~table[Trail[n]].kernel /\ \A k \in 0..(n - 1) : Trail[k] # Trail[n]
Path == [k \in 1..Min({n \in DOMAIN Trail : ~Fresh(n)}) |-> Trail[k - 1]]

\* A table is walked along its links and no element is sent a second time,
\* also when it is a ring; the two pointers meet nowhere else (runtime.c
\* 6286-6382).
NoElementTwice == walked # <<>> => IsPrefix(walked, Path)

\* A ring behind other elements: the links lead neither to an end nor back to
\* the first.
RingBehind == \A n \in DOMAIN Trail \ {0} : Trail[n] \notin {End, walked[1]}

\* A table that ends, and a ring entered at any of its elements, are sent
\* completely (a ring behind other elements may be left before its end).
TablesComplete == ptr = Nobody /\ walked # <<>> => Len(walked) = Len(Path) \/ RingBehind

\* Each element of a table is sent, and sent once.
TablesSent == NoElementTwice /\ TablesComplete

\* The pixels of an upload that a table's element begins come by a transfer
\* of their own, never from the elements that follow it (gpu_interpreter.h
\* 34-37, runtime.c 6340-6345).
NoBleeding == opened = "table" => ptr = Nobody
=============================================================================
