# A TLA+ model of the PARANOIASCAPE recompilation

The repository turns the PlayStation game PARANOIASCAPE into a native program.
A *recompiler* (`paranoiascape-recomp/recompiler`) translates the MIPS code of
the game's executable to C; a *runner* (`paranoiascape-recomp/runner`) is the
machine around that C: memory, BIOS calls, threads, memory cards, GPU, sound,
CD, input, and a debug server. This directory models the parts of it in which
state is shared, suspended, persisted or reordered, checks them with TLC on
small instances and proves what matters most with TLAPS for all of them.

Paths below are relative to `paranoiascape-recomp/runner/src/` unless they say
otherwise; `runtime.c` alone holds eight of the components.

## 1. Inventory

| component | state | operations | hard because | correct when |
|---|---|---|---|---|
| memory card (`runtime.c`) | two 128 KB images in memory, one file each, 4 descriptors | open/create, lseek, read, write, close, sector calls, firstfile/nextfile | a call saves several times; a death between two saves; failed or short saves; chains walked by `while (1)` | chains are disjoint and finite, no block is freed or overwritten by another file, a crash leaks at most the block it was linking |
| threads and scheduler (`runtime.c`) | four fibers, one register file, four register banks, the game's table of three thread control blocks, restart and flip flags | OpenThread, ChangeThread, scheduler, yield in place of VBlank, frame flip | control moves at every switch; the display thread is replaced while it is suspended or while it runs; the game writes the table | each fiber gets its own registers back, the display runs the entry function its block names, a ready thread runs |
| interrupt chains (`runtime.c`) | four lists of handlers in game memory | SysEnqIntRP, SysDeqIntRP, the pump in VSync | handlers are linked into memory the game owns; nothing prevents linking one twice | the pump runs each linked handler once and ends |
| DMA and I/O ports (`runtime.c`) | DMA channel registers, interrupt registers, timers | register reads and writes, ordering-table walk | the table is a list in game memory that may be circular | the walk ends and sends each packet once |
| controller port (`runtime.c`) | pad words and their edges, a byte protocol | pad injection, SIO register reads and writes | sampled at other times than the game looks | the game sees what is held, and each press once |
| heap and BIOS stubs (`runtime.c`) | a bump pointer | malloc, calloc, free, InitHeap, events | 32-bit arithmetic | blocks do not overlap and stay in the heap |
| CD commands and loading (`runtime.c`, `iso_reader.cpp`, `cdrom_stub.cpp`) | position, mode, file table | CdlSeekL, CdRead, CdReadSync, file lookup | synchronous stand-ins for an asynchronous drive | a read starts where the last seek went |
| calls, interpreter, overrides (`runtime.c`) | the CPU state, the C stack | call_by_address, mips_interpret, psx_override_dispatch | tail calls and returns across compiled and interpreted code | each return ends exactly one C function; what runs computes what the game's processor would |
| CD audio (`cd_audio.cpp`) | a ring of samples, decoder thread, track | play, stop, next track, callback | two threads, index resets while the other side runs | no stale sample after a track change, no read of unwritten data |
| XA audio, SPU, FMV (`xa_audio.cpp`, `spu.cpp`, `fmv_player.cpp`) | voices, a ring, a decoder thread (XA), chunks of a video frame (FMV) | key on/off, callback, seek, tick, skip | audio callback runs on a thread of its own; seeks and index resets under it | the last seek is played, on one channel; no unwritten sample is heard; a voice sounds its own note and stays in its loop; an envelope ends; a video frame is made of its own chunks |
| GPU (`gpu_interpreter.cpp`, `gpu_state.cpp`, `opengl_renderer.cpp`) | the unfinished command, a running upload, the answer of a download, the drawing state, VRAM | GP0, GP1, GPUREAD | commands arrive word by word through ports, blocks and ordering tables; resets come in between | the renderer is told what the words say in sequence, each command once and complete |
| GTE (`gte.cpp`) | registers | one operation per instruction | saturation, flags | - |
| debug server, input script (`debug_server.c`, `input_script.cpp`) | a connection, pause, step and run targets, a frame history; scripted input | poll, commands, record, wait | polled at four places of a frame; a client may leave at any time | a step runs exactly the frames it asks for, a pause holds, nobody is left paused |
| save states, overlays (`savestate.cpp`, `overlay_manager.cpp`, `overlay_detector.cpp`) | files; which overlay is loaded | save, load, switch, lookup | no caller in `src/` | - |
| main loop (`main_runner.cpp`, `launcher.cpp`) | frame counter, the game's VBlank counter | start, psx_present_frame from VSync, pump and flip | three callers, one of them in the middle of another | what VSync counts was shown, VSync returns |
| recompiler (`../../recompiler/src`) | functions, basic blocks | find functions, build blocks, emit C | delay slots, functions split in two, branches out of a function | the emitted C computes what the game's code does |

Left aside: vendored libraries (ELFIO, fmt, rabbitizer, glad, stb), Python tools,
the wiki.

## 2. How the parts interact

The recompiler runs once, before: it cuts the executable into functions and
writes a C function for each. The runner calls them. Code that was not found, and
code the game loads later (overlays), is interpreted; `call_by_address` leads from
one to the other.

The game's code runs on the main thread, in up to four fibers that share one
register file. It reaches the machine in three ways: BIOS calls
(`psx_override_dispatch` and the A/B/C tables in `runtime.c`: threads, memory
card, events, heap), I/O ports (GPU, DMA, SPU, SIO, timers), and the addresses
of functions that the runner replaces by C of its own (scheduler, VSync, DrawOTag,
CD reads, XA playback). There is no interrupt: VSync calls the handlers of the
interrupt chains, counts VBlanks and shows frames, and a pump inside every
dispatched call does the latter two when the game is long without a VSync. Every frame
shown polls the debug server and may stay there.

Three more threads exist: the decoder thread of
`xa_audio.cpp` and of `cd_audio.cpp`, and the audio
device's callback, which calls `spu_mix` and the `*_audio_read_pcm` functions.
Main thread and callback share the SPU under a lock; decoder and callback share
a ring without one; main thread and decoder share a request slot. Only the
memory card outlives the process.

The models follow these borders. A module has as interleaving actors exactly the
threads that run in the component. On the main thread what interleaves is a crash
between two saves, the switch to another fiber, a handler that changes the chain
it is called from, the client's commands at each poll, or a pump inside a call.

## 3. Modules

| module | models | composes |
|---|---|---|
| `CardFiles` | what a memory card promises: names own sets of blocks | - |
| `MemCard` | memory card images, descriptors and BIOS file calls | implements `CardFiles` |
| `MemCardProofs` | types, chains, directory, data and the refinement, for every card | `MemCard` |
| `Fibers` | OpenThread, ChangeThread, scheduler, yield, frame-flip guard | - |
| `FibersProofs` | register banks and the scheduler's table, for every register content and both kinds of game | `Fibers` |
| `IntChains` | the chains of interrupt handlers and their pump in VSync | - |
| `IntChainsProofs` | types, the loop guard, what the chains hold and the pump calls, for any number of handlers | `IntChains` |
| `Frame` | VSync, background pump, psx_present_frame, pad injection, debug server | - |
| `FrameProofs` | where a step, a run and a pause end, what VSync shows and the game sees, for every bound | `Frame` |
| `GpuCommands` | the command interpreter as functions of its state | - |
| `Gpu` | words through ports, DMA blocks and ordering tables; resets | `GpuCommands` |
| `GpuProofs` | what the renderer is told and which elements are sent, for all words and tables | `Gpu` |
| `Mips` | registers, instructions, what one instruction means on the processor | - |
| `R3000` | the processor running a program: the abstract specification | `Mips` |
| `Recompiler` | function starts, blocks, exits, the C of an instruction | `Mips` |
| `Runner` | C functions, interpreter and calls between them | `Recompiler`, implements `R3000` |
| `RunnerProofs` | the C stack, the translation of branches and the refinement of `R3000`, for every program | `Runner` |
| `AudioRing` | the ring between decoder and callback | - |
| `SampleQueue` | what the ring promises: a bounded queue | - |
| `AudioStream` | one stream through the ring | `AudioRing`, implements `SampleQueue` |
| `XaAudio` | seeks, decoder thread, channel lock, scan window, callback | `AudioRing` |
| `AudioProofs` | order and refinement of one stream; channel, stream and scan window of XA; for every disc and ring | `AudioStream`, `XaAudio` |
| `SpuVoice` | one voice of the SPU under registers, uploads and ticks | - |
| `SpuVoiceProofs` | note, envelope order and loops, for every setting | `SpuVoice` |
| `MC*` | the instances TLC checks | the module of that name |

Definitions marked `Mutant` are wrong variants of the definition that follows
them. No specification uses them; each shows that one of the properties notices
a plausible mistake in the code (`PROJECT.json`, `mutants`).

### 3.1 MemCard

`card` is `s_card[slot]`: per directory entry the state byte, the size, the link
and the name; per data block the base name whose descriptor wrote it last
(`stamp`), which is all a property needs of the 8 KB. `disk` is the file, `fds`
the descriptor table, `call` the program counter and the locals of the BIOS call
in progress. A call without a save is one action (`Open`, `Lseek`, `Read`,
`Close`); a call with saves takes one step per `mc_save_card`, because a process
that dies leaves the file of the last save:

- creating open: `CreateFirst` or `CreateContinuation` (new entry, save 1),
  `WalkChain` (one turn of the `while (1)`), `LinkBlock` (save 2),
  `SetParentSize` (save 3), `FinishCreate` (descriptor);
- write: `StartWrite`, `WriteUnit` (one unit of data and a save, as
  `mc_write_sector` does), `FinishWrite`.

`SaveCard` writes the whole image. With `SaveFaults` it may also leave the old
file (fopen failed) or a prefix of the new image (fwrite cut short, whose missing
bytes read back as zero: a *free* entry whose link names block 1). `Crash` closes
all descriptors and loads what `disk` holds.

Not modelled: `firstfile`/`nextfile` and the raw sector calls, the second slot
(it shares only the descriptor table), 32-bit wrap-around of a seek.

### 3.2 Fibers

`cur` is `GetCurrentFiber()`, `wait` where each fiber continues, `regs` the
CPUState, `bank` the four saved register sets, `tcb` the game's three thread
control blocks, `slot` the index of the scheduler's loop. Register sets are
values of a small set: the code only copies them. `mine`, `started` and `flips`
are history variables.

A step runs from one `SwitchToFiber` to the next. `EnterScheduler`,
`DispatchReady`, `DispatchOpen`, `SkipSlot` are the C version of FUN_80017024;
`ChangeThread` with `ToDisplay`, `ToWorker`, `ToNobody` is B(0x10) with a handle;
`Opened`, `OpenWait`, `OpenBank` are B(0x0E); `YieldWith` is ChangeThread of
0xFF000000, which also does what the PlayStation's VBlank handler did to the
table. `Yield`, `Finish`, `DisplayReplacesItself`, `StartWorker`,
`MainReopensDisplay`, `MainClobbersTcb` are what the game does with the calls
(marked external: the game's code is not in the repository; the runner's comments
name the functions). The variable `game` is chosen once: in a *scheduled* game all
threads go through the scheduler; in a *direct* one the display fiber also switches to
a worker itself, and the main loop writes GPU packets over TCB[0], as the comment
at `runtime.c:753` reports. The main loop reopens the display at its game entry only:
the boot entry is left for good (`runtime.c:750`), and OpenThread would not start it a
second time (2112), so a game that asked for it while another restart is pending would
run the other entry. What the scheduler promises (`CurrentBlockIsMine`,
`DisplayOK`, the liveness) is stated for scheduled games, since in the other the table
may hold anything; the register banks are checked in both.

### 3.3 AudioRing, AudioStream, SampleQueue

`w` and `r` are the two atomic indices. `ring_write` is `StartWrite` (both
loads), `CopyIn` per sample, `Publish` (the store); `*_audio_read_pcm` is
`StartRead` (load of the write index), `LoadRead` (load of the read index),
`CopyOut`, `PublishRead`. Each step has at most one access the other thread can
see. `ResetWrite` and `ResetRead` are the two stores of a new stream.

The indices are sequentially consistent. The code uses release stores and
acquire loads; on the x86 builds these do not reorder against each other, and
stores of samples are not delayed past the store of the index. A weaker machine
is not modelled.

`AudioStream` is the decoder loop without seeks, of either file (`source`): a track of
`cd_audio.cpp` waits until the ring has room for a whole chunk and writes a whole one, its
last one padded with silence (`ReadTrack`; so up to `Chunk - 1` samples follow `MaxMade`);
XA sectors are resampled in pieces that fit (`ResampleXa`). Samples are numbered, so that a
lost, repeated or torn one shows. `SampleQueue` is the same without indices:
append a run, remove a run. `CopyIn` of the sample `made + Avail(w, wAt) + 1` is
the data of a chunk, not an assumption about the ring: `wAt` is the code's local.
Where `AudioStream` and `XaAudio` have an action of the same code, the name in
`AudioStream` begins with `Stream` (`StreamWrite`, `StreamDecoder`, `StreamSpec`), so
that `AudioProofs` can extend both.

### 3.4 XaAudio

The game posts a sector in `seekReq` (`Seek`, 0 stops); the decoder exchanges it
for *none* (`PickUp`), empties the ring under the callback and starts over
(`Restart`), then reads sectors (`AudioSector`, `DataSector`, `EndOfDisc`) and
produces chunks (`Produce`) until the channel ends. A sample is the pair of the
seek and the sector it came from. The disc of `MCXaAudio` has seven sectors: data
before, between and after two interleaved channels. ADPCM, volume and the WAV
capture are left out; file and channel are one number, and the file number 0xFF,
which the code also uses as "unlocked", does not occur.

### 3.5 SpuVoice

The state of one voice: `cur` (next block to decode), `idx` (position in the
decoded block), `phase` and `vol` (envelope), `loopStart`, and what the decoded
block is (`playing`). `Tick` is one sample of `spu_mix`: within the block
(`TickWithin`), at the end of the RAM (`TickPastRam`), or at the next block with
its flags and loops (`TickNext`), each with one `update_adsr` (`Envelope`) where
the code calls it. `KeyOn`, `KeyOff`, `WriteRegister`, `SetTransfer`, `Upload`
are the game's thread. Ticks, key-ons, key-offs and uploads hold the lock `g_cs`, so each
is one step. A register is stored before the lock is taken (`spu.cpp:537`), a
halfword at a time: the two halves of the envelope register (`adsrHi`, `adsrLo`) change in steps
of their own, between any two ticks, and any mixture of old and new occurs. A block
is its three flags; a pitch is how far a tick moves `idx`, a linear attack a step,
an exponential phase a shift.

### 3.6 IntChains

`head` is `g_int_chains`, `link` the first word of each handler's record. `walk`
is VSync's chain number, pointer and loop guard; `inside` says that the handler at the
pointer runs. `SysEnqIntRP` pushes at the head and `SysDeqIntRP` takes out the
first record it finds, within the 16 it looks at (`Reach`). Both may be called by
the game between two VSyncs and by a handler while it runs: the pump reads a record's
link after its handler returned (`HandlerReturns`). `queue`, `clean`,
`torn`, `stayed` and `calls` are histories; they stop (`clean`) at the first
handler that is linked while it is linked, for from then on a chain may be a ring
and only the counters end the walk. `psx_dispatch_int_chain` is left out: nothing
calls it. That VSync leaves the saved interrupt status of its caller changed after a
handler is not stated either, since nothing reads it.

### 3.7 Frame

`todo` holds what the calls in progress have still to do, innermost first: a
frame shown is *present, poll, wait*; a tick of VSync is *vblank*, a frame shown, and
*inject*; VSync itself is a poll, the chains, its loop, and the game's look at the pad.
So each poll, also the ones nested in a wait, is a step of its own at which commands
may arrive (`Accept`, `Receive`, `Commands`, `EndOfLines`, `Disconnect`). `Pump`
pushes the pump of `psx_override_dispatch` on top of whatever call is in progress where the
runner dispatches one: between VSyncs, in a handler, and at the entry of the game's
VBlank handler (`count`), whose own effect on the counter is external: it adds one to
the register that VSync loaded (`CallVBlank`), so that a pump in between is overwritten.
`Show` stands for the frames shown outside VSync (0x8007D738, films, the main fiber).

`paused`, `stepCount`, `runTo`, `override`, `frame`, `ring` are the statics of
`debug_server.c`; buttons are sets of pressed buttons, where the code has bits that are
0 when pressed. `stopAt` and `runAt` remember where the client's orders end, `late` the frames shown
while paused, `left` that a client left an order behind, `looked` what
the game last saw, and `pads` the pad words injected since.

The pressed edge is computed against the pad of the injection before, not against what the
game last saw. `InputSeen` says what that means for the game: the buttons are those of the
last frame, a reported press was no button held all along, and a press is missed only if an
earlier frame of the same VSync already showed the button down. That case is real, with
VSync(2) or a pump in a handler, and the run reaches it.

### 3.8 GpuCommands, Gpu

`GpuCommands` has no variables: `Submitted(g, w)` is `WriteGP0` with
`ProcessGP0FIFO` behind it, for one word. The state `g` has the words of the
unfinished command, the running upload (`active`, `left`, `staging`), the words of
GPUREAD and the calls of the renderer. A word is a record of what its bits mean wherever it may stand.
`ParameterCount` is what the header's table asks for, `WordsRead` what the handler of
the command then reads. A polyline (`IsPolyline`) has no such number: the table says -1, with
which the code executes it at its header.

`Gpu` sends words: one store (`WriteGP0`), a DMA block (`DmaBlock`), an element
of an ordering table (`DrawOTag`, then `WalkStep` per element, with the second
pointer `hare`). The linked-list mode of DMA channel 2 is the same walk in the code.
`ResetGPU`, `ResetCommandBuffer`, `GetGPUInfo`, `ReadGPUREAD` are GP1 and the read
port. Tables may be straight, rings, rings behind other elements, or contain an
address in the kernel, where the walk stops.

`Meaning` cuts a sequence of words into commands by what the handlers read, from the
front. No word, a parameter or a pixel included, has the bits of a
polyline's header (`NoPolylines`): `gpu_interpreter.cpp:356` and 594 say that its
vertices run to a terminator, and the code receives none of them (section 4), so what such words
say is not what the renderer is told. `Trail` and `Path` follow the links of a table to the first element that is the end,
the kernel's, or was there before. `TablesSent` says that what was sent is a beginning of
the path and, when the walk is over, all of it, unless the ring lies behind the first element
(`RingBehind`). There the two pointers may meet before the walk has come to the last
element. It was the proof that showed that a narrower exception, for such rings without
the kernel's elements, is not what the code does: in `a -> b -> c -> d -> c` with `d`
in the kernel the hare runs through the kernel's element, meets the walk at `c` and
`c` is not sent. `MCGpu` has this table now.

### 3.9 Mips, R3000, Recompiler, Runner

`Mips` says what an instruction does on the game's processor, independently of
the repository: it is the reference. `R3000` runs it: one step per instruction, a
branch and its delay slot together.

`Recompiler` is the analysis and the C generator as operators of the program
`code`: `FunctionStarts` (returns, call targets, forced entries), `Boundaries` and
`Exit` (blocks and the branch that ends one, which may be its last or last but one
instruction), `FallsThrough`, and `CResult`/`Emitted`, the expression an instruction is
translated to, with C's casts and shifts. The interpreter's expressions are the
same in all but two cases, which `Run` in `Runner` has: a register zero that is an ordinary
local, and a division by zero that is skipped.

`Runner` has the C stack as a sequence of frames. A compiled frame is at an
instruction of its function; a statement, a branch with its delay slot, a call, a return
are one step each, and a branch out of the function is a call of what is there followed
by a return (`ToOtherPiece`). An interpreted frame is one activation of
`mips_interpret`; `InterpretJump` has its four ways on: a return, a call, a tail call into compiled code, a jump.
The refinement maps this to the processor by the address execution is at (`At`):
`ComputesTheProgram`, proved for every `Aligned` program.

The runner computes what the processor does only for programs that keep to conventions
of a compiler. `kept` is FALSE after a step that breaks one, and then nothing is
promised: code is named by its KSEG0 address (`Kuseg` has other addresses of the same
memory: `call_by_address` takes them, the interpreter's own test does not); no branch in a
delay slot (the interpreter ignores it but for its link); the register a jump goes through is changed neither
by its delay slot nor by its link, and the delay slot does not use the link; no division
by zero, and none of the least number by -1, which C leaves undefined; register zero
stays zero; a return goes to the last call that has not returned; what is called or
jumped to exists; the code runs off neither the executable nor the overlay; an
interpreted activation ends within `MaxGuard` instructions (10000 in the code); a jump
through a register in a function with a stack frame does not occur; no compiled
branch-and-link is taken, since its C sets the link and goes to the target, which is no
call of the C stack (`code_generator.cpp` 905-918). The games of the passing run break
each of these (`Broken`, the division in `Arithmetic`), and contain no unaligned load
(see `runner_unaligned`). A branch-and-link to its own return address, which compilers
use to read the program counter, is no call of the program (`ProgramCalls`).

Not modelled: jump tables, the test for data sections, branch-likely, byte and
half-word memory, coprocessors, aliases and thunks of `call_by_address`, the
patches of single addresses, and the depth of the host's stack.

## 4. Runs

One run per component and question; the bound constants are in the `.cfg` of the
run. The longest is `int_chains` (1,165,532 distinct states).

| run | asks | bounds |
|---|---|---|
| `card_crash` | `ChainsInv`: types, chains disjoint and finite; at most one block lost per crash; writes stay in their file; nothing freed; `MemCard` implements `CardFiles`; each call ends | 3 blocks of 2 units, 2 files, continuations `-01`, 1 descriptor, 1 crash |
| `card_faults` | what survives saves that fail or stop at any entry, and a restart from there | 3 blocks, 1 file, 1 crash |
| `fibers` | banks hold and registers come back, in both kinds of game; 0x1D4 names the running thread; the display runs its entry and flips once per frame; it runs again and again; a ready worker runs | 2 register contents |
| `int_chains` | a chain holds what was enqueued and not dequeued, in order; a handler that stays linked is called once, unless the guard is used up first; the pump keeps to its guard and ends | 4 handlers, 2 chains, guard 3, reach 4 |
| `frame` | a step and a run stop where asked; a pause holds within a frame; nobody is left paused but by an order; the history is whole; VSync shows what it counts, and returns; the game sees the buttons and their edges | 1 button, VSync of -1, 0, 2; 2 VSyncs, 2 pumps or frames outside, history of 2 |
| `gpu_words` | the renderer is told what the words say; each element of a table is sent, and once | VRAM 3 by 2, 3 jobs, tables of 4 elements |
| `runner_programs` | what runs is what an R3000 does; the C stack is the calls not returned from; each branch ends a block | 8-bit words, 27 instructions, stack 6 |
| `stream_queue` | order of samples; the ring implements a queue; the whole stream is heard | ring 4, chunk 2, callback 3, 9 samples |
| `xa_seek` | one channel per stream, from its own seek, within the scan window; the last seek is played; shutdown joins; in the end only the last stream is heard | ring 3, 2 seeks, window 1, 7 sectors |
| `spu_notes` | a voice plays its own block and stays in its loop; the envelope goes forward and its phases end | 2 notes, 1 upload, 5 blocks of 3 samples |
| `gpu_bleeding`, `runner_unaligned` | two comments the code departs from, see below | as `gpu_words`, `runner_programs` |

Some invariants are conjunctions of named parts: `DirectoryOK`, `StreamOK`,
`VoiceOK`, `DisplayOK`, `EachCalledOnce`, `ServerOK`, `CommandsOK`, `TablesSent`,
`TranslationOK`, and the inductive `ChainsInv` and `Inv` of the proofs. Where a
module has no `TypeOK` among its own invariants, one of these contains it.

Why the bounds are enough to be interesting:

- *Memory card.* Three blocks let two files exist and one of them grow, with the
  blocks of one file between those of the other, so a walk by neighbouring blocks
  (mutant `WriteBlockInRow`) is caught. Since a continuation can be created
  again, one file may also take all three: then the walk takes a turn and a *last*
  entry becomes *mid*. One crash
  may strike between any two saves; a second would start from a card already
  reached, with a block lost. Two units per block let a position lie inside, at the end of
  and behind a block. `MaxPos` 4 lets a transfer run off the end of a chain.
- *Fibers.* Two register contents suffice for a property that compares copies.
  Nothing else is bounded: handles, table states and entry functions are all the
  code tells apart, and history counters are saturated (`flips`).
- *Interrupt chains.* Three handlers give a chain a first, a middle and a last
  one; with two chains a handler can leave one for the other. The guard of 3 (10 in
  the code) is less than a chain of all four handlers, as it may be in the code, whose
  guard cuts such a chain off; the reach of 4 (16) is not.
- *Frame.* Two VSyncs and two pumps or shown frames allow a pump inside a VSync's
  handler and between two looks at the pad. A step of 2, a run to frame 3 and a
  history of 2 frames let orders overlap, end at one frame, and the ring wrap
  twice. A VSync(2), or a pump in a handler, injects several pads before one look. VSync(-1) does not wait, VSync(0) and VSync(2) wait for one and two.
- *GPU.* Words are of every type, and three jobs let a command be begun by one, cut by a
  reset and finished by another. Rectangles have none to four pixels, an odd
  number included, and one is wider than the VRAM. Four elements contain every
  shape of table: straight, rings of one to four, rings behind up to three elements. 8 visits (65536 in
  the code) are never reached, as they should not be.
- *Programs.* `AllGames` has 27 instructions in three functions, one of which
  returns early and is split in two, and an overlay; calls of all of them from compiled and
  interpreted code, branches of each kind to each kind of place (own block, delay slot,
  other piece, other function, overlay), and each operation on signed and
  unsigned extremes, compiled and interpreted. The backward search for a function's start is bounded by 6 instructions (`MaxSearch`, 4096
  in the code), which cuts the first function in two. Words of 8 bits with 4-bit
  immediates have the same carries, signs and extensions as 32 and 16.
- *Ring.* With 4 slots and 9 samples both indices wrap at least twice; chunk 2 and
  callback 3 do not divide the ring. The 9 samples are the only bound the proofs
  remove together with the sizes.
- *XA.* Two seeks are the least that can replace each other, be served one after
  the other, or cut off a stream in the middle of a chunk. Ratio 2/3 stands for
  the 37800/44100 = 6/7 of the code: it has, like that, a remainder carried from
  chunk to chunk. Window 1 stands for 20.
- *SPU.* A one-shot sample, a loop of two blocks, a free block and the end of the
  RAM are the ways a sample goes on. `BlockLen` 3 with `MaxAdv` 2 keeps that a
  tick never skips a block.

No run uses symmetry. Only `frame` does not check for deadlock: after its last VSync and its last
frame the game calls nothing more.

### Fairness

- `CallStep` of `MemCard`: weak. A BIOS call runs on the calling thread to its
  end and waits for nothing.
- `MainStep` of `Fibers`: weak; the main loop is a loop that calls the
  scheduler. `WorkerStep` (a fiber yields or ends): weak; the runner is
  cooperative, so a thread that never yields would hang it as it would hang the
  original. The display's own restarts are *not* assumed or excluded.
- `PumpStep` of `IntChains`: weak; VSync runs on, and a handler returns. How many calls
  it makes before is not assumed.
- `ThreadStep` of `Frame`: weak; the thread runs, and a sixtieth of a second goes by.
  The client's commands and pumps are not assumed; the property `VSyncReturns` has the
  client's hypothesis, that it does not pause for ever, in its own statement.
- `Decoder` of the streams: weak; the thread sleeps and polls, and nothing makes
  it wait for another. `Listener`: weak in `AudioStream`, since the device calls
  back while it is open. `xa_seek` assumes only the decoder, since a shutdown
  closes the device first; the property `Settles` alone, which is about what is
  heard, names the callback's fairness as its hypothesis.
- `Tick` of `SpuVoice`: weak, for the same device.

### Disagreements between code and comments

Two runs check what a comment says and find a behaviour of the code that differs:

| run | comment | code |
|---|---|---|
| `runner_unaligned` | `code_generator.cpp:1428-1441`, the emitted psx_lwl and psx_lwr implement LWL and LWR: `(rt_value & ~mask) \| (word << shift)` | they return `(rt_value & ~mask) \| (word & mask)` (1455, 1473; do_lwl and do_lwr at `runtime.c:1403-1416` likewise): the bytes keep the lanes they had in memory |
| `gpu_bleeding` | `runtime.c:6340-6344` and `gpu_interpreter.h:34-37`, an upload begun by an element of a table is aborted behind it | the call of gpu_abort_streaming is commented out (6345, 1131): the next elements are its pixels |

More of them were met while modelling; they are part of the models, and noted with their hazards:

- `runtime.c:2503`, creating a file that exists returns -1; a continuation block
  has no name, so it is created again each time.
- `runtime.c:229`, `pos` is the read/write position; `write` walks the chain to the
  block of `pos`, `read` starts in the descriptor's own block.
- `runtime.c:753-757`, a flag has the scheduler repair TCB[0]; `g_display_ready` is
  written and never read, only the yield repairs.
- `xa_audio.h:22`, read_pcm consumes decoded samples; an index reset between the
  callback's loads and its store hands out slots that were never written, until the ring has gone
  round (`Settles`: it recovers).
- `spu.cpp:286`, loop-repeat jumps to the loop start; the block decoded at the
  jump is not asked whether it ends the loop, so a loop of one block is left.
- `gpu_interpreter.cpp:356` and 594, a polyline has a variable number of vertices, up to
  0x55555555; its count is -1, which the header alone reaches (257), so it draws nothing and its
  vertices are taken for commands. The words of the runs and of the theorem begin none.

## 5. Proofs

All theorems are checked by TLAPS for every value of the constants that the
named assumptions allow. These say that bounds are naturals and that special values
differ from ordinary ones, and in four places what the code or its input gives:
`MaxAdv < BlockLen` (16 against 28), the rates of XA below the output's, a word of the
processor has a power of two of bits and at least four (32), and of a game
its shape (its code is instructions with the fields of their format, register zero starts as
zero, addresses are words, the kernel's entry is no address of the program, the
executable's entry point is a forced function, and what `Kuseg` names is none of its KSEG0 addresses).

| theorem | says | invariant |
|---|---|---|
| `MemCardProofs!TypeCorrect` | types, with crashes and any save faults | `TypeOK` is inductive, with the bound on a write in progress |
| `MemCardProofs!ChainsSound` | chains are disjoint and end, if no save fails | `ChainsInv` |
| `MemCardProofs!NothingIsFreed` | no block is freed and no link changed, if no save fails | `ChainsInv` |
| `MemCardProofs!SoundTillRestart` | the same chains, whatever fails, until the first restart | `Apart` |
| `MemCardProofs!DirectoryAlwaysOK` | names are unique and descriptors on used blocks, whatever fails | `DirectoryInv` |
| `MemCardProofs!DataStaysInFile` | a write changes only its own file, if no save fails | `QuietInv` |
| `MemCardProofs!OrphansAlwaysCounted` | a crash leaks at most one block, if no save fails | `QuietInv` |
| `MemCardProofs!CardIsFiles` | `MemCard` implements `CardFiles`, if no save fails | `QuietInv` |
| `FibersProofs!TypeCorrect`, `BanksAlwaysHold` | types; a suspended fiber's bank holds its registers | `Inv` |
| `FibersProofs!RegistersAlwaysComeBack` | a fiber switched to finds them | the same |
| `FibersProofs!CurrentBlockAlwaysMine` | in a scheduled game 0x1D4 names the running fiber | `SchedInv` |
| `FibersProofs!DisplayAlwaysOK` | in a scheduled game the display runs its block's entry and flips at most once between yields | `SchedInv` |
| `IntChainsProofs!TypeCorrect` | types, and no turn calls more handlers than the guard allows, rings included | `TypeOK` is inductive |
| `IntChainsProofs!ChainsAlwaysHoldQueues` | a chain is what was enqueued and not dequeued, if `HandlersFit` | `ChainInv` |
| `IntChainsProofs!AlwaysCalledOnce` | VSync calls each handler that stays linked once, or as many as its guard allows, if `HandlersFit` | `WalkInv` |
| `FrameProofs!StopsExactly` | a step and a run stop the game at their frame and keep it there | `IInv` |
| `FrameProofs!PausesInTime` | at most one frame is shown after a pause was read | `IInv` |
| `FrameProofs!ServerAlwaysOK` | nobody is left paused but by an order; the history holds the last frames | `ServerInv` |
| `FrameProofs!FramesAlwaysShown` | VSync waits for its frames; what was counted was shown | `ServerInv` |
| `FrameProofs!InputAlwaysSeen` | the game sees the buttons, and each press as one, up to what the frames of one VSync hide | `ServerInv` |
| `RunnerProofs!CallsAlwaysComeBack` | the C stack is the calls the program has not returned from | `CallInv` |
| `RunnerProofs!BranchesAlwaysTranslated` | a branch ends its block, or its delay slot is a branch | `Translated` |
| `RunnerProofs!ProgramAlwaysComputed` | `Runner` implements `R3000`, if `Aligned` | `ProgramInv` |
| `RunnerProofs!TranslationAlwaysOK` | the same for branches, with the types of frames, registers and memory | `ProgramInv` |
| `AudioProofs!TypesAlwaysOK` | indices stay in the ring | `IInv` |
| `AudioProofs!AlwaysFifo` | samples are copied out in order, none lost, repeated or torn | `IInv` |
| `AudioProofs!AlwaysImplementsQueue` | `AudioStream` implements `SampleQueue` | `IInv` |
| `AudioProofs!StreamAlwaysOK` | what is heard is of one channel of one stream, found within the window | `StreamInv` |
| `SpuVoiceProofs!AlwaysOwnBlocks` | a voice sounds only its own note | `Counters /\ OwnBlocks` |
| `SpuVoiceProofs!AlwaysPhaseForward` | the envelope goes forward between key-ons | `Counters` |
| `SpuVoiceProofs!AlwaysVoiceOK` | types; a voice stays in its sample, if `SamplesLoop` | `VInv` |
| `GpuProofs!CommandsAlwaysDrawn` | the renderer is told what the words say, however they are spread, if `NoPolylines` | `CommandsInv`, `WalkInv` |
| `GpuProofs!TablesAlwaysSent` | elements are sent along the links, once, and to the end, if `TablesFit` | `WalkInv` |

Some theorems have a hypothesis besides the assumptions, each evaluated by TLC on its
instance: `Quiet` (no save fails; `card_faults` shows that a cut file does break the
chains after a restart, where only names and descriptors stay sound), `HandlersFit`
(no more handlers than SysDeqIntRP looks at: with more, a handler behind its reach
stays linked though it was dequeued), `SamplesLoop` (every sample in the RAM ends, and
a loop starts before the block that ends it: see the hazard at `spu.cpp:294`), `TablesFit`
(no ordering table has more elements than the 65536 a walk visits: the rest of a longer
one would not be sent), `NoPolylines` (no word begins a polyline, for which the theorem is
false: see section 4) and `Aligned` (no program has an `lwl` or `lwr`: their translation is the finding of `runner_unaligned`,
so for them the theorem is false).

*Induction.* The library's induction theorems cannot be used, but the well-foundedness
of the strict subset relation can: the intervals `0..x` over a set of naturals have
a least one, so the set has a least element, and a set without a least gap has all
of them (`EveryNat`). That is enough for the lengths of chains, queues, discs and functions.

*Chains.* That chains are disjoint and end is not inductive: a crash replaces the
card by the file, and the link step joins two blocks whose states were read
several steps before. `ChainsInv` adds `Synced` (the file equals memory, or is
absent and memory is as formatted, so a crash changes nothing) and `NewBlockApart`
(the block to be linked is a chain of its own and the walk is in another one).
`ChainsEnd` is stated over sets (every non-empty set of used blocks has a block
whose link leaves it), so that no induction over a chain is needed: the proof
takes the new block out of the set. Until a restart the file is not read, so `Apart`,
`ChainsInv` without `Synced`, is inductive whatever a save does.

*Files.* `DirectoryInv` holds also of what a cut save leaves in the file: the entries that
are missing read as free, so no name is there twice. `FilesInv` says who owns what: a
block whose data a descriptor wrote is reached from a first block of that base name,
and so are the block of every descriptor and the place of the walk in progress. Chains
only grow (`Grows`), so what is owned stays owned. `Reach` is proved to be the
least set closed under links and the union of the hops of a walk; a walk in progress
is a hop. The refinement maps a name to the blocks its first blocks reach; a link
that takes a block out of the orphans is the abstract step that adds it to the file.

*Banks.* A step that switches fibers saves to one bank and loads from another;
`Prepared` collects what `ChangeThread` may assume of waits and banks that an
OpenThread in the same step has already changed, so that `SwitchKeepsBanks` is
proved once for dispatching, opening and direct switches.

*Scheduler.* `SchedInv` adds, for scheduled games, what the table of thread blocks says
of the fibers: which block is open and whose it is (`BlocksOK`, `RunsFromBlock`), and which
entry function the display runs or *will* run, since it is replaced while it is
suspended and restarted only when it is dispatched (`EntryKept`).

*Interrupt chains.* For types nothing is assumed of the lists: `TypeOK` holds of rings and of chains
torn by a handler. Its last conjunct, a handler runs only below the guard, is what
makes the guard's bound inductive. `ChainInv` says that links are the queues and that
no handler has two places. `WalkInv` gives VSync a place in its queue, in front of
which everything that stayed was called and behind which nothing was: while a
handler runs, the place is behind it or, when it took itself out, where its link
still leads. A walk cut off by the guard has called as many handlers as the guard says, and no
one twice, whatever is left. Enqueueing moves the place by one, dequeueing in front of it moves it back.

*Frame.* The argument is about the shape of the calls: in whatever way pumps, handlers and
VSyncs are nested, each *present* in `todo` is followed by *poll, wait* (`Shape`,
kept by lemmas about lists put in front of others). `Orders` relates the
countdown and the target to the frame where the client's order ends. `Held` says that
when an order has ended, or a frame was shown while paused, the thread is in its wait:
so nothing is shown before a command lets the game go. `PauseWithinAFrame` follows, since a second frame would
have to pass that wait. `ServerInv` refines the shape to which step may follow
which (`Path`), and relates to the place in it the VBlanks counted and not yet shown (`Clock`),
the frames since VSync began (`Progress`), and what the pad words were compared
with (`Compared`, `LookReady`).

*Calls.* `CallInv` says of a program that has kept to the conventions that the frames
below the top are where their callees return to (`Owed`), that no function runs past
the exit of its block, and that execution entered each block from a predecessor
(`Reached`). The last is what makes it inductive: whether C falls through at the end
of a function depends on a predecessor's exit (`FallsThrough`), and without it a function
could end on a delay slot nobody reaches. Each way on (a block, another piece, a
call, a tail call, compiled or not) replaces, pushes or pops one frame, so three lemmas
about the stack serve twelve actions.

*Processor.* `ProgramInv` adds to `CallInv` that registers, memory and the addresses of
frames are words. `Does(a, b)` is what the processor does at `a` when it comes to `b`;
each action of `Runner` is shown to be one (`StatementDoes`, `BranchDoes`, ...,
`InterpretJumpDoes`) or to leave machine and address alone. Four facts carry the
argument. First, C's expressions are the instructions' results (`CResultIs`): casts,
masks and shifts of words, from lemmas about powers of two and bits (`PowerAdds`,
`OfBitsIs`, `LowMask`, `ShiftAmount`), which `EveryNat` gives where induction would.
Second, the recompiler writes the link behind the delay slot and the processor before
it: `LinkCommutes` shows that the order does not matter as long as the slot does not use
the link, which is a convention. Third, a register that a jump reads behind its delay
slot holds what it held before it (`EmittedElse`, `GoesIs`). Fourth, where the C stack
returns to is where the program returns to, by `Owed`. What divides by zero, or
overflows, is outside the conventions and outside the theorem.

*Ring.* `IInv` relates the three positions each side has (its index, its local
copy of the other's, its local position): `Counted` (what lies between `w` and
`wAt` is what was copied), `Fits` (the rest of the chunk fits the free slots seen
and the free slots there are), `Behind` (the callback's copies of the indices are
old, never wrong) and `InOrder` (each slot between `r` and `wAt` holds its
number). The ring arithmetic is proved as lemmas about `After`, `Beyond`, `Avail`
and `FreeSlots`, without `%`. The refinement maps a ring to the sequence of its
slots from `r` to `w`; `Publish` is `Put`, `PublishRead` is `Take`, and all other
steps stutter.

*Stream.* `StreamInv` names where the scan stands (`Scanned`: one behind the data
sectors counted since the last audio sector, or since the seek), what the lock was taken from
(`Locked`: the first audio sector behind the seek) and whose samples are on their way
(`Held`), through the resampler's remainder and the chunk.

*Voice.* A key-on sets `idx` to `BlockLen`, so that `OwnBlocks` holds of the new
note vacuously until `TickNext` has decoded a block for it; the proof needs that
`TickPastRam` deactivates the voice, and that an active voice is never `Off`,
without which an envelope step would have no phase to go to. For the sample, `InSample`
adds that the next block to decode is not behind the sample's end, and that the
voice has seen the loop's start if it has passed it (`LoopSeen`), so that the jump back
goes there and to no older repeat address.

*Ordering tables.* `Leads(h)` is the trail of links as a function of all natural numbers.
`WalkInv` says of some trail that what was sent are its first elements (`SentAlong`), that the
walk stands at the next and the hare at twice the distance (`OnTheWay`), and that the
two have not met; of a walk that is over, why (`Over`). The rest is about trails. If
`h[i] = h[i + p]`, the trail repeats from `i` on, with a period among any
`p` numbers in a row (`Periodic`), so the two pointers meet at or before the first repetition (`Meeting`):
hence no element is sent twice (`SentNew`). If they meet away from the first element,
the links lead neither to an end nor back there (`RoundBehind`). That `Path` has
an end at all is the pigeonhole principle (`NotAllNew`).

*Commands.* `CommandInv` splits the words sent since the last reset into words `a` that are
`Whole` (what follows does not change what they say), all of them told, and the words `b` of
the unfinished command, which `Pending` relates to the interpreter's state: its
parameters, or the sides and the pixels so far of a running upload. One word more
(`WordTaken`) leaves the command unfinished or completes it (`Taken`); then
`MeaningCommand` moves it to the whole part. That the count of a header is what the handler
reads is `CountIsRead`, and the odd last pixel of an upload is in `StreamedTakes`.
The equations of the recursive functions `Meaning` and `SubmittedAll` come from
solutions constructed with `EveryNat` (`SayingExists`, `SubmittedAllIs`).

Checked by TLC only:

- liveness (`CallsEnd`, `DisplayRunsAgain`, `ReadyWorkerRuns`, `PumpEnds`,
  `VSyncReturns`, `Drained`, `LastSeekWins`, `Joined`, `Settles`,
  `EnvelopeAdvances`): fairness is out of the prover's reach;
- what the code does not do: end an upload with its element (`gpu_bleeding`), load unaligned words as the processor does (`runner_unaligned`).

## 6. Plan

Written so far: memory card, threads, interrupt chains, frame and debug server,
GPU words and ordering tables, recompiler and runner, the ring with one stream, XA,
one voice. What would come next, in the order of what it adds:

1. `FmvPlayer`: chunks counted into frames, seeks, end conditions, the deferred
   upload; all on the main thread. Property: a frame is decoded from its own chunks.
2. `SioPad`: the port's byte protocol as a state machine, with polls in any order.
3. `MemCard`: the other slot, firstfile/nextfile, seek arithmetic at its width.
4. `KernelHeap`, `CdRead`: 32-bit arithmetic of the allocator and of positions,
   with % 2^32 scaled down; a read that fails half-way.
5. `Runner`: jump tables, byte and half-word memory, branch-and-link.

Every safety invariant and every action property of the passing runs, and every refinement,
has its theorem; a new module brings its own. What stays with TLC is named in section 5.

## 7. Not modelled

- GTE, renderer, WAV and disc-image parsing, the text of the emitted C, the
  launcher: computation or output without state that several steps share.
- Input script, overlay manager and detector, save states: built, but nothing in
  `src/` calls them.
- Kernel heap and strings, CD commands: a bump pointer and synchronous reads; each call
  stands alone.
- The FMV player and the byte protocol of the controller port: planned.
- The per-address overrides patch one game's functions; those that carry a protocol
  (scheduler, VSync, DrawOTag, thread calls, pad) are in the modules.

`PROJECT.json` lists each component with what is left out
of it, and the hazards no property covers yet.
