------------------------------ MODULE MemCard ------------------------------
(***************************************************************************)
(* The memory card of the runner (runtime.c): a raw card image held in     *)
(* memory, rewritten as a whole to memcard/slotN.mcd after every change,   *)
(* and the BIOS file calls B(0x32)..B(0x36) on top of it.                  *)
(*                                                                         *)
(* One slot is modelled: the two slots share nothing but the descriptor    *)
(* table.  A block number stands for the `block - 1' the code stores, and  *)
(* a position counts units of 1/BlockUnits block instead of bytes.  The    *)
(* program is single-threaded here; what interleaves with a call is a      *)
(* crash, so every call is cut into one step per mc_save_card.             *)
(***************************************************************************)
EXTENDS Integers, FiniteSets

CONSTANTS
  NumBlocks,   \* data blocks of the card (15)
  BlockUnits,  \* units of position in a block (8192 bytes)
  Files,       \* base names; <<f, 0>> is "f-00", <<f, k>> is "f-0k"
  MaxIndex,    \* bound: the highest continuation suffix a caller uses
  NumFds,      \* size of s_mc_fds (4)
  MaxPos,      \* bound: positions a caller seeks or transfers to
  MaxCrashes,  \* bound: process deaths in a behaviour
  SaveFaults,  \* may fopen/fwrite fail or be cut short?
  NoFile,      \* no base name: the name field is all zeros
  Absent       \* there is no file on disk

ASSUME BlocksAssumption == NumBlocks \in Nat \ {0} /\ BlockUnits \in Nat \ {0}
ASSUME BoundsAssumption == MaxIndex \in Nat /\ NumFds \in Nat /\ MaxPos \in Nat
                           /\ MaxCrashes \in Nat
ASSUME FilesAssumption == NoFile \notin Files
ASSUME SaveFaultsAssumption == SaveFaults \in BOOLEAN

Blocks == 1..NumBlocks
NoNext == 0                              \* 0xFFFF, the end of a chain
Names == Files \X (0..MaxIndex)
NoName == <<NoFile, 0>>
Fds == 0..(NumFds - 1)

\* A directory entry: 0x51 first, 0xA1 mid, 0xA2 last, 0xA0 and 0x00 free.
Entry == [st : {"free", "first", "mid", "last"}, size : Nat,
          next : Blocks \cup {NoNext}, name : Names \cup {NoName}]

Formatted == [st |-> "free", size |-> 0, next |-> NoNext, name |-> NoName]
\* Bytes never read from a short file are zero: a free entry whose next
\* field, 0, names the first block.
Zeroed == [st |-> "free", size |-> 0, next |-> 1, name |-> NoName]

\* stamp[b]: the base name whose descriptor last wrote block b.
Image == [dir : [Blocks -> Entry], stamp : [Blocks -> Files \cup {NoFile}]]

ASSUME AbsentAssumption == Absent \notin Image

\* mc_format_card
FormattedCard == [dir |-> [b \in Blocks |-> Formatted],
                  stamp |-> [b \in Blocks |-> NoFile]]

Fd == [active : BOOLEAN, block : Blocks, pos : 0..MaxPos, size : Nat,
       writable : BOOLEAN, file : Files \cup {NoFile}]
ClosedFd == [active |-> FALSE, block |-> 1, pos |-> 0, size |-> 0,
             writable |-> FALSE, file |-> NoFile]

\* The call in progress: where it is, and its locals.
NoCall == [pc |-> "idle", name |-> NoName, new |-> 1, parent |-> 1,
           prev |-> 1, fd |-> 0, pos |-> 0, left |-> 0]
Call == [pc : {"idle", "walk", "size", "fd", "write"}, name : Names \cup {NoName},
         new : Blocks, parent : Blocks, prev : Blocks, fd : Nat,
         pos : 0..MaxPos, left : 0..MaxPos]

VARIABLES card,     \* s_card[slot]
          disk,     \* what memcard/slotN.mcd holds, or Absent
          fds,      \* s_mc_fds
          call,     \* the call in progress
          crashes   \* process deaths so far (bound)

vars == <<card, disk, fds, call, crashes>>
----------------------------------------------------------------------------
\* Saving and loading.

\* fopen("wb") truncates and fwrite may stop anywhere: the first k entries,
\* then the first blocks of data, reach the file.
Cut(img, k) ==
  [dir |-> [b \in Blocks |-> IF b <= k THEN img.dir[b] ELSE Zeroed],
   stamp |-> [b \in Blocks |-> IF NumBlocks + b <= k THEN img.stamp[b] ELSE NoFile]]

\* mc_save_card: no result is looked at.
SaveCard(img) ==
  disk' \in {img} \cup IF SaveFaults
                       THEN {disk} \cup {Cut(img, k) : k \in 0..(2 * NumBlocks)}
                       ELSE {}

\* mc_load_card
LoadCard(d) == IF d = Absent THEN FormattedCard ELSE d

\* Mutant: the image is read back from the file it was saved to.
StoreAndReload(img) == SaveCard(img) /\ card' = LoadCard(disk')

Store(img) == card' = img /\ SaveCard(img)
----------------------------------------------------------------------------
\* Looking things up.

\* Mutant: the last block of a chain counts as free.
FreeOrLastBlocks == {b \in Blocks : card.dir[b].st \in {"free", "last"}}

FileBlocks(n) == {b \in Blocks : card.dir[b].st = "first" /\ card.dir[b].name = n}
FreeBlocks == {b \in Blocks : card.dir[b].st = "free"}
Lowest(S) == CHOOSE x \in S : \A y \in S : x <= y

FreeFds == {i \in Fds : ~fds[i].active}
OpenFd(n, b, w) ==
  IF FreeFds = {} THEN fds
  ELSE [fds EXCEPT ![Lowest(FreeFds)] =
          [active |-> TRUE, block |-> b, pos |-> 0, size |-> card.dir[b].size,
           writable |-> w, file |-> n[1]]]

\* The block n links after b; NoNext once the chain has ended.
Hop(b, n) ==
  LET at[i \in Nat] == IF i = 0 THEN b
                       ELSE IF at[i - 1] = NoNext THEN NoNext
                       ELSE card.dir[at[i - 1]].next
  IN  at[n]

\* Mutant: the blocks of a file are taken to lie side by side.
WriteBlockInRow(fd, pos) ==
  LET b == fd.block + (pos \div BlockUnits) IN IF b \in Blocks THEN b ELSE NoNext

\* Where write starts: the block its position lies in ...
WriteBlock(fd, pos) == Hop(fd.block, pos \div BlockUnits)
\* ... and where read does: it reduces the position modulo the block size and
\* starts in the descriptor's own block, whatever the position.
ReadBlock(fd, pos, i) == Hop(fd.block, ((pos + i) \div BlockUnits) - (pos \div BlockUnits))
----------------------------------------------------------------------------
Init == /\ card = FormattedCard
        /\ disk = Absent
        /\ fds = [i \in Fds |-> ClosedFd]
        /\ call = NoCall
        /\ crashes = 0

\* open without the create flag: find, then take a descriptor.
Open(n, w) ==
  /\ call.pc = "idle"
  /\ FileBlocks(n) # {}
  /\ fds' = OpenFd(n, Lowest(FileBlocks(n)), w)
  /\ UNCHANGED <<card, disk, call, crashes>>

\* open with the create flag, up to its first save.  A name that is found, or
\* a full card, makes the call fail before it changes anything.
NewEntry(b, e) == Store([card EXCEPT !.dir[b] = e])

IsContinuation(n) == n[2] > 0 /\ FileBlocks(<<n[1], 0>>) # {}

\* Mutant: the name is not looked for.
CreateFirstAgain(n, size) ==
  /\ call.pc = "idle"
  /\ FreeBlocks # {} /\ ~IsContinuation(n)
  /\ LET b == Lowest(FreeBlocks) IN
       /\ NewEntry(b, [st |-> "first", size |-> size, next |-> NoNext, name |-> n])
       /\ call' = [NoCall EXCEPT !.pc = "fd", !.name = n, !.new = b]
  /\ UNCHANGED <<fds, crashes>>

CreateFirst(n, size) ==
  /\ call.pc = "idle"
  /\ FileBlocks(n) = {} /\ FreeBlocks # {} /\ ~IsContinuation(n)
  /\ LET b == Lowest(FreeBlocks) IN
       /\ NewEntry(b, [st |-> "first", size |-> size, next |-> NoNext, name |-> n])
       /\ call' = [NoCall EXCEPT !.pc = "fd", !.name = n, !.new = b]
  /\ UNCHANGED <<fds, crashes>>

\* Mutant: the link field of the new entry is left 0, which names block 1.
CreateContinuationZeroLink(n) ==
  /\ call.pc = "idle"
  /\ FileBlocks(n) = {} /\ FreeBlocks # {} /\ IsContinuation(n)
  /\ LET b == Lowest(FreeBlocks)
         parent == Lowest(FileBlocks(<<n[1], 0>>))
     IN  /\ NewEntry(b, [st |-> "last", size |-> 0, next |-> 1, name |-> NoName])
         /\ call' = [NoCall EXCEPT !.pc = "walk", !.name = n, !.new = b,
                                   !.parent = parent, !.prev = parent]
  /\ UNCHANGED <<fds, crashes>>

CreateContinuation(n) ==
  /\ call.pc = "idle"
  /\ FileBlocks(n) = {} /\ FreeBlocks # {} /\ IsContinuation(n)
  /\ LET b == Lowest(FreeBlocks)
         parent == Lowest(FileBlocks(<<n[1], 0>>))
     IN  /\ NewEntry(b, [st |-> "last", size |-> 0, next |-> NoNext, name |-> NoName])
         /\ call' = [NoCall EXCEPT !.pc = "walk", !.name = n, !.new = b,
                                   !.parent = parent, !.prev = parent]
  /\ UNCHANGED <<fds, crashes>>

\* while (1): one turn of the search for the end of the parent's chain.
WalkChain ==
  /\ call.pc = "walk"
  /\ card.dir[call.prev].next # NoNext
  /\ call' = [call EXCEPT !.prev = card.dir[call.prev].next]
  /\ UNCHANGED <<card, disk, fds, crashes>>

\* Mutants: the block is linked to the first entry instead of the last one
\* of the chain; the state is updated but not the link.
LinkToParent ==
  /\ call.pc = "walk"
  /\ card.dir[call.prev].next = NoNext
  /\ Store([card EXCEPT !.dir[call.parent].next = call.new])
  /\ call' = [call EXCEPT !.pc = "size"]
  /\ UNCHANGED <<fds, crashes>>

LinkNothing ==
  /\ call.pc = "walk"
  /\ card.dir[call.prev].next = NoNext
  /\ Store([card EXCEPT !.dir[call.prev].st = IF @ = "last" THEN "mid" ELSE @])
  /\ call' = [call EXCEPT !.pc = "size"]
  /\ UNCHANGED <<fds, crashes>>

LinkBlock ==
  /\ call.pc = "walk"
  /\ card.dir[call.prev].next = NoNext
  /\ Store([card EXCEPT
              !.dir[call.prev].next = call.new,
              !.dir[call.prev].st = IF @ = "last" THEN "mid" ELSE @])
  /\ call' = [call EXCEPT !.pc = "size"]
  /\ UNCHANGED <<fds, crashes>>

SetParentSize ==
  /\ call.pc = "size"
  /\ Store([card EXCEPT !.dir[call.parent].size = (call.name[2] + 1) * BlockUnits])
  /\ call' = [call EXCEPT !.pc = "fd"]
  /\ UNCHANGED <<fds, crashes>>

\* The descriptor comes last: with none left, the call fails and the file stays.
FinishCreate ==
  /\ call.pc = "fd"
  /\ fds' = OpenFd(call.name, call.new, TRUE)
  /\ call' = NoCall
  /\ UNCHANGED <<card, disk, crashes>>

\* lseek: whence 0, 1, 2 add the offset to 0, the position, the size.
Lseek(i, base, offset) ==
  /\ call.pc = "idle" /\ fds[i].active
  /\ base + offset \in 0..MaxPos
  /\ fds' = [fds EXCEPT ![i].pos = base + offset]
  /\ UNCHANGED <<card, disk, call, crashes>>

\* read: the units transferred are those up to the end of the chain.
ReadCount(fd, len) ==
  Cardinality({i \in 0..(len - 1) : ReadBlock(fd, fd.pos, i) # NoNext})

Read(i, len) ==
  /\ call.pc = "idle" /\ fds[i].active
  /\ fds[i].pos + len <= MaxPos
  /\ fds' = [fds EXCEPT ![i].pos = @ + ReadCount(fds[i], len)]
  /\ UNCHANGED <<card, disk, call, crashes>>

StartWrite(i, len) ==
  /\ call.pc = "idle" /\ fds[i].active /\ fds[i].writable
  /\ fds[i].pos + len <= MaxPos
  /\ call' = [NoCall EXCEPT !.pc = "write", !.fd = i, !.pos = fds[i].pos, !.left = len]
  /\ UNCHANGED <<card, disk, fds, crashes>>

\* One unit of a write: mc_write_sector saves the whole card every time.
WriteUnit ==
  /\ call.pc = "write" /\ call.left > 0
  /\ LET b == WriteBlock(fds[call.fd], call.pos) IN
       /\ b # NoNext
       /\ Store([card EXCEPT !.stamp[b] = fds[call.fd].file])
  /\ call' = [call EXCEPT !.pos = @ + 1, !.left = @ - 1]
  /\ UNCHANGED <<fds, crashes>>

FinishWrite ==
  /\ call.pc = "write"
  /\ call.left = 0 \/ WriteBlock(fds[call.fd], call.pos) = NoNext
  /\ fds' = [fds EXCEPT ![call.fd].pos = call.pos]
  /\ call' = NoCall
  /\ UNCHANGED <<card, disk, crashes>>

Close(i) ==
  /\ call.pc = "idle" /\ fds[i].active
  /\ fds' = [fds EXCEPT ![i].active = FALSE]
  /\ UNCHANGED <<card, disk, call, crashes>>

\* The process dies and is started again; the first card call loads the image.
Crash ==
  /\ crashes < MaxCrashes
  /\ card' = LoadCard(disk)
  /\ fds' = [i \in Fds |-> ClosedFd]
  /\ call' = NoCall
  /\ crashes' = crashes + 1
  /\ UNCHANGED disk

\* The steps a call takes by itself once it has begun.
CallStep == WalkChain \/ LinkBlock \/ SetParentSize \/ FinishCreate
            \/ WriteUnit \/ FinishWrite

Next == \/ \E n \in Names : \/ \E w \in BOOLEAN : Open(n, w)
                            \/ \E size \in {BlockUnits} : CreateFirst(n, size)
                            \/ CreateContinuation(n)
        \/ WalkChain \/ LinkBlock \/ SetParentSize \/ FinishCreate
        \/ \E i \in Fds :
             \/ \E base \in {0, fds[i].pos, fds[i].size}, offset \in -BlockUnits..BlockUnits :
                  Lseek(i, base, offset)
             \/ \E len \in 1..MaxPos : Read(i, len) \/ StartWrite(i, len)
             \/ Close(i)
        \/ WriteUnit \/ FinishWrite
        \/ Crash

Spec == Init /\ [][Next]_vars
\* A call that has begun runs: the BIOS stub never waits for anything.
FairSpec == Spec /\ WF_vars(CallStep)
----------------------------------------------------------------------------
\* The card, the file, the descriptors and the call keep their types, and a
\* write in progress stays within the positions a caller may ask for.
TypeOK == /\ card \in Image
          /\ disk \in Image \cup {Absent}
          /\ fds \in [Fds -> Fd]
          /\ call \in Call
          /\ call.pc = "write" => call.fd \in Fds /\ call.pos + call.left <= MaxPos
          /\ crashes \in 0..MaxCrashes

St(b) == card.dir[b].st
Link(b) == card.dir[b].next
Used == {b \in Blocks : St(b) # "free"}
Linked == {b \in Blocks : St(b) \in {"mid", "last"}}

\* A link joins two used blocks, leads to a continuation block, and no block
\* is linked to twice: the chains the creating open builds never share a block.
ChainsDisjoint ==
  /\ \A b \in Used : Link(b) # NoNext => Link(b) \in Linked
  /\ \A b, c \in Used : Link(b) = Link(c) /\ Link(b) # NoNext => b = c

\* No chain runs in a circle: every set of used blocks has one whose link
\* leaves the set.  The walk in the creating open (while (1)) relies on it.
ChainsEnd ==
  \A S \in SUBSET Used : S # {} => \E b \in S : Link(b) \notin S

\* The block a creating open has saved and not yet linked, and the
\* continuation blocks nothing links to.
Held == IF call.pc = "walk" THEN {call.new} ELSE {}
Orphans == {b \in Linked : \A c \in Used : Link(c) # b}

\* A continuation block is saved before the block that links to it: a crash
\* between the two saves leaks it, and no crash leaks more than one.
OrphansCounted ==
  Cardinality(Orphans \ Held) <= crashes

\* Why they hold when no save fails: the file always holds what the memory
\* does, and the block a creating open is about to link is a chain of its own.
Synced == disk = card \/ (disk = Absent /\ card = FormattedCard)
NewBlockApart ==
  call.pc = "walk" => /\ call.new \in Linked /\ Link(call.new) = NoNext
                      /\ \A b \in Used : Link(b) # call.new
                      /\ call.prev \in Used \ {call.new}
ChainsInv == TypeOK /\ Synced /\ NewBlockApart /\ ChainsDisjoint /\ ChainsEnd

\* Two first entries never carry one name, so mc_find_file finds the file.
NamesUnique ==
  \A b, c \in Blocks : /\ St(b) = "first" /\ St(c) = "first"
                       /\ card.dir[b].name = card.dir[c].name
                       => b = c

\* Blocks that can be reached from b along the links.
Reach(b) == {Hop(b, n) : n \in 0..NumBlocks} \ {NoNext}

\* The blocks of each file, as CardFiles sees them.
Content == [n \in Names |-> UNION {Reach(b) : b \in FileBlocks(n)}]
CardFilesSpec == INSTANCE CardFiles WITH content <- Content, held <- Held,
                                         lost <- Orphans \ Held

\* The directory, its links and the order of its saves implement CardFiles.
ImplementsCardFiles == CardFilesSpec!Spec

\* What a descriptor writes stays in the blocks of its own file: a block that
\* belongs to the chain of a first entry was last written under its base name.
WritesStayInFile ==
  \A b \in Blocks : St(b) = "first" =>
    \A c \in Reach(b) : card.stamp[c] \in {card.dir[b].name[1], NoFile}

\* An open descriptor stands on a block of the directory that is in use.
FdsOnUsedBlocks == \A i \in Fds : fds[i].active => fds[i].block \in Used

\* What survives failed and cut saves and a restart from what they left: types,
\* names and descriptors (mc_save_card, mc_load_card).
DirectoryOK == TypeOK /\ NamesUnique /\ FdsOnUsedBlocks

\* Used blocks and links survive everything that may happen, a crash included.
NothingFreed ==
  [][/\ Used \subseteq Used'
     /\ \A b \in Used : Link(b) # NoNext => Link(b)' = Link(b)]_vars

\* A save that fails or is cut short does no harm before the next restart:
\* the image in memory stays sound.
SoundUntilRestart == crashes = 0 => ChainsDisjoint /\ ChainsEnd

\* Every call ends; a creating open does not walk for ever.
CallsEnd == (call.pc # "idle") ~> (call.pc = "idle")
============================================================================
