--------------------------- MODULE MemCardProofs ---------------------------
(***************************************************************************)
(* Proofs about MemCard, for every number of blocks, descriptors and base  *)
(* names, and every number of crashes.                                     *)
(***************************************************************************)
EXTENDS MemCard, FiniteSetTheorems, WellFoundedInduction, TLAPS

USE BlocksAssumption, BoundsAssumption, FilesAssumption, SaveFaultsAssumption

\* A non-empty set of naturals has a least element, so Lowest chooses it.
LEMMA LowestInSet ==
  ASSUME NEW S \in SUBSET Nat, S # {}
  PROVE  Lowest(S) \in S /\ \A y \in S : Lowest(S) <= y
<1>. DEFINE T == {0..x : x \in S}
<1>1. T \subseteq FiniteSubsetsOf(Nat) /\ T # {}
  <2>1. \A x \in S : 0..x \in SUBSET Nat /\ IsFiniteSet(0..x)
    BY FS_Interval
  <2>. QED  BY <2>1 DEF FiniteSubsetsOf
<1>2. PICK t \in T : \A u \in T : <<u, t>> \notin StrictSubsetOrdering(Nat)
  <2>. HIDE DEF T
  <2>. QED  BY <1>1, FS_StrictSubsetOrderingWellFounded, WFMin
<1>3. PICK x \in S : t = 0..x
  OBVIOUS
<1>4. \A y \in S : x <= y
  <2>. SUFFICES ASSUME NEW y \in S, y < x PROVE FALSE
    OBVIOUS
  <2>1. 0..y \in T /\ 0..y \subseteq 0..x /\ 0..y # 0..x
    <3>1. x \in 0..x /\ x \notin 0..y
      OBVIOUS
    <3>. QED  BY <3>1
  <2>2. <<0..y, 0..x>> \in StrictSubsetOrdering(Nat)
    BY <2>1 DEF StrictSubsetOrdering
  <2>. QED  BY <1>2, <1>3, <2>1, <2>2
<1>. QED  BY <1>4 DEF Lowest

\* What reaches the file, and what a restart loads, is always a card image.
LEMMA ImagesStayImages ==
  /\ FormattedCard \in Image
  /\ \A img \in Image, k \in Nat : Cut(img, k) \in Image
<1>. QED  BY DEF FormattedCard, Formatted, Cut, Zeroed, Image, Entry, NoName, Blocks

\* A save leaves card images in memory and on disk.
LEMMA StoreKeepsImages ==
  ASSUME NEW img \in Image, disk \in Image \cup {Absent}, Store(img)
  PROVE  card' \in Image /\ disk' \in Image \cup {Absent}
<1>. QED  BY ImagesStayImages DEF Store, SaveCard

\* read transfers at most what it is asked for.
LEMMA ReadCountBounded ==
  ASSUME NEW fd, NEW len \in Nat
  PROVE  ReadCount(fd, len) \in 0..len
<1>. DEFINE T == {i \in 0..(len - 1) : ReadBlock(fd, fd.pos, i) # NoNext}
<1>1. IsFiniteSet(0..(len - 1)) /\ Cardinality(0..(len - 1)) <= len
  BY FS_Interval
<1>2. IsFiniteSet(T) /\ Cardinality(T) <= Cardinality(0..(len - 1))
  BY <1>1, FS_Subset
<1>. HIDE DEF T
<1>3. Cardinality(T) \in Nat
  BY <1>2, FS_CardinalityType
<1>4. Cardinality(T) \in 0..len
  BY <1>1, <1>2, <1>3, FS_CardinalityType
<1>. QED  BY <1>4 DEF ReadCount, T

\* The locals of a call that sets out.
LEMMA CallType ==
  /\ NoCall \in Call
  /\ \A pc \in {"walk", "fd"}, n \in Names, b, p \in Blocks :
       /\ [NoCall EXCEPT !.pc = pc, !.name = n, !.new = b] \in Call
       /\ [NoCall EXCEPT !.pc = pc, !.name = n, !.new = b, !.parent = p, !.prev = p]
            \in Call
<1>1. NoCall \in Call
  BY DEF NoCall, Call, Blocks, NoName
<1>. QED  BY <1>1 DEF Call

\* The descriptor that is taken is one of the table.
LEMMA FreeFdType == FreeFds # {} => Lowest(FreeFds) \in Fds
<1>1. FreeFds \in SUBSET Nat
  BY DEF FreeFds, Fds
<1>. QED  BY <1>1, LowestInSet DEF FreeFds

\* Taking a descriptor, if there is one, leaves a descriptor table.
LEMMA OpenFdType ==
  ASSUME TypeOK, NEW n \in Names, NEW b \in Blocks, NEW w \in BOOLEAN
  PROVE  OpenFd(n, b, w) \in [Fds -> Fd]
<1>1. FreeFds # {} => Lowest(FreeFds) \in Fds
  BY FreeFdType
<1>2. card.dir[b].size \in Nat
  BY DEF TypeOK, Image, Entry
<1>3. [active |-> TRUE, block |-> b, pos |-> 0, size |-> card.dir[b].size,
       writable |-> w, file |-> n[1]] \in Fd
  BY <1>2 DEF Fd, Names
<1>. QED  BY <1>1, <1>3 DEF OpenFd, TypeOK
----------------------------------------------------------------------------
\* The runner starts with a formatted card, no file and no descriptor.
LEMMA TypeInit == Init => TypeOK
<1>. SUFFICES ASSUME Init PROVE TypeOK
  OBVIOUS
<1>1. ClosedFd \in Fd
  BY DEF ClosedFd, Fd, Blocks
<1>2. NoCall \in Call /\ NoCall.pc # "write"
  BY DEF NoCall, Call, Blocks, NoName
<1>. QED  BY <1>1, <1>2, ImagesStayImages DEF Init, TypeOK

\* Every step keeps the types.
LEMMA TypeStep == TypeOK /\ [Next]_vars => TypeOK'
<1>. SUFFICES ASSUME TypeOK, [Next]_vars PROVE TypeOK'
  OBVIOUS
<1>. USE DEF TypeOK
<1>1. ASSUME NEW n \in Names, NEW w \in BOOLEAN, Open(n, w) PROVE TypeOK'
  <2>1. Lowest(FileBlocks(n)) \in Blocks
    BY <1>1, LowestInSet DEF Open, FileBlocks, Blocks
  <2>. QED  BY <1>1, <2>1, OpenFdType DEF Open
<1>2. ASSUME NEW n \in Names, NEW size \in Nat, CreateFirst(n, size) PROVE TypeOK'
  <2>. DEFINE b == Lowest(FreeBlocks)
              e == [st |-> "first", size |-> size, next |-> NoNext, name |-> n]
  <2>1. b \in Blocks
    BY <1>2, LowestInSet DEF CreateFirst, FreeBlocks, Blocks
  <2>2. e \in Entry
    BY DEF Entry
  <2>3. [card EXCEPT !.dir[b] = e] \in Image
    BY <2>1, <2>2 DEF Image
  <2>4. card' \in Image /\ disk' \in Image \cup {Absent}
    BY <1>2, <2>3, StoreKeepsImages DEF CreateFirst, NewEntry
  <2>5. call' \in Call /\ call'.pc = "fd"
    <3>1. call' = [NoCall EXCEPT !.pc = "fd", !.name = n, !.new = b]
      BY <1>2 DEF CreateFirst
    <3>. QED  BY <2>1, <3>1, CallType DEF NoCall
  <2>. QED  BY <1>2, <2>4, <2>5 DEF CreateFirst
<1>3. ASSUME NEW n \in Names, CreateContinuation(n) PROVE TypeOK'
  <2>. DEFINE b == Lowest(FreeBlocks)
              e == [st |-> "last", size |-> 0, next |-> NoNext, name |-> NoName]
              parent == Lowest(FileBlocks(<<n[1], 0>>))
  <2>1. b \in Blocks
    BY <1>3, LowestInSet DEF CreateContinuation, FreeBlocks, Blocks
  <2>2. parent \in Blocks
    BY <1>3, LowestInSet DEF CreateContinuation, IsContinuation, FileBlocks, Blocks
  <2>3. e \in Entry
    BY DEF Entry
  <2>4. [card EXCEPT !.dir[b] = e] \in Image
    BY <2>1, <2>3 DEF Image
  <2>5. card' \in Image /\ disk' \in Image \cup {Absent}
    BY <1>3, <2>4, StoreKeepsImages DEF CreateContinuation, NewEntry
  <2>6. call' \in Call /\ call'.pc = "walk"
    <3>1. call' = [NoCall EXCEPT !.pc = "walk", !.name = n, !.new = b,
                                 !.parent = parent, !.prev = parent]
      BY <1>3 DEF CreateContinuation
    <3>. QED  BY <2>1, <2>2, <3>1, CallType DEF NoCall
  <2>. QED  BY <1>3, <2>5, <2>6 DEF CreateContinuation
<1>4. CASE WalkChain
  <2>1. card.dir[call.prev].next \in Blocks
    BY <1>4 DEF WalkChain, Image, Entry, Call
  <2>2. call' \in Call /\ call'.pc # "write"
    BY <1>4, <2>1 DEF WalkChain, Call
  <2>. QED  BY <1>4, <2>2 DEF WalkChain
<1>5. CASE LinkBlock
  <2>. DEFINE new == [card EXCEPT !.dir[call.prev].next = call.new,
                                  !.dir[call.prev].st = IF @ = "last" THEN "mid" ELSE @]
  <2>1. call.prev \in Blocks /\ call.new \in Blocks
    BY DEF Call
  <2>2. card.dir[call.prev] \in Entry
    BY <2>1 DEF Image
  <2>3. [[card.dir[call.prev] EXCEPT !.next = call.new]
            EXCEPT !.st = IF @ = "last" THEN "mid" ELSE @] \in Entry
    BY <2>1, <2>2 DEF Entry
  <2>4. new \in Image
    <3>. DEFINE e == [[card.dir[call.prev] EXCEPT !.next = call.new]
                        EXCEPT !.st = IF @ = "last" THEN "mid" ELSE @]
    <3>1. new = [card EXCEPT !.dir = [card.dir EXCEPT ![call.prev] = e]]
      BY <2>1 DEF Image, Entry
    <3>2. e \in Entry
      BY <2>3
    <3>. HIDE DEF e, new
    <3>. QED  BY <2>1, <3>1, <3>2 DEF Image
  <2>5. card' \in Image /\ disk' \in Image \cup {Absent}
    BY <1>5, <2>4, StoreKeepsImages DEF LinkBlock
  <2>6. call' \in Call /\ call'.pc # "write"
    BY <1>5 DEF LinkBlock, Call
  <2>. QED  BY <1>5, <2>5, <2>6 DEF LinkBlock
<1>6. CASE SetParentSize
  <2>. DEFINE total == (call.name[2] + 1) * BlockUnits
              new == [card EXCEPT !.dir[call.parent].size = total]
  <2>1. total \in Nat
    BY DEF Call, Names, NoName
  <2>2. call.parent \in Blocks
    BY DEF Call
  <2>3. [card.dir[call.parent] EXCEPT !.size = total] \in Entry
    BY <2>1, <2>2 DEF Image, Entry
  <2>4. new \in Image
    BY <2>2, <2>3 DEF Image
  <2>5. card' \in Image /\ disk' \in Image \cup {Absent}
    BY <1>6, <2>4, StoreKeepsImages DEF SetParentSize
  <2>6. call' \in Call /\ call'.pc # "write"
    BY <1>6 DEF SetParentSize, Call
  <2>. QED  BY <1>6, <2>5, <2>6 DEF SetParentSize
<1>7. CASE FinishCreate
  <2>1. NoCall \in Call /\ NoCall.pc # "write"
    BY DEF NoCall, Call, Blocks
  <2>2. fds' \in [Fds -> Fd]
    <3>1. call.new \in Blocks
      BY DEF Call
    <3>2. CASE call.name \in Names
      BY <1>7, <3>1, <3>2, OpenFdType DEF FinishCreate
    <3>3. CASE call.name = NoName
      <4>1. FreeFds # {} => Lowest(FreeFds) \in Fds
        BY FreeFdType
      <4>2. [active |-> TRUE, block |-> call.new, pos |-> 0,
             size |-> card.dir[call.new].size, writable |-> TRUE,
             file |-> NoName[1]] \in Fd
        BY <3>1 DEF Fd, NoName, Image, Entry
      <4>. QED  BY <1>7, <3>3, <4>1, <4>2 DEF FinishCreate, OpenFd
    <3>. QED  BY <3>2, <3>3 DEF Call
  <2>. QED  BY <1>7, <2>1, <2>2 DEF FinishCreate
<1>8. ASSUME NEW i \in Fds, NEW base, NEW offset \in Int, Lseek(i, base, offset)
      PROVE  TypeOK'
  BY <1>8 DEF Lseek, Fd
<1>9. ASSUME NEW i \in Fds, NEW len \in 1..MaxPos, Read(i, len) PROVE TypeOK'
  <2>. DEFINE n == ReadCount(fds[i], len)
  <2>1. n \in 0..len
    BY ReadCountBounded
  <2>. HIDE DEF n
  <2>2. fds[i].pos + n \in 0..MaxPos
    BY <1>9, <2>1 DEF Read, Fd
  <2>3. fds' = [fds EXCEPT ![i].pos = fds[i].pos + n]
    BY <1>9 DEF Read, n
  <2>4. [fds[i] EXCEPT !.pos = fds[i].pos + n] \in Fd
    BY <2>2 DEF Fd
  <2>. QED  BY <1>9, <2>3, <2>4 DEF Read
<1>10. ASSUME NEW i \in Fds, NEW len \in 1..MaxPos, StartWrite(i, len) PROVE TypeOK'
  <2>1. fds[i].pos \in 0..MaxPos /\ i \in Nat
    BY DEF Fd, Fds
  <2>2. call' \in Call /\ call'.fd = i /\ call'.pos + call'.left <= MaxPos
    <3>1. call' = [NoCall EXCEPT !.pc = "write", !.fd = i, !.pos = fds[i].pos, !.left = len]
      BY <1>10 DEF StartWrite
    <3>2. len \in 0..MaxPos
      OBVIOUS
    <3>3. call' \in Call
      BY <2>1, <3>1, <3>2, CallType DEF Call
    <3>. QED  BY <1>10, <2>1, <3>1, <3>2, <3>3 DEF NoCall, StartWrite
  <2>. QED  BY <1>10, <2>2 DEF StartWrite
<1>11. ASSUME NEW i \in Fds, Close(i) PROVE TypeOK'
  BY <1>11 DEF Close, Fd
<1>12. CASE WriteUnit
  <2>. DEFINE b == WriteBlock(fds[call.fd], call.pos)
              new == [card EXCEPT !.stamp[b] = fds[call.fd].file]
  <2>1. fds[call.fd].file \in Files \cup {NoFile}
    BY <1>12 DEF WriteUnit, Fd
  <2>2. new \in Image
    <3>. HIDE DEF b
    <3>. QED  BY <2>1 DEF Image
  <2>3. card' \in Image /\ disk' \in Image \cup {Absent}
    BY <1>12, <2>2, StoreKeepsImages DEF WriteUnit
  <2>4. call' \in Call /\ call'.fd = call.fd /\ call'.pos + call'.left <= MaxPos
    <3>1. call' = [call EXCEPT !.pos = call.pos + 1, !.left = call.left - 1]
      BY <1>12 DEF WriteUnit
    <3>2. call.pos \in 0..MaxPos /\ call.left \in 1..MaxPos
      BY <1>12 DEF WriteUnit, Call
    <3>3. call.pos + 1 \in 0..MaxPos /\ call.left - 1 \in 0..MaxPos
      BY <1>12, <3>2 DEF WriteUnit
    <3>4. call'.pos + call'.left <= MaxPos
      BY <1>12, <3>1, <3>2 DEF WriteUnit, Call
    <3>. QED  BY <3>1, <3>3, <3>4 DEF Call
  <2>. QED  BY <1>12, <2>3, <2>4 DEF WriteUnit
<1>13. CASE FinishWrite
  <2>1. NoCall \in Call /\ NoCall.pc # "write"
    BY DEF NoCall, Call, Blocks
  <2>2. fds' \in [Fds -> Fd]
    BY <1>13 DEF FinishWrite, Fd, Call
  <2>. QED  BY <1>13, <2>1, <2>2 DEF FinishWrite
<1>14. CASE Crash
  <2>1. ClosedFd \in Fd
    BY DEF ClosedFd, Fd, Blocks
  <2>2. NoCall \in Call /\ NoCall.pc # "write"
    BY DEF NoCall, Call, Blocks
  <2>3. card' \in Image
    BY <1>14, ImagesStayImages DEF Crash, LoadCard
  <2>. QED  BY <1>14, <2>1, <2>2, <2>3 DEF Crash
<1>15. CASE UNCHANGED vars
  BY <1>15 DEF vars
<1>16. \A i \in Fds : fds[i].pos \in Int /\ fds[i].size \in Int
  BY DEF Fd
<1>. QED
  BY <1>1, <1>2, <1>3, <1>4, <1>5, <1>6, <1>7, <1>8, <1>9, <1>10, <1>11, <1>12,
     <1>13, <1>14, <1>15 DEF Next

\* The image, the file, the descriptors and the call in progress keep their
\* types, whatever is created, written, lost in a failed save or crashed.
THEOREM TypeCorrect == Spec => []TypeOK
<1>. QED  BY TypeInit, TypeStep, PTL DEF Spec
----------------------------------------------------------------------------
(***************************************************************************)
(* What a step does to states, links and names.  It enters a free block    *)
(* with no link, hangs a block on a block without a link, or leaves them   *)
(* alone; and what it changed in memory it saves.                          *)
(***************************************************************************)
Name(b) == card.dir[b].name

SameEntry(c) == St(c)' = St(c) /\ Link(c)' = Link(c) /\ Name(c)' = Name(c)

Entered(b, state, n) ==
  /\ b \in Blocks \ Used
  /\ St(b)' = state /\ Link(b)' = NoNext /\ Name(b)' = n
  /\ \A c \in Blocks \ {b} : SameEntry(c)

Hung(p, b) ==
  /\ Link(p) = NoNext /\ Link(p)' = b /\ Name(p)' = Name(p)
  /\ St(p)' = IF St(p) = "last" THEN "mid" ELSE St(p)
  /\ \A c \in Blocks \ {p} : SameEntry(c)

Untouched == \A c \in Blocks : SameEntry(c)

SameStamps == \A c \in Blocks : card'.stamp[c] = card.stamp[c]

\* The lowest block of a set of blocks is in the set.
LEMMA LowestBlock ==
  ASSUME NEW S \in SUBSET Blocks, S # {}
  PROVE  Lowest(S) \in S
<1>. QED  BY LowestInSet DEF Blocks

\* A creating open of a first block marks one free block first, unlinked.
LEMMA FirstStep ==
  ASSUME TypeOK, NEW n \in Names, NEW size, CreateFirst(n, size)
  PROVE  \E b \in Blocks :
           /\ Entered(b, "first", n) /\ SameStamps /\ SaveCard(card')
           /\ call' = [NoCall EXCEPT !.pc = "fd", !.name = n, !.new = b]
<1>. DEFINE e == [st |-> "first", size |-> size, next |-> NoNext, name |-> n]
<1>1. PICK b \in FreeBlocks : b = Lowest(FreeBlocks)
  BY LowestBlock DEF CreateFirst, FreeBlocks
<1>2. card' = [card EXCEPT !.dir[b] = e] /\ SaveCard(card')
  BY <1>1 DEF CreateFirst, NewEntry, Store
<1>3. card'.dir = [card.dir EXCEPT ![b] = e] /\ card'.stamp = card.stamp
  BY <1>2 DEF TypeOK, Image
<1>4. card.dir \in [Blocks -> Entry]
  BY DEF TypeOK, Image
<1>5. b \in Blocks \ Used
  BY <1>1 DEF FreeBlocks, Used, St
<1>6. Entered(b, "first", n) /\ SameStamps
  BY <1>3, <1>4, <1>5 DEF Entered, SameEntry, St, Link, Name, SameStamps
<1>7. call' = [NoCall EXCEPT !.pc = "fd", !.name = n, !.new = b]
  BY <1>1 DEF CreateFirst
<1>. QED  BY <1>2, <1>5, <1>6, <1>7

\* One of a continuation marks one free block last and walks from the first
\* block of its file.
LEMMA ContinuationStep ==
  ASSUME TypeOK, NEW n \in Names, CreateContinuation(n)
  PROVE  \E b \in Blocks, p \in FileBlocks(<<n[1], 0>>) :
           /\ Entered(b, "last", NoName) /\ SameStamps /\ SaveCard(card')
           /\ call' = [NoCall EXCEPT !.pc = "walk", !.name = n, !.new = b,
                                     !.parent = p, !.prev = p]
<1>. DEFINE e == [st |-> "last", size |-> 0, next |-> NoNext, name |-> NoName]
<1>1. PICK b \in FreeBlocks : b = Lowest(FreeBlocks)
  BY LowestBlock DEF CreateContinuation, FreeBlocks
<1>2. PICK p \in FileBlocks(<<n[1], 0>>) : p = Lowest(FileBlocks(<<n[1], 0>>))
  BY LowestBlock DEF CreateContinuation, IsContinuation, FileBlocks
<1>3. call' = [NoCall EXCEPT !.pc = "walk", !.name = n, !.new = b,
                             !.parent = p, !.prev = p]
  BY <1>1, <1>2 DEF CreateContinuation
<1>4. card' = [card EXCEPT !.dir[b] = e] /\ SaveCard(card')
  BY <1>1 DEF CreateContinuation, NewEntry, Store
<1>5. card'.dir = [card.dir EXCEPT ![b] = e] /\ card'.stamp = card.stamp
  BY <1>4 DEF TypeOK, Image
<1>6. card.dir \in [Blocks -> Entry]
  BY DEF TypeOK, Image
<1>7. b \in Blocks \ Used
  BY <1>1 DEF FreeBlocks, Used, St
<1>8. Entered(b, "last", NoName) /\ SameStamps
  BY <1>5, <1>6, <1>7 DEF Entered, SameEntry, St, Link, Name, SameStamps
<1>. QED  BY <1>3, <1>4, <1>7, <1>8

\* The end of the walk hangs the new block on the block without a link.
LEMMA LinkStep ==
  ASSUME TypeOK, LinkBlock
  PROVE  \E p, b \in Blocks :
           /\ p = call.prev /\ b = call.new /\ Hung(p, b)
           /\ SameStamps /\ SaveCard(card') /\ call' = [call EXCEPT !.pc = "size"]
<1>1. PICK p \in Blocks, b \in Blocks : p = call.prev /\ b = call.new
  BY DEF TypeOK, Call
<1>2. card.dir \in [Blocks -> Entry] /\ card.dir[p] \in Entry
  BY DEF TypeOK, Image
<1>3. /\ card' = [card EXCEPT !.dir[p].next = b,
                              !.dir[p].st = IF @ = "last" THEN "mid" ELSE @]
      /\ SaveCard(card')
  BY <1>1 DEF LinkBlock, Store
<1>. DEFINE e == [[card.dir[p] EXCEPT !.next = b]
                    EXCEPT !.st = IF @ = "last" THEN "mid" ELSE @]
<1>4. card'.dir = [card.dir EXCEPT ![p] = e] /\ card'.stamp = card.stamp
  BY <1>2, <1>3 DEF TypeOK, Image, Entry
<1>5. /\ e.next = b /\ e.st = IF St(p) = "last" THEN "mid" ELSE St(p)
      /\ e.name = Name(p)
  BY <1>2 DEF Entry, St, Name
<1>. HIDE DEF e
<1>6. Link(p) = NoNext
  BY <1>1 DEF LinkBlock, Link
<1>7. Hung(p, b) /\ SameStamps
  BY <1>2, <1>4, <1>5, <1>6 DEF Hung, SameEntry, St, Link, Name, SameStamps
<1>. QED  BY <1>1, <1>3, <1>7 DEF LinkBlock

\* A size touches no state, link, name or data.
LEMMA SizeStep ==
  ASSUME TypeOK, SetParentSize
  PROVE  Untouched /\ SameStamps /\ SaveCard(card') /\ call' = [call EXCEPT !.pc = "fd"]
<1>. DEFINE total == (call.name[2] + 1) * BlockUnits
<1>1. card.dir \in [Blocks -> Entry]
  BY DEF TypeOK, Image
<1>2. card' = [card EXCEPT !.dir[call.parent].size = total] /\ SaveCard(card')
  BY DEF SetParentSize, Store
<1>3. card'.dir = [card.dir EXCEPT ![call.parent].size = total] /\ card'.stamp = card.stamp
  BY <1>2 DEF TypeOK, Image
<1>. HIDE DEF total
<1>4. Untouched /\ SameStamps
  BY <1>1, <1>3 DEF Untouched, SameEntry, St, Link, Name, SameStamps, Entry
<1>. QED  BY <1>2, <1>4 DEF SetParentSize

\* Data is stamped in one block and touches no state, link or name.
LEMMA UnitStep ==
  ASSUME TypeOK, WriteUnit
  PROVE  /\ Untouched /\ SaveCard(card')
         /\ call' = [call EXCEPT !.pos = call.pos + 1, !.left = call.left - 1]
         /\ \A c \in Blocks :
              card'.stamp[c] = IF c = WriteBlock(fds[call.fd], call.pos)
                               THEN fds[call.fd].file ELSE card.stamp[c]
<1>. DEFINE b == WriteBlock(fds[call.fd], call.pos)
<1>1. card' = [card EXCEPT !.stamp[b] = fds[call.fd].file] /\ SaveCard(card')
  BY DEF WriteUnit, Store
<1>. HIDE DEF b
<1>2. card'.dir = card.dir /\ card'.stamp = [card.stamp EXCEPT ![b] = fds[call.fd].file]
  BY <1>1 DEF TypeOK, Image
<1>3. Untouched
  BY <1>2 DEF Untouched, SameEntry, St, Link, Name
<1>4. \A c \in Blocks : card'.stamp[c] = IF c = b THEN fds[call.fd].file ELSE card.stamp[c]
  BY <1>2 DEF TypeOK, Image
<1>. QED  BY <1>1, <1>3, <1>4 DEF WriteUnit, b

\* Every other step of the running program leaves the card and the file alone.
Elsewhere ==
  \/ WalkChain \/ FinishCreate \/ FinishWrite
  \/ \E n \in Names, w \in BOOLEAN : Open(n, w)
  \/ \E i \in Fds : \/ \E base, offset \in Int : Lseek(i, base, offset)
                    \/ \E len \in 1..MaxPos : Read(i, len) \/ StartWrite(i, len)
                    \/ Close(i)
  \/ UNCHANGED vars

LEMMA ElsewhereStep ==
  ASSUME Elsewhere
  PROVE  Untouched /\ SameStamps /\ UNCHANGED <<card, disk, crashes>>
<1>1. UNCHANGED <<card, disk, crashes>>
  BY DEF Elsewhere, WalkChain, FinishCreate, FinishWrite, Open, Lseek, Read, StartWrite,
         Close, vars
<1>. QED  BY <1>1 DEF Untouched, SameEntry, St, Link, Name, SameStamps

\* What such a step does to the call.
LEMMA CallKinds ==
  ASSUME Elsewhere
  PROVE  \/ WalkChain \/ UNCHANGED call
         \/ call.pc \in {"fd", "write"} /\ call' = NoCall
         \/ \E i \in Fds, len \in 1..MaxPos : StartWrite(i, len)
<1>. QED  BY DEF Elsewhere, FinishCreate, FinishWrite, Open, Lseek, Read, Close, vars

\* These are all the steps there are.
LEMMA StepKinds ==
  ASSUME TypeOK, [Next]_vars
  PROVE  \/ \E n \in Names : CreateFirst(n, BlockUnits) \/ CreateContinuation(n)
         \/ LinkBlock \/ SetParentSize \/ WriteUnit \/ Crash \/ Elsewhere
<1>1. \A i \in Fds : {0, fds[i].pos, fds[i].size} \subseteq Int
  BY DEF TypeOK, Fd
<1>. QED  BY <1>1 DEF Next, Elsewhere
----------------------------------------------------------------------------
(***************************************************************************)
(* The chains.  Saves may fail here: what the chains of the image in       *)
(* memory rest on is the order in which entries are made, not the file.    *)
(***************************************************************************)
Apart == NewBlockApart /\ ChainsDisjoint /\ ChainsEnd

\* A new block that nothing links to and that links to nothing is harmless.
LEMMA EnteredKeepsChains ==
  ASSUME ChainsDisjoint, ChainsEnd, NEW b \in Blocks, NEW state, NEW n,
         Entered(b, state, n), state # "free"
  PROVE  /\ ChainsDisjoint' /\ ChainsEnd' /\ Used' = Used \cup {b}
         /\ \A c \in Used' : Link(c)' # b
         /\ \A c \in Used : Link(c)' = Link(c)
<1>1. Used' = Used \cup {b} /\ Linked \subseteq Linked'
  BY DEF Entered, SameEntry, Used, Linked
<1>2. \A c \in Used : c \in Blocks \ {b} /\ Link(c)' = Link(c)
  BY DEF Entered, SameEntry, Used
<1>3. Link(b)' = NoNext /\ b \notin Used
  BY DEF Entered
<1>4. Linked \subseteq Used /\ b # NoNext
  BY DEF Used, Linked, Blocks, NoNext
<1>5. \A c \in Used : Link(c) # b
  BY <1>3, <1>4 DEF ChainsDisjoint
<1>6. ChainsDisjoint'
  BY <1>1, <1>2, <1>3 DEF ChainsDisjoint
<1>7. ChainsEnd'
  <2>. SUFFICES ASSUME NEW S \in SUBSET Used', S # {}
                PROVE  \E c \in S : Link(c)' \notin S
    BY DEF ChainsEnd
  <2>1. CASE b \in S
    <3>1. NoNext \notin S
      BY <1>1 DEF Used, Blocks, NoNext
    <3>. QED  BY <2>1, <3>1, <1>3
  <2>2. CASE b \notin S
    <3>1. S \in SUBSET Used
      BY <1>1, <2>2
    <3>. QED  BY <1>2, <3>1 DEF ChainsEnd
  <2>. QED  BY <2>1, <2>2
<1>. QED  BY <1>1, <1>2, <1>3, <1>4, <1>5, <1>6, <1>7

\* The chain that grows cannot close: what hangs on its end links to nothing.
LEMMA HungKeepsChains ==
  ASSUME ChainsDisjoint, ChainsEnd, NEW p \in Used, NEW b \in Blocks, Hung(p, b), p # b,
         b \in Linked, Link(b) = NoNext, \A c \in Used : Link(c) # b
  PROVE  /\ ChainsDisjoint' /\ ChainsEnd' /\ Used' = Used /\ Linked' = Linked
         /\ \A c \in Used : Link(c) # NoNext => Link(c)' = Link(c)
<1>1. Used' = Used /\ Linked' = Linked
  BY DEF Hung, SameEntry, Used, Linked
<1>2. \A c \in Used : c # p => Link(c)' = Link(c)
  BY DEF Hung, SameEntry, Used
<1>3. Link(p)' = b /\ Link(p) = NoNext
  BY DEF Hung
<1>4. Link(b)' = NoNext /\ b \in Used
  BY <1>2, <1>3 DEF Used, Linked
<1>5. ChainsDisjoint'
  BY <1>1, <1>2, <1>3, <1>4 DEF ChainsDisjoint
<1>6. ChainsEnd'
  <2>. SUFFICES ASSUME NEW S \in SUBSET Used, S # {}
                PROVE  \E c \in S : Link(c)' \notin S
    BY <1>1 DEF ChainsEnd
  <2>1. CASE b \in S
    <3>1. NoNext \notin S
      BY DEF Used, Blocks, NoNext
    <3>. QED  BY <2>1, <3>1, <1>4
  <2>2. CASE b \notin S
    <3>1. PICK c \in S : Link(c) \notin S
      BY DEF ChainsEnd
    <3>2. CASE c = p
      BY <2>2, <3>2, <1>3
    <3>3. CASE c # p
      BY <3>1, <3>3, <1>2
    <3>. QED  BY <3>2, <3>3
  <2>. QED  BY <2>1, <2>2
<1>. QED  BY <1>1, <1>2, <1>3, <1>5, <1>6

\* The chains depend on states and links only.
LEMMA UntouchedKeepsChains ==
  ASSUME ChainsDisjoint, ChainsEnd, Untouched
  PROVE  /\ ChainsDisjoint' /\ ChainsEnd' /\ Used' = Used /\ Linked' = Linked
         /\ \A c \in Used : Link(c)' = Link(c)
<1>1. Used' = Used /\ Linked' = Linked /\ \A c \in Used : Link(c)' = Link(c)
  BY DEF Untouched, SameEntry, Used, Linked
<1>2. ChainsDisjoint'
  BY <1>1 DEF ChainsDisjoint
<1>3. ChainsEnd'
  BY <1>1 DEF ChainsEnd
<1>. QED  BY <1>1, <1>2, <1>3

\* A formatted card has no chains.
LEMMA ApartInit == Init => Used = {} /\ Apart
<1>. SUFFICES ASSUME Init PROVE Used = {} /\ Apart
  OBVIOUS
<1>1. Used = {}
  BY DEF Init, FormattedCard, Formatted, Used, St
<1>2. ChainsDisjoint /\ ChainsEnd
  BY <1>1 DEF ChainsDisjoint, ChainsEnd
<1>3. NewBlockApart
  BY DEF Init, NewBlockApart, NoCall
<1>. QED  BY <1>1, <1>2, <1>3 DEF Apart

\* A used block that is being linked stays apart while the card is left alone.
LEMMA UntouchedKeepsApart ==
  ASSUME TypeOK, Apart, Untouched, call'.pc # "walk" \/ UNCHANGED call
  PROVE  Apart' /\ Used' = Used /\ \A c \in Used : Link(c)' = Link(c)
<1>1. /\ ChainsDisjoint' /\ ChainsEnd' /\ Used' = Used /\ Linked' = Linked
      /\ \A c \in Used : Link(c)' = Link(c)
  BY UntouchedKeepsChains DEF Apart
<1>2. NewBlockApart'
  <2>1. CASE call'.pc # "walk"
    BY <2>1 DEF NewBlockApart
  <2>2. CASE UNCHANGED call /\ call.pc = "walk"
    <3>1. PICK b \in Blocks : b = call.new
      BY DEF TypeOK, Call
    <3>2. b \in Linked /\ Link(b) = NoNext
      BY <2>2, <3>1 DEF Apart, NewBlockApart
    <3>3. b \in Used /\ Link(b)' = NoNext
      BY <1>1, <3>2 DEF Used, Linked
    <3>4. Link(call.new)' = NoNext
      BY <2>2, <3>1, <3>3 DEF Link
    <3>. QED  BY <1>1, <2>2, <3>1, <3>2, <3>4 DEF Apart, NewBlockApart
  <2>. QED  BY <2>1, <2>2
<1>. QED  BY <1>1, <1>2 DEF Apart

\* One step that does not replace the image keeps the chains apart, frees no
\* block and breaks no link.
LEMMA ApartStep ==
  ASSUME TypeOK, Apart, [Next]_vars, Crash => Untouched
  PROVE  /\ Apart'
         /\ Used \subseteq Used'
         /\ \A c \in Used : Link(c) # NoNext => Link(c)' = Link(c)
<1>0. ChainsDisjoint /\ ChainsEnd
  BY DEF Apart
<1>1. ASSUME NEW n \in Names, CreateFirst(n, BlockUnits)
      PROVE  /\ Apart' /\ Used \subseteq Used'
             /\ \A c \in Used : Link(c) # NoNext => Link(c)' = Link(c)
  <2>1. PICK b \in Blocks : /\ Entered(b, "first", n)
                            /\ call' = [NoCall EXCEPT !.pc = "fd", !.name = n, !.new = b]
    BY <1>1, FirstStep
  <2>2. ChainsDisjoint' /\ ChainsEnd' /\ Used' = Used \cup {b}
        /\ \A c \in Used : Link(c)' = Link(c)
    BY <1>0, <2>1, EnteredKeepsChains
  <2>3. NewBlockApart'
    BY <2>1 DEF NewBlockApart, NoCall
  <2>. QED  BY <2>2, <2>3 DEF Apart
<1>2. ASSUME NEW n \in Names, CreateContinuation(n)
      PROVE  /\ Apart' /\ Used \subseteq Used'
             /\ \A c \in Used : Link(c) # NoNext => Link(c)' = Link(c)
  <2>1. PICK b \in Blocks, p \in FileBlocks(<<n[1], 0>>) :
          /\ Entered(b, "last", NoName)
          /\ call' = [NoCall EXCEPT !.pc = "walk", !.name = n, !.new = b,
                                    !.parent = p, !.prev = p]
    BY <1>2, ContinuationStep
  <2>2. ChainsDisjoint' /\ ChainsEnd' /\ Used' = Used \cup {b}
        /\ (\A c \in Used' : Link(c)' # b) /\ (\A c \in Used : Link(c)' = Link(c))
    BY <1>0, <2>1, EnteredKeepsChains
  <2>3. b \in Linked' /\ Link(b)' = NoNext /\ b \notin Used
    BY <2>1 DEF Entered, Linked
  <2>4. p \in Used /\ call'.prev = p /\ call'.new = b
    BY <2>1 DEF FileBlocks, Used, St, NoCall
  <2>5. Link(call.new)' = NoNext
    BY <2>3, <2>4 DEF Link
  <2>6. NewBlockApart'
    BY <2>2, <2>3, <2>4, <2>5 DEF NewBlockApart
  <2>. QED  BY <2>2, <2>6 DEF Apart
<1>3. CASE LinkBlock
  <2>1. PICK p \in Blocks, b \in Blocks :
          /\ p = call.prev /\ b = call.new /\ Hung(p, b)
          /\ call' = [call EXCEPT !.pc = "size"]
    BY <1>3, LinkStep
  <2>2. /\ b \in Linked /\ Link(b) = NoNext /\ \A c \in Used : Link(c) # b
        /\ p \in Used /\ p # b
    BY <1>3, <2>1 DEF LinkBlock, Apart, NewBlockApart
  <2>3. /\ ChainsDisjoint' /\ ChainsEnd' /\ Used' = Used
        /\ \A c \in Used : Link(c) # NoNext => Link(c)' = Link(c)
    BY <1>0, <2>1, <2>2, HungKeepsChains
  <2>4. NewBlockApart'
    BY <2>1 DEF NewBlockApart, TypeOK, Call
  <2>. QED  BY <2>3, <2>4 DEF Apart
<1>4. CASE WalkChain
  <2>1. Untouched
    BY <1>4, ElsewhereStep DEF Elsewhere
  <2>2. /\ ChainsDisjoint' /\ ChainsEnd' /\ Used' = Used /\ Linked' = Linked
        /\ \A c \in Used : Link(c)' = Link(c)
    BY <1>0, <2>1, UntouchedKeepsChains
  <2>3. PICK p \in Used : p = call.prev
    BY <1>4 DEF WalkChain, Apart, NewBlockApart
  <2>4. PICK q \in Blocks : q = Link(p)
    BY <1>0, <1>4, <2>3 DEF WalkChain, Link, ChainsDisjoint, Linked
  <2>5. q \in Used \ {call.new}
    BY <1>0, <1>4, <2>3, <2>4
    DEF WalkChain, Link, ChainsDisjoint, Linked, Used, Apart, NewBlockApart
  <2>6. call'.prev = q /\ call'.new = call.new
    BY <1>4, <2>3, <2>4 DEF WalkChain, Link, TypeOK, Call
  <2>7. PICK b \in Blocks : b = call.new
    BY DEF TypeOK, Call
  <2>8. b \in Linked /\ Link(b) = NoNext /\ \A c \in Used : Link(c) # b
    BY <1>4, <2>7 DEF WalkChain, Apart, NewBlockApart
  <2>9. Link(call.new)' = NoNext
    <3>1. b \in Used /\ Link(b)' = NoNext
      BY <2>2, <2>8 DEF Used, Linked
    <3>. QED  BY <2>6, <2>7, <3>1 DEF Link
  <2>10. NewBlockApart'
    BY <2>2, <2>5, <2>6, <2>7, <2>8, <2>9 DEF NewBlockApart
  <2>. QED  BY <2>2, <2>10 DEF Apart
<1>5. CASE SetParentSize \/ WriteUnit
  <2>1. Untouched /\ call'.pc # "walk"
    BY <1>5, SizeStep, UnitStep DEF TypeOK, Call, WriteUnit
  <2>. QED  BY <2>1, UntouchedKeepsApart
<1>6. CASE Crash
  BY <1>6, UntouchedKeepsApart DEF Crash, NoCall
<1>7. CASE Elsewhere /\ ~WalkChain
  <2>1. Untouched
    BY <1>7, ElsewhereStep
  <2>2. CASE call' = NoCall
    BY <2>1, <2>2, UntouchedKeepsApart DEF NoCall
  <2>3. CASE \E i \in Fds, len \in 1..MaxPos : StartWrite(i, len)
    BY <2>1, <2>3, UntouchedKeepsApart DEF StartWrite, NoCall
  <2>4. CASE UNCHANGED call
    BY <2>1, <2>4, UntouchedKeepsApart
  <2>. QED  BY <1>7, <2>2, <2>3, <2>4, CallKinds
<1>. QED  BY <1>1, <1>2, <1>3, <1>4, <1>5, <1>6, <1>7, StepKinds

\* As long as the process has not died the chains are sound, whatever became
\* of the file: a save that fails or is cut short does the image no harm.
THEOREM SoundTillRestart == Spec => []SoundUntilRestart
<1>. DEFINE I == TypeOK /\ (crashes = 0 => Apart)
<1>1. Init => I
  BY TypeInit, ApartInit
<1>2. I /\ [Next]_vars => I'
  <2>. SUFFICES ASSUME TypeOK, crashes = 0 => Apart, [Next]_vars, crashes' = 0
                PROVE  Apart'
    BY TypeStep
  <2>1. crashes = 0 /\ ~Crash
    <3>1. crashes \in Nat
      BY DEF TypeOK
    <3>2. ~Crash
      BY <3>1 DEF Crash
    <3>3. crashes' = crashes
      BY <3>2, StepKinds, ElsewhereStep
      DEF CreateFirst, CreateContinuation, LinkBlock, SetParentSize, WriteUnit
    <3>. QED  BY <3>2, <3>3
  <2>. QED  BY <2>1, ApartStep
<1>3. I => SoundUntilRestart
  BY DEF SoundUntilRestart, Apart
<1>. QED  BY <1>1, <1>2, <1>3, PTL DEF Spec
----------------------------------------------------------------------------
(***************************************************************************)
(* A card whose saves do not fail: the file always holds what the memory   *)
(* does, so a crash changes nothing in the image.                          *)
(***************************************************************************)
Quiet == ~SaveFaults

LEMMA SyncedStep ==
  ASSUME Quiet, TypeOK, Synced, [Next]_vars
  PROVE  Synced' /\ (Crash => UNCHANGED <<card, disk>> /\ Untouched /\ SameStamps)
<1>1. CASE SaveCard(card')
  <2>1. disk' = card'
    BY <1>1 DEF Quiet, SaveCard
  <2>2. Crash => UNCHANGED disk
    BY DEF Crash
  <2>3. CASE Crash
    BY <2>1, <2>2, <2>3, AbsentAssumption
    DEF Crash, LoadCard, Synced, TypeOK, Untouched, SameEntry, St, Link, Name, SameStamps
  <2>. QED  BY <2>1, <2>3 DEF Synced
<1>2. CASE Crash
  <2>1. card' = card /\ disk' = disk
    <3>1. CASE disk = Absent
      BY <1>2, <3>1, AbsentAssumption DEF Crash, LoadCard, Synced, TypeOK
    <3>2. CASE disk # Absent
      BY <1>2, <3>2 DEF Crash, LoadCard, Synced
    <3>. QED  BY <3>1, <3>2
  <2>. QED  BY <2>1 DEF Untouched, SameEntry, St, Link, Name, SameStamps, Synced
<1>3. CASE Elsewhere
  BY <1>2, <1>3, ElsewhereStep DEF Synced
<1>4. \/ SaveCard(card') \/ Crash \/ Elsewhere
  BY StepKinds, FirstStep, ContinuationStep, LinkStep, SizeStep, UnitStep
<1>. QED  BY <1>1, <1>2, <1>3, <1>4

LEMMA ChainsInit == Init => ChainsInv
<1>. QED  BY TypeInit, ApartInit DEF Init, ChainsInv, Apart, Synced

\* One step keeps the invariant, frees no block and breaks no link.
LEMMA ChainsStep ==
  ASSUME Quiet, ChainsInv, [Next]_vars
  PROVE  /\ ChainsInv'
         /\ Used \subseteq Used'
         /\ \A c \in Used : Link(c) # NoNext => Link(c)' = Link(c)
<1>1. TypeOK' /\ Synced' /\ (Crash => Untouched)
  BY TypeStep, SyncedStep DEF ChainsInv
<1>. QED  BY <1>1, ApartStep DEF ChainsInv, Apart

\* When no save fails, the links the creating open builds stay chains: no block
\* is in two of them and none runs in a circle, crashes between saves included.
THEOREM ChainsSound == Quiet /\ Spec => []ChainsInv
<1>1. Init => ChainsInv
  BY ChainsInit
<1>2. Quiet /\ ChainsInv /\ [Next]_vars => ChainsInv'
  BY ChainsStep
<1>3. CASE Quiet
  <2>1. ChainsInv /\ [Next]_vars => ChainsInv'
    BY <1>2, <1>3
  <2>. QED  BY <1>1, <2>1, PTL DEF Spec
<1>4. CASE ~Quiet
  BY <1>4
<1>. QED  BY <1>3, <1>4

\* When no save fails, no step frees a block or breaks a link.
THEOREM NothingIsFreed == Quiet /\ Spec => NothingFreed
<1>1. Init => ChainsInv
  BY ChainsInit
<1>2. CASE Quiet
  <2>1. ChainsInv /\ [Next]_vars => ChainsInv'
    BY <1>2, ChainsStep
  <2>2. ChainsInv /\ [Next]_vars =>
          [/\ Used \subseteq Used'
           /\ \A b \in Used : Link(b) # NoNext => Link(b)' = Link(b)]_vars
    BY <1>2, ChainsStep
  <2>. QED  BY <1>1, <2>1, <2>2, PTL DEF Spec, NothingFreed
<1>3. CASE ~Quiet
  BY <1>3
<1>. QED  BY <1>2, <1>3
----------------------------------------------------------------------------
(***************************************************************************)
(* The directory, whatever becomes of the saves.  A cut image has only     *)
(* entries of the image it was cut from and free ones, so what a restart   *)
(* loads never gives a name to two first blocks.                           *)
(***************************************************************************)
UniqueIn(img) ==
  \A b, c \in Blocks : /\ img.dir[b].st = "first" /\ img.dir[c].st = "first"
                       /\ img.dir[b].name = img.dir[c].name
                       => b = c

\* The block a creating open will give a descriptor is in use from the start.
NewBlockUsed == call.pc \in {"walk", "size", "fd"} => call.new \in Used

DirectoryInv ==
  /\ TypeOK /\ NamesUnique /\ FdsOnUsedBlocks /\ NewBlockUsed
  /\ disk # Absent => UniqueIn(disk)

LEMMA CutUnique ==
  ASSUME NEW img, UniqueIn(img), NEW k
  PROVE  UniqueIn(Cut(img, k))
<1>. QED  BY DEF UniqueIn, Cut, Zeroed

\* What a save leaves on disk.
LEMMA SavedUnique ==
  ASSUME NamesUnique', SaveCard(card'), disk # Absent => UniqueIn(disk)
  PROVE  (disk # Absent => UniqueIn(disk))'
<1>1. UniqueIn(card')
  BY DEF NamesUnique, UniqueIn, St
<1>2. SUFFICES disk' # Absent => UniqueIn(disk')
  BY DEF UniqueIn
<1>3. disk' \in {card', disk} \/ \E k \in 0..(2 * NumBlocks) : disk' = Cut(card', k)
  BY DEF SaveCard
<1>4. \A k : UniqueIn(Cut(card', k))
  BY <1>1, CutUnique
<1>. QED  BY <1>1, <1>3, <1>4

\* A step that makes no first block and frees none keeps names and descriptors.
LEMMA NamesKept ==
  ASSUME NamesUnique, Used \subseteq Used',
         \A c \in Blocks : St(c)' = "first" => St(c) = "first" /\ Name(c)' = Name(c)
  PROVE  NamesUnique'
<1>. QED  BY DEF NamesUnique, St, Name

LEMMA FdsKept ==
  ASSUME FdsOnUsedBlocks, Used \subseteq Used',
         \A i \in Fds : fds'[i].active => fds[i].active /\ fds'[i].block = fds[i].block
  PROVE  FdsOnUsedBlocks'
<1>. QED  BY DEF FdsOnUsedBlocks

\* The descriptors after a step that leaves the card alone: the block an open
\* puts a descriptor on is one it looked up, or the new block of its call.
LEMMA FdsStep ==
  ASSUME TypeOK, Elsewhere, NEW i \in Fds, fds'[i].active
  PROVE  \/ fds[i].active /\ fds'[i].block = fds[i].block /\ fds'[i].file = fds[i].file
         \/ \E n \in Names : fds'[i].block \in FileBlocks(n) /\ fds'[i].file = n[1]
         \/ call.pc = "fd" /\ fds'[i].block = call.new /\ fds'[i].file = call.name[1]
<1>1. ASSUME NEW n, NEW b \in Blocks, NEW w, fds' = OpenFd(n, b, w)
      PROVE  \/ fds'[i] = fds[i]
             \/ fds'[i].active /\ fds'[i].block = b /\ fds'[i].file = n[1]
  BY <1>1, FreeFdType DEF TypeOK, OpenFd
<1>2. ASSUME NEW n \in Names, NEW w \in BOOLEAN, Open(n, w)
      PROVE  \/ fds'[i] = fds[i]
             \/ fds'[i].block \in FileBlocks(n) /\ fds'[i].file = n[1]
  <2>1. Lowest(FileBlocks(n)) \in FileBlocks(n) /\ Lowest(FileBlocks(n)) \in Blocks
    BY <1>2, LowestBlock DEF Open, FileBlocks
  <2>. QED  BY <1>1, <1>2, <2>1 DEF Open
<1>3. CASE FinishCreate
  BY <1>1, <1>3 DEF FinishCreate, TypeOK, Call
<1>4. CASE FinishWrite
  BY <1>4 DEF FinishWrite, TypeOK, Fd
<1>5. ASSUME NEW j \in Fds, NEW x, NEW y, Lseek(j, x, y) \/ Read(j, x) \/ Close(j)
      PROVE  fds[i].active /\ fds'[i].block = fds[i].block /\ fds'[i].file = fds[i].file
  <2>. DEFINE z == x + y
              t == fds[j].pos + ReadCount(fds[j], x)
  <2>1. \/ fds' = [fds EXCEPT ![j].pos = z]
        \/ fds' = [fds EXCEPT ![j].pos = t]
        \/ fds' = [fds EXCEPT ![j].active = FALSE]
    BY <1>5 DEF Lseek, Read, Close
  <2>. HIDE DEF z, t
  <2>. QED  BY <2>1 DEF TypeOK, Fd
<1>6. CASE UNCHANGED fds
  BY <1>6
<1>. QED  BY <1>2, <1>3, <1>4, <1>5, <1>6 DEF Elsewhere, WalkChain, StartWrite, vars

\* What each kind of step does to the blocks in use.
LEMMA DirectoryStep ==
  ASSUME DirectoryInv, [Next]_vars
  PROVE  DirectoryInv'
<1>0. TypeOK /\ TypeOK' /\ NamesUnique /\ FdsOnUsedBlocks /\ NewBlockUsed
      /\ (disk # Absent => UniqueIn(disk))
  BY TypeStep DEF DirectoryInv
<1>1. ASSUME NEW n \in Names, CreateFirst(n, BlockUnits)
      PROVE  DirectoryInv'
  <2>1. PICK b \in Blocks :
          /\ Entered(b, "first", n) /\ SaveCard(card')
          /\ call' = [NoCall EXCEPT !.pc = "fd", !.name = n, !.new = b]
    BY <1>0, <1>1, FirstStep
  <2>2. Used' = Used \cup {b}
    BY <2>1 DEF Entered, SameEntry, Used
  <2>3. \A c \in Blocks : ~(St(c) = "first" /\ Name(c) = n)
    BY <1>1 DEF CreateFirst, FileBlocks, St, Name
  <2>4. NamesUnique'
    <3>1. \A c, d \in Blocks : St(c)' = "first" /\ St(d)' = "first" /\ Name(c)' = Name(d)'
                                 => c = d
      BY <1>0, <2>1, <2>3 DEF Entered, SameEntry, NamesUnique, Name
    <3>. QED  BY <3>1 DEF NamesUnique, Name
  <2>5. FdsOnUsedBlocks'
    BY <1>0, <1>1, <2>2, FdsKept DEF CreateFirst
  <2>6. NewBlockUsed'
    BY <2>1, <2>2 DEF NewBlockUsed, NoCall
  <2>. QED  BY <1>0, <2>1, <2>4, <2>5, <2>6, SavedUnique DEF DirectoryInv
<1>2. ASSUME NEW n \in Names, CreateContinuation(n)
      PROVE  DirectoryInv'
  <2>1. PICK b \in Blocks, p \in FileBlocks(<<n[1], 0>>) :
          /\ Entered(b, "last", NoName) /\ SaveCard(card')
          /\ call' = [NoCall EXCEPT !.pc = "walk", !.name = n, !.new = b,
                                    !.parent = p, !.prev = p]
    BY <1>0, <1>2, ContinuationStep
  <2>2. Used' = Used \cup {b}
    BY <2>1 DEF Entered, SameEntry, Used
  <2>3. NamesUnique'
    BY <1>0, <2>1, <2>2, NamesKept DEF Entered, SameEntry
  <2>4. FdsOnUsedBlocks'
    BY <1>0, <1>2, <2>2, FdsKept DEF CreateContinuation
  <2>5. NewBlockUsed'
    BY <2>1, <2>2 DEF NewBlockUsed, NoCall
  <2>. QED  BY <1>0, <2>1, <2>3, <2>4, <2>5, SavedUnique DEF DirectoryInv
<1>3. CASE LinkBlock
  <2>1. PICK p \in Blocks, b \in Blocks :
          /\ p = call.prev /\ b = call.new /\ Hung(p, b) /\ SaveCard(card')
          /\ call' = [call EXCEPT !.pc = "size"]
    BY <1>0, <1>3, LinkStep
  <2>2. Used' = Used
    BY <2>1 DEF Hung, SameEntry, Used
  <2>3. \A c \in Blocks : St(c)' = "first" => St(c) = "first" /\ Name(c)' = Name(c)
    BY <2>1 DEF Hung, SameEntry
  <2>4. NamesUnique'
    BY <1>0, <2>2, <2>3, NamesKept
  <2>5. FdsOnUsedBlocks'
    BY <1>0, <1>3, <2>2, FdsKept DEF LinkBlock
  <2>6. NewBlockUsed'
    BY <1>0, <1>3, <2>1, <2>2 DEF NewBlockUsed, LinkBlock, TypeOK, Call
  <2>. QED  BY <1>0, <2>1, <2>4, <2>5, <2>6, SavedUnique DEF DirectoryInv
<1>4. ASSUME Untouched
      PROVE  NamesUnique' /\ Used' = Used
  <2>1. Used' = Used
    BY <1>4 DEF Untouched, SameEntry, Used
  <2>. QED  BY <1>0, <1>4, <2>1, NamesKept DEF Untouched, SameEntry
<1>5. CASE SetParentSize \/ WriteUnit
  <2>1. Untouched /\ SaveCard(card')
    BY <1>0, <1>5, SizeStep, UnitStep
  <2>2. NamesUnique' /\ Used' = Used
    BY <1>4, <2>1
  <2>3. fds' = fds
    BY <1>5 DEF SetParentSize, WriteUnit
  <2>4. FdsOnUsedBlocks'
    BY <1>0, <2>2, <2>3, FdsKept
  <2>5. NewBlockUsed'
    BY <1>0, <1>5, <2>2, SizeStep, UnitStep
    DEF NewBlockUsed, SetParentSize, WriteUnit, TypeOK, Call
  <2>. QED  BY <1>0, <2>1, <2>2, <2>4, <2>5, SavedUnique DEF DirectoryInv
<1>6. CASE Crash
  <2>1. card' = LoadCard(disk) /\ disk' = disk /\ call' = NoCall
        /\ fds' = [i \in Fds |-> ClosedFd]
    BY <1>6 DEF Crash
  <2>2. UniqueIn(card')
    BY <1>0, <2>1 DEF LoadCard, FormattedCard, Formatted, UniqueIn
  <2>3. NamesUnique'
    BY <2>2 DEF NamesUnique, UniqueIn, St
  <2>4. FdsOnUsedBlocks' /\ NewBlockUsed'
    BY <2>1 DEF FdsOnUsedBlocks, NewBlockUsed, ClosedFd, NoCall
  <2>5. (disk # Absent => UniqueIn(disk))'
    BY <1>0, <2>1 DEF UniqueIn
  <2>. QED  BY <1>0, <2>3, <2>4, <2>5 DEF DirectoryInv
<1>7. CASE Elsewhere
  <2>1. Untouched /\ disk' = disk
    BY <1>7, ElsewhereStep
  <2>2. NamesUnique' /\ Used' = Used /\ (disk # Absent => UniqueIn(disk))'
    BY <1>0, <1>4, <2>1 DEF UniqueIn
  <2>3. \A n : FileBlocks(n) \subseteq Used
    BY DEF FileBlocks, Used, St
  <2>4. FdsOnUsedBlocks'
    BY <1>0, <1>7, <2>2, <2>3, FdsStep DEF FdsOnUsedBlocks, NewBlockUsed
  <2>5. NewBlockUsed'
    <3>1. CASE call' = NoCall
      BY <3>1 DEF NewBlockUsed, NoCall
    <3>2. CASE \E i \in Fds, len \in 1..MaxPos : StartWrite(i, len)
      BY <3>2 DEF NewBlockUsed, NoCall, StartWrite
    <3>3. CASE WalkChain
      BY <1>0, <2>2, <3>3 DEF NewBlockUsed, WalkChain, TypeOK, Call
    <3>4. CASE UNCHANGED call
      BY <1>0, <2>2, <3>4 DEF NewBlockUsed
    <3>. QED  BY <1>7, <3>1, <3>2, <3>3, <3>4, CallKinds
  <2>. QED  BY <1>0, <2>2, <2>4, <2>5 DEF DirectoryInv
<1>. QED  BY <1>0, <1>1, <1>2, <1>3, <1>5, <1>6, <1>7, StepKinds

\* Names stay unique and descriptors stay on used blocks through failed and cut
\* saves and through restarts from whatever they left on disk.
THEOREM DirectoryAlwaysOK == Spec => []DirectoryOK
<1>1. Init => DirectoryInv
  <2>. SUFFICES ASSUME Init PROVE DirectoryInv
    OBVIOUS
  <2>1. Used = {} /\ TypeOK
    BY ApartInit, TypeInit
  <2>2. FdsOnUsedBlocks /\ NewBlockUsed /\ disk = Absent
    BY DEF Init, FdsOnUsedBlocks, NewBlockUsed, ClosedFd, NoCall
  <2>. QED  BY <2>1, <2>2 DEF DirectoryInv, NamesUnique, Used
<1>2. DirectoryInv /\ [Next]_vars => DirectoryInv'
  BY DirectoryStep
<1>3. DirectoryInv => DirectoryOK
  BY DEF DirectoryInv, DirectoryOK
<1>. QED  BY <1>1, <1>2, <1>3, PTL DEF Spec
----------------------------------------------------------------------------
(***************************************************************************)
(* Following links.  Induction over the naturals, as the least element of  *)
(* a set; the function Hop computes by recursion; and, from the two, what  *)
(* Reach is: the least set that holds a block and is closed under links.   *)
(***************************************************************************)
LEMMA EveryNat ==
  ASSUME NEW T, 0 \in T, \A n \in Nat : n \in T => n + 1 \in T
  PROVE  \A n \in Nat : n \in T
<1>. SUFFICES ASSUME Nat \ T # {} PROVE FALSE
  OBVIOUS
<1>. DEFINE m == Lowest(Nat \ T)
<1>1. m \in Nat \ T /\ \A y \in Nat \ T : m <= y
  BY LowestInSet
<1>. HIDE DEF m
<1>2. m # 0 /\ m - 1 \in Nat
  BY <1>1
<1>3. m - 1 \in T
  BY <1>1, <1>2
<1>. QED  BY <1>1, <1>2, <1>3

\* A function given by its first value and a step exists.
LEMMA Iterates ==
  ASSUME NEW S, NEW x \in S, NEW g \in [S -> S]
  PROVE  \E f \in [Nat -> S] : f[0] = x /\ \A i \in Nat : f[i + 1] = g[f[i]]
<1>. DEFINE UpTo(f, n) == /\ f \in [0..n -> S] /\ f[0] = x
                          /\ \A i \in 0..n : i # n => f[i + 1] = g[f[i]]
            some(n) == CHOOSE f : UpTo(f, n)
<1>1. \A n \in Nat : \E f : UpTo(f, n)
  <2>. DEFINE T == {n \in Nat : \E f : UpTo(f, n)}
  <2>1. 0 \in T
    <3>1. UpTo([i \in 0..0 |-> x], 0)
      OBVIOUS
    <3>. QED  BY <3>1
  <2>2. ASSUME NEW n \in Nat, n \in T PROVE n + 1 \in T
    <3>1. PICK f : UpTo(f, n)
      BY <2>2
    <3>. DEFINE h == [i \in 0..(n + 1) |-> IF i = n + 1 THEN g[f[n]] ELSE f[i]]
    <3>2. h \in [0..(n + 1) -> S] /\ h[0] = x
      BY <3>1
    <3>3. \A i \in 0..(n + 1) : i # n + 1 => h[i + 1] = g[h[i]]
      BY <3>1
    <3>. QED  BY <3>2, <3>3
  <2>. HIDE DEF T
  <2>3. \A n \in Nat : n \in T
    BY <2>1, <2>2, EveryNat
  <2>. QED  BY <2>3 DEF T
<1>. HIDE DEF UpTo
<1>2. \A n \in Nat : UpTo(some(n), n)
  BY <1>1
<1>3. ASSUME NEW n \in Nat PROVE some(n + 1)[n] = some(n)[n]
  <2>. DEFINE T == {i \in Nat : i <= n => some(n + 1)[i] = some(n)[i]}
  <2>1. UpTo(some(n), n) /\ UpTo(some(n + 1), n + 1)
    BY <1>2
  <2>. HIDE DEF some
  <2>2. 0 \in T
    BY <2>1 DEF UpTo
  <2>3. ASSUME NEW i \in Nat, i \in T PROVE i + 1 \in T
    BY <2>1, <2>3 DEF UpTo
  <2>. HIDE DEF T
  <2>4. n \in T
    BY <2>2, <2>3, EveryNat
  <2>. QED  BY <2>4 DEF T
<1>. DEFINE F == [n \in Nat |-> some(n)[n]]
<1>4. \A n \in Nat : F[n] \in S
  <2>. HIDE DEF some
  <2>. QED  BY <1>2 DEF UpTo
<1>5. F[0] = x
  <2>. HIDE DEF some
  <2>. QED  BY <1>2 DEF UpTo
<1>6. ASSUME NEW n \in Nat PROVE F[n + 1] = g[F[n]]
  <2>. HIDE DEF some
  <2>1. some(n + 1)[n + 1] = g[some(n + 1)[n]]
    BY <1>2 DEF UpTo
  <2>. QED  BY <1>3, <2>1
<1>7. F \in [Nat -> S]
  BY <1>4
<1>. QED  BY <1>5, <1>6, <1>7

\* Hop starts at its block and follows one link at a time.
HopsAreLinks ==
  \A b \in Blocks :
    /\ Hop(b, 0) = b
    /\ \A n \in Nat :
         /\ Hop(b, n) \in Blocks \cup {NoNext}
         /\ Hop(b, n + 1) = IF Hop(b, n) = NoNext THEN NoNext ELSE Link(Hop(b, n))

LEMMA HopFacts == TypeOK => HopsAreLinks
<1>. SUFFICES ASSUME TypeOK, NEW b \in Blocks
     PROVE  /\ Hop(b, 0) = b
            /\ \A n \in Nat :
                 /\ Hop(b, n) \in Blocks \cup {NoNext}
                 /\ Hop(b, n + 1) = IF Hop(b, n) = NoNext THEN NoNext
                                    ELSE Link(Hop(b, n))
  BY DEF HopsAreLinks
<1>. DEFINE S == Blocks \cup {NoNext}
            g == [c \in S |-> IF c = NoNext THEN NoNext ELSE card.dir[c].next]
            R(f) == f = [i \in Nat |-> IF i = 0 THEN b
                                       ELSE IF f[i - 1] = NoNext THEN NoNext
                                       ELSE card.dir[f[i - 1]].next]
            at == CHOOSE f : R(f)
<1>1. g \in [S -> S]
  BY DEF TypeOK, Image, Entry
<1>2. PICK f \in [Nat -> S] : f[0] = b /\ \A i \in Nat : f[i + 1] = g[f[i]]
  <2>1. b \in S
    OBVIOUS
  <2>. HIDE DEF g, S
  <2>. QED  BY <1>1, <2>1, Iterates
<1>3. R(f)
  <2>1. \A i \in Nat : f[i] = IF i = 0 THEN b ELSE IF f[i - 1] = NoNext THEN NoNext
                              ELSE card.dir[f[i - 1]].next
    <3>. SUFFICES ASSUME NEW i \in Nat, i # 0
                  PROVE  f[i] = IF f[i - 1] = NoNext THEN NoNext
                                ELSE card.dir[f[i - 1]].next
      BY <1>2
    <3>1. i - 1 \in Nat /\ (i - 1) + 1 = i
      OBVIOUS
    <3>2. f[i] = g[f[i - 1]] /\ f[i - 1] \in S
      BY <1>2, <3>1
    <3>. QED  BY <3>2
  <2>. QED  BY <1>2, <2>1
<1>4. R(at)
  <2>. HIDE DEF R
  <2>. QED  BY <1>3
<1>5. \A n : Hop(b, n) = at[n]
  BY DEF Hop
<1>6. at[0] = b /\ \A n \in Nat : at[n + 1] = IF at[n] = NoNext THEN NoNext
                                              ELSE card.dir[at[n]].next
  <2>. HIDE DEF at
  <2>. QED  BY <1>4
<1>7. \A n \in Nat : at[n] \in S
  <2>. DEFINE T == {n \in Nat : at[n] \in S}
  <2>. HIDE DEF at
  <2>1. 0 \in T
    BY <1>6
  <2>2. ASSUME NEW n \in Nat, n \in T PROVE n + 1 \in T
    BY <1>6, <2>2 DEF TypeOK, Image, Entry
  <2>. HIDE DEF T
  <2>3. \A n \in Nat : n \in T
    BY <2>1, <2>2, EveryNat
  <2>. QED  BY <2>3 DEF T
<1>. HIDE DEF at
<1>. QED  BY <1>5, <1>6, <1>7 DEF Link

Closed(X) == \A c \in X : Link(c) # NoNext => Link(c) \in X

\* The links lead out of no set that is closed under them.
LEMMA HopInClosed ==
  ASSUME HopsAreLinks, NEW X \in SUBSET Blocks, Closed(X), NEW b \in X, NEW n \in Nat
  PROVE  Hop(b, n) \in X \cup {NoNext}
<1>. DEFINE T == {m \in Nat : Hop(b, m) \in X \cup {NoNext}}
<1>1. 0 \in T
  BY DEF HopsAreLinks
<1>2. ASSUME NEW m \in Nat, m \in T PROVE m + 1 \in T
  BY <1>2 DEF HopsAreLinks, Closed
<1>. HIDE DEF T
<1>3. n \in T
  BY <1>1, <1>2, EveryNat
<1>. QED  BY <1>3 DEF T

\* Used blocks are closed under links.
LEMMA UsedClosed ==
  ASSUME ChainsDisjoint
  PROVE  Closed(Used) /\ Used \in SUBSET Blocks
<1>. QED  BY DEF ChainsDisjoint, Closed, Used, Linked

\* No block comes up twice along a chain, so it has run out after NumBlocks.
LEMMA HopsRunOut ==
  ASSUME HopsAreLinks, ChainsDisjoint, ChainsEnd, NEW b \in Used,
         NEW n \in Nat, Hop(b, n) # NoNext
  PROVE  n < NumBlocks
<1>. DEFINE Passed(m) == {Hop(b, i) : i \in 0..m}
            T == {m \in Nat : Hop(b, m) # NoNext =>
                              /\ Passed(m) \subseteq Used
                              /\ IsFiniteSet(Passed(m)) /\ Cardinality(Passed(m)) = m + 1}
<1>1. b \in Blocks /\ Closed(Used) /\ Used \in SUBSET Blocks
  BY UsedClosed DEF Used
<1>2. \A m \in Nat : Hop(b, m) \in Used \cup {NoNext}
  BY <1>1, HopInClosed
<1>3. 0 \in T
  <2>1. Passed(0) = {b}
    BY <1>1 DEF HopsAreLinks
  <2>2. IsFiniteSet({b}) /\ Cardinality({b}) = 1
    BY FS_Singleton
  <2>. QED  BY <2>1, <2>2
<1>4. ASSUME NEW m \in Nat, m \in T PROVE m + 1 \in T
  <2>. SUFFICES ASSUME Hop(b, m + 1) # NoNext
                PROVE  /\ Passed(m + 1) \subseteq Used
                       /\ IsFiniteSet(Passed(m + 1))
                       /\ Cardinality(Passed(m + 1)) = (m + 1) + 1
    OBVIOUS
  <2>1. Hop(b, m) # NoNext /\ \A i \in Nat : Hop(b, i + 1) = IF Hop(b, i) = NoNext
                                              THEN NoNext ELSE Link(Hop(b, i))
    BY <1>1 DEF HopsAreLinks
  <2>2. Passed(m) \subseteq Used /\ IsFiniteSet(Passed(m)) /\ Cardinality(Passed(m)) = m + 1
    BY <1>4, <2>1
  <2>3. Passed(m + 1) = Passed(m) \cup {Hop(b, m + 1)}
    <3>1. 0..(m + 1) = (0..m) \cup {m + 1}
      OBVIOUS
    <3>. QED  BY <3>1
  <2>4. Hop(b, m + 1) \notin Passed(m)
    <3>1. Passed(m) # {}
      <4>1. 0 \in 0..m
        OBVIOUS
      <4>. QED  BY <4>1
    <3>2. PICK i \in 0..m : Link(Hop(b, i)) \notin Passed(m)
      <4>. HIDE DEF Passed
      <4>1. \E c \in Passed(m) : Link(c) \notin Passed(m)
        BY <2>2, <3>1 DEF ChainsEnd
      <4>. QED  BY <4>1 DEF Passed
    <3>3. Hop(b, i) # NoNext
      BY <2>2 DEF Used, Blocks, NoNext
    <3>4. Hop(b, i + 1) = Link(Hop(b, i))
      BY <2>1, <3>3
    <3>5. i = m
      <4>. SUFFICES ASSUME i # m PROVE FALSE
        OBVIOUS
      <4>1. i + 1 \in 0..m
        OBVIOUS
      <4>2. Hop(b, i + 1) \in Passed(m)
        BY <4>1
      <4>. QED  BY <3>2, <3>4, <4>2
    <3>. QED  BY <3>2, <3>4, <3>5
  <2>5. Hop(b, m + 1) \in Used
    BY <1>2
  <2>. HIDE DEF Passed
  <2>6. Passed(m + 1) \subseteq Used
    BY <2>2, <2>3, <2>5
  <2>. QED  BY <2>2, <2>3, <2>4, <2>6, FS_AddElement
<1>. HIDE DEF T
<1>5. n \in T
  BY <1>3, <1>4, EveryNat
<1>6. Passed(n) \subseteq Blocks /\ Cardinality(Passed(n)) = n + 1
  BY <1>1, <1>5 DEF T
<1>7. IsFiniteSet(Blocks) /\ Cardinality(Blocks) = NumBlocks
  BY FS_Interval DEF Blocks
<1>8. Cardinality(Passed(n)) <= Cardinality(Blocks)
  <2>. HIDE DEF Passed
  <2>. QED  BY <1>6, <1>7, FS_Subset
<1>. QED  BY <1>6, <1>7, <1>8

\* What Reach is.
ReachIsLeast ==
  \A b \in Used :
    /\ b \in Reach(b) /\ Reach(b) \subseteq Used /\ Closed(Reach(b))
    /\ \A X \in SUBSET Blocks : b \in X /\ Closed(X) => Reach(b) \subseteq X

Chained == TypeOK /\ ChainsDisjoint /\ ChainsEnd

LEMMA ReachFacts == Chained => ReachIsLeast
<1>. SUFFICES ASSUME TypeOK, ChainsDisjoint, ChainsEnd, NEW b \in Used
     PROVE  /\ b \in Reach(b) /\ Reach(b) \subseteq Used /\ Closed(Reach(b))
            /\ \A X \in SUBSET Blocks : b \in X /\ Closed(X) => Reach(b) \subseteq X
  BY DEF ReachIsLeast, Chained
<1>1. HopsAreLinks /\ b \in Blocks
  BY HopFacts DEF Used
<1>2. /\ Hop(b, 0) = b /\ b # NoNext
      /\ \A n \in Nat : Hop(b, n + 1) = IF Hop(b, n) = NoNext THEN NoNext
                                        ELSE Link(Hop(b, n))
  BY <1>1 DEF HopsAreLinks, Blocks, NoNext
<1>3. b \in Reach(b)
  <2>1. 0 \in 0..NumBlocks
    OBVIOUS
  <2>. QED  BY <1>2, <2>1 DEF Reach
<1>4. ASSUME NEW X \in SUBSET Blocks, b \in X, Closed(X) PROVE Reach(b) \subseteq X
  <2>1. \A n \in Nat : Hop(b, n) \in X \cup {NoNext}
    BY <1>1, <1>4, HopInClosed
  <2>. QED  BY <2>1 DEF Reach
<1>5. Reach(b) \subseteq Used
  BY <1>4, UsedClosed
<1>6. ASSUME NEW c \in Reach(b), Link(c) # NoNext PROVE Link(c) \in Reach(b)
  <2>1. PICK n \in 0..NumBlocks : c = Hop(b, n) /\ c # NoNext
    BY DEF Reach
  <2>2. Hop(b, n + 1) = Link(c)
    BY <1>2, <2>1
  <2>3. n + 1 < NumBlocks
    BY <1>1, <1>6, <2>2, HopsRunOut
  <2>4. n + 1 \in 0..NumBlocks
    BY <2>3
  <2>. QED  BY <1>6, <2>2, <2>4 DEF Reach
<1>. QED  BY <1>3, <1>4, <1>5, <1>6 DEF Closed

LEMMA ReachFactsNext == Chained' => ReachIsLeast'
<1>. QED  BY ReachFacts, PTL

\* A block of a chain other than its first is linked from within the chain.
LEMMA ReachedFrom ==
  ASSUME ReachIsLeast, NEW b \in Used, NEW c \in Reach(b), c # b
  PROVE  \E d \in Reach(b) : Link(d) = c
<1>. DEFINE X == {e \in Reach(b) : e = b \/ \E d \in Reach(b) : Link(d) = e}
<1>1. X \in SUBSET Blocks /\ b \in X /\ Closed(X)
  BY DEF ReachIsLeast, Closed, Used
<1>2. Reach(b) \subseteq X
  <2>. HIDE DEF X
  <2>. QED  BY <1>1 DEF ReachIsLeast
<1>. QED  BY <1>2

\* Two chains that nothing links to share no block.
LEMMA ReachApart ==
  ASSUME ReachIsLeast, ChainsDisjoint,
         NEW b \in Used \ Linked, NEW c \in Used \ Linked, b # c
  PROVE  Reach(b) \cap Reach(c) = {}
<1>. DEFINE X == Reach(c) \ Reach(b)
<1>1. Reach(b) \subseteq Used /\ Reach(c) \subseteq Used /\ Closed(Reach(b)) /\ Closed(Reach(c))
      /\ c \in Reach(c)
  BY DEF ReachIsLeast
<1>2. \A d \in Used : Link(d) # NoNext => Link(d) # b /\ Link(d) # c
  BY DEF ChainsDisjoint
<1>3. c # NoNext /\ NoNext \notin Used
  BY DEF Used, Blocks, NoNext
<1>4. c \in X
  <2>. SUFFICES ASSUME c \in Reach(b) PROVE FALSE
    BY <1>1
  <2>1. \E d \in Reach(b) : Link(d) = c
    BY ReachedFrom
  <2>. QED  BY <1>1, <1>2, <1>3, <2>1
<1>5. ASSUME NEW d \in X, Link(d) # NoNext, Link(d) \in Reach(b) PROVE FALSE
  <2>1. Link(d) # b /\ d \in Used
    BY <1>1, <1>2, <1>5
  <2>2. \E e \in Reach(b) : Link(e) = Link(d)
    BY <1>5, <2>1, ReachedFrom
  <2>. QED  BY <1>1, <1>5, <2>1, <2>2 DEF ChainsDisjoint
<1>6. Closed(X)
  BY <1>1, <1>5 DEF Closed
<1>7. X \in SUBSET Blocks
  BY <1>1 DEF Used
<1>8. Reach(c) \subseteq X
  <2>. HIDE DEF X
  <2>. QED  BY <1>4, <1>6, <1>7 DEF ReachIsLeast
<1>. QED  BY <1>8

\* A chain whose links stay is the same chain.
LEMMA ReachKept ==
  ASSUME ReachIsLeast, ReachIsLeast', NEW b \in Used, b \in Used',
         \A c \in Reach(b) : Link(c)' = Link(c)
  PROVE  Reach(b)' = Reach(b)
<1>1. PICK R, Q : R = Reach(b) /\ Q = Reach(b)'
  OBVIOUS
<1>2. /\ b \in R /\ R \in SUBSET Blocks /\ \A c \in R : Link(c) # NoNext => Link(c) \in R
      /\ \A X \in SUBSET Blocks :
           b \in X /\ (\A c \in X : Link(c) # NoNext => Link(c) \in X) => R \subseteq X
  BY <1>1 DEF ReachIsLeast, Closed, Used
<1>3. /\ b \in Q /\ Q \in SUBSET Blocks /\ \A c \in Q : Link(c)' # NoNext => Link(c)' \in Q
      /\ \A X \in SUBSET Blocks :
           b \in X /\ (\A c \in X : Link(c)' # NoNext => Link(c)' \in X) => Q \subseteq X
  BY <1>1 DEF ReachIsLeast, Closed, Used
<1>4. Q \subseteq R
  BY <1>1, <1>2, <1>3
<1>5. R \subseteq R \cap Q
  <2>1. R \cap Q \in SUBSET Blocks /\ b \in R \cap Q
        /\ \A c \in R \cap Q : Link(c) # NoNext => Link(c) \in R \cap Q
    BY <1>1, <1>2, <1>3
  <2>. QED  BY <1>2, <2>1
<1>. QED  BY <1>1, <1>4, <1>5

\* A chain whose end gets a link grows by the block that hangs there.
LEMMA ReachGrown ==
  ASSUME ReachIsLeast, ReachIsLeast', NEW c \in Used, c \in Used',
         NEW p \in Blocks, NEW b \in Blocks, Hung(p, b), b # p, Link(b) = NoNext,
         p \in Reach(c)
  PROVE  Reach(c)' = Reach(c) \cup {b}
<1>1. PICK R, Q : R = Reach(c) /\ Q = Reach(c)'
  OBVIOUS
<1>2. /\ c \in R /\ R \in SUBSET Blocks /\ \A d \in R : Link(d) # NoNext => Link(d) \in R
      /\ \A X \in SUBSET Blocks :
           c \in X /\ (\A d \in X : Link(d) # NoNext => Link(d) \in X) => R \subseteq X
  BY <1>1 DEF ReachIsLeast, Closed, Used
<1>3. /\ c \in Q /\ Q \in SUBSET Blocks /\ \A d \in Q : Link(d)' # NoNext => Link(d)' \in Q
      /\ \A X \in SUBSET Blocks :
           c \in X /\ (\A d \in X : Link(d)' # NoNext => Link(d)' \in X) => Q \subseteq X
  BY <1>1 DEF ReachIsLeast, Closed, Used
<1>4. \A d \in Blocks : Link(d)' = IF d = p THEN b ELSE Link(d)
  BY DEF Hung, SameEntry
<1>5. Link(p) = NoNext /\ b # NoNext
  BY DEF Hung, Blocks, NoNext
<1>6. Q \subseteq R \cup {b}
  <2>1. R \cup {b} \in SUBSET Blocks /\ c \in R \cup {b}
        /\ \A d \in R \cup {b} : Link(d)' # NoNext => Link(d)' \in R \cup {b}
    BY <1>2, <1>4
  <2>. QED  BY <1>3, <2>1
<1>7. R \subseteq R \cap Q
  <2>1. R \cap Q \in SUBSET Blocks /\ c \in R \cap Q
        /\ \A d \in R \cap Q : Link(d) # NoNext => Link(d) \in R \cap Q
    BY <1>2, <1>3, <1>4, <1>5
  <2>. QED  BY <1>2, <2>1
<1>8. b \in Q
  BY <1>1, <1>3, <1>4, <1>5, <1>7
<1>. QED  BY <1>1, <1>6, <1>7, <1>8
----------------------------------------------------------------------------
(***************************************************************************)
(* The chains of a step: which blocks each used block reaches afterwards.  *)
(***************************************************************************)
LEMMA EnteredReach ==
  ASSUME Chained, Chained', NEW b \in Blocks, NEW state, NEW n,
         Entered(b, state, n), state # "free"
  PROVE  /\ \A c \in Used : Reach(c)' = Reach(c)
         /\ Reach(b)' = {b}
<1>1. ReachIsLeast /\ ReachIsLeast'
  BY ReachFacts, ReachFactsNext
<1>2. Used' = Used \cup {b} /\ \A c \in Used : Link(c)' = Link(c)
  BY EnteredKeepsChains DEF Chained
<1>3. ASSUME NEW c \in Used PROVE Reach(c)' = Reach(c)
  <2>1. \A d \in Reach(c) : Link(d)' = Link(d)
    BY <1>1, <1>2 DEF ReachIsLeast
  <2>. QED  BY <1>1, <1>2, <2>1, ReachKept
<1>4. Reach(b)' = {b}
  <2>1. /\ b \in Reach(b)'
        /\ \A X \in SUBSET Blocks :
             b \in X /\ (\A c \in X : Link(c)' # NoNext => Link(c)' \in X)
               => Reach(b)' \subseteq X
    BY <1>1, <1>2 DEF ReachIsLeast, Closed
  <2>2. Link(b)' = NoNext
    BY DEF Entered
  <2>3. {b} \in SUBSET Blocks /\ \A c \in {b} : Link(c)' = NoNext
    BY <2>2
  <2>4. Reach(b)' \subseteq {b}
    BY <2>1, <2>3
  <2>. QED  BY <2>1, <2>4
<1>. QED  BY <1>3, <1>4

LEMMA HungReach ==
  ASSUME Chained, Chained', NEW p \in Used, NEW b \in Blocks, Hung(p, b), p # b,
         b \in Linked, Link(b) = NoNext, \A c \in Used : Link(c) # b, NEW c \in Used
  PROVE  Reach(c)' = IF p \in Reach(c) THEN Reach(c) \cup {b} ELSE Reach(c)
<1>1. ReachIsLeast /\ ReachIsLeast'
  BY ReachFacts, ReachFactsNext
<1>2. Used' = Used
  BY HungKeepsChains DEF Chained
<1>3. CASE p \in Reach(c)
  BY <1>1, <1>2, <1>3, ReachGrown DEF Used
<1>4. CASE p \notin Reach(c)
  <2>1. \A d \in Reach(c) : Link(d)' = Link(d)
    BY <1>1, <1>4 DEF Hung, SameEntry, ReachIsLeast, Used
  <2>. QED  BY <1>1, <1>2, <1>4, <2>1, ReachKept
<1>. QED  BY <1>3, <1>4

LEMMA UntouchedReach ==
  ASSUME Chained, Chained', Untouched
  PROVE  Used' = Used /\ \A c \in Used : Reach(c)' = Reach(c)
<1>1. ReachIsLeast /\ ReachIsLeast'
  BY ReachFacts, ReachFactsNext
<1>2. Used' = Used /\ \A c \in Used : Link(c)' = Link(c)
  BY UntouchedKeepsChains DEF Chained
<1>3. ASSUME NEW c \in Used PROVE Reach(c)' = Reach(c)
  <2>1. \A d \in Reach(c) : Link(d)' = Link(d)
    BY <1>1, <1>2 DEF ReachIsLeast
  <2>. QED  BY <1>1, <1>2, <2>1, ReachKept
<1>. QED  BY <1>2, <1>3
----------------------------------------------------------------------------
(***************************************************************************)
(* Data stays in its file.  A block belongs to a base name when the chain  *)
(* of a first block of that name reaches it; files only ever grow.         *)
(***************************************************************************)
Owns(f, c) == \E b \in Blocks : St(b) = "first" /\ Name(b)[1] = f /\ c \in Reach(b)

FilesInv ==
  /\ \A c \in Blocks : card.stamp[c] # NoFile => Owns(card.stamp[c], c)
  /\ \A i \in Fds : fds[i].active => Owns(fds[i].file, fds[i].block)
  /\ call.pc = "write" => fds[call.fd].active
  /\ call.pc = "walk" => /\ call.name \in Names
                         /\ call.parent \in FileBlocks(<<call.name[1], 0>>)
                         /\ call.prev \in Reach(call.parent)
  /\ call.pc \in {"size", "fd"} => Owns(call.name[1], call.new)

QuietInv == ChainsInv /\ DirectoryInv /\ FilesInv

\* First blocks stay first, keep their names and lose none of their chain.
Grows == \A b \in Blocks : St(b) = "first" => /\ St(b)' = "first" /\ Name(b)' = Name(b)
                                              /\ Reach(b) \subseteq Reach(b)'

LEMMA OwnsKept ==
  ASSUME Grows, NEW f, NEW c, Owns(f, c)
  PROVE  Owns(f, c)'
<1>. QED  BY DEF Grows, Owns

\* The block data goes to belongs to the file of its descriptor.
LEMMA WriteStays ==
  ASSUME ReachIsLeast, HopsAreLinks, NEW f, NEW b, Owns(f, b), NEW n \in Nat,
         Hop(b, n) # NoNext
  PROVE  Owns(f, Hop(b, n))
<1>1. PICK d \in Blocks : St(d) = "first" /\ Name(d)[1] = f /\ b \in Reach(d)
  BY DEF Owns
<1>2. Reach(d) \in SUBSET Blocks /\ Closed(Reach(d))
  BY <1>1 DEF ReachIsLeast, Used
<1>3. Hop(b, n) \in Reach(d)
  BY <1>1, <1>2, HopInClosed
<1>. QED  BY <1>1, <1>3 DEF Owns

\* Positions lie in blocks.
LEMMA DivNat ==
  ASSUME NEW x \in Nat, NEW d \in Nat \ {0}
  PROVE  x \div d \in Nat
<1>. QED  OBVIOUS

LEMMA FilesInit == Init => FilesInv
<1>. SUFFICES ASSUME Init PROVE FilesInv
  OBVIOUS
<1>1. \A c \in Blocks : card.stamp[c] = NoFile
  BY DEF Init, FormattedCard
<1>2. \A i \in Fds : ~fds[i].active
  BY DEF Init, ClosedFd
<1>3. call.pc = "idle"
  BY DEF Init, NoCall
<1>. QED  BY <1>1, <1>2, <1>3 DEF FilesInv

\* Data that is not touched, and descriptors that are not, keep their files.
LEMMA StampsKept ==
  ASSUME FilesInv, Grows, SameStamps
  PROVE  \A c \in Blocks : card'.stamp[c] # NoFile => Owns(card.stamp[c], c)'
<1>. QED  BY OwnsKept DEF FilesInv, SameStamps, Owns

LEMMA FilesOfFdsKept ==
  ASSUME FilesInv, Grows, UNCHANGED fds
  PROVE  \A i \in Fds : fds'[i].active => Owns(fds[i].file, fds[i].block)'
<1>. SUFFICES ASSUME NEW i \in Fds, fds'[i].active, NEW f, NEW b,
                     f = fds[i].file, b = fds[i].block
              PROVE  Owns(f, b)'
  BY DEF Owns
<1>. QED  BY OwnsKept DEF FilesInv

\* One step of a card whose saves do not fail keeps every file's data its own.
LEMMA FilesStep ==
  ASSUME Quiet, QuietInv, [Next]_vars
  PROVE  FilesInv' /\ Grows
<1>0. /\ TypeOK /\ Chained /\ ChainsInv /\ ReachIsLeast /\ FilesInv /\ Apart
      /\ TypeOK' /\ Chained' /\ ReachIsLeast'
  BY ChainsStep, ReachFacts, ReachFactsNext DEF QuietInv, ChainsInv, Chained, Apart
<1>1. \A b \in Blocks : St(b) = "first" => b \in Used /\ b \in Reach(b)
  BY <1>0 DEF Used, ReachIsLeast
<1>2. ASSUME NEW n \in Names, CreateFirst(n, BlockUnits)
      PROVE  FilesInv' /\ Grows
  <2>1. PICK b \in Blocks :
          /\ Entered(b, "first", n) /\ SameStamps
          /\ call' = [NoCall EXCEPT !.pc = "fd", !.name = n, !.new = b]
    BY <1>0, <1>2, FirstStep
  <2>2. Reach(b)' = {b} /\ \A c \in Used : Reach(c)' = Reach(c)
    BY <1>0, <2>1, EnteredReach
  <2>3. Grows
    BY <1>1, <2>1, <2>2 DEF Grows, Entered, SameEntry
  <2>4. Owns(n[1], b)'
    BY <2>1, <2>2 DEF Owns, Entered
  <2>5. call'.pc = "fd" /\ call'.name = n /\ call'.new = b /\ fds' = fds
    BY <1>2, <2>1 DEF NoCall, CreateFirst
  <2>6. Owns(call.name[1], call.new)'
    BY <2>4, <2>5 DEF Owns
  <2>. QED  BY <1>0, <2>1, <2>3, <2>5, <2>6, StampsKept, FilesOfFdsKept DEF FilesInv
<1>3. ASSUME NEW n \in Names, CreateContinuation(n)
      PROVE  FilesInv' /\ Grows
  <2>1. PICK b \in Blocks, p \in FileBlocks(<<n[1], 0>>) :
          /\ Entered(b, "last", NoName) /\ SameStamps
          /\ call' = [NoCall EXCEPT !.pc = "walk", !.name = n, !.new = b,
                                    !.parent = p, !.prev = p]
    BY <1>0, <1>3, ContinuationStep
  <2>2. \A c \in Used : Reach(c)' = Reach(c)
    BY <1>0, <2>1, EnteredReach
  <2>3. Grows
    BY <1>1, <2>1, <2>2 DEF Grows, Entered, SameEntry
  <2>4. call'.pc = "walk" /\ call'.name = n /\ call'.parent = p /\ call'.prev = p
        /\ fds' = fds
    BY <1>3, <2>1 DEF NoCall, CreateContinuation
  <2>5. St(p) = "first" /\ Name(p) = <<n[1], 0>> /\ p \in Blocks
    BY <2>1 DEF FileBlocks, St, Name
  <2>6. FileBlocks(<<call.name[1], 0>>)' = FileBlocks(<<n[1], 0>>)'
    BY <2>4 DEF FileBlocks
  <2>7. p \in FileBlocks(<<n[1], 0>>)'
    BY <2>3, <2>5 DEF Grows, FileBlocks, St, Name
  <2>8. p \in Reach(p)'
    BY <1>1, <2>3, <2>5 DEF Grows
  <2>9. Reach(call.parent)' = Reach(p)'
    BY <2>4 DEF Reach
  <2>. QED  BY <1>0, <2>1, <2>3, <2>4, <2>6, <2>7, <2>8, <2>9, StampsKept, FilesOfFdsKept
            DEF FilesInv
<1>4. CASE LinkBlock
  <2>1. PICK p \in Blocks, b \in Blocks :
          /\ p = call.prev /\ b = call.new /\ Hung(p, b) /\ SameStamps
          /\ call' = [call EXCEPT !.pc = "size"]
    BY <1>0, <1>4, LinkStep
  <2>2. /\ b \in Linked /\ Link(b) = NoNext /\ \A c \in Used : Link(c) # b
        /\ p \in Used /\ p # b
    BY <1>0, <1>4, <2>1 DEF LinkBlock, Apart, NewBlockApart
  <2>3. \A c \in Used : Reach(c)' = IF p \in Reach(c) THEN Reach(c) \cup {b} ELSE Reach(c)
    BY <1>0, <2>1, <2>2, HungReach
  <2>4. Grows
    BY <1>1, <2>1, <2>3 DEF Grows, Hung, SameEntry
  <2>5. PICK q \in FileBlocks(<<call.name[1], 0>>) : p \in Reach(q)
    BY <1>0, <1>4, <2>1 DEF FilesInv, LinkBlock
  <2>6. St(q) = "first" /\ Name(q)[1] = call.name[1] /\ q \in Blocks
    BY <2>5 DEF FileBlocks, St, Name
  <2>7. b \in Reach(q)'
    BY <1>1, <2>3, <2>5, <2>6
  <2>8. call'.pc = "size" /\ call'.name = call.name /\ call'.new = b /\ fds' = fds
    BY <1>0, <1>4, <2>1 DEF LinkBlock, TypeOK, Call
  <2>9. Owns(call.name[1], call.new)'
    BY <2>4, <2>6, <2>7, <2>8 DEF Owns, Grows
  <2>. QED  BY <1>0, <2>1, <2>4, <2>8, <2>9, StampsKept, FilesOfFdsKept DEF FilesInv
<1>5. ASSUME Untouched PROVE Grows
  <2>1. \A c \in Used : Reach(c)' = Reach(c)
    BY <1>0, <1>5, UntouchedReach
  <2>. QED  BY <1>1, <1>5, <2>1 DEF Grows, Untouched, SameEntry
<1>6. CASE SetParentSize
  <2>1. Grows /\ SameStamps /\ call' = [call EXCEPT !.pc = "fd"] /\ fds' = fds
        /\ call.pc = "size"
    BY <1>0, <1>5, <1>6, SizeStep DEF SetParentSize
  <2>2. call'.pc = "fd" /\ call'.name = call.name /\ call'.new = call.new
    BY <1>0, <2>1 DEF TypeOK, Call
  <2>3. Owns(call.name[1], call.new)'
    BY <1>0, <2>1, <2>2, OwnsKept DEF FilesInv, Owns
  <2>. QED  BY <1>0, <2>1, <2>2, <2>3, StampsKept, FilesOfFdsKept DEF FilesInv
<1>7. CASE WriteUnit
  <2>. DEFINE fd == fds[call.fd]
              w == WriteBlock(fd, call.pos)
  <2>1. /\ Grows /\ fds' = fds /\ call.pc = "write"
        /\ call' = [call EXCEPT !.pos = call.pos + 1, !.left = call.left - 1]
        /\ \A c \in Blocks : card'.stamp[c] = IF c = w THEN fd.file ELSE card.stamp[c]
    BY <1>0, <1>5, <1>7, UnitStep DEF WriteUnit
  <2>2. fd.active /\ Owns(fd.file, fd.block) /\ fd.block \in Blocks
    BY <1>0, <2>1 DEF FilesInv, TypeOK, Fd
  <2>3. call.pos \div BlockUnits \in Nat
    BY <1>0, DivNat DEF TypeOK, Call
  <2>4. w # NoNext
    BY <1>7 DEF WriteUnit
  <2>5. Owns(fd.file, w)
    <3>1. w = Hop(fd.block, call.pos \div BlockUnits) /\ HopsAreLinks
      BY <1>0, HopFacts DEF WriteBlock
    <3>. HIDE DEF fd, w
    <3>. QED  BY <1>0, <2>2, <2>3, <2>4, <3>1, WriteStays
  <2>6. call'.pc = "write" /\ call'.fd = call.fd
    BY <1>0, <2>1 DEF TypeOK, Call
  <2>7. \A c \in Blocks : card'.stamp[c] # NoFile => Owns(card.stamp[c], c)'
    <3>. SUFFICES ASSUME NEW c \in Blocks, NEW f, f = card'.stamp[c], f # NoFile
                  PROVE  Owns(f, c)'
      BY DEF Owns
    <3>1. Owns(f, c)
      <4>. HIDE DEF fd, w
      <4>1. CASE c = w
        BY <2>1, <2>5, <4>1
      <4>2. CASE c # w
        BY <1>0, <2>1, <4>2 DEF FilesInv
      <4>. QED  BY <4>1, <4>2
    <3>. QED  BY <2>1, <3>1, OwnsKept
  <2>. QED  BY <1>0, <2>1, <2>2, <2>6, <2>7, FilesOfFdsKept DEF FilesInv
<1>8. CASE Crash
  <2>1. Untouched /\ SameStamps
    BY <1>0, <1>8, SyncedStep DEF ChainsInv
  <2>2. Grows /\ SameStamps /\ call'.pc = "idle" /\ \A i \in Fds : ~fds'[i].active
    BY <1>5, <1>8, <2>1 DEF Crash, NoCall, ClosedFd
  <2>. QED  BY <1>0, <2>2, StampsKept DEF FilesInv
<1>9. CASE Elsewhere
  <2>1. Grows /\ SameStamps /\ Untouched
    BY <1>5, <1>9, ElsewhereStep
  <2>2. \A i \in Fds : fds'[i].active => Owns(fds[i].file, fds[i].block)'
    <3>. SUFFICES ASSUME NEW i \in Fds, fds'[i].active, NEW f, NEW b,
                         f = fds'[i].file, b = fds'[i].block
                  PROVE  Owns(f, b)'
      BY DEF Owns
    <3>1. CASE fds[i].active /\ b = fds[i].block /\ f = fds[i].file
      BY <1>0, <2>1, <3>1, OwnsKept DEF FilesInv
    <3>2. CASE \E n \in Names : b \in FileBlocks(n) /\ f = n[1]
      <4>1. Owns(f, b)
        BY <1>1, <3>2 DEF FileBlocks, Owns, St, Name
      <4>. QED  BY <2>1, <4>1, OwnsKept
    <3>3. CASE call.pc = "fd" /\ b = call.new /\ f = call.name[1]
      BY <1>0, <2>1, <3>3, OwnsKept DEF FilesInv
    <3>. QED  BY <1>0, <1>9, <3>1, <3>2, <3>3, FdsStep
  <2>3. CASE WalkChain
    <3>1. call.pc = "walk" /\ Link(call.prev) # NoNext
          /\ call' = [call EXCEPT !.prev = Link(call.prev)]
      BY <2>3 DEF WalkChain, Link
    <3>2. call'.pc = "walk" /\ call'.name = call.name /\ call'.parent = call.parent
          /\ call'.prev = Link(call.prev)
      BY <1>0, <3>1 DEF TypeOK, Call
    <3>3. PICK q \in FileBlocks(<<call.name[1], 0>>) : q = call.parent /\ call.prev \in Reach(q)
      BY <1>0, <3>1 DEF FilesInv
    <3>4. q \in Blocks /\ St(q) = "first" /\ Name(q) = <<call.name[1], 0>>
      BY <3>3 DEF FileBlocks, St, Name
    <3>5. Link(call.prev) \in Reach(q)
      BY <1>0, <1>1, <3>1, <3>3, <3>4 DEF ReachIsLeast, Closed
    <3>6. Reach(call.parent)' = Reach(q)' /\ Reach(q) \subseteq Reach(q)'
      BY <2>1, <3>2, <3>3, <3>4 DEF Reach, Grows
    <3>7. q \in FileBlocks(<<call.name[1], 0>>)'
      BY <2>1, <3>2, <3>4 DEF FileBlocks, Grows, St, Name
    <3>8. call'.parent = q /\ call'.prev \in Reach(call.parent)' /\ call'.name \in Names
      BY <1>0, <3>1, <3>2, <3>3, <3>5, <3>6 DEF FilesInv
    <3>. QED  BY <1>0, <2>1, <2>2, <3>2, <3>7, <3>8, StampsKept DEF FilesInv
  <2>4. CASE UNCHANGED call
    <3>1. call.pc \in {"size", "fd"} => Owns(call.name[1], call.new)'
      BY <1>0, <2>1, <2>4, OwnsKept DEF FilesInv, Owns
    <3>2. call.pc = "walk" => /\ call.parent \in FileBlocks(<<call.name[1], 0>>)'
                              /\ call.prev \in Reach(call.parent)'
      BY <1>0, <2>1, <2>4 DEF FilesInv, FileBlocks, Grows, St, Name, Reach
    <3>3. call.pc = "write" => fds'[call.fd].active
      <4>1. call.pc = "write" => UNCHANGED fds
        BY <1>9, <2>4 DEF Elsewhere, WalkChain, FinishCreate, FinishWrite, Open, Lseek,
                          Read, StartWrite, Close, vars, NoCall
      <4>. QED  BY <1>0, <4>1 DEF FilesInv
    <3>. QED  BY <1>0, <2>1, <2>2, <2>4, <3>1, <3>2, <3>3, StampsKept DEF FilesInv
  <2>5. CASE call' = NoCall
    BY <1>0, <2>1, <2>2, <2>5, StampsKept DEF FilesInv, NoCall
  <2>6. ASSUME NEW i \in Fds, NEW len \in 1..MaxPos, StartWrite(i, len)
        PROVE  FilesInv'
    <3>1. call'.pc = "write" /\ call'.fd = i /\ fds'[i].active
      BY <2>6 DEF StartWrite, NoCall
    <3>. QED  BY <1>0, <2>1, <2>2, <3>1, StampsKept DEF FilesInv
  <2>. QED  BY <1>9, <2>1, <2>3, <2>4, <2>5, <2>6, CallKinds
<1>. QED  BY <1>0, <1>2, <1>3, <1>4, <1>6, <1>7, <1>8, <1>9, StepKinds

LEMMA QuietInit == Init => QuietInv
<1>. SUFFICES ASSUME Init PROVE QuietInv
  OBVIOUS
<1>1. Used = {} /\ TypeOK
  BY ApartInit, TypeInit
<1>2. FdsOnUsedBlocks /\ NewBlockUsed /\ disk = Absent
  BY DEF Init, FdsOnUsedBlocks, NewBlockUsed, ClosedFd, NoCall
<1>3. DirectoryInv
  BY <1>1, <1>2 DEF DirectoryInv, NamesUnique, Used
<1>. QED  BY <1>3, ChainsInit, FilesInit DEF QuietInv

LEMMA QuietStep ==
  ASSUME Quiet, QuietInv, [Next]_vars
  PROVE  QuietInv'
<1>. QED  BY ChainsStep, DirectoryStep, FilesStep DEF QuietInv

\* What a descriptor writes stays in the blocks of its own file, whatever is
\* created, walked and linked between its writes, and across crashes.
THEOREM DataStaysInFile == Quiet /\ Spec => []WritesStayInFile
<1>1. QuietInv => WritesStayInFile
  <2>. SUFFICES ASSUME QuietInv, NEW b \in Blocks, St(b) = "first", NEW c \in Reach(b),
                       card.stamp[c] # NoFile
                PROVE  card.stamp[c] = card.dir[b].name[1]
    BY DEF WritesStayInFile
  <2>1. ReachIsLeast /\ ChainsDisjoint
    BY ReachFacts DEF QuietInv, ChainsInv, Chained
  <2>2. c \in Blocks
    BY <2>1 DEF ReachIsLeast, Used
  <2>3. PICK d \in Blocks : St(d) = "first" /\ Name(d)[1] = card.stamp[c] /\ c \in Reach(d)
    BY <2>2 DEF QuietInv, FilesInv, Owns
  <2>4. b \in Used \ Linked /\ d \in Used \ Linked
    BY <2>3 DEF Used, Linked
  <2>5. b = d
    BY <2>1, <2>3, <2>4, ReachApart
  <2>. QED  BY <2>3, <2>5 DEF Name
<1>2. CASE Quiet
  <2>1. QuietInv /\ [Next]_vars => QuietInv'
    BY <1>2, QuietStep
  <2>. QED  BY <1>1, <2>1, QuietInit, PTL DEF Spec
<1>3. CASE ~Quiet
  BY <1>3
<1>. QED  BY <1>2, <1>3
----------------------------------------------------------------------------
(***************************************************************************)
(* The directory implements CardFiles: the blocks of a name are those its  *)
(* first block reaches, the block a creating open is linking is held, and  *)
(* a continuation block that nothing links to is lost.                     *)
(***************************************************************************)
Lost == Orphans \ Held

\* A name has one first block, so its blocks are the chain of that block.
LEMMA ContentOfFirst ==
  ASSUME NamesUnique, NEW n \in Names, NEW b \in FileBlocks(n)
  PROVE  FileBlocks(n) = {b} /\ Content[n] = Reach(b)
<1>1. FileBlocks(n) = {b}
  BY DEF NamesUnique, FileBlocks, St
<1>. QED  BY <1>1 DEF Content

LEMMA ContentOfNone ==
  ASSUME NEW n \in Names, FileBlocks(n) = {}
  PROVE  Content[n] = {}
<1>. QED  BY DEF Content

\* Names whose first blocks and chains stay keep their blocks.
LEMMA ContentKept ==
  ASSUME NEW n \in Names, FileBlocks(n)' = FileBlocks(n),
         \A b \in FileBlocks(n) : Reach(b)' = Reach(b)
  PROVE  Content'[n] = Content[n]
<1>. QED  BY DEF Content

\* A free block belongs to no name and is neither held nor lost.
LEMMA FreeIsFree ==
  ASSUME QuietInv, NEW b \in Blocks \ Used
  PROVE  b \in CardFilesSpec!Free
<1>1. ReachIsLeast /\ Linked \subseteq Used
  BY ReachFacts DEF QuietInv, ChainsInv, Chained, Linked, Used
<1>2. Held \subseteq Used /\ Orphans \subseteq Used
  BY <1>1 DEF Held, Orphans, QuietInv, ChainsInv, NewBlockApart
<1>3. \A n \in Names : Content[n] \subseteq Used
  BY <1>1 DEF Content, FileBlocks, ReachIsLeast, Used, St
<1>. QED  BY <1>2, <1>3 DEF CardFilesSpec!Free

LEMMA CardFilesInit == Init => CardFilesSpec!Init
<1>. SUFFICES ASSUME Init PROVE CardFilesSpec!Init
  OBVIOUS
<1>1. Used = {}
  BY ApartInit
<1>2. \A n \in Names : FileBlocks(n) = {}
  BY <1>1 DEF FileBlocks, Used, St
<1>3. Content = [n \in Names |-> {}]
  BY <1>2 DEF Content
<1>4. Held = {} /\ Orphans = {}
  BY <1>1 DEF Init, NoCall, Held, Orphans, Linked, Used
<1>. QED  BY <1>3, <1>4 DEF CardFilesSpec!Init

\* A step that leaves entries alone keeps files and orphans.
LEMMA UntouchedFiles ==
  ASSUME Chained, Chained', Untouched
  PROVE  Content' = Content /\ Orphans' = Orphans
<1>1. Used' = Used /\ \A c \in Used : Reach(c)' = Reach(c)
  BY UntouchedReach
<1>2. ASSUME NEW n \in Names
      PROVE  FileBlocks(n)' = FileBlocks(n) /\ \A b \in FileBlocks(n) : Reach(b)' = Reach(b)
  <2>1. FileBlocks(n)' = FileBlocks(n)
    BY DEF Untouched, SameEntry, FileBlocks, St, Name
  <2>2. FileBlocks(n) \subseteq Used
    BY DEF FileBlocks, Used, St
  <2>. QED  BY <1>1, <2>1, <2>2
<1>3. Content' = Content
  BY <1>2 DEF Content
<1>4. Linked' = Linked /\ \A c \in Used : Link(c)' = Link(c)
  BY UntouchedKeepsChains DEF Chained
<1>. QED  BY <1>1, <1>3, <1>4 DEF Orphans

\* Every step is a step of CardFiles or changes nothing it sees; blocks are
\* lost in a crash only, the held one at most.
LEMMA CardFilesStep ==
  ASSUME Quiet, QuietInv, [Next]_vars
  PROVE  /\ [CardFilesSpec!Next]_(CardFilesSpec!vars)
         /\ Lost' = Lost \cup (IF Crash THEN Held ELSE {})
<1>0. /\ TypeOK /\ Chained /\ ChainsInv /\ ReachIsLeast /\ FilesInv /\ Apart /\ NamesUnique
      /\ TypeOK' /\ Chained'
      /\ Linked \subseteq Used /\ NoNext \notin Linked
  BY ChainsStep, ReachFacts
  DEF QuietInv, ChainsInv, Chained, Apart, DirectoryInv, Linked, Used, Blocks, NoNext
<1>1. \A n \in Names : FileBlocks(n) \subseteq Used
  BY DEF FileBlocks, Used, St
<1>2. ASSUME NEW n \in Names, CreateFirst(n, BlockUnits)
      PROVE  /\ CardFilesSpec!Next
             /\ ~Crash /\ Lost' = Lost
  <2>1. PICK b \in Blocks :
          /\ Entered(b, "first", n)
          /\ call' = [NoCall EXCEPT !.pc = "fd", !.name = n, !.new = b]
    BY <1>0, <1>2, FirstStep
  <2>2. Reach(b)' = {b} /\ \A c \in Used : Reach(c)' = Reach(c)
    BY <1>0, <2>1, EnteredReach
  <2>3. FileBlocks(n) = {} /\ call.pc = "idle" /\ call'.pc = "fd"
    BY <1>2, <2>1 DEF CreateFirst, NoCall
  <2>4. FileBlocks(n)' = {b}
    BY <2>1, <2>3 DEF Entered, SameEntry, FileBlocks, St, Name
  <2>5. \A m \in Names : m # n => FileBlocks(m)' = FileBlocks(m)
    BY <2>1 DEF Entered, SameEntry, FileBlocks, St, Name, Used
  <2>6. Content[n] = {} /\ Content'[n] = {b}
    <3>1. Content'[n] = UNION {Reach(c)' : c \in {b}}
      BY <2>4 DEF Content
    <3>. QED  BY <2>2, <2>3, <3>1, ContentOfNone
  <2>7. \A m \in Names : m # n => Content'[m] = Content[m]
    BY <1>1, <2>2, <2>5, ContentKept
  <2>8. Content' = [Content EXCEPT ![n] = {b}]
    BY <2>6, <2>7 DEF Content
  <2>9. Held = {} /\ Held' = {}
    BY <2>3 DEF Held
  <2>10. Orphans' = Orphans
    <3>1. Linked' = Linked /\ Used' = Used \cup {b} /\ Link(b)' = NoNext
          /\ \A c \in Used : Link(c)' = Link(c)
      BY <2>1 DEF Entered, SameEntry, Linked, Used
    <3>. QED  BY <1>0, <3>1 DEF Orphans
  <2>11. b \in CardFilesSpec!Free
    BY <2>1, FreeIsFree DEF Entered
  <2>12. CardFilesSpec!Create(n, b)
    BY <2>6, <2>8, <2>9, <2>10 DEF CardFilesSpec!Create
  <2>13. ~Crash
    BY <2>3 DEF Crash, NoCall
  <2>. QED  BY <2>9, <2>10, <2>11, <2>12, <2>13 DEF CardFilesSpec!Next, Lost
<1>3. ASSUME NEW n \in Names, CreateContinuation(n)
      PROVE  /\ CardFilesSpec!Next
             /\ ~Crash /\ Lost' = Lost
  <2>1. PICK b \in Blocks, p \in FileBlocks(<<n[1], 0>>) :
          /\ Entered(b, "last", NoName)
          /\ call' = [NoCall EXCEPT !.pc = "walk", !.name = n, !.new = b,
                                    !.parent = p, !.prev = p]
    BY <1>0, <1>3, ContinuationStep
  <2>2. \A c \in Used : Reach(c)' = Reach(c)
    BY <1>0, <2>1, EnteredReach
  <2>3. call.pc = "idle" /\ call'.pc = "walk" /\ call'.new = b
    BY <1>3, <2>1 DEF CreateContinuation, NoCall
  <2>4. \A m \in Names : FileBlocks(m)' = FileBlocks(m)
    BY <2>1 DEF Entered, SameEntry, FileBlocks, St, Name, Used
  <2>5. \A m \in Names : Content'[m] = Content[m]
    BY <1>1, <2>2, <2>4, ContentKept
  <2>6. Content' = Content
    BY <2>5 DEF Content
  <2>7. Held = {} /\ Held' = {b}
    BY <2>3 DEF Held
  <2>8. Orphans' = Orphans \cup {b} /\ b \notin Orphans
    <3>1. Linked' = Linked \cup {b} /\ Used' = Used \cup {b} /\ Link(b)' = NoNext
          /\ (\A c \in Used : Link(c)' = Link(c)) /\ b \notin Used
      BY <2>1 DEF Entered, SameEntry, Linked, Used
    <3>2. (\A c \in Used : Link(c) # b) /\ b # NoNext
      BY <1>0, <3>1 DEF Apart, ChainsDisjoint, Blocks, NoNext
    <3>. QED  BY <1>0, <3>1, <3>2 DEF Orphans
  <2>9. b \in CardFilesSpec!Free
    BY <2>1, FreeIsFree DEF Entered
  <2>10. Lost' = Lost
    BY <2>7, <2>8 DEF Lost
  <2>11. CardFilesSpec!Reserve(b)
    BY <2>6, <2>7, <2>10 DEF CardFilesSpec!Reserve, Lost
  <2>12. ~Crash
    BY <2>3 DEF Crash, NoCall
  <2>. QED  BY <2>9, <2>10, <2>11, <2>12 DEF CardFilesSpec!Next
<1>4. CASE LinkBlock
  <2>1. PICK p \in Blocks, b \in Blocks :
          /\ p = call.prev /\ b = call.new /\ Hung(p, b)
          /\ call' = [call EXCEPT !.pc = "size"]
    BY <1>0, <1>4, LinkStep
  <2>2. /\ b \in Linked /\ Link(b) = NoNext /\ \A c \in Used : Link(c) # b
        /\ p \in Used /\ p # b
    BY <1>0, <1>4, <2>1 DEF LinkBlock, Apart, NewBlockApart
  <2>3. \A c \in Used : Reach(c)' = IF p \in Reach(c) THEN Reach(c) \cup {b} ELSE Reach(c)
    BY <1>0, <2>1, <2>2, HungReach
  <2>4. call.pc = "walk" /\ call'.pc = "size"
    BY <1>0, <1>4, <2>1 DEF LinkBlock, TypeOK, Call
  <2>15. PICK n \in Names : \E q \in FileBlocks(n) : p \in Reach(q)
    <3>1. <<call.name[1], 0>> \in Names
      BY <1>0, <2>4 DEF FilesInv, Names
    <3>. QED  BY <1>0, <2>1, <2>4, <3>1 DEF FilesInv
  <2>5. PICK q \in FileBlocks(n) : p \in Reach(q)
    BY <2>15
  <2>6. q \in Blocks /\ St(q) = "first" /\ Name(q) = n /\ FileBlocks(n) = {q}
        /\ Content[n] = Reach(q) /\ q \in Reach(q) /\ q \in Used \ Linked
    BY <1>0, <1>1, <2>5, ContentOfFirst DEF FileBlocks, St, Name, Linked, ReachIsLeast
  <2>7. \A m \in Names : FileBlocks(m)' = FileBlocks(m)
    BY <2>1 DEF Hung, SameEntry, FileBlocks, St, Name
  <2>8. ASSUME NEW m \in Names, m # n PROVE Content'[m] = Content[m]
    <3>1. \A c \in FileBlocks(m) : c # q /\ c \in Used \ Linked
      BY <1>1, <2>6, <2>8 DEF FileBlocks, Linked, Name, St
    <3>2. \A c \in FileBlocks(m) : p \notin Reach(c)
      BY <1>0, <2>5, <2>6, <3>1, ReachApart DEF Chained
    <3>. QED  BY <1>1, <2>3, <2>7, <3>2, ContentKept
  <2>9. Content'[n] = Content[n] \cup {b}
    <3>1. Content'[n] = UNION {Reach(c)' : c \in {q}}
      BY <2>6, <2>7 DEF Content
    <3>. QED  BY <1>1, <2>3, <2>5, <2>6, <3>1
  <2>10. Held = {b} /\ Held' = {}
    BY <2>1, <2>4 DEF Held
  <2>11. Content' = [Content EXCEPT ![n] = @ \cup Held] /\ Content[n] # {}
    BY <2>6, <2>8, <2>9, <2>10 DEF Content
  <2>12. Orphans' = Orphans \ {b}
    <3>1. Linked' = Linked /\ Used' = Used
      BY <1>0, <2>1, <2>2, HungKeepsChains DEF Chained
    <3>2. \A c \in Used : Link(c)' = IF c = p THEN b ELSE Link(c)
      BY <2>1 DEF Hung, SameEntry, Used
    <3>3. Link(p) = NoNext
      BY <2>1 DEF Hung
    <3>. QED  BY <1>0, <2>2, <3>1, <3>2, <3>3 DEF Orphans
  <2>13. Lost' = Lost
    BY <2>10, <2>12 DEF Lost
  <2>14. CardFilesSpec!Attach(n)
    BY <2>10, <2>11, <2>13 DEF CardFilesSpec!Attach, Lost
  <2>16. ~Crash
    BY <2>4 DEF Crash, NoCall
  <2>. QED  BY <2>13, <2>14, <2>16 DEF CardFilesSpec!Next
<1>5. CASE Crash
  <2>1. Content' = Content /\ Orphans' = Orphans
    BY <1>0, <1>5, SyncedStep, UntouchedFiles DEF ChainsInv
  <2>2. Held' = {}
    BY <1>5 DEF Crash, Held, NoCall
  <2>3. Held \subseteq Orphans
    BY <1>0 DEF Held, Orphans, Apart, NewBlockApart
  <2>4. Lost' = Lost \cup Held
    BY <2>1, <2>2, <2>3 DEF Lost
  <2>5. CASE Held = {}
    BY <1>5, <2>1, <2>2, <2>4, <2>5 DEF CardFilesSpec!vars, Lost
  <2>6. CASE Held # {}
    BY <1>5, <2>1, <2>2, <2>4, <2>6 DEF CardFilesSpec!Lose, CardFilesSpec!Next, Lost
  <2>. QED  BY <2>5, <2>6
<1>6. ASSUME Untouched, ~Crash, Held' = Held
      PROVE  [CardFilesSpec!Next]_(CardFilesSpec!vars) /\ Lost' = Lost
  <2>1. Content' = Content /\ Orphans' = Orphans
    BY <1>0, <1>6, UntouchedFiles
  <2>. QED  BY <1>6, <2>1 DEF CardFilesSpec!vars, Lost
<1>7. CASE (SetParentSize \/ WriteUnit) /\ ~Crash
  <2>1. Untouched /\ call.pc # "walk" /\ call'.pc # "walk"
    BY <1>0, <1>7, SizeStep, UnitStep DEF SetParentSize, WriteUnit, TypeOK, Call
  <2>. QED  BY <1>6, <1>7, <2>1 DEF Held
<1>8. CASE Elsewhere /\ ~Crash
  <2>1. Untouched
    BY <1>8, ElsewhereStep
  <2>2. Held' = Held
    <3>1. CASE WalkChain
      BY <1>0, <3>1 DEF WalkChain, Held, TypeOK, Call
    <3>2. CASE UNCHANGED call
      BY <3>2 DEF Held
    <3>3. CASE call.pc \in {"fd", "write"} /\ call' = NoCall
      BY <3>3 DEF Held, NoCall
    <3>4. CASE \E i \in Fds, len \in 1..MaxPos : StartWrite(i, len)
      BY <3>4 DEF StartWrite, Held, NoCall
    <3>. QED  BY <1>8, <3>1, <3>2, <3>3, <3>4, CallKinds
  <2>. QED  BY <1>6, <1>8, <2>1, <2>2
<1>. QED  BY <1>0, <1>2, <1>3, <1>4, <1>5, <1>7, <1>8, StepKinds

\* When no save fails, the entries, links and saves of the directory implement
\* CardFiles: a name owns a growing set of blocks, and no block has two owners.
THEOREM CardIsFiles == Quiet /\ Spec => ImplementsCardFiles
<1>1. CASE Quiet
  <2>1. QuietInv /\ [Next]_vars => QuietInv' /\ [CardFilesSpec!Next]_(CardFilesSpec!vars)
    BY <1>1, QuietStep, CardFilesStep
  <2>. QED  BY <2>1, QuietInit, CardFilesInit, PTL
            DEF Spec, ImplementsCardFiles, CardFilesSpec!Spec
<1>2. CASE ~Quiet
  BY <1>2
<1>. QED  BY <1>1, <1>2

\* A crash leaks the one block a creating open has saved and not yet linked, so
\* no more blocks are ever orphaned than there were crashes.
THEOREM OrphansAlwaysCounted == Quiet /\ Spec => []OrphansCounted
<1>. DEFINE I == QuietInv /\ IsFiniteSet(Lost) /\ Cardinality(Lost) <= crashes
<1>1. Init => I
  <2>. SUFFICES ASSUME Init PROVE I
    OBVIOUS
  <2>1. Used = {}
    BY ApartInit
  <2>2. Lost = {}
    BY <2>1 DEF Lost, Orphans, Linked, Used
  <2>. QED  BY <2>2, QuietInit, FS_EmptySet DEF Init
<1>2. I => OrphansCounted
  BY DEF OrphansCounted, Lost
<1>3. CASE Quiet
  <2>1. I /\ [Next]_vars => I'
    <3>. SUFFICES ASSUME I, [Next]_vars PROVE I'
      OBVIOUS
    <3>1. QuietInv' /\ Lost' = Lost \cup (IF Crash THEN Held ELSE {})
      BY <1>3, QuietStep, CardFilesStep
    <3>2. crashes \in Nat /\ Cardinality(Lost) \in Nat
      BY FS_CardinalityType DEF QuietInv, ChainsInv, TypeOK
    <3>3. CASE Crash /\ Held # {}
      <4>1. Held = {call.new} /\ crashes' = crashes + 1
        BY <3>3 DEF Held, Crash
      <4>2. IsFiniteSet(Lost') /\ Cardinality(Lost') <= Cardinality(Lost) + 1
        BY <3>1, <3>2, <3>3, <4>1, FS_AddElement
      <4>3. Cardinality(Lost') \in Nat
        BY <4>2, FS_CardinalityType
      <4>. QED  BY <3>1, <3>2, <4>1, <4>2, <4>3
    <3>4. CASE Crash /\ Held = {}
      BY <3>1, <3>2, <3>4 DEF Crash
    <3>5. CASE ~Crash
      <4>1. crashes' = crashes
        BY <3>5, StepKinds, ElsewhereStep
        DEF CreateFirst, CreateContinuation, LinkBlock, SetParentSize, WriteUnit,
            QuietInv, ChainsInv
      <4>. QED  BY <3>1, <3>5, <4>1
    <3>. QED  BY <3>3, <3>4, <3>5
  <2>. QED  BY <1>1, <1>2, <2>1, PTL DEF Spec
<1>4. CASE ~Quiet
  BY <1>4
<1>. QED  BY <1>3, <1>4
============================================================================
